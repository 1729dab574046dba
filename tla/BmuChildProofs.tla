---------------------------- MODULE BmuChildProofs ----------------------------
(***************************************************************************)
(* That the GUI sees all that its scripts write, and says of a run what    *)
(* came of it, for pipes of every size and scripts of every length.        *)
(***************************************************************************)
EXTENDS BmuChild, SequenceTheorems, TLAPS

Scripts == {"backmeup.sh", "backmeup.status.sh", "sign-in", "backmeup.updatedb.sh",
            "backmeup.replicate.sh", "backmeup.replicate.proton.sh"}
Endings == {"ok", "failed", "signalled", "never ran"}

Line == [script : Scripts, pipe : Pipe, n : Nat, utf8 : BOOLEAN]

TypeOK ==
    /\ cmd \in {"backup", "housekeeping", "query", "timed"}
    /\ backend \in {"none", "rclone", "proton", "local"}
    /\ todo \in Seq(Scripts)
    /\ child \in {"none", "running", "ok", "failed", "signalled"}
    /\ want \in Pipe \cup {"exit"} /\ willing \in BOOLEAN
    /\ pipe \in [Pipe -> Seq(Line)]
    /\ reader \in [Pipe -> {"nobody", "reading", "stopped"}]
    /\ chan \in Seq(Line) /\ log \in Seq(Line) /\ said \in Seq(Line)
    /\ caller \in {"spawn", "draining", "polling", "looked", "done"}
    /\ clock \in {"early", "late"}
    /\ ended \in Seq(Endings)

\* Of what is in the one, nothing comes after what is in the other.
Before(xs, ys) == \A x \in ToSet(xs), y \in ToSet(ys) : Same(x, y) => x.n < y.n

\* Where the calling thread is, and what there is of the script meanwhile.
Place ==
    /\ caller = "spawn" => child \in {"none", "ok"}
    /\ caller = "draining" => cmd # "timed" /\ \A p \in Pipe : reader[p] # "nobody"
    /\ caller \in {"polling", "looked"} => cmd = "timed"
    /\ caller = "done" => child # "running"
    /\ \A p \in Pipe :
         /\ reader[p] = "reading" => caller = "draining"
         /\ cmd = "timed" => reader[p] = "nobody"
         /\ cmd # "timed" /\ reader[p] # "reading" => pipe[p] = <<>>
    /\ chan # <<>> => caller = "draining"

\* Which scripts have been waited for, and which are still to be run.
Ahead ==
    /\ Len(ended) <= Len(Plan)
    /\ caller # "done" =>
         /\ result = None
         /\ Len(ended) < Len(Plan) /\ Len(todo) = Len(Plan) - Len(ended)
         /\ \A i \in 1..Len(todo) : todo[i] = Plan[Len(ended) + i]
         /\ \A i \in 1..Len(ended) : ended[i] = "ok"

AllOk == [i \in 1..Len(Plan) |-> "ok"]

Outcome ==
    caller = "done" =>
      /\ result = "ok" => ended = AllOk
      /\ ended = AllOk => result \in {"ok", "timed out", "not understood"}
      /\ result = "not understood" => cmd = "query" /\ \E x \in ToSet(said) : ~x.utf8
      /\ \A i \in 1..(Len(ended) - 1) : ended[i] = "ok"

\* The line comes from the script that runs.
Present(x) == caller \notin {"spawn", "done"} /\ x.script = Plan[Len(ended) + 1]

\* Lines are numbered as they are written, by a script that runs or has run.
Numbered == \A i \in 1..Len(said) : said[i].n = i - 1

Authors == \A x \in ToSet(said) : WaitedFor(x) \/ Present(x)

\* What is in a pipe was written into it, in this order.
InPipe ==
    \A p \in Pipe :
      /\ InOrder(pipe[p])
      /\ \A x \in ToSet(pipe[p]) : x \in ToSet(said) /\ x.pipe = p

\* A line goes from its pipe through the channel to the log and passes no other one.
Passing ==
    cmd # "timed" =>
      /\ InOrder(log) /\ InOrder(chan) /\ Before(log, chan)
      /\ \A p \in Pipe : Before(log, pipe[p]) /\ Before(chan, pipe[p])
      /\ \A x \in ToSet(log) \cup ToSet(chan) : x \in ToSet(said) /\ Readable(x)
      /\ \A p \in Pipe : \A x \in ToSet(pipe[p]) : Present(x)

\* None is lost on the way, but from the first one on that cannot be read.
NoneLost ==
    cmd # "timed" =>
      \A x \in ToSet(said) :
        /\ WaitedFor(x) /\ Readable(x) => x \in ToSet(log)
        /\ Present(x) /\ (reader[x.pipe] = "reading" \/ Readable(x)) =>
             x \in ToSet(log) \cup ToSet(chan) \cup ToSet(pipe[x.pipe])

\* What nobody reads while the script runs stays in the pipes.
Waiting ==
    cmd = "timed" /\ caller # "done" =>
      /\ log = <<>>
      /\ \A x \in ToSet(said) : x \in ToSet(pipe[x.pipe])

Answered ==
    cmd = "timed" /\ caller = "done" =>
      /\ result \in {"ok", "failed"} =>
           /\ ToSet(log) = ToSet(said) /\ InOrder(log)
           /\ \A i, j \in 1..Len(log) :
                log[i].pipe = "stdout" /\ log[j].pipe = "stderr" => i < j
      /\ result = "timed out" => clock = "late"

ChildInv ==
    /\ TypeOK /\ Place /\ Ahead /\ Outcome
    /\ Numbered /\ Authors /\ InPipe /\ Passing /\ NoneLost
    /\ Waiting /\ Answered

--------------------------------------------------------------------------------
(* What the operators on sequences do to the set of lines and to their order. *)

LEMMA SetOfEmpty == ToSet(<<>>) = {}
  BY DEF ToSet

LEMMA SetOfAppend ==
  ASSUME NEW xs \in Seq(Line), NEW x \in Line
  PROVE  ToSet(Append(xs, x)) = ToSet(xs) \cup {x}
<1> DEFINE ys == Append(xs, x)
<1>1. /\ Len(ys) = Len(xs) + 1 /\ ys \in Seq(Line)
      /\ ys[Len(xs) + 1] = x
      /\ \A i \in 1..Len(xs) : ys[i] = xs[i]
  BY AppendProperties
<1>2. DOMAIN ys = 1..(Len(xs) + 1) /\ DOMAIN xs = 1..Len(xs) /\ Len(xs) \in Nat
  BY <1>1, LenProperties
<1> QED
  BY <1>1, <1>2 DEF ToSet

LEMMA SetOfTail ==
  ASSUME NEW xs \in Seq(Line), xs # <<>>
  PROVE  /\ ToSet(xs) = {Head(xs)} \cup ToSet(Tail(xs))
         /\ Head(xs) \in Line /\ Tail(xs) \in Seq(Line)
<1>1. /\ Head(xs) \in Line /\ Tail(xs) \in Seq(Line)
      /\ Len(Tail(xs)) = Len(xs) - 1
      /\ \A i \in 1..Len(Tail(xs)) : Tail(xs)[i] = xs[i + 1]
  BY HeadTailProperties
<1>2. /\ DOMAIN xs = 1..Len(xs) /\ DOMAIN Tail(xs) = 1..(Len(xs) - 1)
      /\ Len(xs) \in Nat \ {0} /\ Head(xs) = xs[1]
  BY <1>1, LenProperties, EmptySeq
<1>3. \A i \in 2..Len(xs) : i - 1 \in 1..(Len(xs) - 1) /\ Tail(xs)[i - 1] = xs[i]
  BY <1>1, <1>2
<1>4. ASSUME NEW x \in ToSet(xs) PROVE x \in {Head(xs)} \cup ToSet(Tail(xs))
  <2>1. PICK i \in 1..Len(xs) : x = xs[i]
    BY <1>2 DEF ToSet
  <2>2. CASE i = 1
    BY <2>1, <2>2, <1>2
  <2>3. CASE i # 1
    <3>1. i \in 2..Len(xs)
      BY <2>3, <1>2
    <3> QED
      BY <2>1, <3>1, <1>2, <1>3 DEF ToSet
  <2> QED
    BY <2>2, <2>3
<1>5. Head(xs) \in ToSet(xs)
  BY <1>2 DEF ToSet
<1>6. ASSUME NEW x \in ToSet(Tail(xs)) PROVE x \in ToSet(xs)
  <2>1. PICK i \in 1..(Len(xs) - 1) : x = Tail(xs)[i]
    BY <1>2 DEF ToSet
  <2>2. i + 1 \in 1..Len(xs) /\ x = xs[i + 1]
    BY <2>1, <1>1, <1>2
  <2> QED
    BY <2>2, <1>2 DEF ToSet
<1> QED
  BY <1>1, <1>4, <1>5, <1>6

LEMMA SetOfConcat ==
  ASSUME NEW xs \in Seq(Line), NEW ys \in Seq(Line)
  PROVE  ToSet(xs \o ys) = ToSet(xs) \cup ToSet(ys)
<1>1. /\ xs \o ys \in Seq(Line) /\ Len(xs \o ys) = Len(xs) + Len(ys)
      /\ \A i \in 1..(Len(xs) + Len(ys)) :
           (xs \o ys)[i] = IF i <= Len(xs) THEN xs[i] ELSE ys[i - Len(xs)]
  BY ConcatProperties
<1>2. /\ DOMAIN xs = 1..Len(xs) /\ DOMAIN ys = 1..Len(ys)
      /\ DOMAIN (xs \o ys) = 1..(Len(xs) + Len(ys))
      /\ Len(xs) \in Nat /\ Len(ys) \in Nat
  BY <1>1, LenProperties
<1>3. \A i \in 1..Len(ys) : i + Len(xs) \in 1..(Len(xs) + Len(ys))
                            /\ (xs \o ys)[i + Len(xs)] = ys[i]
  BY <1>1, <1>2
<1> QED
  BY <1>1, <1>2, <1>3 DEF ToSet

LEMMA OrderOfAppend ==
  ASSUME NEW xs \in Seq(Line), NEW x \in Line, InOrder(xs),
         \A y \in ToSet(xs) : Same(y, x) => y.n < x.n
  PROVE  InOrder(Append(xs, x))
<1> DEFINE ys == Append(xs, x)
<1>1. /\ Len(ys) = Len(xs) + 1
      /\ ys[Len(xs) + 1] = x
      /\ \A i \in 1..Len(xs) : ys[i] = xs[i]
  BY AppendProperties
<1>2. Len(xs) \in Nat /\ \A i \in 1..Len(xs) : xs[i] \in ToSet(xs)
  BY LenProperties DEF ToSet
<1> QED
  BY <1>1, <1>2 DEF InOrder

LEMMA OrderOfTail ==
  ASSUME NEW xs \in Seq(Line), xs # <<>>, InOrder(xs)
  PROVE  /\ InOrder(Tail(xs))
         /\ \A y \in ToSet(Tail(xs)) : Same(Head(xs), y) => Head(xs).n < y.n
<1>1. /\ Len(Tail(xs)) = Len(xs) - 1 /\ Tail(xs) \in Seq(Line)
      /\ \A i \in 1..Len(Tail(xs)) : Tail(xs)[i] = xs[i + 1]
  BY HeadTailProperties
<1>2. Len(xs) \in Nat \ {0} /\ Head(xs) = xs[1] /\ DOMAIN Tail(xs) = 1..(Len(xs) - 1)
  BY <1>1, LenProperties, EmptySeq
<1>3. ASSUME NEW i \in 1..(Len(xs) - 1), NEW j \in 1..(Len(xs) - 1), i < j,
             Same(Tail(xs)[i], Tail(xs)[j])
      PROVE  Tail(xs)[i].n < Tail(xs)[j].n
  <2>1. /\ i + 1 \in 1..Len(xs) /\ j + 1 \in 1..Len(xs) /\ i + 1 < j + 1
        /\ Tail(xs)[i] = xs[i + 1] /\ Tail(xs)[j] = xs[j + 1]
    BY <1>1, <1>2, <1>3
  <2> QED
    BY <1>3, <2>1 DEF InOrder
<1>4. ASSUME NEW y \in ToSet(Tail(xs)), Same(Head(xs), y) PROVE Head(xs).n < y.n
  <2>1. PICK i \in 1..(Len(xs) - 1) : y = Tail(xs)[i]
    BY <1>2 DEF ToSet
  <2>2. 1 \in 1..Len(xs) /\ i + 1 \in 1..Len(xs) /\ 1 < i + 1 /\ y = xs[i + 1]
    BY <1>1, <1>2, <2>1
  <2> QED
    BY <1>2, <1>4, <2>2 DEF InOrder
<1> QED
  BY <1>1, <1>3, <1>4 DEF InOrder

LEMMA OrderOfConcat ==
  ASSUME NEW xs \in Seq(Line), NEW ys \in Seq(Line), InOrder(xs), InOrder(ys),
         Before(xs, ys)
  PROVE  InOrder(xs \o ys)
<1>1. /\ Len(xs \o ys) = Len(xs) + Len(ys)
      /\ \A i \in 1..(Len(xs) + Len(ys)) :
           (xs \o ys)[i] = IF i <= Len(xs) THEN xs[i] ELSE ys[i - Len(xs)]
  BY ConcatProperties
<1>2. /\ Len(xs) \in Nat /\ \A i \in 1..Len(xs) : xs[i] \in ToSet(xs)
      /\ Len(ys) \in Nat /\ \A i \in 1..Len(ys) : ys[i] \in ToSet(ys)
  BY LenProperties DEF ToSet
<1> DEFINE zs == xs \o ys
<1>3. ASSUME NEW i \in 1..(Len(xs) + Len(ys)), NEW j \in 1..(Len(xs) + Len(ys)), i < j,
             Same(zs[i], zs[j])
      PROVE  zs[i].n < zs[j].n
  <2>1. CASE j <= Len(xs)
    <3>1. i \in 1..Len(xs) /\ j \in 1..Len(xs) /\ zs[i] = xs[i] /\ zs[j] = xs[j]
      BY <1>1, <1>2, <1>3, <2>1
    <3> QED
      BY <1>3, <3>1 DEF InOrder
  <2>2. CASE i <= Len(xs) /\ ~(j <= Len(xs))
    <3>1. /\ i \in 1..Len(xs) /\ j - Len(xs) \in 1..Len(ys)
          /\ zs[i] = xs[i] /\ zs[j] = ys[j - Len(xs)]
      BY <1>1, <1>2, <1>3, <2>2
    <3> QED
      BY <1>2, <1>3, <3>1 DEF Before
  <2>3. CASE ~(i <= Len(xs))
    <3>1. /\ i - Len(xs) \in 1..Len(ys) /\ j - Len(xs) \in 1..Len(ys)
          /\ i - Len(xs) < j - Len(xs)
          /\ zs[i] = ys[i - Len(xs)] /\ zs[j] = ys[j - Len(xs)]
      BY <1>1, <1>2, <1>3, <2>3
    <3> QED
      BY <1>3, <3>1 DEF InOrder
  <2> QED
    BY <1>2, <2>1, <2>2, <2>3
<1> QED
  BY <1>1, <1>3 DEF InOrder

LEMMA OrderOfEmpty == InOrder(<<>>)
  BY DEF InOrder
--------------------------------------------------------------------------------
(* The scripts of a run are one or two, and different ones. *)

LEMMA TwoInOne ==
  ASSUME NEW a \in Scripts, NEW b \in Scripts
  PROVE  <<a>> \o <<b>> = <<a, b>>
<1>1. /\ <<a>> \in Seq(Scripts) /\ <<b>> \in Seq(Scripts) /\ <<a, b>> \in Seq(Scripts)
      /\ Len(<<a>>) = 1 /\ Len(<<b>>) = 1 /\ Len(<<a, b>>) = 2
  OBVIOUS
<1>2. Len(<<a>> \o <<b>>) = 2 /\ <<a>> \o <<b>> \in Seq(Scripts)
  BY <1>1, ConcatProperties
<1>3. \A i \in 1..2 : (<<a>> \o <<b>>)[i] = <<a, b>>[i]
  BY <1>1, ConcatProperties
<1> QED
  BY <1>1, <1>2, <1>3, SeqEqual

LEMMA PlanCases ==
  ASSUME cmd \in {"backup", "housekeeping", "query", "timed"}
  PROVE  \/ \E a \in Scripts : Plan = <<a>>
         \/ /\ cmd = "housekeeping"
            /\ \E a, b \in Scripts : a # b /\ Plan = <<a, b>>
<1> DEFINE first == "backmeup.updatedb.sh"
<1>2. CASE cmd # "housekeeping"
  <2>1. \/ Plan = <<"backmeup.sh">> \/ Plan = <<"backmeup.status.sh">>
        \/ Plan = <<"sign-in">>
    BY <1>2 DEF Plan
  <2> QED
    BY <2>1 DEF Scripts
<1>3. CASE cmd = "housekeeping"
  <2>1. ASSUME NEW b \in {"backmeup.replicate.sh", "backmeup.replicate.proton.sh"},
               Plan = <<first>> \o <<b>>
        PROVE  first # b /\ first \in Scripts /\ b \in Scripts /\ Plan = <<first, b>>
    BY <2>1, TwoInOne DEF Scripts
  <2>2. ASSUME Plan = <<first>> \o <<>> PROVE Plan = <<first>> /\ first \in Scripts
    <3>1. first \in Scripts /\ <<first>> \in Seq(Scripts)
      BY DEF Scripts
    <3> QED
      BY <2>2, <3>1, ConcatEmptySeq
  <2>3. \/ Plan = <<first>> \o <<"backmeup.replicate.sh">>
        \/ Plan = <<first>> \o <<"backmeup.replicate.proton.sh">>
        \/ Plan = <<first>> \o <<>>
    BY <1>3 DEF Plan
  <2> HIDE DEF first
  <2> QED
    BY <1>3, <2>1, <2>2, <2>3
<1> QED
  BY <1>2, <1>3

LEMMA PlanTyped ==
  ASSUME cmd \in {"backup", "housekeeping", "query", "timed"}
  PROVE  /\ Plan \in Seq(Scripts) /\ Len(Plan) \in {1, 2}
         /\ cmd # "housekeeping" => Len(Plan) = 1
         /\ \A i, j \in 1..Len(Plan) : Plan[i] = Plan[j] => i = j
<1>1. ASSUME NEW a \in Scripts, Plan = <<a>>
      PROVE  /\ Plan \in Seq(Scripts) /\ Len(Plan) = 1
             /\ \A i, j \in 1..Len(Plan) : Plan[i] = Plan[j] => i = j
  BY <1>1
<1>2. ASSUME NEW a \in Scripts, NEW b \in Scripts, a # b, Plan = <<a, b>>
      PROVE  /\ Plan \in Seq(Scripts) /\ Len(Plan) = 2
             /\ \A i, j \in 1..Len(Plan) : Plan[i] = Plan[j] => i = j
  BY <1>2
<1> QED
  BY <1>1, <1>2, PlanCases

LEMMA PlanShape ==
  ASSUME TypeOK
  PROVE  /\ Plan \in Seq(Scripts) /\ Len(Plan) \in {1, 2}
         /\ cmd # "housekeeping" => Len(Plan) = 1
         /\ \A i, j \in 1..Len(Plan) : Plan[i] = Plan[j] => i = j
  BY PlanTyped DEF TypeOK

LEMMA PlanFixed == ASSUME UNCHANGED <<cmd, backend>> PROVE Plan' = Plan
  BY DEF Plan

\* A line is written once.
LEMMA OneNumber ==
  ASSUME TypeOK, Numbered, NEW x \in ToSet(said)
  PROVE  /\ x \in Line /\ x.n \in Nat /\ x.n < Len(said)
         /\ \A y \in ToSet(said) : y.n = x.n => y = x
<1>1. said \in Seq(Line) /\ Len(said) \in Nat /\ DOMAIN said = 1..Len(said)
  BY LenProperties DEF TypeOK
<1>2. PICK i \in 1..Len(said) : x = said[i] /\ x.n = i - 1 /\ said[i] \in Line
  BY <1>1, ElementOfSeq DEF ToSet, Numbered
<1>3. ASSUME NEW y \in ToSet(said), y.n = x.n PROVE y = x
  <2>1. PICK j \in 1..Len(said) : y = said[j] /\ y.n = j - 1
    BY <1>1 DEF ToSet, Numbered
  <2> QED
    BY <1>2, <1>3, <2>1
<1> QED
  BY <1>1, <1>2, <1>3

\* The script that runs is none of those that were waited for.
LEMMA PresentIsNew ==
  ASSUME TypeOK, Ahead, NEW x, Present(x)
  PROVE  ~WaitedFor(x)
<1>1. Len(ended) \in Nat /\ Len(ended) + 1 \in 1..Len(Plan)
  BY PlanShape, LenProperties DEF TypeOK, Ahead, Present
<1> QED
  BY <1>1, PlanShape DEF WaitedFor, Present

--------------------------------------------------------------------------------
(* Steps after which the lines are where they were. *)

\* What is said of lines does not depend on the script's end or on the clock.
LEMMA LinesStill ==
  ASSUME ChildInv,
         UNCHANGED <<cmd, backend, pipe, reader, chan, log, said, ended>>,
         caller' = caller \/ (cmd = "timed" /\ {caller, caller'} \subseteq {"polling", "looked"})
  PROVE  /\ Numbered' /\ Authors' /\ InPipe' /\ Passing' /\ NoneLost' /\ Waiting'
<1>1. Plan' = Plan
  BY PlanFixed
<1>2. \A x : (WaitedFor(x)' <=> WaitedFor(x)) /\ (Present(x)' <=> Present(x))
             /\ (Readable(x)' <=> Readable(x))
  BY <1>1 DEF WaitedFor, Present, Readable
<1>3. Numbered' /\ InPipe' /\ Waiting'
  BY DEF ChildInv, Numbered, InPipe, Waiting
<1>4. Authors'
  BY <1>2 DEF ChildInv, Authors
<1>5. Passing'
  BY <1>2 DEF ChildInv, Passing, Before
<1>6. NoneLost'
  BY <1>2 DEF ChildInv, NoneLost
<1> QED
  BY <1>3, <1>4, <1>5, <1>6
LEMMA TickStep == ASSUME ChildInv, Tick PROVE ChildInv'
<1>1. Numbered' /\ Authors' /\ InPipe' /\ Passing' /\ NoneLost' /\ Waiting'
  BY LinesStill DEF Tick
<1>2. Plan' = Plan
  BY PlanFixed DEF Tick
<1>3. TypeOK' /\ Place'
  BY DEF ChildInv, Tick, TypeOK, Place
<1>4. Ahead' /\ Outcome'
  BY <1>2 DEF ChildInv, Tick, Ahead, Outcome, AllOk
<1>5. Answered'
  BY DEF ChildInv, Tick, Answered
<1> QED
  BY <1>1, <1>3, <1>4, <1>5 DEF ChildInv

\* The script ends by itself or by a write that nobody reads.
LEMMA EndsStep ==
  ASSUME ChildInv, Exit \/ \E p \in Pipe : WriteClosed(p)
  PROVE  ChildInv'
<1>0. /\ child = "running" /\ child' \in {"ok", "failed", "signalled"}
      /\ UNCHANGED <<cmd, backend, todo, want, willing, pipe, reader, chan, caller, clock,
                     log, result, said, ended>>
  BY DEF Exit, WriteClosed
<1>1. Numbered' /\ Authors' /\ InPipe' /\ Passing' /\ NoneLost' /\ Waiting'
  BY <1>0, LinesStill
<1>2. Plan' = Plan
  BY <1>0, PlanFixed
<1>3. TypeOK' /\ Place'
  BY <1>0 DEF ChildInv, TypeOK, Place
<1>4. Ahead' /\ Outcome'
  BY <1>0, <1>2 DEF ChildInv, Ahead, Outcome, AllOk
<1>5. Answered'
  BY <1>0 DEF ChildInv, Answered
<1> QED
  BY <1>1, <1>3, <1>4, <1>5 DEF ChildInv

\* The caller of a command with a time limit looks and finds nothing to do.
LEMMA LooksStep ==
  ASSUME ChildInv, (Poll /\ ~Ended) \/ (Time /\ clock # "late")
  PROVE  ChildInv'
<1>0. /\ {caller, caller'} \subseteq {"polling", "looked"}
      /\ UNCHANGED <<cmd, backend, todo, child, want, willing, pipe, reader, chan, clock,
                     log, result, said, ended>>
  BY DEF Poll, Time
<1>1. cmd = "timed"
  BY <1>0 DEF ChildInv, Place
<1>2. Numbered' /\ Authors' /\ InPipe' /\ Passing' /\ NoneLost' /\ Waiting'
  BY <1>0, <1>1, LinesStill
<1>3. Plan' = Plan
  BY <1>0, PlanFixed
<1>4. TypeOK' /\ Place'
  BY <1>0, <1>1 DEF ChildInv, TypeOK, Place
<1>5. Ahead' /\ Outcome'
  BY <1>0, <1>3 DEF ChildInv, Ahead, Outcome
<1>6. Answered'
  BY <1>0 DEF ChildInv, Answered
<1> QED
  BY <1>2, <1>4, <1>5, <1>6 DEF ChildInv

--------------------------------------------------------------------------------
(* The script writes. *)

LEMMA WriteStep == ASSUME ChildInv, NEW p \in Pipe, Write(p) PROVE ChildInv'
<1> USE DEF ChildInv
<1>1. PICK good \in BOOLEAN :
        LET x == [script |-> Head(todo), pipe |-> p, n |-> Len(said), utf8 |-> good]
        IN  pipe' = [pipe EXCEPT ![p] = Append(@, x)] /\ said' = Append(said, x)
  BY DEF Write
<1> DEFINE x == [script |-> Head(todo), pipe |-> p, n |-> Len(said), utf8 |-> good]
<1>2. /\ child = "running" /\ reader[p] # "stopped" /\ want' \in Pipe \cup {"exit"}
      /\ UNCHANGED <<cmd, backend, todo, child, willing, reader, chan, caller, clock,
                     log, result, ended>>
  BY DEF Write, Wants
<1>3. caller \notin {"spawn", "done"} /\ (cmd # "timed" => caller = "draining" /\ reader[p] = "reading")
  BY <1>2 DEF Place, TypeOK
<1>4. Head(todo) = Plan[Len(ended) + 1] /\ Head(todo) \in Scripts /\ Len(said) \in Nat
  <2>1. Len(todo) \in Nat \ {0} /\ todo \in Seq(Scripts) /\ Len(ended) \in Nat
    BY <1>3, PlanShape, LenProperties DEF Ahead, TypeOK
  <2>2. todo[1] = Plan[Len(ended) + 1]
    BY <1>3, <2>1 DEF Ahead
  <2>3. todo # <<>>
    BY <2>1, EmptySeq
  <2> QED
    BY <2>1, <2>2, <2>3, HeadTailProperties, LenProperties DEF TypeOK
<1>5. x \in Line /\ x.n = Len(said) /\ x.pipe = p /\ x.script = Head(todo) /\ x.utf8 = good
  BY <1>4 DEF Line, Pipe
<1> HIDE DEF x
<1>6. pipe' = [pipe EXCEPT ![p] = Append(@, x)] /\ said' = Append(said, x)
  BY <1>1 DEF x
<1>7. TypeOK'
  <2>1. Append(said, x) \in Seq(Line) /\ Append(pipe[p], x) \in Seq(Line)
    BY <1>5, AppendProperties DEF TypeOK
  <2> QED
    BY <1>2, <1>6, <2>1 DEF TypeOK
<1>8. /\ ToSet(said') = ToSet(said) \cup {x}
      /\ ToSet(pipe'[p]) = ToSet(pipe[p]) \cup {x}
      /\ \A q \in Pipe \ {p} : pipe'[q] = pipe[q]
  BY <1>5, <1>6, SetOfAppend DEF TypeOK
<1>9. Plan' = Plan
  BY <1>2, PlanFixed
<1>10. \A y : (WaitedFor(y)' <=> WaitedFor(y)) /\ (Present(y)' <=> Present(y))
  BY <1>2, <1>9 DEF WaitedFor, Present
<1>11. Present(x) /\ ~WaitedFor(x)
  BY <1>3, <1>4, <1>5, PresentIsNew DEF Present
<1>12. \A y \in ToSet(said) : y \in Line /\ y.n \in Nat /\ y.n < x.n /\ (Readable(y)' <=> Readable(y))
  <2>1. \A y \in ToSet(said) : y \in Line /\ y.n \in Nat /\ y.n < x.n
    BY <1>5, OneNumber
  <2> QED
    BY <1>2, <1>4, <1>5, <1>8, <2>1 DEF Readable
<1>13. Place'
  BY <1>2, <1>3, <1>6 DEF Place, TypeOK
<1>14. Ahead' /\ Outcome' /\ Answered'
  BY <1>2, <1>3, <1>9 DEF Ahead, Outcome, Answered
<1>15. Numbered'
  <2>1. /\ Len(said') = Len(said) + 1 /\ said'[Len(said) + 1] = x
        /\ \A i \in 1..Len(said) : said'[i] = said[i]
    BY <1>5, <1>6, AppendProperties DEF TypeOK
  <2> QED
    BY <1>4, <1>5, <2>1 DEF Numbered
<1>16. Authors'
  BY <1>8, <1>10, <1>11 DEF Authors
<1>17. InPipe'
  <2>1. InOrder(pipe'[p])
    BY <1>5, <1>6, <1>12, OrderOfAppend DEF InPipe, TypeOK
  <2> QED
    BY <1>5, <1>8, <2>1 DEF InPipe
<1>18. Passing'
  <2>1. CASE cmd # "timed"
    <3>1. \A y \in ToSet(log) \cup ToSet(chan) : y.n < x.n /\ y \in ToSet(said) /\ Readable(y)
      BY <1>12, <2>1 DEF Passing
    <3>2. \A q \in Pipe : Before(log, pipe[q])' /\ Before(chan, pipe[q])'
      BY <1>2, <1>8, <2>1, <3>1 DEF Passing, Before
    <3>3. \A y \in ToSet(log) \cup ToSet(chan) : y \in ToSet(said') /\ Readable(y)'
      BY <1>8, <1>12, <3>1
    <3>4. \A q \in Pipe : \A y \in ToSet(pipe'[q]) : Present(y)'
      BY <1>8, <1>10, <1>11, <2>1 DEF Passing
    <3> QED
      BY <1>2, <2>1, <3>2, <3>3, <3>4 DEF Passing, Before
  <2> QED
    BY <1>2, <2>1 DEF Passing
<1>19. \A y \in ToSet(said) : y.pipe \in Pipe /\ ToSet(pipe[y.pipe]) \subseteq ToSet(pipe'[y.pipe])
  BY <1>8, <1>12 DEF Line
<1>20. NoneLost'
  <2> SUFFICES ASSUME cmd # "timed", NEW y \in ToSet(said')
               PROVE  /\ WaitedFor(y)' /\ Readable(y)' => y \in ToSet(log')
                      /\ Present(y)' /\ (reader'[y.pipe] = "reading" \/ Readable(y)') =>
                           y \in ToSet(log') \cup ToSet(chan') \cup ToSet(pipe'[y.pipe])
    BY <1>2 DEF NoneLost
  <2>1. CASE y = x
    BY <1>5, <1>8, <1>10, <1>11, <2>1
  <2>2. CASE y \in ToSet(said)
    BY <1>2, <1>10, <1>12, <1>19, <2>2 DEF NoneLost
  <2> QED
    BY <1>8, <2>1, <2>2
<1>21. Waiting'
  <2> SUFFICES ASSUME cmd = "timed", caller # "done", NEW y \in ToSet(said')
               PROVE  y \in ToSet(pipe'[y.pipe])
    BY <1>2 DEF Waiting
  <2>1. CASE y = x
    BY <1>5, <1>8, <2>1
  <2>2. CASE y \in ToSet(said)
    BY <1>19, <2>2 DEF Waiting
  <2> QED
    BY <1>8, <2>1, <2>2
<1> QED
  BY <1>7, <1>13, <1>14, <1>15, <1>16, <1>17, <1>18, <1>20, <1>21
--------------------------------------------------------------------------------
(* The readers. *)

\* A line that can be read, or any of a query, goes into the channel.
LEMMA ReadOneStep ==
  ASSUME ChildInv, NEW p \in Pipe, Read(p), cmd = "query" \/ Head(pipe[p]).utf8
  PROVE  ChildInv'
<1> USE DEF ChildInv
<1> DEFINE x == Head(pipe[p])
<1>1. /\ reader[p] = "reading" /\ pipe[p] # <<>>
      /\ chan' = Append(chan, x) /\ pipe' = [pipe EXCEPT ![p] = Tail(@)]
      /\ UNCHANGED <<cmd, backend, todo, child, want, willing, reader, caller, clock, log,
                     result, said, ended>>
  BY DEF Read
<1>2. /\ pipe[p] \in Seq(Line) /\ x \in Line /\ Tail(pipe[p]) \in Seq(Line)
      /\ ToSet(pipe[p]) = {x} \cup ToSet(Tail(pipe[p]))
      /\ InOrder(Tail(pipe[p])) /\ \A y \in ToSet(Tail(pipe[p])) : Same(x, y) => x.n < y.n
  <2>1. pipe[p] \in Seq(Line)
    BY DEF TypeOK
  <2> QED
    BY <1>1, <2>1, SetOfTail, OrderOfTail DEF InPipe
<1>3. caller = "draining" /\ cmd # "timed"
  BY <1>1 DEF Place
<1> HIDE DEF x
<1>4. x \in ToSet(said) /\ x.pipe = p /\ Present(x)
  BY <1>2, <1>3 DEF InPipe, Passing
<1>5. TypeOK'
  <2>1. Append(chan, x) \in Seq(Line)
    BY <1>2, AppendProperties DEF TypeOK
  <2> QED
    BY <1>1, <1>2, <2>1 DEF TypeOK
<1>6. /\ ToSet(chan') = ToSet(chan) \cup {x}
      /\ ToSet(pipe'[p]) = ToSet(Tail(pipe[p]))
      /\ \A q \in Pipe \ {p} : pipe'[q] = pipe[q]
  BY <1>1, <1>2, SetOfAppend DEF TypeOK
<1>7. Plan' = Plan
  BY <1>1, PlanFixed
<1>8. \A y : /\ WaitedFor(y)' <=> WaitedFor(y)
             /\ Present(y)' <=> Present(y)
             /\ Readable(y)' <=> Readable(y)
  BY <1>1, <1>7 DEF WaitedFor, Present, Readable
<1>9. Readable(x)
  <2> SUFFICES ASSUME x.utf8, cmd # "query", NEW y \in ToSet(said), Same(x, y), y.n <= x.n
               PROVE  y.utf8
    BY DEF Readable, x
  <2>1. /\ x.n \in Nat /\ y.n \in Nat /\ (y.n = x.n => y = x) /\ y \in Line
    BY <1>4, OneNumber
  <2>2. Present(y) /\ y.pipe = p
    BY <1>4 DEF Present, Same
  <2>3. y \in ToSet(log) \cup ToSet(chan) \cup ToSet(pipe[p])
    BY <1>1, <1>3, <2>2 DEF NoneLost
  <2>4. CASE y \in ToSet(log) \cup ToSet(chan)
    <3>1. Readable(y)
      BY <1>3, <2>4 DEF Passing
    <3> QED
      BY <2>1, <3>1 DEF Readable, Same
  <2>5. CASE y \in ToSet(pipe[p])
    BY <1>2, <2>1, <2>5
  <2> QED
    BY <2>3, <2>4, <2>5
<1>10. Place'
  <2>1. pipe' \in [Pipe -> Seq(Line)]
    BY <1>5 DEF TypeOK
  <2> QED
    BY <1>1, <1>3, <1>6 DEF Place
<1>11. Ahead' /\ Outcome' /\ Answered' /\ Numbered' /\ Waiting'
  BY <1>1, <1>3, <1>7 DEF Ahead, Outcome, Answered, Numbered, Waiting
<1>12. Authors'
  BY <1>1, <1>8 DEF Authors
<1>13. InPipe'
  BY <1>1, <1>2, <1>6 DEF InPipe, TypeOK
<1>14. Passing'
  <2>1. /\ InOrder(log) /\ InOrder(chan) /\ Before(log, chan)
        /\ \A q \in Pipe : Before(log, pipe[q]) /\ Before(chan, pipe[q])
    BY <1>3 DEF Passing
  <2>2. InOrder(chan')
    <3>1. \A y \in ToSet(chan) : Same(y, x) => y.n < x.n
      BY <1>2, <2>1 DEF Before
    <3> QED
      BY <1>1, <1>2, <2>1, <3>1, OrderOfAppend DEF TypeOK
  <2>3. Before(log, chan)'
    BY <1>1, <1>2, <1>6, <2>1 DEF Before
  <2>4. \A q \in Pipe : Before(log, pipe[q])'
    BY <1>1, <1>2, <1>6, <2>1 DEF Before
  <2>5. ASSUME NEW q \in Pipe, NEW y \in ToSet(chan'), NEW z \in ToSet(pipe'[q]), Same(y, z)
        PROVE  y.n < z.n
    <3>1. z.pipe = q /\ z \in ToSet(pipe[q])
      BY <1>2, <1>6 DEF InPipe
    <3>2. CASE y \in ToSet(chan)
      BY <2>1, <2>5, <3>1, <3>2 DEF Before
    <3>3. CASE y = x
      BY <1>2, <1>4, <1>6, <2>5, <3>1, <3>3 DEF Same
    <3> QED
      BY <1>6, <3>2, <3>3
  <2>6. \A y \in ToSet(log') \cup ToSet(chan') : y \in ToSet(said') /\ Readable(y)'
    BY <1>1, <1>3, <1>4, <1>6, <1>8, <1>9 DEF Passing
  <2>7. \A q \in Pipe : \A y \in ToSet(pipe'[q]) : Present(y)'
    BY <1>2, <1>3, <1>6, <1>8 DEF Passing
  <2> QED
    BY <1>1, <2>1, <2>2, <2>3, <2>4, <2>5, <2>6, <2>7 DEF Passing, Before
<1>15. NoneLost'
  <2> SUFFICES ASSUME NEW y \in ToSet(said)
               PROVE  /\ WaitedFor(y)' /\ Readable(y)' => y \in ToSet(log')
                      /\ Present(y)' /\ (reader'[y.pipe] = "reading" \/ Readable(y)') =>
                           y \in ToSet(log') \cup ToSet(chan') \cup ToSet(pipe'[y.pipe])
    BY <1>1 DEF NoneLost
  <2>1. y.pipe \in Pipe
    BY OneNumber DEF Line
  <2>2. ToSet(chan) \cup ToSet(pipe[y.pipe]) \subseteq ToSet(chan') \cup ToSet(pipe'[y.pipe])
    BY <1>2, <1>6, <2>1
  <2> QED
    BY <1>1, <1>3, <1>8, <2>2 DEF NoneLost
<1> QED
  BY <1>5, <1>10, <1>11, <1>12, <1>13, <1>14, <1>15

\* A reader stops, at a line it cannot read or at the end.
LEMMA StopStep ==
  ASSUME ChildInv, NEW p \in Pipe,
         \/ Read(p) /\ ~(cmd = "query" \/ Head(pipe[p]).utf8)
         \/ ReadEnd(p)
  PROVE  ChildInv'
<1> USE DEF ChildInv
<1>1. /\ reader[p] = "reading" /\ Stop(p)
      /\ UNCHANGED <<cmd, backend, todo, child, want, willing, chan, caller, clock, log,
                     result, said, ended>>
  BY DEF Read, ReadEnd
<1>2. /\ reader' = [reader EXCEPT ![p] = "stopped"] /\ pipe' = [pipe EXCEPT ![p] = <<>>]
  BY <1>1 DEF Stop
<1>3. caller = "draining" /\ cmd # "timed"
  BY <1>1 DEF Place
<1>4. TypeOK'
  BY <1>1, <1>2, EmptySeq DEF TypeOK
<1>5. /\ ToSet(pipe'[p]) = {} /\ InOrder(pipe'[p]) /\ pipe'[p] = <<>> /\ reader'[p] = "stopped"
      /\ \A q \in Pipe \ {p} : pipe'[q] = pipe[q] /\ reader'[q] = reader[q]
  BY <1>2, SetOfEmpty, OrderOfEmpty DEF TypeOK
<1>6. Plan' = Plan
  BY <1>1, PlanFixed
<1>7. \A y : /\ WaitedFor(y)' <=> WaitedFor(y)
             /\ Present(y)' <=> Present(y)
             /\ Readable(y)' <=> Readable(y)
  BY <1>1, <1>6 DEF WaitedFor, Present, Readable
<1>8. ASSUME NEW y \in ToSet(pipe[p]) PROVE ~Readable(y)
  <2>1. pipe[p] # <<>>
    BY <1>8, SetOfEmpty
  <2>2. Read(p) /\ cmd # "query" /\ ~Head(pipe[p]).utf8
    BY <2>1 DEF ReadEnd
  <2>3. /\ Head(pipe[p]) \in ToSet(pipe[p])
        /\ y = Head(pipe[p]) \/ (Same(Head(pipe[p]), y) => Head(pipe[p]).n < y.n)
    <3>1. pipe[p] \in Seq(Line) /\ InOrder(pipe[p])
      BY DEF TypeOK, InPipe
    <3> QED
      BY <1>8, <2>1, <3>1, SetOfTail, OrderOfTail
  <2>4. /\ Head(pipe[p]) \in ToSet(said) /\ y \in ToSet(said)
        /\ Same(y, Head(pipe[p])) /\ Same(Head(pipe[p]), y)
    BY <1>3, <1>8, <2>3 DEF InPipe, Passing, Present, Same
  <2>5. Head(pipe[p]).n \in Nat /\ y.n \in Nat
    BY <2>4, OneNumber
  <2>6. Head(pipe[p]).n <= y.n
    BY <2>3, <2>4, <2>5
  <2> QED
    BY <2>2, <2>4, <2>6 DEF Readable
<1>9. Place'
  BY <1>1, <1>3, <1>5 DEF Place
<1>10. Ahead' /\ Outcome' /\ Answered' /\ Numbered' /\ Waiting'
  BY <1>1, <1>3, <1>6 DEF Ahead, Outcome, Answered, Numbered, Waiting
<1>11. Authors'
  BY <1>1, <1>7 DEF Authors
<1>12. InPipe'
  BY <1>1, <1>5 DEF InPipe
<1>13. Passing'
  BY <1>1, <1>3, <1>5, <1>7 DEF Passing, Before
<1>14. NoneLost'
  <2> SUFFICES ASSUME NEW y \in ToSet(said)
               PROVE  /\ WaitedFor(y) /\ Readable(y) => y \in ToSet(log)
                      /\ Present(y) /\ (reader'[y.pipe] = "reading" \/ Readable(y)) =>
                           y \in ToSet(log) \cup ToSet(chan) \cup ToSet(pipe'[y.pipe])
    BY <1>1, <1>7 DEF NoneLost
  <2>1. y.pipe \in Pipe
    BY OneNumber DEF Line
  <2>2. CASE y.pipe = p
    BY <1>3, <1>5, <1>8, <2>2 DEF NoneLost
  <2>3. CASE y.pipe # p
    BY <1>3, <1>5, <2>1, <2>3 DEF NoneLost
  <2> QED
    BY <2>2, <2>3
<1> QED
  BY <1>4, <1>9, <1>10, <1>11, <1>12, <1>13, <1>14
--------------------------------------------------------------------------------
(* The caller. *)

\* for line in rx: a line goes from the channel into the log.
LEMMA DrainStep == ASSUME ChildInv, Drain PROVE ChildInv'
<1> USE DEF ChildInv
<1> DEFINE x == Head(chan)
<1>1. /\ caller = "draining" /\ chan # <<>>
      /\ log' = Append(log, x) /\ chan' = Tail(chan)
      /\ UNCHANGED <<cmd, backend, todo, child, want, willing, pipe, reader, caller, clock,
                     result, said, ended>>
  BY DEF Drain
<1>2. cmd # "timed"
  BY <1>1 DEF Place
<1>3. /\ x \in Line /\ Tail(chan) \in Seq(Line)
      /\ ToSet(chan) = {x} \cup ToSet(Tail(chan))
      /\ InOrder(Tail(chan)) /\ \A y \in ToSet(Tail(chan)) : Same(x, y) => x.n < y.n
  BY <1>1, <1>2, SetOfTail, OrderOfTail DEF Passing, TypeOK
<1> HIDE DEF x
<1>4. TypeOK'
  <2>1. Append(log, x) \in Seq(Line)
    BY <1>3, AppendProperties DEF TypeOK
  <2> QED
    BY <1>1, <1>3, <2>1 DEF TypeOK
<1>5. ToSet(log') = ToSet(log) \cup {x} /\ ToSet(chan') = ToSet(Tail(chan))
  BY <1>1, <1>3, SetOfAppend DEF TypeOK
<1>6. Plan' = Plan
  BY <1>1, PlanFixed
<1>7. \A y : /\ WaitedFor(y)' <=> WaitedFor(y)
             /\ Present(y)' <=> Present(y)
             /\ Readable(y)' <=> Readable(y)
  BY <1>1, <1>6 DEF WaitedFor, Present, Readable
<1>8. Place'
  BY <1>1 DEF Place
<1>9. Ahead' /\ Outcome' /\ Answered' /\ Numbered' /\ InPipe' /\ Waiting'
  BY <1>1, <1>2, <1>6 DEF Ahead, Outcome, Answered, Numbered, InPipe, Waiting
<1>10. Authors'
  BY <1>1, <1>7 DEF Authors
<1>11. Passing'
  <2>1. /\ InOrder(log) /\ InOrder(chan) /\ Before(log, chan)
        /\ \A q \in Pipe : Before(log, pipe[q]) /\ Before(chan, pipe[q])
    BY <1>2 DEF Passing
  <2>2. InOrder(log') /\ InOrder(chan')
    <3>1. \A y \in ToSet(log) : Same(y, x) => y.n < x.n
      BY <1>3, <2>1 DEF Before
    <3> QED
      BY <1>1, <1>3, <2>1, <3>1, OrderOfAppend DEF TypeOK
  <2>3. Before(log, chan)'
    BY <1>3, <1>5, <2>1 DEF Before
  <2>4. \A q \in Pipe : Before(log, pipe[q])' /\ Before(chan, pipe[q])'
    BY <1>1, <1>3, <1>5, <2>1 DEF Before
  <2>5. ToSet(log') \cup ToSet(chan') = ToSet(log) \cup ToSet(chan)
    BY <1>3, <1>5
  <2> QED
    BY <1>1, <1>2, <1>7, <2>2, <2>3, <2>4, <2>5 DEF Passing, Before
<1>12. NoneLost'
  <2>1. /\ ToSet(log') \cup ToSet(chan') = ToSet(log) \cup ToSet(chan)
        /\ ToSet(log) \subseteq ToSet(log')
    BY <1>3, <1>5
  <2> QED
    BY <1>1, <1>2, <1>7, <2>1 DEF NoneLost
<1> QED
  BY <1>4, <1>8, <1>9, <1>10, <1>11, <1>12

\* What a script that has been waited for adds to what was known of the run.
LEMMA EndedLonger ==
  ASSUME TypeOK, Ahead, caller # "done", NEW e \in Endings, ended' = Append(ended, e),
         UNCHANGED <<cmd, backend>>
  PROVE  /\ ended' \in Seq(Endings) /\ Len(ended) \in Nat
         /\ Len(ended') = Len(ended) + 1 /\ Len(ended') <= Len(Plan)
         /\ ended' = AllOk' <=> e = "ok" /\ Len(ended') = Len(Plan)
         /\ \A i \in 1..(Len(ended') - 1) : ended'[i] = "ok"
         /\ ended'[Len(ended')] = e
         /\ Plan' = Plan
<1>1. /\ Len(ended') = Len(ended) + 1 /\ ended' \in Seq(Endings)
      /\ ended'[Len(ended) + 1] = e
      /\ \A i \in 1..Len(ended) : ended'[i] = ended[i]
  BY AppendProperties DEF TypeOK
<1>2. Len(ended) \in Nat /\ Len(Plan) \in {1, 2} /\ Len(ended) < Len(Plan)
  BY PlanShape, LenProperties DEF TypeOK, Ahead
<1>3. \A i \in 1..Len(ended) : ended'[i] = "ok"
  BY <1>1 DEF Ahead
<1>4. Plan' = Plan
  BY PlanFixed
<1>5. /\ AllOk' \in Seq(Endings) /\ Len(AllOk') = Len(Plan)
      /\ \A i \in 1..Len(Plan) : AllOk'[i] = "ok"
  <2>1. AllOk' = [i \in 1..Len(Plan) |-> "ok"]
    BY <1>4 DEF AllOk
  <2>2. "ok" \in Endings
    BY DEF Endings
  <2> QED
    BY <1>2, <2>1, <2>2
<1>6. ASSUME ended' = AllOk' PROVE e = "ok" /\ Len(ended') = Len(Plan)
  BY <1>1, <1>2, <1>5, <1>6
<1>7. ASSUME e = "ok", Len(ended') = Len(Plan) PROVE ended' = AllOk'
  <2>1. \A i \in 1..Len(ended') : ended'[i] = AllOk'[i]
    BY <1>1, <1>2, <1>3, <1>5, <1>7
  <2>2. ended' \in Seq(Endings) /\ AllOk' \in Seq(Endings) /\ Len(ended') = Len(AllOk')
    BY <1>1, <1>5, <1>7
  <2> QED
    BY <2>1, <2>2, SeqEqual
<1> QED
  BY <1>1, <1>2, <1>3, <1>4, <1>6, <1>7
\* Both readers have stopped and the script has been waited for.
LEMMA JoinStep == ASSUME ChildInv, Join PROVE ChildInv'
<1> USE DEF ChildInv
<1>1. /\ caller = "draining" /\ chan = <<>> /\ \A p \in Pipe : reader[p] = "stopped"
      /\ child \in {"ok", "failed", "signalled"}
      /\ ended' = Append(ended, child) /\ todo' = Tail(todo) /\ Follow
      /\ UNCHANGED <<cmd, backend, child, want, willing, pipe, reader, chan, clock, log, said>>
  BY DEF Join, Ended
<1>2. cmd # "timed" /\ caller # "done" /\ child \in Endings
  BY <1>1 DEF Place, Endings
<1>3. /\ ended' \in Seq(Endings) /\ Len(ended) \in Nat
      /\ Len(ended') = Len(ended) + 1 /\ Len(ended') <= Len(Plan)
      /\ ended' = AllOk' <=> child = "ok" /\ Len(ended') = Len(Plan)
      /\ \A i \in 1..(Len(ended') - 1) : ended'[i] = "ok"
      /\ ended'[Len(ended')] = child
      /\ Plan' = Plan
  BY <1>1, <1>2, EndedLonger
<1>4. \/ /\ caller' = "done" /\ cmd = "query" /\ child = "ok"
         /\ result' = (IF Parsed THEN "ok" ELSE "not understood")
      \/ /\ caller' = "done" /\ result' = child /\ (Len(todo) = 1 \/ child # "ok")
      \/ /\ caller' = "spawn" /\ result' = result /\ Len(todo) # 1 /\ child = "ok"
  BY <1>1 DEF Follow, Return
<1>5. /\ Len(todo) = Len(Plan) - Len(ended) /\ Len(todo) \in Nat \ {0} /\ Len(Plan) \in {1, 2}
      /\ todo' \in Seq(Scripts) /\ Len(todo') = Len(todo) - 1
      /\ \A i \in 1..Len(todo') : todo'[i] = Plan[Len(ended') + i]
  <2>1. /\ Len(todo) = Len(Plan) - Len(ended) /\ Len(ended) < Len(Plan) /\ todo \in Seq(Scripts)
        /\ \A i \in 1..Len(todo) : todo[i] = Plan[Len(ended) + i]
    BY <1>2 DEF Ahead, TypeOK
  <2>2. Len(Plan) \in {1, 2} /\ Len(todo) \in Nat \ {0} /\ todo # <<>>
    BY <1>3, <2>1, PlanShape, EmptySeq
  <2>3. /\ Tail(todo) \in Seq(Scripts) /\ Len(Tail(todo)) = Len(todo) - 1
        /\ \A i \in 1..Len(Tail(todo)) : Tail(todo)[i] = todo[i + 1]
    BY <2>1, <2>2, HeadTailProperties
  <2>4. ASSUME NEW i \in 1..Len(Tail(todo)) PROVE Tail(todo)[i] = Plan[Len(ended') + i]
    <3>1. i + 1 \in 1..Len(todo) /\ Len(ended) + (i + 1) = Len(ended') + i
      BY <1>3, <2>2, <2>3
    <3> QED
      BY <2>1, <2>3, <3>1
  <2> QED
    BY <1>1, <2>1, <2>2, <2>3, <2>4
<1>6. TypeOK' /\ Place'
  BY <1>1, <1>2, <1>3, <1>4, <1>5 DEF TypeOK, Place
<1>7. Ahead'
  <2>1. caller' = "spawn" => result' = None /\ Len(ended') < Len(Plan)
    BY <1>2, <1>3, <1>4, <1>5 DEF Ahead
  <2>2. caller' = "spawn" => \A i \in 1..Len(ended') : ended'[i] = "ok"
    BY <1>3, <1>4
  <2>3. Len(todo') = Len(Plan') - Len(ended')
    BY <1>3, <1>5
  <2>4. \A i \in 1..Len(todo') : todo'[i] = Plan'[Len(ended') + i]
    BY <1>3, <1>5
  <2>5. caller' # "done" => caller' = "spawn"
    BY <1>4
  <2> QED
    BY <1>3, <2>1, <2>2, <2>3, <2>4, <2>5 DEF Ahead
<1>8. Outcome'
  <2>1. CASE cmd = "query" /\ child = "ok" /\ result' = (IF Parsed THEN "ok" ELSE "not understood")
    <3>1. ended' = AllOk'
      <4>1. Len(Plan) = 1
        BY <2>1, PlanShape
      <4>2. Len(ended') = Len(Plan)
        BY <1>3, <4>1
      <4> QED
        BY <1>3, <2>1, <4>2
    <3>2. ~Parsed => \E x \in ToSet(said) : ~x.utf8
      BY <1>2 DEF Parsed, Passing
    <3> QED
      BY <1>1, <1>3, <2>1, <3>1, <3>2 DEF Outcome
  <2>2. CASE result' = child /\ (Len(todo) = 1 \/ child # "ok")
    <3>1. child = "ok" => Len(ended') = Len(Plan)
      BY <1>3, <1>5, <2>2
    <3> QED
      BY <1>1, <1>3, <2>2, <3>1 DEF Outcome
  <2> QED
    BY <1>4, <2>1, <2>2 DEF Outcome
<1>9. \A y : /\ WaitedFor(y)' <=> WaitedFor(y) \/ Present(y)
             /\ ~Present(y)'
             /\ Readable(y)' <=> Readable(y)
  <2>1. ASSUME NEW y PROVE WaitedFor(y)' <=> WaitedFor(y) \/ Present(y)
    BY <1>1, <1>3, <1>5 DEF WaitedFor, Present
  <2> QED
    BY <1>1, <1>4, <2>1 DEF Present, Readable
<1>10. Numbered' /\ InPipe' /\ Waiting' /\ Answered'
  BY <1>1, <1>2 DEF Numbered, InPipe, Waiting, Answered
<1>11. Authors'
  BY <1>1, <1>9 DEF Authors
<1>12. \A p \in Pipe : pipe[p] = <<>> /\ ToSet(pipe[p]) = {}
  BY <1>1, <1>2, SetOfEmpty DEF Place
<1>13. Passing'
  BY <1>1, <1>2, <1>9, <1>12 DEF Passing, Before
<1>14. NoneLost'
  <2> SUFFICES ASSUME NEW y \in ToSet(said), Readable(y), WaitedFor(y) \/ Present(y)
               PROVE  y \in ToSet(log)
    BY <1>1, <1>9 DEF NoneLost
  <2>1. y.pipe \in Pipe
    BY OneNumber DEF Line
  <2> QED
    BY <1>1, <1>2, <1>12, <2>1, SetOfEmpty DEF NoneLost
<1> QED
  BY <1>6, <1>7, <1>8, <1>10, <1>11, <1>13, <1>14

\* When a script is about to be started, every line is of one that was waited for, and
\* nothing is on its way.
LEMMA BetweenScripts ==
  ASSUME ChildInv, caller = "spawn"
  PROVE  /\ \A x \in ToSet(said) : WaitedFor(x) /\ x.script # Plan[Len(ended) + 1]
         /\ cmd = "timed" => ToSet(said) = {}
         /\ Len(ended) \in Nat /\ Len(ended) + 1 \in 1..Len(Plan)
         /\ chan = <<>>
<1> USE DEF ChildInv
<1>1. Len(ended) \in Nat /\ Len(ended) < Len(Plan) /\ Len(Plan) \in {1, 2}
  BY PlanShape, LenProperties DEF TypeOK, Ahead
<1>2. ASSUME NEW x \in ToSet(said) PROVE WaitedFor(x) /\ x.script # Plan[Len(ended) + 1]
  <2>1. WaitedFor(x)
    BY DEF Authors, Present
  <2>2. PICK i \in 1..Len(Plan) : i <= Len(ended) /\ x.script = Plan[i]
    BY <2>1 DEF WaitedFor
  <2> QED
    BY <1>1, <2>1, <2>2, PlanShape
<1>3. ASSUME cmd = "timed", NEW x \in ToSet(said) PROVE FALSE
  <2>1. Len(Plan) = 1
    BY <1>3, PlanShape
  <2> QED
    BY <1>1, <1>2, <2>1 DEF WaitedFor
<1> QED
  BY <1>1, <1>2, <1>3 DEF Place

\* A script is started, or cannot be.
LEMMA SpawnStep == ASSUME ChildInv, Spawn PROVE ChildInv'
<1> USE DEF ChildInv
<1>1. /\ caller = "spawn"
      /\ UNCHANGED <<cmd, backend, todo, willing, chan, clock, log, said>>
  BY DEF Spawn
<1>2. /\ \A x \in ToSet(said) : WaitedFor(x) /\ x.script # Plan[Len(ended) + 1]
      /\ cmd = "timed" => ToSet(said) = {}
      /\ Len(ended) \in Nat /\ Len(ended) + 1 \in 1..Len(Plan)
      /\ chan = <<>> /\ ToSet(chan) = {}
  BY <1>1, BetweenScripts, SetOfEmpty
<1>3. Plan' = Plan
  BY <1>1, PlanFixed
<1>4. \A y : Readable(y)' <=> Readable(y)
  BY <1>1 DEF Readable
<1>5. Numbered'
  BY <1>1 DEF Numbered
<1>6. CASE /\ child' = "running" /\ want' \in Wants(0) /\ pipe' = Empty
           /\ IF cmd = "timed"
              THEN caller' = "polling" /\ UNCHANGED reader
              ELSE caller' = "draining" /\ reader' = [p \in Pipe |-> "reading"]
           /\ UNCHANGED <<result, ended>>
  <2>1. \A p \in Pipe : pipe'[p] = <<>> /\ ToSet(pipe'[p]) = {} /\ InOrder(pipe'[p])
    BY <1>6, SetOfEmpty, OrderOfEmpty DEF Empty
  <2>2. TypeOK'
    <3>1. pipe' \in [Pipe -> Seq(Line)]
      BY <1>6, EmptySeq DEF Empty
    <3> QED
      BY <1>1, <1>6, <3>1 DEF TypeOK, Wants
  <2>3. Place'
    BY <1>1, <1>2, <1>6, <2>1 DEF Place
  <2>4. Ahead' /\ Outcome' /\ Answered'
    BY <1>1, <1>3, <1>6 DEF Ahead, Outcome, Answered
  <2>5. \A y : WaitedFor(y)' <=> WaitedFor(y)
    BY <1>3, <1>6 DEF WaitedFor
  <2>6. \A y \in ToSet(said) : ~Present(y)'
    BY <1>2, <1>3, <1>6 DEF Present
  <2>7. Authors'
    BY <1>1, <1>2, <2>5 DEF Authors
  <2>8. InPipe'
    BY <2>1 DEF InPipe
  <2>9. Passing'
    BY <1>1, <1>2, <1>4, <2>1 DEF Passing, Before
  <2>10. NoneLost'
    BY <1>1, <1>2, <1>4, <2>5, <2>6 DEF NoneLost
  <2>11. Waiting'
    BY <1>1, <1>2 DEF Waiting
  <2> QED
    BY <1>5, <2>2, <2>3, <2>4, <2>7, <2>8, <2>9, <2>10, <2>11
<1>7. CASE /\ Return("cannot run") /\ ended' = Append(ended, "never ran")
           /\ UNCHANGED <<child, want, pipe, reader>>
  <2>1. result' = "cannot run" /\ caller' = "done"
    BY <1>7 DEF Return
  <2>2. /\ ended' \in Seq(Endings) /\ Len(ended') = Len(ended) + 1
        /\ Len(ended') <= Len(Plan) /\ ended' # AllOk'
        /\ \A i \in 1..(Len(ended') - 1) : ended'[i] = "ok"
    <3>1. "never ran" \in Endings /\ caller # "done"
      BY <1>1 DEF Endings
    <3> QED
      BY <1>1, <1>7, <3>1, EndedLonger
  <2>3. TypeOK' /\ Place'
    BY <1>1, <1>7, <2>1, <2>2 DEF TypeOK, Place
  <2>4. Ahead' /\ Outcome'
    BY <1>3, <2>1, <2>2 DEF Ahead, Outcome
  <2>10. Answered' /\ Waiting'
    BY <2>1 DEF Answered, Waiting
  <2>5. \A y \in ToSet(said) : WaitedFor(y)' /\ ~Present(y)'
    <3>1. ASSUME NEW y, WaitedFor(y) PROVE WaitedFor(y)'
      BY <1>2, <1>3, <2>2, <3>1 DEF WaitedFor
    <3> QED
      BY <1>2, <2>1, <3>1 DEF Present
  <2>6. Authors'
    BY <1>1, <2>5 DEF Authors
  <2>7. InPipe'
    BY <1>1, <1>7 DEF InPipe
  <2>8. Passing'
    <3>1. cmd # "timed" => \A p \in Pipe : ToSet(pipe[p]) = {}
      BY <1>1, SetOfEmpty DEF Place
    <3> QED
      BY <1>1, <1>4, <1>7, <3>1 DEF Passing, Before
  <2>9. NoneLost'
    BY <1>1, <1>2, <1>4, <2>5 DEF NoneLost
  <2> QED
    BY <1>5, <2>3, <2>4, <2>6, <2>7, <2>8, <2>9, <2>10
<1> QED
  BY <1>6, <1>7 DEF Spawn

\* The script that ran has now been waited for, as those before it.
LEMMA NowWaitedFor ==
  ASSUME TypeOK, Plan' = Plan, Len(ended') = Len(ended) + 1, Len(ended') <= Len(Plan),
         NEW y, WaitedFor(y) \/ Present(y)
  PROVE  WaitedFor(y)'
<1>1. Len(Plan) \in Nat /\ Len(ended) \in Nat
  BY PlanShape, LenProperties DEF TypeOK
<1>2. PICK i \in 1..Len(Plan) : i <= Len(ended) + 1 /\ y.script = Plan[i]
  <2>1. CASE WaitedFor(y)
    BY <1>1, <2>1 DEF WaitedFor
  <2>2. CASE Present(y)
    <3>1. Len(ended) + 1 \in 1..Len(Plan)
      BY <1>1
    <3> QED
      BY <1>1, <2>2, <3>1 DEF Present
  <2> QED
    BY <2>1, <2>2
<1> QED
  BY <1>2 DEF WaitedFor

\* The time is over: the script is killed, if it has not ended since it was looked at.
LEMMA TimeOutStep == ASSUME ChildInv, Time, clock = "late" PROVE ChildInv'
<1> USE DEF ChildInv
<1>1. /\ caller = "looked" /\ caller' = "done" /\ result' = "timed out"
      /\ child' = (IF Ended THEN child ELSE "signalled") /\ ended' = Append(ended, child')
      /\ UNCHANGED <<cmd, backend, todo, want, willing, pipe, reader, chan, clock, log, said>>
  BY DEF Time, Return
<1>2. cmd = "timed" /\ child' \in {"ok", "failed", "signalled"} /\ child' \in Endings
  BY <1>1 DEF Place, Ended, Endings
<1>3. /\ ended' \in Seq(Endings) /\ Len(ended) \in Nat
      /\ Len(ended') = Len(ended) + 1 /\ Len(ended') <= Len(Plan)
      /\ \A i \in 1..(Len(ended') - 1) : ended'[i] = "ok"
      /\ Plan' = Plan
  BY <1>1, <1>2, EndedLonger
<1>4. TypeOK' /\ Place'
  BY <1>1, <1>2, <1>3 DEF TypeOK, Place
<1>5. Ahead' /\ Outcome'
  BY <1>1, <1>3 DEF Ahead, Outcome
<1>6. Numbered' /\ InPipe' /\ Passing' /\ NoneLost' /\ Waiting'
  BY <1>1, <1>2 DEF Numbered, InPipe, Passing, NoneLost, Waiting
<1>7. Answered'
  BY <1>1, <1>2 DEF Answered
<1>8. Authors'
  BY <1>1, <1>3, NowWaitedFor DEF Authors
<1> QED
  BY <1>4, <1>5, <1>6, <1>7, <1>8

\* The script has ended within its time, and what it left in the pipes is read.
LEMMA AnswerStep == ASSUME ChildInv, Poll, Ended PROVE ChildInv'
<1> USE DEF ChildInv
<1> DEFINE out == pipe["stdout"]
           err == pipe["stderr"]
<1>1. /\ caller = "polling" /\ caller' = "done" /\ result' = child
      /\ log' = out \o err /\ pipe' = Empty /\ ended' = Append(ended, child)
      /\ UNCHANGED <<cmd, backend, todo, child, want, willing, reader, chan, clock, said>>
  BY DEF Poll, Return
<1>2. cmd = "timed" /\ child \in {"ok", "failed", "signalled"} /\ child \in Endings
  BY <1>1 DEF Place, Ended, Endings
<1>3. /\ ended' \in Seq(Endings) /\ Len(ended) \in Nat
      /\ Len(ended') = Len(ended) + 1 /\ Len(ended') <= Len(Plan)
      /\ ended' = AllOk' <=> child = "ok" /\ Len(ended') = Len(Plan)
      /\ \A i \in 1..(Len(ended') - 1) : ended'[i] = "ok"
      /\ Plan' = Plan
  BY <1>1, <1>2, EndedLonger
<1>4. /\ out \in Seq(Line) /\ err \in Seq(Line) /\ InOrder(out) /\ InOrder(err)
      /\ \A x \in ToSet(out) : x \in ToSet(said) /\ x.pipe = "stdout"
      /\ \A x \in ToSet(err) : x \in ToSet(said) /\ x.pipe = "stderr"
  BY DEF TypeOK, InPipe, Pipe
<1>5. \A x \in ToSet(said) : x \in ToSet(out) \cup ToSet(err)
  <2>1. ASSUME NEW x \in ToSet(said) PROVE x \in ToSet(pipe[x.pipe]) /\ x.pipe \in Pipe
    BY <1>1, <1>2, OneNumber DEF Waiting, Line
  <2> QED
    BY <2>1 DEF Pipe
<1> HIDE DEF out, err
<1>6. \A p \in Pipe : pipe'[p] = <<>> /\ ToSet(pipe'[p]) = {} /\ InOrder(pipe'[p])
  BY <1>1, SetOfEmpty, OrderOfEmpty DEF Empty
<1>7. log' \in Seq(Line) /\ pipe' \in [Pipe -> Seq(Line)]
  BY <1>1, <1>4, ConcatProperties, EmptySeq DEF Empty
<1>8. TypeOK' /\ Place'
  <2>1. Place'
    BY <1>1, <1>2, <1>6 DEF Place
  <2> QED
    BY <1>1, <1>2, <1>3, <1>7, <2>1 DEF TypeOK
<1>9. Ahead' /\ Outcome'
  <2>1. Len(Plan) = 1
    BY <1>2, PlanShape
  <2>2. Ahead'
    BY <1>1, <1>3 DEF Ahead
  <2>3. ended' = AllOk' <=> child = "ok"
    BY <1>3, <2>1, <2>2 DEF Ahead
  <2>4. Outcome'
    BY <1>1, <1>2, <1>3, <2>3 DEF Outcome
  <2> QED
    BY <2>2, <2>4
<1>10. ToSet(log') = ToSet(said) /\ InOrder(log')
  <2>1. Before(out, err)
    BY <1>4 DEF Before, Same
  <2> QED
    BY <1>1, <1>4, <1>5, <2>1, SetOfConcat, OrderOfConcat
<1>11. ASSUME NEW i \in 1..Len(log'), NEW j \in 1..Len(log'),
              log'[i].pipe = "stdout", log'[j].pipe = "stderr"
       PROVE  i < j
  <2>1. /\ Len(log') = Len(out) + Len(err) /\ Len(out) \in Nat /\ Len(err) \in Nat
        /\ \A k \in 1..(Len(out) + Len(err)) :
             log'[k] = IF k <= Len(out) THEN out[k] ELSE err[k - Len(out)]
    BY <1>1, <1>4, ConcatProperties, LenProperties
  <2>2. /\ \A k \in 1..Len(out) : out[k].pipe = "stdout"
        /\ \A k \in 1..Len(err) : err[k].pipe = "stderr"
    BY <1>4, LenProperties DEF ToSet
  <2>3. i <= Len(out)
    <3> SUFFICES ASSUME ~(i <= Len(out)) PROVE FALSE
      OBVIOUS
    <3>1. i - Len(out) \in 1..Len(err) /\ log'[i] = err[i - Len(out)]
      BY <2>1
    <3> QED
      BY <1>11, <2>2, <3>1
  <2>4. ~(j <= Len(out))
    <3> SUFFICES ASSUME j <= Len(out) PROVE FALSE
      OBVIOUS
    <3>1. j \in 1..Len(out) /\ log'[j] = out[j]
      BY <2>1
    <3> QED
      BY <1>11, <2>2, <3>1
  <2> QED
    BY <2>1, <2>3, <2>4
<1>12. Answered'
  BY <1>1, <1>2, <1>10, <1>11 DEF Answered
<1>13. InPipe'
  BY <1>6 DEF InPipe
<1>14. Numbered' /\ Passing' /\ NoneLost' /\ Waiting'
  BY <1>1, <1>2 DEF Numbered, Passing, NoneLost, Waiting
<1>15. Authors'
  BY <1>1, <1>3, NowWaitedFor DEF Authors
<1> QED
  BY <1>8, <1>9, <1>12, <1>13, <1>14, <1>15

--------------------------------------------------------------------------------

LEMMA ChildInit == Init => ChildInv
<1> SUFFICES ASSUME Init PROVE ChildInv
  OBVIOUS
<1> USE DEF Init
<1>1. \A p \in Pipe : pipe[p] = <<>> /\ ToSet(pipe[p]) = {} /\ InOrder(pipe[p])
  BY SetOfEmpty, OrderOfEmpty DEF Empty
<1>2. ToSet(log) = {} /\ ToSet(chan) = {} /\ ToSet(said) = {} /\ InOrder(<<>>)
  BY SetOfEmpty, OrderOfEmpty
<1>3. pipe \in [Pipe -> Seq(Line)]
  BY EmptySeq DEF Empty
<1>4. TypeOK
  <2>1. Plan \in Seq(Scripts)
    BY PlanTyped
  <2> QED
    BY <1>3, <2>1, EmptySeq DEF TypeOK
<1>5. Place
  BY <1>1 DEF Place
<1>6. Ahead
  <2>1. Len(ended) = 0 /\ Len(Plan) \in {1, 2}
    BY <1>4, PlanShape, EmptySeq
  <2> QED
    BY <2>1 DEF Ahead
<1>7. Outcome /\ Numbered /\ Authors /\ Answered
  BY <1>2 DEF Outcome, Numbered, Authors, Answered
<1>8. InPipe /\ Passing /\ NoneLost /\ Waiting
  BY <1>1, <1>2 DEF InPipe, Passing, NoneLost, Waiting, Before
<1> QED
  BY <1>4, <1>5, <1>6, <1>7, <1>8 DEF ChildInv

LEMMA IdleStep == ASSUME ChildInv, UNCHANGED vars PROVE ChildInv'
<1> USE DEF ChildInv, vars
<1>1. Numbered' /\ Authors' /\ InPipe' /\ Passing' /\ NoneLost' /\ Waiting'
  BY LinesStill
<1>2. Plan' = Plan
  BY PlanFixed
<1>3. TypeOK' /\ Place' /\ Answered'
  <2>1. TypeOK'
    BY DEF TypeOK
  <2>2. Place'
    BY DEF Place
  <2>3. Answered'
    BY DEF Answered
  <2> QED
    BY <2>1, <2>2, <2>3
<1>4. Ahead' /\ Outcome'
  BY <1>2 DEF Ahead, Outcome, AllOk
<1> QED
  BY <1>1, <1>3, <1>4

LEMMA ChildStep == ChildInv /\ [Next]_vars => ChildInv'
<1> SUFFICES ASSUME ChildInv, [Next]_vars PROVE ChildInv'
  OBVIOUS
<1>1. CASE Caller
  <2>1. CASE Spawn
    BY <2>1, SpawnStep
  <2>2. CASE Drain
    BY <2>2, DrainStep
  <2>3. CASE Join
    BY <2>3, JoinStep
  <2>4. CASE Poll
    BY <2>4, AnswerStep, LooksStep
  <2>5. CASE Time
    BY <2>5, TimeOutStep, LooksStep
  <2> QED
    BY <1>1, <2>1, <2>2, <2>3, <2>4, <2>5 DEF Caller
<1>2. CASE Readers
  <2>1. PICK p \in Pipe : Read(p) \/ ReadEnd(p)
    BY <1>2 DEF Readers
  <2> QED
    BY <2>1, ReadOneStep, StopStep
<1>3. CASE Tick
  BY <1>3, TickStep
<1>4. CASE Script
  <2>1. \/ Exit \/ \E p \in Pipe : WriteClosed(p)
        \/ \E p \in Pipe : Write(p)
    BY <1>4 DEF Script
  <2> QED
    BY <2>1, EndsStep, WriteStep
<1>5. CASE UNCHANGED vars
  BY <1>5, IdleStep
<1> QED
  BY <1>1, <1>2, <1>3, <1>4, <1>5 DEF Next

LEMMA ChildInvariant == Spec => []ChildInv
  BY ChildInit, ChildStep, PTL DEF Spec

--------------------------------------------------------------------------------
(* What the GUI shows and says. *)

\* A line of a script that has been waited for is in the log if a reader could read it, because
\* all readers stop before Join; and a later line of its pipe can only be there after it,
\* because it would otherwise still be in the channel or in the pipe, where nothing passes it.
THEOREM LogCompleteTheorem == Spec => []LogComplete
<1>1. ChildInv => LogComplete
  <2> SUFFICES ASSUME ChildInv, cmd # "timed" PROVE LogComplete
    BY DEF LogComplete
  <2> USE DEF ChildInv
  <2>1. ASSUME NEW x \in ToSet(said), Readable(x), WaitedFor(x) PROVE x \in ToSet(log)
    BY <2>1 DEF NoneLost
  <2>2. ASSUME NEW x \in ToSet(said), Readable(x), ~WaitedFor(x),
               NEW y \in ToSet(log), Same(x, y), x.n < y.n
        PROVE  x \in ToSet(log)
    <3>1. Present(x)
      BY <2>2 DEF Authors
    <3>2. x \in ToSet(log) \cup ToSet(chan) \cup ToSet(pipe[x.pipe])
      BY <2>2, <3>1 DEF NoneLost
    <3>3. /\ x \in Line /\ x.n \in Nat /\ x.pipe \in Pipe
          /\ y \in ToSet(said) /\ y.n \in Nat
      <4>1. y \in ToSet(said)
        BY <2>2 DEF Passing
      <4> QED
        BY <2>2, <4>1, OneNumber DEF Line
    <3>4. ASSUME x \in ToSet(chan) \cup ToSet(pipe[x.pipe]) PROVE y.n < x.n
      BY <2>2, <3>3, <3>4 DEF Passing, Before, Same
    <3> QED
      BY <2>2, <3>2, <3>3, <3>4
  <2> QED
    BY <2>1, <2>2 DEF LogComplete, Passing
<1> QED
  BY <1>1, ChildInvariant, PTL

\* A run of one script or two is successful only if every script was, for every outcome of
\* each, and one that failed or never ran was the last.
THEOREM OkMeansAllTheorem == Spec => []OkMeansAll
<1>1. ChildInv => OkMeansAll
  <2> SUFFICES ASSUME ChildInv, result # None PROVE OkMeansAll
    BY DEF OkMeansAll
  <2>1. caller = "done"
    BY DEF ChildInv, Ahead
  <2> QED
    BY <2>1 DEF ChildInv, Outcome, OkMeansAll, AllOk
<1> QED
  BY <1>1, ChildInvariant, PTL

\* A command with a time limit leaves no process behind, and what it answers is all that the
\* process wrote: try_wait comes first, and the pipes are not read before it has ended.
THEOREM TimedWholeTheorem == Spec => []TimedWhole
<1>1. ChildInv => TimedWhole
  <2> SUFFICES ASSUME ChildInv, cmd = "timed", result # None PROVE TimedWhole
    BY DEF TimedWhole
  <2>1. caller = "done"
    BY DEF ChildInv, Ahead
  <2> QED
    BY <2>1 DEF ChildInv, Place, Answered, TimedWhole
<1> QED
  BY <1>1, ChildInvariant, PTL

================================================================================
