------------------------------ MODULE BmuCliProofs -----------------------------
(***************************************************************************)
(* Proofs about BmuCli, for any directories, sources, settings and sets of *)
(* versions, any choice of steps that may fail and any bound: the types,   *)
(* that the dashboard shows only what it can work with, that ignore        *)
(* settings are what was saved, that an update keeps the settings, and     *)
(* that no script loses the backend that is configured for it.             *)
(***************************************************************************)
EXTENDS BmuCli, FiniteSetTheorems, WellFoundedInduction, TLAPS

--------------------------------------------------------------------------------
(* Types. *)

Version == [1..3 -> Nat]
Backend == {"none", "rclone", "proton", "local"}
Index == {"default", "custom"}
SetupFile == [ver : Tag \cup {Unmarked}, sync : Data, index : Index, inst : Bin, backend : Backend]
Switches == [git : BOOLEAN, bmu : BOOLEAN]
Name == {ProjectName[p] : p \in Source}
\* Patterns of a source: none, a part of some, or what some settings say.
Text == {"", Junk} \cup {x.text : x \in Input}
Saved == [sync : Data, input : Input]
Offers == [bin : Bin \cup {Missing}, current : Tag \cup {Missing},
           stable : Tag \cup {Missing}, experimental : Tag \cup {Missing}]

\* What of a command may lie ahead.
InstallAhead ==
    { <<"lookup", "download", "extract", "install", "save">>,
      <<"download", "extract", "install", "save">>, <<"extract", "install", "save">>,
      <<"install", "save">>, <<"save">> }
IgnoreAhead == { <<"switches", "patterns">>, <<"patterns">> }

Command == {"none", "new", "update", "replicate", "ignore"}
Call == [cmd : Command, bin : Bin \cup {Missing}, from : Bin \cup {Missing},
         sync : Data \cup {Missing}, index : Index \cup {Missing}, tag : Tag \cup {Missing},
         seen : Tag \cup {Missing}, got : Tag \cup {Missing, Junk},
         backend : Backend \cup {Missing}, source : Source \cup {Missing},
         input : Input \cup {Missing},
         todo : {<<>>, <<"configure">>} \cup InstallAhead \cup IgnoreAhead]

Installing == call.cmd \in {"new", "update"}

\* A command that runs has what its steps need.
CallOK ==
    /\ call \in Call
    /\ Resting => call.todo = <<>>
    /\ Installing =>
         /\ call.todo \in InstallAhead
         /\ call.bin \in Bin /\ call.sync \in Data /\ call.index \in Index
         /\ call.cmd = "update" => call.tag \in Tag
         /\ Head(call.todo) # "lookup" => call.got # Missing
         /\ Head(call.todo) \in {"install", "save"} => call.got \in Tag
    /\ call.cmd = "replicate" =>
         call.todo = <<"configure">> /\ call.bin \in Bin /\ call.backend \in Backend
    /\ call.cmd = "ignore" =>
         /\ call.todo \in IgnoreAhead
         /\ call.sync \in Data /\ call.source \in Source /\ call.input \in Input

Shapes ==
    /\ gui \in Guis /\ released \in Releases
    /\ scripts \in [Bin -> {Missing} \cup Tag]
    /\ setup \in [Bin -> {Missing} \cup SetupFile]
    /\ saved \in Bin \cup {NoConfig}
    /\ shown \in Bin \cup {Closed, Setup}
    /\ offer \in Offers
    /\ work \in [{"new", "update"} -> SUBSET Tag]
    /\ cfg \in [Data -> [Name -> {Missing} \cup Switches]]
    /\ patterns \in [Source -> Text]
    /\ asked \in [Source -> {Unknown} \cup Saved]
    /\ touched \subseteq Bin
    /\ left \in 0..MaxCalls

TypeInv == Shapes /\ CallOK

--------------------------------------------------------------------------------
(* What the properties rest on. *)

\* Unless they were copied in part, backmeup.setup.sh is there with the scripts, and names
\* them or older ones.
Paired(b) ==
    b \notin touched =>
        /\ scripts[b] = Missing <=> setup[b] = Missing
        /\ setup[b] # Missing /\ setup[b].ver # Unmarked => ~Older(scripts[b], setup[b].ver)
AllPaired == \A b \in Bin : Paired(b)

\* What is shown, offered or about to be shown is past the gate of 2.11.0.
Usable(b) == b \notin touched => LooksInstalled(b) /\ CheckCompatible(b)
Modern(v) == v \in Tag /\ ~Older(v, MinCompatible)

Offered(o) ==
    \A t \in {o.stable, o.experimental} \ {Missing} :
        Modern(t) /\ o.current \in Tag /\ Older(o.current, t)

UsableAhead ==
    /\ shown \in Bin => Usable(shown)
    /\ Offered(offer)
    /\ call.cmd = "update" =>
         /\ Modern(call.tag) /\ call.seen \in Tag /\ Older(call.seen, call.tag)
         /\ call.got \in {Missing, Junk, call.tag}
    /\ call.got \in Tag => Modern(call.got)
    /\ Doing("save") => Usable(call.bin)

\* Settings that were saved are in the two files, and the switches already before the
\* patterns are written.
Kept(p) ==
    /\ cfg[asked[p].sync][ProjectName[p]] = SwitchesOf(asked[p].input)
    /\ patterns[p] = asked[p].input.text

IgnoreKept ==
    /\ \A p \in Source : asked[p] # Unknown => Kept(p)
    /\ Doing("patterns") => cfg[call.sync][ProjectName[call.source]] = SwitchesOf(call.input)

UsableInv == TypeInv /\ AllPaired /\ UsableAhead
IgnoreInv == TypeInv /\ IgnoreKept

--------------------------------------------------------------------------------
(* Versions. *)

LEMMA VersionForm == Tag \subseteq Version /\ Guis \subseteq Version
                     /\ {MinMarked, MinCompatible, MinFlags, MinLocal} \subseteq Version
<1>1. Tag \subseteq Version /\ Guis \subseteq Version
  BY CliAssumption DEF Version
<1>2. {MinMarked, MinCompatible, MinFlags, MinLocal} \subseteq Version
  BY DEF Version, MinMarked, MinCompatible, MinFlags, MinLocal
<1> QED
  BY <1>1, <1>2

\* Older by the first number that differs.
LEMMA OlderMeans ==
    ASSUME NEW v \in Version, NEW w \in Version
    PROVE  /\ v[1] \in Nat /\ v[2] \in Nat /\ v[3] \in Nat
           /\ Older(v, w) <=> \/ v[1] < w[1]
                              \/ v[1] = w[1] /\ v[2] < w[2]
                              \/ v[1] = w[1] /\ v[2] = w[2] /\ v[3] < w[3]
<1>1. v[1] \in Nat /\ v[2] \in Nat /\ v[3] \in Nat
  BY DEF Version
<1>2. ASSUME Older(v, w)
      PROVE  \/ v[1] < w[1]
             \/ v[1] = w[1] /\ v[2] < w[2]
             \/ v[1] = w[1] /\ v[2] = w[2] /\ v[3] < w[3]
  <2>1. PICK i \in 1..3 : v[i] < w[i] /\ \A j \in 1..(i - 1) : v[j] = w[j]
    BY <1>2 DEF Older
  <2>2. CASE i = 1
    BY <2>1, <2>2
  <2>3. CASE i = 2
    BY <2>1, <2>3
  <2>4. CASE i = 3
    BY <2>1, <2>4
  <2> QED
    BY <2>2, <2>3, <2>4
<1>3. ASSUME NEW i \in 1..3, v[i] < w[i], \A j \in 1..(i - 1) : v[j] = w[j]
      PROVE  Older(v, w)
  BY <1>3 DEF Older
<1>4. v[1] < w[1] => Older(v, w)
  <2>1. 1 \in 1..3 /\ \A j \in 1..(1 - 1) : v[j] = w[j]
    OBVIOUS
  <2> QED
    BY <1>3, <2>1
<1>5. v[1] = w[1] /\ v[2] < w[2] => Older(v, w)
  <2>1. 2 \in 1..3 /\ \A j \in 1..(2 - 1) : j = 1
    OBVIOUS
  <2> QED
    BY <1>3, <2>1
<1>6. v[1] = w[1] /\ v[2] = w[2] /\ v[3] < w[3] => Older(v, w)
  <2>1. 3 \in 1..3 /\ \A j \in 1..(3 - 1) : j = 1 \/ j = 2
    OBVIOUS
  <2> QED
    BY <1>3, <2>1
<1> QED
  BY <1>1, <1>2, <1>4, <1>5, <1>6

LEMMA OlderOrder ==
    ASSUME NEW u \in Version, NEW v \in Version, NEW w \in Version
    PROVE  /\ ~Older(v, v)
           /\ Older(u, v) /\ Older(v, w) => Older(u, w)
           /\ Older(u, v) => ~Older(v, u)
           /\ ~Older(v, u) /\ ~Older(w, v) => ~Older(w, u)
           /\ Older(u, v) /\ ~Older(w, v) => Older(u, w)
           /\ ~Older(v, u) /\ Older(v, w) => ~Older(w, u)
<1> DEFINE Before(x, y) ==
             \/ x[1] < y[1]
             \/ x[1] = y[1] /\ x[2] < y[2]
             \/ x[1] = y[1] /\ x[2] = y[2] /\ x[3] < y[3]
<1>1. \A x \in {u, v, w} : x[1] \in Nat /\ x[2] \in Nat /\ x[3] \in Nat
  BY OlderMeans
<1>2. \A x \in {u, v, w}, y \in {u, v, w} : Older(x, y) <=> Before(x, y)
  BY OlderMeans
<1>3. /\ ~Before(v, v)
      /\ Before(u, v) /\ Before(v, w) => Before(u, w)
      /\ Before(u, v) => ~Before(v, u)
      /\ ~Before(v, u) /\ ~Before(w, v) => ~Before(w, u)
      /\ Before(u, v) /\ ~Before(w, v) => Before(u, w)
      /\ ~Before(v, u) /\ Before(v, w) => ~Before(w, u)
  BY <1>1
<1> HIDE DEF Before
<1> QED
  BY <1>2, <1>3

\* The gates, from the lowest.
LEMMA Gates ==
    /\ Older(MinMarked, MinCompatible) /\ Older(MinCompatible, MinFlags)
    /\ Older(MinFlags, MinLocal)
<1>1. /\ MinMarked[1] = 2 /\ MinMarked[2] = 6 /\ MinMarked[3] = 0
      /\ MinCompatible[1] = 2 /\ MinCompatible[2] = 11 /\ MinCompatible[3] = 0
      /\ MinFlags[1] = 2 /\ MinFlags[2] = 14 /\ MinFlags[3] = 0
      /\ MinLocal[1] = 2 /\ MinLocal[2] = 18 /\ MinLocal[3] = 7
  BY DEF MinMarked, MinCompatible, MinFlags, MinLocal
<1> QED
  BY <1>1, VersionForm, OlderMeans

\* Of finitely many versions one is the newest.
LEMMA NewestExists ==
    ASSUME NEW R, IsFiniteSet(R), R \subseteq Version, NEW V \in SUBSET R, V # {}
    PROVE  \E v \in V : \A w \in V : ~Older(v, w)
<1> DEFINE T == {W \in SUBSET R : W # {} /\ ~\E v \in W : \A w \in W : ~Older(v, w)}
<1> SUFFICES ASSUME T # {} PROVE FALSE
  OBVIOUS
<1>1. T \subseteq FiniteSubsetsOf(R)
  BY FS_Subset DEF FiniteSubsetsOf
<1>2. PICK W \in T : \A X \in T : <<X, W>> \notin StrictSubsetOrdering(R)
  BY <1>1, FS_StrictSubsetOrderingWellFounded, WFMin
<1>3. PICK v \in W : TRUE
  OBVIOUS
<1>4. W \ {v} \notin T
  <2>1. <<W \ {v}, W>> \in StrictSubsetOrdering(R)
    BY <1>2, <1>3 DEF StrictSubsetOrdering
  <2> QED
    BY <1>2, <2>1
<1>5. CASE W \ {v} = {}
  <2>1. \A w \in W : ~Older(v, w)
    BY <1>3, <1>5, OlderOrder
  <2> QED
    BY <1>2, <1>3, <2>1
<1>6. CASE W \ {v} # {}
  <2>1. PICK u \in W \ {v} : \A w \in W \ {v} : ~Older(u, w)
    BY <1>4, <1>6
  <2>2. CASE Older(u, v)
    <3>1. \A w \in W : ~Older(v, w)
      BY <1>3, <2>1, <2>2, OlderOrder
    <3> QED
      BY <1>2, <1>3, <3>1
  <2>3. CASE ~Older(u, v)
    <3>1. \A w \in W : ~Older(u, w)
      BY <2>1, <2>3
    <3> QED
      BY <1>2, <2>1, <3>1
  <2> QED
    BY <2>2, <2>3
<1> QED
  BY <1>5, <1>6

LEMMA NewestIs ==
    ASSUME NEW R \in Releases, NEW V \in SUBSET R, V # {}
    PROVE  Newest(V) \in V /\ \A w \in V : ~Older(Newest(V), w)
<1>1. R \subseteq Version /\ IsFiniteSet(R)
  BY VersionForm, CliAssumption DEF Tag
<1>2. \E v \in V : \A w \in V : ~Older(v, w)
  BY <1>1, NewestExists
<1> QED
  BY <1>2 DEF Newest

--------------------------------------------------------------------------------
(* Commands and their steps. *)

LEMMA InstallOrder ==
    ASSUME NEW todo \in InstallAhead
    PROVE  /\ todo # <<>>
           /\ Head(todo) \in {"lookup", "download", "extract", "install", "save"}
           /\ Head(todo) # "save" => Tail(todo) \in InstallAhead
           /\ Head(todo) = "lookup" => Head(Tail(todo)) = "download"
           /\ Head(todo) = "download" => Head(Tail(todo)) = "extract"
           /\ Head(todo) = "extract" => Head(Tail(todo)) = "install"
           /\ Head(todo) = "install" => Head(Tail(todo)) = "save"
<1>1. CASE todo = <<"lookup", "download", "extract", "install", "save">>
  <2>1. /\ todo # <<>> /\ Head(todo) = "lookup"
        /\ Tail(todo) = <<"download", "extract", "install", "save">>
        /\ Head(<<"download", "extract", "install", "save">>) = "download"
    BY <1>1
  <2> QED
    BY <2>1 DEF InstallAhead
<1>2. CASE todo = <<"download", "extract", "install", "save">>
  <2>1. /\ todo # <<>> /\ Head(todo) = "download"
        /\ Tail(todo) = <<"extract", "install", "save">>
        /\ Head(<<"extract", "install", "save">>) = "extract"
    BY <1>2
  <2> QED
    BY <2>1 DEF InstallAhead
<1>3. CASE todo = <<"extract", "install", "save">>
  <2>1. /\ todo # <<>> /\ Head(todo) = "extract"
        /\ Tail(todo) = <<"install", "save">>
        /\ Head(<<"install", "save">>) = "install"
    BY <1>3
  <2> QED
    BY <2>1 DEF InstallAhead
<1>4. CASE todo = <<"install", "save">>
  <2>1. /\ todo # <<>> /\ Head(todo) = "install"
        /\ Tail(todo) = <<"save">> /\ Head(<<"save">>) = "save"
    BY <1>4
  <2> QED
    BY <2>1 DEF InstallAhead
<1>5. CASE todo = <<"save">>
  <2>1. todo # <<>> /\ Head(todo) = "save"
    BY <1>5
  <2> QED
    BY <2>1
<1> QED
  BY <1>1, <1>2, <1>3, <1>4, <1>5 DEF InstallAhead

LEMMA IgnoreOrder ==
    ASSUME NEW todo \in IgnoreAhead
    PROVE  /\ todo # <<>> /\ Head(todo) \in {"switches", "patterns"}
           /\ Head(todo) = "switches" => Tail(todo) = <<"patterns">> /\ Head(Tail(todo)) = "patterns"
<1>1. CASE todo = <<"switches", "patterns">>
  BY <1>1
<1>2. CASE todo = <<"patterns">>
  BY <1>2
<1> QED
  BY <1>1, <1>2 DEF IgnoreAhead

LEMMA ConfigureFirst == <<"configure">> # <<>> /\ Head(<<"configure">>) = "configure"
OBVIOUS

\* Which command a step belongs to.
LEMMA StepOf ==
    ASSUME CallOK, NEW x, Doing(x)
    PROVE  /\ ~Resting /\ Head(call.todo) = x
           /\ x \in {"lookup", "download", "extract", "install", "save"} => Installing
           /\ x = "configure" => call.cmd = "replicate"
           /\ x \in {"switches", "patterns"} => call.cmd = "ignore"
           /\ Installing => x \in {"lookup", "download", "extract", "install", "save"}
           /\ call.cmd = "ignore" => x \in {"switches", "patterns"}
<1>1. ~Resting /\ call.cmd \in Command /\ Head(call.todo) = x
  BY DEF CallOK, Call, Resting, Doing
<1>2. CASE Installing
  <2>1. call.todo \in InstallAhead
    BY <1>2 DEF CallOK
  <2> QED
    BY <1>1, <1>2, <2>1, InstallOrder DEF Installing
<1>3. CASE call.cmd = "replicate"
  <2>1. call.todo = <<"configure">>
    BY <1>3 DEF CallOK
  <2> QED
    BY <1>1, <1>3, <2>1, ConfigureFirst DEF Installing
<1>4. CASE call.cmd = "ignore"
  <2>1. call.todo \in IgnoreAhead
    BY <1>4 DEF CallOK
  <2> QED
    BY <1>1, <1>4, <2>1, IgnoreOrder DEF Installing
<1> QED
  BY <1>1, <1>2, <1>3, <1>4 DEF Command, Installing, Resting

LEMMA RunningReady ==
    ASSUME CallOK
    PROVE  call.todo = <<>> <=> Resting
<1>1. CASE ~Resting
  BY <1>1, InstallOrder, IgnoreOrder, ConfigureFirst
  DEF CallOK, Call, Command, Installing, Resting
<1> QED
  BY <1>1 DEF CallOK

\* A step is done and the command goes on, perhaps with what it has got.
LEMMA GoesOn ==
    ASSUME CallOK, NEW x \in {"lookup", "download", "extract", "install", "switches"}, Doing(x),
           NEW g \in Tag \cup {Missing, Junk}, Installing => g # Missing,
           x \in {"extract", "install"} => g \in Tag,
           call' = [call EXCEPT !.todo = Tail(@), !.got = g]
    PROVE  /\ CallOK'
           /\ call'.cmd = call.cmd /\ call'.bin = call.bin /\ call'.from = call.from
           /\ call'.sync = call.sync /\ call'.tag = call.tag /\ call'.seen = call.seen
           /\ call'.source = call.source /\ call'.input = call.input /\ call'.got = g
           /\ Doing("save")' => x = "install"
           /\ Doing("patterns")' => x = "switches"
<1>1. /\ ~Resting /\ call \in Call /\ Head(call.todo) = x
      /\ IF x = "switches" THEN call.cmd = "ignore" ELSE Installing
  BY StepOf DEF CallOK
<1>2. /\ call'.cmd = call.cmd /\ call'.bin = call.bin /\ call'.from = call.from
      /\ call'.sync = call.sync /\ call'.tag = call.tag /\ call'.seen = call.seen
      /\ call'.source = call.source /\ call'.input = call.input /\ call'.got = g
      /\ call'.index = call.index /\ call'.backend = call.backend /\ call'.todo = Tail(call.todo)
  BY <1>1 DEF Call
<1>3. CASE Installing
  <2>1. /\ call.todo \in InstallAhead /\ Tail(call.todo) \in InstallAhead
        /\ x = "lookup" => Head(Tail(call.todo)) = "download"
        /\ x = "download" => Head(Tail(call.todo)) = "extract"
        /\ x = "extract" => Head(Tail(call.todo)) = "install"
        /\ x = "install" => Head(Tail(call.todo)) = "save"
    BY <1>1, <1>3, InstallOrder DEF CallOK
  <2>2. call' \in Call
    BY <1>1, <1>2, <2>1 DEF Call
  <2>3. x # "switches"
    BY <1>1, <1>3 DEF Installing
  <2>4. CallOK'
    BY <1>1, <1>2, <1>3, <2>1, <2>2, <2>3 DEF CallOK, Installing, Resting
  <2>5. Head(call'.todo) # "patterns" /\ (Head(call'.todo) = "save" => x = "install")
    BY <1>2, <2>1, <2>3
  <2> QED
    BY <1>2, <2>4, <2>5 DEF Doing
<1>4. CASE call.cmd = "ignore"
  <2>1. x = "switches" /\ call.todo \in IgnoreAhead
    BY <1>1, <1>4 DEF Installing, CallOK
  <2>2. Tail(call.todo) = <<"patterns">> /\ Head(Tail(call.todo)) = "patterns"
    BY <1>1, <2>1, IgnoreOrder
  <2>3. call' \in Call
    BY <1>1, <1>2, <2>2 DEF Call, IgnoreAhead
  <2>4. CallOK'
    BY <1>1, <1>2, <1>4, <2>2, <2>3 DEF CallOK, Installing, Resting, IgnoreAhead
  <2> QED
    BY <1>2, <2>1, <2>2, <2>4 DEF Doing
<1> QED
  BY <1>1, <1>3, <1>4

LEMMA GoesOnPlain ==
    ASSUME CallOK, NEW x \in {"download", "install", "switches"}, Doing(x), GoOn
    PROVE  /\ CallOK'
           /\ call'.cmd = call.cmd /\ call'.bin = call.bin /\ call'.from = call.from
           /\ call'.sync = call.sync /\ call'.tag = call.tag /\ call'.seen = call.seen
           /\ call'.source = call.source /\ call'.input = call.input /\ call'.got = call.got
           /\ Doing("save")' => x = "install"
           /\ Doing("patterns")' => x = "switches"
<1>1. call' = [call EXCEPT !.todo = Tail(@), !.got = call.got]
  BY DEF GoOn, CallOK, Call
<1>2. /\ call.got \in Tag \cup {Missing, Junk}
      /\ Installing => call.got # Missing
      /\ x = "install" => call.got \in Tag
  <2>1. Head(call.todo) = x
    BY StepOf
  <2> QED
    BY <2>1, StepOf DEF CallOK, Call
<1> QED
  BY <1>1, <1>2, GoesOn

LEMMA IdleType ==
    /\ Idle \in Call /\ Idle.cmd = "none" /\ Idle.todo = <<>> /\ Idle.got = Missing
    /\ Missing \notin Tag
BY MarkersAssumption DEF Idle, Call, Command

LEMMA Ends ==
    ASSUME call' = Idle
    PROVE  /\ CallOK' /\ call'.cmd = "none" /\ call'.todo = <<>> /\ call'.got = Missing
           /\ ~Doing("save")' /\ ~Doing("patterns")'
BY IdleType DEF CallOK, Resting, Installing, Doing

--------------------------------------------------------------------------------
(* Type correctness. *)

LEMMA Marking ==
    ASSUME NEW v \in Tag
    PROVE  /\ Mark(v) \in Tag \cup {Unmarked}
           /\ Mark(v) # Unmarked => Mark(v) = v
           /\ ~Older(v, MinMarked) => Mark(v) = v /\ v # Unmarked
BY MarkersAssumption DEF Mark

LEMMA SetupFileForm ==
    /\ Missing \notin SetupFile /\ Missing \notin Switches /\ Unknown \notin Saved
    /\ Missing \notin Bin /\ Unmarked \notin Tag
BY MarkersAssumption DEF SetupFile, Switches, Saved, Index, Backend

LEMMA StatusType ==
    ASSUME Shapes, NEW b \in Bin
    PROVE  /\ ReplicationStatus(b) \in Backend
           /\ ReadVersion(b) \in Tag \cup {Unmarked}
BY DEF Shapes, ReplicationStatus, ReadVersion, SetupFile, Backend

\* What a release list has to offer.
LEMMA OfferType ==
    ASSUME Shapes, NEW V \in SUBSET released
    PROVE  /\ released \subseteq Tag
           /\ LatestOf(V) \in V \cup {Missing}
           /\ LatestOf(V) # Missing => LatestOf(V) \in V
<1>1. released \in Releases
  BY DEF Shapes
<1>2. V # {} => Newest(V) \in V
  BY <1>1, NewestIs
<1> QED
  BY <1>1, <1>2 DEF LatestOf, Tag

\* The latest stable release is past every gate but the last.
LEMMA StableType ==
    ASSUME Shapes
    PROVE  /\ Newest(Stable(released)) \in Tag
           /\ ~Older(Newest(Stable(released)), MinFlags)
<1>1. released \in Releases /\ Stable(released) \in SUBSET released /\ released \subseteq Tag
  BY DEF Shapes, Stable, Tag
<1>2. PICK v \in Stable(released) : ~Older(v, MinFlags)
  BY <1>1, CliAssumption DEF Stable
<1>3. Newest(Stable(released)) \in Stable(released) /\ ~Older(Newest(Stable(released)), v)
  BY <1>1, <1>2, NewestIs
<1> QED
  BY <1>1, <1>2, <1>3, VersionForm, OlderOrder

LEMMA SpendType ==
    ASSUME Shapes, Spend
    PROVE  left' \in 0..MaxCalls
BY CliAssumption DEF Shapes, Spend

LEMMA CleanUpType ==
    ASSUME Shapes, CleanUp
    PROVE  work' \in [{"new", "update"} -> SUBSET Tag]
BY DEF Shapes, CleanUp

\* backmeup.configure.sh
LEMMA Configured ==
    ASSUME Shapes, NEW b \in Bin, scripts[b] # Missing, setup[b] # Missing, NEW k \in Backend,
           \/ setup' = [setup EXCEPT ![b].ver = Mark(scripts[b]), ![b].index = "default", ![b].backend = k]
           \/ setup' = [setup EXCEPT ![b].ver = Mark(scripts[b]), ![b].backend = k, ![b].index = "default"]
    PROVE  /\ setup' \in [Bin -> {Missing} \cup SetupFile]
           /\ setup'[b] \in SetupFile
           /\ setup'[b].ver = Mark(scripts[b]) /\ setup'[b].backend = k
           /\ setup'[b].sync = setup[b].sync
           /\ \A c \in Bin \ {b} : setup'[c] = setup[c]
<1>1. setup[b] \in SetupFile /\ Mark(scripts[b]) \in Tag \cup {Unmarked} /\ "default" \in Index
  BY Marking DEF Shapes, Index
<1> DEFINE f == [setup[b] EXCEPT !.ver = Mark(scripts[b]), !.index = "default", !.backend = k]
           g == [setup[b] EXCEPT !.ver = Mark(scripts[b]), !.backend = k, !.index = "default"]
<1>2. /\ f \in SetupFile /\ f.ver = Mark(scripts[b]) /\ f.backend = k /\ f.sync = setup[b].sync
      /\ g \in SetupFile /\ g.ver = Mark(scripts[b]) /\ g.backend = k /\ g.sync = setup[b].sync
  BY <1>1 DEF SetupFile
<1>3. setup' = [setup EXCEPT ![b] = f] \/ setup' = [setup EXCEPT ![b] = g]
  OBVIOUS
<1> HIDE DEF f, g
<1> QED
  BY <1>2, <1>3 DEF Shapes

\* One of the switches files is changed.
LEMMA OneChanged ==
    ASSUME NEW S, NEW f \in [Data -> [Name -> S]], NEW d \in Data, NEW n \in Name, NEW x \in S
    PROVE  /\ [f EXCEPT ![d][n] = x] \in [Data -> [Name -> S]]
           /\ \A e \in Data, m \in Name :
                [f EXCEPT ![d][n] = x][e][m] = IF e = d /\ m = n THEN x ELSE f[e][m]
<1>1. f[d] \in [Name -> S] /\ [f[d] EXCEPT ![n] = x] \in [Name -> S]
  OBVIOUS
<1>2. [f EXCEPT ![d][n] = x] = [f EXCEPT ![d] = [f[d] EXCEPT ![n] = x]]
  OBVIOUS
<1>3. [f EXCEPT ![d] = [f[d] EXCEPT ![n] = x]] \in [Data -> [Name -> S]]
  BY <1>1
<1>4. ASSUME NEW e \in Data, NEW m \in Name
      PROVE  [f EXCEPT ![d] = [f[d] EXCEPT ![n] = x]][e][m] = IF e = d /\ m = n THEN x ELSE f[e][m]
  BY <1>1
<1> QED
  BY <1>2, <1>3, <1>4

\* What is written when switches are saved, or in part; only sources that have their
\* switches there are affected.
LEMMA SwitchesWritten ==
    ASSUME Shapes, CallOK, call.cmd = "ignore", NEW x \in {Missing} \cup Switches,
           cfg' = [cfg EXCEPT ![call.sync][ProjectName[call.source]] = x], Forget(SameFile)
    PROVE  /\ cfg' \in [Data -> [Name -> {Missing} \cup Switches]]
           /\ asked' \in [Source -> {Unknown} \cup Saved]
           /\ cfg'[call.sync][ProjectName[call.source]] = x
           /\ \A q \in Source : asked'[q] # Unknown =>
                /\ asked'[q] = asked[q]
                /\ cfg'[asked[q].sync][ProjectName[q]] = cfg[asked[q].sync][ProjectName[q]]
<1>1. PICK d \in Data, p \in Source : d = call.sync /\ p = call.source
  BY DEF CallOK
<1>2. /\ cfg \in [Data -> [Name -> {Missing} \cup Switches]]
      /\ \A q \in Source : ProjectName[q] \in Name
      /\ asked \in [Source -> {Unknown} \cup Saved]
  BY DEF Shapes, Name
<1>3. /\ cfg' \in [Data -> [Name -> {Missing} \cup Switches]]
      /\ \A e \in Data, n \in Name :
           cfg'[e][n] = IF e = d /\ n = ProjectName[p] THEN x ELSE cfg[e][n]
  BY <1>1, <1>2, OneChanged
<1>4. asked' \in [Source -> {Unknown} \cup Saved]
  BY <1>2 DEF Forget
<1>5. ASSUME NEW q \in Source, asked'[q] # Unknown
      PROVE  /\ asked'[q] = asked[q]
             /\ cfg'[asked[q].sync][ProjectName[q]] = cfg[asked[q].sync][ProjectName[q]]
  <2>1. q \notin SameFile /\ asked'[q] = asked[q]
    BY <1>5 DEF Forget
  <2>2. asked[q].sync \in Data
    BY <1>2, <1>5, <2>1 DEF Saved
  <2>3. asked[q].sync # d \/ ProjectName[q] # ProjectName[p]
    BY <1>1, <1>5, <2>1 DEF SameFile
  <2> QED
    BY <1>2, <1>3, <2>1, <2>2, <2>3
<1> QED
  BY <1>1, <1>2, <1>3, <1>4, <1>5

LEMMA SwitchesTorn ==
    ASSUME Shapes, CallOK, call.cmd = "ignore", TornSwitches
    PROVE  \E x \in {Missing} \cup Switches :
             /\ cfg' = [cfg EXCEPT ![call.sync][ProjectName[call.source]] = x]
             /\ Forget(SameFile) /\ UNCHANGED patterns
<1>1. call.sync \in Data /\ call.source \in Source /\ call.input \in Input
  BY DEF CallOK
<1>2. /\ [git |-> call.input.git, bmu |-> FALSE] \in Switches
      /\ SwitchesOf(call.input) \in Switches
  BY <1>1, CliAssumption DEF Switches, SwitchesOf
<1>3. cfg[call.sync][ProjectName[call.source]] \in {Missing} \cup Switches
  <2>1. cfg \in [Data -> [Name -> {Missing} \cup Switches]] /\ ProjectName[call.source] \in Name
    BY <1>1 DEF Shapes, Name
  <2>2. cfg[call.sync] \in [Name -> {Missing} \cup Switches]
    BY <1>1, <2>1
  <2> QED
    BY <2>1, <2>2
<1>4. PICK torn \in {cfg[call.sync][ProjectName[call.source]], Missing,
                     [git |-> call.input.git, bmu |-> FALSE], SwitchesOf(call.input)} :
        cfg' = [cfg EXCEPT ![call.sync][ProjectName[call.source]] = torn]
  BY DEF TornSwitches
<1>5. torn \in {Missing} \cup Switches
  BY <1>2, <1>3
<1>6. Forget(SameFile) /\ UNCHANGED patterns
  BY DEF TornSwitches
<1> QED
  BY <1>4, <1>5, <1>6

LEMMA PatternsTorn ==
    ASSUME Shapes, CallOK, call.cmd = "ignore", TornPatterns
    PROVE  /\ patterns' \in [Source -> Text] /\ asked' \in [Source -> {Unknown} \cup Saved]
           /\ UNCHANGED cfg
           /\ \A q \in Source : asked'[q] # Unknown =>
                asked'[q] = asked[q] /\ patterns'[q] = patterns[q]
<1>1. PICK p \in Source, x \in Input : p = call.source /\ x = call.input
  BY DEF CallOK
<1>2. PICK t \in {patterns[p], "", Junk, x.text} : patterns' = [patterns EXCEPT ![p] = t]
  BY <1>1 DEF TornPatterns
<1>3. t \in Text /\ patterns \in [Source -> Text] /\ asked \in [Source -> {Unknown} \cup Saved]
  <2>1. patterns \in [Source -> Text] /\ asked \in [Source -> {Unknown} \cup Saved]
    BY DEF Shapes
  <2>2. patterns[p] \in Text
    BY <2>1
  <2>3. "" \in Text /\ Junk \in Text /\ x.text \in Text
    BY DEF Text
  <2> QED
    BY <2>1, <2>2, <2>3
<1>4. UNCHANGED cfg /\ asked' = [q \in Source |-> IF q \in {p} THEN Unknown ELSE asked[q]]
  BY <1>1 DEF TornPatterns, Forget
<1> QED
  BY <1>2, <1>3, <1>4

\* What a command starts with.
LEMMA StartsNew ==
    ASSUME NEW b \in Bin, NEW d \in Data, NEW i \in Index,
           call' = [Idle EXCEPT !.cmd = "new", !.bin = b, !.sync = d, !.index = i, !.todo = InstallSteps]
    PROVE  CallOK' /\ call'.cmd = "new" /\ call'.got = Missing /\ Head(call'.todo) = "lookup"
<1>1. /\ call' \in Call /\ call'.cmd = "new" /\ call'.bin = b /\ call'.sync = d
      /\ call'.index = i /\ call'.got = Missing /\ call'.todo = InstallSteps
  BY IdleType DEF Call, Command, InstallSteps, InstallAhead, Idle
<1>2. InstallSteps \in InstallAhead /\ Head(InstallSteps) = "lookup"
  BY DEF InstallSteps, InstallAhead
<1> QED
  BY <1>1, <1>2 DEF CallOK, Installing, Resting

UpdateCall(b, from, d, i, t, seen) ==
    [Idle EXCEPT !.cmd = "update", !.bin = b, !.from = from, !.sync = d, !.index = i,
                 !.tag = t, !.seen = seen, !.todo = InstallSteps]

LEMMA StartsUpdate ==
    ASSUME NEW b \in Bin, NEW from \in Bin, NEW d \in Data, NEW i \in Index, NEW t \in Tag,
           NEW seen \in Tag \cup {Missing}, call' = UpdateCall(b, from, d, i, t, seen)
    PROVE  /\ CallOK' /\ call'.cmd = "update" /\ call'.got = Missing /\ Head(call'.todo) = "lookup"
           /\ call'.tag = t /\ call'.seen = seen
<1>1. /\ call' \in Call /\ call'.cmd = "update" /\ call'.bin = b /\ call'.sync = d /\ call'.tag = t
      /\ call'.index = i /\ call'.got = Missing /\ call'.seen = seen /\ call'.todo = InstallSteps
  BY IdleType DEF Call, Command, InstallSteps, InstallAhead, Idle, UpdateCall
<1>2. InstallSteps \in InstallAhead /\ Head(InstallSteps) = "lookup"
  BY DEF InstallSteps, InstallAhead
<1> QED
  BY <1>1, <1>2 DEF CallOK, Installing, Resting

LEMMA StartsReplicate ==
    ASSUME NEW b \in Bin, NEW k \in Backend,
           call' = [Idle EXCEPT !.cmd = "replicate", !.bin = b, !.backend = k, !.todo = <<"configure">>]
    PROVE  CallOK' /\ call'.cmd = "replicate" /\ call'.got = Missing /\ Head(call'.todo) = "configure"
<1>1. /\ call' \in Call /\ call'.cmd = "replicate" /\ call'.bin = b /\ call'.backend = k
      /\ call'.got = Missing /\ call'.todo = <<"configure">>
  BY IdleType DEF Call, Command, Idle
<1> QED
  BY <1>1, ConfigureFirst DEF CallOK, Installing, Resting

LEMMA StartsIgnore ==
    ASSUME NEW b \in Bin, NEW d \in Data, NEW p \in Source, NEW x \in Input,
           call' = [Idle EXCEPT !.cmd = "ignore", !.sync = d, !.bin = b, !.source = p, !.input = x,
                                !.todo = <<"switches", "patterns">>]
    PROVE  /\ CallOK' /\ call'.cmd = "ignore" /\ call'.got = Missing /\ Head(call'.todo) = "switches"
           /\ call'.source = p
<1>1. /\ call' \in Call /\ call'.cmd = "ignore" /\ call'.sync = d /\ call'.source = p
      /\ call'.input = x /\ call'.got = Missing /\ call'.todo = <<"switches", "patterns">>
  BY IdleType DEF Call, Command, Idle, IgnoreAhead
<1>2. Head(<<"switches", "patterns">>) = "switches" /\ <<"switches", "patterns">> \in IgnoreAhead
  BY DEF IgnoreAhead
<1> QED
  BY <1>1, <1>2 DEF CallOK, Installing, Resting

LEMMA TypeInit == Init => TypeInv
<1> SUFFICES ASSUME Init PROVE TypeInv
  OBVIOUS
<1>1. CallOK
  <2>1. call = Idle
    BY DEF Init
  <2> QED
    BY <2>1, IdleType DEF CallOK, Resting, Installing
<1>2. scripts \in [Bin -> {Missing} \cup Tag]
  <2>1. scripts \in [Bin -> {Missing} \cup Installed]
    BY DEF Init
  <2>2. Installed \subseteq Tag
    BY DEF Tag
  <2> QED
    BY <2>1, <2>2
<1>3. setup \in [Bin -> {Missing} \cup SetupFile]
  <2>1. PICK d \in Data, target \in Bin :
          setup = [b \in Bin |-> IF scripts[b] = Missing THEN Missing
                                 ELSE [ver |-> Mark(scripts[b]), sync |-> d, index |-> "custom",
                                       inst |-> target, backend |-> "none"]]
    BY DEF Init
  <2>2. ASSUME NEW b \in Bin, scripts[b] # Missing
        PROVE  [ver |-> Mark(scripts[b]), sync |-> d, index |-> "custom",
                inst |-> target, backend |-> "none"] \in SetupFile
    <3>1. Mark(scripts[b]) \in Tag \cup {Unmarked}
      BY <1>2, <2>2, Marking
    <3> QED
      BY <3>1 DEF SetupFile, Index, Backend
  <2> QED
    BY <2>1, <2>2
<1>4. offer \in Offers /\ work \in [{"new", "update"} -> SUBSET Tag]
  BY DEF Init, NoOffer, Offers
<1>5. /\ cfg \in [Data -> [Name -> {Missing} \cup Switches]]
      /\ asked \in [Source -> {Unknown} \cup Saved]
  BY DEF Init, Name
<1>6. patterns \in [Source -> Text]
  BY DEF Init, Text
<1>7. /\ gui \in Guis /\ released \in Releases /\ saved = NoConfig /\ shown = Closed
      /\ touched = {} /\ left = MaxCalls
  BY DEF Init
<1> QED
  BY <1>1, <1>2, <1>3, <1>4, <1>5, <1>6, <1>7, CliAssumption DEF TypeInv, Shapes

\* What install.sh is run with, and what it leaves.
LEMMA InstallsWith ==
    ASSUME TypeInv, Doing("install")
    PROVE  /\ Installing /\ call.bin \in Bin /\ call.got \in Tag
           /\ SetupAfter(call.bin) \in SetupFile
           /\ SetupAfter(call.bin).ver = Mark(call.got)
           /\ SetupAfter(call.bin).backend = ReplicationStatus(call.bin)
<1>1. /\ Installing /\ call.bin \in Bin /\ call.sync \in Data /\ call.index \in Index
      /\ call.got \in Tag
  BY StepOf DEF TypeInv, CallOK
<1>2. Mark(call.got) \in Tag \cup {Unmarked} /\ ReplicationStatus(call.bin) \in Backend
  BY <1>1, Marking, StatusType DEF TypeInv
<1> QED
  BY <1>1, <1>2 DEF SetupAfter, SetupFile

\* backmeup.configure.sh by hand is given a backend that the scripts know.
LEMMA ReconfiguresWith ==
    ASSUME TypeInv, Reconfigure
    PROVE  \E b \in Bin, k \in Backend :
             /\ LooksInstalled(b) /\ Knows(scripts[b], k)
             /\ setup' = [setup EXCEPT ![b].ver = Mark(scripts[b]), ![b].backend = k, ![b].index = "default"]
<1>1. PICK b \in Bin :
        /\ LooksInstalled(b)
        /\ \E k \in {"none", "local", setup[b].backend} :
             /\ Knows(scripts[b], k)
             /\ setup' = [setup EXCEPT ![b].ver = Mark(scripts[b]), ![b].backend = k, ![b].index = "default"]
  BY DEF Reconfigure
<1>2. {"none", "local", setup[b].backend} \subseteq Backend
  BY <1>1 DEF LooksInstalled, TypeInv, Shapes, SetupFile, Backend
<1>3. PICK k \in Backend :
        /\ Knows(scripts[b], k)
        /\ setup' = [setup EXCEPT ![b].ver = Mark(scripts[b]), ![b].backend = k, ![b].index = "default"]
  BY <1>1, <1>2
<1> QED
  BY <1>1, <1>3

\* Commands and steps that keep a variable's type, by what they change.
LEMMA NextType == TypeInv /\ [Next]_vars => TypeInv'
<1> SUFFICES ASSUME TypeInv, [Next]_vars PROVE TypeInv'
  OBVIOUS
<1> USE DEF TypeInv
<1>0. CallOK /\ Shapes /\ call \in Call
  BY DEF CallOK
<1>1. CASE CheckForUpdate
  <2>1. PICK s, e : offer' = [bin |-> shown, current |-> ReadVersion(shown), stable |-> s, experimental |-> e]
                    /\ s = LatestOf(NewerThan(ReadVersion(shown)))
                    /\ e \in {Missing, LatestOf(ExperimentalFor(ReadVersion(shown)))}
    BY <1>1 DEF CheckForUpdate
  <2>2. s \in Tag \cup {Missing} /\ e \in Tag \cup {Missing}
    BY <1>0, <2>1, OfferType DEF NewerThan, ExperimentalFor, Stable
  <2>3. shown \in Bin /\ ReadVersion(shown) \in Tag
    BY <1>0, <1>1, StatusType DEF CheckForUpdate
  <2>4. offer' \in Offers
    BY <2>1, <2>2, <2>3 DEF Offers
  <2>5. left' \in 0..MaxCalls
    BY <1>0, <1>1, SpendType DEF CheckForUpdate, Fails, Shapes
  <2>6. UNCHANGED call
    BY <1>1 DEF CheckForUpdate
  <2> QED
    BY <1>0, <1>1, <2>4, <2>5, <2>6 DEF CheckForUpdate, ignore, Shapes, CallOK, Resting, Installing
<1>2. CASE StartNew
  <2>1. CallOK'
    BY <1>2, StartsNew DEF StartNew, Index
  <2>2. left' \in 0..MaxCalls
    BY <1>0, <1>2, SpendType DEF StartNew
  <2> QED
    BY <1>0, <1>2, <2>1, <2>2 DEF StartNew, ignore, Shapes
<1>3. CASE StartUpdate
  <2>1. shown \in Bin /\ setup[shown] \in SetupFile /\ offer \in Offers
    BY <1>0, <1>3 DEF StartUpdate, Shapes
  <2>2. /\ setup[shown].inst \in Bin /\ setup[shown].sync \in Data /\ setup[shown].index \in Index
        /\ offer.current \in Tag \cup {Missing}
        /\ {offer.stable, offer.experimental} \ {Missing} \subseteq Tag
    BY <2>1 DEF SetupFile, Offers
  <2>3. CallOK'
    <3>1. PICK t \in {offer.stable, offer.experimental} \ {Missing} :
            call' = [Idle EXCEPT !.cmd = "update", !.bin = setup[shown].inst, !.from = shown,
                                 !.sync = setup[shown].sync, !.index = setup[shown].index,
                                 !.tag = t, !.seen = offer.current, !.todo = InstallSteps]
      BY <1>3 DEF StartUpdate
    <3>2. t \in Tag
      BY <2>2
    <3>3. PICK b \in Bin, d \in Data, i \in Index, c \in Tag \cup {Missing} :
            b = setup[shown].inst /\ d = setup[shown].sync /\ i = setup[shown].index /\ c = offer.current
      BY <2>2
    <3>4. call' = UpdateCall(b, shown, d, i, t, c)
      BY <3>1, <3>3 DEF UpdateCall
    <3> QED
      BY <2>1, <3>2, <3>4, StartsUpdate
  <2>4. left' \in 0..MaxCalls /\ NoOffer \in Offers
    BY <1>0, <1>3, SpendType DEF StartUpdate, NoOffer, Offers
  <2> QED
    BY <1>0, <1>3, <2>3, <2>4 DEF StartUpdate, ignore, Shapes
<1>4. CASE UseExisting
  <2>1. PICK b \in Bin : saved' = b /\ shown' = b /\ offer' = NoOffer
    BY <1>4 DEF UseExisting, Enter
  <2>2. left' \in 0..MaxCalls /\ NoOffer \in Offers
    BY <1>0, <1>4, SpendType DEF UseExisting, NoOffer, Offers
  <2>3. UNCHANGED <<gui, released, scripts, setup, call, work, cfg, patterns, asked, touched>>
    BY <1>4 DEF UseExisting, ignore
  <2> QED
    BY <1>0, <2>1, <2>2, <2>3 DEF Shapes, CallOK, Resting, Installing
<1>5. CASE StartReplicate
  <2>1. CallOK'
    BY <1>5, StartsReplicate DEF StartReplicate, Backend
  <2>2. left' \in 0..MaxCalls
    BY <1>0, <1>5, SpendType DEF StartReplicate
  <2> QED
    BY <1>0, <1>5, <2>1, <2>2 DEF StartReplicate, ignore, Shapes
<1>6. CASE StartIgnore
  <2>1. shown \in Bin /\ setup[shown].sync \in Data
    BY <1>0, <1>6 DEF StartIgnore, Shapes, SetupFile
  <2>2. CallOK'
    <3>1. PICK p \in Source, x \in Input :
            call' = [Idle EXCEPT !.cmd = "ignore", !.sync = setup[shown].sync, !.bin = shown,
                                 !.source = p, !.input = x, !.todo = <<"switches", "patterns">>]
      BY <1>6 DEF StartIgnore
    <3> QED
      BY <2>1, <3>1, StartsIgnore
  <2>3. left' \in 0..MaxCalls
    BY <1>0, <1>6, SpendType DEF StartIgnore
  <2> QED
    BY <1>0, <1>6, <2>2, <2>3 DEF StartIgnore, ignore, Shapes
<1>7. CASE Lookup
  <2>1. Installing /\ Head(call.todo) = "lookup"
    BY <1>0, <1>7, StepOf DEF Lookup
  <2>2. CallOK'
    <3>1. CASE GiveUpInstall
      BY <3>1, Ends DEF GiveUpInstall, End
    <3>2. CASE call' = [call EXCEPT !.todo = Tail(@),
                                    !.got = IF call.cmd = "new" THEN Newest(Stable(released)) ELSE call.tag]
      <4>1. (IF call.cmd = "new" THEN Newest(Stable(released)) ELSE call.tag) \in Tag
        BY <1>0, <2>1, StableType DEF Installing, CallOK
      <4>2. Missing \notin Tag
        BY IdleType
      <4> QED
        BY <1>0, <1>7, <3>2, <4>1, <4>2, GoesOn DEF Lookup
    <3> QED
      BY <1>7, <3>1, <3>2 DEF Lookup
  <2>3. work' \in [{"new", "update"} -> SUBSET Tag] /\ left' \in 0..MaxCalls
    BY <1>0, <1>7, CleanUpType, SpendType DEF Lookup, GiveUpInstall, Fails, Shapes
  <2> QED
    BY <1>0, <1>7, <2>2, <2>3 DEF Lookup, ignore, Shapes
<1>8. CASE Download
  <2>1. CallOK'
    <3>1. CASE GoOn
      BY <1>0, <1>8, <3>1, GoesOnPlain DEF Download
    <3>2. CASE call' = [call EXCEPT !.todo = Tail(@), !.got = Junk]
      <4>1. Junk # Missing /\ Junk \in Tag \cup {Missing, Junk}
        BY MarkersAssumption
      <4>2. "download" \in {"lookup", "download", "extract", "install", "switches"} /\ Doing("download")
        BY <1>8 DEF Download
      <4>3. "download" \notin {"extract", "install"}
        OBVIOUS
      <4> QED
        BY <1>0, <3>2, <4>1, <4>2, <4>3, GoesOn
    <3> QED
      BY <1>8, <3>1, <3>2 DEF Download
  <2>2. left' \in 0..MaxCalls
    BY <1>0, <1>8, SpendType DEF Download, Fails, Shapes
  <2> QED
    BY <1>0, <1>8, <2>1, <2>2 DEF Download, ignore, Shapes
<1>9. CASE Extract
  <2>1. call.got # Missing /\ call.cmd \in {"new", "update"}
    BY <1>0, <1>9, StepOf DEF Extract, CallOK, Installing
  <2>2. CASE GiveUpInstall
    <3>1. CallOK' /\ work' \in [{"new", "update"} -> SUBSET Tag]
      BY <1>0, <2>2, Ends, CleanUpType DEF GiveUpInstall, End
    <3> QED
      BY <1>0, <1>9, <3>1 DEF Extract, ignore, Shapes
  <2>3. CASE /\ call.got # Junk /\ work[call.cmd] \cup {call.got} = {call.got}
             /\ work' = [work EXCEPT ![call.cmd] = work[call.cmd] \cup {call.got}]
             /\ GoOn
    <3>1. call.got \in Tag
      BY <1>0, <2>1, <2>3 DEF Call
    <3>2. CallOK'
      <4>1. call' = [call EXCEPT !.todo = Tail(@), !.got = call.got]
        BY <1>0, <2>3 DEF GoOn, Call
      <4> QED
        BY <1>0, <1>9, <2>1, <3>1, <4>1, GoesOn DEF Extract
    <3>3. work' \in [{"new", "update"} -> SUBSET Tag]
      BY <1>0, <2>1, <2>3, <3>1 DEF Shapes
    <3> QED
      BY <1>0, <1>9, <3>2, <3>3 DEF Extract, ignore, Shapes
  <2> QED
    BY <1>9, <2>2, <2>3 DEF Extract
<1>10. CASE InstallScript
  <2>1. /\ call.bin \in Bin /\ call.sync \in Data /\ call.index \in Index /\ call.got \in Tag
    BY <1>0, <1>10, StepOf DEF InstallScript, CallOK
  <2>2. CallOK'
    <3>1. CASE GoOn
      BY <1>0, <1>10, <3>1, GoesOnPlain DEF InstallScript
    <3>2. CASE End
      BY <3>2, Ends DEF End
    <3> QED
      BY <1>10, <3>1, <3>2 DEF InstallScript
  <2>3. SetupAfter(call.bin) \in SetupFile
    BY <1>0, <1>10, InstallsWith DEF InstallScript
  <2>4. setup' \in [Bin -> {Missing} \cup SetupFile] /\ scripts' \in [Bin -> {Missing} \cup Tag]
    <3>1. /\ setup' \in {setup, [setup EXCEPT ![call.bin] = SetupAfter(call.bin)]}
          /\ scripts' \in {scripts, [scripts EXCEPT ![call.bin] = call.got]}
      BY <1>10 DEF InstallScript
    <3> QED
      BY <1>0, <2>1, <2>3, <3>1 DEF Shapes
  <2>5. /\ work' \in [{"new", "update"} -> SUBSET Tag] /\ left' \in 0..MaxCalls
        /\ touched' \subseteq Bin
    <3>1. CleanUp /\ (UNCHANGED left \/ Spend)
      BY <1>10 DEF InstallScript, Fails
    <3>2. touched' \in {touched, touched \ {call.bin}, touched \cup {call.bin}}
      BY <1>10 DEF InstallScript
    <3> QED
      BY <1>0, <2>1, <3>1, <3>2, CleanUpType, SpendType DEF Shapes
  <2> QED
    BY <1>0, <1>10, <2>2, <2>4, <2>5 DEF InstallScript, ignore, Shapes
<1>11. CASE Save
  <2>1. call.bin \in Bin
    BY <1>0, <1>11, StepOf DEF Save, CallOK
  <2>2. CallOK' /\ NoOffer \in Offers
    BY <1>11, Ends DEF Save, End, NoOffer, Offers
  <2>3. left' \in 0..MaxCalls
    BY <1>0, <1>11, SpendType DEF Save, Fails, Shapes
  <2> QED
    BY <1>0, <1>11, <2>1, <2>2, <2>3 DEF Save, Enter, ignore, Shapes
<1>12. CASE RunConfigure
  <2>1. call.bin \in Bin /\ call.backend \in Backend
    BY <1>0, <1>12, StepOf DEF RunConfigure, CallOK
  <2>2. CallOK' /\ left' \in 0..MaxCalls
    BY <1>0, <1>12, Ends, SpendType DEF RunConfigure, End, Fails, Shapes
  <2>3. setup' \in [Bin -> {Missing} \cup SetupFile]
    BY <1>0, <1>12, <2>1, Configured DEF RunConfigure, LooksInstalled, Shapes
  <2> QED
    BY <1>0, <1>12, <2>2, <2>3 DEF RunConfigure, ignore, Shapes
<1>13. CASE WriteSwitches
  <2>1. call.cmd = "ignore" /\ call.input \in Input
    BY <1>0, <1>13, StepOf DEF WriteSwitches, CallOK
  <2>2. CallOK' /\ left' \in 0..MaxCalls
    <3>1. CASE GoOn
      BY <1>0, <1>13, <3>1, GoesOnPlain, SpendType DEF WriteSwitches, Fails, Shapes
    <3>2. CASE End
      BY <1>0, <1>13, <3>2, Ends, SpendType DEF WriteSwitches, Fails, End, Shapes
    <3> QED
      BY <1>13, <3>1, <3>2 DEF WriteSwitches
  <2>3. \E x \in {Missing} \cup Switches :
          /\ cfg' = [cfg EXCEPT ![call.sync][ProjectName[call.source]] = x]
          /\ Forget(SameFile) /\ UNCHANGED patterns
    <3>1. SwitchesOf(call.input) \in Switches
      BY <2>1, CliAssumption DEF Switches, SwitchesOf
    <3> QED
      BY <1>0, <1>13, <2>1, <3>1, SwitchesTorn DEF WriteSwitches
  <2>4. /\ cfg' \in [Data -> [Name -> {Missing} \cup Switches]]
        /\ asked' \in [Source -> {Unknown} \cup Saved]
    BY <1>0, <2>1, <2>3, SwitchesWritten
  <2> QED
    BY <1>0, <1>13, <2>2, <2>3, <2>4 DEF WriteSwitches, Shapes
<1>14. CASE WritePatterns
  <2>1. /\ call.sync \in Data /\ call.source \in Source /\ call.input \in Input
        /\ call.cmd = "ignore"
    BY <1>0, <1>14, StepOf DEF WritePatterns, CallOK
  <2>2. CallOK' /\ left' \in 0..MaxCalls
    BY <1>0, <1>14, Ends, SpendType DEF WritePatterns, End, Fails, Shapes
  <2>3. /\ patterns' \in [Source -> Text] /\ asked' \in [Source -> {Unknown} \cup Saved]
        /\ UNCHANGED cfg
    <3>1. CASE TornPatterns
      BY <1>0, <2>1, <3>1, PatternsTorn
    <3>2. CASE ~TornPatterns
      <4>1. call.input.text \in Text
        BY <2>1 DEF Text
      <4>2. [sync |-> call.sync, input |-> call.input] \in Saved
        BY <2>1 DEF Saved
      <4>3. /\ patterns' = [patterns EXCEPT ![call.source] = call.input.text]
            /\ asked' = [asked EXCEPT ![call.source] = [sync |-> call.sync, input |-> call.input]]
            /\ UNCHANGED cfg
        BY <1>14, <3>2 DEF WritePatterns
      <4>4. patterns \in [Source -> Text] /\ asked \in [Source -> {Unknown} \cup Saved]
        BY <1>0 DEF Shapes
      <4> QED
        BY <2>1, <4>1, <4>2, <4>3, <4>4
    <3> QED
      BY <3>1, <3>2
  <2> QED
    BY <1>0, <1>14, <2>2, <2>3 DEF WritePatterns, Shapes
<1>15. CASE Launch
  <2>1. CallOK' /\ NoOffer \in Offers
    BY <1>0, <1>15 DEF Launch, CallOK, Resting, Installing, NoOffer, Offers
  <2>2. work' \in [{"new", "update"} -> SUBSET Tag]
    BY <1>0, <1>15 DEF Launch, Shapes
  <2>3. shown' \in Bin \cup {Closed, Setup} /\ offer' \in Offers
    BY <1>0, <1>15, <2>1 DEF Launch, Enter, Shapes
  <2> QED
    BY <1>0, <1>15, <2>1, <2>2, <2>3 DEF Launch, ignore, Shapes
<1>16. CASE Quit
  <2>1. CallOK'
    BY <1>0, <1>16 DEF Quit, CallOK, Resting, Installing
  <2> QED
    BY <1>0, <1>16, <2>1 DEF Quit, ignore, Shapes
<1>17. CASE Kill
  <2>1. CallOK' /\ left' \in 0..MaxCalls /\ saved' \in Bin \cup {NoConfig}
    BY <1>0, <1>17, Ends, SpendType DEF Kill, End, Shapes
  <2>2. /\ cfg' \in [Data -> [Name -> {Missing} \cup Switches]]
        /\ patterns' \in [Source -> Text] /\ asked' \in [Source -> {Unknown} \cup Saved]
    <3>1. CASE Doing("switches") /\ TornSwitches
      <4>1. call.cmd = "ignore"
        BY <1>0, <3>1, StepOf
      <4>2. PICK x \in {Missing} \cup Switches :
              /\ cfg' = [cfg EXCEPT ![call.sync][ProjectName[call.source]] = x]
              /\ Forget(SameFile) /\ UNCHANGED patterns
        BY <1>0, <3>1, <4>1, SwitchesTorn
      <4>3. /\ cfg' \in [Data -> [Name -> {Missing} \cup Switches]]
            /\ asked' \in [Source -> {Unknown} \cup Saved]
        BY <1>0, <4>1, <4>2, SwitchesWritten
      <4> QED
        BY <1>0, <4>2, <4>3 DEF Shapes
    <3>2. CASE Doing("patterns") /\ TornPatterns
      <4>1. call.cmd = "ignore"
        BY <1>0, <3>2, StepOf
      <4> QED
        BY <1>0, <3>2, <4>1, PatternsTorn DEF Shapes
    <3>3. CASE UNCHANGED ignore
      BY <1>0, <3>3 DEF ignore, Shapes
    <3> QED
      BY <1>17, <3>1, <3>2, <3>3 DEF Kill
  <2> QED
    BY <1>0, <1>17, <2>1, <2>2 DEF Kill, Shapes
<1>18. CASE Pull
  <2>1. CallOK' /\ left' \in 0..MaxCalls
    BY <1>0, <1>18, SpendType DEF Pull, CallOK, Resting, Installing
  <2>2. scripts' \in [Bin -> {Missing} \cup Tag]
    BY <1>0, <1>18 DEF Pull, Shapes, Tag
  <2> QED
    BY <1>0, <1>18, <2>1, <2>2 DEF Pull, ignore, Shapes
<1>19. CASE Reconfigure
  <2>1. CallOK' /\ left' \in 0..MaxCalls
    BY <1>0, <1>19, SpendType DEF Reconfigure, CallOK, Resting, Installing
  <2>2. setup' \in [Bin -> {Missing} \cup SetupFile]
    <3>1. PICK b \in Bin, k \in Backend :
            /\ LooksInstalled(b) /\ Knows(scripts[b], k)
            /\ setup' = [setup EXCEPT ![b].ver = Mark(scripts[b]), ![b].backend = k, ![b].index = "default"]
      BY <1>0, <1>19, ReconfiguresWith
    <3> QED
      BY <1>0, <3>1, Configured DEF LooksInstalled
  <2> QED
    BY <1>0, <1>19, <2>1, <2>2 DEF Reconfigure, ignore, Shapes
<1>20. CASE Remove
  <2>1. CallOK' /\ left' \in 0..MaxCalls
    BY <1>0, <1>20, SpendType DEF Remove, CallOK, Resting, Installing
  <2>2. PICK b \in Bin :
          /\ scripts' = [scripts EXCEPT ![b] = Missing]
          /\ setup' = [setup EXCEPT ![b] = Missing]
          /\ touched' = touched \cup {b}
    BY <1>20 DEF Remove
  <2> QED
    BY <1>0, <1>20, <2>1, <2>2 DEF Remove, ignore, Shapes
<1>21. CASE vars' = vars
  BY <1>0, <1>21 DEF vars, ignore, Shapes, CallOK, Resting, Installing
<1> QED
  BY <1>1, <1>2, <1>3, <1>4, <1>5, <1>6, <1>7, <1>8, <1>9, <1>10, <1>11, <1>12, <1>13, <1>14,
     <1>15, <1>16, <1>17, <1>18, <1>19, <1>20, <1>21 DEF Next, Step

LEMMA TypeInvariance == Spec => []TypeInv
BY TypeInit, NextType, PTL DEF Spec

\* Every variable keeps its shape, and a running command has a step ahead of it.
THEOREM TypeCorrect == Spec => []TypeOK
<1>1. TypeInv => TypeOK
  <2> SUFFICES ASSUME TypeInv PROVE TypeOK
    OBVIOUS
  <2>1. (call.todo = <<>>) = Resting
    BY RunningReady DEF TypeInv, Resting
  <2>2. \A b \in Bin : setup[b] # Missing => setup[b] \in SetupFile
    BY DEF TypeInv, Shapes
  <2> QED
    BY <2>1, <2>2 DEF TypeInv, Shapes, TypeOK, SetupFile, Index, Backend, Offers
<1> QED
  BY TypeInvariance, <1>1, PTL

--------------------------------------------------------------------------------
(* What is shown. *)

LEMMA PairedInit == Init => AllPaired
<1> SUFFICES ASSUME Init, NEW b \in Bin PROVE Paired(b)
  BY DEF AllPaired
<1>1. TypeInv /\ touched = {}
  BY TypeInit DEF Init
<1>2. PICK d \in Data, target \in Bin :
        setup = [c \in Bin |-> IF scripts[c] = Missing THEN Missing
                               ELSE [ver |-> Mark(scripts[c]), sync |-> d, index |-> "custom",
                                     inst |-> target, backend |-> "none"]]
  BY DEF Init
<1>3. CASE scripts[b] = Missing
  BY <1>1, <1>2, <1>3 DEF Paired
<1>4. CASE scripts[b] # Missing
  <2>1. scripts[b] \in Tag /\ setup[b] \in SetupFile /\ setup[b].ver = Mark(scripts[b])
    <3>1. setup[b] # Missing \/ setup[b] = Missing
      OBVIOUS
    <3>2. setup[b] = [ver |-> Mark(scripts[b]), sync |-> d, index |-> "custom",
                      inst |-> target, backend |-> "none"]
      BY <1>2, <1>4
    <3>3. Mark(scripts[b]) \in Tag \cup {Unmarked}
      BY <1>1, <1>4, Marking DEF TypeInv, Shapes
    <3> QED
      BY <1>1, <1>4, <3>2, <3>3 DEF TypeInv, Shapes, SetupFile, Index, Backend
  <2>2. setup[b].ver # Unmarked => ~Older(scripts[b], setup[b].ver)
    BY <2>1, Marking, VersionForm, OlderOrder
  <2> QED
    BY <1>1, <1>4, <2>1, <2>2, SetupFileForm DEF Paired
<1> QED
  BY <1>3, <1>4

LEMMA PairedSame ==
    ASSUME NEW b, Paired(b), scripts'[b] = scripts[b], setup'[b] = setup[b],
           b \in touched => b \in touched'
    PROVE  Paired(b)'
BY DEF Paired

\* A directory that is configured: only there, and only if there are scripts.
LEMMA PairedConfigured ==
    ASSUME TypeInv, AllPaired, NEW b \in Bin, LooksInstalled(b), NEW k \in Backend,
           \/ setup' = [setup EXCEPT ![b].ver = Mark(scripts[b]), ![b].index = "default", ![b].backend = k]
           \/ setup' = [setup EXCEPT ![b].ver = Mark(scripts[b]), ![b].backend = k, ![b].index = "default"],
           UNCHANGED <<scripts, touched>>
    PROVE  AllPaired'
<1>1. /\ scripts[b] \in Tag /\ setup'[b] \in SetupFile /\ setup'[b].ver = Mark(scripts[b])
      /\ \A c \in Bin \ {b} : setup'[c] = setup[c]
  BY Configured DEF TypeInv, Shapes, LooksInstalled
<1>2. setup'[b].ver # Unmarked => ~Older(scripts'[b], setup'[b].ver)
  BY <1>1, Marking, VersionForm, OlderOrder
<1>3. Paired(b)'
  BY <1>1, <1>2, SetupFileForm DEF AllPaired, Paired, LooksInstalled
<1> QED
  BY <1>1, <1>3, PairedSame DEF AllPaired

LEMMA PairedNext == TypeInv /\ AllPaired /\ [Next]_vars => AllPaired'
<1> SUFFICES ASSUME TypeInv, AllPaired, [Next]_vars PROVE AllPaired'
  OBVIOUS
<1>0. CallOK /\ Shapes
  BY DEF TypeInv
<1>1. CASE UNCHANGED <<scripts, setup>> /\ touched \subseteq touched'
  BY <1>1, PairedSame DEF AllPaired
<1>2. CASE InstallScript
  <2>1. /\ call.bin \in Bin /\ call.got \in Tag /\ SetupAfter(call.bin) \in SetupFile
        /\ SetupAfter(call.bin).ver = Mark(call.got)
    BY <1>2, InstallsWith DEF InstallScript
  <2>2. CASE /\ scripts' = [scripts EXCEPT ![call.bin] = call.got]
             /\ setup' = [setup EXCEPT ![call.bin] = SetupAfter(call.bin)]
             /\ touched' = touched \ {call.bin}
    <3>1. PICK c \in Bin, f \in SetupFile, v \in Tag :
            /\ c = call.bin /\ f = SetupAfter(call.bin) /\ v = call.got
      BY <2>1
    <3>2. scripts'[c] = v /\ setup'[c] = f /\ c \notin touched'
      BY <1>0, <2>2, <3>1 DEF Shapes
    <3>3. f.ver # Unmarked => ~Older(v, f.ver)
      BY <2>1, <3>1, Marking, VersionForm, OlderOrder
    <3>4. Paired(c)'
      BY <3>2, <3>3, SetupFileForm, IdleType DEF Paired
    <3>5. \A b \in Bin \ {c} : Paired(b)'
      BY <1>0, <2>2, <3>1, PairedSame DEF Shapes, AllPaired
    <3> QED
      BY <3>4, <3>5 DEF AllPaired
  <2>3. CASE /\ scripts' \in {scripts, [scripts EXCEPT ![call.bin] = call.got]}
             /\ setup' \in {setup, [setup EXCEPT ![call.bin] = SetupAfter(call.bin)]}
             /\ touched' = touched \cup {call.bin}
    <3>1. ASSUME NEW b \in Bin, b # call.bin PROVE Paired(b)'
      <4>1. scripts'[b] = scripts[b] /\ setup'[b] = setup[b]
        BY <1>0, <2>1, <2>3, <3>1 DEF Shapes
      <4> QED
        BY <2>3, <4>1, PairedSame DEF AllPaired
    <3>2. ASSUME NEW b \in Bin, b = call.bin PROVE Paired(b)'
      BY <2>3, <3>2 DEF Paired
    <3> QED
      BY <3>1, <3>2 DEF AllPaired
  <2> QED
    BY <1>1, <1>2, <2>2, <2>3 DEF InstallScript
<1>3. CASE RunConfigure
  <2>1. call.bin \in Bin /\ call.backend \in Backend
    BY <1>0, <1>3, StepOf DEF RunConfigure, CallOK
  <2>2. UNCHANGED <<scripts, touched>>
    BY <1>3 DEF RunConfigure
  <2> QED
    BY <1>1, <1>3, <2>1, <2>2, PairedConfigured DEF RunConfigure
<1>4. CASE Reconfigure
  <2>1. UNCHANGED <<scripts, touched>>
    BY <1>4 DEF Reconfigure
  <2>2. PICK b \in Bin, k \in Backend :
          /\ LooksInstalled(b) /\ Knows(scripts[b], k)
          /\ setup' = [setup EXCEPT ![b].ver = Mark(scripts[b]), ![b].backend = k, ![b].index = "default"]
    BY <1>0, <1>4, ReconfiguresWith DEF TypeInv
  <2> QED
    BY <2>1, <2>2, PairedConfigured
<1>5. CASE Pull
  <2>1. PICK c \in Bin, v \in released :
          /\ scripts[c] # Missing /\ Older(scripts[c], v)
          /\ scripts' = [scripts EXCEPT ![c] = v]
    BY <1>5 DEF Pull
  <2>2. UNCHANGED <<setup, touched>>
    BY <1>5 DEF Pull
  <2>3. scripts[c] \in Tag /\ v \in Tag /\ scripts'[c] = v
    BY <1>0, <2>1 DEF Shapes, Tag
  <2>4. c \notin touched /\ setup[c] # Missing /\ setup[c].ver # Unmarked
          => ~Older(v, setup[c].ver)
    <3>1. c \notin touched /\ setup[c] # Missing /\ setup[c].ver # Unmarked
            => setup[c].ver \in Tag /\ ~Older(scripts[c], setup[c].ver)
      BY <1>0 DEF Shapes, SetupFile, AllPaired, Paired
    <3> QED
      BY <2>1, <2>3, <3>1, VersionForm, OlderOrder
  <2>5. Paired(c)'
    BY <2>1, <2>2, <2>3, <2>4, IdleType DEF AllPaired, Paired
  <2>6. \A b \in Bin \ {c} : Paired(b)'
    BY <1>0, <2>1, <2>2, PairedSame DEF Shapes, AllPaired
  <2> QED
    BY <2>5, <2>6 DEF AllPaired
<1>6. CASE Remove
  <2>1. PICK c \in Bin :
          /\ scripts' = [scripts EXCEPT ![c] = Missing]
          /\ setup' = [setup EXCEPT ![c] = Missing]
          /\ touched' = touched \cup {c}
    BY <1>6 DEF Remove
  <2>2. Paired(c)'
    BY <2>1 DEF Paired
  <2>3. \A b \in Bin \ {c} : Paired(b)'
    BY <1>0, <2>1, PairedSame DEF Shapes, AllPaired
  <2> QED
    BY <2>2, <2>3 DEF AllPaired
<1>7. CASE ~(InstallScript \/ RunConfigure \/ Reconfigure \/ Pull \/ Remove)
  BY <1>1, <1>7
  DEF Next, Step, CheckForUpdate, StartNew, StartUpdate, UseExisting, StartReplicate, StartIgnore,
      Lookup, Download, Extract, Save, WriteSwitches, WritePatterns, Launch, Quit, Kill, vars
<1> QED
  BY <1>2, <1>3, <1>4, <1>5, <1>6, <1>7

LEMMA CheckMeans ==
    ASSUME TypeInv, NEW b \in Bin, setup[b] # Missing
    PROVE  /\ ReadVersion(b) = setup[b].ver
           /\ CheckCompatible(b) <=> setup[b].ver # Unmarked /\ ~Older(setup[b].ver, MinCompatible)
BY DEF CheckCompatible, AtLeast, ReadVersion

\* Past the gate, scripts are marked with their own version.
LEMMA ModernMarked ==
    ASSUME NEW v, Modern(v)
    PROVE  Mark(v) = v /\ v # Unmarked /\ v # Missing
<1>1. ~Older(v, MinMarked)
  BY VersionForm, Gates, OlderOrder DEF Modern
<1> QED
  BY <1>1, Marking, IdleType DEF Modern

\* What is installed where the gate was passed has passed it.
LEMMA UsableModern ==
    ASSUME TypeInv, AllPaired, NEW b \in Bin, Usable(b), b \notin touched
    PROVE  Modern(scripts[b])
<1>1. setup[b] # Missing /\ CheckCompatible(b) /\ scripts[b] \in Tag
  BY DEF Usable, LooksInstalled, TypeInv, Shapes
<1>2. /\ setup[b].ver \in Tag /\ ~Older(setup[b].ver, MinCompatible)
      /\ ~Older(scripts[b], setup[b].ver)
  BY <1>1, CheckMeans DEF AllPaired, Paired, TypeInv, Shapes, SetupFile
<1> QED
  BY <1>1, <1>2, VersionForm, OlderOrder DEF Modern

LEMMA UsableSame ==
    ASSUME NEW b, Usable(b), scripts'[b] = scripts[b], setup'[b] = setup[b],
           b \in touched => b \in touched'
    PROVE  Usable(b)'
BY DEF Usable, LooksInstalled, CheckCompatible, AtLeast, ReadVersion

LEMMA UsableConfigured ==
    ASSUME TypeInv, AllPaired, NEW b \in Bin, NEW c \in Bin, Usable(b), LooksInstalled(c),
           NEW k \in Backend,
           \/ setup' = [setup EXCEPT ![c].ver = Mark(scripts[c]), ![c].index = "default", ![c].backend = k]
           \/ setup' = [setup EXCEPT ![c].ver = Mark(scripts[c]), ![c].backend = k, ![c].index = "default"],
           UNCHANGED <<scripts, touched>>
    PROVE  Usable(b)'
<1>1. /\ setup'[c] \in SetupFile /\ setup'[c].ver = Mark(scripts[c])
      /\ \A d \in Bin \ {c} : setup'[d] = setup[d]
  BY Configured DEF TypeInv, LooksInstalled
<1>2. CASE b # c
  BY <1>1, <1>2, UsableSame
<1>3. CASE b = c
  <2>1. CASE b \notin touched
    <3>1. Modern(scripts[b])
      BY <2>1, UsableModern
    <3>2. setup'[b] # Missing /\ setup'[b].ver = scripts[b] /\ setup'[b].ver # Unmarked
      BY <1>1, <1>3, <3>1, ModernMarked, SetupFileForm
    <3> QED
      BY <1>3, <3>1, <3>2
      DEF Usable, LooksInstalled, CheckCompatible, AtLeast, ReadVersion, Modern
  <2>2. CASE b \in touched
    BY <2>2 DEF Usable
  <2> QED
    BY <2>1, <2>2
<1> QED
  BY <1>2, <1>3

\* install.sh leaves what has passed the gate.
LEMMA UsableInstalled ==
    ASSUME UsableInv, Doing("install"), NEW b \in Bin, call.bin = b,
           scripts' = [scripts EXCEPT ![b] = call.got],
           setup' = [setup EXCEPT ![b] = SetupAfter(b)]
    PROVE  Usable(b)'
<1>0. TypeInv /\ UsableAhead /\ Shapes
  BY DEF UsableInv, TypeInv
<1>1. call.got \in Tag /\ SetupAfter(b) \in SetupFile /\ SetupAfter(b).ver = Mark(call.got)
  BY <1>0, InstallsWith
<1>2. Modern(call.got)
  BY <1>0, <1>1 DEF UsableAhead
<1>3. /\ setup'[b] = SetupAfter(b) /\ scripts'[b] = call.got
      /\ setup'[b] # Missing /\ setup'[b].ver = call.got /\ call.got # Unmarked
      /\ call.got # Missing
  BY <1>0, <1>1, <1>2, ModernMarked, SetupFileForm DEF Shapes
<1> QED
  BY <1>2, <1>3 DEF Usable, LooksInstalled, CheckCompatible, AtLeast, ReadVersion, Modern

\* Whatever happens to a directory, it stays past the gate, until somebody removes it.
LEMMA UsableStep ==
    ASSUME UsableInv, [Next]_vars, NEW b \in Bin, Usable(b)
    PROVE  Usable(b)'
<1>0. TypeInv /\ AllPaired /\ UsableAhead /\ CallOK /\ Shapes
  BY DEF UsableInv, TypeInv
<1>1. CASE UNCHANGED <<scripts, setup>> /\ touched \subseteq touched'
  BY <1>1, UsableSame
<1>3. CASE InstallScript
  <2>1. /\ call.bin \in Bin /\ call.got \in Tag /\ SetupAfter(call.bin) \in SetupFile
        /\ SetupAfter(call.bin).ver = Mark(call.got)
    BY <1>0, <1>3, InstallsWith DEF InstallScript
  <2>2. CASE /\ scripts' = [scripts EXCEPT ![call.bin] = call.got]
             /\ setup' = [setup EXCEPT ![call.bin] = SetupAfter(call.bin)]
             /\ touched' = touched \ {call.bin}
    <3>1. CASE b # call.bin
      BY <1>0, <2>1, <2>2, <3>1, UsableSame DEF Shapes
    <3>2. CASE b = call.bin
      BY <1>3, <2>2, <3>2, UsableInstalled DEF InstallScript
    <3> QED
      BY <3>1, <3>2
  <2>3. CASE /\ scripts' \in {scripts, [scripts EXCEPT ![call.bin] = call.got]}
             /\ setup' \in {setup, [setup EXCEPT ![call.bin] = SetupAfter(call.bin)]}
             /\ touched' = touched \cup {call.bin}
    <3>1. CASE b # call.bin
      <4>1. scripts'[b] = scripts[b] /\ setup'[b] = setup[b]
        BY <1>0, <2>1, <2>3, <3>1 DEF Shapes
      <4> QED
        BY <2>3, <4>1, UsableSame
    <3>2. CASE b = call.bin
      BY <2>3, <3>2 DEF Usable
    <3> QED
      BY <3>1, <3>2
  <2> QED
    BY <1>1, <1>3, <2>2, <2>3 DEF InstallScript
<1>4. CASE RunConfigure
  <2>1. call.bin \in Bin /\ call.backend \in Backend
    BY <1>0, <1>4, StepOf DEF RunConfigure, CallOK
  <2>2. UNCHANGED <<scripts, touched>>
    BY <1>4 DEF RunConfigure
  <2> QED
    BY <1>0, <1>1, <1>4, <2>1, <2>2, UsableConfigured DEF RunConfigure
<1>5. CASE Reconfigure
  <2>1. UNCHANGED <<scripts, touched>>
    BY <1>5 DEF Reconfigure
  <2>2. PICK c \in Bin, k \in Backend :
          /\ LooksInstalled(c) /\ Knows(scripts[c], k)
          /\ setup' = [setup EXCEPT ![c].ver = Mark(scripts[c]), ![c].backend = k, ![c].index = "default"]
    BY <1>0, <1>5, ReconfiguresWith
  <2> QED
    BY <1>0, <2>1, <2>2, UsableConfigured
<1>6. CASE Pull
  <2>1. \E v \in Tag : scripts'[b] \in {scripts[b], v}
    BY <1>0, <1>6 DEF Pull, Shapes, Tag
  <2>2. UNCHANGED <<setup, touched>>
    BY <1>6 DEF Pull
  <2>3. scripts[b] # Missing => scripts'[b] # Missing
    BY <2>1, IdleType
  <2> QED
    BY <2>2, <2>3 DEF Usable, LooksInstalled, CheckCompatible, AtLeast, ReadVersion
<1>7. CASE Remove
  <2>1. PICK c \in Bin :
          /\ scripts' = [scripts EXCEPT ![c] = Missing]
          /\ setup' = [setup EXCEPT ![c] = Missing]
          /\ touched' = touched \cup {c}
    BY <1>7 DEF Remove
  <2>2. CASE b = c
    BY <2>1, <2>2 DEF Usable
  <2>3. CASE b # c
    BY <1>0, <2>1, <2>3, UsableSame DEF Shapes
  <2> QED
    BY <2>2, <2>3
<1>8. CASE ~(InstallScript \/ RunConfigure \/ Reconfigure \/ Pull \/ Remove)
  BY <1>1, <1>8
  DEF Next, Step, CheckForUpdate, StartNew, StartUpdate, UseExisting, StartReplicate, StartIgnore,
      Lookup, Download, Extract, Save, WriteSwitches, WritePatterns, Launch, Quit, Kill, vars
<1> QED
  BY <1>3, <1>4, <1>5, <1>6, <1>7, <1>8

LEMMA UsableInit == Init => UsableAhead
<1> SUFFICES ASSUME Init PROVE UsableAhead
  OBVIOUS
<1>1. shown \notin Bin /\ call = Idle /\ offer = NoOffer
  BY MarkersAssumption DEF Init
<1>2. Offered(NoOffer)
  BY DEF Offered, NoOffer
<1> QED
  BY <1>1, <1>2, IdleType DEF UsableAhead, Doing

\* Nothing was removed since what is checked was checked.
LEMMA ShownNext ==
    ASSUME UsableInv, [Next]_vars, NEW b \in Bin, shown' = b
    PROVE  Usable(b)'
<1>0. TypeInv /\ AllPaired /\ UsableAhead /\ CallOK /\ Shapes
  BY DEF UsableInv, TypeInv
<1>1. CASE shown' = shown
  BY <1>0, <1>1, UsableStep DEF UsableAhead
<1>2. CASE LooksInstalled(b) /\ CheckCompatible(b)
  BY <1>2, UsableStep DEF Usable
<1>3. CASE UseExisting
  BY <1>2, <1>3 DEF UseExisting, Enter
<1>4. CASE Launch
  BY <1>2, <1>4, MarkersAssumption DEF Launch, Enter
<1>5. CASE Save
  <2>1. CASE shown' = call.bin
    BY <1>0, <1>5, <2>1, UsableStep DEF Save, UsableAhead
  <2> QED
    BY <1>1, <1>5, <2>1 DEF Save, Enter
<1>6. CASE Quit \/ Kill
  BY <1>6, MarkersAssumption DEF Quit, Kill
<1>7. CASE ~(UseExisting \/ Launch \/ Save \/ Quit \/ Kill)
  BY <1>1, <1>7
  DEF Next, Step, CheckForUpdate, StartNew, StartUpdate, StartReplicate, StartIgnore, Lookup,
      Download, Extract, InstallScript, RunConfigure, WriteSwitches, WritePatterns, Pull,
      Reconfigure, Remove, vars
<1> QED
  BY <1>3, <1>4, <1>5, <1>6, <1>7

\* What is offered is newer than what backmeup.setup.sh names, and past the gate even where
\* that is not: the newest stable release is, and so is every pre-release.
LEMMA OfferedNext ==
    ASSUME UsableInv, [Next]_vars
    PROVE  Offered(offer')
<1>0. TypeInv /\ AllPaired /\ UsableAhead /\ Shapes
  BY DEF UsableInv, TypeInv
<1>1. CASE offer' = offer
  BY <1>0, <1>1 DEF UsableAhead
<1>2. CASE offer' = NoOffer
  BY <1>2 DEF Offered, NoOffer
<1>3. CASE CheckForUpdate
  <2>1. PICK s, e :
          /\ offer' = [bin |-> shown, current |-> ReadVersion(shown), stable |-> s, experimental |-> e]
          /\ s = LatestOf(NewerThan(ReadVersion(shown)))
          /\ e \in {Missing, LatestOf(ExperimentalFor(ReadVersion(shown)))}
    BY <1>3 DEF CheckForUpdate
  <2>2. ReadVersion(shown) \in Tag /\ released \in Releases /\ released \subseteq Tag
    BY <1>0, <1>3, StatusType, OfferType DEF CheckForUpdate, Shapes
  <2>3. ASSUME NEW t \in ExperimentalFor(ReadVersion(shown))
        PROVE  t \in Tag /\ Older(ReadVersion(shown), t) /\ ~Older(t, MinCompatible)
    BY <2>2, <2>3, CliAssumption DEF ExperimentalFor
  <2>4. ASSUME NEW t, t = LatestOf(NewerThan(ReadVersion(shown))), t # Missing
        PROVE  t \in Tag /\ Older(ReadVersion(shown), t) /\ ~Older(t, MinCompatible)
    <3>1. NewerThan(ReadVersion(shown)) # {} /\ t = Newest(NewerThan(ReadVersion(shown)))
      BY <2>4 DEF LatestOf
    <3>2. NewerThan(ReadVersion(shown)) \in SUBSET released
      BY DEF NewerThan, Stable
    <3>3. t \in NewerThan(ReadVersion(shown)) /\ \A w \in NewerThan(ReadVersion(shown)) : ~Older(t, w)
      BY <2>2, <3>1, <3>2, NewestIs
    <3>4. t \in Tag /\ Older(ReadVersion(shown), t)
      BY <2>2, <3>2, <3>3 DEF NewerThan
    <3>5. PICK v \in Stable(released) : ~Older(v, MinFlags)
      BY <2>2, CliAssumption DEF Stable
    <3>6. ~Older(t, v)
      <4>1. CASE Older(ReadVersion(shown), v)
        BY <3>3, <3>5, <4>1 DEF NewerThan
      <4>2. CASE ~Older(ReadVersion(shown), v)
        BY <2>2, <3>4, <3>5, <4>2, VersionForm, OlderOrder DEF Stable
      <4> QED
        BY <4>1, <4>2
    <3>7. v \in Version /\ t \in Version
      BY <2>2, <3>4, <3>5, VersionForm DEF Stable
    <3>8. ~Older(t, MinFlags)
      BY <3>5, <3>6, <3>7, VersionForm, OlderOrder
    <3> QED
      BY <3>4, <3>7, <3>8, VersionForm, Gates, OlderOrder
  <2>5. ExperimentalFor(ReadVersion(shown)) \in SUBSET released
    BY DEF ExperimentalFor
  <2>6. ASSUME NEW t \in {s, e} \ {Missing}
        PROVE  t \in Tag /\ Older(ReadVersion(shown), t) /\ ~Older(t, MinCompatible)
    BY <1>0, <2>1, <2>3, <2>4, <2>5, <2>6, OfferType
  <2>7. offer'.stable = s /\ offer'.experimental = e /\ offer'.current = ReadVersion(shown)
    BY <2>1
  <2> QED
    BY <2>2, <2>6, <2>7 DEF Offered, Modern
<1>4. CASE ~CheckForUpdate
  BY <1>1, <1>2, <1>4
  DEF Next, Step, StartNew, StartUpdate, UseExisting, StartReplicate, StartIgnore, Lookup, Download,
      Extract, InstallScript, Save, RunConfigure, WriteSwitches, WritePatterns, Launch, Quit, Kill,
      Pull, Reconfigure, Remove, Enter, vars
<1> QED
  BY <1>3, <1>4

\* A command's part of UsableAhead.
CallAhead ==
    /\ call.cmd = "update" =>
         /\ Modern(call.tag) /\ call.seen \in Tag /\ Older(call.seen, call.tag)
         /\ call.got \in {Missing, Junk, call.tag}
    /\ call.got \in Tag => Modern(call.got)
    /\ Doing("save") => Usable(call.bin)

LEMMA CallAheadNext ==
    ASSUME UsableInv, [Next]_vars
    PROVE  CallAhead'
<1>0. TypeInv /\ AllPaired /\ UsableAhead /\ CallAhead /\ CallOK /\ Shapes /\ call \in Call
  BY DEF UsableInv, TypeInv, UsableAhead, CallAhead, CallOK
<1>1. CASE call' = call
  <2>1. Doing("save") => call.bin \in Bin
    BY <1>0, StepOf DEF CallOK
  <2>2. ASSUME Doing("save") PROVE Usable(call.bin)'
    <3>1. PICK b \in Bin : b = call.bin /\ Usable(b)
      BY <1>0, <2>1, <2>2 DEF CallAhead
    <3>2. Usable(b)'
      BY <3>1, UsableStep
    <3>3. b = call'.bin
      BY <1>1, <3>1
    <3> QED
      BY <3>2, <3>3 DEF Usable, LooksInstalled, CheckCompatible, AtLeast, ReadVersion
  <2> QED
    BY <1>0, <1>1, <2>2 DEF CallAhead, Doing, Modern
<1>2. CASE call' = Idle
  BY <1>2, Ends, IdleType DEF CallAhead
<1>3. CASE StartNew
  <2>1. call'.cmd = "new" /\ call'.got = Missing /\ Head(call'.todo) = "lookup"
    BY <1>3, StartsNew DEF StartNew, Index
  <2> QED
    BY <2>1, IdleType DEF CallAhead, Doing
<1>4. CASE StartUpdate
  <2>1. shown \in Bin /\ setup[shown] \in SetupFile
    BY <1>0, <1>4 DEF StartUpdate, Shapes
  <2>2. PICK t \in {offer.stable, offer.experimental} \ {Missing} :
          call' = [Idle EXCEPT !.cmd = "update", !.bin = setup[shown].inst, !.from = shown,
                               !.sync = setup[shown].sync, !.index = setup[shown].index,
                               !.tag = t, !.seen = offer.current, !.todo = InstallSteps]
    BY <1>4 DEF StartUpdate
  <2>3. Modern(t) /\ offer.current \in Tag /\ Older(offer.current, t)
    BY <1>0 DEF UsableAhead, Offered
  <2>4. PICK b \in Bin, d \in Data, i \in Index, c \in Tag :
          b = setup[shown].inst /\ d = setup[shown].sync /\ i = setup[shown].index /\ c = offer.current
    BY <2>1, <2>3 DEF SetupFile
  <2>5. call' = UpdateCall(b, shown, d, i, t, c)
    BY <2>2, <2>4 DEF UpdateCall
  <2>6. /\ call'.got = Missing /\ Head(call'.todo) = "lookup" /\ call'.tag = t /\ call'.seen = c
    <3>1. t \in Tag /\ c \in Tag \cup {Missing} /\ shown \in Bin
      BY <2>1, <2>3 DEF Modern
    <3> QED
      BY <2>5, <3>1, StartsUpdate
  <2> QED
    BY <2>3, <2>4, <2>6, IdleType DEF CallAhead, Doing, Modern
<1>5. CASE StartReplicate
  <2>1. call'.cmd = "replicate" /\ call'.got = Missing /\ Head(call'.todo) = "configure"
    BY <1>5, StartsReplicate DEF StartReplicate, Backend
  <2> QED
    BY <2>1, IdleType DEF CallAhead, Doing
<1>6. CASE StartIgnore
  <2>1. shown \in Bin /\ setup[shown].sync \in Data
    BY <1>0, <1>6 DEF StartIgnore, Shapes, SetupFile
  <2>2. PICK p \in Source, x \in Input :
          call' = [Idle EXCEPT !.cmd = "ignore", !.sync = setup[shown].sync, !.bin = shown,
                               !.source = p, !.input = x, !.todo = <<"switches", "patterns">>]
    BY <1>6 DEF StartIgnore
  <2>3. call'.cmd = "ignore" /\ call'.got = Missing /\ Head(call'.todo) = "switches"
    BY <2>1, <2>2, StartsIgnore
  <2> QED
    BY <2>3, IdleType DEF CallAhead, Doing
<1>7. CASE Lookup
  <2>1. Installing /\ Head(call.todo) = "lookup" /\ Doing("lookup")
    BY <1>0, <1>7, StepOf DEF Lookup
  <2>2. CASE call' = [call EXCEPT !.todo = Tail(@),
                                  !.got = IF call.cmd = "new" THEN Newest(Stable(released)) ELSE call.tag]
    <3>1. PICK g : g = IF call.cmd = "new" THEN Newest(Stable(released)) ELSE call.tag
      OBVIOUS
    <3>2. g \in Tag
      BY <1>0, <2>1, <3>1, StableType DEF Installing, CallOK
    <3>3. Modern(g)
      <4>1. CASE call.cmd = "new"
        BY <1>0, <3>1, <3>2, <4>1, StableType, VersionForm, Gates, OlderOrder DEF Modern
      <4>2. CASE call.cmd = "update"
        BY <1>0, <3>1, <4>2 DEF CallAhead
      <4> QED
        BY <2>1, <4>1, <4>2 DEF Installing
    <3>4. call' = [call EXCEPT !.todo = Tail(@), !.got = g]
      BY <2>2, <3>1
    <3>5. /\ call'.cmd = call.cmd /\ call'.tag = call.tag /\ call'.seen = call.seen /\ call'.got = g
          /\ ~Doing("save")'
      BY <1>0, <2>1, <3>2, <3>4, IdleType, GoesOn
    <3>6. call.cmd = "update" => g = call.tag
      BY <3>1
    <3> QED
      BY <1>0, <3>3, <3>5, <3>6 DEF CallAhead, Modern
  <2> QED
    BY <1>2, <1>7, <2>2 DEF Lookup, GiveUpInstall, End
<1>8. CASE Download
  <2>1. PICK g : g \in {call.got, Junk} /\ call' = [call EXCEPT !.todo = Tail(@), !.got = g]
    BY <1>0, <1>8 DEF Download, GoOn, Call
  <2>2. Doing("download") /\ Installing /\ call.got # Missing
    BY <1>0, <1>8, StepOf DEF Download, CallOK
  <2>3. g \in Tag \cup {Missing, Junk} /\ g # Missing /\ Junk \notin Tag
    BY <1>0, <2>1, <2>2, MarkersAssumption DEF Call
  <2>4. "download" \in {"lookup", "download", "extract", "install", "switches"}
        /\ "download" \notin {"extract", "install"} /\ "download" # "install"
    OBVIOUS
  <2>5. /\ call'.cmd = call.cmd /\ call'.tag = call.tag /\ call'.seen = call.seen /\ call'.got = g
        /\ ~Doing("save")'
    BY <1>0, <2>1, <2>2, <2>3, <2>4, GoesOn
  <2> QED
    BY <1>0, <2>1, <2>3, <2>5 DEF CallAhead, Modern
<1>9. CASE Extract
  <2>1. CASE call.got # Junk /\ GoOn
    <3>1. Doing("extract") /\ call.got \in Tag
      BY <1>0, <1>9, <2>1, StepOf DEF Extract, CallOK, Call
    <3>2. call' = [call EXCEPT !.todo = Tail(@), !.got = call.got]
      BY <1>0, <2>1 DEF GoOn, Call
    <3>3. /\ call'.cmd = call.cmd /\ call'.tag = call.tag /\ call'.seen = call.seen
          /\ call'.got = call.got /\ ~Doing("save")'
      BY <1>0, <3>1, <3>2, IdleType, GoesOn
    <3> QED
      BY <1>0, <3>3 DEF CallAhead, Modern
  <2> QED
    BY <1>2, <1>9, <2>1 DEF Extract, GiveUpInstall, End
<1>10. CASE InstallScript
  <2>1. CASE /\ scripts' = [scripts EXCEPT ![call.bin] = call.got]
             /\ setup' = [setup EXCEPT ![call.bin] = SetupAfter(call.bin)]
             /\ GoOn
    <3>1. Doing("install") /\ call.bin \in Bin
      BY <1>0, <1>10, InstallsWith DEF InstallScript
    <3>2. PICK b \in Bin : b = call.bin
      BY <3>1
    <3>3. Usable(b)'
      BY <2>1, <3>1, <3>2, UsableInstalled
    <3>4. /\ call'.cmd = call.cmd /\ call'.tag = call.tag /\ call'.seen = call.seen
          /\ call'.got = call.got /\ call'.bin = b
      BY <1>0, <2>1, <3>1, <3>2, GoesOnPlain
    <3>5. Usable(call.bin)'
      BY <3>3, <3>4 DEF Usable, LooksInstalled, CheckCompatible, AtLeast, ReadVersion
    <3> QED
      BY <1>0, <3>4, <3>5 DEF CallAhead, Modern
  <2>2. CASE GoOn /\ touched' = touched \cup {call.bin}
    <3>1. Doing("install")
      BY <1>10 DEF InstallScript
    <3>2. /\ call'.cmd = call.cmd /\ call'.tag = call.tag /\ call'.seen = call.seen
          /\ call'.got = call.got /\ call'.bin = call.bin
      BY <1>0, <2>2, <3>1, GoesOnPlain
    <3>3. Usable(call.bin)'
      BY <2>2, <3>2 DEF Usable
    <3> QED
      BY <1>0, <3>2, <3>3 DEF CallAhead, Modern
  <2> QED
    BY <1>2, <1>10, <2>1, <2>2 DEF InstallScript, End
<1>11. CASE WriteSwitches
  <2>1. CASE GoOn
    <3>1. Doing("switches") /\ call.cmd = "ignore"
      BY <1>0, <1>11, StepOf DEF WriteSwitches
    <3>2. call'.cmd = call.cmd /\ call'.got = call.got /\ ~Doing("save")'
      BY <1>0, <2>1, <3>1, GoesOnPlain
    <3> QED
      BY <1>0, <3>1, <3>2 DEF CallAhead, Modern
  <2> QED
    BY <1>2, <1>11, <2>1 DEF WriteSwitches, End
<1>12. CASE ~(\/ StartNew \/ StartUpdate \/ StartReplicate \/ StartIgnore \/ Lookup \/ Download
              \/ Extract \/ InstallScript \/ WriteSwitches)
  BY <1>1, <1>2, <1>12
  DEF Next, Step, CheckForUpdate, UseExisting, Save, RunConfigure, WritePatterns, Launch, Quit, Kill,
      Pull, Reconfigure, Remove, End, vars
<1> QED
  BY <1>3, <1>4, <1>5, <1>6, <1>7, <1>8, <1>9, <1>10, <1>11, <1>12

LEMMA UsableNext == UsableInv /\ [Next]_vars => UsableInv'
<1> SUFFICES ASSUME UsableInv, [Next]_vars PROVE UsableInv'
  OBVIOUS
<1>1. TypeInv' /\ AllPaired'
  BY NextType, PairedNext DEF UsableInv
<1>2. (shown \in Bin => Usable(shown))'
  <2> SUFFICES ASSUME shown' \in Bin PROVE (Usable(shown))'
    OBVIOUS
  <2>1. PICK b \in Bin : shown' = b
    OBVIOUS
  <2>2. Usable(b)'
    BY <2>1, ShownNext
  <2> QED
    BY <2>1, <2>2 DEF Usable, LooksInstalled, CheckCompatible, AtLeast, ReadVersion
<1>3. Offered(offer')
  BY OfferedNext
<1>4. CallAhead'
  BY CallAheadNext
<1> QED
  BY <1>1, <1>2, <1>3, <1>4 DEF UsableInv, UsableAhead, CallAhead

LEMMA UsableInvariance == Spec => []UsableInv
<1>1. Init => UsableInv
  BY TypeInit, PairedInit, UsableInit DEF UsableInv
<1> QED
  BY <1>1, UsableNext, PTL DEF Spec

\* Every version that a dashboard is shown for has passed the gate of 2.11.0, whichever
\* way it came to be shown and whatever has happened to its directory since: the gate of
\* check_existing_install and use_existing, and offers that only go upwards, are enough.
THEOREM UsableShownTheorem == Spec => []UsableShown
<1>1. UsableInv => UsableShown
  <2> SUFFICES ASSUME UsableInv, shown \in Bin \ touched
               PROVE  LooksInstalled(shown) /\ ~Older(scripts[shown], MinCompatible)
    BY DEF UsableShown
  <2>1. Usable(shown)
    BY DEF UsableInv, UsableAhead
  <2>2. LooksInstalled(shown)
    BY <2>1 DEF Usable
  <2>3. Modern(scripts[shown])
    BY <2>1, UsableModern DEF UsableInv
  <2> QED
    BY <2>2, <2>3 DEF Modern
<1> QED
  BY UsableInvariance, <1>1, PTL
--------------------------------------------------------------------------------
(* Ignore settings. *)

\* Only a command that saves ignore settings writes patterns.
LEMMA OthersWriteNone ==
    ASSUME CallOK', call'.cmd # "ignore"
    PROVE  ~Doing("patterns")'
<1>1. CASE call'.cmd \in {"new", "update"}
  <2>1. call'.todo \in InstallAhead
    BY <1>1 DEF CallOK, Installing
  <2> QED
    BY <2>1, InstallOrder DEF Doing
<1>2. CASE call'.cmd = "replicate"
  BY <1>2, ConfigureFirst DEF CallOK, Doing
<1>3. CASE call'.cmd = "none"
  BY <1>3 DEF CallOK, Resting, Doing
<1> QED
  BY <1>1, <1>2, <1>3 DEF CallOK, Call, Command

\* What the other commands do to the one that is executed.
LEMMA OtherCommands ==
    ASSUME TypeInv, [Next]_vars, ~(WriteSwitches \/ WritePatterns \/ Kill)
    PROVE  /\ UNCHANGED <<cfg, patterns, asked>>
           /\ \/ call' = call
              \/ call.cmd # "ignore" /\ ~Doing("patterns")'
<1>0. CallOK /\ Shapes /\ call \in Call /\ CallOK'
  BY NextType DEF TypeInv, CallOK
<1>1. UNCHANGED <<cfg, patterns, asked>>
  BY DEF Next, Step, CheckForUpdate, StartNew, StartUpdate, UseExisting, StartReplicate, StartIgnore,
         Lookup, Download, Extract, InstallScript, Save, RunConfigure, Launch, Quit, Pull,
         Reconfigure, Remove, ignore, vars
<1>2. CASE StartNew \/ StartUpdate \/ StartReplicate
  <2>1. call.cmd # "ignore" /\ call'.cmd \in {"new", "update", "replicate"}
    BY <1>2, IdleType DEF StartNew, StartUpdate, StartReplicate, Resting, Idle
  <2> QED
    BY <1>0, <1>1, <2>1, OthersWriteNone
<1>3. CASE StartIgnore
  <2>1. shown \in Bin /\ setup[shown].sync \in Data /\ call.cmd # "ignore"
    BY <1>0, <1>3 DEF StartIgnore, Shapes, SetupFile, Resting
  <2>2. PICK p \in Source, x \in Input :
          call' = [Idle EXCEPT !.cmd = "ignore", !.sync = setup[shown].sync, !.bin = shown,
                               !.source = p, !.input = x, !.todo = <<"switches", "patterns">>]
    BY <1>3 DEF StartIgnore
  <2>3. Head(call'.todo) = "switches"
    BY <2>1, <2>2, StartsIgnore
  <2> QED
    BY <1>1, <2>1, <2>3 DEF Doing
<1>4. CASE Lookup \/ Download \/ Extract \/ InstallScript \/ Save \/ RunConfigure
  <2>1. call.cmd # "ignore"
    BY <1>0, <1>4, StepOf
    DEF Lookup, Download, Extract, InstallScript, Save, RunConfigure, Installing
  <2>2. call'.cmd \in {call.cmd, "none"}
    <3>1. CASE \E t, g : call' = [call EXCEPT !.todo = t, !.got = g]
      BY <1>0, <3>1 DEF Call
    <3>2. CASE \E t : call' = [call EXCEPT !.todo = t]
      BY <1>0, <3>2 DEF Call
    <3>3. CASE call' = Idle
      BY <3>3, IdleType
    <3> QED
      BY <1>4, <3>1, <3>2, <3>3
      DEF Lookup, Download, Extract, InstallScript, Save, RunConfigure, GiveUpInstall, GoOn, End
  <2> QED
    BY <1>0, <1>1, <2>1, <2>2, OthersWriteNone
<1>5. CASE ~(\/ StartNew \/ StartUpdate \/ StartReplicate \/ StartIgnore
             \/ Lookup \/ Download \/ Extract \/ InstallScript \/ Save \/ RunConfigure)
  <2>1. call' = call
    BY <1>5
    DEF Next, Step, CheckForUpdate, UseExisting, Launch, Quit, Pull, Reconfigure, Remove, vars
  <2> QED
    BY <1>1, <2>1
<1> QED
  BY <1>2, <1>3, <1>4, <1>5

LEMMA IgnoreInit == Init => IgnoreKept
<1> SUFFICES ASSUME Init PROVE IgnoreKept
  OBVIOUS
<1>1. \A p \in Source : asked[p] = Unknown
  BY DEF Init
<1>2. ~Doing("patterns")
  BY IdleType DEF Init, Doing
<1> QED
  BY <1>1, <1>2 DEF IgnoreKept

LEMMA IgnoreNext == IgnoreInv /\ [Next]_vars => IgnoreInv'
<1> SUFFICES ASSUME IgnoreInv, [Next]_vars PROVE IgnoreInv'
  OBVIOUS
<1>0. TypeInv /\ IgnoreKept /\ CallOK /\ Shapes /\ TypeInv'
  BY NextType DEF IgnoreInv, TypeInv
\* Switches that are written, wholly or in part, are of no other source whose are known.
<1>1. ASSUME NEW x \in {Missing} \cup Switches, call.cmd = "ignore",
             cfg' = [cfg EXCEPT ![call.sync][ProjectName[call.source]] = x],
             Forget(SameFile), UNCHANGED patterns,
             NEW q \in Source, asked'[q] # Unknown
      PROVE  Kept(q)'
  <2>1. /\ asked'[q] = asked[q]
        /\ cfg'[asked[q].sync][ProjectName[q]] = cfg[asked[q].sync][ProjectName[q]]
    BY <1>0, <1>1, SwitchesWritten
  <2>2. Kept(q)
    BY <1>0, <1>1, <2>1 DEF IgnoreKept
  <2> QED
    BY <1>1, <2>1, <2>2 DEF Kept
<1>2. ASSUME call.cmd = "ignore", TornPatterns, NEW q \in Source, asked'[q] # Unknown
      PROVE  Kept(q)'
  <2>1. UNCHANGED cfg /\ asked'[q] = asked[q] /\ patterns'[q] = patterns[q]
    BY <1>0, <1>2, PatternsTorn
  <2>2. Kept(q)
    BY <1>0, <1>2, <2>1 DEF IgnoreKept
  <2> QED
    BY <2>1, <2>2 DEF Kept
<1>3. CASE WriteSwitches
  <2>1. call.cmd = "ignore" /\ call.input \in Input /\ Doing("switches")
    BY <1>0, <1>3, StepOf DEF WriteSwitches, CallOK
  <2>2. CASE /\ cfg' = [cfg EXCEPT ![call.sync][ProjectName[call.source]] = SwitchesOf(call.input)]
             /\ Forget(SameFile) /\ GoOn /\ UNCHANGED patterns
    <3>1. SwitchesOf(call.input) \in {Missing} \cup Switches
      BY <2>1, CliAssumption DEF SwitchesOf, Switches
    <3>2. cfg'[call.sync][ProjectName[call.source]] = SwitchesOf(call.input)
      BY <1>0, <2>1, <2>2, <3>1, SwitchesWritten
    <3>3. call'.source = call.source /\ call'.sync = call.sync /\ call'.input = call.input
      BY <1>0, <2>1, <2>2, GoesOnPlain
    <3>4. \A q \in Source : asked'[q] # Unknown => Kept(q)'
      BY <1>1, <2>1, <2>2, <3>1
    <3> QED
      BY <1>0, <3>2, <3>3, <3>4 DEF IgnoreInv, IgnoreKept
  <2>3. CASE TornSwitches /\ End
    <3>1. ~Doing("patterns")'
      BY <2>3, Ends DEF End
    <3>2. \A q \in Source : asked'[q] # Unknown => Kept(q)'
      BY <1>0, <1>1, <2>1, <2>3, SwitchesTorn
    <3> QED
      BY <1>0, <3>1, <3>2 DEF IgnoreInv, IgnoreKept
  <2> QED
    BY <1>3, <2>2, <2>3 DEF WriteSwitches
<1>4. CASE WritePatterns
  <2>1. /\ call.sync \in Data /\ call.source \in Source /\ call.input \in Input
        /\ call.cmd = "ignore" /\ Doing("patterns")
    BY <1>0, <1>4, StepOf DEF WritePatterns, CallOK
  <2>2. PICK p \in Source, d \in Data, x \in Input : p = call.source /\ d = call.sync /\ x = call.input
    BY <2>1
  <2>3. ~Doing("patterns")'
    BY <1>4, Ends DEF WritePatterns, End
  <2>4. ASSUME NEW q \in Source, asked'[q] # Unknown
        PROVE  Kept(q)'
    <3>1. CASE TornPatterns
      BY <1>2, <2>1, <2>4, <3>1
    <3>2. CASE /\ patterns' = [patterns EXCEPT ![p] = x.text]
               /\ asked' = [asked EXCEPT ![p] = [sync |-> d, input |-> x]]
               /\ UNCHANGED cfg
      <4>1. CASE q = p
        <5>1. patterns'[p] = x.text /\ asked'[p] = [sync |-> d, input |-> x]
          BY <1>0, <3>2 DEF Shapes
        <5>2. cfg[d][ProjectName[p]] = SwitchesOf(x)
          BY <1>0, <2>1, <2>2 DEF IgnoreKept
        <5> QED
          BY <3>2, <4>1, <5>1, <5>2 DEF Kept
      <4>2. CASE q # p
        <5>1. asked'[q] = asked[q] /\ patterns'[q] = patterns[q]
          BY <1>0, <3>2, <4>2 DEF Shapes
        <5>2. Kept(q)
          BY <1>0, <2>4, <5>1 DEF IgnoreKept
        <5> QED
          BY <3>2, <5>1, <5>2 DEF Kept
      <4> QED
        BY <4>1, <4>2
    <3> QED
      BY <1>4, <2>2, <3>1, <3>2 DEF WritePatterns
  <2> QED
    BY <1>0, <2>3, <2>4 DEF IgnoreInv, IgnoreKept
<1>5. CASE Kill
  <2>1. ~Doing("patterns")'
    BY <1>5, Ends DEF Kill, End
  <2>2. ASSUME NEW q \in Source, asked'[q] # Unknown
        PROVE  Kept(q)'
    <3>1. CASE Doing("switches") /\ TornSwitches
      <4>1. call.cmd = "ignore"
        BY <1>0, <3>1, StepOf
      <4> QED
        BY <1>0, <1>1, <2>2, <3>1, <4>1, SwitchesTorn
    <3>2. CASE Doing("patterns") /\ TornPatterns
      <4>1. call.cmd = "ignore"
        BY <1>0, <3>2, StepOf
      <4> QED
        BY <1>2, <2>2, <3>2, <4>1
    <3>3. CASE UNCHANGED ignore
      BY <1>0, <2>2, <3>3 DEF IgnoreKept, Kept, ignore
    <3> QED
      BY <1>5, <3>1, <3>2, <3>3 DEF Kill
  <2> QED
    BY <1>0, <2>1, <2>2 DEF IgnoreInv, IgnoreKept
<1>6. CASE ~(WriteSwitches \/ WritePatterns \/ Kill)
  <2>1. /\ UNCHANGED <<cfg, patterns, asked>>
        /\ \/ call' = call
           \/ call.cmd # "ignore" /\ ~Doing("patterns")'
    BY <1>0, <1>6, OtherCommands
  <2> QED
    BY <1>0, <2>1 DEF IgnoreInv, IgnoreKept, Kept, Doing
<1> QED
  BY <1>3, <1>4, <1>5, <1>6

LEMMA IgnoreInvariance == Spec => []IgnoreInv
<1>1. Init => IgnoreInv
  BY TypeInit, IgnoreInit DEF IgnoreInv
<1> QED
  BY <1>1, IgnoreNext, PTL DEF Spec

\* Ignore settings that were saved are the ones the dashboard reads again, although
\* half of them lies beside the history and is shared by sources of the same name: until
\* that file, or the patterns of the source, are written again, wholly or in part.
THEOREM IgnoreAsSavedTheorem == Spec => []IgnoreAsSaved
<1>1. IgnoreInv => IgnoreAsSaved
  <2> SUFFICES ASSUME IgnoreInv, NEW p \in Source, asked[p] # Unknown,
                      setup[shown].sync = asked[p].sync
               PROVE  ReadIgnore(shown, p) = asked[p].input
    BY DEF IgnoreAsSaved
  <2>1. asked[p] \in Saved /\ Kept(p)
    BY DEF IgnoreInv, IgnoreKept, TypeInv, Shapes
  <2>2. PICK x \in Input : x = asked[p].input
    BY <2>1 DEF Saved
  <2>3. x \in [git : BOOLEAN, bmu : BOOLEAN, text : STRING]
    BY CliAssumption
  <2>4. SwitchesOf(x) # Missing
    BY <2>3, SetupFileForm DEF SwitchesOf, Switches
  <2>5. /\ cfg[setup[shown].sync][ProjectName[p]] = SwitchesOf(x) /\ patterns[p] = x.text
    BY <2>1, <2>2 DEF Kept
  <2>6. ReadIgnore(shown, p) = [git |-> x.git, bmu |-> x.bmu, text |-> x.text]
    <3>1. SwitchesOf(x).git = x.git /\ SwitchesOf(x).bmu = x.bmu
      BY DEF SwitchesOf
    <3>2. (SwitchesOf(x) = Missing \/ SwitchesOf(x).git) = x.git
      BY <2>3, <2>4, <3>1
    <3>3. (SwitchesOf(x) # Missing /\ SwitchesOf(x).bmu) = x.bmu
      BY <2>3, <2>4, <3>1
    <3> QED
      BY <2>5, <3>2, <3>3 DEF ReadIgnore
  <2> QED
    BY <2>2, <2>3, <2>6
<1> QED
  BY IgnoreInvariance, <1>1, PTL

--------------------------------------------------------------------------------
(* Updates and the backend. *)

\* A settings file whose directories and version are replaced.
RefreshedFile(f, v, d, i, b) ==
    [[f EXCEPT !.index = i, !.sync = d, !.inst = b] EXCEPT !.ver = v]

LEMMA Refreshed ==
    ASSUME NEW f \in SetupFile, NEW v \in Tag \cup {Unmarked}, NEW d \in Data, NEW i \in Index,
           NEW b \in Bin
    PROVE  RefreshedFile(f, v, d, i, b)
             = [ver |-> v, sync |-> d, index |-> i, inst |-> b, backend |-> f.backend]
<1> DEFINE g == [f EXCEPT !.index = i, !.sync = d, !.inst = b]
           h == [g EXCEPT !.ver = v]
           r == [ver |-> v, sync |-> d, index |-> i, inst |-> b, backend |-> f.backend]
<1>1. /\ g \in SetupFile
      /\ g.sync = d /\ g.index = i /\ g.inst = b /\ g.backend = f.backend
  BY DEF SetupFile
<1> HIDE DEF g
<1>2. /\ h \in SetupFile /\ h.ver = v
      /\ h.sync = d /\ h.index = i /\ h.inst = b /\ h.backend = f.backend
  BY <1>1 DEF SetupFile
<1>3. /\ r \in SetupFile /\ r.ver = v
      /\ r.sync = d /\ r.index = i /\ r.inst = b /\ r.backend = f.backend
  BY DEF SetupFile
<1> HIDE DEF h, r
<1>4. h = r
  BY <1>2, <1>3 DEF SetupFile
<1> QED
  BY <1>4 DEF g, h, r, RefreshedFile

\* What install.sh writes over an installation: of its settings the version and the
\* directories.
LEMMA SettingsStep ==
    ASSUME TypeInv, [Next]_vars, Doing("install"), call' # call, setup[call.bin] # Missing,
           setup'[call.bin] # setup[call.bin]
    PROVE  setup'[call.bin] =
             RefreshedFile(setup[call.bin], Mark(call.got), call.sync, call.index, call.bin)
<1>0. CallOK /\ Shapes /\ Head(call.todo) = "install"
  BY StepOf DEF TypeInv
<1>1. CASE InstallScript
  <2>1. PICK b \in Bin : b = call.bin /\ setup' = [setup EXCEPT ![b] = SetupAfter(b)]
    <3>1. setup' # setup /\ call.bin \in Bin
      BY InstallsWith
    <3> QED
      BY <1>1, <3>1 DEF InstallScript
  <2>2. setup[b] \in SetupFile /\ setup'[b] = SetupAfter(b)
    BY <1>0, <2>1 DEF Shapes
  <2>3. SetupAfter(b) = [ver |-> Mark(call.got), sync |-> call.sync, index |-> call.index,
                         inst |-> b, backend |-> setup[b].backend]
    BY <2>1 DEF SetupAfter, ReplicationStatus
  <2>4. PICK f \in SetupFile, v \in Tag \cup {Unmarked}, d \in Data, i \in Index :
          f = setup[b] /\ v = Mark(call.got) /\ d = call.sync /\ i = call.index
    <3>1. call.sync \in Data /\ call.index \in Index /\ call.got \in Tag
      BY <1>0, StepOf DEF CallOK
    <3> QED
      BY <2>2, <3>1, Marking
  <2>5. RefreshedFile(f, v, d, i, b)
          = [ver |-> v, sync |-> d, index |-> i, inst |-> b, backend |-> f.backend]
    BY Refreshed
  <2> QED
    BY <2>1, <2>2, <2>3, <2>4, <2>5
<1>2. CASE ~InstallScript
  <2>1. ~RunConfigure
    BY <1>0 DEF RunConfigure, Doing
  <2> QED
    BY <1>2, <2>1
    DEF Next, Step, CheckForUpdate, StartNew, StartUpdate, UseExisting, StartReplicate, StartIgnore,
        Lookup, Download, Extract, Save, WriteSwitches, WritePatterns, Launch, Quit, Kill, Pull,
        Reconfigure, Remove, vars
<1> QED
  BY <1>1, <1>2

\* An update of an installation in its place keeps whatever else is configured for it.
THEOREM SettingsKeptTheorem == Spec => SettingsKept
<1>1. TypeInv /\ [Next]_vars =>
        [Doing("install") /\ call' # call /\ InPlace /\ setup[call.bin] # Missing =>
           LET now == [setup[call.bin] EXCEPT !.index = call.index, !.sync = call.sync, !.inst = call.bin] IN
           setup'[call.bin] \in {setup[call.bin], [now EXCEPT !.ver = Mark(call.got)]}]_vars
  BY SettingsStep DEF RefreshedFile
<1> QED
  BY TypeInvariance, <1>1, PTL DEF Spec, SettingsKept

\* Newer scripts know every backend that older ones know.
LEMMA KnowsNewer ==
    ASSUME NEW v \in Tag, NEW w \in Tag, ~Older(w, v), NEW k \in Backend, Knows(v, k)
    PROVE  Knows(w, k)
<1>1. v \in Version /\ w \in Version
  BY VersionForm
<1>2. ~Older(v, MinLocal) => ~Older(w, MinLocal)
  BY <1>1, VersionForm, OlderOrder
<1>3. ~Older(v, MinFlags) => ~Older(w, MinFlags)
  BY <1>1, VersionForm, OlderOrder
<1> QED
  BY <1>2, <1>3 DEF Knows

\* backmeup.configure.sh takes only a backend that it knows.
LEMMA UnderstoodConfigured ==
    ASSUME TypeInv, NEW b \in Bin, NEW c \in Bin, Understood(b), LooksInstalled(c),
           NEW k \in Backend, Knows(scripts[c], k),
           \/ setup' = [setup EXCEPT ![c].ver = Mark(scripts[c]), ![c].index = "default", ![c].backend = k]
           \/ setup' = [setup EXCEPT ![c].ver = Mark(scripts[c]), ![c].backend = k, ![c].index = "default"],
           UNCHANGED scripts
    PROVE  Understood(b)'
<1>1. /\ setup'[c] \in SetupFile /\ setup'[c].ver = Mark(scripts[c]) /\ setup'[c].backend = k
      /\ \A d \in Bin \ {c} : setup'[d] = setup[d]
  BY Configured DEF TypeInv, LooksInstalled
<1>2. CASE b # c
  BY <1>1, <1>2 DEF Understood, ReadVersion, ReplicationStatus
<1>3. CASE b = c
  <2>1. scripts[b] \in Tag
    BY <1>3 DEF LooksInstalled, TypeInv, Shapes
  <2>2. Mark(scripts[b]) \in {scripts[b], Unmarked}
    BY <2>1, Marking
  <2> QED
    BY <1>1, <1>3, <2>2 DEF Understood, ReadVersion, ReplicationStatus
<1> QED
  BY <1>2, <1>3

\* An update that was offered for what is installed is newer than it, however much of it
\* is copied.
LEMMA UnderstoodUpdated ==
    ASSUME UsableInv, Doing("install"), NEW b \in Bin, call.bin = b, InPlace,
           ReadVersion(b) = call.seen, Understood(b),
           scripts' \in {scripts, [scripts EXCEPT ![b] = call.got]},
           setup' \in {setup, [setup EXCEPT ![b] = SetupAfter(b)]}
    PROVE  Understood(b)'
<1>0. TypeInv /\ UsableAhead /\ Shapes
  BY DEF UsableInv, TypeInv
<1>1. /\ call.got \in Tag /\ SetupAfter(b) \in SetupFile /\ SetupAfter(b).ver = Mark(call.got)
      /\ SetupAfter(b).backend = ReplicationStatus(b)
  BY <1>0, InstallsWith
<1>2. /\ call.seen \in Tag /\ Older(call.seen, call.got) /\ Modern(call.got)
  BY <1>0, <1>1, MarkersAssumption DEF UsableAhead, InPlace
<1>3. call.seen # Unmarked /\ call.seen # Missing
  BY <1>2, SetupFileForm, IdleType
<1>4. setup[b] # Missing
  BY <1>3 DEF ReadVersion
<1>5. Knows(call.seen, ReplicationStatus(b))
  BY <1>3, <1>4 DEF Understood
<1>6. ReplicationStatus(b) \in Backend /\ ~Older(call.got, call.seen)
  BY <1>0, <1>1, <1>2, StatusType, VersionForm, OlderOrder
<1>7. Knows(call.got, ReplicationStatus(b))
  BY <1>1, <1>2, <1>5, <1>6, KnowsNewer
<1>8. /\ scripts'[b] \in {scripts[b], call.got} /\ setup'[b] \in {setup[b], SetupAfter(b)}
      /\ SetupAfter(b) # Missing /\ Mark(call.got) = call.got
  <2>1. PICK g, f : g = call.got /\ f = SetupAfter(b)
    OBVIOUS
  <2>2. scripts'[b] \in {scripts[b], g} /\ setup'[b] \in {setup[b], f}
    BY <1>0, <2>1 DEF Shapes
  <2> QED
    BY <1>1, <1>2, <2>1, <2>2, ModernMarked, SetupFileForm
<1>9. /\ setup'[b] # Missing /\ ReplicationStatus(b)' = ReplicationStatus(b)
      /\ ReadVersion(b)' \in {call.seen, call.got}
  BY <1>1, <1>4, <1>8 DEF ReadVersion, ReplicationStatus
<1>10. scripts[b] \notin {Unmarked, Missing} => Knows(scripts[b], ReplicationStatus(b))
  BY <1>4 DEF Understood
<1> QED
  BY <1>5, <1>7, <1>8, <1>9, <1>10 DEF Understood

LEMMA UnderstoodStep ==
    ASSUME UsableInv, [Next]_vars, NEW b \in Bin, Understood(b),
           ~(Doing("install") /\ call.bin = b /\ (~InPlace \/ ReadVersion(b) # call.seen))
    PROVE  Understood(b)'
<1>0. TypeInv /\ AllPaired /\ CallOK /\ Shapes
  BY DEF UsableInv, TypeInv
<1>1. CASE scripts'[b] = scripts[b] /\ setup'[b] = setup[b]
  BY <1>1 DEF Understood, ReadVersion, ReplicationStatus
<1>2. CASE InstallScript
  <2>1. /\ scripts' \in {scripts, [scripts EXCEPT ![call.bin] = call.got]}
        /\ setup' \in {setup, [setup EXCEPT ![call.bin] = SetupAfter(call.bin)]}
    BY <1>2 DEF InstallScript
  <2>2. CASE b = call.bin
    BY <1>2, <2>1, <2>2, UnderstoodUpdated DEF InstallScript
  <2>3. CASE b # call.bin
    BY <1>0, <1>1, <2>1, <2>3 DEF Shapes
  <2> QED
    BY <2>2, <2>3
<1>3. CASE RunConfigure
  <2>1. call.bin \in Bin /\ call.backend \in Backend /\ UNCHANGED scripts
    BY <1>0, <1>3, StepOf DEF RunConfigure, CallOK
  <2> QED
    BY <1>0, <1>1, <1>3, <2>1, UnderstoodConfigured DEF RunConfigure
<1>4. CASE Reconfigure
  <2>1. PICK c \in Bin, k \in Backend :
          /\ LooksInstalled(c) /\ Knows(scripts[c], k)
          /\ setup' = [setup EXCEPT ![c].ver = Mark(scripts[c]), ![c].backend = k, ![c].index = "default"]
    BY <1>0, <1>4, ReconfiguresWith
  <2>2. UNCHANGED scripts
    BY <1>4 DEF Reconfigure
  <2> QED
    BY <1>0, <2>1, <2>2, UnderstoodConfigured
<1>5. CASE Pull
  <2>1. PICK c \in Bin, v \in released :
          /\ scripts[c] # Missing /\ Older(scripts[c], v)
          /\ scripts' = [scripts EXCEPT ![c] = v]
    BY <1>5 DEF Pull
  <2>2. UNCHANGED setup
    BY <1>5 DEF Pull
  <2>3. CASE b # c
    BY <1>0, <1>1, <2>1, <2>2, <2>3 DEF Shapes
  <2>4. CASE b = c
    <3>1. scripts[b] \in Tag /\ v \in Tag /\ scripts'[b] = v
      BY <1>0, <2>1, <2>4 DEF Shapes, Tag
    <3>2. ReplicationStatus(b) \in Backend /\ ~Older(v, scripts[b])
      BY <1>0, <2>1, <2>4, <3>1, StatusType, VersionForm, OlderOrder
    <3>3. setup[b] # Missing => Knows(scripts[b], ReplicationStatus(b))
      BY <2>1, <2>4, <3>1, SetupFileForm DEF Understood
    <3>4. setup[b] # Missing => Knows(v, ReplicationStatus(b))
      BY <3>1, <3>2, <3>3, KnowsNewer
    <3>5. ReadVersion(b)' = ReadVersion(b) /\ ReplicationStatus(b)' = ReplicationStatus(b)
      BY <2>2 DEF ReadVersion, ReplicationStatus
    <3> QED
      BY <2>2, <3>1, <3>4, <3>5 DEF Understood
  <2> QED
    BY <2>3, <2>4
<1>6. CASE Remove
  <2>1. PICK c \in Bin :
          /\ scripts' = [scripts EXCEPT ![c] = Missing]
          /\ setup' = [setup EXCEPT ![c] = Missing]
    BY <1>6 DEF Remove
  <2>2. CASE b = c
    BY <1>0, <2>1, <2>2 DEF Understood, Shapes
  <2>3. CASE b # c
    BY <1>0, <1>1, <2>1, <2>3 DEF Shapes
  <2> QED
    BY <2>2, <2>3
<1>7. CASE ~(InstallScript \/ RunConfigure \/ Reconfigure \/ Pull \/ Remove)
  BY <1>1, <1>7
  DEF Next, Step, CheckForUpdate, StartNew, StartUpdate, UseExisting, StartReplicate, StartIgnore,
      Lookup, Download, Extract, Save, WriteSwitches, WritePatterns, Launch, Quit, Kill, vars
<1> QED
  BY <1>2, <1>3, <1>4, <1>5, <1>6, <1>7

\* No step takes from the scripts the backend that is configured for them: not a pull,
\* not a configuration, and not an update in place of what it was offered for.  The mark
\* in backmeup.setup.sh, by which updates are offered, may be behind the scripts.
THEOREM BackendUnderstoodTheorem == Spec => BackendUnderstood
<1>1. UsableInv /\ [Next]_vars =>
        [\A b \in Bin :
           \/ Understood(b) => Understood(b)'
           \/ Doing("install") /\ call.bin = b /\ (~InPlace \/ ReadVersion(b) # call.seen)]_vars
  BY UnderstoodStep
<1> QED
  BY UsableInvariance, <1>1, PTL DEF Spec, BackendUnderstood

================================================================================
