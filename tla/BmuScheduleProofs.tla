---------------------------- MODULE BmuScheduleProofs ---------------------------
(***************************************************************************)
(* Proofs about BmuSchedule, for any sources, directories and schedules,   *)
(* any choice of steps that may fail and any bound: the types, that a      *)
(* schedule the user was told of is the one that is kept, that wrappers    *)
(* are current, and that sources are not forgotten.                        *)
(***************************************************************************)
EXTENDS BmuSchedule, SequenceTheorems, TLAPS

--------------------------------------------------------------------------------
(* Types. *)

Scripts == {"none", "backmeup.replicate.sh", "backmeup.replicate.proton.sh"}
WrapperFile == {Missing, Half} \cup [bin : Bin, then : Scripts]

\* Definition files of one of the two systems.
FileOf(sys, s) == IF sys = "launchd" THEN BuildPlist(s) ELSE BuildTimer(s)
FileOn(sys) == {Missing, Empty} \cup {FileOf(sys, s) : s \in Schedule \ {Off}}
TimerFile == FileOn(platform)

Sources == [Path -> Schedule \cup {Untracked}]
Config == [bin : Bin, src : Sources, hk : Schedule]
Job == [file : TimerFile, stem : Stem]

\* What of a command may lie ahead, its present step first.
SetAhead ==
    IF platform = "launchd"
    THEN { <<"drop_old", "wrapper", "timer", "unload", "load", "mirror">>,
           <<"wrapper", "timer", "unload", "load", "mirror">>,
           <<"timer", "unload", "load", "mirror">>, <<"unload", "load", "mirror">>,
           <<"load", "mirror">>, <<"mirror">> }
    ELSE { <<"drop_old", "wrapper", "timer", "reload", "load", "mirror">>,
           <<"wrapper", "timer", "reload", "load", "mirror">>,
           <<"timer", "reload", "load", "mirror">>, <<"reload", "load", "mirror">>,
           <<"load", "mirror">>, <<"mirror">> }

ClearAhead ==
    IF platform = "launchd"
    THEN { <<"unload", "drop_all", "mirror">>, <<"drop_all", "mirror">>, <<"mirror">> }
    ELSE { <<"unload", "drop_all", "reload", "mirror">>, <<"drop_all", "reload", "mirror">>,
           <<"reload", "mirror">>, <<"mirror">> }

RemoveAhead ==
    IF platform = "launchd"
    THEN { <<"heal", "unload", "drop_all", "untrack">>, <<"unload", "drop_all", "untrack">>,
           <<"drop_all", "untrack">>, <<"untrack">> }
    ELSE { <<"heal", "unload", "drop_all", "reload", "untrack">>,
           <<"unload", "drop_all", "reload", "untrack">>,
           <<"drop_all", "reload", "untrack">>, <<"reload", "untrack">>, <<"untrack">> }

Ahead(cmd) ==
    CASE cmd = "set" -> SetAhead
      [] cmd = "clear" -> ClearAhead
      [] cmd = "list" -> {<<"heal">>}
      [] cmd = "add" -> {<<"heal", "track">>, <<"track">>}
      [] cmd = "remove" -> RemoveAhead
      [] cmd = "use" -> {<<"save">>}

StepName ==
    {"drop_old", "wrapper", "timer", "unload", "reload", "load", "drop_all",
     "mirror", "heal", "track", "untrack", "save"}
Command == {"set", "clear", "list", "add", "remove", "use"}

Call == [cmd : Command \cup {"none"}, label : Label, sched : Schedule, bin : Bin \cup {Setup},
         script : WrapperFile, todo : Seq(StepName), mem : Sources]

\* A command that runs has its steps ahead of it, and of a source it is given only what
\* it was started for.
CallOK ==
    /\ call \in Call
    /\ Resting => call.todo = <<>>
    /\ ~Resting => /\ call.todo \in Ahead(call.cmd)
                   /\ call.bin \in Bin /\ app # Closed
                   /\ call.cmd # "use" => app = call.bin
    /\ call.cmd = "set" => call.sched # Off /\ call.script # Missing
    /\ call.cmd \in {"clear", "remove"} => call.sched = Off
    /\ call.cmd \in {"add", "remove"} => call.label \in Path

Shapes ==
    /\ platform \in {"launchd", "systemd"}
    /\ config \in {NoConfig} \cup Config
    /\ timer \in [Label -> [Stem -> TimerFile]]
    /\ wrapper \in [Label -> [Stem -> WrapperFile]]
    /\ job \in [Label -> {Off} \cup Job]
    /\ setup \in [Bin -> Backend]
    /\ app \in Bin \cup {Closed, Setup}
    /\ told \in [Label -> Schedule \cup {Unknown}]
    /\ stale \subseteq Label
    /\ left \in 0..MaxCalls

TypeInv == Shapes /\ CallOK

--------------------------------------------------------------------------------
(* What the properties rest on. *)

Changing(l) == call.cmd \in {"set", "clear", "remove"} /\ call.label = l
Ready == call.todo # <<>>

\* Files and job of a label that has the schedule s, and of one that has none: there a
\* job may still be loaded, with nothing to start.
Set(l, s) ==
    /\ timer[l][StemOf(l)] = Build(s)
    /\ wrapper[l][StemOf(l)] # Missing
    /\ job[l] = [file |-> Build(s), stem |-> StemOf(l)]
Cleared(l) == \A st \in Stem : timer[l][st] = Missing /\ wrapper[l][st] = Missing

\* A schedule the user was told of is set, or cleared.
Fulfilled(l) == IF told[l] = Off THEN Cleared(l) ELSE Set(l, told[l])
ToldTrue == \A l \in Label : told[l] # Unknown /\ ~Changing(l) => Fulfilled(l)

\* What a command that sets or clears has done, by the step it is at.
HalfDone ==
    LET l == call.label
        step == Head(call.todo) IN
    /\ call.cmd = "set" =>
         /\ step \in {"timer", "unload", "reload", "load", "mirror"} => wrapper[l][StemOf(l)] # Missing
         /\ step \in {"unload", "reload", "load", "mirror"} => timer[l][StemOf(l)] = Build(call.sched)
         /\ step = "mirror" => Set(l, call.sched)
    /\ call.cmd \in {"clear", "remove"} /\ step \in {"reload", "mirror", "untrack"} => Cleared(l)

\* The script of a label is that of the present configuration, if both are there.
Current(l) ==
    config # NoConfig /\ wrapper[l][StemOf(l)] # Missing =>
        wrapper[l][StemOf(l)] = Wrapper(l, config.bin)
AllCurrent == \A l \in Label \ stale : Current(l)

\* A script that is about to be written is made for the present directory and backend,
\* or known not to be.
ScriptCurrent ==
    /\ config # NoConfig /\ app \in Bin => config.bin = app
    /\ call.cmd = "set" /\ Head(call.todo) \in {"drop_old", "wrapper"} =>
         (call.script = Wrapper(call.label, call.bin) \/ call.label \in stale)

\* The sources as add and remove have read them are those that are saved.
ReadSources ==
    call.cmd \in {"add", "remove"} /\ Ready /\ Head(call.todo) # "heal" =>
        Tracked \subseteq {p \in Path : call.mem[p] # Untracked}

ScheduleInv == TypeInv /\ ToldTrue /\ HalfDone
CurrentInv == TypeInv /\ ScriptCurrent /\ AllCurrent
SourcesInv == TypeInv /\ ReadSources
--------------------------------------------------------------------------------
(* The order of the steps. *)

\* What is done after each step that changes a schedule.
LEMMA SetOrder ==
    ASSUME NEW todo \in SetAhead
    PROVE  /\ todo # <<>> /\ todo \in Seq(StepName)
           /\ Head(todo) \in {"drop_old", "wrapper", "timer", "unload", "reload", "load", "mirror"}
           /\ Head(todo) # "mirror" => Tail(todo) \in SetAhead
           /\ Head(todo) = "drop_old" => Head(Tail(todo)) = "wrapper"
           /\ Head(todo) = "wrapper" => Head(Tail(todo)) = "timer"
           /\ Head(todo) = "timer" => Head(Tail(todo)) \in {"unload", "reload"}
           /\ Head(todo) \in {"unload", "reload"} => Head(Tail(todo)) = "load"
           /\ Head(todo) = "load" => Head(Tail(todo)) = "mirror"
<1>1. CASE todo = <<"drop_old", "wrapper", "timer", "unload", "load", "mirror">>
  <2>0. todo # <<>> /\ todo \in Seq(StepName)
    BY <1>1 DEF StepName
  <2>1. /\ Head(todo) = "drop_old"
        /\ Tail(todo) = <<"wrapper", "timer", "unload", "load", "mirror">>
        /\ Head(<<"wrapper", "timer", "unload", "load", "mirror">>) = "wrapper"
    BY <1>1
  <2> QED
    BY <1>1, <2>0, <2>1 DEF SetAhead
<1>2. CASE todo = <<"wrapper", "timer", "unload", "load", "mirror">>
  <2>0. todo # <<>> /\ todo \in Seq(StepName)
    BY <1>2 DEF StepName
  <2>1. /\ Head(todo) = "wrapper"
        /\ Tail(todo) = <<"timer", "unload", "load", "mirror">>
        /\ Head(<<"timer", "unload", "load", "mirror">>) = "timer"
    BY <1>2
  <2> QED
    BY <1>2, <2>0, <2>1 DEF SetAhead
<1>3. CASE todo = <<"timer", "unload", "load", "mirror">>
  <2>0. todo # <<>> /\ todo \in Seq(StepName)
    BY <1>3 DEF StepName
  <2>1. /\ Head(todo) = "timer"
        /\ Tail(todo) = <<"unload", "load", "mirror">>
        /\ Head(<<"unload", "load", "mirror">>) = "unload"
    BY <1>3
  <2> QED
    BY <1>3, <2>0, <2>1 DEF SetAhead
<1>4. CASE todo = <<"unload", "load", "mirror">>
  <2>0. todo # <<>> /\ todo \in Seq(StepName)
    BY <1>4 DEF StepName
  <2>1. /\ Head(todo) = "unload"
        /\ Tail(todo) = <<"load", "mirror">>
        /\ Head(<<"load", "mirror">>) = "load"
    BY <1>4
  <2> QED
    BY <1>4, <2>0, <2>1 DEF SetAhead
<1>5. CASE todo = <<"load", "mirror">>
  <2>0. todo # <<>> /\ todo \in Seq(StepName)
    BY <1>5 DEF StepName
  <2>1. /\ Head(todo) = "load"
        /\ Tail(todo) = <<"mirror">>
        /\ Head(<<"mirror">>) = "mirror"
    BY <1>5
  <2> QED
    BY <1>5, <2>0, <2>1 DEF SetAhead
<1>6. CASE todo = <<"mirror">>
  <2>0. todo # <<>> /\ todo \in Seq(StepName)
    BY <1>6 DEF StepName
  <2>1. /\ Head(todo) = "mirror"
        /\ Tail(todo) = <<>>
    BY <1>6
  <2> QED
    BY <1>6, <2>0, <2>1 DEF SetAhead
<1>7. CASE todo = <<"drop_old", "wrapper", "timer", "reload", "load", "mirror">>
  <2>0. todo # <<>> /\ todo \in Seq(StepName)
    BY <1>7 DEF StepName
  <2>1. /\ Head(todo) = "drop_old"
        /\ Tail(todo) = <<"wrapper", "timer", "reload", "load", "mirror">>
        /\ Head(<<"wrapper", "timer", "reload", "load", "mirror">>) = "wrapper"
    BY <1>7
  <2> QED
    BY <1>7, <2>0, <2>1 DEF SetAhead
<1>8. CASE todo = <<"wrapper", "timer", "reload", "load", "mirror">>
  <2>0. todo # <<>> /\ todo \in Seq(StepName)
    BY <1>8 DEF StepName
  <2>1. /\ Head(todo) = "wrapper"
        /\ Tail(todo) = <<"timer", "reload", "load", "mirror">>
        /\ Head(<<"timer", "reload", "load", "mirror">>) = "timer"
    BY <1>8
  <2> QED
    BY <1>8, <2>0, <2>1 DEF SetAhead
<1>9. CASE todo = <<"timer", "reload", "load", "mirror">>
  <2>0. todo # <<>> /\ todo \in Seq(StepName)
    BY <1>9 DEF StepName
  <2>1. /\ Head(todo) = "timer"
        /\ Tail(todo) = <<"reload", "load", "mirror">>
        /\ Head(<<"reload", "load", "mirror">>) = "reload"
    BY <1>9
  <2> QED
    BY <1>9, <2>0, <2>1 DEF SetAhead
<1>10. CASE todo = <<"reload", "load", "mirror">>
  <2>0. todo # <<>> /\ todo \in Seq(StepName)
    BY <1>10 DEF StepName
  <2>1. /\ Head(todo) = "reload"
        /\ Tail(todo) = <<"load", "mirror">>
        /\ Head(<<"load", "mirror">>) = "load"
    BY <1>10
  <2> QED
    BY <1>10, <2>0, <2>1 DEF SetAhead
<1> QED
  BY <1>1, <1>2, <1>3, <1>4, <1>5, <1>6, <1>7, <1>8, <1>9, <1>10 DEF SetAhead

LEMMA ClearOrder ==
    ASSUME NEW todo \in ClearAhead
    PROVE  /\ todo # <<>> /\ todo \in Seq(StepName)
           /\ Head(todo) \in {"unload", "drop_all", "reload", "mirror"}
           /\ Head(todo) # "mirror" => Tail(todo) \in ClearAhead
           /\ Head(todo) = "unload" => Head(Tail(todo)) = "drop_all"
           /\ Head(todo) = "drop_all" => Head(Tail(todo)) \in {"reload", "mirror"}
           /\ Head(todo) = "reload" => Head(Tail(todo)) = "mirror"
<1>1. CASE todo = <<"unload", "drop_all", "mirror">>
  <2>0. todo # <<>> /\ todo \in Seq(StepName)
    BY <1>1 DEF StepName
  <2>1. /\ Head(todo) = "unload"
        /\ Tail(todo) = <<"drop_all", "mirror">>
        /\ Head(<<"drop_all", "mirror">>) = "drop_all"
    BY <1>1
  <2> QED
    BY <1>1, <2>0, <2>1 DEF ClearAhead
<1>2. CASE todo = <<"drop_all", "mirror">>
  <2>0. todo # <<>> /\ todo \in Seq(StepName)
    BY <1>2 DEF StepName
  <2>1. /\ Head(todo) = "drop_all"
        /\ Tail(todo) = <<"mirror">>
        /\ Head(<<"mirror">>) = "mirror"
    BY <1>2
  <2> QED
    BY <1>2, <2>0, <2>1 DEF ClearAhead
<1>3. CASE todo = <<"mirror">>
  <2>0. todo # <<>> /\ todo \in Seq(StepName)
    BY <1>3 DEF StepName
  <2>1. /\ Head(todo) = "mirror"
        /\ Tail(todo) = <<>>
    BY <1>3
  <2> QED
    BY <1>3, <2>0, <2>1 DEF ClearAhead
<1>4. CASE todo = <<"unload", "drop_all", "reload", "mirror">>
  <2>0. todo # <<>> /\ todo \in Seq(StepName)
    BY <1>4 DEF StepName
  <2>1. /\ Head(todo) = "unload"
        /\ Tail(todo) = <<"drop_all", "reload", "mirror">>
        /\ Head(<<"drop_all", "reload", "mirror">>) = "drop_all"
    BY <1>4
  <2> QED
    BY <1>4, <2>0, <2>1 DEF ClearAhead
<1>5. CASE todo = <<"drop_all", "reload", "mirror">>
  <2>0. todo # <<>> /\ todo \in Seq(StepName)
    BY <1>5 DEF StepName
  <2>1. /\ Head(todo) = "drop_all"
        /\ Tail(todo) = <<"reload", "mirror">>
        /\ Head(<<"reload", "mirror">>) = "reload"
    BY <1>5
  <2> QED
    BY <1>5, <2>0, <2>1 DEF ClearAhead
<1>6. CASE todo = <<"reload", "mirror">>
  <2>0. todo # <<>> /\ todo \in Seq(StepName)
    BY <1>6 DEF StepName
  <2>1. /\ Head(todo) = "reload"
        /\ Tail(todo) = <<"mirror">>
        /\ Head(<<"mirror">>) = "mirror"
    BY <1>6
  <2> QED
    BY <1>6, <2>0, <2>1 DEF ClearAhead
<1> QED
  BY <1>1, <1>2, <1>3, <1>4, <1>5, <1>6 DEF ClearAhead

LEMMA RemoveOrder ==
    ASSUME NEW todo \in RemoveAhead
    PROVE  /\ todo # <<>> /\ todo \in Seq(StepName)
           /\ Head(todo) \in {"heal", "unload", "drop_all", "reload", "untrack"}
           /\ Head(todo) # "untrack" => Tail(todo) \in RemoveAhead
           /\ Head(todo) = "heal" => Head(Tail(todo)) = "unload"
           /\ Head(todo) = "unload" => Head(Tail(todo)) = "drop_all"
           /\ Head(todo) = "drop_all" => Head(Tail(todo)) \in {"reload", "untrack"}
           /\ Head(todo) = "reload" => Head(Tail(todo)) = "untrack"
<1>1. CASE todo = <<"heal", "unload", "drop_all", "untrack">>
  <2>0. todo # <<>> /\ todo \in Seq(StepName)
    BY <1>1 DEF StepName
  <2>1. /\ Head(todo) = "heal"
        /\ Tail(todo) = <<"unload", "drop_all", "untrack">>
        /\ Head(<<"unload", "drop_all", "untrack">>) = "unload"
    BY <1>1
  <2> QED
    BY <1>1, <2>0, <2>1 DEF RemoveAhead
<1>2. CASE todo = <<"unload", "drop_all", "untrack">>
  <2>0. todo # <<>> /\ todo \in Seq(StepName)
    BY <1>2 DEF StepName
  <2>1. /\ Head(todo) = "unload"
        /\ Tail(todo) = <<"drop_all", "untrack">>
        /\ Head(<<"drop_all", "untrack">>) = "drop_all"
    BY <1>2
  <2> QED
    BY <1>2, <2>0, <2>1 DEF RemoveAhead
<1>3. CASE todo = <<"drop_all", "untrack">>
  <2>0. todo # <<>> /\ todo \in Seq(StepName)
    BY <1>3 DEF StepName
  <2>1. /\ Head(todo) = "drop_all"
        /\ Tail(todo) = <<"untrack">>
        /\ Head(<<"untrack">>) = "untrack"
    BY <1>3
  <2> QED
    BY <1>3, <2>0, <2>1 DEF RemoveAhead
<1>4. CASE todo = <<"untrack">>
  <2>0. todo # <<>> /\ todo \in Seq(StepName)
    BY <1>4 DEF StepName
  <2>1. /\ Head(todo) = "untrack"
        /\ Tail(todo) = <<>>
    BY <1>4
  <2> QED
    BY <1>4, <2>0, <2>1 DEF RemoveAhead
<1>5. CASE todo = <<"heal", "unload", "drop_all", "reload", "untrack">>
  <2>0. todo # <<>> /\ todo \in Seq(StepName)
    BY <1>5 DEF StepName
  <2>1. /\ Head(todo) = "heal"
        /\ Tail(todo) = <<"unload", "drop_all", "reload", "untrack">>
        /\ Head(<<"unload", "drop_all", "reload", "untrack">>) = "unload"
    BY <1>5
  <2> QED
    BY <1>5, <2>0, <2>1 DEF RemoveAhead
<1>6. CASE todo = <<"unload", "drop_all", "reload", "untrack">>
  <2>0. todo # <<>> /\ todo \in Seq(StepName)
    BY <1>6 DEF StepName
  <2>1. /\ Head(todo) = "unload"
        /\ Tail(todo) = <<"drop_all", "reload", "untrack">>
        /\ Head(<<"drop_all", "reload", "untrack">>) = "drop_all"
    BY <1>6
  <2> QED
    BY <1>6, <2>0, <2>1 DEF RemoveAhead
<1>7. CASE todo = <<"drop_all", "reload", "untrack">>
  <2>0. todo # <<>> /\ todo \in Seq(StepName)
    BY <1>7 DEF StepName
  <2>1. /\ Head(todo) = "drop_all"
        /\ Tail(todo) = <<"reload", "untrack">>
        /\ Head(<<"reload", "untrack">>) = "reload"
    BY <1>7
  <2> QED
    BY <1>7, <2>0, <2>1 DEF RemoveAhead
<1>8. CASE todo = <<"reload", "untrack">>
  <2>0. todo # <<>> /\ todo \in Seq(StepName)
    BY <1>8 DEF StepName
  <2>1. /\ Head(todo) = "reload"
        /\ Tail(todo) = <<"untrack">>
        /\ Head(<<"untrack">>) = "untrack"
    BY <1>8
  <2> QED
    BY <1>8, <2>0, <2>1 DEF RemoveAhead
<1> QED
  BY <1>1, <1>2, <1>3, <1>4, <1>5, <1>6, <1>7, <1>8 DEF RemoveAhead

LEMMA AddOrder ==
    ASSUME NEW todo \in Ahead("add")
    PROVE  /\ todo # <<>> /\ todo \in Seq(StepName)
           /\ Head(todo) \in {"heal", "track"}
           /\ Head(todo) # "track" => Tail(todo) \in Ahead("add") /\ Head(Tail(todo)) = "track"
<1>1. CASE todo = <<"heal", "track">>
  <2>0. todo # <<>> /\ todo \in Seq(StepName)
    BY <1>1 DEF StepName
  <2>1. /\ Head(todo) = "heal"
        /\ Tail(todo) = <<"track">>
        /\ Head(<<"track">>) = "track"
    BY <1>1
  <2> QED
    BY <1>1, <2>0, <2>1 DEF Ahead
<1>2. CASE todo = <<"track">>
  <2>0. todo # <<>> /\ todo \in Seq(StepName)
    BY <1>2 DEF StepName
  <2>1. /\ Head(todo) = "track"
        /\ Tail(todo) = <<>>
    BY <1>2
  <2> QED
    BY <1>2, <2>0, <2>1 DEF Ahead
<1> QED
  BY <1>1, <1>2 DEF Ahead

\* Which command a step belongs to.
LEMMA StepOf ==
    ASSUME CallOK, NEW x, Doing(x)
    PROVE  /\ ~Resting /\ call.todo \in Ahead(call.cmd)
           /\ x \in {"drop_old", "wrapper", "timer", "load"} => call.cmd = "set"
           /\ x = "mirror" => call.cmd \in {"set", "clear"}
           /\ x \in {"unload", "reload"} => call.cmd \in {"set", "clear", "remove"}
           /\ x = "drop_all" => call.cmd \in {"clear", "remove"}
           /\ x = "heal" => call.cmd \in {"list", "add", "remove"}
           /\ x = "track" => call.cmd = "add"
           /\ x = "untrack" => call.cmd = "remove"
           /\ x = "save" => call.cmd = "use"
<1>1. ~Resting /\ call.cmd \in Command /\ call.todo \in Ahead(call.cmd) /\ Head(call.todo) = x
  BY DEF CallOK, Call, Resting, Doing
<1>2. CASE call.cmd = "set"
  BY <1>1, <1>2, SetOrder DEF Ahead
<1>3. CASE call.cmd = "clear"
  BY <1>1, <1>3, ClearOrder DEF Ahead
<1>4. CASE call.cmd = "remove"
  BY <1>1, <1>4, RemoveOrder DEF Ahead
<1>5. CASE call.cmd = "add"
  BY <1>1, <1>5, AddOrder
<1>6. CASE call.cmd \in {"list", "use"}
  <2>1. Head(<<"heal">>) = "heal" /\ Head(<<"save">>) = "save"
    OBVIOUS
  <2> QED
    BY <1>1, <1>6, <2>1 DEF Ahead
<1> QED
  BY <1>1, <1>2, <1>3, <1>4, <1>5, <1>6 DEF Command

\* A running command has steps ahead of it.
LEMMA RunningReady ==
    ASSUME CallOK
    PROVE  Ready <=> ~Resting
<1>1. CASE ~Resting
  <2>1. call.cmd \in Command /\ call.todo \in Ahead(call.cmd)
    BY <1>1 DEF CallOK, Call, Resting
  <2>2. <<"heal">> # <<>> /\ <<"save">> # <<>>
    OBVIOUS
  <2> QED
    BY <1>1, <2>1, <2>2, SetOrder, ClearOrder, RemoveOrder, AddOrder DEF Ahead, Command, Ready
<1> QED
  BY <1>1 DEF CallOK, Ready

\* A step is done and the command goes on, perhaps with the sources it has read.
LEMMA GoesOn ==
    ASSUME CallOK, NEW x, Doing(x), x \notin {"mirror", "track", "untrack", "save"},
           call.cmd # "list", NEW m \in Sources,
           call' = [call EXCEPT !.todo = Tail(@), !.mem = m],
           UNCHANGED <<platform, app>>
    PROVE  /\ CallOK' /\ Ready'
           /\ call'.cmd = call.cmd /\ call'.label = call.label /\ call'.sched = call.sched
           /\ call'.bin = call.bin /\ call'.script = call.script /\ call'.mem = m
           /\ x = "drop_old" => Head(call'.todo) = "wrapper"
           /\ x = "wrapper" => Head(call'.todo) = "timer"
           /\ x = "timer" => Head(call'.todo) \in {"unload", "reload"}
           /\ x \in {"unload", "reload"} /\ call.cmd = "set" => Head(call'.todo) = "load"
           /\ x = "load" => Head(call'.todo) = "mirror"
           /\ x = "unload" /\ call.cmd # "set" => Head(call'.todo) = "drop_all"
           /\ x \in {"drop_all", "reload"} /\ call.cmd # "set" =>
                Head(call'.todo) \in {"reload", "mirror", "untrack"}
           /\ x = "heal" => Head(call'.todo) \in {"track", "unload"}
<1>1. /\ ~Resting /\ call \in Call /\ call.cmd \in Command /\ Head(call.todo) = x
      /\ call.todo \in Ahead(call.cmd)
  BY StepOf DEF CallOK, Call, Resting, Doing
<1>2. /\ call'.cmd = call.cmd /\ call'.label = call.label /\ call'.sched = call.sched
      /\ call'.bin = call.bin /\ call'.script = call.script /\ call'.mem = m
      /\ call'.todo = Tail(call.todo)
  BY <1>1 DEF Call
<1> DEFINE Fine ==
           /\ call'.todo \in Ahead(call.cmd) /\ call'.todo # <<>> /\ call'.todo \in Seq(StepName)
           /\ x = "drop_old" => Head(call'.todo) = "wrapper"
           /\ x = "wrapper" => Head(call'.todo) = "timer"
           /\ x = "timer" => Head(call'.todo) \in {"unload", "reload"}
           /\ x \in {"unload", "reload"} /\ call.cmd = "set" => Head(call'.todo) = "load"
           /\ x = "load" => Head(call'.todo) = "mirror"
           /\ x = "unload" /\ call.cmd # "set" => Head(call'.todo) = "drop_all"
           /\ x \in {"drop_all", "reload"} /\ call.cmd # "set" =>
                Head(call'.todo) \in {"reload", "mirror", "untrack"}
           /\ x = "heal" => Head(call'.todo) \in {"track", "unload"}
<1>3. Fine
  <2>1. CASE call.cmd = "set"
    <3>1. call.todo \in SetAhead /\ Tail(call.todo) \in SetAhead
      BY <1>1, <2>1, SetOrder DEF Ahead
    <3>2. Tail(call.todo) # <<>> /\ Tail(call.todo) \in Seq(StepName)
      BY <3>1, SetOrder
    <3>3. /\ x \in {"drop_old", "wrapper", "timer", "unload", "reload", "load"}
          /\ x = "drop_old" => Head(Tail(call.todo)) = "wrapper"
          /\ x = "wrapper" => Head(Tail(call.todo)) = "timer"
          /\ x = "timer" => Head(Tail(call.todo)) \in {"unload", "reload"}
          /\ x \in {"unload", "reload"} => Head(Tail(call.todo)) = "load"
          /\ x = "load" => Head(Tail(call.todo)) = "mirror"
      BY <1>1, <3>1, SetOrder
    <3> QED
      BY <1>1, <1>2, <2>1, <3>1, <3>2, <3>3 DEF Ahead
  <2>2. CASE call.cmd = "clear"
    <3>1. call.todo \in ClearAhead /\ Tail(call.todo) \in ClearAhead
      BY <1>1, <2>2, ClearOrder DEF Ahead
    <3>2. Tail(call.todo) # <<>> /\ Tail(call.todo) \in Seq(StepName)
      BY <3>1, ClearOrder
    <3>3. /\ x \in {"unload", "drop_all", "reload", "mirror"}
          /\ x = "unload" => Head(Tail(call.todo)) = "drop_all"
          /\ x = "drop_all" => Head(Tail(call.todo)) \in {"reload", "mirror"}
          /\ x = "reload" => Head(Tail(call.todo)) = "mirror"
      BY <1>1, <3>1, ClearOrder
    <3> QED
      BY <1>1, <1>2, <2>2, <3>1, <3>2, <3>3 DEF Ahead
  <2>3. CASE call.cmd = "remove"
    <3>1. call.todo \in RemoveAhead /\ Tail(call.todo) \in RemoveAhead
      BY <1>1, <2>3, RemoveOrder DEF Ahead
    <3>2. Tail(call.todo) # <<>> /\ Tail(call.todo) \in Seq(StepName)
      BY <3>1, RemoveOrder
    <3>3. /\ x \in {"heal", "unload", "drop_all", "reload", "untrack"}
          /\ x = "heal" => Head(Tail(call.todo)) = "unload"
          /\ x = "unload" => Head(Tail(call.todo)) = "drop_all"
          /\ x = "drop_all" => Head(Tail(call.todo)) \in {"reload", "untrack"}
          /\ x = "reload" => Head(Tail(call.todo)) = "untrack"
      BY <1>1, <3>1, RemoveOrder
    <3> QED
      BY <1>1, <1>2, <2>3, <3>1, <3>2, <3>3 DEF Ahead
  <2>4. CASE call.cmd = "add"
    <3>1. call.todo \in Ahead("add") /\ Tail(call.todo) \in Ahead("add")
      BY <1>1, <2>4, AddOrder
    <3>2. Tail(call.todo) # <<>> /\ Tail(call.todo) \in Seq(StepName)
      BY <3>1, AddOrder
    <3>3. x = "heal" /\ Head(Tail(call.todo)) = "track"
      BY <1>1, <3>1, AddOrder
    <3> QED
      BY <1>1, <1>2, <2>4, <3>1, <3>2, <3>3 DEF Ahead
  <2>5. call.cmd # "use"
    <3>1. Head(<<"save">>) = "save"
      OBVIOUS
    <3> QED
      BY <1>1, <3>1 DEF Ahead
  <2> QED
    BY <1>1, <2>1, <2>2, <2>3, <2>4, <2>5 DEF Command
<1> HIDE DEF Fine
<1>4. call' \in Call
  BY <1>1, <1>2, <1>3 DEF Call, Fine
<1>5. Ahead(call.cmd)' = Ahead(call.cmd)
  BY <1>2 DEF Ahead, SetAhead, ClearAhead, RemoveAhead
<1>6. CallOK'
  BY <1>1, <1>2, <1>3, <1>4, <1>5 DEF CallOK, Resting, Fine
<1> QED
  BY <1>2, <1>3, <1>6 DEF Ready, Fine

LEMMA IdleType == Idle \in Call /\ Idle.cmd = "none" /\ Idle.todo = <<>>
<1>1. Off \in Schedule /\ Nothing \in Sources /\ Missing \in WrapperFile /\ House \in Label
  BY DEF Schedule, Nothing, Sources, WrapperFile, Label
<1>2. <<>> \in Seq(StepName)
  OBVIOUS
<1> QED
  BY <1>1, <1>2 DEF Idle, Call

\* A command ends.
LEMMA Ends ==
    ASSUME call' = Idle
    PROVE  CallOK' /\ Resting' /\ ~Ready' /\ call'.cmd = "none"
BY IdleType DEF CallOK, Resting, Ready

\* What lists of a few steps are with one more.
LEMMA Appended2 ==
    ASSUME NEW a, NEW b, NEW c
    PROVE  <<a, b>> \o <<c>> = <<a, b, c>>
<1> DEFINE S == {a, b, c}
           s == <<a, b>>
           t == <<c>>
           u == <<a, b, c>>
<1>1. s \in Seq(S) /\ t \in Seq(S) /\ u \in Seq(S) /\ Len(s) = 2 /\ Len(t) = 1 /\ Len(u) = 3
  OBVIOUS
<1>2. s[1] = u[1] /\ s[2] = u[2] /\ t[1] = u[3]
  OBVIOUS
<1> HIDE DEF s, t, u, S
<1>3. /\ s \o t \in Seq(S)
      /\ Len(s \o t) = Len(s) + Len(t)
      /\ \A i \in 1 .. Len(s) + Len(t) : (s \o t)[i] = IF i <= Len(s) THEN s[i] ELSE t[i - Len(s)]
  BY <1>1, ConcatProperties
<1>4. Len(s \o t) = Len(u)
  BY <1>1, <1>3
<1>5. \A i \in 1..3 : (s \o t)[i] = u[i]
  BY <1>1, <1>2, <1>3
<1>6. s \o t = u
  BY <1>1, <1>3, <1>4, <1>5, SeqEqual
<1> QED
  BY <1>6 DEF s, t, u

LEMMA Appended3 ==
    ASSUME NEW a, NEW b, NEW c, NEW d
    PROVE  <<a, b, c>> \o <<d>> = <<a, b, c, d>>
<1> DEFINE S == {a, b, c, d}
           s == <<a, b, c>>
           t == <<d>>
           u == <<a, b, c, d>>
<1>1. s \in Seq(S) /\ t \in Seq(S) /\ u \in Seq(S) /\ Len(s) = 3 /\ Len(t) = 1 /\ Len(u) = 4
  OBVIOUS
<1>2. s[1] = u[1] /\ s[2] = u[2] /\ s[3] = u[3] /\ t[1] = u[4]
  OBVIOUS
<1> HIDE DEF s, t, u, S
<1>3. /\ s \o t \in Seq(S)
      /\ Len(s \o t) = Len(s) + Len(t)
      /\ \A i \in 1 .. Len(s) + Len(t) : (s \o t)[i] = IF i <= Len(s) THEN s[i] ELSE t[i - Len(s)]
  BY <1>1, ConcatProperties
<1>4. Len(s \o t) = Len(u)
  BY <1>1, <1>3
<1>5. \A i \in 1..4 : (s \o t)[i] = u[i]
  BY <1>1, <1>2, <1>3
<1>6. s \o t = u
  BY <1>1, <1>3, <1>4, <1>5, SeqEqual
<1> QED
  BY <1>6 DEF s, t, u

LEMMA Appended4 ==
    ASSUME NEW a, NEW b, NEW c, NEW d, NEW e
    PROVE  <<a, b, c, d>> \o <<e>> = <<a, b, c, d, e>>
<1> DEFINE S == {a, b, c, d, e}
           s == <<a, b, c, d>>
           t == <<e>>
           u == <<a, b, c, d, e>>
<1>1. s \in Seq(S) /\ t \in Seq(S) /\ u \in Seq(S) /\ Len(s) = 4 /\ Len(t) = 1 /\ Len(u) = 5
  OBVIOUS
<1>2. s[1] = u[1] /\ s[2] = u[2] /\ s[3] = u[3] /\ s[4] = u[4] /\ t[1] = u[5]
  OBVIOUS
<1> HIDE DEF s, t, u, S
<1>3. /\ s \o t \in Seq(S)
      /\ Len(s \o t) = Len(s) + Len(t)
      /\ \A i \in 1 .. Len(s) + Len(t) : (s \o t)[i] = IF i <= Len(s) THEN s[i] ELSE t[i - Len(s)]
  BY <1>1, ConcatProperties
<1>4. Len(s \o t) = Len(u)
  BY <1>1, <1>3
<1>5. \A i \in 1..5 : (s \o t)[i] = u[i]
  BY <1>1, <1>2, <1>3
<1>6. s \o t = u
  BY <1>1, <1>3, <1>4, <1>5, SeqEqual
<1> QED
  BY <1>6 DEF s, t, u

LEMMA Appended5 ==
    ASSUME NEW a, NEW b, NEW c, NEW d, NEW e, NEW f
    PROVE  <<a, b, c, d, e>> \o <<f>> = <<a, b, c, d, e, f>>
<1> DEFINE S == {a, b, c, d, e, f}
           s == <<a, b, c, d, e>>
           t == <<f>>
           u == <<a, b, c, d, e, f>>
<1>1. s \in Seq(S) /\ t \in Seq(S) /\ u \in Seq(S) /\ Len(s) = 5 /\ Len(t) = 1 /\ Len(u) = 6
  OBVIOUS
<1>2. s[1] = u[1] /\ s[2] = u[2] /\ s[3] = u[3] /\ s[4] = u[4] /\ s[5] = u[5] /\ t[1] = u[6]
  OBVIOUS
<1> HIDE DEF s, t, u, S
<1>3. /\ s \o t \in Seq(S)
      /\ Len(s \o t) = Len(s) + Len(t)
      /\ \A i \in 1 .. Len(s) + Len(t) : (s \o t)[i] = IF i <= Len(s) THEN s[i] ELSE t[i - Len(s)]
  BY <1>1, ConcatProperties
<1>4. Len(s \o t) = Len(u)
  BY <1>1, <1>3
<1>5. \A i \in 1..6 : (s \o t)[i] = u[i]
  BY <1>1, <1>2, <1>3
<1>6. s \o t = u
  BY <1>1, <1>3, <1>4, <1>5, SeqEqual
<1> QED
  BY <1>6 DEF s, t, u

LEMMA Prepended2 ==
    ASSUME NEW a, NEW b, NEW c
    PROVE  <<a>> \o <<b, c>> = <<a, b, c>>
<1> DEFINE S == {a, b, c}
           s == <<a>>
           t == <<b, c>>
           u == <<a, b, c>>
<1>1. s \in Seq(S) /\ t \in Seq(S) /\ u \in Seq(S) /\ Len(s) = 1 /\ Len(t) = 2 /\ Len(u) = 3
  OBVIOUS
<1>2. s[1] = u[1] /\ t[1] = u[2] /\ t[2] = u[3]
  OBVIOUS
<1> HIDE DEF s, t, u, S
<1>3. /\ s \o t \in Seq(S)
      /\ Len(s \o t) = Len(s) + Len(t)
      /\ \A i \in 1 .. Len(s) + Len(t) : (s \o t)[i] = IF i <= Len(s) THEN s[i] ELSE t[i - Len(s)]
  BY <1>1, ConcatProperties
<1>4. Len(s \o t) = Len(u)
  BY <1>1, <1>3
<1>5. \A i \in 1..3 : (s \o t)[i] = u[i]
  BY <1>1, <1>2, <1>3
<1>6. s \o t = u
  BY <1>1, <1>3, <1>4, <1>5, SeqEqual
<1> QED
  BY <1>6 DEF s, t, u

LEMMA Prepended3 ==
    ASSUME NEW a, NEW b, NEW c, NEW d
    PROVE  <<a>> \o <<b, c, d>> = <<a, b, c, d>>
<1> DEFINE S == {a, b, c, d}
           s == <<a>>
           t == <<b, c, d>>
           u == <<a, b, c, d>>
<1>1. s \in Seq(S) /\ t \in Seq(S) /\ u \in Seq(S) /\ Len(s) = 1 /\ Len(t) = 3 /\ Len(u) = 4
  OBVIOUS
<1>2. s[1] = u[1] /\ t[1] = u[2] /\ t[2] = u[3] /\ t[3] = u[4]
  OBVIOUS
<1> HIDE DEF s, t, u, S
<1>3. /\ s \o t \in Seq(S)
      /\ Len(s \o t) = Len(s) + Len(t)
      /\ \A i \in 1 .. Len(s) + Len(t) : (s \o t)[i] = IF i <= Len(s) THEN s[i] ELSE t[i - Len(s)]
  BY <1>1, ConcatProperties
<1>4. Len(s \o t) = Len(u)
  BY <1>1, <1>3
<1>5. \A i \in 1..4 : (s \o t)[i] = u[i]
  BY <1>1, <1>2, <1>3
<1>6. s \o t = u
  BY <1>1, <1>3, <1>4, <1>5, SeqEqual
<1> QED
  BY <1>6 DEF s, t, u


\* A command starts at the first of its steps.
LEMMA FirstStep ==
    ASSUME platform \in {"launchd", "systemd"}, NEW cmd \in Command
    PROVE  /\ Steps(cmd) \in Ahead(cmd)
           /\ cmd = "set" => Head(Steps(cmd)) = "drop_old"
           /\ cmd = "clear" => Head(Steps(cmd)) = "unload"
           /\ cmd \in {"list", "add", "remove"} => Head(Steps(cmd)) = "heal"
           /\ cmd = "use" => Head(Steps(cmd)) = "save"
<1>1. CASE cmd = "set"
  <2>1. CASE platform = "launchd"
    <3>1. Install \o <<"mirror">> = <<"drop_old", "wrapper", "timer", "unload", "load", "mirror">>
      BY <2>1, Appended5 DEF Install
    <3>2. Steps(cmd) = <<"drop_old", "wrapper", "timer", "unload", "load", "mirror">>
      BY <1>1, <2>1, <3>1 DEF Steps
    <3>3. Head(<<"drop_old", "wrapper", "timer", "unload", "load", "mirror">>) = "drop_old"
      OBVIOUS
    <3>4. Steps(cmd) \in Ahead(cmd)
      BY <1>1, <2>1, <3>2 DEF Ahead, SetAhead
    <3> QED
      BY <1>1, <3>2, <3>3, <3>4
  <2>2. CASE platform # "launchd"
    <3>1. Install \o <<"mirror">> = <<"drop_old", "wrapper", "timer", "reload", "load", "mirror">>
      BY <2>2, Appended5 DEF Install
    <3>2. Steps(cmd) = <<"drop_old", "wrapper", "timer", "reload", "load", "mirror">>
      BY <1>1, <2>2, <3>1 DEF Steps
    <3>3. Head(<<"drop_old", "wrapper", "timer", "reload", "load", "mirror">>) = "drop_old"
      OBVIOUS
    <3>4. Steps(cmd) \in Ahead(cmd)
      BY <1>1, <2>2, <3>2 DEF Ahead, SetAhead
    <3> QED
      BY <1>1, <3>2, <3>3, <3>4
  <2> QED
    BY <2>1, <2>2
<1>2. CASE cmd = "clear"
  <2>1. CASE platform = "launchd"
    <3>1. Uninstall \o <<"mirror">> = <<"unload", "drop_all", "mirror">>
      BY <2>1, Appended2 DEF Uninstall
    <3>2. Steps(cmd) = <<"unload", "drop_all", "mirror">>
      BY <1>2, <2>1, <3>1 DEF Steps
    <3>3. Head(<<"unload", "drop_all", "mirror">>) = "unload"
      OBVIOUS
    <3>4. Steps(cmd) \in Ahead(cmd)
      BY <1>2, <2>1, <3>2 DEF Ahead, ClearAhead
    <3> QED
      BY <1>2, <3>2, <3>3, <3>4
  <2>2. CASE platform # "launchd"
    <3>1. Uninstall \o <<"mirror">> = <<"unload", "drop_all", "reload", "mirror">>
      BY <2>2, Appended3 DEF Uninstall
    <3>2. Steps(cmd) = <<"unload", "drop_all", "reload", "mirror">>
      BY <1>2, <2>2, <3>1 DEF Steps
    <3>3. Head(<<"unload", "drop_all", "reload", "mirror">>) = "unload"
      OBVIOUS
    <3>4. Steps(cmd) \in Ahead(cmd)
      BY <1>2, <2>2, <3>2 DEF Ahead, ClearAhead
    <3> QED
      BY <1>2, <3>2, <3>3, <3>4
  <2> QED
    BY <2>1, <2>2
<1>3. CASE cmd = "remove"
  <2>1. CASE platform = "launchd"
    <3>1. <<"heal">> \o Uninstall = <<"heal", "unload", "drop_all">>
      BY <2>1, Prepended2 DEF Uninstall
    <3>2. <<"heal">> \o Uninstall \o <<"untrack">> = <<"heal", "unload", "drop_all", "untrack">>
      BY <3>1, Appended3
    <3>3. Steps(cmd) = <<"heal", "unload", "drop_all", "untrack">>
      BY <1>3, <2>1, <3>2 DEF Steps
    <3>4. Head(<<"heal", "unload", "drop_all", "untrack">>) = "heal"
      OBVIOUS
    <3>5. Steps(cmd) \in Ahead(cmd)
      BY <1>3, <2>1, <3>3 DEF Ahead, RemoveAhead
    <3> QED
      BY <1>3, <3>3, <3>4, <3>5
  <2>2. CASE platform # "launchd"
    <3>1. <<"heal">> \o Uninstall = <<"heal", "unload", "drop_all", "reload">>
      BY <2>2, Prepended3 DEF Uninstall
    <3>2. <<"heal">> \o Uninstall \o <<"untrack">> = <<"heal", "unload", "drop_all", "reload", "untrack">>
      BY <3>1, Appended4
    <3>3. Steps(cmd) = <<"heal", "unload", "drop_all", "reload", "untrack">>
      BY <1>3, <2>2, <3>2 DEF Steps
    <3>4. Head(<<"heal", "unload", "drop_all", "reload", "untrack">>) = "heal"
      OBVIOUS
    <3>5. Steps(cmd) \in Ahead(cmd)
      BY <1>3, <2>2, <3>3 DEF Ahead, RemoveAhead
    <3> QED
      BY <1>3, <3>3, <3>4, <3>5
  <2> QED
    BY <2>1, <2>2
<1>4. CASE cmd \in {"list", "add", "use"}
  BY <1>4 DEF Steps, Ahead
<1> QED
  BY <1>1, <1>2, <1>3, <1>4 DEF Command


--------------------------------------------------------------------------------
(* Types of what the operators give. *)

LEMMA ScheduleForm ==
    /\ Off \in Schedule
    /\ \A s \in Schedule \ {Off} : s \in Asked /\ Valid(s)
    /\ \A s \in Asked : Valid(s) => s \in Schedule \ {Off}
    /\ Untracked \notin Schedule
BY MarkersAssumption DEF Schedule

\* The file made of a schedule is read as that schedule, on either system.
LEMMA ReadBack ==
    ASSUME NEW s \in Asked
    PROVE  /\ Parse(Build(s)) = s
           /\ Build(s) # Missing
           /\ \A st \in Stem : [file |-> Build(s), stem |-> st] # Off
<1>1. Parse(Build(s)) = s
  <2>1. s \in [kind : {"daily"}, hour : Nat, minute : Nat] \/ s \in [kind : {"interval"}, minutes : Nat]
    BY ScheduleAssumption
  <2>2. CASE s \in [kind : {"daily"}, hour : Nat, minute : Nat]
    <3>1. s.kind = "daily" /\ s = [kind |-> "daily", hour |-> s.hour, minute |-> s.minute]
      BY <2>2
    <3>2. CASE platform = "launchd"
      <4>1. Build(s) = [Hour |-> s.hour, Minute |-> s.minute]
        BY <3>1, <3>2 DEF Build, BuildPlist
      <4>2. DOMAIN Build(s) = {"Hour", "Minute"} /\ Build(s).Hour = s.hour /\ Build(s).Minute = s.minute
        BY <4>1
      <4>3. Parse(Build(s)) = [kind |-> "daily", hour |-> s.hour, minute |-> s.minute]
        BY <3>2, <4>2 DEF Parse, ParsePlist, Daily
      <4> QED
        BY <3>1, <4>3
    <3>3. CASE platform # "launchd"
      <4>1. Build(s) = [at |-> <<s.hour, s.minute>>]
        BY <3>1, <3>3 DEF Build, BuildTimer
      <4>2. DOMAIN Build(s) = {"at"} /\ Build(s).at[1] = s.hour /\ Build(s).at[2] = s.minute
        BY <4>1
      <4>3. Parse(Build(s)) = [kind |-> "daily", hour |-> s.hour, minute |-> s.minute]
        BY <3>3, <4>2 DEF Parse, ParseTimer, Daily
      <4> QED
        BY <3>1, <4>3
    <3> QED
      BY <3>2, <3>3
  <2>3. CASE s \in [kind : {"interval"}, minutes : Nat]
    <3>1. s.kind = "interval" /\ s.minutes \in Nat /\ s = [kind |-> "interval", minutes |-> s.minutes]
      BY <2>3
    <3>2. CASE platform = "launchd"
      <4>1. Build(s) = [StartInterval |-> s.minutes * 60]
        BY <3>1, <3>2 DEF Build, BuildPlist
      <4>2. DOMAIN Build(s) = {"StartInterval"} /\ Build(s).StartInterval = s.minutes * 60
        BY <4>1
      <4>3. (s.minutes * 60) \div 60 = s.minutes
        BY <3>1
      <4>4. Parse(Build(s)) = [kind |-> "interval", minutes |-> (s.minutes * 60) \div 60]
        BY <3>2, <4>2 DEF Parse, ParsePlist, Interval
      <4> QED
        BY <3>1, <4>3, <4>4
    <3>3. CASE platform # "launchd"
      <4>1. Build(s) = [step |-> s.minutes]
        BY <3>1, <3>3 DEF Build, BuildTimer
      <4>2. DOMAIN Build(s) = {"step"} /\ Build(s).step = s.minutes
        BY <4>1
      <4>3. Parse(Build(s)) = [kind |-> "interval", minutes |-> s.minutes]
        BY <3>3, <4>2 DEF Parse, ParseTimer, Interval
      <4> QED
        BY <3>1, <4>3
    <3> QED
      BY <3>2, <3>3
  <2> QED
    BY <2>1, <2>2, <2>3
<1>2. Build(s) = BuildPlist(s) \/ Build(s) = BuildTimer(s)
  BY DEF Build
<1>3. Missing # BuildPlist(s) /\ Missing # BuildTimer(s)
  BY MarkersAssumption DEF Stem
<1>4. ASSUME NEW st \in Stem
      PROVE  [file |-> Build(s), stem |-> st] # Off
  BY <1>2, MarkersAssumption
<1> QED
  BY <1>1, <1>2, <1>3, <1>4

\* An empty file is a schedule for no system.
LEMMA ParseEmpty == Parse(Empty) = Off
<1>1. DOMAIN Empty = {}
  BY DEF Empty
<1> QED
  BY <1>1 DEF Parse, ParsePlist, ParseTimer

LEMMA BuildType ==
    ASSUME NEW s \in Schedule \ {Off}
    PROVE  Build(s) \in TimerFile
BY DEF Build, TimerFile, FileOn, FileOf

LEMMA StemType ==
    \A l : StemOf(l) \in Stem /\ "bare" \in Stem /\ "hinted" \in Stem
BY DEF StemOf, Stem

LEMMA StatusType ==
    ASSUME Shapes, NEW l \in Label
    PROVE  Status(l) \in Schedule
<1>1. ASSUME NEW f \in TimerFile, f # Missing
      PROVE  Parse(f) \in Schedule
  <2>1. CASE f = Empty
    BY <2>1, ParseEmpty, ScheduleForm
  <2>2. ASSUME NEW s \in Schedule \ {Off}, f = FileOf(platform, s)
        PROVE  Parse(f) \in Schedule
    <3>1. f = Build(s)
      BY <2>2 DEF Build, FileOf
    <3> QED
      BY <3>1, ScheduleForm, ReadBack
  <2> QED
    BY <1>1, <2>1, <2>2 DEF TimerFile, FileOn
<1>2. timer[l][StemOf(l)] \in TimerFile /\ timer[l]["bare"] \in TimerFile
  BY StemType DEF Shapes
<1> QED
  BY <1>1, <1>2, ScheduleForm DEF Status

LEMMA HealedType ==
    ASSUME Shapes
    PROVE  /\ Healed \in Sources
           /\ {p \in Path : Healed[p] # Untracked} = Tracked
<1>1. \A p \in Tracked : Status(p) \in Schedule
  BY StatusType DEF Tracked, Label
<1> QED
  BY <1>1, ScheduleForm DEF Healed, Sources, Tracked

\* A script that the GUI composes is there.
LEMMA WrapperType ==
    ASSUME setup \in [Bin -> Backend], NEW l, NEW b \in Bin
    PROVE  Wrapper(l, b) \in WrapperFile /\ Wrapper(l, b) # Missing
<1>1. setup[b] \in Backend /\ "none" \in Backend /\ ScheduledScript("none") = "none"
  BY DEF Backend, ScheduledScript
<1>2. \E k \in Backend : Wrapper(l, b) = [bin |-> b, then |-> ScheduledScript(k)]
  BY <1>1 DEF Wrapper
<1>3. \A k \in Backend : ScheduledScript(k) \in Scripts
  BY DEF ScheduledScript, Scripts
<1> QED
  BY <1>2, <1>3, MarkersAssumption DEF WrapperFile

\* A command starts: what it was given is its own.
LEMMA Starts ==
    ASSUME Shapes, NEW cmd \in Command, NEW l \in Label, NEW s \in Schedule, NEW b,
           Start(cmd, l, s, b),
           cmd = "set" => s # Off, cmd \in {"clear", "remove"} => s = Off,
           cmd \in {"add", "remove"} => l \in Path,
           IF cmd = "use" THEN b \in Bin ELSE b = app
    PROVE  /\ CallOK' /\ Resting /\ ~Resting' /\ b \in Bin
           /\ call'.cmd = cmd /\ call'.label = l /\ call'.sched = s /\ call'.bin = b
           /\ cmd = "set" => call'.script = Wrapper(l, b) /\ Head(call'.todo) = "drop_old"
           /\ cmd = "clear" => Head(call'.todo) = "unload"
           /\ cmd \in {"list", "add", "remove"} => Head(call'.todo) = "heal"
           /\ cmd = "use" => Head(call'.todo) = "save"
           /\ UNCHANGED <<platform, config, timer, wrapper, job, setup, app, told, stale>>
<1>1. /\ Resting /\ app # Closed /\ (app = Setup => cmd = "use")
      /\ call' = [Idle EXCEPT !.cmd = cmd, !.label = l, !.sched = s, !.bin = b,
                              !.script = IF cmd = "set" THEN Wrapper(l, b) ELSE Missing,
                              !.todo = Steps(cmd)]
      /\ UNCHANGED <<platform, config, timer, wrapper, job, setup, app, told, stale>>
  BY DEF Start, files
<1>2. b \in Bin
  BY <1>1 DEF Shapes
<1>3. Steps(cmd) \in Seq(StepName) /\ Steps(cmd) # <<>>
  <2>1. Steps(cmd) \in Ahead(cmd)
    BY FirstStep DEF Shapes
  <2>2. <<"heal">> \in Seq(StepName) /\ <<"save">> \in Seq(StepName) /\ <<"heal">> # <<>> /\ <<"save">> # <<>>
    BY DEF StepName
  <2> QED
    BY <2>1, <2>2, SetOrder, ClearOrder, RemoveOrder, AddOrder DEF Ahead, Command
<1>4. Idle \in Call
  BY IdleType
<1>5. (IF cmd = "set" THEN Wrapper(l, b) ELSE Missing) \in WrapperFile
  BY <1>2, WrapperType DEF Shapes, WrapperFile
<1>6. /\ call' \in Call
      /\ call'.cmd = cmd /\ call'.label = l /\ call'.sched = s /\ call'.bin = b
      /\ call'.script = IF cmd = "set" THEN Wrapper(l, b) ELSE Missing
      /\ call'.todo = Steps(cmd)
  BY <1>1, <1>2, <1>3, <1>4, <1>5 DEF Call
<1>7. Ahead(cmd)' = Ahead(cmd)
  BY <1>1 DEF Ahead, SetAhead, ClearAhead, RemoveAhead
<1>8. Steps(cmd) \in Ahead(cmd) /\ cmd # "none"
  BY FirstStep DEF Shapes, Command
<1>9. CallOK' /\ ~Resting'
  <2>1. cmd = "set" => call'.script # Missing
    BY <1>2, <1>6, WrapperType DEF Shapes
  <2> QED
    BY <1>1, <1>2, <1>6, <1>7, <1>8, <2>1 DEF CallOK, Resting
<1> QED
  BY <1>1, <1>2, <1>6, <1>9, FirstStep DEF Shapes

\* Without a configuration nothing is known of.
LEMMA MirrorNone ==
    \A l : Mirror(l) # Off => config # NoConfig
BY DEF Mirror, Tracked

\* What is loaded of a schedule is started as it was asked for, if a whole number of its
\* intervals makes an hour.
LEMMA FiresAsAsked ==
    ASSUME NEW s \in Asked, s.kind = "interval" => 60 % s.minutes = 0
    PROVE  Fires(Build(s)) = s
<1>1. Parse(Build(s)) = s
  BY ReadBack
<1>2. "step" \in DOMAIN Build(s) => s.kind = "interval" /\ Build(s).step = s.minutes
  <2>1. s.kind \in {"daily", "interval"}
    BY ScheduleAssumption
  <2> QED
    BY <2>1 DEF Build, BuildPlist, BuildTimer
<1> QED
  BY <1>1, <1>2 DEF Fires

--------------------------------------------------------------------------------
(* Type correctness. *)

\* As GoesOn, for a step that reads nothing.
LEMMA GoesOnPlain ==
    ASSUME CallOK, NEW x, Doing(x), x \notin {"mirror", "heal", "track", "untrack", "save"},
           GoOn, UNCHANGED <<platform, app>>
    PROVE  /\ CallOK' /\ Ready' /\ told' = told
           /\ call'.cmd = call.cmd /\ call'.label = call.label /\ call'.sched = call.sched
           /\ call'.bin = call.bin /\ call'.script = call.script /\ call'.mem = call.mem
           /\ x = "drop_old" => Head(call'.todo) = "wrapper"
           /\ x = "wrapper" => Head(call'.todo) = "timer"
           /\ x = "timer" => Head(call'.todo) \in {"unload", "reload"}
           /\ x \in {"unload", "reload"} /\ call.cmd = "set" => Head(call'.todo) = "load"
           /\ x = "load" => Head(call'.todo) = "mirror"
           /\ x = "unload" /\ call.cmd # "set" => Head(call'.todo) = "drop_all"
           /\ x \in {"drop_all", "reload"} /\ call.cmd # "set" =>
                Head(call'.todo) \in {"reload", "mirror", "untrack"}
<1>1. call \in Call /\ call.mem \in Sources
  BY DEF CallOK, Call
<1>2. call' = [call EXCEPT !.todo = Tail(@), !.mem = call.mem]
  BY <1>1 DEF GoOn, Call
<1>3. call.cmd # "list"
  <2>1. Head(<<"heal">>) = "heal"
    OBVIOUS
  <2>2. CASE call.cmd = "list"
    <3>1. call.todo = <<"heal">>
      BY <2>2, StepOf DEF Ahead
    <3> QED
      BY <2>1, <3>1 DEF Doing
  <2> QED
    BY <2>2
<1> QED
  BY <1>1, <1>2, <1>3, GoesOn DEF GoOn

\* A command returns, with what it knows of the schedule it was to change.
LEMMA Returns ==
    ASSUME TypeInv, Succeed \/ GiveUp
    PROVE  /\ CallOK' /\ Resting' /\ call'.cmd = "none" /\ ~Ready'
           /\ told' \in [Label -> Schedule \cup {Unknown}]
           /\ \A l \in Label : l # call.label => told'[l] = told[l]
           /\ call.cmd \notin {"set", "clear", "remove"} => told' = told
           /\ call.cmd \in {"set", "clear", "remove"} =>
                (told'[call.label] = Unknown \/ (Succeed /\ told'[call.label] = call.sched))
<1>1. call' = Idle /\ call.label \in Label /\ call.sched \in Schedule /\ told \in [Label -> Schedule \cup {Unknown}]
  BY DEF Succeed, GiveUp, TypeInv, CallOK, Call, Shapes
<1>2. CallOK' /\ Resting' /\ call'.cmd = "none" /\ ~Ready'
  BY <1>1, Ends
<1>3. CASE call.cmd \notin {"set", "clear", "remove"}
  <2>1. told' = told
    BY <1>3 DEF Succeed, GiveUp
  <2> QED
    BY <1>1, <1>2, <1>3, <2>1
<1>4. CASE call.cmd \in {"set", "clear", "remove"}
  <2>1. CASE Succeed
    <3>1. told' = [told EXCEPT ![call.label] = call.sched]
      BY <1>4, <2>1 DEF Succeed
    <3> QED
      BY <1>1, <1>2, <1>4, <2>1, <3>1
  <2>2. CASE GiveUp
    <3>1. told' = [told EXCEPT ![call.label] = Unknown]
      BY <1>4, <2>2 DEF GiveUp
    <3>2. told' \in [Label -> Schedule \cup {Unknown}] /\ told'[call.label] = Unknown
      BY <1>1, <3>1
    <3>3. \A l \in Label : l # call.label => told'[l] = told[l]
      BY <1>1, <3>1
    <3> QED
      BY <1>2, <1>4, <3>2, <3>3
  <2> QED
    BY <2>1, <2>2
<1> QED
  BY <1>3, <1>4

LEMMA SameSystem ==
    ASSUME platform' = platform
    PROVE  /\ TimerFile' = TimerFile /\ Job' = Job
           /\ \A s : Build(s)' = Build(s) /\ Parse(s)' = Parse(s) /\ Fires(s)' = Fires(s)
BY DEF TimerFile, Job, Build, Parse, Fires

\* What a reload gives is a job again.
LEMMA ReloadedType ==
    ASSUME Shapes, NEW l \in Label
    PROVE  Reloaded(l) \in {Off} \cup Job
<1>1. job[l] \in {Off} \cup Job /\ timer[l] \in [Stem -> TimerFile]
  BY DEF Shapes
<1>2. CASE job[l] = Off \/ timer[l][job[l].stem] = Missing
  BY <1>2 DEF Reloaded
<1>3. CASE ~(job[l] = Off \/ timer[l][job[l].stem] = Missing)
  <2>1. job[l] \in Job /\ timer[l][job[l].stem] \in TimerFile
    BY <1>1, <1>3 DEF Job
  <2> QED
    BY <1>3, <2>1 DEF Reloaded, Job
<1> QED
  BY <1>2, <1>3

\* A removal that is cut short removes files of its label only.
LEMMA FilesDropped ==
    ASSUME Shapes, call.label \in Label, PartlyDropped
    PROVE  /\ timer' \in [Label -> [Stem -> TimerFile]] /\ wrapper' \in [Label -> [Stem -> WrapperFile]]
           /\ \A l \in Label \ {call.label} : timer'[l] = timer[l] /\ wrapper'[l] = wrapper[l]
           /\ \A l \in Label, st \in Stem : wrapper'[l][st] \in {Missing, wrapper[l][st]}
<1>1. PICK k \in Label : k = call.label
  OBVIOUS
<1>2. timer \in [Label -> [Stem -> TimerFile]] /\ wrapper \in [Label -> [Stem -> WrapperFile]]
  BY DEF Shapes
<1>3. PICK timers \in SUBSET Stem, wrappers \in SUBSET Stem :
        /\ timer' = [timer EXCEPT ![k] = [st \in Stem |-> IF st \in timers THEN Missing ELSE timer[k][st]]]
        /\ wrapper' = [wrapper EXCEPT ![k] =
                        [st \in Stem |-> IF st \in wrappers THEN Missing ELSE wrapper[k][st]]]
  <2>1. PICK timers \in SUBSET Stem, wrappers \in SUBSET Stem :
          /\ timer' = [timer EXCEPT ![call.label] =
                         [st \in Stem |-> IF st \in timers THEN Missing ELSE timer[call.label][st]]]
          /\ wrapper' = [wrapper EXCEPT ![call.label] =
                           [st \in Stem |-> IF st \in wrappers THEN Missing ELSE wrapper[call.label][st]]]
    BY Zenon DEF PartlyDropped
  <2> QED
    BY <1>1, <2>1
<1>4. Missing \in TimerFile /\ Missing \in WrapperFile
  BY DEF TimerFile, FileOn, WrapperFile
<1>5. timer' \in [Label -> [Stem -> TimerFile]] /\ wrapper' \in [Label -> [Stem -> WrapperFile]]
  <2>1. /\ [st \in Stem |-> IF st \in timers THEN Missing ELSE timer[k][st]] \in [Stem -> TimerFile]
        /\ [st \in Stem |-> IF st \in wrappers THEN Missing ELSE wrapper[k][st]] \in [Stem -> WrapperFile]
    BY <1>2, <1>4
  <2> QED
    BY <1>2, <1>3, <2>1
<1>6. \A l \in Label \ {k} : timer'[l] = timer[l] /\ wrapper'[l] = wrapper[l]
  BY <1>2, <1>3
<1>7. \A st \in Stem : wrapper'[k][st] \in {Missing, wrapper[k][st]}
  BY <1>2, <1>3
<1> QED
  BY <1>1, <1>6, <1>5, <1>7

LEMMA TypeInit == Init => TypeInv
<1> SUFFICES ASSUME Init PROVE TypeInv
  OBVIOUS
<1>1. CallOK
  <2>1. call = Idle
    BY DEF Init
  <2> QED
    BY <2>1, IdleType DEF CallOK, Resting
<1>2. CASE Fresh
  <2>1. None \in [Stem -> TimerFile] /\ None \in [Stem -> WrapperFile]
    BY DEF None, TimerFile, FileOn, WrapperFile
  <2>2. timer \in [Label -> [Stem -> TimerFile]] /\ wrapper \in [Label -> [Stem -> WrapperFile]]
    BY <1>2, <2>1 DEF Fresh
  <2> QED
    BY <1>1, <1>2, <2>2, ScheduleAssumption DEF Init, Fresh, TypeInv, Shapes, Backend
<1>3. CASE Upgraded
  <2>1. PICK b \in Bin, s \in Asked :
          /\ Valid(s)
          /\ config = [bin |-> b, src |-> [p \in Path |-> s], hk |-> s]
          /\ timer = [l \in Label |-> [None EXCEPT !["bare"] = Build(s)]]
          /\ wrapper = [l \in Label |-> [None EXCEPT !["bare"] = [bin |-> b, then |-> "none"]]]
          /\ job = [l \in Label |-> OldJob(s)]
          /\ setup = [c \in Bin |-> "local"]
          /\ stale = Label
    BY <1>3 DEF Upgraded
  <2>2. s \in Schedule \ {Off} /\ Build(s) \in TimerFile
    BY <2>1, ScheduleForm, BuildType
  <2>3. config \in Config
    BY <2>1, <2>2 DEF Config, Sources
  <2>4. timer \in [Label -> [Stem -> TimerFile]]
    BY <2>1, <2>2 DEF None, TimerFile, FileOn
  <2>5. wrapper \in [Label -> [Stem -> WrapperFile]]
    BY <2>1 DEF None, WrapperFile, Scripts
  <2>6. job \in [Label -> {Off} \cup Job]
    BY <2>1, <2>2, StemType DEF OldJob, Job
  <2>7. setup \in [Bin -> Backend] /\ stale \subseteq Label
    BY <2>1 DEF Backend
  <2> QED
    BY <1>1, <2>3, <2>4, <2>5, <2>6, <2>7, ScheduleAssumption DEF Init, TypeInv, Shapes
<1> QED
  BY <1>2, <1>3 DEF Init

\* One of two files of a label is changed.
LEMMA OneChanged ==
    ASSUME NEW S, NEW f \in [Label -> [Stem -> S]], NEW l \in Label, NEW st \in Stem, NEW x \in S
    PROVE  /\ [f EXCEPT ![l][st] = x] \in [Label -> [Stem -> S]]
           /\ \A m \in Label, t \in Stem :
                [f EXCEPT ![l][st] = x][m][t] = IF m = l /\ t = st THEN x ELSE f[m][t]
<1>1. f[l] \in [Stem -> S] /\ [f[l] EXCEPT ![st] = x] \in [Stem -> S]
  OBVIOUS
<1>2. [f EXCEPT ![l][st] = x] = [f EXCEPT ![l] = [f[l] EXCEPT ![st] = x]]
  OBVIOUS
<1>3. [f EXCEPT ![l] = [f[l] EXCEPT ![st] = x]] \in [Label -> [Stem -> S]]
  BY <1>1
<1>4. ASSUME NEW m \in Label, NEW t \in Stem
      PROVE  [f EXCEPT ![l] = [f[l] EXCEPT ![st] = x]][m][t] = IF m = l /\ t = st THEN x ELSE f[m][t]
  BY <1>1
<1> QED
  BY <1>2, <1>3, <1>4

\* What becomes of config.json where it is written.
LEMMA WrittenType ==
    ASSUME TypeInv, NEW new \in Config,
           Written(new) \/ (Fails("config") /\ Spoilt)
    PROVE  config' \in {NoConfig} \cup Config /\ left' \in 0..MaxCalls
BY ScheduleAssumption DEF Written, Fails, Spoilt, TypeInv, Shapes

LEMMA NextType == TypeInv /\ [Next]_vars => TypeInv'
<1> SUFFICES ASSUME TypeInv, [Next]_vars PROVE TypeInv'
  OBVIOUS
<1> USE DEF TypeInv
<1>0. /\ platform' = platform => TimerFile' = TimerFile /\ Job' = Job
      /\ call \in Call /\ call.label \in Label /\ call.sched \in Schedule /\ call.mem \in Sources
      /\ call.script \in WrapperFile
      /\ left - 1 \in 0..MaxCalls \/ ~(left > 0)
  BY SameSystem, ScheduleAssumption DEF CallOK, Call, Shapes
<1>1. CASE StartSet
  <2>1. PICK l \in Label, s \in Asked : Valid(s) /\ Start("set", l, s, app)
    BY <1>1 DEF StartSet
  <2>2. s \in Schedule \ {Off}
    BY <2>1, ScheduleForm
  <2>3. CallOK' /\ UNCHANGED <<platform, config, timer, wrapper, job, setup, app, told, stale>>
    BY <2>1, <2>2, Starts DEF Command
  <2> QED
    BY <1>0, <1>1, <2>3 DEF StartSet, Shapes
<1>2. CASE Refuse \/ vars' = vars
  <2>1. UNCHANGED <<platform, config, timer, wrapper, job, setup, app, call, told, stale, left>>
    BY <1>2 DEF Refuse, vars, files
  <2>2. Ahead(call.cmd)' = Ahead(call.cmd)
    BY <2>1 DEF Ahead, SetAhead, ClearAhead, RemoveAhead
  <2> QED
    BY <1>0, <2>1, <2>2 DEF Shapes, CallOK, Resting
<1>3. CASE StartOther
  <2>1. CallOK' /\ UNCHANGED <<platform, config, timer, wrapper, job, setup, app, told, stale>>
    <3>1. CASE \E l \in Label : Start("clear", l, Off, app)
      BY <3>1, Starts, ScheduleForm DEF Command
    <3>2. CASE \E p \in Path : Start("add", p, Off, app) \/ Start("remove", p, Off, app)
      BY <3>2, Starts, ScheduleForm DEF Command, Label
    <3>3. CASE \E b \in Bin : Start("use", House, Off, b)
      BY <3>3, Starts, ScheduleForm DEF Command, Label
    <3> QED
      BY <1>3, <3>1, <3>2, <3>3 DEF StartOther
  <2> QED
    BY <1>0, <1>3, <2>1 DEF StartOther, Shapes
<1>4. CASE StartList
  <2>1. CallOK' /\ UNCHANGED <<platform, config, timer, wrapper, job, setup, app, told, stale, left>>
    BY <1>4, Starts, ScheduleForm DEF StartList, Command, Label
  <2> QED
    BY <1>0, <2>1 DEF Shapes
<1>5. CASE DropOld
  <2>1. CallOK' /\ told' = told
    BY <1>5, GoesOnPlain DEF DropOld
  <2>2. timer' \in [Label -> [Stem -> TimerFile]] /\ wrapper' \in [Label -> [Stem -> WrapperFile]]
    <3>1. Missing \in TimerFile /\ Missing \in WrapperFile /\ "bare" \in Stem
      BY DEF TimerFile, FileOn, WrapperFile, Stem
    <3>2. timer \in [Label -> [Stem -> TimerFile]] /\ wrapper \in [Label -> [Stem -> WrapperFile]]
      BY DEF Shapes
    <3>3. [timer EXCEPT ![call.label]["bare"] = Missing] \in [Label -> [Stem -> TimerFile]]
      BY <1>0, <3>1, <3>2, OneChanged
    <3>4. [wrapper EXCEPT ![call.label]["bare"] = Missing] \in [Label -> [Stem -> WrapperFile]]
      BY <1>0, <3>1, <3>2, OneChanged
    <3> QED
      BY <1>5, <3>2, <3>3, <3>4 DEF DropOld, files
  <2> QED
    BY <1>0, <1>5, <2>1, <2>2 DEF DropOld, Shapes
<1>6. CASE WriteWrapper
  <2>1. /\ CallOK' /\ told' \in [Label -> Schedule \cup {Unknown}]
        /\ left' \in 0..MaxCalls
    BY <1>0, <1>6, GoesOnPlain, Returns DEF WriteWrapper, Fails, Shapes
  <2>2. wrapper' \in [Label -> [Stem -> WrapperFile]]
    <3>1. Half \in WrapperFile /\ StemOf(call.label) \in Stem
      BY StemType DEF WrapperFile
    <3>2. wrapper \in [Label -> [Stem -> WrapperFile]]
      BY DEF Shapes
    <3>3. \A x \in WrapperFile :
            [wrapper EXCEPT ![call.label][StemOf(call.label)] = x] \in [Label -> [Stem -> WrapperFile]]
      BY <1>0, <3>1, <3>2, OneChanged
    <3>4. \/ wrapper' = [wrapper EXCEPT ![call.label][StemOf(call.label)] = call.script]
          \/ wrapper' = wrapper
          \/ wrapper' = [wrapper EXCEPT ![call.label][StemOf(call.label)] = Half]
      BY <1>6 DEF WriteWrapper
    <3> QED
      BY <1>0, <3>1, <3>2, <3>3, <3>4
  <2>3. stale' \subseteq Label
    BY <1>0, <1>6 DEF WriteWrapper, Shapes
  <2> QED
    BY <1>0, <1>6, <2>1, <2>2, <2>3 DEF WriteWrapper, Shapes
<1>7. CASE WriteTimer
  <2>1. /\ CallOK' /\ told' \in [Label -> Schedule \cup {Unknown}]
        /\ left' \in 0..MaxCalls
    BY <1>0, <1>7, GoesOnPlain, Returns DEF WriteTimer, Fails, Shapes
  <2>2. call.sched \in Schedule \ {Off}
    BY <1>0, <1>7, StepOf DEF WriteTimer, CallOK
  <2>3. Build(call.sched) \in TimerFile /\ Empty \in TimerFile
    BY <2>2, BuildType DEF TimerFile, FileOn
  <2>4. timer' \in [Label -> [Stem -> TimerFile]]
    <3>1. StemOf(call.label) \in Stem
      BY StemType
    <3>2. timer \in [Label -> [Stem -> TimerFile]]
      BY DEF Shapes
    <3>3. \A x \in TimerFile :
            [timer EXCEPT ![call.label][StemOf(call.label)] = x] \in [Label -> [Stem -> TimerFile]]
      BY <1>0, <3>1, <3>2, OneChanged
    <3> QED
      BY <1>7, <2>3, <3>2, <3>3 DEF WriteTimer
  <2> QED
    BY <1>0, <1>7, <2>1, <2>4 DEF WriteTimer, Shapes
<1>8. CASE Unload
  <2>1. CallOK' /\ told' = told /\ left' \in 0..MaxCalls
    BY <1>0, <1>8, GoesOnPlain DEF Unload, Fails, Shapes
  <2> QED
    BY <1>0, <1>8, <2>1 DEF Unload, files, Shapes
<1>9. CASE Reload
  <2>1. /\ CallOK' /\ told' \in [Label -> Schedule \cup {Unknown}]
        /\ left' \in 0..MaxCalls
    BY <1>0, <1>9, GoesOnPlain, Returns DEF Reload, Fails, Shapes
  <2>2. job' \in [Label -> {Off} \cup Job]
    BY <1>9, ReloadedType DEF Reload, Shapes
  <2> QED
    BY <1>0, <1>9, <2>1, <2>2 DEF Reload, files, Shapes
<1>10. CASE Load
  <2>1. /\ CallOK' /\ told' \in [Label -> Schedule \cup {Unknown}]
        /\ left' \in 0..MaxCalls
    BY <1>0, <1>10, GoesOnPlain, Returns DEF Load, Fails, Shapes
  <2>2. [file |-> timer[call.label][StemOf(call.label)], stem |-> StemOf(call.label)] \in Job
    BY <1>0, StemType DEF Shapes, Job
  <2>3. job' \in [Label -> {Off} \cup Job]
    BY <1>10, <2>2 DEF Load, Shapes
  <2> QED
    BY <1>0, <1>10, <2>1, <2>3 DEF Load, files, Shapes
<1>11. CASE DropAll
  <2>1. CallOK' /\ told' = told
    BY <1>11, GoesOnPlain DEF DropAll
  <2>2. timer' \in [Label -> [Stem -> TimerFile]] /\ wrapper' \in [Label -> [Stem -> WrapperFile]]
    BY <1>0, <1>11 DEF DropAll, Shapes, TimerFile, FileOn, WrapperFile
  <2> QED
    BY <1>0, <1>11, <2>1, <2>2 DEF DropAll, Shapes

<1>12. CASE SetMirror
  <2>1. CASE config' = config /\ left' = left /\ GiveUp
    BY <1>0, <1>12, <2>1, Returns DEF SetMirror, files, Shapes
  <2>2. CASE /\ call.label \in Tracked \/ (call.label = House /\ config # NoConfig)
             /\ \/ Written(WithMirror(call.label, call.sched)) /\ Succeed
                \/ Fails("config") /\ Spoilt /\ GiveUp
    <3>1. config \in Config
      BY <2>2 DEF Tracked, Shapes
    <3>2. WithMirror(call.label, call.sched) \in Config
      BY <1>0, <3>1 DEF WithMirror, Config, Sources, Label
    <3>3. config' \in {NoConfig} \cup Config /\ left' \in 0..MaxCalls
      BY <2>2, <3>2, WrittenType
    <3> QED
      BY <1>0, <1>12, <2>2, <3>3, Returns DEF SetMirror, files, Shapes
  <2> QED
    BY <1>12, <2>1, <2>2 DEF SetMirror
<1>13. CASE Heal
  <2>1. Healed \in Sources
    BY HealedType
  <2>2. CallOK'
    <3>1. CASE call.cmd = "list"
      BY <1>13, <3>1, Ends DEF Heal
    <3>2. CASE call.cmd # "list"
      BY <1>13, <2>1, <3>2, GoesOn DEF Heal
    <3> QED
      BY <3>1, <3>2
  <2>3. config' \in {NoConfig} \cup Config /\ left' \in 0..MaxCalls
    <3>1. CASE config' = config /\ left' = left
      BY <3>1 DEF Shapes
    <3>2. CASE config # NoConfig /\ (Written([config EXCEPT !.src = Healed]) \/ (Fails("config") /\ Spoilt))
      <4>1. config \in Config /\ [config EXCEPT !.src = Healed] \in Config
        BY <2>1, <3>2 DEF Shapes, Config
      <4> QED
        BY <3>2, <4>1, WrittenType
    <3> QED
      BY <1>13, <3>1, <3>2 DEF Heal
  <2> QED
    BY <1>0, <1>13, <2>2, <2>3 DEF Heal, files, Shapes
<1>14. ASSUME NEW src \in Sources, SaveSources(src),
              UNCHANGED <<platform, files, job, setup, app, stale>>
       PROVE  TypeInv'
  <2>1. CASE config = NoConfig
    BY <1>0, <1>14, <2>1, Returns DEF SaveSources, files, Shapes
  <2>2. CASE config # NoConfig
    <3>1. config \in Config /\ [config EXCEPT !.src = src] \in Config
      BY <1>14, <2>2 DEF Shapes, Config
    <3>2. config' \in {NoConfig} \cup Config /\ left' \in 0..MaxCalls
      BY <1>14, <2>2, <3>1, WrittenType DEF SaveSources
    <3> QED
      BY <1>0, <1>14, <2>2, <3>2, Returns DEF SaveSources, files, Shapes
  <2> QED
    BY <2>1, <2>2
<1>15. CASE Track \/ Untrack
  <2>1. CASE config' = config /\ left' = left /\ GiveUp
    BY <1>0, <1>15, <2>1, Returns DEF Track, Untrack, files, Shapes
  <2>2. [call.mem EXCEPT ![call.label] = Off] \in Sources /\ [call.mem EXCEPT ![call.label] = Untracked] \in Sources
    BY <1>0, ScheduleForm DEF Sources
  <2> QED
    BY <1>14, <1>15, <2>1, <2>2 DEF Track, Untrack
<1>16. CASE Save
  <2>1. call.bin \in Bin
    BY <1>16, StepOf DEF Save, CallOK
  <2>2. WithBin(call.bin) \in Config
    BY <2>1, ScheduleForm DEF WithBin, Config, Sources, Shapes
  <2>3. config' \in {NoConfig} \cup Config /\ left' \in 0..MaxCalls
    BY <1>16, <2>2, WrittenType DEF Save
  <2>4. CallOK' /\ told' \in [Label -> Schedule \cup {Unknown}]
    BY <1>16, Returns DEF Save
  <2> QED
    BY <1>0, <1>16, <2>1, <2>3, <2>4 DEF Save, files, Shapes
<1>17. CASE Launch
  <2>1. PICK failed \in SUBSET Kept :
          /\ wrapper' = [l \in Label |-> IF l \in Kept \ failed THEN Reconciled(l) ELSE wrapper[l]]
          /\ stale' = stale \ (Kept \ failed)
    BY <1>17 DEF Launch
  <2>2. ASSUME NEW l \in Kept
        PROVE  Reconciled(l) \in [Stem -> WrapperFile]
    <3>1. l \in Label /\ config \in Config
      BY <2>2, MirrorNone DEF Kept, Shapes
    <3>2. Wrapper(l, config.bin) \in WrapperFile
      BY <3>1, WrapperType DEF Config, Shapes
    <3>3. wrapper[l] \in [Stem -> WrapperFile]
      BY <3>1 DEF Shapes
    <3> QED
      BY <3>2, <3>3 DEF Reconciled
  <2>3. wrapper' \in [Label -> [Stem -> WrapperFile]]
    BY <2>1, <2>2 DEF Shapes
  <2>4. app' \in Bin \cup {Closed, Setup}
    BY <1>17 DEF Launch, Shapes, Config
  <2>5. Resting
    BY <1>17, MarkersAssumption DEF Launch, CallOK, Shapes
  <2>6. CallOK'
    BY <1>17, <2>5 DEF Launch, CallOK, Resting
  <2> QED
    BY <1>0, <1>17, <2>1, <2>3, <2>4, <2>6 DEF Launch, Shapes
<1>18. CASE Quit
  <2>1. CallOK'
    BY <1>18 DEF Quit, CallOK, Resting
  <2>2. left' \in 0..MaxCalls
    BY <1>0, <1>18 DEF Quit, Shapes
  <2> QED
    BY <1>0, <1>18, <2>1, <2>2 DEF Quit, files, Shapes
<1>19. CASE Kill
  <2>1. CallOK' /\ told' \in [Label -> Schedule \cup {Unknown}]
    BY <1>19, Returns DEF Kill
  <2>2. StemOf(call.label) \in Stem /\ Half \in WrapperFile /\ Empty \in TimerFile
    BY StemType DEF WrapperFile, TimerFile, FileOn
  <2>3. timer \in [Label -> [Stem -> TimerFile]] /\ wrapper \in [Label -> [Stem -> WrapperFile]]
    BY DEF Shapes
  <2>4. [timer EXCEPT ![call.label][StemOf(call.label)] = Empty] \in [Label -> [Stem -> TimerFile]]
    BY <1>0, <2>2, <2>3, OneChanged
  <2>5. [wrapper EXCEPT ![call.label][StemOf(call.label)] = Half] \in [Label -> [Stem -> WrapperFile]]
    BY <1>0, <2>2, <2>3, OneChanged
  <2>6. timer' \in [Label -> [Stem -> TimerFile]] /\ wrapper' \in [Label -> [Stem -> WrapperFile]]
    BY <1>0, <1>19, <2>3, <2>4, <2>5, FilesDropped DEF Kill, files
  <2>7. config' \in {NoConfig} \cup Config /\ stale' \subseteq Label /\ left' \in 0..MaxCalls
    BY <1>0, <1>19 DEF Kill, Shapes
  <2> QED
    BY <1>0, <1>19, <2>1, <2>6, <2>7 DEF Kill, Shapes
<1>20. CASE Configure
  <2>1. setup' \in [Bin -> Backend] /\ stale' \subseteq Label
    BY <1>20 DEF Configure, Shapes, Label
  <2>2. Ahead(call.cmd)' = Ahead(call.cmd)
    BY <1>20 DEF Configure, Ahead, SetAhead, ClearAhead, RemoveAhead
  <2> QED
    BY <1>0, <1>20, <2>1, <2>2 DEF Configure, files, Shapes, CallOK, Resting
<1>21. CASE Outside
  <2>1. PICK l \in Label :
          /\ job' = [job EXCEPT ![l] = Off]
          /\ timer' = [timer EXCEPT ![l] = [st \in Stem |-> Missing]]
          /\ told' = [told EXCEPT ![l] = Unknown]
    BY <1>21 DEF Outside
  <2>2. timer' \in [Label -> [Stem -> TimerFile]]
    BY <2>1 DEF Shapes, TimerFile, FileOn
  <2>3. CallOK'
    BY <1>21 DEF Outside, CallOK, Resting
  <2> QED
    BY <1>0, <1>21, <2>1, <2>2, <2>3 DEF Outside, Shapes
<1> QED
  BY <1>1, <1>2, <1>3, <1>4, <1>5, <1>6, <1>7, <1>8, <1>9, <1>10, <1>11, <1>12, <1>13,
     <1>15, <1>16, <1>17, <1>18, <1>19, <1>20, <1>21 DEF Next, Step

LEMMA TypeInvariance == Spec => []TypeInv
BY TypeInit, NextType, PTL DEF Spec

\* Every variable keeps its shape, and a running command has a step ahead of it.
THEOREM TypeCorrect == Spec => []TypeOK
<1>1. TypeInv => TypeOK
  <2> SUFFICES ASSUME TypeInv PROVE TypeOK
    OBVIOUS
  <2>1. call.todo = <<>> <=> Resting
    BY RunningReady DEF TypeInv, Ready
  <2>2. \A s \in Schedule \ {Off} : FileOf(platform, s) = Build(s)
    BY DEF FileOf, Build
  <2>3. TimerFile = {Missing, Empty} \cup {Build(s) : s \in Schedule \ {Off}}
    BY <2>2 DEF TimerFile, FileOn
  <2>4. \A l \in Label : job[l] # Off => job[l].stem \in Stem
    BY DEF TypeInv, Shapes, Job
  <2> QED
    BY <2>1, <2>3, <2>4 DEF TypeInv, Shapes, TypeOK, Config, Sources, WrapperFile, Scripts, CallOK, Call
<1> QED
  BY TypeInvariance, <1>1, PTL

--------------------------------------------------------------------------------
(* What the user was told. *)

\* Whatever does not touch the files and the job of a label leaves it as it was.
LEMMA Untouched ==
    ASSUME platform' = platform, NEW l,
           timer'[l] = timer[l], wrapper'[l] = wrapper[l], job'[l] = job[l]
    PROVE  Cleared(l)' = Cleared(l) /\ \A s : Set(l, s)' = Set(l, s)
BY SameSystem DEF Cleared, Set

\* A step that changes files and jobs of its own label alone.
LEMMA OthersKept ==
    ASSUME ToldTrue, platform' = platform, NEW k \in Label,
           \A l \in Label \ {k} :
              /\ timer'[l] = timer[l] /\ wrapper'[l] = wrapper[l] /\ job'[l] = job[l]
              /\ told'[l] = told[l] /\ ~Changing(l),
           told'[k] # Unknown /\ ~Changing(k)' => Fulfilled(k)'
    PROVE  ToldTrue'
<1> SUFFICES ASSUME NEW l \in Label, l # k, told'[l] # Unknown
             PROVE  Fulfilled(l)'
  BY DEF ToldTrue
<1>1. Fulfilled(l) /\ told'[l] = told[l]
  BY DEF ToldTrue
<1>2. /\ timer'[l] = timer[l] /\ wrapper'[l] = wrapper[l] /\ job'[l] = job[l]
      /\ told'[l] = told[l]
  OBVIOUS
<1> QED
  BY <1>1, <1>2 DEF Fulfilled, Cleared, Set, Build

\* A command that is given up tells nothing of its label.
LEMMA GivenUp ==
    ASSUME TypeInv, GiveUp
    PROVE  /\ call'.cmd = "none"
           /\ \A l \in Label : l # call.label => told'[l] = told[l]
           /\ call.cmd \in {"set", "clear", "remove"} => told'[call.label] = Unknown
           /\ call.cmd \notin {"set", "clear", "remove"} => told' = told
<1>1. call.label \in Label /\ told \in [Label -> Schedule \cup {Unknown}]
  BY DEF TypeInv, CallOK, Call, Shapes
<1> QED
  BY <1>1, Returns DEF GiveUp, TypeInv

\* The script that a command is to write is there.
LEMMA CallScript ==
    ASSUME CallOK
    PROVE  call.script \in WrapperFile /\ (call.cmd = "set" => call.script # Missing)
BY DEF CallOK, Call

\* A step that touches no file and no job.
LEMMA NothingTouched ==
    ASSUME ToldTrue, UNCHANGED <<platform, timer, wrapper, job, told>>,
           \A l \in Label : Changing(l) => Changing(l)'
    PROVE  ToldTrue'
BY DEF ToldTrue, Fulfilled, Cleared, Set, Build

\* A command that changes no schedule is none of a label's own.
LEMMA OthersChange ==
    ASSUME NEW l, l # call.label \/ call.cmd \notin {"set", "clear", "remove"}
    PROVE  ~Changing(l)
BY DEF Changing

LEMMA ToldInit == Init => ToldTrue /\ HalfDone
BY DEF Init, Idle, ToldTrue, HalfDone

LEMMA ToldNext == TypeInv /\ ToldTrue /\ HalfDone /\ [Next]_vars => ToldTrue' /\ HalfDone'
<1> SUFFICES ASSUME TypeInv, ToldTrue, HalfDone, [Next]_vars PROVE ToldTrue' /\ HalfDone'
  OBVIOUS
<1> DEFINE k == call.label
<1>0. /\ k \in Label /\ StemOf(k) \in Stem /\ "bare" \in Stem
      /\ CallOK /\ Shapes
      /\ timer \in [Label -> [Stem -> TimerFile]] /\ wrapper \in [Label -> [Stem -> WrapperFile]]
      /\ job \in [Label -> {Off} \cup Job] /\ told \in [Label -> Schedule \cup {Unknown}]
  BY StemType DEF TypeInv, CallOK, Call, Shapes
<1>1. CASE StartSet \/ StartOther \/ StartList
  <2>1. /\ Resting /\ UNCHANGED <<platform, timer, wrapper, job, told>>
        /\ call'.cmd = "set" => Head(call'.todo) = "drop_old"
        /\ call'.cmd # "set" => Head(call'.todo) \in {"unload", "heal", "save"}
    <3>1. CASE StartSet
      <4>1. PICK l \in Label, s \in Asked : Valid(s) /\ Start("set", l, s, app)
        BY <3>1 DEF StartSet
      <4>2. s \in Schedule \ {Off}
        BY <4>1, ScheduleForm
      <4> QED
        BY <1>0, <4>1, <4>2, Starts DEF Command
    <3>2. CASE \E l \in Label : Start("clear", l, Off, app)
      BY <1>0, <3>2, Starts, ScheduleForm DEF Command
    <3>3. CASE \E p \in Path : Start("add", p, Off, app) \/ Start("remove", p, Off, app)
      BY <1>0, <3>3, Starts, ScheduleForm DEF Command, Label
    <3>4. CASE \E b \in Bin : Start("use", House, Off, b)
      BY <1>0, <3>4, Starts, ScheduleForm DEF Command, Label
    <3>5. CASE StartList
      BY <1>0, <3>5, Starts, ScheduleForm DEF StartList, Command, Label
    <3> QED
      BY <1>1, <3>1, <3>2, <3>3, <3>4, <3>5 DEF StartOther
  <2>2. ToldTrue'
    <3>1. \A l \in Label : ~Changing(l)
      BY <2>1 DEF Resting, Changing
    <3> QED
      BY <2>1, <3>1, NothingTouched
  <2>3. HalfDone'
    BY <2>1 DEF HalfDone
  <2> QED
    BY <2>2, <2>3
<1>2. CASE Refuse \/ vars' = vars
  <2>1. UNCHANGED <<platform, timer, wrapper, job, call, told>>
    BY <1>2 DEF Refuse, vars, files
  <2>2. ToldTrue'
    <3>1. \A l \in Label : Changing(l) => Changing(l)'
      BY <2>1 DEF Changing
    <3> QED
      BY <2>1, <3>1, NothingTouched
  <2>3. HalfDone'
    BY <2>1 DEF HalfDone, Set, Cleared, Build
  <2> QED
    BY <2>2, <2>3
<1>3. CASE DropOld
  <2>1. /\ Changing(k)' /\ Head(call'.todo) = "wrapper" /\ call'.label = k /\ call'.cmd = "set"
        /\ told' = told /\ platform' = platform /\ job' = job
    BY <1>0, <1>3, GoesOnPlain, StepOf DEF DropOld, Changing
  <2>2. \A l \in Label \ {k} : timer'[l] = timer[l] /\ wrapper'[l] = wrapper[l]
    BY <1>0, <1>3 DEF DropOld, files
  <2>3. ToldTrue'
    BY <1>0, <2>1, <2>2, OthersKept, OthersChange
  <2>4. HalfDone'
    BY <2>1 DEF HalfDone
  <2> QED
    BY <2>3, <2>4
<1>4. CASE WriteWrapper
  <2>1. call.cmd = "set" /\ platform' = platform /\ job' = job /\ timer' = timer
    BY <1>0, <1>4, StepOf DEF WriteWrapper
  <2>2. \A l \in Label \ {k} : wrapper'[l] = wrapper[l]
    BY <1>0, <1>4 DEF WriteWrapper
  <2>3. CASE /\ wrapper' = [wrapper EXCEPT ![k][StemOf(k)] = call.script]
             /\ GoOn /\ UNCHANGED app
    <3>1. /\ Changing(k)' /\ Head(call'.todo) = "timer" /\ told' = told /\ call'.label = k
          /\ call'.cmd = "set"
      BY <1>0, <1>4, <2>1, <2>3, GoesOnPlain DEF WriteWrapper, Changing
    <3>2. wrapper'[k][StemOf(k)] = call.script /\ call.script # Missing
      BY <1>0, <2>1, <2>3, CallScript, OneChanged
    <3>3. ToldTrue'
      BY <1>0, <2>1, <2>2, <3>1, OthersKept, OthersChange
    <3>4. HalfDone'
      BY <3>1, <3>2 DEF HalfDone
    <3> QED
      BY <3>3, <3>4
  <2>4. CASE GiveUp
    <3>1. told'[k] = Unknown /\ call'.cmd = "none" /\ \A l \in Label \ {k} : told'[l] = told[l]
      BY <1>0, <2>1, <2>4, GivenUp
    <3>2. ToldTrue'
      BY <1>0, <2>1, <2>2, <3>1, OthersKept, OthersChange
    <3> QED
      BY <3>1, <3>2 DEF HalfDone
  <2> QED
    BY <1>4, <2>3, <2>4 DEF WriteWrapper
<1>5. CASE WriteTimer
  <2>1. call.cmd = "set" /\ platform' = platform /\ job' = job /\ wrapper' = wrapper
    BY <1>0, <1>5, StepOf DEF WriteTimer
  <2>2. \A l \in Label \ {k} : timer'[l] = timer[l]
    BY <1>0, <1>5 DEF WriteTimer
  <2>3. CASE /\ timer' = [timer EXCEPT ![k][StemOf(k)] = Build(call.sched)]
             /\ GoOn /\ UNCHANGED app
    <3>1. /\ Changing(k)' /\ Head(call'.todo) \in {"unload", "reload"} /\ told' = told
          /\ call'.label = k /\ call'.sched = call.sched /\ call'.cmd = "set"
      BY <1>0, <1>5, <2>1, <2>3, GoesOnPlain DEF WriteTimer, Changing
    <3>2. timer'[k][StemOf(k)] = Build(call.sched)
      <4>1. call.sched \in Schedule \ {Off}
        BY <1>0, <2>1 DEF CallOK, Call
      <4> QED
        BY <1>0, <2>3, <4>1, BuildType, OneChanged
    <3>3. Build(call.sched)' = Build(call.sched)
      BY <2>1, <3>1 DEF Build
    <3>4. wrapper[k][StemOf(k)] # Missing
      BY <1>5, <2>1 DEF WriteTimer, Doing, HalfDone
    <3>5. ToldTrue'
      BY <1>0, <2>1, <2>2, <3>1, OthersKept, OthersChange
    <3>6. HalfDone'
      BY <2>1, <3>1, <3>2, <3>3, <3>4 DEF HalfDone
    <3> QED
      BY <3>5, <3>6
  <2>4. CASE GiveUp
    <3>1. told'[k] = Unknown /\ call'.cmd = "none" /\ \A l \in Label \ {k} : told'[l] = told[l]
      BY <1>0, <2>1, <2>4, GivenUp
    <3>2. ToldTrue'
      BY <1>0, <2>1, <2>2, <3>1, OthersKept, OthersChange
    <3> QED
      BY <3>1, <3>2 DEF HalfDone
  <2> QED
    BY <1>5, <2>3, <2>4 DEF WriteTimer
<1>6. CASE Unload
  <2>1. /\ call.cmd \in {"set", "clear", "remove"} /\ UNCHANGED <<platform, timer, wrapper>>
        /\ \A l \in Label \ {k} : job'[l] = job[l]
    BY <1>0, <1>6, StepOf DEF Unload, files
  <2>2. /\ Changing(k)' /\ told' = told /\ call'.label = k /\ call'.sched = call.sched
        /\ call'.cmd = call.cmd
        /\ call.cmd = "set" => Head(call'.todo) = "load"
        /\ call.cmd # "set" => Head(call'.todo) = "drop_all"
    BY <1>0, <1>6, <2>1, GoesOnPlain DEF Unload, Changing
  <2>3. call.cmd = "set" => wrapper[k][StemOf(k)] # Missing /\ timer[k][StemOf(k)] = Build(call.sched)
    BY <1>6 DEF Unload, Doing, HalfDone
  <2>4. ToldTrue'
    BY <1>0, <2>1, <2>2, OthersKept, OthersChange
  <2>5. HalfDone'
    BY <2>1, <2>2, <2>3 DEF HalfDone, Build
  <2> QED
    BY <2>4, <2>5

<1>7. CASE Reload
  <2>1. /\ call.cmd \in {"set", "clear", "remove"} /\ UNCHANGED <<platform, timer, wrapper>>
        /\ job' = [l \in Label |-> Reloaded(l)] \/ job' = job
    BY <1>0, <1>7, StepOf DEF Reload, files
  <2>2. ASSUME NEW l \in Label \ {k}
        PROVE  told'[l] = told[l] /\ (told'[l] # Unknown => Fulfilled(l)')
    <3>1. told'[l] = told[l]
      BY <1>0, <1>7, <2>2, GivenUp DEF Reload, GoOn
    <3>2. CASE told[l] # Unknown /\ told[l] # Off
      <4>1. Set(l, told[l]) /\ told[l] \in Schedule \ {Off}
        BY <1>0, <2>2, <3>2, OthersChange DEF ToldTrue, Fulfilled
      <4>2. Build(told[l]) # Missing /\ [file |-> Build(told[l]), stem |-> StemOf(l)] # Off
        BY <4>1, ScheduleForm, ReadBack, StemType
      <4>3. Reloaded(l) = job[l]
        BY <4>1, <4>2 DEF Reloaded, Set
      <4>4. job'[l] = job[l]
        BY <2>1, <4>3
      <4> QED
        BY <2>1, <3>1, <3>2, <4>1, <4>4 DEF Fulfilled, Set, Build
    <3>3. CASE told[l] = Off /\ told[l] # Unknown
      <4>1. Cleared(l)
        BY <1>0, <2>2, <3>3, OthersChange DEF ToldTrue, Fulfilled
      <4> QED
        BY <2>1, <3>1, <3>3, <4>1 DEF Fulfilled, Cleared
    <3> QED
      BY <3>1, <3>2, <3>3
  <2>3. CASE GoOn
    <3>1. /\ Changing(k)' /\ call'.label = k /\ call'.sched = call.sched /\ call'.cmd = call.cmd
          /\ call.cmd = "set" => Head(call'.todo) = "load"
          /\ call.cmd # "set" => Head(call'.todo) \in {"reload", "mirror", "untrack"}
      BY <1>0, <1>7, <2>1, <2>3, GoesOnPlain DEF Reload, Changing
    <3>2. /\ call.cmd = "set" => wrapper[k][StemOf(k)] # Missing /\ timer[k][StemOf(k)] = Build(call.sched)
          /\ call.cmd # "set" => Cleared(k)
      BY <1>7, <2>1 DEF Reload, Doing, HalfDone
    <3>3. ToldTrue'
      BY <2>2, <3>1 DEF ToldTrue
    <3>4. HalfDone'
      BY <2>1, <3>1, <3>2 DEF HalfDone, Build, Cleared
    <3> QED
      BY <3>3, <3>4
  <2>4. CASE GiveUp
    <3>1. told'[k] = Unknown /\ call'.cmd = "none"
      BY <1>0, <2>1, <2>4, GivenUp
    <3>2. ToldTrue'
      BY <2>2, <3>1 DEF ToldTrue
    <3> QED
      BY <3>1, <3>2 DEF HalfDone
  <2> QED
    BY <1>7, <2>3, <2>4 DEF Reload
<1>8. CASE Load
  <2>1. call.cmd = "set" /\ UNCHANGED <<platform, timer, wrapper>>
    BY <1>0, <1>8, StepOf DEF Load, files
  <2>2. \A l \in Label \ {k} : job'[l] = job[l]
    BY <1>0, <1>8 DEF Load
  <2>3. CASE /\ job' = [job EXCEPT ![k] = [file |-> timer[k][StemOf(k)], stem |-> StemOf(k)]]
             /\ GoOn
    <3>1. /\ Changing(k)' /\ Head(call'.todo) = "mirror" /\ told' = told
          /\ call'.label = k /\ call'.sched = call.sched /\ call'.cmd = "set"
      BY <1>0, <1>8, <2>1, <2>3, GoesOnPlain DEF Load, Changing
    <3>2. wrapper[k][StemOf(k)] # Missing /\ timer[k][StemOf(k)] = Build(call.sched)
      BY <1>8, <2>1 DEF Load, Doing, HalfDone
    <3>3. job'[k] = [file |-> Build(call.sched), stem |-> StemOf(k)]
      BY <1>0, <2>3, <3>2
    <3>4. ToldTrue'
      BY <1>0, <2>1, <2>2, <3>1, OthersKept, OthersChange
    <3>5. HalfDone'
      BY <2>1, <3>1, <3>2, <3>3 DEF HalfDone, Set, Build
    <3> QED
      BY <3>4, <3>5
  <2>4. CASE GiveUp
    <3>1. told'[k] = Unknown /\ call'.cmd = "none" /\ \A l \in Label \ {k} : told'[l] = told[l]
      BY <1>0, <2>1, <2>4, GivenUp
    <3>2. ToldTrue'
      BY <1>0, <2>1, <2>2, <3>1, OthersKept, OthersChange
    <3> QED
      BY <3>1, <3>2 DEF HalfDone
  <2> QED
    BY <1>8, <2>3, <2>4 DEF Load
<1>9. CASE DropAll
  <2>1. /\ Changing(k)' /\ told' = told /\ call'.label = k /\ call'.cmd \in {"clear", "remove"}
        /\ Head(call'.todo) \in {"reload", "mirror", "untrack"}
        /\ platform' = platform /\ job' = job
    BY <1>0, <1>9, GoesOnPlain, StepOf DEF DropAll, Changing
  <2>2. /\ \A l \in Label \ {k} : timer'[l] = timer[l] /\ wrapper'[l] = wrapper[l]
        /\ \A st \in Stem : timer'[k][st] = Missing /\ wrapper'[k][st] = Missing
    BY <1>0, <1>9 DEF DropAll
  <2>3. ToldTrue'
    BY <1>0, <2>1, <2>2, OthersKept, OthersChange
  <2>4. HalfDone'
    BY <2>1, <2>2 DEF HalfDone, Cleared
  <2> QED
    BY <2>3, <2>4
<1>10. CASE SetMirror
  <2>1. /\ call.cmd \in {"set", "clear"} /\ UNCHANGED <<platform, timer, wrapper, job>>
        /\ Succeed \/ GiveUp
        /\ Head(call.todo) = "mirror"
    BY <1>0, <1>10, StepOf DEF SetMirror, files, Doing
  <2>2. /\ call'.cmd = "none" /\ \A l \in Label \ {k} : told'[l] = told[l]
        /\ told'[k] = Unknown \/ told'[k] = call.sched
    BY <2>1, Returns
  <2>3. IF call.sched = Off THEN Cleared(k) ELSE Set(k, call.sched)
    BY <1>0, <2>1 DEF HalfDone, CallOK
  <2>4. PICK l \in Label : l = k
    BY <1>0
  <2>5. PICK s : s = call.sched
    OBVIOUS
  <2>6. ASSUME told'[l] # Unknown
        PROVE  Fulfilled(l)'
    <3>1. told'[l] = s /\ UNCHANGED <<platform, timer, wrapper, job>>
      BY <2>1, <2>2, <2>4, <2>5, <2>6
    <3>2. IF s = Off THEN Cleared(l) ELSE Set(l, s)
      BY <2>3, <2>4, <2>5
    <3> QED
      BY <3>1, <3>2 DEF Fulfilled, Cleared, Set, Build
  <2>7. \A m \in Label \ {l} : told'[m] = told[m] /\ ~Changing(m)
    BY <2>2, <2>4, OthersChange
  <2>8. ToldTrue'
    BY <2>1, <2>6, <2>7, OthersKept
  <2> QED
    BY <2>2, <2>8 DEF HalfDone

<1>11. CASE Heal
  <2>1. call.cmd \in {"list", "add", "remove"} /\ UNCHANGED <<platform, timer, wrapper, job, told>>
    BY <1>0, <1>11, StepOf DEF Heal, files
  <2>2. CASE call.cmd = "list"
    <3>1. call'.cmd = "none"
      BY <1>11, <2>2, Ends DEF Heal
    <3>2. \A l \in Label : ~Changing(l)
      BY <2>2 DEF Changing
    <3> QED
      BY <2>1, <3>1, <3>2, NothingTouched DEF HalfDone
  <2>3. CASE call.cmd # "list"
    <3>1. /\ call'.cmd = call.cmd /\ call'.label = k
          /\ Head(call'.todo) \in {"track", "unload"}
      BY <1>0, <1>11, <2>3, HealedType, GoesOn DEF Heal
    <3>2. \A l \in Label : Changing(l) => Changing(l)'
      BY <3>1 DEF Changing
    <3>3. HalfDone'
      BY <2>1, <3>1 DEF HalfDone
    <3> QED
      BY <2>1, <3>2, <3>3, NothingTouched
  <2> QED
    BY <2>2, <2>3
<1>12. CASE Track
  <2>1. call.cmd = "add" /\ UNCHANGED <<platform, timer, wrapper, job>> /\ (Succeed \/ GiveUp)
    BY <1>0, <1>12, StepOf DEF Track, SaveSources, files
  <2>2. told' = told /\ call'.cmd = "none"
    BY <2>1, Returns
  <2>3. \A l \in Label : ~Changing(l)
    BY <2>1 DEF Changing
  <2> QED
    BY <2>1, <2>2, <2>3, NothingTouched DEF HalfDone
<1>13. CASE Untrack
  <2>1. /\ call.cmd = "remove" /\ UNCHANGED <<platform, timer, wrapper, job>> /\ (Succeed \/ GiveUp)
        /\ Head(call.todo) = "untrack"
    BY <1>0, <1>13, StepOf DEF Untrack, SaveSources, files, Doing
  <2>2. /\ call'.cmd = "none" /\ \A l \in Label \ {k} : told'[l] = told[l]
        /\ told'[k] = Unknown \/ told'[k] = Off
    BY <1>0, <2>1, Returns DEF CallOK
  <2>3. PICK l \in Label : l = k
    BY <1>0
  <2>4. ASSUME told'[l] # Unknown
        PROVE  Fulfilled(l)'
    <3>1. Cleared(l)
      BY <2>1, <2>3 DEF HalfDone
    <3> QED
      BY <2>1, <2>2, <2>3, <2>4, <3>1 DEF Fulfilled, Cleared
  <2>5. \A m \in Label \ {l} : told'[m] = told[m] /\ ~Changing(m)
    BY <2>2, <2>3, OthersChange
  <2>6. ToldTrue'
    BY <2>1, <2>4, <2>5, OthersKept
  <2> QED
    BY <2>2, <2>6 DEF HalfDone
<1>14. CASE Save
  <2>1. call.cmd = "use" /\ UNCHANGED <<platform, timer, wrapper, job>> /\ (Succeed \/ GiveUp)
    BY <1>0, <1>14, StepOf DEF Save, files
  <2>2. told' = told /\ call'.cmd = "none"
    BY <2>1, Returns
  <2>3. \A l \in Label : ~Changing(l)
    BY <2>1 DEF Changing
  <2> QED
    BY <2>1, <2>2, <2>3, NothingTouched DEF HalfDone
<1>15. CASE Launch
  <2>1. PICK failed \in SUBSET Kept :
          wrapper' = [l \in Label |-> IF l \in Kept \ failed THEN Reconciled(l) ELSE wrapper[l]]
    BY <1>15 DEF Launch
  <2>2. UNCHANGED <<platform, timer, job, told, call>> /\ Resting
    BY <1>0, <1>15 DEF Launch, CallOK
  <2>3. ASSUME NEW l \in Label, wrapper[l][StemOf(l)] # Missing
        PROVE  wrapper'[l][StemOf(l)] # Missing
    <3>1. CASE l \in Kept \ failed
      <4>1. config \in Config
        BY <3>1, MirrorNone DEF Kept, Shapes, TypeInv
      <4>2. Wrapper(l, config.bin) # Missing
        BY <1>0, <4>1, WrapperType DEF Config, Shapes
      <4>3. wrapper'[l] = [wrapper[l] EXCEPT ![StemOf(l)] = Wrapper(l, config.bin)]
        BY <2>1, <2>3, <3>1 DEF Reconciled
      <4>4. wrapper[l] \in [Stem -> WrapperFile] /\ StemOf(l) \in Stem
        BY <1>0, <2>3, StemType
      <4> QED
        BY <4>2, <4>3, <4>4
    <3>2. CASE l \notin Kept \ failed
      BY <2>1, <2>3, <3>2
    <3> QED
      BY <3>1, <3>2
  <2>4. ASSUME NEW l \in Label, Cleared(l)
        PROVE  wrapper'[l] = wrapper[l]
    <3>1. l \notin Kept
      BY <2>4, StemType DEF Kept, Cleared
    <3> QED
      BY <2>1, <3>1
  <2>5. ASSUME NEW l \in Label, told'[l] # Unknown
        PROVE  Fulfilled(l)'
    <3>1. Fulfilled(l) /\ told'[l] = told[l]
      BY <2>2, <2>5 DEF ToldTrue, Changing, Resting
    <3>2. CASE told[l] = Off
      <4>1. Cleared(l) /\ wrapper'[l] = wrapper[l]
        BY <2>4, <3>1, <3>2 DEF Fulfilled
      <4> QED
        BY <2>2, <3>1, <3>2, <4>1 DEF Fulfilled, Cleared
    <3>3. CASE told[l] # Off
      <4>1. Set(l, told[l])
        BY <3>1, <3>3 DEF Fulfilled
      <4>2. wrapper'[l][StemOf(l)] # Missing
        BY <2>3, <4>1 DEF Set
      <4> QED
        BY <2>2, <3>1, <3>3, <4>1, <4>2 DEF Fulfilled, Set, Build
    <3> QED
      BY <3>2, <3>3
  <2> QED
    BY <2>2, <2>5 DEF ToldTrue, HalfDone, Resting
<1>16. CASE Quit
  <2>1. UNCHANGED <<platform, timer, wrapper, job, told, call>>
    BY <1>16 DEF Quit, files
  <2>2. \A l \in Label : Changing(l) => Changing(l)'
    BY <2>1 DEF Changing
  <2> QED
    BY <2>1, <2>2, NothingTouched DEF HalfDone, Set, Cleared, Build
<1>17. CASE Configure
  <2>1. UNCHANGED <<platform, timer, wrapper, job, told, call>>
    BY <1>17 DEF Configure, files
  <2>2. \A l \in Label : Changing(l) => Changing(l)'
    BY <2>1 DEF Changing
  <2> QED
    BY <2>1, <2>2, NothingTouched DEF HalfDone, Set, Cleared, Build
<1>18. CASE Kill
  <2>1. GiveUp /\ platform' = platform /\ job' = job
    BY <1>18 DEF Kill
  <2>2. call'.cmd = "none" /\ \A l \in Label \ {k} : told'[l] = told[l]
    BY <1>0, <2>1, GivenUp
  <2>3. \A l \in Label \ {k} : timer'[l] = timer[l] /\ wrapper'[l] = wrapper[l]
    BY <1>0, <1>18, FilesDropped DEF Kill, files
  <2>4. CASE call.cmd \in {"set", "clear", "remove"}
    <3>1. told'[k] = Unknown
      BY <2>1, <2>4, GivenUp
    <3>2. PICK l \in Label : l = k
      BY <1>0
    <3>3. \A m \in Label \ {l} : told'[m] = told[m] /\ ~Changing(m)
      BY <2>2, <3>2, OthersChange
    <3>4. ToldTrue'
      BY <2>1, <2>3, <3>1, <3>2, <3>3, OthersKept
    <3> QED
      BY <2>2, <3>4 DEF HalfDone
  <2>5. CASE call.cmd \notin {"set", "clear", "remove"}
    <3>1. /\ ~Doing("wrapper") /\ ~Doing("timer") /\ ~Doing("unload")
          /\ ~Doing("drop_all") /\ ~Doing("drop_old")
      BY <1>0, <2>5, StepOf
    <3>2. UNCHANGED <<timer, wrapper>> /\ told' = told
      BY <1>18, <2>1, <2>5, <3>1, GivenUp DEF Kill, PartlyDropped, files
    <3>3. \A l \in Label : ~Changing(l)
      BY <2>5 DEF Changing
    <3> QED
      BY <2>1, <2>2, <3>2, <3>3, NothingTouched DEF HalfDone
  <2> QED
    BY <2>4, <2>5
<1>19. CASE Outside
  <2>1. PICK l \in Label :
          /\ job' = [job EXCEPT ![l] = Off]
          /\ timer' = [timer EXCEPT ![l] = [st \in Stem |-> Missing]]
          /\ told' = [told EXCEPT ![l] = Unknown]
    BY <1>19 DEF Outside
  <2>2. Resting /\ UNCHANGED <<platform, wrapper, call>>
    BY <1>19 DEF Outside
  <2>3. told'[l] = Unknown
    BY <1>0, <2>1
  <2>4. \A m \in Label \ {l} :
           timer'[m] = timer[m] /\ job'[m] = job[m] /\ told'[m] = told[m] /\ ~Changing(m)
    BY <1>0, <2>1, <2>2 DEF Resting, Changing
  <2>5. ToldTrue'
    BY <2>2, <2>3, <2>4, OthersKept
  <2> QED
    BY <2>2, <2>5 DEF HalfDone, Resting
<1> QED
  BY <1>1, <1>2, <1>3, <1>4, <1>5, <1>6, <1>7, <1>8, <1>9, <1>10, <1>11, <1>12, <1>13, <1>14,
     <1>15, <1>16, <1>17, <1>18, <1>19 DEF Next, Step

LEMMA ToldInvariance == Spec => [](ToldTrue /\ HalfDone)
<1>1. Init => TypeInv /\ ToldTrue /\ HalfDone
  BY TypeInit, ToldInit
<1>2. (TypeInv /\ ToldTrue /\ HalfDone) /\ [Next]_vars => (TypeInv /\ ToldTrue /\ HalfDone)'
  BY NextType, ToldNext
<1> QED
  BY <1>1, <1>2, PTL DEF Spec

\* Every interval that is asked for divides the hour.  The GUI offers no other, and the
\* calendar of systemd knows of no other.
HoursDivided == \A s \in Asked : s.kind = "interval" /\ Valid(s) => 60 % s.minutes = 0

\* What the user was told of a schedule, and no command is changing, is what the files are
\* read back as and what is started, on either system, for any sources and whatever failed,
\* was killed, or was left by an older version.
THEOREM AsToldTheorem ==
    ASSUME HoursDivided
    PROVE  Spec => []AsTold
<1>1. TypeInv /\ ToldTrue => AsTold
  <2> SUFFICES ASSUME TypeInv, ToldTrue, NEW l \in Label, told[l] # Unknown, ~Changing(l)
               PROVE  Status(l) = told[l] /\ Running(l) = told[l]
    BY DEF AsTold, Changing
  <2>1. Fulfilled(l) /\ StemOf(l) \in Stem /\ "bare" \in Stem
    BY StemType DEF ToldTrue
  <2>2. CASE told[l] = Off
    <3>1. \A st \in Stem : timer[l][st] = Missing /\ wrapper[l][st] = Missing
      BY <2>1, <2>2 DEF Fulfilled, Cleared
    <3>2. job[l] # Off => job[l].stem \in Stem
      BY DEF TypeInv, Shapes, Job
    <3> QED
      BY <2>1, <2>2, <3>1, <3>2 DEF Status, Running
  <2>3. CASE told[l] # Off
    <3>1. PICK s : s = told[l]
      OBVIOUS
    <3>2. s \in Asked /\ Valid(s)
      BY <2>3, <3>1, ScheduleForm DEF TypeInv, Shapes
    <3>3. /\ timer[l][StemOf(l)] = Build(s)
          /\ wrapper[l][StemOf(l)] # Missing
          /\ job[l] = [file |-> Build(s), stem |-> StemOf(l)]
      BY <2>1, <2>3, <3>1 DEF Fulfilled, Set
    <3>4. Status(l) = s
      BY <3>2, <3>3, ReadBack DEF Status
    <3>5. job[l] # Off /\ job[l].file = Build(s) /\ job[l].stem = StemOf(l)
      BY <2>1, <3>2, <3>3, ReadBack
    <3>6. Running(l) = Fires(Build(s))
      BY <3>3, <3>5 DEF Running
    <3>7. s.kind = "interval" => 60 % s.minutes = 0
      BY <3>2 DEF HoursDivided
    <3> QED
      BY <3>1, <3>2, <3>4, <3>6, <3>7, FiresAsAsked
  <2> QED
    BY <2>2, <2>3
<1> QED
  BY <1>1, TypeInvariance, ToldInvariance, PTL

--------------------------------------------------------------------------------
(* Wrappers. *)

LEMMA Wrapped ==
    ASSUME UNCHANGED setup, NEW l, NEW b
    PROVE  Wrapper(l, b)' = Wrapper(l, b)
BY DEF Wrapper

\* config.json is lost, or keeps its directory.
BinKept == config' = NoConfig \/ (config # NoConfig /\ config'.bin = config.bin)

\* Scripts of the present stem are what they were, or gone.
LEMMA CurrentKept ==
    ASSUME AllCurrent, UNCHANGED setup, BinKept, stale \subseteq stale',
           \A l \in Label \ stale' : wrapper'[l][StemOf(l)] \in {Missing, wrapper[l][StemOf(l)]}
    PROVE  AllCurrent'
<1> SUFFICES ASSUME NEW l \in Label \ stale'
             PROVE  Current(l)'
  BY DEF AllCurrent
<1>1. wrapper'[l][StemOf(l)] \in {Missing, wrapper[l][StemOf(l)]} /\ l \in Label \ stale
  OBVIOUS
<1>2. Current(l)
  BY <1>1 DEF AllCurrent
<1> QED
  BY <1>1, <1>2 DEF BinKept, Current, Wrapper

LEMMA CurrentInit == Init => ScriptCurrent /\ AllCurrent
<1> SUFFICES ASSUME Init PROVE ScriptCurrent /\ AllCurrent
  OBVIOUS
<1>1. ScriptCurrent
  BY MarkersAssumption DEF Init, Idle, ScriptCurrent
<1>2. AllCurrent
  <2>1. CASE Fresh
    BY <2>1 DEF Fresh, AllCurrent, Current
  <2>2. CASE Upgraded
    BY <2>2 DEF Upgraded, AllCurrent
  <2> QED
    BY <2>1, <2>2 DEF Init
<1> QED
  BY <1>1, <1>2

LEMMA CurrentNext == CurrentInv /\ [Next]_vars => ScriptCurrent' /\ AllCurrent'
<1> SUFFICES ASSUME CurrentInv, [Next]_vars PROVE ScriptCurrent' /\ AllCurrent'
  OBVIOUS
<1> DEFINE k == call.label
<1>0. /\ k \in Label /\ StemOf(k) \in Stem /\ "bare" \in Stem
      /\ CallOK /\ Shapes /\ TypeInv /\ AllCurrent /\ ScriptCurrent
      /\ timer \in [Label -> [Stem -> TimerFile]] /\ wrapper \in [Label -> [Stem -> WrapperFile]]
  BY StemType DEF CurrentInv, TypeInv, CallOK, Call, Shapes
<1>1. CASE StartSet \/ StartOther \/ StartList
  <2>1. /\ UNCHANGED <<config, wrapper, setup, app, stale>>
        /\ call'.cmd = "set" => call'.script = Wrapper(call'.label, call'.bin)
    <3>1. CASE StartSet
      <4>1. PICK l \in Label, s \in Asked : Valid(s) /\ Start("set", l, s, app)
        BY <3>1 DEF StartSet
      <4>2. s \in Schedule \ {Off}
        BY <4>1, ScheduleForm
      <4> QED
        BY <1>0, <4>1, <4>2, Starts DEF Command
    <3>2. CASE \E l \in Label : Start("clear", l, Off, app)
      BY <1>0, <3>2, Starts, ScheduleForm DEF Command
    <3>3. CASE \E p \in Path : Start("add", p, Off, app) \/ Start("remove", p, Off, app)
      BY <1>0, <3>3, Starts, ScheduleForm DEF Command, Label
    <3>4. CASE \E b \in Bin : Start("use", House, Off, b)
      BY <1>0, <3>4, Starts, ScheduleForm DEF Command, Label
    <3>5. CASE StartList
      BY <1>0, <3>5, Starts, ScheduleForm DEF StartList, Command, Label
    <3> QED
      BY <1>1, <3>1, <3>2, <3>3, <3>4, <3>5 DEF StartOther
  <2>2. AllCurrent'
    BY <1>0, <2>1, CurrentKept DEF BinKept
  <2>3. ScriptCurrent'
    BY <1>0, <2>1 DEF ScriptCurrent, Wrapper
  <2> QED
    BY <2>2, <2>3
<1>2. CASE Refuse \/ vars' = vars
  <2>1. UNCHANGED <<config, wrapper, setup, app, call, stale>>
    BY <1>2 DEF Refuse, vars, files
  <2>2. AllCurrent'
    BY <1>0, <2>1, CurrentKept DEF BinKept
  <2>3. ScriptCurrent'
    BY <1>0, <2>1 DEF ScriptCurrent, Wrapper
  <2> QED
    BY <2>2, <2>3
<1>3. ASSUME BinKept, UNCHANGED setup, app' \in {app, Closed}, stale \subseteq stale',
             \/ call'.cmd = "none"
             \/ /\ call'.cmd = "set" => Head(call'.todo) \notin {"drop_old", "wrapper"}
             \/ /\ call.cmd = "set" /\ Head(call.todo) = "drop_old"
                /\ call'.script = call.script /\ call'.label = call.label /\ call'.bin = call.bin
      PROVE  ScriptCurrent'
  BY <1>0, <1>3, MarkersAssumption DEF BinKept, ScriptCurrent, Wrapper
<1>4. CASE DropOld
  <2>1. /\ call.cmd = "set" /\ Head(call.todo) = "drop_old"
        /\ call'.script = call.script /\ call'.label = call.label /\ call'.bin = call.bin
    BY <1>0, <1>4, GoesOnPlain, StepOf DEF DropOld, Doing
  <2>2. UNCHANGED <<config, setup, app, stale>>
    BY <1>4 DEF DropOld
  <2>3. \A l \in Label : wrapper'[l][StemOf(l)] \in {Missing, wrapper[l][StemOf(l)]}
    <3>1. CASE wrapper' = wrapper
      BY <3>1
    <3>2. CASE wrapper' = [wrapper EXCEPT ![k]["bare"] = Missing]
      <4>1. \A l \in Label, st \in Stem : wrapper'[l][st] \in {Missing, wrapper[l][st]}
        <5>1. Missing \in WrapperFile
          BY DEF WrapperFile
        <5> QED
          BY <1>0, <3>2, <5>1, OneChanged
      <4> QED
        BY <4>1, StemType
    <3> QED
      BY <1>4, <3>1, <3>2 DEF DropOld, files
  <2>4. AllCurrent'
    BY <1>0, <2>2, <2>3, CurrentKept DEF BinKept
  <2> QED
    BY <1>3, <2>1, <2>2, <2>4 DEF BinKept
<1>5. CASE WriteWrapper
  <2>1. call.cmd = "set" /\ Head(call.todo) = "wrapper" /\ UNCHANGED <<config, setup, app>>
        /\ call.bin = app /\ app \in Bin
    BY <1>0, <1>5, StepOf DEF WriteWrapper, Doing, CallOK
  <2>2. CASE /\ wrapper' = [wrapper EXCEPT ![k][StemOf(k)] = call.script]
             /\ stale' = IF call.script = Wrapper(k, call.bin) THEN stale \ {k} ELSE stale
             /\ GoOn
    <3>1. Head(call'.todo) = "timer"
      BY <1>0, <1>5, <2>1, <2>2, GoesOnPlain DEF WriteWrapper
    <3>2. ScriptCurrent'
      BY <1>0, <2>1, <3>1 DEF ScriptCurrent
    <3>3. ASSUME NEW l \in Label \ stale'
          PROVE  Current(l)'
      <4>1. CASE l = k
        <5>1. call.script = Wrapper(k, call.bin)
          BY <1>0, <2>1, <2>2, <3>3, <4>1 DEF ScriptCurrent
        <5>2. wrapper'[l][StemOf(l)] = Wrapper(l, call.bin)
          BY <1>0, <2>2, <4>1, <5>1, CallScript, OneChanged
        <5>3. config # NoConfig => config.bin = call.bin
          BY <1>0, <2>1 DEF ScriptCurrent
        <5> QED
          BY <2>1, <5>2, <5>3 DEF Current, Wrapper
      <4>2. CASE l # k
        <5>1. l \notin stale /\ wrapper'[l] = wrapper[l]
          BY <1>0, <2>2, <3>3, <4>2
        <5>2. Current(l)
          BY <1>0, <3>3, <5>1 DEF AllCurrent
        <5> QED
          BY <2>1, <5>1, <5>2 DEF Current, Wrapper
      <4> QED
        BY <4>1, <4>2
    <3> QED
      BY <3>2, <3>3 DEF AllCurrent
  <2>3. CASE /\ wrapper' \in {wrapper, [wrapper EXCEPT ![k][StemOf(k)] = Half]}
             /\ stale' = stale \cup {k}
             /\ GiveUp
    <3>1. call'.cmd = "none"
      BY <1>0, <2>3, GivenUp
    <3>2. \A l \in Label \ stale' : wrapper'[l] = wrapper[l]
      BY <1>0, <2>3
    <3>3. AllCurrent'
      BY <1>0, <2>1, <2>3, <3>2, CurrentKept DEF BinKept
    <3> QED
      BY <1>3, <2>1, <2>3, <3>1, <3>3 DEF BinKept
  <2> QED
    BY <1>5, <2>2, <2>3 DEF WriteWrapper

<1>6. CASE WriteTimer \/ Unload \/ Reload \/ Load
  <2>1. UNCHANGED <<config, wrapper, setup, app, stale>>
    BY <1>6 DEF WriteTimer, Unload, Reload, Load, files
  <2>2. call'.cmd = "none" \/ (call'.cmd = "set" => Head(call'.todo) \notin {"drop_old", "wrapper"})
    <3>1. CASE GiveUp
      BY <1>0, <3>1, GivenUp
    <3>2. ASSUME NEW x \in {"timer", "unload", "reload", "load"}, Doing(x), GoOn
          PROVE  call'.cmd = "set" => Head(call'.todo) \notin {"drop_old", "wrapper"}
      <4>1. platform' = platform /\ app' = app
        BY <1>6 DEF WriteTimer, Unload, Reload, Load
      <4>2. /\ call'.cmd = call.cmd
            /\ call.cmd = "set" => Head(call'.todo) \in {"unload", "reload", "load", "mirror"}
        BY <1>0, <3>2, <4>1, GoesOnPlain
      <4> QED
        BY <4>2
    <3> QED
      BY <1>6, <3>1, <3>2 DEF WriteTimer, Unload, Reload, Load
  <2>3. AllCurrent'
    BY <1>0, <2>1, CurrentKept DEF BinKept
  <2> QED
    BY <1>3, <2>1, <2>2, <2>3 DEF BinKept
<1>7. CASE DropAll
  <2>1. call.cmd \in {"clear", "remove"} /\ call'.cmd = call.cmd
    BY <1>0, <1>7, GoesOnPlain, StepOf DEF DropAll
  <2>2. \A l \in Label : wrapper'[l][StemOf(l)] \in {Missing, wrapper[l][StemOf(l)]}
    <3>1. wrapper' = [wrapper EXCEPT ![k] = [st \in Stem |-> Missing]]
      BY <1>7 DEF DropAll
    <3> QED
      BY <1>0, <3>1, StemType
  <2>3. UNCHANGED <<config, setup, app, stale>>
    BY <1>7 DEF DropAll
  <2>4. AllCurrent'
    BY <1>0, <2>2, <2>3, CurrentKept DEF BinKept
  <2> QED
    BY <1>3, <2>1, <2>3, <2>4 DEF BinKept
<1>8. CASE SetMirror \/ Heal \/ Track \/ Untrack
  <2>1. UNCHANGED <<wrapper, setup, app, stale>>
    BY <1>8 DEF SetMirror, Heal, Track, Untrack, files
  <2>2. BinKept
    <3>1. CASE config' \in {config, NoConfig}
      BY <3>1 DEF BinKept
    <3>2. ASSUME config # NoConfig, NEW src, config' = [config EXCEPT !.src = src]
          PROVE  BinKept
      BY <1>0, <3>2 DEF BinKept, Shapes, Config
    <3>3. CASE SetMirror
      <4>1. CASE config # NoConfig /\ config' = WithMirror(k, call.sched)
        BY <1>0, <4>1 DEF BinKept, WithMirror, Shapes, Config
      <4> QED
        BY <3>1, <3>3, <4>1 DEF SetMirror, Written, Spoilt, Tracked
    <3>4. CASE Heal
      BY <3>1, <3>2, <3>4 DEF Heal, Written, Spoilt
    <3>5. CASE Track \/ Untrack
      BY <3>1, <3>2, <3>5 DEF Track, Untrack, SaveSources, Written, Spoilt
    <3> QED
      BY <1>8, <3>3, <3>4, <3>5
  <2>3. call'.cmd # "set"
    <3>1. CASE call' = Idle
      BY <3>1, IdleType
    <3>2. CASE Heal /\ call.cmd # "list"
      <4>1. call.cmd \in {"add", "remove"} /\ call' = [call EXCEPT !.todo = Tail(@), !.mem = Healed]
        BY <1>0, <3>2, StepOf DEF Heal
      <4> QED
        BY <1>0, <4>1 DEF CallOK, Call
    <3> QED
      BY <1>8, <3>1, <3>2 DEF SetMirror, Heal, Track, Untrack, SaveSources, Succeed, GiveUp
  <2>4. AllCurrent'
    BY <1>0, <2>1, <2>2, CurrentKept
  <2> QED
    BY <1>3, <2>1, <2>2, <2>3, <2>4

<1>9. CASE Save
  <2>1. /\ UNCHANGED <<wrapper, setup>> /\ call'.cmd = "none"
        /\ call.bin \in Bin /\ app \in Bin \cup {Closed, Setup}
    BY <1>0, <1>9, IdleType, StepOf DEF Save, files, Succeed, GiveUp, CallOK, Shapes
  <2>2. CASE config' \in {config, NoConfig} /\ UNCHANGED <<app, stale>>
    <3>1. AllCurrent'
      BY <1>0, <2>1, <2>2, CurrentKept DEF BinKept
    <3> QED
      BY <1>3, <2>1, <2>2, <3>1 DEF BinKept
  <2>3. CASE /\ config' = WithBin(call.bin)
             /\ app' = call.bin
             /\ stale' = IF config # NoConfig /\ config.bin = call.bin THEN stale ELSE Label
    <3>1. config'.bin = call.bin
      BY <1>0, <2>3 DEF WithBin, Shapes, Config
    <3>2. ScriptCurrent'
      BY <2>1, <2>3, <3>1 DEF ScriptCurrent
    <3>3. AllCurrent'
      <4>1. CASE stale' = Label
        BY <4>1 DEF AllCurrent
      <4>2. CASE config # NoConfig /\ config.bin = call.bin /\ stale' = stale
        BY <1>0, <2>1, <3>1, <4>2, CurrentKept DEF BinKept
      <4> QED
        BY <2>3, <4>1, <4>2
    <3> QED
      BY <3>2, <3>3
  <2> QED
    BY <1>9, <2>2, <2>3 DEF Save, Written, Spoilt
<1>10. CASE Launch
  <2>1. PICK failed \in SUBSET Kept :
          /\ wrapper' = [l \in Label |-> IF l \in Kept \ failed THEN Reconciled(l) ELSE wrapper[l]]
          /\ stale' = stale \ (Kept \ failed)
    BY <1>10 DEF Launch
  <2>2. Resting /\ UNCHANGED <<config, setup, call>>
    BY <1>0, <1>10, MarkersAssumption DEF Launch, CallOK, Shapes
  <2>3. ScriptCurrent'
    <3>1. app' = Setup \/ (config # NoConfig /\ app' = config.bin)
      BY <1>10 DEF Launch
    <3> QED
      BY <2>2, <3>1, MarkersAssumption DEF ScriptCurrent, Resting
  <2>4. ASSUME NEW l \in Label \ stale'
        PROVE  Current(l)'
    <3>1. CASE l \in Kept \ failed
      <4>1. wrapper'[l][StemOf(l)] = Wrapper(l, config.bin)
        BY <1>0, <2>1, <3>1, StemType DEF Reconciled
      <4> QED
        BY <2>2, <4>1 DEF Current, Wrapper
    <3>2. CASE l \notin Kept \ failed
      <4>1. l \notin stale /\ wrapper'[l] = wrapper[l]
        BY <2>1, <2>4, <3>2
      <4>2. Current(l)
        BY <1>0, <2>4, <4>1 DEF AllCurrent
      <4> QED
        BY <2>2, <4>1, <4>2 DEF Current, Wrapper
    <3> QED
      BY <3>1, <3>2
  <2> QED
    BY <2>3, <2>4 DEF AllCurrent
<1>11. CASE Quit
  <2>1. UNCHANGED <<config, wrapper, setup, stale>> /\ app' = Closed /\ call'.cmd = "none"
    BY <1>11 DEF Quit, files, Resting
  <2>2. AllCurrent'
    BY <1>0, <2>1, CurrentKept DEF BinKept
  <2> QED
    BY <1>3, <2>1, <2>2 DEF BinKept
<1>12. CASE Kill
  <2>1. /\ UNCHANGED setup /\ app' = Closed /\ call'.cmd = "none" /\ BinKept
        /\ stale' \in {stale, stale \cup {k}}
    BY <1>0, <1>12, GivenUp DEF Kill, BinKept
  <2>2. \A l \in Label \ stale' : wrapper'[l][StemOf(l)] \in {Missing, wrapper[l][StemOf(l)]}
    <3>1. CASE wrapper' = wrapper
      BY <3>1
    <3>2. CASE wrapper' = [wrapper EXCEPT ![k][StemOf(k)] = Half] /\ k \in stale'
      BY <1>0, <3>2
    <3>3. CASE PartlyDropped
      BY <1>0, <3>3, FilesDropped, StemType
    <3> QED
      BY <1>12, <3>1, <3>2, <3>3 DEF Kill, files
  <2>3. AllCurrent'
    BY <1>0, <2>1, <2>2, CurrentKept
  <2> QED
    BY <1>3, <2>1, <2>3
<1>13. CASE Configure
  <2>1. UNCHANGED <<config, wrapper, app, call>> /\ stale' = stale \cup {House}
    BY <1>13 DEF Configure, files
  <2>2. \A l, b : l # House => Wrapper(l, b)' = Wrapper(l, b)
    BY DEF Wrapper
  <2>3. ScriptCurrent'
    BY <1>0, <2>1, <2>2 DEF ScriptCurrent
  <2>4. \A l \in Label \ stale' : l # House /\ Current(l)
    BY <1>0, <2>1 DEF AllCurrent
  <2> QED
    BY <2>1, <2>2, <2>3, <2>4 DEF AllCurrent, Current
<1>14. CASE Outside
  <2>1. UNCHANGED <<config, wrapper, setup, app, call, stale>> /\ call.cmd = "none"
    BY <1>14 DEF Outside, Resting
  <2>2. AllCurrent'
    BY <1>0, <2>1, CurrentKept DEF BinKept
  <2> QED
    BY <1>3, <2>1, <2>2 DEF BinKept
<1> QED
  BY <1>1, <1>2, <1>4, <1>5, <1>6, <1>7, <1>8, <1>9, <1>10, <1>11, <1>12, <1>13, <1>14
  DEF Next, Step

LEMMA CurrentInvariance == Spec => []CurrentInv
<1>1. Init => CurrentInv
  BY TypeInit, CurrentInit DEF CurrentInv
<1>2. CurrentInv /\ [Next]_vars => CurrentInv'
  BY NextType, CurrentNext DEF CurrentInv
<1> QED
  BY <1>1, <1>2, PTL DEF Spec

\* A wrapper that was looked at since the directory or the backend last changed, by
\* schedule::install or by reconcile_installed_wrappers, is the one that the present
\* configuration gives: scripts are composed for the directory that is saved, and every
\* command that saves another one makes all of them suspect.
THEOREM LaunchedCurrentTheorem == Spec => []LaunchedCurrent
<1>1. CurrentInv => LaunchedCurrent
  BY DEF CurrentInv, AllCurrent, Current, LaunchedCurrent
<1> QED
  BY CurrentInvariance, <1>1, PTL


--------------------------------------------------------------------------------
(* Sources. *)

LEMMA SameTracked ==
    /\ config' = config => Tracked' = Tracked
    /\ config' = NoConfig => Tracked' = {}
BY DEF Tracked

\* What a new list of sources in the file makes of them.
LEMMA NewTracked ==
    ASSUME config \in Config, NEW src, config' = [config EXCEPT !.src = src], config' # NoConfig
    PROVE  Tracked' = {p \in Path : src[p] # Untracked}
BY DEF Tracked, Config

\* Of the sources tracked now, all that are not removed stay, unless the file is lost.
KeepsSources ==
    \A p \in Tracked :
        \/ p \in Tracked'
        \/ call.cmd = "remove" /\ call.label = p
        \/ config' = NoConfig

LEMMA SourcesStep == SourcesInv /\ [Next]_vars => KeepsSources
<1> SUFFICES ASSUME SourcesInv, [Next]_vars PROVE KeepsSources
  OBVIOUS
<1> DEFINE k == call.label
<1>0. /\ CallOK /\ Shapes /\ TypeInv /\ ReadSources
      /\ call \in Call /\ k \in Label /\ call.sched \in Schedule /\ call.mem \in Sources
      /\ Off \in Schedule /\ Untracked \notin Schedule
  BY ScheduleForm DEF SourcesInv, TypeInv, CallOK, Call
<1>1. CASE config' \in {config, NoConfig}
  BY <1>1, SameTracked DEF KeepsSources
<1>2. CASE config' \notin {config, NoConfig}
  <2>1. CASE SetMirror
    <3>1. config' = WithMirror(k, call.sched) /\ config # NoConfig
      BY <1>2, <2>1 DEF SetMirror, Written, Spoilt, Tracked
    <3>2. config \in Config
      BY <1>0, <3>1 DEF Shapes
    <3>3. CASE k = House
      BY <1>2, <3>1, <3>2, <3>3 DEF WithMirror, KeepsSources, Tracked, Config
    <3>4. CASE k # House
      BY <1>0, <1>2, <3>1, <3>2, <3>4 DEF WithMirror, KeepsSources, Tracked, Config, Sources
    <3> QED
      BY <3>3, <3>4
  <2>2. CASE Heal
    <3>1. config' = [config EXCEPT !.src = Healed] /\ config # NoConfig
      BY <1>2, <2>2 DEF Heal, Written, Spoilt
    <3>2. Tracked' = Tracked
      BY <1>0, <1>2, <3>1, NewTracked, HealedType DEF Shapes
    <3> QED
      BY <3>2 DEF KeepsSources
  <2>3. CASE Track \/ Untrack
    <3>1. Tracked \subseteq {p \in Path : call.mem[p] # Untracked}
      BY <1>0, <2>3, StepOf DEF ReadSources, Ready, Track, Untrack, Doing
    <3>2. PICK s \in Schedule \cup {Untracked} :
            /\ config # NoConfig /\ config' = [config EXCEPT !.src = [call.mem EXCEPT ![k] = s]]
            /\ s = Untracked => Untrack
      BY <1>0, <1>2, <2>3 DEF Track, Untrack, SaveSources, Written, Spoilt
    <3>3. Tracked' = {p \in Path : [call.mem EXCEPT ![k] = s][p] # Untracked}
      BY <1>0, <1>2, <3>2, NewTracked DEF Shapes
    <3>4. Tracked \ {k} \subseteq Tracked'
      BY <1>0, <3>1, <3>3 DEF Sources
    <3>5. k \in Tracked => k \in Tracked' \/ call.cmd = "remove"
      <4>1. CASE s = Untracked
        BY <1>0, <3>2, <4>1, StepOf DEF Untrack
      <4>2. CASE s # Untracked
        BY <1>0, <3>3, <4>2 DEF Sources, Tracked
      <4> QED
        BY <4>1, <4>2
    <3> QED
      BY <3>4, <3>5 DEF KeepsSources
  <2>4. CASE Save
    <3>1. config' = WithBin(call.bin)
      BY <1>2, <2>4 DEF Save, Written, Spoilt
    <3>2. CASE config = NoConfig
      BY <3>2 DEF KeepsSources, Tracked
    <3>3. CASE config # NoConfig
      <4>1. config' = [config EXCEPT !.bin = call.bin] /\ config \in Config
        BY <1>0, <3>1, <3>3 DEF WithBin, Shapes
      <4>2. Tracked' = Tracked
        BY <1>2, <3>3, <4>1 DEF Tracked, Config
      <4> QED
        BY <4>2 DEF KeepsSources
    <3> QED
      BY <3>2, <3>3
  <2>5. CASE ~(SetMirror \/ Heal \/ Track \/ Untrack \/ Save)
    BY <1>2, <2>5
    DEF Next, Step, StartSet, Refuse, StartOther, StartList, Start, DropOld, WriteWrapper,
        WriteTimer, Unload, Reload, Load, DropAll, Launch, Quit, Kill, Configure, Outside, vars
  <2> QED
    BY <2>1, <2>2, <2>3, <2>4, <2>5
<1> QED
  BY <1>1, <1>2

LEMMA SourcesNext == SourcesInv /\ [Next]_vars => ReadSources'
<1> SUFFICES ASSUME SourcesInv, [Next]_vars PROVE ReadSources'
  OBVIOUS
<1>0. CallOK /\ Shapes /\ TypeInv /\ ReadSources
  BY DEF SourcesInv, TypeInv
<1>1. CASE call'.cmd \notin {"add", "remove"}
  BY <1>1 DEF ReadSources
<1>2. CASE Head(call'.todo) = "heal"
  BY <1>2 DEF ReadSources
<1>3. CASE config' \in {config, NoConfig} /\ UNCHANGED call
  BY <1>0, <1>3, SameTracked DEF ReadSources, Ready
<1>4. CASE StartSet \/ StartOther \/ StartList
  <2>1. CASE StartSet
    <3>1. PICK l \in Label, s \in Asked : Valid(s) /\ Start("set", l, s, app)
      BY <2>1 DEF StartSet
    <3>2. s \in Schedule \ {Off}
      BY <3>1, ScheduleForm
    <3> QED
      BY <1>0, <1>1, <3>1, <3>2, Starts DEF Command
  <2>2. CASE \E l \in Label : Start("clear", l, Off, app)
    BY <1>0, <1>1, <2>2, Starts, ScheduleForm DEF Command
  <2>3. CASE \E p \in Path : Start("add", p, Off, app) \/ Start("remove", p, Off, app)
    BY <1>0, <1>2, <2>3, Starts, ScheduleForm DEF Command, Label
  <2>4. CASE \E b \in Bin : Start("use", House, Off, b)
    BY <1>0, <1>1, <2>4, Starts, ScheduleForm DEF Command, Label
  <2>5. CASE StartList
    BY <1>0, <1>2, <2>5, Starts, ScheduleForm DEF StartList, Command, Label
  <2> QED
    BY <1>4, <2>1, <2>2, <2>3, <2>4, <2>5 DEF StartOther
<1>5. CASE DropOld \/ WriteWrapper \/ WriteTimer \/ Unload \/ Reload \/ Load \/ DropAll
  <2>1. UNCHANGED <<platform, config, app>>
    BY <1>5 DEF DropOld, WriteWrapper, WriteTimer, Unload, Reload, Load, DropAll
  <2>2. CASE GiveUp
    BY <1>0, <1>1, <2>2, GivenUp
  <2>3. ASSUME NEW x \in {"drop_old", "wrapper", "timer", "unload", "reload", "load", "drop_all"},
               Doing(x), GoOn
        PROVE  ReadSources'
    <3>1. call'.cmd = call.cmd /\ call'.mem = call.mem /\ Ready /\ Head(call.todo) # "heal"
      BY <1>0, <2>1, <2>3, GoesOnPlain DEF Doing, Ready
    <3> QED
      BY <1>0, <2>1, <3>1, SameTracked DEF ReadSources
  <2> QED
    BY <1>5, <2>2, <2>3 DEF DropOld, WriteWrapper, WriteTimer, Unload, Reload, Load, DropAll
<1>6. CASE SetMirror \/ Track \/ Untrack \/ Save \/ Kill
  <2>1. call' = Idle
    BY <1>6 DEF SetMirror, Track, Untrack, Save, Kill, SaveSources, Succeed, GiveUp
  <2> QED
    BY <1>1, <2>1, IdleType
<1>7. CASE Heal
  <2>1. CASE call.cmd = "list"
    BY <1>1, <1>7, <2>1, IdleType DEF Heal
  <2>2. CASE call.cmd # "list"
    <3>1. call'.mem = Healed
      BY <1>0, <1>7, <2>2 DEF Heal, CallOK, Call
    <3>2. Tracked' \subseteq Tracked
      <4>1. CASE config' \in {config, NoConfig}
        BY <4>1, SameTracked
      <4>2. CASE config' # NoConfig /\ config # NoConfig /\ config' = [config EXCEPT !.src = Healed]
        BY <1>0, <4>2, NewTracked, HealedType DEF Shapes
      <4> QED
        BY <1>7, <4>1, <4>2 DEF Heal, Written, Spoilt
    <3> QED
      BY <1>0, <3>1, <3>2, HealedType DEF ReadSources
  <2> QED
    BY <2>1, <2>2
<1>8. CASE Refuse \/ Launch \/ Quit \/ Configure \/ Outside \/ vars' = vars
  BY <1>3, <1>8 DEF Refuse, Launch, Quit, Configure, Outside, vars
<1> QED
  BY <1>4, <1>5, <1>6, <1>7, <1>8 DEF Next, Step

\* Sources are forgotten by remove_source alone: the commands that write config.json put
\* into it the sources they found there, and between the reading and the writing of add
\* and remove no other command runs.
THEOREM SourcesKeptTheorem == Spec => SourcesKept
<1>1. Init => SourcesInv
  BY TypeInit, IdleType DEF Init, SourcesInv, ReadSources
<1>2. SourcesInv /\ [Next]_vars => SourcesInv'
  BY NextType, SourcesNext DEF SourcesInv
<1>3. SourcesInv /\ [Next]_vars =>
        [\A p \in Tracked :
           \/ p \in Tracked'
           \/ call.cmd = "remove" /\ call.label = p
           \/ config' = NoConfig]_vars
  BY SourcesStep DEF KeepsSources
<1> QED
  BY <1>1, <1>2, <1>3, PTL DEF Spec, SourcesKept

================================================================================
