------------------------------ MODULE BmuSchedule ------------------------------
(***************************************************************************)
(* The GUI's schedules: gui/src-tauri/src/schedule.rs with the saved       *)
(* configuration (config.rs), the list of sources (sources.rs) and the     *)
(* commands of lib.rs that change them.  Four things have to agree: the    *)
(* mirror in config.json, the definition files (.plist or .timer), what    *)
(* launchd or systemd has loaded, and the wrapper script that is then run. *)
(*                                                                         *)
(* A command is a list of steps (call.todo), any of which may fail or be   *)
(* the last one before a kill.  Commands run one at a time: they are       *)
(* synchronous, on the main thread.                                        *)
(***************************************************************************)
EXTENDS Naturals, Sequences

CONSTANTS
    Path,           \* paths of backup sources
    House,          \* the label of the housekeeping schedule
    Bin,            \* bin directories of installed scripts
    Asked,          \* the schedules a user may ask for
    Off,            \* no schedule
    Untracked,      \* a path that is no backup source
    Unknown,        \* of a schedule: the user was told nothing definite
    NoConfig,       \* config.json is absent or cannot be parsed
    Missing,        \* no such file
    Half,           \* a wrapper script written in part
    Closed, Setup,  \* of the app: not running; showing the setup screen
    MayFail,        \* the kinds of step that may fail
    MaxCalls        \* bound: commands, failures, kills and changes from outside

Label == Path \cup {House}
Stem == {"hinted", "bare"}
Backend == {"none", "rclone", "proton", "local"}

ASSUME ScheduleAssumption ==
    /\ House \notin Path
    /\ MaxCalls \in Nat
    /\ Asked \subseteq [kind : {"daily"}, hour : Nat, minute : Nat]
                     \cup [kind : {"interval"}, minutes : Nat]

VARIABLES
    platform,       \* "launchd" or "systemd"
    config,         \* config.json
    timer,          \* timer[l][st]: the definition file of label l under stem st
    wrapper,        \* wrapper[l][st]: the script it starts
    job,            \* job[l]: what the system has loaded for l
    setup,          \* setup[b]: the replication backend in b/backmeup.setup.sh
    app,            \* the window: closed, setup screen, or the dashboard of a bin directory
    call,           \* the command being executed
    told,           \* observed: what the user was last told about the schedule of l
    stale,          \* observed: labels whose wrapper has reasons to differ since its last check
    left            \* commands, failures, kills and changes from outside left

files == <<timer, wrapper>>
vars == <<platform, config, timer, wrapper, job, setup, app, call, told, stale, left>>

--------------------------------------------------------------------------------
(* Schedules, and the files made of them. *)

Daily(h, m) == [kind |-> "daily", hour |-> h, minute |-> m]
Interval(n) == [kind |-> "interval", minutes |-> n]

Valid(s) ==
    /\ s.kind = "daily" => s.hour <= 23 /\ s.minute <= 59
    /\ s.kind = "interval" => s.minutes # 0

Empty == [key \in {} |-> 0]

BuildPlist(s) ==
    IF s.kind = "daily" THEN [Hour |-> s.hour, Minute |-> s.minute]
                        ELSE [StartInterval |-> s.minutes * 60]

\* An entry that is not there makes the whole schedule None.
ParsePlist(f) ==
    IF "StartInterval" \in DOMAIN f THEN Interval(f.StartInterval \div 60)
    ELSE IF {"Hour", "Minute"} \subseteq DOMAIN f THEN Daily(f.Hour, f.Minute)
    ELSE Off

\* OnCalendar=*-*-* hh:mm:00, or OnCalendar=*:0/N.
BuildTimer(s) ==
    IF s.kind = "daily" THEN [at |-> <<s.hour, s.minute>>] ELSE [step |-> s.minutes]

ParseTimer(f) ==
    IF "step" \in DOMAIN f THEN Interval(f.step)
    ELSE IF "at" \in DOMAIN f THEN Daily(f.at[1], f.at[2])
    ELSE Off

Build(s) == IF platform = "launchd" THEN BuildPlist(s) ELSE BuildTimer(s)
Parse(f) == IF platform = "launchd" THEN ParsePlist(f) ELSE ParseTimer(f)

\* When the system starts what it has loaded.  *:0/N are the minutes 0, N, 2N, ... of
\* every hour, which are N apart only when N divides 60.
Fires(f) ==
    IF "step" \in DOMAIN f /\ 60 % f.step # 0 THEN Off ELSE Parse(f)

--------------------------------------------------------------------------------
(* Wrapper scripts. *)

\* A housekeeping script replicates with the script of the backend configured when it
\* was built; "none" has none.
ScheduledScript(backend) ==
    CASE backend \in {"rclone", "local"} -> "backmeup.replicate.sh"
      [] backend = "proton" -> "backmeup.replicate.proton.sh"
      [] OTHER -> "none"

Wrapper(l, b) ==
    [bin |-> b, then |-> IF l = House THEN ScheduledScript(setup[b]) ELSE "none"]

\* What stands for nothing is taken for nothing else.
ASSUME MarkersAssumption ==
    /\ Off # Untracked /\ {Off, Untracked} \cap Asked = {}
    /\ Closed # Setup /\ {Closed, Setup} \cap Bin = {}
    /\ \A s \in Asked, st \in Stem :
         /\ Missing \notin {BuildPlist(s), BuildTimer(s)}
         /\ Off \notin {[file |-> BuildPlist(s), stem |-> st], [file |-> BuildTimer(s), stem |-> st]}
    /\ \A b \in Bin, k \in Backend : Missing # [bin |-> b, then |-> ScheduledScript(k)]

\* A source's files carry its name in the file name; housekeeping's never do, and a
\* source's did not in older versions.
StemOf(l) == IF l = House THEN "bare" ELSE "hinted"

\* schedule::status reads the definition file, or else the one an older version left.
Status(l) ==
    IF timer[l][StemOf(l)] # Missing THEN Parse(timer[l][StemOf(l)])
    ELSE IF timer[l]["bare"] # Missing THEN Parse(timer[l]["bare"])
    ELSE Off

\* What really happens: a loaded job starts its wrapper, if that is there.
Running(l) ==
    IF job[l] # Off /\ wrapper[l][job[l].stem] # Missing THEN Fires(job[l].file) ELSE Off

--------------------------------------------------------------------------------
(* config.json: load gives it or NoConfig; every write replaces the whole file. *)

Tracked == IF config = NoConfig THEN {} ELSE {p \in Path : config.src[p] # Untracked}

Mirror(l) ==
    IF l \in Tracked THEN config.src[l]
    ELSE IF l = House /\ config # NoConfig THEN config.hk ELSE Off

\* save: a new bin directory beside what was saved.
BugWithBin(b) ==                        \* starts from nothing
    [bin |-> b, src |-> [p \in Path |-> Untracked], hk |-> Off]

WithBin(b) ==
    IF config = NoConfig
    THEN [bin |-> b, src |-> [p \in Path |-> Untracked], hk |-> Off]
    ELSE [config EXCEPT !.bin = b]

\* sources::list: each source with what its files say.
Healed == [p \in Path |-> IF p \in Tracked THEN Status(p) ELSE Untracked]

--------------------------------------------------------------------------------
(* Commands and their steps. *)

Install ==
    IF platform = "launchd" THEN <<"drop_old", "wrapper", "timer", "unload", "load">>
                            ELSE <<"drop_old", "wrapper", "timer", "reload", "load">>

Uninstall ==
    IF platform = "launchd" THEN <<"unload", "drop_all">>
                            ELSE <<"unload", "drop_all", "reload">>

Steps(cmd) ==
    CASE cmd = "set" -> Install \o <<"mirror">>
      [] cmd = "clear" -> Uninstall \o <<"mirror">>
      [] cmd = "list" -> <<"heal">>
      [] cmd = "add" -> <<"heal", "track">>
      [] cmd = "remove" -> <<"heal">> \o Uninstall \o <<"untrack">>
      [] cmd = "use" -> <<"save">>

Nothing == [p \in Path |-> Untracked]

\* script: the wrapper's text, composed before the first step; mem: the sources as
\* sources::list returned them to add and remove.
Idle == [cmd |-> "none", label |-> House, sched |-> Off, bin |-> Setup,
         script |-> Missing, todo |-> <<>>, mem |-> Nothing]

Resting == call.cmd = "none"
Doing(step) == call.todo # <<>> /\ Head(call.todo) = step
GoOn == call' = [call EXCEPT !.todo = Tail(@)] /\ UNCHANGED told

\* A step fails.
Fails(kind) == kind \in MayFail /\ left > 0 /\ left' = left - 1

\* The last step is done: a schedule is now known to be as asked.
Succeed ==
    /\ call' = Idle
    /\ told' = IF call.cmd \in {"set", "clear", "remove"}
               THEN [told EXCEPT ![call.label] = call.sched] ELSE told

\* The command returns an error: of a schedule, the user knows nothing for sure.
GiveUp ==
    /\ call' = Idle
    /\ told' = IF call.cmd \in {"set", "clear", "remove"}
               THEN [told EXCEPT ![call.label] = Unknown] ELSE told

Start(cmd, l, s, b) ==
    /\ Resting /\ app # Closed
    /\ app = Setup => cmd = "use"
    /\ call' = [Idle EXCEPT !.cmd = cmd, !.label = l, !.sched = s, !.bin = b,
                            !.script = IF cmd = "set" THEN Wrapper(l, b) ELSE Missing,
                            !.todo = Steps(cmd)]
    /\ UNCHANGED <<platform, config, files, job, setup, app, told, stale>>

\* set_source_schedule and set_housekeeping_schedule.
BugStartSet ==                          \* without the check
    /\ left > 0 /\ left' = left - 1
    /\ \E l \in Label, s \in Asked : Start("set", l, s, app)

StartSet ==
    /\ left > 0 /\ left' = left - 1
    /\ \E l \in Label, s \in Asked : Valid(s) /\ Start("set", l, s, app)

\* schedule::install refuses such a schedule before anything is done.
Refuse ==
    /\ Resting /\ app \in Bin
    /\ \E s \in Asked : ~Valid(s)
    /\ UNCHANGED vars

\* clear_source_schedule and clear_housekeeping_schedule, add_source, remove_source, and
\* config::save, with which install_bmug2 and apply_update end.
StartOther ==
    /\ left > 0 /\ left' = left - 1
    /\ \/ \E l \in Label : Start("clear", l, Off, app)
       \/ \E p \in Path : Start("add", p, Off, app) \/ Start("remove", p, Off, app)
       \/ \E b \in Bin : Start("use", House, Off, b)

\* list_sources, each time the dashboard is shown.
StartList == Start("list", House, Off, app) /\ UNCHANGED left

\* Files of an older version go first, those of a source only.
DropOld ==
    LET l == call.label IN
    /\ Doing("drop_old")
    /\ IF StemOf(l) = "bare"
       THEN UNCHANGED files
       ELSE /\ wrapper' = [wrapper EXCEPT ![l]["bare"] = Missing]
            /\ timer' = [timer EXCEPT ![l]["bare"] = Missing]
    /\ GoOn
    /\ UNCHANGED <<platform, config, job, setup, app, stale, left>>

\* The wrapper is written in place and made executable.
WriteWrapper ==
    LET l == call.label IN
    /\ Doing("wrapper")
    /\ \/ /\ wrapper' = [wrapper EXCEPT ![l][StemOf(l)] = call.script]
          /\ stale' = IF call.script = Wrapper(l, call.bin) THEN stale \ {l} ELSE stale
          /\ GoOn
          /\ UNCHANGED left
       \/ /\ Fails("wrapper")
          /\ wrapper' \in {wrapper, [wrapper EXCEPT ![l][StemOf(l)] = Half]}
          /\ stale' = stale \cup {l}
          /\ GiveUp
    /\ UNCHANGED <<platform, config, timer, job, setup, app>>

\* The definition file (and, for systemd, the service) is written in place.
WriteTimer ==
    LET l == call.label IN
    /\ Doing("timer")
    /\ \/ /\ timer' = [timer EXCEPT ![l][StemOf(l)] = Build(call.sched)]
          /\ GoOn
          /\ UNCHANGED left
       \/ /\ Fails("timer")
          /\ timer' \in {timer, [timer EXCEPT ![l][StemOf(l)] = Empty]}
          /\ GiveUp
    /\ UNCHANGED <<platform, config, wrapper, job, setup, app, stale>>

\* launchctl bootout, systemctl disable --now: the result is not looked at.
Unload ==
    /\ Doing("unload")
    /\ \/ job' = [job EXCEPT ![call.label] = Off] /\ UNCHANGED left
       \/ Fails("unload") /\ UNCHANGED job
    /\ GoOn
    /\ UNCHANGED <<platform, config, files, setup, app, stale>>

\* systemctl daemon-reload: every unit is as its file is now.
Reloaded(l) ==
    IF job[l] = Off \/ timer[l][job[l].stem] = Missing THEN Off
    ELSE [job[l] EXCEPT !.file = timer[l][job[l].stem]]

\* In install the error ends the command, in uninstall it is dropped.
Reload ==
    /\ Doing("reload")
    /\ \/ /\ job' = [l \in Label |-> Reloaded(l)]
          /\ GoOn
          /\ UNCHANGED left
       \/ /\ Fails("reload")
          /\ UNCHANGED job
          /\ IF call.cmd = "set" THEN GiveUp ELSE GoOn
    /\ UNCHANGED <<platform, config, files, setup, app, stale>>

\* launchctl bootstrap, which fails on a label that is still loaded; systemctl enable.
Load ==
    LET l == call.label
        Loaded == platform = "launchd" /\ job[l] # Off IN
    /\ Doing("load")
    /\ \/ /\ ~Loaded
          /\ job' = [job EXCEPT ![l] = [file |-> timer[l][StemOf(l)], stem |-> StemOf(l)]]
          /\ GoOn
          /\ UNCHANGED left
       \/ /\ (Loaded /\ UNCHANGED left) \/ Fails("load")
          /\ GiveUp
          /\ UNCHANGED job
    /\ UNCHANGED <<platform, config, files, setup, app, stale>>

\* uninstall removes the files under both stems.  Only a kill can come in between: no other
\* command runs then.
BugDropAll ==                           \* under the present one only
    LET l == call.label IN
    /\ Doing("drop_all")
    /\ timer' = [timer EXCEPT ![l][StemOf(l)] = Missing]
    /\ wrapper' = [wrapper EXCEPT ![l][StemOf(l)] = Missing]
    /\ GoOn
    /\ UNCHANGED <<platform, config, job, setup, app, stale, left>>

DropAll ==
    LET l == call.label IN
    /\ Doing("drop_all")
    /\ timer' = [timer EXCEPT ![l] = [st \in Stem |-> Missing]]
    /\ wrapper' = [wrapper EXCEPT ![l] = [st \in Stem |-> Missing]]
    /\ GoOn
    /\ UNCHANGED <<platform, config, job, setup, app, stale, left>>

--------------------------------------------------------------------------------
(* Steps that write config.json.  The file is written in place: a failure may leave the  *)
(* old one, or what load cannot parse.                                                   *)

Written(new) == config' = new /\ UNCHANGED left
Spoilt == config' \in {config, NoConfig}

\* set_source_schedule and set_housekeeping_schedule of config.rs.
WithMirror(l, s) ==
    IF l = House THEN [config EXCEPT !.hk = s] ELSE [config EXCEPT !.src[l] = s]

SetMirror ==
    /\ Doing("mirror")
    /\ IF call.label \in Tracked \/ (call.label = House /\ config # NoConfig)
       THEN \/ Written(WithMirror(call.label, call.sched)) /\ Succeed
            \/ Fails("config") /\ Spoilt /\ GiveUp
       ELSE GiveUp /\ UNCHANGED <<config, left>>
    /\ UNCHANGED <<platform, files, job, setup, app, stale>>

\* list writes when a source differs from its files, and drops the error.
BugHeal ==                              \* shows what is true, and does not save it
    /\ Doing("heal")
    /\ UNCHANGED <<config, left>>
    /\ call' = IF call.cmd = "list" THEN Idle
               ELSE [call EXCEPT !.todo = Tail(@), !.mem = Healed]
    /\ UNCHANGED <<platform, files, job, setup, app, told, stale>>

Heal ==
    /\ Doing("heal")
    /\ IF config = NoConfig \/ config.src = Healed THEN UNCHANGED <<config, left>>
       ELSE \/ Written([config EXCEPT !.src = Healed])
            \/ Fails("config") /\ Spoilt
    /\ call' = IF call.cmd = "list" THEN Idle
               ELSE [call EXCEPT !.todo = Tail(@), !.mem = Healed]
    /\ UNCHANGED <<platform, files, job, setup, app, told, stale>>

\* save_sources, with which add and remove end.
SaveSources(src) ==
    \/ config # NoConfig /\ Written([config EXCEPT !.src = src]) /\ Succeed
    \/ config # NoConfig /\ Fails("config") /\ Spoilt /\ GiveUp
    \/ config = NoConfig /\ GiveUp /\ UNCHANGED <<config, left>>

Track ==
    LET p == call.label IN
    /\ Doing("track")
    /\ IF call.mem[p] = Untracked THEN SaveSources([call.mem EXCEPT ![p] = Off])
                                  ELSE GiveUp /\ UNCHANGED <<config, left>>
    /\ UNCHANGED <<platform, files, job, setup, app, stale>>

\* Only now, with the timer gone, does remove find out that the path is not tracked.
Untrack ==
    LET p == call.label IN
    /\ Doing("untrack")
    /\ IF call.mem[p] # Untracked THEN SaveSources([call.mem EXCEPT ![p] = Untracked])
                                  ELSE GiveUp /\ UNCHANGED <<config, left>>
    /\ UNCHANGED <<platform, files, job, setup, app, stale>>

\* Wrappers made for another directory are out of date from now on.
Save ==
    /\ Doing("save")
    /\ \/ /\ Written(WithBin(call.bin))
          /\ Succeed
          /\ app' = call.bin
          /\ stale' = IF config # NoConfig /\ config.bin = call.bin THEN stale ELSE Label
       \/ /\ Fails("config") /\ Spoilt /\ GiveUp
          /\ UNCHANGED <<app, stale>>
    /\ UNCHANGED <<platform, files, job, setup>>

Step ==
    \/ DropOld \/ WriteWrapper \/ WriteTimer \/ Unload \/ Reload \/ Load \/ DropAll
    \/ SetMirror \/ Heal \/ Track \/ Untrack \/ Save

--------------------------------------------------------------------------------
(* The application, and what happens outside it. *)

\* What reconcile_installed_wrappers rewrites: wrappers that are there under the present
\* stem, of labels that the mirror says are scheduled.
Kept == {l \in Label : Mirror(l) # Off /\ wrapper[l][StemOf(l)] # Missing}

\* reconcile_wrapper_at: a file beside it is written and renamed, so that no half of it is
\* ever there to be started.
Reconciled(l) == [wrapper[l] EXCEPT ![StemOf(l)] = Wrapper(l, config.bin)]

BugLaunch ==                            \* forgets the housekeeping wrapper
    /\ app = Closed
    /\ \E failed \in IF "reconcile" \in MayFail THEN SUBSET Kept ELSE {{}} :
         LET done == Kept \ failed IN
         /\ wrapper' = [l \in Label |->
                IF l \in done \ {House} THEN Reconciled(l) ELSE wrapper[l]]
         /\ stale' = stale \ done
    /\ app' \in {Setup} \cup IF config = NoConfig THEN {} ELSE {config.bin}
    /\ UNCHANGED <<platform, config, timer, job, setup, call, told, left>>

\* run: a wrapper that cannot be rewritten stays as it is.  check_existing_install then
\* decides between the dashboard and the setup screen, by what is in the directory.
Launch ==
    /\ app = Closed
    /\ \E failed \in IF "reconcile" \in MayFail THEN SUBSET Kept ELSE {{}} :
         LET done == Kept \ failed IN
         /\ wrapper' = [l \in Label |->
                IF l \in done THEN Reconciled(l) ELSE wrapper[l]]
         /\ stale' = stale \ done
    /\ app' \in {Setup} \cup IF config = NoConfig THEN {} ELSE {config.bin}
    /\ UNCHANGED <<platform, config, timer, job, setup, call, told, left>>

\* Only leaving the dashboard is counted: from the setup screen nothing else may be left.
Quit ==
    /\ app # Closed /\ Resting
    /\ IF app = Setup THEN UNCHANGED left ELSE left > 0 /\ left' = left - 1
    /\ app' = Closed
    /\ UNCHANGED <<platform, config, files, job, setup, call, told, stale>>

\* A removal of files, cut short.  uninstall goes from the present stem to the bare one and
\* takes the definition before the wrapper; for systemd it disables a job of an older
\* version only after the files under the present stem.  install takes the wrapper first.
PartlyDropped ==
    LET l == call.label
        Without(f, gone) == [f EXCEPT ![l] = [st \in Stem |-> IF st \in gone THEN Missing ELSE f[l][st]]]
        OldUnit == platform = "systemd" /\ job[l] # Off /\ job[l].stem = "bare" IN
    \E timers, wrappers \in SUBSET Stem :
        /\ \/ /\ Doing("drop_all")
              /\ wrappers \subseteq timers /\ ("bare" \in timers => "hinted" \in wrappers)
           \/ Doing("unload") /\ OldUnit /\ wrappers \subseteq timers /\ timers \subseteq {"hinted"}
           \/ Doing("drop_old") /\ l # House /\ timers = {} /\ wrappers = {"bare"}
        /\ timer' = Without(timer, timers)
        /\ wrapper' = Without(wrapper, wrappers)

\* A kill in the middle of a step, which may have written part of a file.
Kill ==
    LET l == call.label
        st == StemOf(l)
        Writing == Doing("mirror") \/ Doing("heal") \/ Doing("track") \/ Doing("untrack") \/ Doing("save")
    IN
    /\ left > 0 /\ left' = left - 1
    /\ ~Resting
    /\ GiveUp
    /\ app' = Closed
    /\ config' \in {config} \cup IF Writing THEN {NoConfig} ELSE {}
    /\ \/ UNCHANGED files
       \/ Doing("wrapper") /\ wrapper' = [wrapper EXCEPT ![l][st] = Half] /\ UNCHANGED timer
       \/ Doing("timer") /\ timer' = [timer EXCEPT ![l][st] = Empty] /\ UNCHANGED wrapper
       \/ PartlyDropped
    /\ stale' = IF Doing("wrapper") THEN stale \cup {l} ELSE stale
    /\ UNCHANGED <<platform, job, setup>>

\* set_replication, clear_replication, or backmeup.configure.sh by hand.
Configure ==
    /\ left > 0 /\ left' = left - 1
    /\ \E b \in Bin, k \in Backend : setup[b] # k /\ setup' = [setup EXCEPT ![b] = k]
    /\ stale' = stale \cup {House}
    /\ UNCHANGED <<platform, config, files, job, app, call, told>>

\* A schedule is removed with the system's own tools, between two commands.
Outside ==
    /\ left > 0 /\ left' = left - 1
    /\ Resting
    /\ \E l \in Label :
         /\ job[l] # Off \/ \E st \in Stem : timer[l][st] # Missing
         /\ job' = [job EXCEPT ![l] = Off]
         /\ timer' = [timer EXCEPT ![l] = [st \in Stem |-> Missing]]
         /\ told' = [told EXCEPT ![l] = Unknown]
    /\ UNCHANGED <<platform, config, wrapper, setup, app, call, stale>>

None == [st \in Stem |-> Missing]
OldJob(s) == [file |-> Build(s), stem |-> "bare"]

\* A machine without bmug2.
Fresh ==
    /\ config = NoConfig
    /\ timer = [l \in Label |-> None]
    /\ wrapper = [l \in Label |-> None]
    /\ job = [l \in Label |-> Off]
    /\ setup = [b \in Bin |-> "none"]
    /\ stale = {}

\* Everything scheduled by an older version of the GUI.
Upgraded ==
    \E b \in Bin, s \in Asked :
        /\ Valid(s)
        /\ config = [bin |-> b, src |-> [p \in Path |-> s], hk |-> s]
        /\ timer = [l \in Label |-> [None EXCEPT !["bare"] = Build(s)]]
        /\ wrapper = [l \in Label |-> [None EXCEPT !["bare"] = [bin |-> b, then |-> "none"]]]
        /\ job = [l \in Label |-> OldJob(s)]
        /\ setup = [c \in Bin |-> "local"]
        /\ stale = Label

Init ==
    /\ platform \in {"launchd", "systemd"}
    /\ Fresh \/ Upgraded
    /\ app = Closed
    /\ call = Idle
    /\ told = [l \in Label |-> Unknown]
    /\ left = MaxCalls

Next ==
    \/ StartSet \/ Refuse \/ StartOther \/ StartList \/ Step
    \/ Launch \/ Quit \/ Kill \/ Configure \/ Outside

\* Fairness: the user opens the application again and again, a command that runs goes on,
\* and the dashboard asks for the sources whenever it is shown.
Spec == Init /\ [][Next]_vars /\ WF_vars(Launch) /\ WF_vars(Step) /\ WF_vars(StartList)

--------------------------------------------------------------------------------
(* Properties. *)

Schedule == {s \in Asked : Valid(s)} \cup {Off}

\* Types: every variable keeps its shape, and a command its place in its list of steps.
TypeOK ==
    /\ platform \in {"launchd", "systemd"}
    /\ config # NoConfig =>
         /\ config.bin \in Bin
         /\ config.hk \in Schedule
         /\ \A p \in Path : config.src[p] \in Schedule \cup {Untracked}
    /\ \A l \in Label, st \in Stem :
         /\ timer[l][st] \in {Missing, Empty} \cup {Build(s) : s \in Schedule \ {Off}}
         /\ wrapper[l][st] \in {Missing, Half} \cup
              [bin : Bin, then : {"none", "backmeup.replicate.sh", "backmeup.replicate.proton.sh"}]
    /\ \A l \in Label : job[l] # Off => job[l].stem \in Stem
    /\ setup \in [Bin -> Backend]
    /\ app \in Bin \cup {Closed, Setup}
    /\ call.label \in Label /\ (call.todo = <<>> <=> Resting)
    /\ told \in [Label -> Schedule \cup {Unknown}]
    /\ stale \subseteq Label
    /\ left \in 0..MaxCalls

\* A schedule the user was told of, and that no command is changing, is the one that the
\* definition file is read back as, on either system, and the one that is kept: files of
\* an older version, a job that could not be unloaded and commands for other labels
\* change nothing about it.
AsTold ==
    \A l \in Label :
        told[l] # Unknown /\ ~(call.cmd \in {"set", "clear", "remove"} /\ call.label = l)
            => Status(l) = told[l] /\ Running(l) = told[l]

\* reconcile_installed_wrappers: a wrapper that has been looked at since the directory or
\* the backend changed is the one the present configuration would give.
LaunchedCurrent ==
    \A l \in Label \ stale :
        LET w == wrapper[l][StemOf(l)] IN
        config # NoConfig /\ w # Missing => w = Wrapper(l, config.bin)

\* Sources are forgotten by remove_source alone, whichever command writes the file they
\* share with the directory and the schedules, unless the file itself is lost.
SourcesKept ==
    [][\A p \in Tracked :
         \/ p \in Tracked'
         \/ call.cmd = "remove" /\ call.label = p
         \/ config' = NoConfig]_vars

\* What the dashboard shows of a source's schedule comes to agree with its files,
\* whatever happened to them, if the dashboard is shown at all.
MirrorHeals ==
    \A p \in Path :
        (p \in Tracked /\ Mirror(p) # Status(p))
            ~> (p \notin Tracked \/ Mirror(p) = Status(p) \/ app = Setup)

================================================================================
