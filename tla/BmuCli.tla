--------------------------------- MODULE BmuCli --------------------------------
(***************************************************************************)
(* The GUI and the scripts it works on: which installation it shows        *)
(* (lib.rs, version.rs), how it installs and updates one (install.rs),     *)
(* changes its replication (replication.rs) and its ignore patterns        *)
(* (ignore.rs).  All of this happens in files that other programs write    *)
(* too: a bin directory has scripts and, beside them, backmeup.setup.sh,   *)
(* and the GUI reads only the latter to know what the former understand.   *)
(***************************************************************************)
EXTENDS Naturals, Sequences, FiniteSets

CONSTANTS
    Bin,            \* bin directories
    Data,           \* data directories (SYNC, and the history beside it)
    Source,         \* paths of backup sources
    ProjectName,    \* the last component of each path
    Input,          \* ignore settings a user may save
    Releases,       \* sets of published versions
    Guis,           \* versions of the GUI
    Installed,      \* versions found installed at first
    Missing, NoConfig, Closed, Setup, Unmarked, Junk, Unknown,
    MayFail,        \* the kinds of step that may fail
    MaxCalls        \* bound: commands, failures, kills and changes from outside

\* Versions are triples, compared from the left.
Older(v, w) ==
    \E i \in 1..3 : v[i] < w[i] /\ \A j \in 1..(i - 1) : v[j] = w[j]

MinMarked == <<2, 6, 0>>            \* the first that writes BMU_VERSION
MinCompatible == <<2, 11, 0>>
MinFlags == <<2, 14, 0>>
MinLocal == <<2, 18, 7>>

Experimental(v) == v[2] % 2 # 0 \/ v[3] % 2 # 0
Newest(V) == CHOOSE v \in V : \A w \in V : ~Older(v, w)

Tag == (UNION Releases) \cup Installed

\* GitHub lists a release that knows the flags, and pre-releases only since the gate; what
\* stands for nothing is taken for nothing else.
ASSUME CliAssumption ==
    /\ MaxCalls \in Nat
    /\ ProjectName \in [Source -> STRING]
    /\ Tag \cup Guis \subseteq [1..3 -> Nat]
    /\ \A R \in Releases :
         /\ IsFiniteSet(R)
         /\ \E v \in R : ~Experimental(v) /\ ~Older(v, MinFlags)
         /\ \A v \in R : Experimental(v) => ~Older(v, MinCompatible)
    /\ Input \subseteq [git : BOOLEAN, bmu : BOOLEAN, text : STRING]

ASSUME MarkersAssumption ==
    /\ {Missing, Unmarked, Junk} \cap Tag = {} /\ Missing # Junk
    /\ {Missing, NoConfig, Closed, Setup} \cap Bin = {}
    /\ \A v \in Tag \cup {Unmarked}, d \in Data, i \in {"default", "custom"}, b \in Bin,
         k \in {"none", "rclone", "proton", "local"} :
           Missing # [ver |-> v, sync |-> d, index |-> i, inst |-> b, backend |-> k]
    /\ \A g, m \in BOOLEAN : Missing # [git |-> g, bmu |-> m]
    /\ \A d \in Data, x \in Input : Unknown # [sync |-> d, input |-> x]

VARIABLES
    gui,            \* version of the running GUI
    released,       \* what GitHub lists; experimental versions are its pre-releases
    scripts,        \* scripts[b]: version of the scripts in b
    setup,          \* setup[b]: b/backmeup.setup.sh
    saved,          \* the bin directory in config.json
    shown,          \* what the window shows: a dashboard, the setup screen, nothing
    offer,          \* what the settings screen offers
    call,           \* the command being executed
    work,           \* work[cmd]: what is in its temporary directory
    cfg,            \* cfg[d][n]: .bmuconfig of project n in the history beside d
    patterns,       \* patterns[p]: p/.bmuignore
    asked,          \* observed: the settings last saved for p, and where
    touched,        \* observed: bins that someone else removed, or that were copied in part
    left

ignore == <<cfg, patterns, asked>>
vars == <<gui, released, scripts, setup, saved, shown, offer, call, work, ignore, touched, left>>

--------------------------------------------------------------------------------
(* What the GUI reads. *)

\* config::looks_installed
LooksInstalled(b) == scripts[b] # Missing /\ setup[b] # Missing

\* version::read_installed_version
ReadVersion(b) == IF setup[b] = Missing THEN Unmarked ELSE setup[b].ver

AtLeast(b, v) == ReadVersion(b) # Unmarked /\ ~Older(ReadVersion(b), v)

BugCheckCompatible(b) == TRUE
CheckCompatible(b) == AtLeast(b, MinCompatible)
CheckFlagsSupported(b) == AtLeast(b, MinFlags)
LocalSupported(b) == AtLeast(b, MinLocal)

\* replication::get_status
ReplicationStatus(b) == IF setup[b] = Missing THEN "none" ELSE setup[b].backend

\* ignore::get: what is not set counts as gitignore on, bmuignore off.
ReadIgnore(b, p) ==
    LET c == cfg[setup[b].sync][ProjectName[p]] IN
    [git |-> c = Missing \/ c.git, bmu |-> c # Missing /\ c.bmu, text |-> patterns[p]]

--------------------------------------------------------------------------------
(* Offers. *)

Stable(R) == {v \in R : ~Experimental(v)}

BugNewerThan(current) == Stable(released)       \* offers what is there
NewerThan(current) == {v \in Stable(released) : Older(current, v)}

\* find_newest_experimental_tag
ExperimentalFor(current) ==
    {v \in released : Experimental(v) /\ Older(current, v) /\ ~Older(gui, v)}

LatestOf(V) == IF V = {} THEN Missing ELSE Newest(V)
NoOffer == [bin |-> Missing, current |-> Missing, stable |-> Missing, experimental |-> Missing]

Idle == [cmd |-> "none", bin |-> Missing, from |-> Missing, sync |-> Missing, index |-> Missing,
         tag |-> Missing, seen |-> Missing, got |-> Missing, backend |-> Missing, source |-> Missing,
         input |-> Missing, todo |-> <<>>]

Resting == call.cmd = "none"
Doing(step) == call.todo # <<>> /\ Head(call.todo) = step
GoOn == call' = [call EXCEPT !.todo = Tail(@)]
Spend == left > 0 /\ left' = left - 1
Fails(kind) == kind \in MayFail /\ Spend
End == call' = Idle

\* check_for_update, when the settings screen opens.  Nothing is offered when the latest
\* release cannot be read; that the list cannot be read goes unnoticed.
CheckForUpdate ==
    /\ Resting /\ shown \in Bin
    /\ ReadVersion(shown) # Unmarked
    /\ LET current == ReadVersion(shown)
           stable == LatestOf(NewerThan(current))
           Offer(e) == [bin |-> shown, current |-> current, stable |-> stable, experimental |-> e]
       IN \/ /\ offer' = Offer(IF Experimental(current) \/ Experimental(gui)
                               THEN LatestOf(ExperimentalFor(current)) ELSE Missing)
             /\ UNCHANGED left
          \/ Fails("list") /\ offer' = Offer(Missing)
    /\ UNCHANGED <<gui, released, scripts, setup, saved, shown, call, work, ignore, touched>>

--------------------------------------------------------------------------------
(* Installing and updating. *)

InstallSteps == <<"lookup", "download", "extract", "install", "save">>

\* install_new: directories of the user's choice, the latest stable release.
StartNew ==
    /\ Resting /\ shown = Setup /\ Spend
    /\ \E b \in Bin, d \in Data, i \in {"default", "custom"} :
         call' = [Idle EXCEPT !.cmd = "new", !.bin = b, !.sync = d, !.index = i, !.todo = InstallSteps]
    /\ UNCHANGED <<gui, released, scripts, setup, saved, shown, offer, work, ignore, touched>>

\* apply_update: a version that was offered, into the directories in backmeup.setup.sh, of
\* which the install directory need not be where that file was read.
StartUpdate ==
    /\ Resting /\ shown \in Bin /\ offer.bin = shown /\ Spend
    /\ setup[shown] # Missing
    /\ \E t \in {offer.stable, offer.experimental} \ {Missing} :
         call' = [Idle EXCEPT !.cmd = "update", !.bin = setup[shown].inst, !.from = shown,
                              !.sync = setup[shown].sync, !.index = setup[shown].index,
                              !.tag = t, !.seen = offer.current, !.todo = InstallSteps]
    /\ offer' = NoOffer
    /\ UNCHANGED <<gui, released, scripts, setup, saved, shown, work, ignore, touched>>

\* The temporary directory is removed either way, if it can be.
CleanUp ==
    \/ work' = [work EXCEPT ![call.cmd] = {}]
    \/ "cleanup" \in MayFail /\ UNCHANGED work

GiveUpInstall == End /\ CleanUp

Lookup ==
    /\ Doing("lookup")
    /\ LET found == IF call.cmd = "new" THEN Newest(Stable(released)) ELSE call.tag IN
       \/ call' = [call EXCEPT !.todo = Tail(@), !.got = found] /\ UNCHANGED <<work, left>>
       \/ Fails("lookup") /\ GiveUpInstall
    /\ UNCHANGED <<gui, released, scripts, setup, saved, shown, offer, ignore, touched>>

\* curl -sL: an error page is a download like any other.
Download ==
    /\ Doing("download")
    /\ \/ GoOn /\ UNCHANGED left
       \/ Fails("download") /\ call' = [call EXCEPT !.todo = Tail(@), !.got = Junk]
    /\ UNCHANGED <<gui, released, scripts, setup, saved, shown, offer, work, ignore, touched>>

\* What else an earlier call left in the directory makes two directories of it.
BugExtract ==                           \* takes a download for a tarball
    LET inside == work[call.cmd] \cup {call.got} IN
    /\ Doing("extract")
    /\ IF inside = {call.got}
       THEN work' = [work EXCEPT ![call.cmd] = inside] /\ GoOn
       ELSE GiveUpInstall
    /\ UNCHANGED <<gui, released, scripts, setup, saved, shown, offer, ignore, touched, left>>

Extract ==
    LET inside == work[call.cmd] \cup {call.got} IN
    /\ Doing("extract")
    /\ IF call.got = Junk THEN GiveUpInstall
       ELSE IF inside = {call.got}
       THEN work' = [work EXCEPT ![call.cmd] = inside] /\ GoOn
       ELSE GiveUpInstall
    /\ UNCHANGED <<gui, released, scripts, setup, saved, shown, offer, ignore, touched, left>>

Mark(v) == IF Older(v, MinMarked) THEN Unmarked ELSE v

\* install.sh with four directories: settings of the target that have no flag stay.
BugSetupAfter(b) ==
    [ver |-> Mark(call.got), sync |-> call.sync, index |-> call.index, inst |-> b,
     backend |-> "none"]

SetupAfter(b) ==
    [ver |-> Mark(call.got), sync |-> call.sync, index |-> call.index, inst |-> b,
     backend |-> ReplicationStatus(b)]

\* Nobody looks at what mkdir and cp say: the script ends well when they have not.
InstallScript ==
    LET b == call.bin
        copied == [scripts EXCEPT ![b] = call.got]
        configured == [setup EXCEPT ![b] = SetupAfter(b)] IN
    /\ Doing("install")
    /\ \/ /\ scripts' = copied /\ setup' = configured
          /\ touched' = touched \ {b}
          /\ GoOn
          /\ UNCHANGED left
       \/ /\ Fails("copy")
          /\ scripts' \in {scripts, copied} /\ setup' \in {setup, configured}
          /\ touched' = touched \cup {b}
          /\ GoOn
       \/ Fails("install") /\ End /\ UNCHANGED <<scripts, setup, touched>>
    /\ CleanUp
    /\ UNCHANGED <<gui, released, saved, shown, offer, ignore>>

Enter(b) == shown' = b /\ offer' = NoOffer

\* config::save; then the dashboard of the new directory is shown.
Save ==
    /\ Doing("save")
    /\ \/ saved' = call.bin /\ Enter(call.bin) /\ UNCHANGED left
       \/ Fails("config") /\ saved' \in {saved, NoConfig} /\ UNCHANGED <<shown, offer>>
    /\ End
    /\ UNCHANGED <<gui, released, scripts, setup, work, ignore, touched>>

\* use_existing
UseExisting ==
    /\ Resting /\ shown = Setup /\ Spend
    /\ \E b \in Bin :
         /\ LooksInstalled(b) /\ CheckCompatible(b)
         /\ saved' = b
         /\ Enter(b)
    /\ UNCHANGED <<gui, released, scripts, setup, call, work, ignore, touched>>

--------------------------------------------------------------------------------
(* Replication: the gate is passed first, then backmeup.configure.sh decides. *)

StartReplicate ==
    /\ Resting /\ shown \in Bin /\ Spend
    /\ \E k \in {"none", "rclone", "proton", "local"} :
         /\ CheckFlagsSupported(shown)
         /\ k = "local" => LocalSupported(shown)
         /\ call' = [Idle EXCEPT !.cmd = "replicate", !.bin = shown, !.backend = k,
                                 !.todo = <<"configure">>]
    /\ UNCHANGED <<gui, released, scripts, setup, saved, shown, offer, work, ignore, touched>>

\* Which backends the scripts of a version know.
Knows(v, k) ==
    CASE k = "none" -> TRUE
      [] k = "local" -> ~Older(v, MinLocal)
      [] OTHER -> ~Older(v, MinFlags)

\* Without a flag for it the index directory is the default one again.
RunConfigure ==
    LET b == call.bin IN
    /\ Doing("configure")
    /\ \/ /\ IF LooksInstalled(b) /\ Knows(scripts[b], call.backend)
             THEN setup' = [setup EXCEPT ![b].ver = Mark(scripts[b]), ![b].index = "default",
                                         ![b].backend = call.backend]
             ELSE UNCHANGED setup
          /\ UNCHANGED left
       \/ Fails("configure") /\ UNCHANGED setup
    /\ End
    /\ UNCHANGED <<gui, released, scripts, saved, shown, offer, work, ignore, touched>>

--------------------------------------------------------------------------------
(* Ignore settings: two switches beside the history, the patterns in the source. *)

StartIgnore ==
    /\ Resting /\ shown \in Bin /\ Spend
    /\ setup[shown] # Missing
    /\ \E p \in Source, x \in Input :
         call' = [Idle EXCEPT !.cmd = "ignore", !.sync = setup[shown].sync, !.bin = shown,
                              !.source = p, !.input = x, !.todo = <<"switches", "patterns">>]
    /\ UNCHANGED <<gui, released, scripts, setup, saved, shown, offer, work, ignore, touched>>

SwitchesOf(input) == [git |-> input.git, bmu |-> input.bmu]

Forget(S) == asked' = [q \in Source |-> IF q \in S THEN Unknown ELSE asked[q]]

\* Those whose switches are in the file that is written for the source: the namesakes, too.
SameFile ==
    {q \in Source : /\ ProjectName[q] = ProjectName[call.source]
                    /\ asked[q] # Unknown /\ asked[q].sync = call.sync}

\* fs::write empties the file first.  A failure or a kill leaves the old switches, none,
\* the first of the two lines, or both.
TornSwitches ==
    LET n == ProjectName[call.source] IN
    /\ \E torn \in {cfg[call.sync][n], Missing, [git |-> call.input.git, bmu |-> FALSE],
                    SwitchesOf(call.input)} :
         cfg' = [cfg EXCEPT ![call.sync][n] = torn]
    /\ Forget(SameFile)
    /\ UNCHANGED patterns

TornPatterns ==
    LET p == call.source IN
    /\ \E torn \in {patterns[p], "", Junk, call.input.text} : patterns' = [patterns EXCEPT ![p] = torn]
    /\ Forget({p})
    /\ UNCHANGED cfg

WriteSwitches ==
    /\ Doing("switches")
    /\ \/ /\ cfg' = [cfg EXCEPT ![call.sync][ProjectName[call.source]] = SwitchesOf(call.input)]
          /\ Forget(SameFile)
          /\ GoOn
          /\ UNCHANGED <<patterns, left>>
       \/ Fails("switches") /\ TornSwitches /\ End
    /\ UNCHANGED <<gui, released, scripts, setup, saved, shown, offer, work, touched>>

BugWritePatterns ==                     \* only when the patterns are switched on
    LET p == call.source IN
    /\ Doing("patterns")
    /\ patterns' = IF call.input.bmu THEN [patterns EXCEPT ![p] = call.input.text] ELSE patterns
    /\ asked' = [asked EXCEPT ![p] = [sync |-> call.sync, input |-> call.input]]
    /\ End
    /\ UNCHANGED <<gui, released, scripts, setup, saved, shown, offer, work, cfg, touched, left>>

WritePatterns ==
    LET p == call.source IN
    /\ Doing("patterns")
    /\ \/ /\ patterns' = [patterns EXCEPT ![p] = call.input.text]
          /\ asked' = [asked EXCEPT ![p] = [sync |-> call.sync, input |-> call.input]]
          /\ UNCHANGED <<cfg, left>>
       \/ Fails("patterns") /\ TornPatterns
    /\ End
    /\ UNCHANGED <<gui, released, scripts, setup, saved, shown, offer, work, touched>>

Step ==
    \/ Lookup \/ Download \/ Extract \/ InstallScript \/ Save
    \/ RunConfigure \/ WriteSwitches \/ WritePatterns

--------------------------------------------------------------------------------
(* The window, and everybody else. *)

\* check_existing_install.  The temporary directories carry the process's number: of a
\* process that left them full, only one of the same number will find them so.
Launch ==
    /\ shown = Closed
    /\ IF saved # NoConfig /\ LooksInstalled(saved) /\ CheckCompatible(saved)
       THEN Enter(saved)
       ELSE shown' = Setup /\ offer' = NoOffer
    /\ work' \in {work, [c \in {"new", "update"} |-> {}]}
    /\ UNCHANGED <<gui, released, scripts, setup, saved, call, ignore, touched, left>>

Quit ==
    /\ Resting /\ shown # Closed
    /\ shown' = Closed
    /\ UNCHANGED <<gui, released, scripts, setup, saved, offer, call, work, ignore, touched, left>>

\* A kill leaves the temporary directory, and the file that was being written in part.
Kill ==
    /\ ~Resting /\ Spend
    /\ shown' = Closed
    /\ End
    /\ \/ Doing("switches") /\ TornSwitches
       \/ Doing("patterns") /\ TornPatterns
       \/ call.cmd # "ignore" /\ UNCHANGED ignore
    /\ saved' \in {saved} \cup IF Doing("save") THEN {NoConfig} ELSE {}
    /\ UNCHANGED <<gui, released, scripts, setup, offer, work, touched>>

\* git pull in a checkout: the scripts are newer than what setup.sh says.
Pull ==
    /\ Spend
    /\ \E b \in Bin, v \in released :
         /\ scripts[b] # Missing /\ Older(scripts[b], v)
         /\ scripts' = [scripts EXCEPT ![b] = v]
    /\ UNCHANGED <<gui, released, setup, saved, shown, offer, call, work, ignore, touched>>

\* backmeup.configure.sh by hand.
Reconfigure ==
    /\ Spend
    /\ \E b \in Bin :
         /\ LooksInstalled(b)
         /\ \E k \in {"none", "local", setup[b].backend} :
              /\ Knows(scripts[b], k)
              /\ setup' = [setup EXCEPT ![b].ver = Mark(scripts[b]), ![b].backend = k,
                                        ![b].index = "default"]
    /\ UNCHANGED <<gui, released, scripts, saved, shown, offer, call, work, ignore, touched>>

\* An installation is deleted.
Remove ==
    /\ Spend
    /\ \E b \in Bin :
         /\ scripts[b] # Missing
         /\ scripts' = [scripts EXCEPT ![b] = Missing]
         /\ setup' = [setup EXCEPT ![b] = Missing]
         /\ touched' = touched \cup {b}
    /\ UNCHANGED <<gui, released, saved, shown, offer, call, work, ignore>>

\* At first every bin is empty, an installation, or a checkout that installs elsewhere.
Init ==
    /\ gui \in Guis /\ released \in Releases
    /\ scripts \in [Bin -> {Missing} \cup Installed]
    /\ \E d \in Data, target \in Bin :
         setup = [b \in Bin |-> IF scripts[b] = Missing THEN Missing
                                ELSE [ver |-> Mark(scripts[b]), sync |-> d, index |-> "custom",
                                      inst |-> target, backend |-> "none"]]
    /\ saved = NoConfig /\ shown = Closed
    /\ offer = NoOffer /\ call = Idle
    /\ work = [c \in {"new", "update"} |-> {}]
    /\ cfg = [d \in Data |-> [n \in {ProjectName[p] : p \in Source} |-> Missing]]
    /\ patterns = [p \in Source |-> ""]
    /\ asked = [p \in Source |-> Unknown]
    /\ touched = {} /\ left = MaxCalls

Next ==
    \/ CheckForUpdate \/ StartNew \/ StartUpdate \/ UseExisting \/ StartReplicate \/ StartIgnore
    \/ Step \/ Launch \/ Quit \/ Kill \/ Pull \/ Reconfigure \/ Remove

Spec == Init /\ [][Next]_vars

--------------------------------------------------------------------------------
(* Properties. *)

\* Types.
TypeOK ==
    /\ gui \in Guis /\ released \in Releases
    /\ scripts \in [Bin -> {Missing} \cup Tag]
    /\ \A b \in Bin : setup[b] # Missing =>
         setup[b] \in [ver : Tag \cup {Unmarked}, sync : Data, index : {"default", "custom"},
                       inst : Bin, backend : {"none", "rclone", "proton", "local"}]
    /\ saved \in Bin \cup {NoConfig}
    /\ shown \in Bin \cup {Closed, Setup}
    /\ offer.stable \in Tag \cup {Missing} /\ offer.experimental \in Tag \cup {Missing}
    /\ (call.todo = <<>>) = Resting
    /\ work \in [{"new", "update"} -> SUBSET Tag]
    /\ touched \subseteq Bin
    /\ left \in 0..MaxCalls

\* The gate of 2.11.0: the dashboard never shows an installation whose scripts would not
\* read the settings it saves, however it came to be shown: started, chosen, installed or
\* updated, and whatever was configured or pulled meanwhile.  Not so one that was removed
\* while it was shown, or of which install.sh copied only a part without saying so.
UsableShown ==
    shown \in Bin \ touched =>
        LooksInstalled(shown) /\ ~Older(scripts[shown], MinCompatible)

\* What was saved of a source's ignore patterns is what is shown of them and what its next
\* backup goes by, until the switches of a source with the same name, or its own settings,
\* are written again; that may fail or be interrupted.
IgnoreAsSaved ==
    \A p \in Source :
        /\ asked[p] # Unknown
        /\ shown \in Bin /\ setup[shown] # Missing /\ setup[shown].sync = asked[p].sync
        => ReadIgnore(shown, p) = asked[p].input

InPlace == call.cmd = "update" /\ call.bin = call.from

\* apply_update "refreshes" an installation: of its settings only the version changes,
\* whatever was configured while it downloaded, but for the directories: they are the
\* ones it read at first.
SettingsKept ==
    [][Doing("install") /\ call' # call /\ InPlace /\ setup[call.bin] # Missing =>
         LET now == [setup[call.bin] EXCEPT !.index = call.index, !.sync = call.sync, !.inst = call.bin] IN
         setup'[call.bin] \in {setup[call.bin], [now EXCEPT !.ver = Mark(call.got)]}]_vars

\* The scripts know what is configured for them, and so do those of the release that
\* backmeup.setup.sh names, by which an update is offered.
Understood(b) ==
    setup[b] # Missing =>
        \A v \in {scripts[b], ReadVersion(b)} \ {Unmarked, Missing} : Knows(v, ReplicationStatus(b))

\* Scripts never lose the replication backend that is configured for them, unless an
\* older release is installed over them from the setup screen or from another directory,
\* or they were configured anew since the update was offered.
BackendUnderstood ==
    [][\A b \in Bin :
         \/ Understood(b) => Understood(b)'
         \/ Doing("install") /\ call.bin = b /\ (~InPlace \/ ReadVersion(b) # call.seen)]_vars

================================================================================
