-------------------------------- MODULE BmuLock --------------------------------
(***************************************************************************)
(* The per-project lock of bin/backmeup.shellfunctions.sh: bmuAcquireLock  *)
(* and bmuReleaseLock, at the granularity of the file system calls they    *)
(* make on HISTORY/<project>/.bmulock.  Every member of Run is one process *)
(* (a backmeup.sh, backmeup.archive.sh or backmeup.unarchive.sh run); its  *)
(* name doubles as its pid.                                                *)
(*                                                                         *)
(* rm -rf is two steps, as the kernel sees it: unlink the pid file found   *)
(* by name, then rmdir by name, which fails when the directory is not      *)
(* empty.  A run killed by SIGKILL (or a power cut) may stop before any of *)
(* its steps; the pid of a run that ended may be given to an unrelated     *)
(* process.  The runs are all of one user, that process need not be.       *)
(***************************************************************************)
EXTENDS Naturals, FiniteSets

CONSTANTS
    Run,         \* the processes that try to take the lock, each of them once
    NoRun,       \* no process: an absent directory, an absent or empty pid file
    MaxCrash,    \* bound: runs that are killed
    MaxRecycled  \* bound: pids that unrelated processes hold at a time

ASSUME RunAssumption == NoRun \notin Run

VARIABLES
    pc,          \* pc[r]: the step run r takes next
    lockdir,     \* the run whose mkdir made the directory that exists now
    pidfile,     \* what <lockdir>/pid holds
    judged,      \* judged[r]: l_bmu_lockpid of run r
    recycled,    \* pids of ended runs that unrelated processes now have
    (* observed, not part of the program: *)
    crashed,     \* the runs that were killed
    robbed       \* the runs whose lock directory another run removed while they held it

vars == <<pc, lockdir, pidfile, judged, recycled, crashed, robbed>>

--------------------------------------------------------------------------------

Ended == {"refused", "done", "crashed"}
Holding == {"created", "work", "relunlink", "relrmdir"}
Step == {"idle", "exists", "judge", "unlink", "rmdir", "retry"} \cup Holding \cup Ended

\* The process exists.
Alive(r) == pc[r] \notin Ended \cup {"idle"}

\* mkdir succeeded for r, and r has not finished its release.
Holds(r) == pc[r] \in Holding

\* There is a process with pid q.
PidInUse(q) == Alive(q) \/ q \in recycled

GoTo(r, step) == pc' = [pc EXCEPT ![r] = step]

Init ==
    /\ pc = [r \in Run |-> "idle"]
    /\ lockdir = NoRun
    /\ pidfile = NoRun
    /\ judged = [r \in Run |-> NoRun]
    /\ recycled = {}
    /\ crashed = {}
    /\ robbed = {}

--------------------------------------------------------------------------------
(* bmuAcquireLock *)

\* mkdir, the first or the second of bmuAcquireLock: it makes the directory
\* or finds one there, atomically.
BugMkdir(r, at, otherwise) ==          \* mkdir -p: never fails
    /\ pc[r] = at
    /\ lockdir' = IF lockdir = NoRun THEN r ELSE lockdir
    /\ GoTo(r, "created")
    /\ UNCHANGED <<pidfile, judged, recycled, crashed, robbed>>

Mkdir(r, at, otherwise) ==
    /\ pc[r] = at
    /\ \/ /\ lockdir = NoRun
          /\ lockdir' = r
          /\ GoTo(r, "created")
       \/ /\ lockdir # NoRun
          /\ GoTo(r, otherwise)
          /\ UNCHANGED lockdir
    /\ UNCHANGED <<pidfile, judged, recycled, crashed, robbed>>

MkdirFirst(r) == Mkdir(r, "idle", "exists")

BugMkdirAgain(r) == Mkdir(r, "nowhere", "refused")   \* no second mkdir

MkdirAgain(r) == Mkdir(r, "retry", "refused")

\* echo $$ > pid, then return 0.  It writes by name: into whatever directory is
\* there, and nowhere when there is none (the function returns 0 all the same).
WritePid(r) ==
    /\ pc[r] = "created"
    /\ pidfile' = IF lockdir = NoRun THEN NoRun ELSE r
    /\ GoTo(r, "work")
    /\ UNCHANGED <<lockdir, judged, recycled, crashed, robbed>>

\* Read the pid file; without a pid the lock counts as held.
BugReadAnyPid(r) ==                    \* without the test of -n
    /\ pc[r] = "exists"
    /\ judged' = [judged EXCEPT ![r] = pidfile]
    /\ GoTo(r, "judge")
    /\ UNCHANGED <<lockdir, pidfile, recycled, crashed, robbed>>

BugReadPid(r) ==                       \* no pid: goes on to the reclaim
    /\ pc[r] = "exists"
    /\ judged' = [judged EXCEPT ![r] = pidfile]
    /\ GoTo(r, IF pidfile = NoRun THEN "unlink" ELSE "judge")
    /\ UNCHANGED <<lockdir, pidfile, recycled, crashed, robbed>>

ReadPid(r) ==
    /\ pc[r] = "exists"
    /\ judged' = [judged EXCEPT ![r] = pidfile]
    /\ GoTo(r, IF pidfile = NoRun THEN "refused" ELSE "judge")
    /\ UNCHANGED <<lockdir, pidfile, recycled, crashed, robbed>>

\* kill -0: a live pid means the lock is held, a dead one that it is stale.  It fails for
\* another user's process, too: a pid that was given to an unrelated one counts as either.
BugCheckAliveNot(r) ==                 \* the kill -0 test without its "!"
    /\ pc[r] = "judge"
    /\ \/ PidInUse(judged[r]) /\ GoTo(r, "unlink")
       \/ ~Alive(judged[r]) /\ GoTo(r, "refused")
    /\ UNCHANGED <<lockdir, pidfile, judged, recycled, crashed, robbed>>

CheckAlive(r) ==
    /\ pc[r] = "judge"
    /\ \/ PidInUse(judged[r]) /\ GoTo(r, "refused")
       \/ ~Alive(judged[r]) /\ GoTo(r, "unlink")
    /\ UNCHANGED <<lockdir, pidfile, judged, recycled, crashed, robbed>>

--------------------------------------------------------------------------------
(* rm -rf of the lock directory, by a reclaim or by bmuReleaseLock *)

UnlinkPid(r, at, next) ==
    /\ pc[r] = at
    /\ pidfile' = NoRun
    /\ GoTo(r, next)
    /\ UNCHANGED <<lockdir, judged, recycled, crashed, robbed>>

\* rmdir by name; it fails on a directory that got a pid file since the unlink.
Rmdir(r, at, next) ==
    /\ pc[r] = at
    /\ \/ /\ pidfile = NoRun
          /\ lockdir' = NoRun
          /\ robbed' = robbed \cup {q \in Run \ {r} : lockdir = q /\ Holds(q)}
       \/ /\ pidfile # NoRun
          /\ UNCHANGED <<lockdir, robbed>>
    /\ GoTo(r, next)
    /\ UNCHANGED <<pidfile, judged, recycled, crashed>>

Reclaim(r) ==
    \/ UnlinkPid(r, "unlink", "rmdir")
    \/ Rmdir(r, "rmdir", "retry")

\* The run ends, by any exit of the script, and its EXIT trap calls bmuReleaseLock.
BugEndWork(r) ==                       \* no trap
    /\ pc[r] = "work"
    /\ GoTo(r, "done")
    /\ UNCHANGED <<lockdir, pidfile, judged, recycled, crashed, robbed>>

EndWork(r) ==
    /\ pc[r] = "work"
    /\ GoTo(r, "relunlink")
    /\ UNCHANGED <<lockdir, pidfile, judged, recycled, crashed, robbed>>

Release(r) ==
    \/ UnlinkPid(r, "relunlink", "relrmdir")
    \/ Rmdir(r, "relrmdir", "done")

--------------------------------------------------------------------------------
(* The environment *)

\* SIGKILL or a power cut: no trap runs.
Crash(r) ==
    /\ Alive(r)
    /\ Cardinality(crashed) < MaxCrash
    /\ crashed' = crashed \cup {r}
    /\ GoTo(r, "crashed")
    /\ UNCHANGED <<lockdir, pidfile, judged, recycled, robbed>>

\* The system gives the pid of an ended run to an unrelated process, which may end too.
Recycle(q) ==
    /\ pc[q] \in Ended
    /\ \/ /\ q \notin recycled
          /\ Cardinality(recycled) < MaxRecycled
          /\ recycled' = recycled \cup {q}
       \/ /\ q \in recycled
          /\ recycled' = recycled \ {q}
    /\ UNCHANGED <<pc, lockdir, pidfile, judged, crashed, robbed>>

RunStep(r) ==
    \/ MkdirFirst(r) \/ WritePid(r)
    \/ ReadPid(r) \/ CheckAlive(r) \/ Reclaim(r) \/ MkdirAgain(r)
    \/ EndWork(r) \/ Release(r)

Next == \E r \in Run : RunStep(r) \/ Crash(r) \/ Recycle(r)

Spec == Init /\ [][Next]_vars

\* A process the system keeps scheduling: it takes its next step unless it is
\* killed.  A run need not start; one that has the lock ends its work.
Fairness == \A r \in Run : WF_vars(pc[r] # "idle" /\ RunStep(r))

FairSpec == Spec /\ Fairness

--------------------------------------------------------------------------------
(* Properties *)

\* Type invariant; a run that judges a lock, or reclaims it, has a pid to go by, and never
\* its own.
TypeOK ==
    /\ pc \in [Run -> Step]
    /\ lockdir \in Run \cup {NoRun}
    /\ pidfile \in Run \cup {NoRun}
    /\ judged \in [Run -> Run \cup {NoRun}]
    /\ recycled \in SUBSET Run
    /\ crashed \in SUBSET Run
    /\ robbed \in SUBSET Run
    /\ \A r \in Run : pc[r] \in {"judge", "unlink", "rmdir", "retry"} => judged[r] \in Run \ {r}

\* Two runs never work on the same project at the same time.  The code does not
\* keep this: see the run lock_race.
MutualExclusion ==
    \A q, r \in Run : pc[q] = "work" /\ pc[r] = "work" => q = r

\* At most two runs have started so far.
OnlyPair ==
    LET started == {r \in Run : pc[r] # "idle"}
    IN  \A p, q, r \in started : p = q \/ q = r \/ p = r

\* Two runs never get past each other, whatever is killed and whichever pids are
\* reused: it takes a third, even one that ended, to break the exclusion.
PairExclusion == OnlyPair => MutualExclusion

\* Exclusion lasts as long as no holder had its directory removed under it: mkdir,
\* the pid file, the two refusals and the release are sound, and the rm -rf by name
\* is the only way two runs get to work at once.
ExclusionUntilRobbed == robbed = {} => MutualExclusion

\* A run that reclaims does so on the evidence of a process that really ended: it
\* never judges a running holder dead (what it removes may be a later lock).
ReclaimsOnlyEnded ==
    \A r \in Run : pc[r] \in {"unlink", "rmdir", "retry"} =>
        /\ judged[r] \in Run \ {r}
        /\ pc[judged[r]] \in Ended

\* A refusal while no other run is alive has one of three causes: no pid to judge
\* (the maker of the directory died before it wrote one, or half way through an
\* rm -rf), a pid that an unrelated process has now, or a second mkdir lost to a
\* run that came and went since the first.
RefusalExplained ==
    [][\A r \in Run :
          pc[r] # "refused" /\ pc'[r] = "refused" =>
            \/ \E q \in Run \ {r} : Alive(q)
            \/ pidfile = NoRun
            \/ judged[r] \in recycled
            \/ pc[r] = "retry"]_vars

\* Without kills no lock outlives the runs: when every run has ended, whatever they
\* removed or overwrote of each other's, the directory is gone.
NoLockLeft ==
    crashed = {} /\ (\A r \in Run : ~Alive(r)) => lockdir = NoRun

\* The reclaim of a killed run's lock is not in vain: some run gets to work (when
\* no second run is killed: MaxCrash = 1).
ReclaimLeadsToWork ==
    \A r \in Run :
        pc[r] = "unlink" /\ judged[r] \in crashed ~> \E q \in Run : pc[q] = "work"

================================================================================
