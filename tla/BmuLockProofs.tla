----------------------------- MODULE BmuLockProofs -----------------------------
(***************************************************************************)
(* What holds of BmuLock for every set of runs, every number of kills and  *)
(* every reuse of pids.  The strengthenings are conjunctions of named      *)
(* parts, each with the action that would break it.                        *)
(***************************************************************************)
EXTENDS BmuLock, TLAPS

\* The runs that have written their pid.
Wrote == {"work", "relunlink", "relrmdir", "done", "crashed"}

\* A pid file names a run that wrote it (so never one still in bmuAcquireLock).
PidWritten == \A r \in Run : pidfile = r => pc[r] \in Wrote

\* So does the pid a run judges; and a run past the kill -0 judged an ended one.
JudgedWritten ==
    \A r \in Run : pc[r] = "judge" =>
        judged[r] \in Run \ {r} /\ pc[judged[r]] \in Wrote

JudgeInv == TypeOK /\ PidWritten /\ JudgedWritten /\ ReclaimsOnlyEnded

\* As long as nobody was robbed the lock directory belongs to its holder.
HolderOwns == robbed = {} => \A r \in Run : Holds(r) => lockdir = r

\* With two runs it always does: the one a reclaim judged dead is the other one.
PairOwns == OnlyPair => \A r \in Run : Holds(r) => lockdir = r

\* Without kills, a pid file names a run that will unlink it, and while there is a
\* lock directory some run is still on its way to an rmdir.
CalmInv ==
    crashed = {} =>
        /\ \A r \in Run : pidfile = r => pc[r] \in {"work", "relunlink"}
        /\ \A r \in Run : pc[r] # "crashed"
        /\ lockdir # NoRun => \E r \in Run : Holds(r) \/ pc[r] = "rmdir"

--------------------------------------------------------------------------------

LEMMA TypeStep == TypeOK /\ PidWritten /\ [Next]_vars => TypeOK'
<1> SUFFICES ASSUME TypeOK, PidWritten, [Next]_vars PROVE TypeOK'
  OBVIOUS
<1> USE RunAssumption DEF TypeOK, PidWritten, Wrote, Step, Holding, Ended, GoTo
<1>1. ASSUME NEW r \in Run, MkdirFirst(r) PROVE TypeOK'
  BY <1>1 DEF MkdirFirst, Mkdir
<1>2. ASSUME NEW r \in Run, WritePid(r) PROVE TypeOK'
  BY <1>2 DEF WritePid
<1>3. ASSUME NEW r \in Run, ReadPid(r) PROVE TypeOK'
  BY <1>3 DEF ReadPid
<1>4. ASSUME NEW r \in Run, CheckAlive(r) PROVE TypeOK'
  BY <1>4 DEF CheckAlive
<1>5. ASSUME NEW r \in Run, Reclaim(r) PROVE TypeOK'
  BY <1>5 DEF Reclaim, UnlinkPid, Rmdir
<1>6. ASSUME NEW r \in Run, MkdirAgain(r) PROVE TypeOK'
  BY <1>6 DEF MkdirAgain, Mkdir
<1>7. ASSUME NEW r \in Run, EndWork(r) PROVE TypeOK'
  BY <1>7 DEF EndWork
<1>8. ASSUME NEW r \in Run, Release(r) PROVE TypeOK'
  BY <1>8 DEF Release, UnlinkPid, Rmdir
<1>9. ASSUME NEW r \in Run, Crash(r) PROVE TypeOK'
  BY <1>9 DEF Crash
<1>10. ASSUME NEW r \in Run, Recycle(r) PROVE TypeOK'
  BY <1>10 DEF Recycle
<1>11. CASE UNCHANGED vars
  BY <1>11 DEF vars
<1> QED
  BY <1>1, <1>2, <1>3, <1>4, <1>5, <1>6, <1>7, <1>8, <1>9, <1>10, <1>11
     DEF Next, RunStep

--------------------------------------------------------------------------------

LEMMA JudgeStep == JudgeInv /\ [Next]_vars => JudgeInv'
<1> SUFFICES ASSUME JudgeInv, [Next]_vars PROVE JudgeInv'
  OBVIOUS
<1>0. TypeOK'
  BY TypeStep DEF JudgeInv
<1> USE RunAssumption, <1>0
    DEF JudgeInv, TypeOK, PidWritten, JudgedWritten, ReclaimsOnlyEnded, Wrote, GoTo,
        Ended, Step, Holding
<1>1. ASSUME NEW r \in Run, MkdirFirst(r) PROVE JudgeInv'
  BY <1>1 DEF MkdirFirst, Mkdir
<1>2. ASSUME NEW r \in Run, WritePid(r) PROVE JudgeInv'
  BY <1>2 DEF WritePid
<1>3. ASSUME NEW r \in Run, ReadPid(r) PROVE JudgeInv'
  BY <1>3 DEF ReadPid
<1>4. ASSUME NEW r \in Run, CheckAlive(r) PROVE JudgeInv'
  BY <1>4 DEF CheckAlive, PidInUse, Alive
<1>5. ASSUME NEW r \in Run, Reclaim(r) PROVE JudgeInv'
  BY <1>5 DEF Reclaim, UnlinkPid, Rmdir
<1>6. ASSUME NEW r \in Run, MkdirAgain(r) PROVE JudgeInv'
  BY <1>6 DEF MkdirAgain, Mkdir
<1>7. ASSUME NEW r \in Run, EndWork(r) PROVE JudgeInv'
  BY <1>7 DEF EndWork
<1>8. ASSUME NEW r \in Run, Release(r) PROVE JudgeInv'
  BY <1>8 DEF Release, UnlinkPid, Rmdir
<1>9. ASSUME NEW r \in Run, Crash(r) PROVE JudgeInv'
  BY <1>9 DEF Crash, Alive
<1>10. ASSUME NEW r \in Run, Recycle(r) PROVE JudgeInv'
  BY <1>10 DEF Recycle
<1>11. CASE UNCHANGED vars
  BY <1>11 DEF vars
<1> QED
  BY <1>1, <1>2, <1>3, <1>4, <1>5, <1>6, <1>7, <1>8, <1>9, <1>10, <1>11
     DEF Next, RunStep

LEMMA JudgeInvariant == Spec => []JudgeInv
<1>1. Init => JudgeInv
  BY RunAssumption
     DEF Init, JudgeInv, TypeOK, PidWritten, JudgedWritten, ReclaimsOnlyEnded, Step
<1> QED
  BY <1>1, JudgeStep, PTL DEF Spec

\* Type correctness of every reachable state; a run goes by another run's pid alone, whether
\* it judges a lock or reclaims it.
THEOREM TypeCorrect == Spec => []TypeOK
<1>1. JudgeInv => TypeOK
  BY DEF JudgeInv
<1> QED
  BY <1>1, JudgeInvariant, PTL

\* A run that reclaims the lock judged a process that has really ended, whatever
\* the other runs do meanwhile: bmuAcquireLock's kill -0 never condemns a live run.
THEOREM ReclaimSound == Spec => []ReclaimsOnlyEnded
<1>1. JudgeInv => ReclaimsOnlyEnded
  BY DEF JudgeInv
<1> QED
  BY <1>1, JudgeInvariant, PTL

\* A refused run was refused by another one that is alive, or for one of the three causes
\* that bmuAcquireLock cannot tell from it: it is never its own pid that it finds in use.
THEOREM RefusalTheorem == Spec => RefusalExplained
<1> DEFINE Explained(r) ==
      \/ \E q \in Run \ {r} : Alive(q)
      \/ pidfile = NoRun
      \/ judged[r] \in recycled
      \/ pc[r] = "retry"
<1>1. ASSUME JudgeInv, NEW q \in Run, RunStep(q) \/ Crash(q) \/ Recycle(q),
             NEW r \in Run, pc[r] # "refused", pc'[r] = "refused"
      PROVE  Explained(r)
  <2> USE <1>1 DEF JudgeInv, TypeOK, GoTo
  <2>1. ASSUME MkdirFirst(q) \/ WritePid(q) \/ EndWork(q) PROVE FALSE
    BY <2>1 DEF MkdirFirst, Mkdir, WritePid, EndWork
  <2>2. ASSUME Reclaim(q) \/ Release(q) PROVE FALSE
    BY <2>2 DEF Reclaim, Release, UnlinkPid, Rmdir
  <2>3. ASSUME Crash(q) \/ Recycle(q) PROVE FALSE
    BY <2>3 DEF Crash, Recycle
  <2>4. CASE ReadPid(q)
    BY <2>4 DEF ReadPid
  <2>5. CASE MkdirAgain(q)
    BY <2>5 DEF MkdirAgain, Mkdir
  <2>6. CASE CheckAlive(q)
    <3>1. q = r /\ pc[r] = "judge" /\ PidInUse(judged[r])
      BY <2>6 DEF CheckAlive
    <3>2. judged[r] \in Run \ {r}
      BY <3>1 DEF JudgedWritten
    <3> QED
      BY <3>1, <3>2 DEF PidInUse
  <2> QED
    BY <2>1, <2>2, <2>3, <2>4, <2>5, <2>6 DEF RunStep
<1>2. ASSUME JudgeInv, [Next]_vars
      PROVE  [\A r \in Run : pc[r] # "refused" /\ pc'[r] = "refused" => Explained(r)]_vars
  BY <1>1, <1>2 DEF Next
<1> QED
  BY <1>2, JudgeInvariant, PTL DEF Spec, RefusalExplained

--------------------------------------------------------------------------------

LEMMA HolderStep == TypeOK /\ HolderOwns /\ [Next]_vars => HolderOwns'
<1> SUFFICES ASSUME TypeOK, HolderOwns, [Next]_vars, robbed' = {}
             PROVE  (\A r \in Run : Holds(r) => lockdir = r)'
  BY DEF HolderOwns
<1> USE RunAssumption DEF TypeOK, HolderOwns, Holds, Holding, GoTo
<1>1. ASSUME NEW r \in Run, MkdirFirst(r) PROVE (\A q \in Run : Holds(q) => lockdir = q)'
  BY <1>1 DEF MkdirFirst, Mkdir
<1>2. ASSUME NEW r \in Run, WritePid(r) PROVE (\A q \in Run : Holds(q) => lockdir = q)'
  BY <1>2 DEF WritePid
<1>3. ASSUME NEW r \in Run, ReadPid(r) PROVE (\A q \in Run : Holds(q) => lockdir = q)'
  BY <1>3 DEF ReadPid
<1>4. ASSUME NEW r \in Run, CheckAlive(r) PROVE (\A q \in Run : Holds(q) => lockdir = q)'
  BY <1>4 DEF CheckAlive
<1>5. ASSUME NEW r \in Run, Reclaim(r) PROVE (\A q \in Run : Holds(q) => lockdir = q)'
  BY <1>5 DEF Reclaim, UnlinkPid, Rmdir
<1>6. ASSUME NEW r \in Run, MkdirAgain(r) PROVE (\A q \in Run : Holds(q) => lockdir = q)'
  BY <1>6 DEF MkdirAgain, Mkdir
<1>7. ASSUME NEW r \in Run, EndWork(r) PROVE (\A q \in Run : Holds(q) => lockdir = q)'
  BY <1>7 DEF EndWork
<1>8. ASSUME NEW r \in Run, Release(r) PROVE (\A q \in Run : Holds(q) => lockdir = q)'
  BY <1>8 DEF Release, UnlinkPid, Rmdir
<1>9. ASSUME NEW r \in Run, Crash(r) PROVE (\A q \in Run : Holds(q) => lockdir = q)'
  BY <1>9 DEF Crash
<1>10. ASSUME NEW r \in Run, Recycle(r) PROVE (\A q \in Run : Holds(q) => lockdir = q)'
  BY <1>10 DEF Recycle
<1>11. CASE UNCHANGED vars
  BY <1>11 DEF vars
<1> QED
  BY <1>1, <1>2, <1>3, <1>4, <1>5, <1>6, <1>7, <1>8, <1>9, <1>10, <1>11
     DEF Next, RunStep

\* The only way two runs of a project work at the same time is that one removed the
\* lock directory while the other held it.
THEOREM ExclusionTheorem == Spec => []ExclusionUntilRobbed
<1>1. Init => HolderOwns
  BY DEF Init, HolderOwns, Holds, Holding
<1>2. HolderOwns => ExclusionUntilRobbed
  BY DEF HolderOwns, ExclusionUntilRobbed, MutualExclusion, Holds, Holding
<1> QED
  BY <1>1, <1>2, HolderStep, TypeCorrect, PTL DEF Spec

--------------------------------------------------------------------------------

LEMMA PairStep == JudgeInv /\ PairOwns /\ [Next]_vars => PairOwns'
<1> SUFFICES ASSUME JudgeInv, PairOwns, [Next]_vars, OnlyPair'
             PROVE  (\A r \in Run : Holds(r) => lockdir = r)'
  BY DEF PairOwns
<1> DEFINE Owns == \A q \in Run : Holds(q) => lockdir = q
<1>0. OnlyPair
  <2>1. \A r \in Run : pc[r] # "idle" => pc'[r] # "idle"
    BY DEF Next, RunStep, MkdirFirst, MkdirAgain, Mkdir, WritePid, ReadPid, CheckAlive,
           Reclaim, Release, UnlinkPid, Rmdir, EndWork, Crash, Recycle, vars, GoTo,
           JudgeInv, TypeOK
  <2> QED
    BY <2>1 DEF OnlyPair
<1> USE RunAssumption, <1>0
    DEF JudgeInv, TypeOK, ReclaimsOnlyEnded, PairOwns, Holds, Holding, Ended, GoTo
<1>1. ASSUME NEW r \in Run, MkdirFirst(r) PROVE Owns'
  BY <1>1 DEF MkdirFirst, Mkdir
<1>2. ASSUME NEW r \in Run, WritePid(r) PROVE Owns'
  BY <1>2 DEF WritePid
<1>3. ASSUME NEW r \in Run, ReadPid(r) PROVE Owns'
  BY <1>3 DEF ReadPid
<1>4. ASSUME NEW r \in Run, CheckAlive(r) PROVE Owns'
  BY <1>4 DEF CheckAlive
<1>5. ASSUME NEW r \in Run, Reclaim(r) PROVE Owns'
  <2>1. CASE UnlinkPid(r, "unlink", "rmdir")
    BY <2>1 DEF UnlinkPid
  <2>2. CASE Rmdir(r, "rmdir", "retry")
    <3>1. \A q \in Run : ~Holds(q)
      BY <2>2 DEF Rmdir, OnlyPair
    <3> QED
      BY <2>2, <3>1 DEF Rmdir
  <2> QED
    BY <1>5, <2>1, <2>2 DEF Reclaim
<1>6. ASSUME NEW r \in Run, MkdirAgain(r) PROVE Owns'
  BY <1>6 DEF MkdirAgain, Mkdir
<1>7. ASSUME NEW r \in Run, EndWork(r) PROVE Owns'
  BY <1>7 DEF EndWork
<1>8. ASSUME NEW r \in Run, Release(r) PROVE Owns'
  BY <1>8 DEF Release, UnlinkPid, Rmdir
<1>9. ASSUME NEW r \in Run, Crash(r) PROVE Owns'
  BY <1>9 DEF Crash
<1>10. ASSUME NEW r \in Run, Recycle(r) PROVE Owns'
  BY <1>10 DEF Recycle
<1>11. CASE UNCHANGED vars
  BY <1>11 DEF vars
<1> QED
  BY <1>1, <1>2, <1>3, <1>4, <1>5, <1>6, <1>7, <1>8, <1>9, <1>10, <1>11
     DEF Next, RunStep

\* Two runs alone exclude each other, kills and pid reuse included: it takes a third
\* (even one that ended before) for bmuAcquireLock to let two in.
THEOREM PairTheorem == Spec => []PairExclusion
<1>1. Init => PairOwns
  BY DEF Init, PairOwns, Holds, Holding
<1>2. PairOwns => PairExclusion
  BY DEF PairOwns, PairExclusion, MutualExclusion, Holds, Holding
<1> QED
  BY <1>1, <1>2, PairStep, JudgeInvariant, PTL DEF Spec

--------------------------------------------------------------------------------

LEMMA CalmStep == JudgeInv /\ CalmInv /\ [Next]_vars => CalmInv'
<1> SUFFICES ASSUME JudgeInv, CalmInv, [Next]_vars, crashed' = {} PROVE CalmInv'
  BY DEF CalmInv
<1>0. TypeOK /\ TypeOK'
  BY TypeStep DEF JudgeInv
<1> USE RunAssumption, <1>0 DEF TypeOK, CalmInv, Holds, Holding, GoTo
<1>1. ASSUME NEW r \in Run, MkdirFirst(r) PROVE CalmInv'
  BY <1>1 DEF MkdirFirst, Mkdir
<1>2. ASSUME NEW r \in Run, WritePid(r) PROVE CalmInv'
  BY <1>2 DEF WritePid
<1>3. ASSUME NEW r \in Run, ReadPid(r) PROVE CalmInv'
  BY <1>3 DEF ReadPid
<1>4. ASSUME NEW r \in Run, CheckAlive(r) PROVE CalmInv'
  BY <1>4 DEF CheckAlive
<1>5. ASSUME NEW r \in Run, Reclaim(r) PROVE CalmInv'
  BY <1>5 DEF Reclaim, UnlinkPid, Rmdir
<1>6. ASSUME NEW r \in Run, MkdirAgain(r) PROVE CalmInv'
  BY <1>6 DEF MkdirAgain, Mkdir
<1>7. ASSUME NEW r \in Run, EndWork(r) PROVE CalmInv'
  BY <1>7 DEF EndWork
<1>8. ASSUME NEW r \in Run, Release(r) PROVE CalmInv'
  BY <1>8 DEF Release, UnlinkPid, Rmdir
<1>9. ASSUME NEW r \in Run, Crash(r) PROVE CalmInv'
  BY <1>9 DEF Crash
<1>10. ASSUME NEW r \in Run, Recycle(r) PROVE CalmInv'
  BY <1>10 DEF Recycle
<1>11. CASE UNCHANGED vars
  BY <1>11 DEF vars
<1> QED
  BY <1>1, <1>2, <1>3, <1>4, <1>5, <1>6, <1>7, <1>8, <1>9, <1>10, <1>11
     DEF Next, RunStep

\* If no run is killed, then once every run has ended there is no lock directory
\* left, even when runs robbed each other on the way.
THEOREM NoLockLeftTheorem == Spec => []NoLockLeft
<1>1. Init => CalmInv
  BY RunAssumption DEF Init, CalmInv
<1>2. CalmInv => NoLockLeft
  BY DEF CalmInv, NoLockLeft, Alive, Holds, Holding, Ended
<1> QED
  BY <1>1, <1>2, CalmStep, JudgeInvariant, PTL DEF Spec

================================================================================
