------------------------------ MODULE BmuSnapshots ------------------------------
(***************************************************************************)
(* The snapshots of one project as the programs that only read HISTORY see *)
(* them: B-<date>/, B-<date>.tar.gz and B-<date>.tar.gz.part, changed      *)
(* under the project lock by backups, archive and unarchive runs, any of   *)
(* which may fail or be killed at any step.                                *)
(*                                                                         *)
(* A snapshot has one version of each of its files for ever, so a file is  *)
(* either in it or not.  Module BmuProject implements this one; the        *)
(* modules about the readers are built on it.                              *)
(***************************************************************************)
EXTENDS Naturals, FiniteSets

CONSTANTS
    File,     \* paths inside the project
    Snap,     \* snapshots, by the order of their names
    Missing   \* no such directory or tarball

ASSUME SnapAssumption == IsFiniteSet(File) /\ \A fs \in SUBSET File : fs # Missing

VARIABLES
    dir,      \* dir[s]: the files in B-s/
    tgz,      \* tgz[s]: the files in B-s.tar.gz
    part,     \* part[s]: the files in B-s.tar.gz.part
    writer    \* who changes which snapshot at this moment

disk == <<dir, tgz, part>>
snapvars == <<dir, tgz, part, writer>>

Nobody == [task |-> "none", snap |-> 0]
Busy(task, s) == writer = [task |-> task, snap |-> s]
BeBusy(task, s) == writer' = [task |-> task, snap |-> s]

SnapInit ==
    /\ dir = [s \in Snap |-> Missing]
    /\ tgz = [s \in Snap |-> Missing]
    /\ part = [s \in Snap |-> Missing]
    /\ writer = Nobody

\* The files of snapshot s, from whatever is there of it.
Files(s) ==
    (IF dir[s] = Missing THEN {} ELSE dir[s]) \cup (IF tgz[s] = Missing THEN {} ELSE tgz[s])

\* A backup with a name of its own has the lock.
BeginBackup(s) ==
    /\ writer = Nobody
    /\ dir[s] = Missing /\ tgz[s] = Missing
    /\ BeBusy("backup", s)
    /\ UNCHANGED disk

\* rsync puts a file of the mirror aside.
PutAside(s, f) ==
    /\ Busy("backup", s)
    /\ dir' = [dir EXCEPT ![s] = {f} \cup (IF @ = Missing THEN {} ELSE @)]
    /\ UNCHANGED <<tgz, part, writer>>

\* tar -cz of the directory to the .part file: all of it, or less.
Pack(s) ==
    /\ writer = Nobody
    /\ dir[s] # Missing
    /\ \E fs \in SUBSET dir[s] : part' = [part EXCEPT ![s] = fs]
    /\ BeBusy("archive", s)
    /\ UNCHANGED <<dir, tgz>>

\* The counts agree: the .part file is renamed, the removal begins.
Commit(s) ==
    /\ Busy("archive", s)
    /\ Cardinality(part[s]) = Cardinality(dir[s])
    /\ tgz' = [tgz EXCEPT ![s] = part[s]]
    /\ part' = [part EXCEPT ![s] = Missing]
    /\ BeBusy("remove", s)
    /\ UNCHANGED dir

\* tar failed or the counts differ.
DropPart(s) ==
    /\ Busy("archive", s)
    /\ part' = [part EXCEPT ![s] = Missing]
    /\ writer' = Nobody
    /\ UNCHANGED <<dir, tgz>>

\* rm -rf of the directory.
Remove(s) ==
    /\ Busy("remove", s)
    /\ \/ \E f \in dir[s] :
             /\ dir' = [dir EXCEPT ![s] = @ \ {f}]
             /\ UNCHANGED writer
       \/ /\ dir[s] = {}
          /\ dir' = [dir EXCEPT ![s] = Missing]
          /\ writer' = Nobody
    /\ UNCHANGED <<tgz, part>>

\* tar -xz of the tarball, then its removal.
BeginExtract(s) ==
    /\ writer = Nobody
    /\ tgz[s] # Missing
    /\ dir' = [dir EXCEPT ![s] = IF @ = Missing THEN {} ELSE @]
    /\ BeBusy("extract", s)
    /\ UNCHANGED <<tgz, part>>

Extract(s) ==
    /\ Busy("extract", s)
    /\ \/ \E f \in tgz[s] :
             /\ dir' = [dir EXCEPT ![s] = @ \cup {f}]
             /\ UNCHANGED <<tgz, writer>>
       \/ /\ tgz[s] \subseteq dir[s]
          /\ tgz' = [tgz EXCEPT ![s] = Missing]
          /\ writer' = Nobody
          /\ UNCHANGED dir
    /\ UNCHANGED part

\* The end of a backup, a failed mv, rm or tar -x, a kill: all is left as it is.
Stop ==
    /\ writer # Nobody
    /\ writer' = Nobody
    /\ UNCHANGED disk

SnapNext ==
    \/ \E s \in Snap :
          \/ BeginBackup(s) \/ \E f \in File : PutAside(s, f)
          \/ Pack(s) \/ Commit(s) \/ DropPart(s) \/ Remove(s)
          \/ BeginExtract(s) \/ Extract(s)
    \/ Stop

SnapSpec == SnapInit /\ [][SnapNext]_snapvars

================================================================================
