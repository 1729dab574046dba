------------------------------ MODULE BmuReplicate ------------------------------
(***************************************************************************)
(* bin/backmeup.replicate.sh: a project's mirror and history copied to a   *)
(* remote (rclone sync) or to another disk (rsync -a --delete), one after  *)
(* the other.  It takes no lock, so whatever BmuSnapshots says the other   *)
(* scripts do happens beside it; and it deletes what its source does not   *)
(* have, so that it must not run on the empty directory below the mount    *)
(* point of a disk that is away (bin/backmeup.configure.sh and             *)
(* backmeup.install.sh write what that is recognised by).                  *)
(***************************************************************************)
EXTENDS BmuSnapshots

CONSTANTS MaxTrouble    \* bound: changes of the mount and of the configuration, failures

ASSUME ReplicateAssumption ==
    MaxTrouble \in Nat /\ Snap \subseteq Nat \ {0} /\ Missing \notin Nat

VARIABLES
    mirror,     \* mirror[f]: f's version in SYNC; the backup of snapshot s makes version s
    held,       \* held[s][f]: the version that snapshot s has of f
    last,       \* the snapshot of the last backup: the clock does not go back
    mounted,    \* whether the disk with SYNC and BackUp is there
    below,      \* what their paths are without it: nothing, directories, with .bmumeta
    expected,   \* *_MOUNT in backmeup.setup.sh
    copy,       \* the replica of SYNC
    dirCopy,    \* dirCopy[s], tgzCopy[s]: those of B-s/ and B-s.tar.gz
    tgzCopy,
    run,        \* a replication, see IdleRun
    todo, seen, \* of a leg: what is left to copy; what was listed
    due,        \* observed: the versions there were when it started
    moved,      \* observed: whether archive has removed anything of a directory since
    away,       \* observed: whether the disk was away "since start", has "left" since, or "no"
    trouble     \* how much of MaxTrouble there has been

project == <<mirror, held, last>>
mount == <<mounted, below, expected>>
replica == <<copy, dirCopy, tgzCopy>>
repvars == <<snapvars, project, mount, replica, run, todo, seen, due, moved, away, trouble>>

Version == {0} \cup Snap
NoTree == [files |-> {}, dirs |-> {}, tgzs |-> {}, inside |-> {}]

\* A run: the step, the mount point it was told to expect, whether something of this leg
\* failed, whether one of the legs did.
IdleRun == [pc |-> "idle", exp |-> "", failed |-> FALSE, bad |-> FALSE]

leg == <<todo, seen>>
observed == <<due, moved, away>>

EndRun ==
    /\ run' = IdleRun /\ todo' = NoTree /\ seen' = NoTree
    /\ due' = {} /\ moved' = FALSE /\ away' = "no"
At(step) == run.pc = step
GoTo(step) == run' = [run EXCEPT !.pc = step]
Suffer == trouble < MaxTrouble /\ trouble' = trouble + 1

Inside(d, s) == IF d[s] = Missing THEN {} ELSE d[s]
InSync == [NoTree EXCEPT !.files = {f \in File : mirror[f] # Missing}]
InBackUp == [NoTree EXCEPT !.dirs = {s \in Snap : dir[s] # Missing},
                           !.tgzs = {s \in Snap : tgz[s] # Missing}]

--------------------------------------------------------------------------------
(* The guard. *)

\* The mount point of the paths.
Here == IF mounted THEN "disk" ELSE "system"

\* Mutants: the marker is not looked at; an empty *_MOUNT is compared like any other.
BugUnmarked == run.exp \in {"", Here}
BugNoLegacy == run.exp = Here /\ (mounted \/ below = "marked")

\* Where nothing is expected (older installations) the marker alone counts.
Guarded ==
    /\ run.exp \in {"", Here}
    /\ mounted \/ below = "marked"

StartReplicate ==
    /\ At("idle")
    /\ run' = [IdleRun EXCEPT !.pc = "check SYNC", !.exp = expected]
    /\ due' = {fv \in File \X Version :
                 \/ mirror[fv[1]] = fv[2]
                 \/ \E s \in Snap : fv[1] \in Files(s) /\ held[s][fv[1]] = fv[2]}
    /\ moved' = FALSE /\ away' = IF mounted THEN "no" ELSE "since start"
    /\ UNCHANGED <<snapvars, project, mount, replica, leg, trouble>>

Check ==
    /\ At("check SYNC") \/ At("check BackUp")
    /\ \/ /\ Guarded
          /\ GoTo(IF At("check SYNC") THEN "check BackUp" ELSE "SYNC")
          /\ UNCHANGED <<leg, observed>>
       \/ ~Guarded /\ EndRun
    /\ UNCHANGED <<snapvars, project, mount, replica, trouble>>

--------------------------------------------------------------------------------
(* A leg lists what there is, level by level, copies it, and deletes what it did not find.   *)

\* A directory that is not there cannot be listed; an empty one can.
Lists(step, copying, next, tree) ==
    /\ At(step)
    /\ \/ /\ mounted \/ below # "nothing"
          /\ GoTo(copying)
          /\ todo' = (IF mounted THEN tree ELSE NoTree) /\ seen' = todo'
       \/ /\ ~mounted /\ below = "nothing"
          /\ run' = [run EXCEPT !.pc = next, !.bad = TRUE]
          /\ UNCHANGED leg
    /\ UNCHANGED <<replica, trouble>>

ListSync == Lists("SYNC", "copy SYNC", "BackUp", InSync)
ListBackUp == Lists("BackUp", "copy BackUp", "report", InBackUp)

Fail == run' = [run EXCEPT !.failed = TRUE]

\* A file that is gone when it is read makes the leg fail, a changed one does not.
CopyFile ==
    /\ At("copy SYNC")
    /\ \E f \in todo.files :
         /\ todo' = [todo EXCEPT !.files = @ \ {f}]
         /\ IF mounted /\ mirror[f] # Missing
            THEN copy' = [copy EXCEPT ![f] = mirror[f]] /\ UNCHANGED run
            ELSE Fail /\ UNCHANGED copy
    /\ UNCHANGED <<dirCopy, tgzCopy, seen, trouble>>

\* A directory of BackUp is listed when its turn comes; one that is gone is left as it is.
OpenDir ==
    /\ At("copy BackUp")
    /\ \E s \in todo.dirs :
         IF mounted /\ dir[s] # Missing
         THEN /\ todo' = [todo EXCEPT !.dirs = @ \ {s}, !.inside = @ \cup ({s} \X dir[s])]
              /\ seen' = [seen EXCEPT !.inside = @ \cup ({s} \X dir[s])]
              /\ dirCopy' = [dirCopy EXCEPT ![s] = Inside(dirCopy, s)]
              /\ UNCHANGED run
         ELSE /\ todo' = [todo EXCEPT !.dirs = @ \ {s}]
              /\ seen' = [seen EXCEPT !.inside = @ \cup ({s} \X File)]
              /\ Fail /\ UNCHANGED dirCopy
    /\ UNCHANGED <<copy, tgzCopy, trouble>>

CopyInside ==
    /\ At("copy BackUp")
    /\ \E sf \in todo.inside :
         /\ todo' = [todo EXCEPT !.inside = @ \ {sf}]
         /\ IF mounted /\ sf[2] \in Inside(dir, sf[1])
            THEN dirCopy' = [dirCopy EXCEPT ![sf[1]] = @ \cup {sf[2]}] /\ UNCHANGED run
            ELSE Fail /\ UNCHANGED dirCopy
    /\ UNCHANGED <<copy, tgzCopy, seen, trouble>>

CopyTarball ==
    /\ At("copy BackUp")
    /\ \E s \in todo.tgzs :
         /\ todo' = [todo EXCEPT !.tgzs = @ \ {s}]
         /\ IF mounted /\ tgz[s] # Missing
            THEN tgzCopy' = [tgzCopy EXCEPT ![s] = tgz[s]] /\ UNCHANGED run
            ELSE Fail /\ UNCHANGED tgzCopy
    /\ UNCHANGED <<copy, dirCopy, seen, trouble>>

\* What the replica has beyond what was listed.
Extra ==
    IF At("copy SYNC")
    THEN [NoTree EXCEPT !.files = {f \in File : copy[f] # Missing} \ seen.files]
    ELSE [NoTree EXCEPT
            !.dirs = {s \in Snap : dirCopy[s] # Missing} \ seen.dirs,
            !.tgzs = {s \in Snap : tgzCopy[s] # Missing} \ seen.tgzs,
            !.inside = {sf \in (seen.dirs \ todo.dirs) \X File :
                          sf[2] \in Inside(dirCopy, sf[1])} \ seen.inside]

\* rsync deletes as it goes, also when some file failed; rclone at the end, unless one did.
Delete ==
    /\ At("copy SYNC") \/ At("copy BackUp")
    /\ \/ \E f \in Extra.files :
            copy' = [copy EXCEPT ![f] = Missing] /\ UNCHANGED <<dirCopy, tgzCopy>>
       \/ \E s \in Extra.dirs :
            dirCopy' = [dirCopy EXCEPT ![s] = Missing] /\ UNCHANGED <<copy, tgzCopy>>
       \/ \E sf \in Extra.inside :
            dirCopy' = [dirCopy EXCEPT ![sf[1]] = @ \ {sf[2]}] /\ UNCHANGED <<copy, tgzCopy>>
       \/ \E s \in Extra.tgzs :
            tgzCopy' = [tgzCopy EXCEPT ![s] = Missing] /\ UNCHANGED <<copy, dirCopy>>
    /\ UNCHANGED <<run, leg, trouble>>

\* The network, a full disk: the rest of the leg is not copied.
CopyFails ==
    /\ At("copy SYNC") \/ At("copy BackUp")
    /\ Suffer /\ Fail
    /\ todo' = NoTree
    /\ seen' = [seen EXCEPT !.inside = @ \cup (todo.dirs \X File)]
    /\ UNCHANGED replica

\* Mutant: only the last leg's status counts.
BugLegEnds(next) == run' = [run EXCEPT !.pc = next, !.bad = run.failed, !.failed = FALSE]

\* The status of a leg is that of rsync or rclone, not of tee (pipefail).
LegEnds(next) ==
    run' = [run EXCEPT !.pc = next, !.bad = @ \/ run.failed, !.failed = FALSE]

\* The second leg starts whatever came of the first, and the last line depends on both.
LegEnd ==
    /\ todo = NoTree
    /\ run.failed \/ Extra = NoTree
    /\ \/ At("copy SYNC") /\ LegEnds("BackUp")
       \/ At("copy BackUp") /\ LegEnds("report")
    /\ seen' = NoTree
    /\ UNCHANGED <<replica, todo, trouble>>

\* The error or "Replication complete."
Report ==
    /\ At("report")
    /\ EndRun
    /\ UNCHANGED <<replica, trouble>>

Leg ==
    /\ \/ /\ \/ ListSync \/ ListBackUp \/ CopyFile \/ OpenDir \/ CopyInside \/ CopyTarball
             \/ Delete \/ CopyFails \/ LegEnd
          /\ UNCHANGED observed
       \/ Report
    /\ UNCHANGED <<snapvars, project, mount>>

Killed ==
    /\ ~At("idle") /\ Suffer
    /\ EndRun
    /\ UNCHANGED <<snapvars, project, mount, replica>>

--------------------------------------------------------------------------------
(* The other scripts, and the disk. *)

\* A backup takes its name from the clock, puts the old version of a file aside, and renames
\* the new one into place.
Begin(s) ==
    /\ BeginBackup(s)
    /\ last <= s
    /\ last' = s
    /\ UNCHANGED <<mirror, held, moved>>

Aside(s, f) ==
    /\ PutAside(s, f)
    /\ mirror[f] \notin {Missing, s}
    /\ held' = [held EXCEPT ![s][f] = mirror[f]]
    /\ mirror' = [mirror EXCEPT ![f] = Missing]
    /\ UNCHANGED <<last, moved>>

Place(s, f) ==
    /\ Busy("backup", s) /\ mirror[f] = Missing
    /\ mirror' = [mirror EXCEPT ![f] = s]
    /\ UNCHANGED <<snapvars, held, last, moved>>

\* The end of a backup, archive and unarchive.
Rest ==
    /\ \/ Stop
       \/ \E s \in Snap : \/ Pack(s) \/ Commit(s) \/ DropPart(s) \/ Remove(s)
                          \/ BeginExtract(s) \/ Extract(s)
    /\ moved' = (~At("idle") /\ (moved \/ writer.task = "remove"))
    /\ UNCHANGED project

\* The scripts, as long as the disk is there.
Scripts ==
    /\ mounted
    /\ Rest \/ \E s \in Snap : Begin(s) \/ \E f \in File : Aside(s, f) \/ Place(s, f)
    /\ UNCHANGED <<mount, replica, run, leg, due, away, trouble>>

\* The scripts end with the disk.
Unmount ==
    /\ mounted /\ Suffer
    /\ mounted' = FALSE /\ away' = IF At("idle") THEN "no" ELSE "left"
    /\ writer' = Nobody
    /\ UNCHANGED <<disk, project, below, expected, replica, run, leg, due, moved>>

Mount ==
    /\ ~mounted
    /\ mounted' = TRUE
    /\ UNCHANGED <<snapvars, project, below, expected, replica, run, leg, observed, trouble>>

\* backmeup.configure.sh makes the directories and takes the mount point as it is now;
\* backmeup.install.sh runs it and leaves the markers.
Configure ==
    /\ Suffer
    /\ expected' = Here
    /\ below' \in IF mounted THEN {below}
                  ELSE {"marked", IF below = "nothing" THEN "dirs" ELSE below}
    /\ UNCHANGED <<snapvars, project, mounted, replica, run, leg, observed>>

Init ==
    /\ SnapInit
    /\ mirror \in [File -> {0, Missing}]
    /\ held = [s \in Snap |-> [f \in File |-> 0]] /\ last = 0
    /\ mounted \in BOOLEAN /\ below \in {"nothing", "dirs"} /\ expected \in {"", "disk"}
    /\ copy = [f \in File |-> Missing]
    /\ dirCopy = [s \in Snap |-> Missing] /\ tgzCopy = [s \in Snap |-> Missing]
    /\ run = IdleRun /\ todo = NoTree /\ seen = NoTree /\ due = {}
    /\ moved = FALSE /\ away = "no" /\ trouble = 0

Next == StartReplicate \/ Check \/ Leg \/ Scripts \/ Unmount \/ Mount \/ Configure \/ Killed

Spec == Init /\ [][Next]_repvars

\* A timer starts replications (docs/SCHEDULING.md), which go on to their end.
FairSpec == Spec /\ WF_repvars(StartReplicate) /\ WF_repvars(Check) /\ WF_repvars(Leg)

--------------------------------------------------------------------------------
(* Properties *)

\* The project has version v of f; the replica has it.
Has(f, v) ==
    mirror[f] = v \/ \E s \in Snap : f \in Files(s) /\ held[s][f] = v

Replicated(f, v) ==
    \/ copy[f] = v
    \/ \E s \in Snap :
         f \in Inside(dirCopy, s) \cup Inside(tgzCopy, s) /\ held[s][f] = v

\* "Replication complete.": every version that the project had when the run started, and has,
\* is in the replica, although backups moved versions from the mirror to the history between
\* the two legs and inside them. It says nothing when the disk was away or archive removed a
\* directory during the run: a listing of the one and of the other hold no longer.
CompleteMeans ==
    At("report") /\ ~run.bad /\ away = "no" /\ ~moved =>
        \A fv \in due : Has(fv[1], fv[2]) => Replicated(fv[1], fv[2])

\* The replica has what the project has, and no more.
Same ==
    /\ copy = mirror /\ tgzCopy = tgz
    /\ \A s \in Snap : Inside(dirCopy, s) = Inside(dir, s)

\* Failed and killed replications, and what was copied of a project in motion, are made good:
\* once the disk is there, was not configured away, and the project rests, the replica comes
\* to be the same and stays so.
CopyCatchesUp ==
    <>[](mounted /\ expected # "system" /\ writer = Nobody) => <>[]Same

\* The replica loses something that the disk has.
Loses ==
    \/ \E f \in File : mirror[f] # Missing /\ copy[f] # Missing /\ copy'[f] = Missing
    \/ \E s \in Snap :
         \/ ~(Inside(dir, s) \cap Inside(dirCopy, s) \subseteq Inside(dirCopy', s))
         \/ tgz[s] # Missing /\ tgzCopy[s] # Missing /\ tgzCopy'[s] = Missing

\* A disk that is not mounted never empties the replica, with two exceptions: it was taken
\* away after the guard had looked, or bmug2 was installed again while it was away, which
\* leaves a marker below the mount point, and the setup expects no disk.
NotWiped ==
    [][~mounted /\ Loses =>
          away = "left" \/ (run.exp # "disk" /\ below = "marked")]_repvars

================================================================================
