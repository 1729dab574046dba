------------------------------- MODULE BmuProject -------------------------------
(***************************************************************************)
(* One project: its mirror SYNC/<project>, its history HISTORY/<project>   *)
(* and the three scripts that change them under the project lock           *)
(* (bin/backmeup.sh, backmeup.archive.sh, backmeup.unarchive.sh), while    *)
(* the user edits the source.  Module BmuLock is about the lock itself;    *)
(* here taking it is one step, and the lock of a killed run counts as      *)
(* reclaimed.                                                              *)
(*                                                                         *)
(* A file's content is a version number, 0 for "no such file"; every edit  *)
(* makes a new version.  The source is what rsync's filters let through,   *)
(* so a newly ignored file is a deleted one (--delete-excluded).  A        *)
(* B-<date> snapshot is named by its second.                               *)
(***************************************************************************)
EXTENDS Naturals, FiniteSets

CONSTANTS
    File,        \* paths inside the project
    Slot,        \* as many script runs as may overlap
    None,        \* no slot
    Missing,     \* no such directory, tarball or filelist
    MaxVersion,  \* bound: edits of the source
    MaxStamp,    \* bound: seconds in which backups start
    CrashAt,     \* the steps (values of pc) at which a run may be killed
    MaxCrash,    \* bound: kills
    MayFail,     \* the commands that may fail: rsync, tar, mv, rm, extract
    SameSecond   \* may two backups start within the same second?

ASSUME ProjectAssumption ==
    /\ IsFiniteSet(File)
    /\ None \notin Slot
    /\ MaxVersion \in Nat /\ MaxStamp \in Nat /\ MaxCrash \in Nat
    /\ \A t \in [File -> 0..MaxVersion] : t # Missing
    /\ \A fs \in SUBSET File : fs # Missing

VARIABLES
    source,      \* source[f]: the user's current version of f
    mirror,      \* SYNC/<project>
    dir,         \* dir[s]: B-s/
    tgz,         \* tgz[s]: B-s.tar.gz
    part,        \* part[s]: B-s.tar.gz.part
    list,        \* list[s]: B-s.filelist
    livelist,    \* HISTORY/<project>.filelist
    lastrun,     \* .bmulastrun: the second of the last successful run, 0 for none
    lock,        \* the slot that holds .bmulock
    run,         \* run[r]: the script that runs in slot r
    clock,       \* seconds passed, counted by the backups that were started
    version,     \* edits made
    crashes      \* runs killed

files == <<mirror, dir, tgz, part, list, livelist, lastrun>>
env == <<source, clock, version, crashes>>
vars == <<files, lock, run, env>>

--------------------------------------------------------------------------------

Stamp == 1..MaxStamp
Tree == [File -> 0..MaxVersion]
Empty == [f \in File |-> 0]
Names(t) == {f \in File : t[f] # 0}

\* The steps a script takes with the lock, and before it has it.
LockedStep == {"rsync", "install", "flist", "flist2", "live", "live2",
               "each", "alist", "alist2", "tar", "verify", "rm",
               "extract", "exit"}
Step == LockedStep \cup {"idle", "acq_backup", "acq_unarchive"}

NotRunning == [pc |-> "idle", stamp |-> 0, todo |-> {}, queue |-> {}, new |-> {},
               failed |-> FALSE, dry |-> FALSE]

Init ==
    /\ source = Empty
    /\ mirror = Empty
    /\ dir = [s \in Stamp |-> Missing]
    /\ tgz = [s \in Stamp |-> Missing]
    /\ part = [s \in Stamp |-> Missing]
    /\ list = [s \in Stamp |-> Missing]
    /\ livelist = Missing
    /\ lastrun = 0
    /\ lock = None
    /\ run = [r \in Slot |-> NotRunning]
    /\ clock = 1
    /\ version = 0
    /\ crashes = 0

At(r, step) == run[r].pc = step
GoTo(r, step) == run' = [run EXCEPT ![r].pc = step]

--------------------------------------------------------------------------------
(* backmeup.sh *)

\* mydate is read before anything else, the lock long after it.
StartBackup(r) ==
    /\ At(r, "idle")
    /\ clock \in Stamp
    /\ clock' \in {clock + 1} \cup (IF SameSecond THEN {clock} ELSE {})
    /\ run' = [run EXCEPT ![r] = [NotRunning EXCEPT !.pc = "acq_backup", !.stamp = clock]]
    /\ UNCHANGED <<files, lock, source, version, crashes>>

AcquireBackup(r) ==
    /\ At(r, "acq_backup")
    /\ \/ /\ lock = None
          /\ lock' = r
          /\ run' = [run EXCEPT ![r].pc = "rsync", ![r].todo = File]
       \/ /\ lock # None
          /\ run' = [run EXCEPT ![r] = NotRunning]
          /\ UNCHANGED lock
    /\ UNCHANGED <<files, env>>

\* --backup: the mirror's version of f is renamed into the backup dir, which rsync
\* makes when it first needs it.
PutAside(r, f) ==
    LET s == run[r].stamp
        old == IF dir[s] = Missing THEN Empty ELSE dir[s]
    IN  /\ dir' = [dir EXCEPT ![s] = [old EXCEPT ![f] = mirror[f]]]
        /\ mirror' = [mirror EXCEPT ![f] = 0]

\* rsync comes to f and finds nothing to do.
BugRsyncSame(r, f) ==                  \* --ignore-existing
    /\ At(r, "rsync") /\ f \in run[r].todo
    /\ mirror[f] = source[f] \/ (mirror[f] # 0 /\ source[f] # 0)
    /\ run' = [run EXCEPT ![r].todo = @ \ {f}]
    /\ UNCHANGED <<files, lock, env>>

RsyncSame(r, f) ==
    /\ At(r, "rsync") /\ f \in run[r].todo
    /\ mirror[f] = source[f]
    /\ run' = [run EXCEPT ![r].todo = @ \ {f}]
    /\ UNCHANGED <<files, lock, env>>

\* A file the mirror does not have.
RsyncNew(r, f) ==
    /\ At(r, "rsync") /\ f \in run[r].todo
    /\ mirror[f] = 0 /\ source[f] # 0
    /\ mirror' = [mirror EXCEPT ![f] = source[f]]
    /\ run' = [run EXCEPT ![r].todo = @ \ {f}]
    /\ UNCHANGED <<dir, tgz, part, list, livelist, lastrun, lock, env>>

\* --delete.
BugRsyncDelete(r, f) ==                \* openrsync: --delete drops the backup
    /\ At(r, "rsync") /\ f \in run[r].todo
    /\ mirror[f] # 0 /\ source[f] = 0
    /\ mirror' = [mirror EXCEPT ![f] = 0]
    /\ run' = [run EXCEPT ![r].todo = @ \ {f}]
    /\ UNCHANGED <<dir, tgz, part, list, livelist, lastrun, lock, env>>

RsyncDelete(r, f) ==
    /\ At(r, "rsync") /\ f \in run[r].todo
    /\ mirror[f] # 0 /\ source[f] = 0
    /\ PutAside(r, f)
    /\ run' = [run EXCEPT ![r].todo = @ \ {f}]
    /\ UNCHANGED <<tgz, part, list, livelist, lastrun, lock, env>>

\* A changed file: its new content is in rsync's temporary file by now, and the old
\* one moves aside before the temporary file takes its name.
BugRsyncReplace(r, f) ==               \* the new version is in place before the old is moved
    /\ At(r, "rsync") /\ f \in run[r].todo
    /\ mirror[f] # 0 /\ source[f] \notin {0, mirror[f]}
    /\ dir' = [dir EXCEPT ![run[r].stamp] =
                  [(IF @ = Missing THEN Empty ELSE @) EXCEPT ![f] = source[f]]]
    /\ mirror' = [mirror EXCEPT ![f] = 0]
    /\ run' = [run EXCEPT ![r].pc = "install", ![r].new = {<<f, source[f]>>}]
    /\ UNCHANGED <<tgz, part, list, livelist, lastrun, lock, env>>

RsyncReplace(r, f) ==
    /\ At(r, "rsync") /\ f \in run[r].todo
    /\ mirror[f] # 0 /\ source[f] \notin {0, mirror[f]}
    /\ PutAside(r, f)
    /\ run' = [run EXCEPT ![r].pc = "install", ![r].new = {<<f, source[f]>>}]
    /\ UNCHANGED <<tgz, part, list, livelist, lastrun, lock, env>>

RsyncInstall(r) ==
    /\ At(r, "install")
    /\ \E p \in run[r].new :
          LET done == [run[r] EXCEPT !.pc = "rsync", !.todo = @ \ {p[1]}, !.new = {}]
          IN  \/ /\ mirror' = [mirror EXCEPT ![p[1]] = p[2]]
                 /\ run' = [run EXCEPT ![r] = done]
              \/ /\ "rsync" \in MayFail
                 /\ run' = [run EXCEPT ![r] = [done EXCEPT !.failed = TRUE]]
                 /\ UNCHANGED mirror
    /\ UNCHANGED <<dir, tgz, part, list, livelist, lastrun, lock, env>>

\* A file rsync cannot read, write or delete: it goes on, and exits non-zero.
RsyncSkip(r, f) ==
    /\ At(r, "rsync") /\ f \in run[r].todo
    /\ "rsync" \in MayFail
    /\ run' = [run EXCEPT ![r].todo = @ \ {f}, ![r].failed = TRUE]
    /\ UNCHANGED <<files, lock, env>>

Rsync(r) ==
    \/ \E f \in File : RsyncSame(r, f) \/ RsyncNew(r, f) \/ RsyncDelete(r, f)
                       \/ RsyncReplace(r, f) \/ RsyncSkip(r, f)
    \/ RsyncInstall(r)

\* .bmulastrun, after a successful rsync only.
RsyncEnd(r) ==
    /\ At(r, "rsync") /\ run[r].todo = {}
    /\ lastrun' = IF run[r].failed THEN lastrun ELSE clock
    /\ GoTo(r, "flist")
    /\ UNCHANGED <<mirror, dir, tgz, part, list, livelist, lock, env>>

\* find > B-s.filelist: the shell empties the file, find fills it.
BeginFilelist(r) ==
    /\ At(r, "flist")
    /\ \/ /\ dir[run[r].stamp] # Missing
          /\ list' = [list EXCEPT ![run[r].stamp] = {}]
          /\ GoTo(r, "flist2")
       \/ /\ dir[run[r].stamp] = Missing
          /\ GoTo(r, "live")
          /\ UNCHANGED list
    /\ UNCHANGED <<mirror, dir, tgz, part, livelist, lastrun, lock, env>>

EndFilelist(r) ==
    /\ At(r, "flist2")
    /\ list' = [list EXCEPT ![run[r].stamp] = Names(dir[run[r].stamp])]
    /\ GoTo(r, "live")
    /\ UNCHANGED <<mirror, dir, tgz, part, livelist, lastrun, lock, env>>

\* The live filelist, after a successful rsync only.
BeginLive(r) ==
    /\ At(r, "live")
    /\ \/ /\ ~run[r].failed
          /\ livelist' = {}
          /\ GoTo(r, "live2")
       \/ /\ run[r].failed
          /\ GoTo(r, "exit")
          /\ UNCHANGED livelist
    /\ UNCHANGED <<mirror, dir, tgz, part, list, lastrun, lock, env>>

BugEndLive(r) ==                       \* lists the source as it is now
    /\ At(r, "live2")
    /\ livelist' = Names(source)
    /\ GoTo(r, "exit")
    /\ UNCHANGED <<mirror, dir, tgz, part, list, lastrun, lock, env>>

EndLive(r) ==
    /\ At(r, "live2")
    /\ livelist' = Names(mirror)
    /\ GoTo(r, "exit")
    /\ UNCHANGED <<mirror, dir, tgz, part, list, lastrun, lock, env>>

Backup(r) ==
    \/ StartBackup(r) \/ AcquireBackup(r) \/ Rsync(r) \/ RsyncEnd(r)
    \/ BeginFilelist(r) \/ EndFilelist(r) \/ BeginLive(r) \/ EndLive(r)

\* The end of any of the three scripts: the EXIT trap releases the lock.
Exit(r) ==
    /\ At(r, "exit")
    /\ lock' = None
    /\ run' = [run EXCEPT ![r] = NotRunning]
    /\ UNCHANGED <<files, env>>

--------------------------------------------------------------------------------
(* backmeup.archive.sh *)

\* The lock, the cutoff, and the directories the loop's glob finds; a snapshot is
\* old enough when its stamp is strictly before the cutoff.
BugStartArchive(r) ==                  \* without the lock
    /\ At(r, "idle")
    /\ \E cutoff \in 1..clock, d \in BOOLEAN :
          run' = [run EXCEPT ![r] = [NotRunning EXCEPT
                     !.pc = "each", !.dry = d,
                     !.queue = {s \in Stamp : s < cutoff /\ dir[s] # Missing}]]
    /\ UNCHANGED <<files, lock, env>>

StartArchive(r) ==
    /\ At(r, "idle")
    /\ lock = None
    /\ lock' = r
    /\ \E cutoff \in 1..clock, d \in BOOLEAN :
          run' = [run EXCEPT ![r] = [NotRunning EXCEPT
                     !.pc = "each", !.dry = d,
                     !.queue = {s \in Stamp : s < cutoff /\ dir[s] # Missing}]]
    /\ UNCHANGED <<files, env>>

\* What follows the filelist: a dry run goes on to the next snapshot.
AfterList(r) == IF run[r].dry THEN "each" ELSE "tar"

\* The next snapshot, in name order; its filelist is made only when it has none.
BugPickSnapshot(r) ==                  \* no filelist before the tarball
    /\ At(r, "each")
    /\ \/ /\ run[r].queue = {}
          /\ GoTo(r, "exit")
       \/ \E s \in run[r].queue :
             /\ \A t \in run[r].queue : s <= t
             /\ run' = [run EXCEPT ![r].stamp = s, ![r].queue = @ \ {s},
                                   ![r].pc = AfterList(r)]
    /\ UNCHANGED <<files, lock, env>>

PickSnapshot(r) ==
    /\ At(r, "each")
    /\ \/ /\ run[r].queue = {}
          /\ GoTo(r, "exit")
       \/ \E s \in run[r].queue :
             /\ \A t \in run[r].queue : s <= t
             /\ run' = [run EXCEPT ![r].stamp = s, ![r].queue = @ \ {s},
                           ![r].pc = IF list[s] = Missing THEN "alist" ELSE AfterList(r)]
    /\ UNCHANGED <<files, lock, env>>

BeginArchiveList(r) ==
    /\ At(r, "alist")
    /\ list' = [list EXCEPT ![run[r].stamp] = {}]
    /\ GoTo(r, "alist2")
    /\ UNCHANGED <<mirror, dir, tgz, part, livelist, lastrun, lock, env>>

EndArchiveList(r) ==
    /\ At(r, "alist2")
    /\ list' = [list EXCEPT ![run[r].stamp] = Names(dir[run[r].stamp])]
    /\ GoTo(r, AfterList(r))
    /\ UNCHANGED <<mirror, dir, tgz, part, livelist, lastrun, lock, env>>

\* What a tar of t may have written: all of it, or less when it fails.
TarOf(t) ==
    {t} \cup IF "tar" \in MayFail
             THEN {[f \in File |-> IF f \in fs THEN t[f] ELSE 0] : fs \in SUBSET Names(t)}
             ELSE {}

BugTar(r) ==                           \* tars to the final name
    /\ At(r, "tar")
    /\ \E t \in TarOf(dir[run[r].stamp]) :
          /\ part' = [part EXCEPT ![run[r].stamp] = t]
          /\ tgz' = [tgz EXCEPT ![run[r].stamp] = t]
    /\ GoTo(r, "verify")
    /\ UNCHANGED <<mirror, dir, list, livelist, lastrun, lock, env>>

Tar(r) ==
    /\ At(r, "tar")
    /\ \E t \in TarOf(dir[run[r].stamp]) : part' = [part EXCEPT ![run[r].stamp] = t]
    /\ GoTo(r, "verify")
    /\ UNCHANGED <<mirror, dir, tgz, list, livelist, lastrun, lock, env>>

\* tar's status and the entry counts decide: rename the .part and go on to remove the
\* directory (not when the mv failed), or drop the .part and exit 1.
BugCommit(r) ==                        \* keeps the tarball without counting
    LET s == run[r].stamp IN
    /\ At(r, "verify")
    /\ tgz' = [tgz EXCEPT ![s] = part[s]]
    /\ part' = [part EXCEPT ![s] = Missing]
    /\ run' = [run EXCEPT ![r].pc = "rm", ![r].todo = Names(dir[s])]
    /\ UNCHANGED <<mirror, dir, list, livelist, lastrun, lock, env>>

Commit(r) ==
    LET s == run[r].stamp
        counted == Cardinality(Names(part[s])) = Cardinality(Names(dir[s]))
    IN
    /\ At(r, "verify")
    /\ \/ /\ counted
          /\ tgz' = [tgz EXCEPT ![s] = part[s]]
          /\ part' = [part EXCEPT ![s] = Missing]
          /\ run' = [run EXCEPT ![r].pc = "rm", ![r].todo = Names(dir[s])]
       \/ /\ counted
          /\ "mv" \in MayFail
          /\ GoTo(r, "each")
          /\ UNCHANGED <<tgz, part>>
       \/ /\ ~counted \/ "tar" \in MayFail
          /\ part' = [part EXCEPT ![s] = Missing]
          /\ GoTo(r, "exit")
          /\ UNCHANGED tgz
    /\ UNCHANGED <<mirror, dir, list, livelist, lastrun, lock, env>>

\* rm -rf, file by file, then the directory.  Its status is not looked at.
RemoveDir(r) ==
    LET s == run[r].stamp IN
    /\ At(r, "rm")
    /\ \/ \E f \in run[r].todo :
             /\ dir' = [dir EXCEPT ![s][f] = 0]
             /\ run' = [run EXCEPT ![r].todo = @ \ {f}]
       \/ /\ run[r].todo = {}
          /\ dir' = [dir EXCEPT ![s] = Missing]
          /\ GoTo(r, "each")
       \/ /\ "rm" \in MayFail
          /\ run' = [run EXCEPT ![r].pc = "each", ![r].todo = {}]
          /\ UNCHANGED dir
    /\ UNCHANGED <<mirror, tgz, part, list, livelist, lastrun, lock, env>>

Archive(r) ==
    \/ StartArchive(r) \/ PickSnapshot(r) \/ BeginArchiveList(r) \/ EndArchiveList(r)
    \/ Tar(r) \/ Commit(r) \/ RemoveDir(r)

--------------------------------------------------------------------------------
(* backmeup.unarchive.sh *)

\* The tarball is there and the directory is not: both are looked at before the lock.
StartUnarchive(r) ==
    /\ At(r, "idle")
    /\ \E s \in Stamp :
          /\ tgz[s] # Missing /\ dir[s] = Missing
          /\ run' = [run EXCEPT ![r] = [NotRunning EXCEPT
                        !.pc = "acq_unarchive", !.stamp = s]]
    /\ UNCHANGED <<files, lock, env>>

\* The lock, and the start of tar -x, which fails when the tarball is gone by now.
AcquireUnarchive(r) ==
    LET s == run[r].stamp IN
    /\ At(r, "acq_unarchive")
    /\ \/ /\ lock = None
          /\ lock' = r
          /\ \/ /\ tgz[s] # Missing
                /\ dir' = [dir EXCEPT ![s] = IF dir[s] = Missing THEN Empty ELSE dir[s]]
                /\ run' = [run EXCEPT ![r].pc = "extract", ![r].todo = Names(tgz[s])]
             \/ /\ tgz[s] = Missing
                /\ GoTo(r, "exit")
                /\ UNCHANGED dir
       \/ /\ lock # None
          /\ run' = [run EXCEPT ![r] = NotRunning]
          /\ UNCHANGED <<dir, lock>>
    /\ UNCHANGED <<mirror, tgz, part, list, livelist, lastrun, env>>

\* tar -x, file by file; only when all of it worked is the tarball removed.
BugExtract(r) ==                       \* removes the tarball whatever tar says
    LET s == run[r].stamp IN
    /\ At(r, "extract")
    /\ \/ \E f \in run[r].todo :
             /\ dir' = [dir EXCEPT ![s][f] = tgz[s][f]]
             /\ run' = [run EXCEPT ![r].todo = @ \ {f}]
             /\ UNCHANGED tgz
       \/ /\ tgz' = [tgz EXCEPT ![s] = Missing]
          /\ run' = [run EXCEPT ![r].pc = "exit", ![r].todo = {}]
          /\ UNCHANGED dir
    /\ UNCHANGED <<mirror, part, list, livelist, lastrun, lock, env>>

BugExtractKeeps(r) ==                  \* leaves the tarball
    LET s == run[r].stamp IN
    /\ At(r, "extract")
    /\ \/ \E f \in run[r].todo :
             /\ dir' = [dir EXCEPT ![s][f] = tgz[s][f]]
             /\ run' = [run EXCEPT ![r].todo = @ \ {f}]
       \/ /\ run[r].todo = {}
          /\ GoTo(r, "exit")
          /\ UNCHANGED dir
    /\ UNCHANGED <<mirror, tgz, part, list, livelist, lastrun, lock, env>>

Extract(r) ==
    LET s == run[r].stamp IN
    /\ At(r, "extract")
    /\ \/ \E f \in run[r].todo :
             /\ dir' = [dir EXCEPT ![s][f] = tgz[s][f]]
             /\ run' = [run EXCEPT ![r].todo = @ \ {f}]
             /\ UNCHANGED tgz
       \/ /\ run[r].todo = {}
          /\ tgz' = [tgz EXCEPT ![s] = Missing]
          /\ GoTo(r, "exit")
          /\ UNCHANGED dir
       \/ /\ "extract" \in MayFail
          /\ run' = [run EXCEPT ![r].pc = "exit", ![r].todo = {}]
          /\ UNCHANGED <<dir, tgz>>
    /\ UNCHANGED <<mirror, part, list, livelist, lastrun, lock, env>>

Unarchive(r) == StartUnarchive(r) \/ AcquireUnarchive(r) \/ Extract(r)

--------------------------------------------------------------------------------
(* The user, and kills *)

Edit(f) ==
    /\ version < MaxVersion
    /\ version' = version + 1
    /\ source' = [source EXCEPT ![f] = version + 1]
    /\ UNCHANGED <<files, lock, run, clock, crashes>>

Delete(f) ==
    /\ source[f] # 0
    /\ source' = [source EXCEPT ![f] = 0]
    /\ UNCHANGED <<files, lock, run, clock, version, crashes>>

Crash(r) ==
    /\ run[r].pc \in CrashAt \ {"idle"}
    /\ crashes < MaxCrash
    /\ crashes' = crashes + 1
    /\ run' = [run EXCEPT ![r] = NotRunning]
    /\ lock' = IF lock = r THEN None ELSE lock
    /\ UNCHANGED <<files, source, clock, version>>

RunStep(r) == Backup(r) \/ Archive(r) \/ Unarchive(r) \/ Exit(r)

Next ==
    \/ \E r \in Slot : RunStep(r) \/ Crash(r)
    \/ \E f \in File : Edit(f) \/ Delete(f)

Spec == Init /\ [][Next]_vars

\* A script that was started goes on to its end, unless it is killed; nobody need
\* start one.
FairSpec == Spec /\ \A r \in Slot : WF_vars(~At(r, "idle") /\ RunStep(r))

--------------------------------------------------------------------------------
(* Properties *)

\* Types, and the lock's discipline: a script past its acquire is the lock's holder.
TypeOK ==
    /\ source \in Tree /\ mirror \in Tree
    /\ dir \in [Stamp -> Tree \cup {Missing}]
    /\ tgz \in [Stamp -> Tree \cup {Missing}]
    /\ part \in [Stamp -> Tree \cup {Missing}]
    /\ list \in [Stamp -> (SUBSET File) \cup {Missing}]
    /\ livelist \in (SUBSET File) \cup {Missing}
    /\ lock \in Slot \cup {None}
    /\ run \in [Slot -> [pc : Step, stamp : 0..MaxStamp, todo : SUBSET File,
                         queue : SUBSET Stamp, failed : BOOLEAN, dry : BOOLEAN,
                         new : SUBSET (File \X (1..MaxVersion))]]
    /\ clock \in 1..(MaxStamp + 1) /\ lastrun \in 0..(MaxStamp + 1)
    /\ version \in 0..MaxVersion /\ crashes \in 0..MaxCrash
    /\ \A r \in Slot : run[r].pc \in LockedStep <=> lock = r

\* The <<file, version>> pairs of snapshot s, from its directory or its tarball.
Content(s) ==
    {p \in File \X (1..MaxVersion) :
        \/ dir[s] # Missing /\ dir[s][p[1]] = p[2]
        \/ tgz[s] # Missing /\ tgz[s][p[1]] = p[2]}

\* The mirror and the snapshots implement a vault that forgets nothing: rsync moves
\* a version into a snapshot before it is overwritten or deleted, and archive and
\* unarchive only change where a snapshot is kept.
Vault == INSTANCE BmuVault WITH Version <- 1..MaxVersion, NoVersion <- 0,
             current <- mirror, past <- UNION {Content(s) : s \in Stamp}

VersionsKept == Vault!Spec

\* The lock holder, as the readers of the history see it.
Writer ==
    LET r == CHOOSE q \in Slot : lock = q
        task == IF lock = None THEN "none"
                ELSE CASE run[r].pc \in {"rsync", "install"} -> "backup"
                       [] run[r].pc = "verify" -> "archive"
                       [] run[r].pc = "rm" -> "remove"
                       [] run[r].pc = "extract" -> "extract"
                       [] OTHER -> "none"
    IN  [task |-> task, snap |-> IF task = "none" THEN 0 ELSE run[r].stamp]

\* The readers of the history may take it for the one of module BmuSnapshots, whatever
\* fails or is killed, as long as every backup has a second of its own.
Shown(trees) == [s \in Stamp |-> IF trees[s] = Missing THEN Missing ELSE Names(trees[s])]

Snapshots == INSTANCE BmuSnapshots WITH
    Snap <- Stamp, dir <- Shown(dir), tgz <- Shown(tgz), part <- Shown(part), writer <- Writer

HistoryAsRead == Snapshots!SnapSpec

\* A run of backmeup.sh that may still add to snapshot s.
Writing(s) ==
    \E r \in Slot : run[r].stamp = s /\ run[r].pc \in {"acq_backup", "rsync", "install"}

\* A snapshot whose backup is over holds the same versions for ever, at every step of
\* an archive or unarchive ("exact inverse", docs/MANUAL.md).
SnapshotFrozen ==
    [][\A s \in Stamp :
          Content(s) # {} /\ ~Writing(s) => Content(s)' = Content(s)]_vars

\* Of two snapshots the later one holds the later version of a file: read in name
\* order, the snapshots tell how the file changed.  (One run at a time: a stamp is
\* taken before the lock, so of two backups that overlap the earlier may run last.)
HistoryInOrder ==
    \A s, t \in Stamp : s < t =>
        \A p \in Content(s), q \in Content(t) : p[1] = q[1] => p[2] < q[2]

\* A snapshot is a directory or a tarball; it is both only while the run that holds
\* the lock removes the one or fills the other.
OneFormAtRest ==
    \A s \in Stamp : dir[s] # Missing /\ tgz[s] # Missing =>
        \E r \in Slot : lock = r /\ run[r].stamp = s /\ run[r].pc \in {"rm", "extract"}

\* Everything in an archived snapshot is in the filelist kept next to it, which is all
\* that backmeup.locate.sh has to find it by (when no run is killed inside a find).
ArchivedSearchable ==
    \A s \in Stamp : tgz[s] # Missing /\ dir[s] = Missing =>
        list[s] # Missing /\ Names(tgz[s]) \subseteq list[s]

\* Between runs the live filelist lists what the mirror has: a file is found as soon
\* as the run that took it is over (when no rsync fails and no run is killed).
LiveSearchable == lock = None /\ livelist # Missing => livelist = Names(mirror)

\* What a backup that holds the lock still has to look at gets into the mirror, unless
\* the user changes it again.
BackupCatchesUp ==
    \A r \in Slot, f \in File, v \in 1..MaxVersion :
        At(r, "rsync") /\ f \in run[r].todo /\ source[f] = v
            ~> mirror[f] = v \/ source[f] # v

================================================================================
