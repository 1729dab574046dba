# bmug2, verified: TLA+ models, TLC runs and TLAPS proofs

bmug2 is a set of `sh` scripts around `rsync`: each project has a *mirror* of the source and a
*history* of what every backup changed or deleted. A GUI (Tauri) and an MCP server run the scripts.
These modules state what the scripts promise about the user's files, and the GUI about schedules,
settings and installations, and check that they keep it, also when runs overlap, commands fail, and a
run is killed at any step.

1. [The system](#1-the-system) 2. [The modules](#2-the-modules) 3. [The runs](#3-the-runs)
4. [The proofs](#4-the-proofs) 5. [Divergences](#5-divergences) 6. [Not modelled](#6-what-is-not-modelled)
7. [Plan](#7-plan)

To repeat the checks: `tlc -workers 2 -config lock.cfg MCBmuLock` (the module of each cfg is in
`PROJECT.json`), `tlapm BmuLockProofs.tla`.

## 1. The system

| Component | State | Operations |
|---|---|---|
| project lock (`bin/backmeup.shellfunctions.sh` 204-229) | `HISTORY/<p>/.bmulock/`, `pid` in it | `bmuAcquireLock`, `bmuReleaseLock` (EXIT trap) |
| backup (`bin/backmeup.sh`) | mirror `SYNC/<p>`, snapshot `HISTORY/<p>/B-<date>/`, its `.filelist`, `<p>.filelist`, `.bmulastrun` | mount guard, lock, rsync `--backup --delete`, filelists |
| archive / unarchive | `B-<date>/` <-> `B-<date>.tar.gz` (`.part` while made) | tar, count, rename, remove / extract, remove |
| Proton replication (`bin/backmeup.replicate.proton.sh`) | Proton Drive, `.bmureplicated.proton`, own lock, staging | walk, tar, count, upload, record |
| rclone/local replication and its report | replica, `.bmureplicate.log` | mount and marker checks, mirror leg, history leg |
| configuration, installation | `backmeup.setup.sh`, `.bmumeta`, `*_MOUNT` | configure, install, upgrade |
| retrieve, locate, updatedb, status | none of their own | read mirror, history and filelists, without the lock |
| migrate | the old layout | renames |
| GUI: schedules (`schedule.rs`, `sources.rs`, `config.rs`, commands of `lib.rs`) | `config.json`; per label a `.plist`/`.timer`, a wrapper script, what launchd/systemd has loaded | set, clear, list (which heals), add, remove, reconcile at start |
| GUI: installations (`install.rs`, `version.rs`, `replication.rs`, `ignore.rs`) | `backmeup.setup.sh` and the scripts beside it, `.bmuconfig`, `.bmuignore` | offer, install, update, use, set replication, ignore lists |
| GUI: running scripts (`run.rs`, `dashboard.rs`) | a child process, its pipes, a channel | back up now, housekeeping now, queries |
| GUI: remotes (`rclone_browse.rs`, `proton_browse.rs`) | rclone's configuration, a Proton session | create a remote, sign in, browse, make a folder |
| GUI frontend, MCP server | what is shown | calls of the above |

The components interact through the file system only. Backups, archive and unarchive exclude each
other with the project lock; nobody else takes it: retrieve, locate, status, migrate and both
replications read (and migrate renames) while the others write. The upload to Proton Drive has one
lock of its own for the whole run. The GUI runs the scripts as child processes, and so do the
system's timers (launchd, systemd), so a manual and a scheduled run can overlap.

What is hard: the lock is made of several file system calls by name, and a stale one is removed by
name; the snapshot's name is taken before the lock; rsync moves an old version aside and then
renames the new one into place; archive and unarchive replace one form of a snapshot by the other
in several steps, any of which may fail or be the last; filelists are written in place; the
uploads are retried and their answers can be lost. `PROJECT.json` lists these as hazards, each at
its line, with the properties that would notice if it went wrong.

What makes the components correct:

* lock: two runs never work on a project at once; a lock never outlives its runs; a stale lock is
  taken over.
* backup, archive, unarchive: no version that was ever in the mirror is lost; a finished snapshot
  never changes, whichever form it has; the order of the snapshots is the order of the changes;
  what is archived can still be found; the mirror catches up with the source.
* replication: what counts as replicated is there, whole; what is not will be.
* installation and guard: a disk that is away is not taken for an empty one.
* GUI: timers, wrapper scripts and saved configuration agree; an installation that is shown
  understands what it is told; a run's log and result are those of its scripts; a dialog that fails
  leaves nothing behind.

## 2. The modules

| Module | Models | Size and use |
|---|---|---|
| `BmuLock` | the lock, one action per file system call | theorems in `BmuLockProofs`, instances in `MCBmuLock` |
| `BmuVault` | what the history promises: a version leaves the current ones only to be a past one | abstract specification of `BmuProject`, which implements it (`VersionsKeptTheorem`) |
| `BmuProject` | mirror, history, filelists under backup, archive and unarchive | theorems in `BmuProjectProofs`, instances in `MCBmuProject` |
| `BmuSnapshots` | the history as a program sees it that only reads it | abstract specification of `BmuProject`, base of the readers' modules; theorems in `BmuSnapshotsProofs` |
| `BmuProton` | the upload run beside everything `BmuSnapshots` allows | theorems in `BmuReplicationProofs` |
| `BmuReplicate` | both legs of `backmeup.replicate.sh` and its guard, beside `BmuSnapshots` with the mirror, and a disk that comes and goes | theorems in `BmuReplicationProofs` |
| `BmuSchedule` | sources and schedules of the GUI, on launchd and on systemd | theorems in `BmuScheduleProofs`, instance in `MCBmuSchedule` |
| `BmuCli` | which installation the GUI shows, installs, updates and configures | theorems in `BmuCliProofs`, instance in `MCBmuCli` |
| `BmuChild` | how the GUI runs a script and collects its output | theorems in `BmuChildProofs` |
| `BmuDialogs` | making remotes, signing in, folders | theorems in `BmuDialogsProofs` |

**BmuLock.** `lockdir` is the run whose `mkdir` made the directory that exists, `pidfile` what
`pid` holds, `judged` the shell variable `l_bmu_lockpid`. `MkdirFirst`, `WritePid`, `ReadPid`,
`CheckAlive`, `Reclaim` and `MkdirAgain` are lines 206-222 one call at a time, `EndWork` and
`Release` the EXIT trap. `rm -rf` is an unlink and a rmdir, both by name. `Crash` is a kill at any
step, `Recycle` gives the pid of an ended run to another process. `crashed` and `robbed` only
observe. A run's name is its pid; a script is in here only as long as it has the lock
(`pc = "work"`). The runs of a project are one user's, so `kill -0` tells whether one of them lives; of
a recycled pid it may say either, for it fails when the process is somebody else's.

**BmuProject.** A file is a path, its content a number that every edit increases, 0 for "absent".
Per file, `rsync` finds it unchanged, new, deleted or changed; a changed one moves to `B-<date>/`
first (`RsyncReplace`) and its new content is renamed into place after that (`RsyncInstall`), with
a kill possible between the two. Files are taken in any order, and the user may edit between any
two steps. `find > filelist` is two steps, the file is empty in between. Archive goes through the
directories its glob found, in name order: filelist when there is none (also in a dry run), tar,
count, rename, removal file by file (whose status is not looked at). Unarchive looks for its
tarball before the lock and fails later when it is gone. `source` is what rsync's filters let
through, so a newly ignored file is a deleted one (`--delete-excluded`). Taking the lock is one
step here and the lock excludes: that is `BmuLock`'s subject, and where it fails
(`lock_race`) everything below is off too.

**BmuSnapshots.** A version never changes inside a snapshot, so a snapshot is a set of files. The
writer of the moment (`writer`) works on one snapshot; `Stop` ends any of its tasks at any step.
That every failure and kill of `BmuProject` is a behaviour of this module is checked by
`store_broken` and proved as `HistoryAsReadTheorem`, so what holds of a reader beside `BmuSnapshots`
holds of it beside the scripts.

**BmuProton.** One project's loop: `UpStart` expands the glob, `UpPick` skips what is gone or
recorded, `UpEnsure` makes the remote folder once, `UpKind`/`UpTar`/`UpCount` make and count the
scratch tarball, `UploadWorks`/`UploadFails` are `bmuProtonUploadOne`, `Record` appends the key. A
failed upload may have stored its file; a name that is taken is left as it is (`-f skip`). A killed
run leaves its lock for the next one to reclaim. A `.tar.gz.part` has a key of its own, as in the
code. `mixed` only observes which snapshots were in flux while they were tarred.

**BmuReplicate.** A version of a file is the snapshot of the backup that made it, so that a version
is where it is wanted by its number: `mirror[f]`, and `held[s][f]` in the history. `StartReplicate`
reads `*_MOUNT`, `Check` is one directory's guard (twice), `ListSync`/`ListBackUp` begin the legs,
`LegEnds` is `l_BMU_RC1`/`l_BMU_RC2`, `Report` the last line. What rsync and rclone do between the two
is external and modelled by what the script relies on: they list a tree (`todo`, `seen`), directories
of the history when their turn comes, copy what they listed, delete at the target what they did not
find, and fail on what has vanished; rsync deletes as it goes, rclone at the end, and the module allows
both. `Scripts` is `BmuSnapshots` with the mirror: `Aside` and `Place` are rsync's two steps of
`BmuProject`. A mount point is one of two, `Here`; `below` says what is found at the paths when the
disk is away, which is what `Configure` (configure.sh and install.sh) leaves there. `due`, `moved` and
`away` only observe: what there was when the run started, whether archive removed anything since, and
whether the disk was away.

**BmuSchedule.** A command is a list of steps (`Steps`), each of which may fail or be the last before a
kill: `install` and `uninstall` of `schedule.rs` call by call, and the one write of `config.json` with
which the commands of `lib.rs` end. A file that is written in place may be half there afterwards (a
wrapper, a definition file, `config.json`, which then counts as none), and a kill in the middle of a
removal leaves the files that were not yet reached (`PartlyDropped`). A schedule's definition is
modelled by its entries (`BuildPlist`, `BuildTimer`) and read back by `Parse`; `Fires` is when the
system really starts it. `Launch` is `reconcile_installed_wrappers` and the choice of the first screen.
`Upgraded` starts with the files of an older version, which have other names (`Stem`). Commands are
synchronous, so they run one at a time; `Outside` (a timer removed with the system's tools) happens
between two of them. `told` and `stale` only observe.

**BmuCli.** `setup[b]` and `scripts[b]` are two files of a bin directory that different programs write:
the GUI reads the version in the first and calls the second. `CheckForUpdate`, `install_new` and
`apply_update` (`Lookup`, `Download`, `Extract`, `InstallScript`, `Save`), `use_existing`,
`set_replication`, `ignore::set` are lists of steps again; `Pull`, `Reconfigure` and `Remove` are what
a user does in a terminal meanwhile. Versions are triples compared as in `version.rs`; an odd number
is an experimental one. install.sh and configure.sh are modelled by what they do to `setup` when
called with the GUI's flags; install.sh may copy a part and succeed (`Fails("copy")`). `.bmuconfig` and
`.bmuignore` are written in place: a failure or a kill leaves the old file, none of it, a part or all
(`TornSwitches`, `TornPatterns`). `asked` and `touched` only observe: the ignore settings that were saved
and whose files nobody wrote since, and the directories that were removed by someone else or copied in
part.

**BmuChild.** Script, two reader threads, caller and clock are processes of their own; a pipe holds
`Cap` lines and a write into a full one waits. `Drain`/`Join` are `run_step`, `Poll`/`Time` the
`run_with_timeout` of both dialogs, a query is `Command::output`. A line that is not UTF-8 ends
`run_step`'s reader, which closes the pipe.

**BmuDialogs.** The loop of `run_create_flow` question by question, with its limit, the sign-in that
waits for a browser, the check afterwards and the roll-back. rclone is external: `Replies` is what the
code has to expect of it. `UserEdits` is `rclone config` in a terminal at any moment; `Kill` leaves a
waiting rclone alone, which may still finish (`OrphanEnds`).

## 3. The runs

Passing runs:

| Run | Instance | Shows |
|---|---|---|
| `lock` | 3 runs, 1 kill, 1 recycled pid | `ExclusionUntilRobbed`: two runs work at once only after one's directory was removed under it; `PairExclusion`: never when only two have started; `ReclaimsOnlyEnded`; `RefusalExplained`: each refusal has a cause; `NoLockLeft`; `ReclaimLeadsToWork`: reclaimers of a dead run's lock do not all end up refused |
| `store_safety` | 2 overlapping scripts, 2 files, 2 edits, 3 seconds, 1 kill, failing rsync, tar, mv | `VersionsKept`: the scripts implement `BmuVault`; `SnapshotFrozen`; `OneFormAtRest`; `ArchivedSearchable` |
| `store_live` | 1 script at a time, failing tar, mv, rm, extraction | `HistoryInOrder`, `LiveSearchable`, `BackupCatchesUp` |
| `store_broken` | 2 overlapping scripts, any command may fail, 1 kill anywhere | `HistoryAsRead`: the scripts implement `BmuSnapshots` |
| `proton` | 1 snapshot of 2 files, failing, lost and killed uploads, the other scripts beside it | `RecordedComplete`, `RetriedUntilRecorded` |
| `replicate` | 1 file, 1 snapshot beside the mirror, 1 trouble (a kill, a failing leg, an unmount, an installation) | `CompleteMeans`: "Replication complete." is true; `CopyCatchesUp`: after trouble the replica comes to be the same; `NotWiped`: an absent disk does not empty it but in two named ways |
| `schedule` | 1 source and housekeeping, 2 bin directories, daily 3:30, every 30 minutes, every 0 minutes; 3 commands, failures, kills and changes from outside | `AsTold`: a schedule the user was told of is read back and fires; `LaunchedCurrent`: a reconciled wrapper is the present configuration's; `SourcesKept`; `MirrorHeals` |
| `cli` | 2 bin and 2 data directories, 2 sources of one name, stable and experimental releases and GUIs, 4 commands, failures, kills and changes by others | `UsableShown`, `IgnoreAsSaved`, `SettingsKept`, `BackendUnderstood` |
| `child` | pipes of 1 line, up to 3 lines a script, four kinds of command | `LogComplete`, `OkMeansAll`, `TimedWhole`, `CallEnds` |
| `dialogs` | 2 names, at most 3 steps | `NoStubLeft`, `UserRemotesKept`, `SuccessMeans`, `DialogEnds` |

Each has its module's type invariant where it is the module's main run. In `store_safety` no run is
killed inside `rm -rf`, an extraction or a `find` (`SafeStep`), and `rm` and the extraction do not
fail: those cases break the properties, which is what the violation runs and section 5 show;
everything else may be interrupted. `SameSecond = FALSE` everywhere: no two backups of a project start
within a second (section 5 says what happens then). `HistoryInOrder` needs the scripts one at a time because a
backup takes its stamp before it takes the lock (it does not wait for it, a second run is refused at
once): of two that overlap the earlier stamp may come to the lock last, when the other has just ended.

*Bounds.* Three lock users are enough for every known race (holder, slow judge, next holder) and
two are provably not enough. Two files give a partial removal, a partial extraction and a tar that
misses one. Two edits give a file a past version and a current one. Three seconds
give two backups and a cutoff after both, so that there is a snapshot to archive, unarchive and
archive again while another backup runs; `store_broken` needs one snapshot less because it compares
with `BmuSnapshots` step by step. One kill leaves a state that later runs must cope with. One snapshot
in `proton` is enough for the races over its two forms and the `.part` of an archive run; snapshots
do not share state but the remote folder. One file and one snapshot in `replicate` have every step
of both legs beside every step of a backup that moves the file's version, and of archive and unarchive
of the result; files and snapshots share nothing but the status of a leg, and the theorems of section 4
cover any number of both. Four commands in `cli` are a command, another one that meets what a
failure or a kill of the first left behind, and two changes from outside; three in `schedule` are
the same with one change, which is what its liveness leaves time for, and its safety properties are
proved for any number; in `schedule` 0 minutes is the one interval that is refused. In `child` a pipe of one line is full after one, and
three lines fill both pipes and one again. Three steps in `dialogs` are fewer than there are
questions, so that the limit is met, and a step may be any question.

Bounded counters (`MaxVersion`, `MaxStamp`, `MaxCrash`, `MaxRecycled`, `MaxTrouble`, `MaxCalls`) are in
the guards. Deadlock is checked in `schedule`, `cli` and `dialogs`, which can always go on; not in the
others, where the system may rest, or, in `child`, where a command that has returned is the end.

*Symmetry.* `store_safety` and `store_broken` use the symmetry of files and slots, `cli` that of directories
and of the two sources of one name, which no definition distinguishes; runs with liveness use none.

*Fairness.* `BmuLock` and `BmuProject` assume that a run which was started keeps being scheduled
(weak fairness of each started run) and, as said, may be killed; nobody need ever start one: the
scripts contain no waiting loop, every command they call ends. `BmuProton` assumes that uploads are
started again and again (a timer, `docs/SCHEDULING.md`), that they are run to their end, and that a
remote folder or an upload tried for ever works in the end (strong fairness); `RetriedUntilRecorded`
says itself that the scripts must leave the snapshot alone and the kills must end. `BmuReplicate`
assumes the same of a timer and of the run it starts; nothing forces the disk to come back, and
`CopyCatchesUp` says what must be the case for good. `BmuSchedule`: the GUI is started again and again,
a command that runs goes on, and the dashboard asks for the sources whenever it is shown (it does, on
every refresh). `BmuChild`: threads and processes are scheduled and time passes; the script goes on
unless it waits for a person. `BmuDialogs`: the calling thread is scheduled and time passes; nobody ever
has to sign in, and rclone may ask for ever.

## 4. The proofs

`BmuLockProofs` proves, for any set of runs, kills and recycled pids, from `NoRun \notin Run` alone:

* `TypeCorrect`: `TypeOK`, with the pid by which a run judges or reclaims that of another run (an empty
  file or one's own pid is no reason). It is inductive only with `JudgeInv`.
* `ReclaimSound`: `ReclaimsOnlyEnded`. The inductive invariant `JudgeInv` adds who may have
  written the pid file (`PidWritten`) and what may have been read from it (`JudgedWritten`): a pid
  is only ever found after its run had the lock, so a run never judges itself, and once a pid was
  found dead its run has ended and stays so.
* `ExclusionTheorem`: `ExclusionUntilRobbed`. `HolderOwns`: while nobody was robbed, who holds the
  lock is the one that made the directory. `MutualExclusion` itself says nothing of the moments
  between `mkdir` and the pid, or inside the release, and is not inductive.
* `PairTheorem`: `PairExclusion`, from `JudgeInv` and `PairOwns`: with one other run, that run's pid
  being dead means that nobody can have made a new directory.
* `NoLockLeftTheorem`: `NoLockLeft`, from `CalmInv`: without a kill, a directory that exists has a
  run that will still remove it.
* `RefusalTheorem`: `RefusalExplained`, action by action from `JudgeInv`: the pid that a run finds in
  use is never its own, so it is another run's or one that an unrelated process has got since.

`BmuProjectProofs` proves every safety property of `BmuProject`, for any finite set of files, any
number of overlapping scripts and any bounds, from `ProjectAssumption` (`None`, `Missing` and the bounds
are what their comments say). A hypothesis beyond that stands in the theorem and says which failures,
kills or overlaps it leaves out; each is one of section 5's, where the property really fails. `MayFail`
and `CrashAt` are otherwise any sets. The run that checks a
property meets the hypotheses of its theorem: `store_broken` for `HistoryAsRead`, `store_live` for
`HistoryInOrder` and `LiveSearchable`, `store_safety` for the others.

* `TypeCorrect`: `TypeOK`, with the lock's discipline (a script is past its acquire if and only if it
  is the holder), without any hypothesis. `TypeOK` is not inductive: a step that counts, lists or
  unpacks needs what it works on to exist. `ProjectInv` adds `Found(r)`: what script `r` found or made
  earlier is still there, which holds because only the lock's holder takes anything away.
* `HistoryAsReadTheorem`: `HistoryAsRead`, a refinement: each step is one of `BmuSnapshots` or none,
  whatever fails or is killed, unless two backups share a second. `WorkInv` adds how far a script has
  come (`Halfway`: what tar has written is from the directory, what is unpacked from the tarball), and
  `StampInv` whose a snapshot is: a backup's is empty when it gets the lock (`Fresh`), no other script
  has that second (`Own`), and no snapshot is newer than the last second taken (`StampPast`). Without
  that a backup might write into an archived snapshot, which `BmuSnapshots` does not allow.
* `LossTheorem`: whatever fails or is killed, unless two backups share a second, a version is lost in
  one way only: an archive run packs what an interrupted removal or extraction has left of a directory
  and renames that over its tarball (`Overwrites`, section 5, `store_killed_rm`). Any other step is one
  of `BmuVault` or none, and changes the content of a snapshot only by the rsync of its own backup,
  which adds (`Kept`). `AgreeInv` adds `Agree(s)`: the directory and the tarball of a snapshot never
  contradict each other, also while one of them is incomplete.
* `VersionsKeptTheorem`, `SnapshotFrozenTheorem`, `OneFormTheorem`: `VersionsKept` (the refinement of
  `BmuVault`), `SnapshotFrozen` and `OneFormAtRest`, if besides archive's `rm -rf` and unarchive's
  `tar -x` do not fail and are not killed (`NoneCutShort`). Then `CarefulInv` excludes `Overwrites`
  (`CarefulKeeps`), and the first two follow from the steps of `LossTheorem`.
* `HistoryInOrderTheorem`: `HistoryInOrder`, if runs do not overlap (`OneRun`), seconds shared or not.
  `OrderInv` orders a file's versions through user, mirror and history (`NewestFirst`, `Superseded`),
  with the one that rsync holds in between (`Incoming`), and says that a backup has the last snapshot
  (`Latest`).
* `ArchivedSearchableTheorem`: `ArchivedSearchable`, if no run is killed inside a `find` and no two
  backups share a second; a removal or an extraction may fail. `ListInv` follows a list from before
  the tarball (`ListedBefore`, `DirListed`) until the tarball is all there is (`TarballListed`).
* `LiveSearchableTheorem`: `LiveSearchable`, if no rsync fails and no backup is killed once it copies
  (`CopyUndisturbed`), from `LiveInv`: a backup that has the lock has not failed, so it comes to its
  `find`.

`BmuSnapshotsProofs` proves, from `SnapAssumption` (finitely many files, `Missing` is no set of
files):

* `TarballTheorem`: where a snapshot is left as a directory and as a tarball, the tarball has every
  file of the directory. `SnapInv` adds what the writer has found or made (`WriterFound`); the count
  check of archive is sound because equal cardinalities of a finite set and a subset of it make them
  equal (`CountedIsWhole`).
* `OnlyOverwriteLosesTheorem`: a snapshot whose backup is over (`Settled`) stays, never gains a file,
  and loses one in a single way: archive does not look for a tarball, so after a removal that was
  interrupted it packs the rest of the directory and renames that over the whole tarball
  (`Overwrites`; section 5, `store_killed_rm`).

`BmuReplicationProofs` is about the two programs that replicate. Of `BmuProton` it proves, from these
and `Snap # {}`:

* `ProtonTypeCorrect`: `ProtonTypeOK`.
* `RecordedCompleteTheorem`: `RecordedComplete`. The inductive invariant `ProtonInv` follows a
  snapshot through the run: what is being tarred (`TarredWhole`), staged (`StagedWhole`) and stored
  (`StoredWhole`) has everything the snapshot will ever have unless it was in flux at the time;
  what is recorded is stored (`Confirmed`). It covers every interleaving with the other scripts, and
  reaches `BmuProject` through `HistoryAsReadTheorem`.

Of `BmuReplicate` it proves, from `SnapAssumption` and `ReplicateAssumption` (snapshots are positive
numbers, `Missing` is none):

* `CompleteMeansTheorem`: `CompleteMeans`. A run copies the mirror, then the history, without a lock,
  while backups move versions from the one to the other; `CompleteMeans` alone says nothing of the
  steps before the last. `ReplicateInv` follows each version that was there at the start
  (`OnItsWay`): listed and to be copied, or copied, or meanwhile in the history, where the second leg
  will find it, and in that leg on one of five ways into the replica (`SnapDue`). Why a version never
  gets behind the run is `Labels` and `DueOnce`: a version is in the mirror or in one snapshot, moves
  from the former to the latter and never back. `CopyOf` says that nothing of an unfinished snapshot
  is in the replica that is not on the disk, `Opened` that what is being copied has a directory to be
  copied into, `TarballWhole` (of `BmuSnapshotsProofs`) that the tarball may stand for the directory.
* `NotWipedTheorem`: `NotWiped`, from `GuardPassed`: a run that passed the guard without the disk has
  an expectation and a marker that let it.

`BmuDialogsProofs` proves, from `DialogsAssumption`, for any set of names and any limit:

* `DialogsTypeCorrect`: `TypeOK`, in particular that a process with a time limit runs exactly while
  its command waits for it.
* `NoStubLeftTheorem`: `NoStubLeft`. `StubOwned` adds that the command at work on a remote without a
  token will still look at it, and that rclone never calls such a remote done.
* `UserRemotesKeptTheorem`: `UserRemotesKept`, from `Guarded`: what the user has under a name that the
  program, or a sign-in that outlived it, may still write to was made after the program had looked.
* `SuccessMeansTheorem`: `SuccessMeans`, action by action; nothing else answers "ok".

`BmuScheduleProofs` proves, for any sources, directories, schedules and choice of steps that fail, from
`ScheduleAssumption` (housekeeping is no path, schedules are records of numbers) and `MarkersAssumption`
(`Off`, `Missing` and their like are nothing else):

* `TypeCorrect`: `TypeOK`. `TypeInv` says of a command which steps it may have ahead and what it was
  given (`CallOK`); without that no step is known to be followed by the one that ends it.
* `AsToldTheorem`: `AsTold`, if intervals divide the hour (`HoursDivided`: `main.ts` offers 5, 10, 30
  and 60 minutes, and systemd's `*:0/N` fires every N minutes only for such N). `ToldTrue` says that a
  schedule the user was told of is in the definition file, the wrapper and what is loaded; it is
  inductive with `HalfDone`, what a command has done by the step it is at.
* `LaunchedCurrentTheorem`: `LaunchedCurrent`, from `AllCurrent` and `ScriptCurrent`: a command carries
  its wrapper script for several steps, and it is still the present one when it is written.
* `SourcesKeptTheorem`: `SourcesKept`. The action property needs `ReadSources`: a command that writes
  `config.json` back at its end does so with the sources it read at its beginning, and they have not
  changed since.

`BmuCliProofs` proves, for any directories, sources, releases, GUI versions and choice of steps that
fail, from `CliAssumption` (versions are triples of numbers, a list of releases is finite and has a
stable one from 2.14.0 on, its pre-releases are from the gate on: the GUI looks at the ten newest
releases only, `install.rs` 353; without this, an update of an installation that was copied in part, and is
older than the gate, might be a pre-release older than the gate, too) and `MarkersAssumption`:

* `TypeCorrect`: `TypeOK`, in particular that what is installed is a published version and never an
  error page (`CallOK`).
* `UsableShownTheorem`: `UsableShown`. The gate looks at `backmeup.setup.sh`, the property is about the
  scripts: `Paired` says that the file is there with them and names them or older ones, unless they were copied in
  part. `UsableAhead`
  extends the gate to what is offered, being installed and about to be shown; offers only go upwards
  and an update's target is beyond the version it was offered for, wherever that is installed by then.
  The order of versions is proved total (`OlderOrder`), and a newest one exists in each list
  (`NewestExists`, by well-foundedness of the subsets of a finite set).
* `IgnoreAsSavedTheorem`: `IgnoreAsSaved`, from `IgnoreKept`: between the two writes the switches are
  already those the patterns will be written for. `SwitchesWritten` says that whatever a write of the
  switches leaves, whole or in part, nobody's are touched but those of sources that have them in the
  same file: same name and same history directory.
* `SettingsKeptTheorem`: `SettingsKept`, from the types.
* `BackendUnderstoodTheorem`: `BackendUnderstood`, from `UsableAhead` and that newer scripts know what
  older ones know (`KnowsNewer`). `Understood` speaks of the scripts and of the version in
  `backmeup.setup.sh`: of the scripts alone it is not true for every set of releases. When an older
  release was installed from the setup screen where `local` was configured, and `git pull` brought newer
  scripts, an update is offered by the old mark and may be older than the scripts.

`BmuChildProofs` proves every safety property of `BmuChild`, for pipes of every size, scripts of every
length, every order in which threads and processes go on and every time at which a script ends; none
of it needs the bounds. `ChildInv` has a part for each thing that a property relates:

* `LogCompleteTheorem`: `LogComplete`. `Numbered` and `Authors` say that lines are numbered as they are
  written, by a script that runs or has been waited for, `InPipe` and `Passing` that a line goes from
  its pipe through the channel to the log and overtakes none of its pipe, `NoneLost` that it is on that
  way as long as its reader reads, or if it could be read at all. A line with a later one in the log
  cannot still be in the channel or in the pipe; and at `Join`, when both readers have stopped and the
  channel is empty, there is only the log left. The properties compare positions and numbers of lines,
  and the lemmas say what `Append`, `Tail` and concatenation do to the set and the order of them, so
  nothing needs induction over the length of a sequence.
* `OkMeansAllTheorem`: `OkMeansAll`, from `Ahead` (which scripts have been waited for, and that all of
  them ended well as long as the run goes on) and `Outcome`; `PlanShape` has the one or two scripts of a
  run, which differ.
* `TimedWholeTheorem`: `TimedWhole`, from `Place` (where the caller is, and what there is of the process
  meanwhile) and `Waiting`: what nobody reads stays in the pipes until the process has ended.

Only model-checked: liveness (`ReclaimLeadsToWork`, `BackupCatchesUp`, `RetriedUntilRecorded`,
`CopyCatchesUp`, `MirrorHeals`, `CallEnds`, `DialogEnds`), which with ENABLED is out of the prover's
reach. Every other property of the passing runs is proved.

## 5. Divergences

Shown by violation runs:

* `lock_race`: three runs, no kill. A run reads the pid of a holder that is about to end, finds it
  dead, and removes the directory of the next holder: two work at once (`SCHEDULING.md` 89-90).
* `store_killed_rm`: an archive run killed inside `rm -rf` leaves a partial directory beside the
  whole tarball; the next one tars the rest and renames it over the tarball.

Met on the way, without a run of their own. The scripts:

* A run killed between `mkdir` and the write of its pid leaves a lock that nobody reclaims; every
  later run is refused although nothing runs (`shellfunctions.sh` 202-203). `RefusalExplained` allows
  for it.
* Two backups of one second share a snapshot and the second overwrites a version the first put
  aside, lock or not (`BmuProject` with `SameSecond = TRUE`).
* A filelist that a killed backup left empty is taken for complete, and the archived snapshot cannot
  be searched (`backmeup.sh` 220; `SafeStep` leaves this kill out).
* A snapshot may be uploaded to Proton Drive and recorded while a backup is still filling it;
  `RecordedComplete` excludes it by `mixed`.
* A failed extraction (`unarchive.sh` 65, "archive kept") leaves a partial directory, and the next
  archive run replaces the kept archive by it: `store_killed_rm` with another first step. For the
  same reason the upload to Proton Drive, which meets the directory before the tarball, would upload
  and record the partial one; `RecordedComplete` excludes snapshots that are both.
* The status of `mv && rm -rf` is not looked at (`archive.sh` 120): a failed removal is reported as
  archived with exit 0, where `MANUAL.md` 358-361 has it exit 1.
* A dry run of archive writes a missing filelist (`archive.sh` 94) though it says "nothing was
  changed" (128; `MANUAL.md` 362-363); the comment at line 60 knows.
* LAST CHANGE in the status table counts directories only (`status.sh` 80): archiving the newest
  snapshot moves it back or makes it "-" (`MANUAL.md` 293-295).
* `SCHEDULING.md` 102-106 says archive takes no lock; it does.
* A replication lists the history before an archive run commits its tarball and copies the directory
  after that run has begun to remove it: what is gone by then is in neither form in the replica, and if
  the directory's turn had not come its removal counts as an error or, for files not yet listed, as
  nothing at all (`replicate.sh` 237). `CompleteMeans` excludes runs during which archive removes.
* `replicate.sh` 66-72 trusts `.bmumeta` not to exist below an unmounted mount point; an upgrade
  while the disk is away creates it there. A disk that leaves after the guard has looked, with
  directories below its mount point, empties the replica and the run says "complete". These are the
  two exceptions of `NotWiped`.
* The report of a replication never finds its outcome: the line is printed after the log is closed
  (`replicate.sh` 240-248).
* install.sh does not look at the status of its `mkdir` and `cp` (115-117) and ends well without them: on
  a full disk the GUI reports an installation of which a part is there (`UsableShown` excludes it, by
  `touched`; an unwritable directory is met by configure.sh before). A configuration without
  `--index-dir` sets the index directory back to the default (`configure.sh` 146), which
  `set_replication` does.

The GUI:

* "Back up now" housekeeping does not replicate with the "local" backend, the scheduled one does
  (`run.rs` 93-97; its comment, 78-85, promises the wrapper's steps, `schedule.rs` 98-107).
* The saved schedule of housekeeping is never healed from its files, as that of a source is; wrappers
  of labels whose saved schedule is empty, and those an older version named without a source's name,
  are not reconciled. `LaunchedCurrent` and `MirrorHeals` are stated accordingly.
* When `launchctl bootstrap` or `systemctl enable` fails the definition file stays, and the schedule
  is shown although nothing is loaded (`schedule.rs` 12-16 calls the file the source of truth).
* `config.json` is written in place; half a file counts as none, and the next `save` starts without
  sources (`config.rs` 64-67 says they are preserved).
* `.bmuconfig` and `.bmuignore` are written in place (`ignore.rs` 100, 104): a save that fails or is
  killed leaves part of a file, and `.bmuconfig` is shared by all sources of one name, so another one's
  switches may be lost by it. `IgnoreAsSaved` speaks of settings whose files were not written since.
* systemd's `*:0/60` names no minute after the first, and is refused by some versions; the GUI offers
  60 minutes.
* `apply_update` of a checkout installs into the `BMU_INSTDIR` that its setup names, not "IN PLACE"
  (`install.rs` 393-403), with the directories it read before the download; `install_new` over an
  experimental installation downgrades it, which may leave a configured backend that the scripts do not
  know. Both are exceptions in `SettingsKept` and `BackendUnderstood`.
* An experimental GUI offers experimental updates to a stable installation, too (`install.rs` 286-288
  says never).
* The version is read from `backmeup.setup.sh`, not from the scripts: after `git pull` the older one
  is shown and gates features.
* A line that is not UTF-8 ends the thread that reads it; the pipe is closed and the script, a running
  backup, may be killed by its next write (`run.rs` 45-54).
* `try_wait` and the time are looked at one after the other (`rclone_browse.rs` 225): a sign-in that
  succeeded in between is reported as timed out and its remote is deleted; so is a good remote when
  the listing that should confirm it fails. The roll-back deletes by name and may meet a remote the
  user made after the check. A kill during a sign-in leaves a remote without a token, and an rclone
  that may finish later.

## 6. What is not modelled

Besides the components that section 7 leaves open: the options' parsing, prompts and tool detection
(terminal input and output), the wording of messages, file attributes and links, rsync's own
algorithm, the contents of tarballs beyond which files they have, disk-full as anything but a failing
command, and of `backmeup.sh` the `.bmuconfig` filters, which decide what `source` is, the refusal of
an old layout and its own mount guard, which is the test `BmuReplicate` has.

Of replication: the guard of a local target, the dry run, which changes nothing, and the report, which
parses the log. Of Proton Drive replication: the loop over projects, which share nothing but its lock.

Of the GUI: blocking commands that freeze the window, two instances of the application at once,
changes from outside in the middle of a command of `BmuSchedule`, a missing HOME or `id`, the search
for installations and the directories it proposes (`find_existing_installs`, `default_paths`,
`find_gdrive_mount`, the `detect_*` commands), which only read, the fields of parsed tables, and the
frontend, where two refreshes under way at once may leave the older answer on the screen
(`main.ts` 937). configure.sh and install.sh are in `BmuCli` and `BmuReplicate` only as far as they are
called there. The MCP server is stateless; status, locate and updatedb read what `BmuProject` keeps.

## 7. Plan

Done: `BmuLock`, `BmuProject` over `BmuVault` and `BmuSnapshots`, `BmuProton` and `BmuReplicate` over
`BmuSnapshots`, the GUI's `BmuSchedule`, `BmuCli`, `BmuChild` and `BmuDialogs`; proofs of all their
safety properties.

Left open, in this order:

1. Readers over `BmuSnapshots`: `retrieve.sh` copies a snapshot without the lock and reports success
   without looking at cp or tar; the replication's report.
2. The mount guard of `backmeup.sh` with its writes, beside `BmuReplicate`'s disk; the guard of a local
   target.
3. `migrate.sh`: three renames without a lock, a kill between which leaves a name nobody looks for.
4. Proofs: that a reader's property over `BmuSnapshots` holds of the scripts of
   `BmuProject`, as one theorem with `HistoryAsReadTheorem`; `HistoryInOrder` for overlapping runs whose
   stamps are in the order of their locks.
