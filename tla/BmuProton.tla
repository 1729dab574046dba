------------------------------- MODULE BmuProton -------------------------------
(***************************************************************************)
(* bin/backmeup.replicate.proton.sh: the upload of one project's snapshots *)
(* to Proton Drive.  It has a lock of its own, so there is one such run at *)
(* a time, and it does not take the project's lock, so whatever module     *)
(* BmuSnapshots says the other scripts do may happen beside it.            *)
(*                                                                         *)
(* The proton-drive CLI is external: an upload stores its file under the   *)
(* file's name, does nothing when that name is taken (-f skip), or fails,  *)
(* and then the file may have been stored all the same.                    *)
(***************************************************************************)
EXTENDS BmuSnapshots

CONSTANTS
    UploadMayFail,  \* may an upload, or the making of the remote folder, fail?
    UploadMayDie    \* may an upload run be killed?

ASSUME ProtonAssumption == Snap # {}

VARIABLES
    remote,         \* remote[k]: the files in the tarball stored for key k
    recorded,       \* .bmureplicated.proton, the keys of uploaded snapshots
    up,             \* the upload run
    mixed           \* observed: the snapshots that were in flux while they were tarred

upvars == <<remote, recorded, up, mixed>>
allvars == <<snapvars, upvars>>

--------------------------------------------------------------------------------

\* A B-* entry of the project: B-s/, B-s.tar.gz or B-s.tar.gz.part, in glob order
\* (the filelists are left out).  An entry's key is its name without .tar.gz, so a
\* .part is a snapshot of its own.
Entry == Snap \X {1, 2, 3}
Key == Snap \X {"snap", "part"}

KeyOf(e) == <<e[1], IF e[2] = 3 THEN "part" ELSE "snap">>

\* What an entry is on disk now, Missing when it is not there (what is in a .part is
\* left open: nobody ever reads it).
OnDisk(e) ==
    CASE e[2] = 1 -> dir[e[1]]
      [] e[2] = 2 -> tgz[e[1]]
      [] e[2] = 3 -> IF part[e[1]] = Missing THEN Missing ELSE {}

Before(d, e) == d[1] < e[1] \/ (d[1] = e[1] /\ d[2] <= e[2])

NoEntry == CHOOSE e \in Entry : TRUE

UpIdle == [pc |-> "idle", queue |-> {}, entry |-> NoEntry, ensured |-> FALSE,
           todo |-> {}, staged |-> {}]

UpAt(step) == up.pc = step
UpGoTo(step) == up' = [up EXCEPT !.pc = step]

\* On to the next entry; the scratch tarball of this one is removed.
UpGoOn == up' = [UpIdle EXCEPT !.pc = "each", !.queue = up.queue, !.ensured = up.ensured]

ProtonInit ==
    /\ SnapInit
    /\ remote = [k \in Key |-> Missing]
    /\ recorded = {}
    /\ up = UpIdle
    /\ mixed = {}

\* The glob over the project's snapshots is expanded once.
UpStart ==
    /\ UpAt("idle") \/ UpAt("killed")
    /\ up' = [UpIdle EXCEPT !.pc = "each", !.queue = {e \in Entry : OnDisk(e) # Missing}]
    /\ UNCHANGED <<remote, recorded>>

\* The next entry: skipped when it is gone or recorded.
BugUpPick ==                            \* does not look for the folder
    /\ UpAt("each")
    /\ \/ /\ up.queue = {}
          /\ up' = UpIdle
       \/ \E e \in up.queue :
             /\ \A d \in up.queue : Before(e, d)
             /\ \/ /\ OnDisk(e) = Missing \/ KeyOf(e) \in recorded
                   /\ up' = [up EXCEPT !.queue = @ \ {e}]
                \/ /\ OnDisk(e) # Missing /\ KeyOf(e) \notin recorded
                   /\ up' = [up EXCEPT !.queue = @ \ {e}, !.entry = e,
                                       !.pc = "kind"]
    /\ UNCHANGED <<remote, recorded>>

UpPick ==
    /\ UpAt("each")
    /\ \/ /\ up.queue = {}
          /\ up' = UpIdle
       \/ \E e \in up.queue :
             /\ \A d \in up.queue : Before(e, d)
             /\ \/ /\ OnDisk(e) = Missing \/ KeyOf(e) \in recorded
                   /\ up' = [up EXCEPT !.queue = @ \ {e}]
                \/ /\ OnDisk(e) # Missing /\ KeyOf(e) \notin recorded
                   /\ up' = [up EXCEPT !.queue = @ \ {e}, !.entry = e,
                                       !.pc = IF up.ensured THEN "kind" ELSE "ensure"]
    /\ UNCHANGED <<remote, recorded>>

\* bmuProtonEnsureFolder, once per project; without the folder the project is left.
UpEnsure ==
    /\ UpAt("ensure")
    /\ \/ up' = [up EXCEPT !.ensured = TRUE, !.pc = "kind"]
       \/ UploadMayFail /\ up' = [UpIdle EXCEPT !.pc = "each"]
    /\ UNCHANGED <<remote, recorded>>

\* A file is uploaded as it is; a directory is tarred first.
BugUpKind ==                           \* directories only
    /\ UpAt("kind")
    /\ \/ /\ OnDisk(up.entry) = Missing \/ up.entry[2] # 1
          /\ UpGoOn
       \/ /\ OnDisk(up.entry) # Missing /\ up.entry[2] = 1
          /\ up' = [up EXCEPT !.pc = "tar", !.staged = {}, !.todo = dir[up.entry[1]]]
    /\ UNCHANGED <<remote, recorded>>

UpKind ==
    /\ UpAt("kind")
    /\ \/ /\ OnDisk(up.entry) = Missing
          /\ UpGoOn
       \/ /\ OnDisk(up.entry) # Missing /\ up.entry[2] # 1
          /\ UpGoTo("upload")
       \/ /\ OnDisk(up.entry) # Missing /\ up.entry[2] = 1
          /\ up' = [up EXCEPT !.pc = "tar", !.staged = {}, !.todo = dir[up.entry[1]]]
    /\ UNCHANGED <<remote, recorded>>

\* tar, file by file: those the directory had when tar came to it, and perhaps some
\* that came later; it fails on one that is gone.
UpTar ==
    LET here == IF OnDisk(up.entry) = Missing THEN {} ELSE OnDisk(up.entry)
    IN
    /\ UpAt("tar")
    /\ \/ \E f \in here \ up.staged :
             up' = [up EXCEPT !.staged = @ \cup {f}, !.todo = @ \ {f}]
       \/ /\ up.todo \ here # {}
          /\ UpGoOn
       \/ /\ up.todo = {}
          /\ UpGoTo("count")
    /\ UNCHANGED <<remote, recorded>>

\* The entries of the tarball against those of the directory as it is by now.
UpCount ==
    LET found == OnDisk(up.entry)
        same == found # Missing /\ Cardinality(up.staged) = Cardinality(found)
    IN
    /\ UpAt("count")
    /\ \/ same /\ UpGoTo("upload")
       \/ ~same /\ UpGoOn
    /\ UNCHANGED <<remote, recorded>>

\* bmuProtonUploadOne of the staged tarball or of the file itself.
Local == IF up.entry[2] = 1 THEN up.staged ELSE OnDisk(up.entry)

BugUploadWorks ==                      \* trusts the exit code alone
    /\ UpAt("upload")
    /\ remote' \in {remote, [remote EXCEPT ![KeyOf(up.entry)] = IF @ = Missing THEN Local ELSE @]}
    /\ UpGoTo("record")
    /\ UNCHANGED recorded

UploadWorks ==
    /\ UpAt("upload")
    /\ Local # Missing
    /\ remote' = [remote EXCEPT ![KeyOf(up.entry)] = IF @ = Missing THEN Local ELSE @]
    /\ UpGoTo("record")
    /\ UNCHANGED recorded

UploadFails ==
    /\ UpAt("upload")
    /\ \/ UNCHANGED remote
       \/ /\ Local # Missing
          /\ remote' = [remote EXCEPT ![KeyOf(up.entry)] = IF @ = Missing THEN Local ELSE @]
    /\ UploadMayFail \/ Local = Missing
    /\ UpGoOn
    /\ UNCHANGED recorded

\* The key is appended to the project's state file.
Record ==
    /\ UpAt("record")
    /\ recorded' = recorded \cup {KeyOf(up.entry)}
    /\ UpGoOn
    /\ UNCHANGED remote

UpStep ==
    \/ UpStart \/ UpPick \/ UpEnsure \/ UpKind \/ UpTar \/ UpCount
    \/ UploadWorks \/ UploadFails \/ Record

\* The lock of a killed run stays; the next run finds its pid dead and reclaims it.
UpKill ==
    /\ UploadMayDie
    /\ ~UpAt("idle") /\ ~UpAt("killed")
    /\ up' = [UpIdle EXCEPT !.pc = "killed"]
    /\ UNCHANGED <<remote, recorded>>

\* Snapshot s is in flux: a backup is still filling it, or it is a directory and a
\* tarball, of which one is being made or removed, or was when a run was killed.
InFlux(s) == Busy("backup", s) \/ (dir[s] # Missing /\ tgz[s] # Missing)

Observe ==
    mixed' = mixed \cup {s \in Snap : InFlux(s)' /\ up'.pc \in {"tar", "count"} /\ up'.entry[1] = s}

ProtonNext ==
    /\ \/ (UpStep \/ UpKill) /\ UNCHANGED snapvars
       \/ SnapNext /\ UNCHANGED <<remote, recorded, up>>
    /\ Observe

ProtonSpec == ProtonInit /\ [][ProtonNext]_allvars

UpRun == UpStep /\ UNCHANGED snapvars /\ Observe

\* Upload runs are started again and again (a timer) and go on to their end, and what
\* is retried for ever works in the end.
ProtonFairSpec ==
    /\ ProtonSpec
    /\ WF_allvars(UpRun)
    /\ SF_allvars(UpRun /\ UpEnsure /\ up'.ensured)
    /\ SF_allvars(UpRun /\ UploadWorks)

--------------------------------------------------------------------------------
(* Properties *)

\* Types, and the order of one run: nothing of a project is read or uploaded before its
\* remote folder is there.
ProtonTypeOK ==
    /\ remote \in [Key -> (SUBSET File) \cup {Missing}]
    /\ recorded \in SUBSET Key
    /\ up \in [pc : {"idle", "killed", "each", "ensure", "kind", "tar", "count", "upload", "record"},
               queue : SUBSET Entry, entry : Entry, ensured : BOOLEAN,
               todo : SUBSET File, staged : SUBSET File]
    /\ mixed \in SUBSET Snap
    /\ up.pc \in {"kind", "tar", "count", "upload", "record"} => up.ensured

\* Snapshot s is off site with every file that the project still has of it.
Whole(s) == remote[<<s, "snap">>] # Missing /\ Files(s) \subseteq remote[<<s, "snap">>]

\* A snapshot that counts as uploaded is never looked at again, so nothing would ever
\* complete it: unless it was in flux when it was tarred it is off site as a whole,
\* whatever was archived, unarchived, killed, retried or skipped before and since.
RecordedComplete ==
    \A s \in Snap \ mixed : <<s, "snap">> \in recorded => Whole(s)

\* Failed, killed and lost uploads are retried until the snapshot is recorded, in
\* whichever form it is kept by then (once the project's scripts leave it alone and the
\* uploads are no longer killed).
RetriedUntilRecorded ==
    (<>[](writer = Nobody)) /\ (<>[][~UpKill]_allvars) =>
        \A s \in Snap : Files(s) # {} ~> <<s, "snap">> \in recorded

================================================================================
