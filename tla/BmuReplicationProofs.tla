------------------------- MODULE BmuReplicationProofs -------------------------
(***************************************************************************)
(* The two replications that run beside the other scripts, for every set   *)
(* of files and snapshots: that what counts as uploaded to Proton Drive is *)
(* there, what the last line of a replication with rclone or to a disk is  *)
(* worth, and that an absent disk does not empty the replica.              *)
(***************************************************************************)
EXTENDS BmuProton, BmuReplicate, BmuSnapshotsProofs

(***************************************************************************)
(* BmuProton, however often uploads fail, are lost or are killed, and      *)
(* whatever backups, archive and unarchive runs do beside it.              *)
(***************************************************************************)

\* What is being tarred, as long as it is not in flux: what has been read and what is
\* still to be read are the directory.
TarredWhole ==
    up.pc \in {"tar", "count"} =>
        /\ up.entry[2] = 1
        /\ up.pc = "count" => up.todo = {}
        /\ up.entry[1] \notin mixed =>
              /\ ~InFlux(up.entry[1])
              /\ dir[up.entry[1]] # Missing
              /\ up.staged \subseteq dir[up.entry[1]]
              /\ dir[up.entry[1]] \subseteq up.staged \cup up.todo

\* What is being uploaded from the staging directory has everything there ever will be.
StagedWhole ==
    up.pc = "upload" /\ up.entry[2] = 1 /\ up.entry[1] \notin mixed =>
        Settled(up.entry[1]) /\ Files(up.entry[1]) \subseteq up.staged

\* So has what is stored off site, recorded or not.
StoredWhole ==
    \A s \in Snap \ mixed : remote[<<s, "snap">>] # Missing => Settled(s) /\ Whole(s)

\* What is recorded, or about to be, is stored.
Confirmed ==
    /\ up.pc = "record" => remote[KeyOf(up.entry)] # Missing
    /\ \A k \in recorded : remote[k] # Missing

ProtonInv ==
    SnapInv /\ ProtonTypeOK /\ TarredWhole /\ StagedWhole /\ StoredWhole /\ Confirmed

--------------------------------------------------------------------------------

LEMMA NoEntryType == NoEntry \in Entry
<1>1. PICK s \in Snap : TRUE
  BY ProtonAssumption
<1>2. <<s, 1>> \in Entry
  BY DEF Entry
<1> QED
  BY <1>2 DEF NoEntry

\* A directory that is alone and complete does not change.
LEMMA CalmDir ==
  ASSUME SnapInv, [SnapNext]_snapvars, NEW s \in Snap, ~InFlux(s), dir[s] # Missing
  PROVE  dir'[s] = dir[s]
<1> USE DEF SnapInv, SnapTypeOK, InFlux
<1>1. ASSUME NEW t \in Snap, NEW f \in File, PutAside(t, f) PROVE dir'[s] = dir[s]
  BY <1>1 DEF PutAside
<1>2. ASSUME NEW t \in Snap, Remove(t) PROVE dir'[s] = dir[s]
  <2>1. s # t
    BY <1>2 DEF Remove, WriterFound
  <2> QED
    BY <1>2, <2>1 DEF Remove
<1>3. ASSUME NEW t \in Snap, Extract(t) PROVE dir'[s] = dir[s]
  <2>1. s # t
    BY <1>3 DEF Extract, WriterFound
  <2> QED
    BY <1>3, <2>1 DEF Extract
<1>4. ASSUME NEW t \in Snap, BeginExtract(t) PROVE dir'[s] = dir[s]
  BY <1>4 DEF BeginExtract
<1>5. ASSUME NEW t \in Snap, BeginBackup(t) \/ Pack(t) \/ Commit(t) \/ DropPart(t)
      PROVE dir'[s] = dir[s]
  BY <1>5 DEF BeginBackup, Pack, Commit, DropPart, disk
<1>6. CASE Stop \/ UNCHANGED snapvars
  BY <1>6 DEF Stop, snapvars, disk
<1> QED
  BY <1>1, <1>2, <1>3, <1>4, <1>5, <1>6 DEF SnapNext

\* The other scripts, between two steps of the upload.
LEMMA OthersStep ==
  ASSUME ProtonInv, [SnapNext]_snapvars, UNCHANGED <<remote, recorded, up>>, Observe
  PROVE  ProtonInv'
<1>1. SnapInv'
  BY SnapInvStep DEF ProtonInv
<1>2. mixed \subseteq mixed' /\ mixed' \in SUBSET Snap
  BY DEF ProtonInv, ProtonTypeOK, Observe
<1>3. ProtonTypeOK'
  BY <1>2 DEF ProtonInv, ProtonTypeOK
<1>4. up.entry[1] \in Snap
  BY DEF ProtonInv, ProtonTypeOK, Entry
<1>5. TarredWhole'
  <2> SUFFICES ASSUME up.pc \in {"tar", "count"}, up.entry[1] \notin mixed'
               PROVE  /\ ~InFlux(up.entry[1])'
                      /\ dir'[up.entry[1]] # Missing
                      /\ up.staged \subseteq dir'[up.entry[1]]
                      /\ dir'[up.entry[1]] \subseteq up.staged \cup up.todo
    BY DEF ProtonInv, TarredWhole, InFlux
  <2>1. dir'[up.entry[1]] = dir[up.entry[1]] /\ dir[up.entry[1]] # Missing
    BY <1>2, <1>4, CalmDir DEF ProtonInv, TarredWhole
  <2>2. ~InFlux(up.entry[1])'
    BY <1>4 DEF Observe, InFlux
  <2> QED
    BY <1>2, <2>1, <2>2 DEF ProtonInv, TarredWhole
<1>6. StagedWhole'
  BY <1>2, <1>4, SettledStep DEF ProtonInv, StagedWhole, Settled, Files
<1>7. StoredWhole'
  BY <1>2, SettledStep DEF ProtonInv, StoredWhole, Whole
<1>8. Confirmed'
  BY DEF ProtonInv, Confirmed, KeyOf
<1> QED
  BY <1>1, <1>3, <1>5, <1>6, <1>7, <1>8 DEF ProtonInv

\* Going on to the next entry, starting and being killed touch nothing off site.
LEMMA QuietStep ==
  ASSUME ProtonInv, UNCHANGED snapvars, Observe, ProtonTypeOK', UNCHANGED <<remote, recorded>>,
         up'.pc \notin {"tar", "count", "upload", "record"}
  PROVE  ProtonInv'
<1>1. SnapInv'
  BY DEF ProtonInv, SnapInv, SnapTypeOK, WriterFound, TarballWhole, Busy, snapvars, disk
<1>2. mixed \subseteq mixed'
  BY DEF Observe
<1>3. TarredWhole' /\ StagedWhole' /\ Confirmed'
  BY DEF ProtonInv, TarredWhole, StagedWhole, Confirmed
<1>4. StoredWhole'
  BY <1>2 DEF ProtonInv, StoredWhole, Settled, Whole, Files, Busy, snapvars, disk
<1> QED
  BY <1>1, <1>3, <1>4 DEF ProtonInv

LEMMA UpTypeStep == ProtonTypeOK /\ SnapInv /\ (UpStep \/ UpKill) /\ Observe => ProtonTypeOK'
<1> SUFFICES ASSUME ProtonTypeOK, SnapInv, UpStep \/ UpKill, Observe PROVE ProtonTypeOK'
  OBVIOUS
<1>0. mixed' \in SUBSET Snap
  BY DEF ProtonTypeOK, Observe
<1>00. UpIdle \in [pc : {"idle", "killed", "each", "ensure", "kind", "tar", "count", "upload", "record"},
                 queue : SUBSET Entry, entry : Entry, ensured : BOOLEAN,
                 todo : SUBSET File, staged : SUBSET File]
  BY NoEntryType DEF UpIdle
<1>e. up.entry[1] \in Snap /\ up.entry[2] \in {1, 2, 3} /\ KeyOf(up.entry) \in Key
  BY DEF ProtonTypeOK, Entry, Key, KeyOf
<1> USE <1>0, <1>00, <1>e DEF ProtonTypeOK, UpAt, UpGoTo, UpGoOn
<1>1. CASE UpStart
  BY <1>1 DEF UpStart
<1>2. CASE UpPick
  <2>1. CASE up.queue = {} /\ up' = UpIdle
    BY <1>2, <2>1 DEF UpPick, UpIdle
  <2>2. ASSUME NEW e \in up.queue, up' = [up EXCEPT !.queue = @ \ {e}] PROVE ProtonTypeOK'
    BY <1>2, <2>2 DEF UpPick
  <2>3. ASSUME NEW e \in up.queue, UpPick,
               up' = [up EXCEPT !.queue = @ \ {e}, !.entry = e,
                                !.pc = IF up.ensured THEN "kind" ELSE "ensure"]
        PROVE  ProtonTypeOK'
    <3>1. CASE up.ensured
      BY <2>3, <3>1 DEF UpPick
    <3>2. CASE ~up.ensured
      BY <2>3, <3>2 DEF UpPick
    <3> QED
      BY <3>1, <3>2
  <2> QED
    BY <1>2, <2>1, <2>2, <2>3 DEF UpPick
<1>3. CASE UpEnsure
  BY <1>3 DEF UpEnsure
<1>4. CASE UpKind
  <2>1. up.entry[2] = 1 /\ OnDisk(up.entry) # Missing => dir[up.entry[1]] \in SUBSET File
    BY DEF OnDisk, SnapInv, SnapTypeOK, FileSets
  <2> QED
    BY <1>4, <2>1 DEF UpKind
<1>5. CASE UpTar
  <2>1. OnDisk(up.entry) # Missing => OnDisk(up.entry) \in SUBSET File
    BY DEF OnDisk, SnapInv, SnapTypeOK, FileSets
  <2>2. ASSUME NEW f \in File, up' = [up EXCEPT !.staged = @ \cup {f}, !.todo = @ \ {f}]
        PROVE  ProtonTypeOK'
    BY <1>5, <2>2 DEF UpTar
  <2>3. CASE UpGoOn \/ UpGoTo("count")
    BY <1>5, <2>3 DEF UpTar
  <2> QED
    BY <1>5, <2>1, <2>2, <2>3 DEF UpTar
<1>6. CASE UpCount
  BY <1>6 DEF UpCount
<1>7. CASE UploadWorks \/ UploadFails
  <2>1. Local # Missing => Local \in SUBSET File
    BY DEF Local, OnDisk, SnapInv, SnapTypeOK, FileSets
  <2> QED
    BY <1>7, <2>1 DEF UploadWorks, UploadFails
<1>8. CASE Record
  BY <1>8 DEF Record
<1>9. CASE UpKill
  BY <1>9 DEF UpKill
<1> QED
  BY <1>1, <1>2, <1>3, <1>4, <1>5, <1>6, <1>7, <1>8, <1>9 DEF UpStep

\* An upload, successful or not, stores something complete or leaves what is stored.
LEMMA StoreStep ==
  ASSUME ProtonInv, UNCHANGED snapvars, mixed' = mixed, UpAt("upload"), Local # Missing,
         remote' = [remote EXCEPT ![KeyOf(up.entry)] = IF @ = Missing THEN Local ELSE @]
  PROVE  StoredWhole' /\ remote'[KeyOf(up.entry)] # Missing
<1>1. up.entry[1] \in Snap /\ up.entry[2] \in {1, 2, 3} /\ KeyOf(up.entry) \in Key
  BY DEF ProtonInv, ProtonTypeOK, Entry, Key, KeyOf
<1>2. remote'[KeyOf(up.entry)] # Missing
  BY <1>1 DEF ProtonInv, ProtonTypeOK
<1>3. ASSUME NEW s \in Snap \ mixed, remote'[<<s, "snap">>] # Missing
      PROVE  Settled(s) /\ Files(s) \subseteq remote'[<<s, "snap">>]
  <2>1. <<s, "snap">> \in Key
    BY DEF Key
  <2>2. CASE remote[<<s, "snap">>] # Missing
    <3>1. remote'[<<s, "snap">>] = remote[<<s, "snap">>]
      BY <1>1, <2>1, <2>2 DEF ProtonInv, ProtonTypeOK
    <3> QED
      BY <2>2, <3>1 DEF ProtonInv, StoredWhole, Whole
  <2>3. CASE remote[<<s, "snap">>] = Missing
    <3>1. KeyOf(up.entry) = <<s, "snap">> /\ remote'[<<s, "snap">>] = Local
      BY <1>1, <1>3, <2>1, <2>3 DEF ProtonInv, ProtonTypeOK
    <3>2. up.entry[1] = s /\ up.entry[2] \in {1, 2}
      BY <1>1, <3>1 DEF KeyOf
    <3>3. CASE up.entry[2] = 1
      BY <1>3, <3>1, <3>2, <3>3 DEF ProtonInv, StagedWhole, UpAt, Local
    <3>4. CASE up.entry[2] = 2
      <4>1. Local = tgz[s] /\ tgz[s] # Missing
        BY <3>2, <3>4 DEF Local, OnDisk
      <4>2. Settled(s)
        BY <4>1 DEF ProtonInv, SnapInv, WriterFound, Settled
      <4>3. Files(s) \subseteq tgz[s]
        BY <4>1 DEF ProtonInv, SnapInv, TarballWhole, Files
      <4> QED
        BY <3>1, <4>1, <4>2, <4>3
    <3> QED
      BY <3>2, <3>3, <3>4
  <2> QED
    BY <2>2, <2>3
<1>4. StoredWhole'
  <2>1. \A s \in Snap : (Settled(s)' <=> Settled(s)) /\ Files(s)' = Files(s)
    BY DEF Settled, Files, Busy, snapvars, disk
  <2> QED
    BY <1>3, <2>1 DEF StoredWhole, Whole
<1> QED
  BY <1>2, <1>4

\* The steps of the upload.
LEMMA UploadStep ==
  ASSUME ProtonInv, UpStep \/ UpKill, UNCHANGED snapvars, Observe
  PROVE  ProtonInv'
<1>1. ProtonTypeOK'
  BY UpTypeStep DEF ProtonInv
<1>2. up \in [pc : {"idle", "killed", "each", "ensure", "kind", "tar", "count", "upload", "record"},
              queue : SUBSET Entry, entry : Entry, ensured : BOOLEAN,
              todo : SUBSET File, staged : SUBSET File]
  BY DEF ProtonInv, ProtonTypeOK
<1>3. up.entry[1] \in Snap /\ up.entry[2] \in {1, 2, 3} /\ KeyOf(up.entry) \in Key
  BY <1>2 DEF Entry, Key, KeyOf
<1>4. SnapInv'
  BY DEF ProtonInv, SnapInv, SnapTypeOK, WriterFound, TarballWhole, Busy, snapvars, disk
<1>5. mixed \subseteq mixed' /\ (up'.pc \notin {"tar", "count"} => mixed' = mixed)
  BY DEF Observe
<1>6. (UNCHANGED remote) => StoredWhole'
  BY <1>5 DEF ProtonInv, StoredWhole, Settled, Whole, Files, Busy, snapvars, disk
<1>p. (UpGoOn => up'.pc = "each") /\ (UpGoTo("upload") => up'.pc = "upload")
  BY <1>2 DEF UpGoOn, UpGoTo, UpIdle
<1>7. CASE UNCHANGED <<remote, recorded>> /\ up'.pc \notin {"tar", "count", "upload", "record"}
  BY <1>1, <1>7, QuietStep
<1>8. CASE UpKind /\ up'.pc = "upload"
  BY <1>1, <1>2, <1>3, <1>4, <1>6, <1>8
     DEF UpKind, UpGoTo, UpGoOn, UpIdle, ProtonInv, TarredWhole, StagedWhole, Confirmed
<1>9. CASE UpKind /\ up'.pc = "tar"
  <2>1. /\ up' = [up EXCEPT !.pc = "tar", !.staged = {}, !.todo = dir[up.entry[1]]]
        /\ up.entry[2] = 1 /\ dir[up.entry[1]] # Missing
        /\ UNCHANGED <<remote, recorded>>
    <3>1. ~UpGoOn /\ ~UpGoTo("upload")
      BY <1>9, <1>p
    <3>2. up' = [up EXCEPT !.pc = "tar", !.staged = {}, !.todo = dir[up.entry[1]]]
          /\ up.entry[2] = 1 /\ OnDisk(up.entry) # Missing
          /\ UNCHANGED <<remote, recorded>>
      BY <1>9, <3>1 DEF UpKind
    <3> QED
      BY <3>2 DEF OnDisk
  <2>2. up'.entry = up.entry /\ up'.staged = {} /\ up'.todo = dir[up.entry[1]]
    BY <1>2, <2>1
  <2>3. TarredWhole'
    BY <1>3, <1>9, <2>1, <2>2 DEF TarredWhole, Observe, InFlux, snapvars, disk
  <2> QED
    BY <1>1, <1>4, <1>6, <1>9, <2>1, <2>3 DEF ProtonInv, StagedWhole, Confirmed
<1>10. CASE UpTar /\ up'.pc \in {"tar", "count"}
  <2>0. UNCHANGED <<remote, recorded>> /\ up.pc = "tar"
    BY <1>10 DEF UpTar, UpAt
  <2>1. \/ \E f \in dir[up.entry[1]] :
              up' = [up EXCEPT !.staged = @ \cup {f}, !.todo = @ \ {f}]
        \/ up.todo = {} /\ up' = [up EXCEPT !.pc = "count"]
    <3>1. up.entry[2] = 1 /\ ~UpGoOn
      BY <1>10, <1>p, <2>0 DEF ProtonInv, TarredWhole
    <3>2. OnDisk(up.entry) = dir[up.entry[1]]
      BY <3>1 DEF OnDisk
    <3>3. CASE dir[up.entry[1]] = Missing
      BY <1>10, <3>1, <3>2, <3>3 DEF UpTar, UpGoTo
    <3>4. CASE dir[up.entry[1]] # Missing
      BY <1>10, <3>1, <3>2, <3>4 DEF UpTar, UpGoTo
    <3> QED
      BY <3>3, <3>4
  <2>2. TarredWhole'
    <3>1. ~InFlux(up.entry[1])' \/ up.entry[1] \in mixed' \/ up'.entry # up.entry
      BY <1>3, <1>10 DEF Observe, InFlux
    <3>2. ASSUME NEW f \in dir[up.entry[1]],
                 up' = [up EXCEPT !.staged = @ \cup {f}, !.todo = @ \ {f}]
          PROVE  TarredWhole'
      <4>1. /\ up'.pc = "tar" /\ up'.entry = up.entry
            /\ up'.staged = up.staged \cup {f} /\ up'.todo = up.todo \ {f}
        BY <1>2, <2>0, <3>2
      <4> QED
        BY <1>5, <2>0, <3>1, <3>2, <4>1 DEF ProtonInv, TarredWhole, InFlux, snapvars, disk
    <3>3. CASE up.todo = {} /\ up' = [up EXCEPT !.pc = "count"]
      <4>1. /\ up'.pc = "count" /\ up'.entry = up.entry
            /\ up'.staged = up.staged /\ up'.todo = {}
        BY <1>2, <3>3
      <4> QED
        BY <1>5, <2>0, <3>1, <3>3, <4>1 DEF ProtonInv, TarredWhole, InFlux, snapvars, disk
    <3> QED
      BY <2>1, <3>2, <3>3
  <2> QED
    BY <1>1, <1>4, <1>6, <1>10, <2>0, <2>2 DEF ProtonInv, StagedWhole, Confirmed
<1>11. CASE UpCount /\ up'.pc = "upload"
  <2>0. UNCHANGED <<remote, recorded>> /\ up.pc = "count" /\ up' = [up EXCEPT !.pc = "upload"]
    BY <1>2, <1>11 DEF UpCount, UpAt, UpGoTo, UpGoOn, UpIdle
  <2>1. mixed' = mixed
    BY <1>5, <1>11
  <2>2. ASSUME up.entry[1] \notin mixed
        PROVE  Settled(up.entry[1]) /\ Files(up.entry[1]) \subseteq up.staged
    BY <2>0, <2>2 DEF ProtonInv, TarredWhole, InFlux, Settled, Files
  <2>3. StagedWhole'
    BY <1>2, <2>0, <2>1, <2>2 DEF StagedWhole, Settled, Files, Busy, snapvars, disk
  <2> QED
    BY <1>1, <1>4, <1>6, <1>11, <2>0, <2>3 DEF ProtonInv, TarredWhole, Confirmed
<1>12. CASE UploadWorks
  <2>1. up' = [up EXCEPT !.pc = "record"] /\ up'.pc = "record" /\ up'.entry = up.entry
    BY <1>2, <1>12 DEF UploadWorks, UpGoTo
  <2>2. StoredWhole' /\ remote'[KeyOf(up.entry)] # Missing
    BY <1>5, <1>12, <2>1, StoreStep DEF UploadWorks
  <2>3. Confirmed'
    BY <1>3, <1>12, <2>1, <2>2 DEF UploadWorks, ProtonInv, ProtonTypeOK, Confirmed, KeyOf
  <2> QED
    BY <1>1, <1>4, <2>1, <2>2, <2>3 DEF ProtonInv, TarredWhole, StagedWhole
<1>13. CASE UploadFails
  <2>1. up'.pc = "each" /\ mixed' = mixed
    BY <1>2, <1>5, <1>13 DEF UploadFails, UpGoOn, UpIdle
  <2>2. StoredWhole'
    BY <1>6, <1>13, <2>1, StoreStep DEF UploadFails
  <2>3. Confirmed'
    BY <1>3, <1>13, <2>1 DEF UploadFails, UpAt, ProtonInv, ProtonTypeOK, Confirmed
  <2> QED
    BY <1>1, <1>4, <2>1, <2>2, <2>3 DEF ProtonInv, TarredWhole, StagedWhole
<1>14. CASE Record
  <2>1. up'.pc = "each"
    BY <1>2, <1>14 DEF Record, UpGoOn, UpIdle
  <2>2. Confirmed'
    BY <1>14, <2>1 DEF Record, UpAt, ProtonInv, Confirmed
  <2> QED
    BY <1>1, <1>4, <1>6, <1>14, <2>1, <2>2 DEF Record, ProtonInv, TarredWhole, StagedWhole
<1>15. UpStart \/ UpPick \/ UpEnsure \/ UpKill =>
         UNCHANGED <<remote, recorded>> /\ up'.pc \in {"idle", "killed", "each", "ensure", "kind"}
  <2>1. CASE UpStart
    BY <2>1 DEF UpStart, UpIdle
  <2>2. CASE UpPick
    <3>1. CASE up.queue = {} /\ up' = UpIdle
      BY <2>2, <3>1 DEF UpPick, UpIdle
    <3>2. ASSUME NEW e \in up.queue, up' = [up EXCEPT !.queue = @ \ {e}]
          PROVE  UNCHANGED <<remote, recorded>> /\ up'.pc = "each"
      BY <1>2, <2>2, <3>2 DEF UpPick, UpAt
    <3>3. ASSUME NEW e \in up.queue,
                 up' = [up EXCEPT !.queue = @ \ {e}, !.entry = e,
                                  !.pc = IF up.ensured THEN "kind" ELSE "ensure"]
          PROVE  UNCHANGED <<remote, recorded>> /\ up'.pc \in {"kind", "ensure"}
      BY <1>2, <2>2, <3>3 DEF UpPick
    <3> QED
      BY <2>2, <3>1, <3>2, <3>3 DEF UpPick
  <2>3. CASE UpEnsure
    BY <1>2, <2>3 DEF UpEnsure, UpIdle
  <2>4. CASE UpKill
    BY <2>4 DEF UpKill, UpIdle
  <2> QED
    BY <2>1, <2>2, <2>3, <2>4
<1>16. UpKind => UNCHANGED <<remote, recorded>> /\ up'.pc \in {"each", "upload", "tar"}
  BY <1>2 DEF UpKind, UpGoTo, UpGoOn, UpIdle
<1>17. UpTar => UNCHANGED <<remote, recorded>> /\ up'.pc \in {"each", "tar", "count"}
  BY <1>2 DEF UpTar, UpAt, UpGoTo, UpGoOn, UpIdle
<1>18. UpCount => UNCHANGED <<remote, recorded>> /\ up'.pc \in {"each", "upload"}
  BY <1>2 DEF UpCount, UpGoTo, UpGoOn, UpIdle
<1> QED
  BY <1>7, <1>8, <1>9, <1>10, <1>11, <1>12, <1>13, <1>14, <1>15, <1>16, <1>17, <1>18 DEF UpStep

LEMMA ProtonInvariant == ProtonSpec => []ProtonInv
<1>1. ProtonInit => ProtonInv
  <2> SUFFICES ASSUME ProtonInit PROVE ProtonInv
    OBVIOUS
  <2>1. SnapInv
    BY SnapInvInit DEF ProtonInit
  <2>2. /\ up = UpIdle /\ up.pc = "idle" /\ mixed = {} /\ recorded = {}
        /\ remote = [k \in Key |-> Missing]
    BY DEF ProtonInit, UpIdle
  <2>3. ProtonTypeOK
    BY <2>2, NoEntryType DEF ProtonTypeOK, UpIdle
  <2>4. StoredWhole
    BY <2>2 DEF StoredWhole, Key
  <2> QED
    BY <2>1, <2>2, <2>3, <2>4 DEF ProtonInv, TarredWhole, StagedWhole, Confirmed
<1>2. ProtonInv /\ [ProtonNext]_allvars => ProtonInv'
  <2> SUFFICES ASSUME ProtonInv, [ProtonNext]_allvars PROVE ProtonInv'
    OBVIOUS
  <2>1. CASE UNCHANGED allvars
    BY <2>1 DEF allvars, upvars, snapvars, disk, ProtonInv, SnapInv, SnapTypeOK, WriterFound,
                TarballWhole, Busy, ProtonTypeOK, TarredWhole, StagedWhole, StoredWhole,
                Confirmed, InFlux, Settled, Whole, Files, KeyOf
  <2>2. CASE ProtonNext
    BY <2>2, UploadStep, OthersStep DEF ProtonNext
  <2> QED
    BY <2>1, <2>2
<1> QED
  BY <1>1, <1>2, PTL DEF ProtonSpec

\* Types, and no upload before the remote folder is there.
THEOREM ProtonTypeCorrect == ProtonSpec => []ProtonTypeOK
<1>1. ProtonInv => ProtonTypeOK
  BY DEF ProtonInv
<1> QED
  BY <1>1, ProtonInvariant, PTL

\* A recorded snapshot that was not in flux when it was tarred is off site as a whole.
THEOREM RecordedCompleteTheorem == ProtonSpec => []RecordedComplete
<1>1. ProtonInv => RecordedComplete
  BY DEF ProtonInv, StoredWhole, Confirmed, RecordedComplete
<1> QED
  BY <1>1, ProtonInvariant, PTL

--------------------------------------------------------------------------------
(***************************************************************************)
(* BmuReplicate.                                                           *)
(***************************************************************************)

Step == {"idle", "check SYNC", "check BackUp", "SYNC", "copy SYNC", "BackUp", "copy BackUp", "report"}
Tree == [files : SUBSET File, dirs : SUBSET Snap, tgzs : SUBSET Snap,
         inside : SUBSET (Snap \X File)]
Run == [pc : Step, exp : {"", "disk", "system"}, failed : BOOLEAN, bad : BOOLEAN]

TypeOK ==
    /\ mirror \in [File -> Version \cup {Missing}]
    /\ held \in [Snap -> [File -> Version]]
    /\ last \in Nat
    /\ mounted \in BOOLEAN /\ below \in {"nothing", "dirs", "marked"}
    /\ expected \in {"", "disk", "system"}
    /\ copy \in [File -> Version \cup {Missing}]
    /\ dirCopy \in [Snap -> FileSets] /\ tgzCopy \in [Snap -> FileSets]
    /\ run \in Run /\ todo \in Tree /\ seen \in Tree
    /\ due \in SUBSET (File \X Version)
    /\ moved \in BOOLEAN /\ away \in {"no", "since start", "left"}

\* A run that started without the disk got past the guard by an expectation and a marker
\* that will let it pass again.
GuardPassed ==
    ~At("idle") =>
      /\ away = "no" => mounted
      /\ away = "since start" /\ ~mounted /\ ~At("check SYNC") =>
           run.exp # "disk" /\ below = "marked"

\* A version is in the mirror or in one snapshot, and never comes back to the mirror.
Labels ==
    /\ \A f \in File : mirror[f] # Missing => mirror[f] <= last
    /\ \A s \in Snap : \A f \in Files(s) :
         held[s][f] < s /\ s <= last /\ mirror[f] # held[s][f]
    /\ \A s, t \in Snap : \A f \in Files(s) \cap Files(t) :
         held[s][f] = held[t][f] => s = t
    /\ \A s \in Snap : Busy("backup", s) =>
         s = last /\ \A f \in Inside(dir, s) : mirror[f] \in {Missing, s}

\* Nor does one that a run has to copy.
DueOnce ==
    \A fv \in due : fv[2] <= last /\ (fv[2] = last => mirror[fv[1]] = fv[2])

\* The replica has only what was there to copy.
CopyOf ==
    \A s \in Snap :
      /\ dir[s] = Missing /\ tgz[s] = Missing => dirCopy[s] = Missing /\ tgzCopy[s] = Missing
      /\ Busy("backup", s) => Inside(dirCopy, s) \subseteq Inside(dir, s) /\ tgzCopy[s] = Missing

\* What is to be copied has a directory to be copied into, which stays.
Opened ==
    /\ todo.dirs \subseteq seen.dirs
    /\ \A sf \in todo.inside : sf[1] \in seen.dirs /\ dirCopy[sf[1]] # Missing

InHistory(f, v) == \E s \in Snap : f \in Files(s) /\ held[s][f] = v

\* How f of the mirror, and f of snapshot s, is on its way to the replica.
SyncDue(f, v) ==
    mirror[f] = v /\ f \in seen.files /\ (f \in todo.files \/ copy[f] = v)

TarballDue(s, f) == s \in seen.tgzs \cap todo.tgzs /\ f \in Files(s)
TarballCopied(s, f) == s \in seen.tgzs \ todo.tgzs /\ f \in Inside(tgzCopy, s)
DirDue(s, f) == s \in seen.dirs \cap todo.dirs /\ f \in Inside(dir, s)
InsideDue(s, f) == <<s, f>> \in seen.inside \cap todo.inside /\ f \in Inside(dir, s)
InsideCopied(s, f) ==
    s \in seen.dirs /\ <<s, f>> \in seen.inside /\ f \in Inside(dirCopy, s)

SnapDue(s, f) ==
    \/ TarballDue(s, f) \/ TarballCopied(s, f)
    \/ DirDue(s, f) \/ InsideDue(s, f) \/ InsideCopied(s, f)

\* Where a version that has to be in the replica in the end is at each step.
OnItsWay(f, v) ==
    /\ At("copy SYNC") => InHistory(f, v) \/ SyncDue(f, v)
    /\ At("BackUp") => InHistory(f, v) \/ copy[f] = v
    /\ At("copy BackUp") => copy[f] = v \/ \E s \in Snap : held[s][f] = v /\ SnapDue(s, f)
    /\ At("report") => Replicated(f, v)

Good == away = "no" /\ ~moved /\ ~run.bad /\ ~run.failed

NothingMissed == Good => \A fv \in due : Has(fv[1], fv[2]) => OnItsWay(fv[1], fv[2])

Failures == run.failed => At("copy SYNC") \/ At("copy BackUp")

ReplicateInv ==
    TypeOK /\ SnapInv /\ GuardPassed /\ Labels /\ DueOnce /\ CopyOf /\ Opened /\ NothingMissed

--------------------------------------------------------------------------------
(* The legs: the project and the disk stay as they are. *)

LegStill == UNCHANGED <<snapvars, project, mount, observed>>

LEMMA DueIsVersion ==
  ASSUME TypeOK, NEW fv \in due
  PROVE  fv[1] \in File /\ fv[2] \in Version /\ fv[2] \in Nat /\ fv[2] # Missing
<1>1. fv[1] \in File /\ fv[2] \in Version
  BY DEF TypeOK
<1>2. \A v \in Version : v \in Nat
  BY ReplicateAssumption DEF Version
<1>3. \A v \in Nat : v # Missing
  BY ReplicateAssumption
<1> QED
  BY <1>1, <1>2, <1>3

\* What does not depend on how far the leg is.
LEMMA LegCommon ==
  ASSUME ReplicateInv, LegStill, run'.exp = run.exp, ~At("idle"), ~At("check SYNC")
  PROVE  SnapInv' /\ GuardPassed' /\ Labels' /\ DueOnce'
<1>1. UNCHANGED <<dir, tgz, part, writer, mirror, held, last, mounted, below, expected, due, moved, away>>
  BY DEF LegStill, snapvars, disk, project, mount, observed
<1>2. SnapInv'
  BY <1>1 DEF ReplicateInv, SnapInv, SnapTypeOK, FileSets, WriterFound, TarballWhole, Busy
<1>3. GuardPassed'
  BY <1>1 DEF ReplicateInv, GuardPassed, At
<1>4. Labels'
  <2>1. \A s \in Snap : /\ Files(s)' = Files(s) /\ Inside(dir, s)' = Inside(dir, s)
                        /\ Busy("backup", s)' = Busy("backup", s)
    BY <1>1 DEF Files, Inside, Busy
  <2> QED
    BY <1>1, <2>1 DEF ReplicateInv, Labels
<1>5. DueOnce'
  BY <1>1 DEF ReplicateInv, DueOnce
<1> QED
  BY <1>2, <1>3, <1>4, <1>5

\* A run whose disk was never away has it now, and what has to be copied is where it was.
LEMMA LegGood ==
  ASSUME ReplicateInv, LegStill, ~At("idle"), away = "no", NEW fv \in due, Has(fv[1], fv[2])'
  PROVE  /\ mounted /\ Has(fv[1], fv[2])
         /\ fv[1] \in File /\ fv[2] \in Version /\ fv[2] # Missing
         /\ InHistory(fv[1], fv[2])' = InHistory(fv[1], fv[2])
         /\ mirror[fv[1]] = fv[2] \/ InHistory(fv[1], fv[2])
<1>1. UNCHANGED <<dir, tgz, part, writer, mirror, held, mounted, due, moved, away>>
  BY DEF LegStill, snapvars, disk, project, mount, observed
<1>2. mounted
  BY DEF ReplicateInv, GuardPassed
<1>3. Has(fv[1], fv[2]) /\ InHistory(fv[1], fv[2])' = InHistory(fv[1], fv[2])
  BY <1>1 DEF Has, InHistory, Files
<1>4. mirror[fv[1]] = fv[2] \/ InHistory(fv[1], fv[2])
  BY <1>3 DEF Has, InHistory
<1> QED
  BY <1>2, <1>3, <1>4, DueIsVersion DEF ReplicateInv

LEMMA Listing ==
  ASSUME NEW step, NEW copying \in Step, NEW next \in Step, NEW tree \in Tree, tree.inside = {},
         ReplicateInv, Lists(step, copying, next, tree), LegStill, step \in {"SYNC", "BackUp"}
  PROVE  TypeOK' /\ SnapInv' /\ GuardPassed' /\ Labels' /\ DueOnce' /\ CopyOf' /\ Opened'
<1> USE DEF LegStill, snapvars, disk, project, mount, observed, replica, leg
<1>1. NoTree \in Tree /\ NoTree.inside = {}
  BY DEF NoTree, Tree
<1>2. /\ run' \in Run /\ run'.exp = run.exp /\ todo' \in Tree /\ seen' \in Tree
      /\ (todo'.inside = {} /\ todo' = seen') \/ (todo' = todo /\ seen' = seen)
  BY <1>1 DEF Lists, GoTo, Run, ReplicateInv, TypeOK
<1>3. TypeOK'
  BY <1>2 DEF ReplicateInv, TypeOK, Lists
<1>4. CopyOf'
  BY DEF Lists, ReplicateInv, CopyOf, Inside, Busy
<1>5. Opened'
  <2>1. UNCHANGED dirCopy
    BY DEF Lists
  <2> QED
    BY <1>2, <2>1 DEF ReplicateInv, Opened
<1> QED
  BY <1>2, <1>3, <1>4, <1>5, LegCommon DEF Lists, At

LEMMA ListSyncStep == ASSUME ReplicateInv, ListSync, LegStill PROVE ReplicateInv'
<1>1. InSync \in Tree /\ InSync.inside = {} /\ InSync.files = {f \in File : mirror[f] # Missing}
  BY DEF InSync, NoTree, Tree
<1>2. NothingMissed'
  <2>1. SUFFICES ASSUME Good', NEW fv \in due, Has(fv[1], fv[2])'
                 PROVE  OnItsWay(fv[1], fv[2])'
    BY DEF NothingMissed, LegStill, observed
  <2>2. At("SYNC") /\ away = "no"
    BY <2>1 DEF ListSync, Lists, Good, LegStill, observed
  <2>3. mounted /\ fv[1] \in File /\ fv[2] # Missing
    BY <2>1, <2>2, LegGood DEF At
  <2>4. run'.pc = "copy SYNC" /\ todo' = InSync /\ seen' = InSync
    BY <2>2, <2>3 DEF ListSync, Lists, GoTo, ReplicateInv, TypeOK, Run
  <2>5. CASE InHistory(fv[1], fv[2])
    BY <2>1, <2>2, <2>4, <2>5, LegGood DEF OnItsWay, At
  <2>6. CASE mirror[fv[1]] = fv[2]
    BY <1>1, <2>3, <2>4, <2>6 DEF OnItsWay, At, SyncDue, LegStill, project
  <2> QED
    BY <2>1, <2>2, <2>5, <2>6, LegGood DEF At
<1> QED
  BY <1>1, <1>2, Listing DEF ReplicateInv, ListSync, Step

LEMMA ListBackUpStep == ASSUME ReplicateInv, ListBackUp, LegStill PROVE ReplicateInv'
<1>1. /\ InBackUp \in Tree /\ InBackUp.inside = {}
      /\ InBackUp.dirs = {s \in Snap : dir[s] # Missing}
      /\ InBackUp.tgzs = {s \in Snap : tgz[s] # Missing}
  BY DEF InBackUp, NoTree, Tree
<1>2. NothingMissed'
  <2>1. SUFFICES ASSUME Good', NEW fv \in due, Has(fv[1], fv[2])'
                 PROVE  OnItsWay(fv[1], fv[2])'
    BY DEF NothingMissed, LegStill, observed
  <2>2. At("BackUp") /\ away = "no" /\ ~moved /\ UNCHANGED <<copy, held, dir, tgz>>
    BY <2>1 DEF ListBackUp, Lists, Good, LegStill, observed, replica, snapvars, disk, project
  <2>3. mounted /\ Has(fv[1], fv[2])
    BY <2>1, <2>2, LegGood DEF At
  <2>4. /\ run'.pc = "copy BackUp" /\ todo' = InBackUp /\ seen' = InBackUp
        /\ run'.failed = run.failed /\ run'.bad = run.bad
    BY <2>2, <2>3 DEF ListBackUp, Lists, GoTo, ReplicateInv, TypeOK, Run
  <2>5. InHistory(fv[1], fv[2]) \/ copy[fv[1]] = fv[2]
    BY <2>1, <2>2, <2>3, <2>4 DEF ReplicateInv, NothingMissed, Good, OnItsWay, At
  <2>6. CASE copy[fv[1]] = fv[2]
    BY <2>2, <2>4, <2>6 DEF OnItsWay, At
  <2>7. ASSUME NEW s \in Snap, fv[1] \in Files(s), held[s][fv[1]] = fv[2] PROVE OnItsWay(fv[1], fv[2])'
    <3>1. TarballDue(s, fv[1])' \/ DirDue(s, fv[1])'
      BY <1>1, <2>2, <2>4, <2>7 DEF TarballDue, DirDue, Files, Inside
    <3> QED
      BY <2>2, <2>4, <2>7, <3>1 DEF OnItsWay, At, SnapDue
  <2> QED
    BY <2>5, <2>6, <2>7 DEF InHistory
<1> QED
  BY <1>1, <1>2, Listing DEF ReplicateInv, ListBackUp, Step

LEMMA CopyFileStep == ASSUME ReplicateInv, CopyFile, LegStill PROVE ReplicateInv'
<1>1. PICK f \in todo.files :
        /\ todo' = [todo EXCEPT !.files = @ \ {f}]
        /\ IF mounted /\ mirror[f] # Missing
           THEN copy' = [copy EXCEPT ![f] = mirror[f]] /\ UNCHANGED run
           ELSE Fail /\ UNCHANGED copy
  BY DEF CopyFile
<1>2. run \in Run /\ todo \in Tree /\ f \in File
  BY DEF ReplicateInv, TypeOK, Tree
<1>3. /\ run' \in Run /\ run'.exp = run.exp /\ run'.pc = run.pc /\ run'.bad = run.bad
      /\ ~run'.failed => ~run.failed /\ mirror[f] # Missing /\ copy' = [copy EXCEPT ![f] = mirror[f]]
  BY <1>1, <1>2 DEF Fail, Run
<1>4. /\ todo' \in Tree /\ todo'.files = todo.files \ {f} /\ todo'.inside = todo.inside
      /\ todo'.dirs = todo.dirs
  BY <1>1, <1>2 DEF Tree
<1>5. TypeOK'
  <2>1. copy' \in [File -> Version \cup {Missing}]
    BY <1>1, <1>2 DEF ReplicateInv, TypeOK
  <2> QED
    BY <1>3, <1>4, <2>1 DEF ReplicateInv, TypeOK, CopyFile, LegStill, project, mount, observed
<1>6. CopyOf' /\ Opened'
  BY <1>4 DEF ReplicateInv, CopyOf, Opened, Inside, Busy, CopyFile, LegStill, snapvars, disk
<1>7. NothingMissed'
  <2>1. SUFFICES ASSUME Good', NEW fv \in due, Has(fv[1], fv[2])'
                 PROVE  OnItsWay(fv[1], fv[2])'
    BY DEF NothingMissed, LegStill, observed
  <2>2. run.pc = "copy SYNC" /\ Good /\ UNCHANGED <<mirror, seen>>
    BY <1>3, <2>1 DEF CopyFile, Good, LegStill, observed, At, project
  <2>3. /\ Has(fv[1], fv[2]) /\ fv[1] \in File
        /\ InHistory(fv[1], fv[2])' = InHistory(fv[1], fv[2])
    BY <2>1, <2>2, LegGood DEF At, Good
  <2>4. InHistory(fv[1], fv[2]) \/ SyncDue(fv[1], fv[2])
    BY <2>1, <2>2, <2>3 DEF ReplicateInv, NothingMissed, OnItsWay, At
  <2>5. ASSUME SyncDue(fv[1], fv[2]) PROVE SyncDue(fv[1], fv[2])'
    <3>1. copy'[fv[1]] = IF fv[1] = f THEN mirror[f] ELSE copy[fv[1]]
      BY <1>3, <2>1, <2>3 DEF Good, ReplicateInv, TypeOK
    <3> QED
      BY <1>4, <2>2, <2>5, <3>1 DEF SyncDue
  <2> QED
    BY <1>3, <2>2, <2>3, <2>4, <2>5 DEF OnItsWay, At
<1> QED
  BY <1>3, <1>5, <1>6, <1>7, LegCommon DEF ReplicateInv, CopyFile, At

\* In the history's leg a version that was on its way stays so when its snapshot does.
LEMMA BackUpLeg ==
  ASSUME ReplicateInv, LegStill, run.pc = "copy BackUp", run'.pc = run.pc, UNCHANGED copy, Good' => Good,
         Good' => \A s \in Snap : \A f \in File : SnapDue(s, f) => SnapDue(s, f)'
  PROVE  NothingMissed'
<1>1. SUFFICES ASSUME Good', NEW fv \in due, Has(fv[1], fv[2])'
               PROVE  OnItsWay(fv[1], fv[2])'
  BY DEF NothingMissed, LegStill, observed
<1>2. Has(fv[1], fv[2]) /\ fv[1] \in File
  BY <1>1, LegGood DEF At, Good
<1>3. copy[fv[1]] = fv[2] \/ \E s \in Snap : held[s][fv[1]] = fv[2] /\ SnapDue(s, fv[1])
  BY <1>1, <1>2 DEF ReplicateInv, NothingMissed, OnItsWay, At
<1>4. UNCHANGED held
  BY DEF LegStill, project
<1>5. copy'[fv[1]] = fv[2] \/ \E s \in Snap : held'[s][fv[1]] = fv[2] /\ SnapDue(s, fv[1])'
  BY <1>1, <1>2, <1>3, <1>4
<1> QED
  BY <1>5 DEF OnItsWay, At

LEMMA OpenDirStep == ASSUME ReplicateInv, OpenDir, LegStill PROVE ReplicateInv'
<1> DEFINE Found(s) == mounted /\ dir[s] # Missing
           Listed(s) == {s} \X (IF Found(s) THEN dir[s] ELSE File)
           ToCopy(s) == IF Found(s) THEN {s} \X dir[s] ELSE {}
<1>1. PICK s \in todo.dirs :
        IF mounted /\ dir[s] # Missing
        THEN /\ todo' = [todo EXCEPT !.dirs = @ \ {s}, !.inside = @ \cup ({s} \X dir[s])]
             /\ seen' = [seen EXCEPT !.inside = @ \cup ({s} \X dir[s])]
             /\ dirCopy' = [dirCopy EXCEPT ![s] = Inside(dirCopy, s)]
             /\ UNCHANGED run
        ELSE /\ todo' = [todo EXCEPT !.dirs = @ \ {s}]
             /\ seen' = [seen EXCEPT !.inside = @ \cup ({s} \X File)]
             /\ Fail /\ UNCHANGED dirCopy
  BY DEF OpenDir
<1>2. run \in Run /\ todo \in Tree /\ seen \in Tree /\ s \in Snap /\ dirCopy \in [Snap -> FileSets]
  BY DEF ReplicateInv, TypeOK, Tree
<1>3. Found(s) => dir[s] \in SUBSET File
  BY <1>2 DEF ReplicateInv, SnapInv, SnapTypeOK, FileSets
<1>4. /\ run' \in Run /\ run'.exp = run.exp /\ run'.pc = run.pc /\ run'.bad = run.bad
      /\ ~run'.failed => ~run.failed /\ Found(s)
  BY <1>1, <1>2 DEF Fail, Run
<1>5. /\ todo' \in Tree /\ todo'.dirs = todo.dirs \ {s} /\ todo'.tgzs = todo.tgzs
      /\ todo'.inside = todo.inside \cup ToCopy(s)
      /\ seen' \in Tree /\ seen'.dirs = seen.dirs /\ seen'.tgzs = seen.tgzs
      /\ seen'.inside = seen.inside \cup Listed(s)
  <2>1. CASE Found(s)
    <3>1. {s} \X dir[s] \in SUBSET (Snap \X File)
      BY <1>2, <1>3, <2>1
    <3>2. /\ todo' = [todo EXCEPT !.dirs = @ \ {s}, !.inside = @ \cup ({s} \X dir[s])]
          /\ seen' = [seen EXCEPT !.inside = @ \cup ({s} \X dir[s])]
      BY <1>1, <2>1
    <3>3. ToCopy(s) = {s} \X dir[s] /\ Listed(s) = {s} \X dir[s]
      BY <2>1
    <3> HIDE DEF ToCopy, Listed
    <3> QED
      BY <1>2, <3>1, <3>2, <3>3 DEF Tree
  <2>2. CASE ~Found(s)
    <3>1. {s} \X File \in SUBSET (Snap \X File)
      BY <1>2
    <3>2. todo' = [todo EXCEPT !.dirs = @ \ {s}] /\ seen' = [seen EXCEPT !.inside = @ \cup ({s} \X File)]
      BY <1>1, <2>2
    <3> QED
      BY <1>2, <2>2, <3>1, <3>2 DEF Tree
  <2> QED
    BY <2>1, <2>2
<1>6. /\ dirCopy' \in [Snap -> FileSets]
      /\ \A t \in Snap : Inside(dirCopy, t)' = Inside(dirCopy, t)
      /\ \A t \in Snap : dirCopy[t] # Missing \/ (Found(s) /\ t = s) <=> dirCopy'[t] # Missing
  BY <1>1, <1>2, SnapAssumption DEF Inside, FileSets
<1>7. TypeOK'
  BY <1>4, <1>5, <1>6 DEF ReplicateInv, TypeOK, OpenDir, LegStill, project, mount, observed
<1>8. CopyOf'
  BY <1>6 DEF ReplicateInv, CopyOf, Inside, Busy, OpenDir, LegStill, snapvars, disk
<1>9. Opened'
  <2>1. s \in seen.dirs /\ \A sf \in ToCopy(s) : sf[1] = s /\ dirCopy'[s] # Missing
    BY <1>6, <1>2 DEF ReplicateInv, Opened
  <2>2. \A sf \in todo.inside : sf[1] \in seen.dirs /\ dirCopy'[sf[1]] # Missing
    BY <1>2, <1>6 DEF ReplicateInv, Opened, Tree
  <2> QED
    BY <1>5, <2>1, <2>2 DEF ReplicateInv, Opened
<1>10. NothingMissed'
  <2>1. Good' => Good
    BY <1>4 DEF Good, LegStill, observed
  <2>2. ASSUME Good', NEW t \in Snap, NEW f \in File, SnapDue(t, f) PROVE SnapDue(t, f)'
    <3>1. Found(s) /\ UNCHANGED <<dir, tgz, tgzCopy>>
      BY <1>4, <2>2 DEF Good, OpenDir, LegStill, snapvars, disk
    <3>2. ASSUME DirDue(t, f), t = s PROVE InsideDue(t, f)'
      BY <1>5, <3>1, <3>2 DEF DirDue, InsideDue, Inside
    <3> QED
      BY <1>5, <1>6, <2>2, <3>1, <3>2
         DEF SnapDue, TarballDue, TarballCopied, DirDue, InsideDue, InsideCopied, Files, Inside
  <2> QED
    BY <1>4, <2>1, <2>2, BackUpLeg DEF OpenDir, At
<1> QED
  BY <1>4, <1>7, <1>8, <1>9, <1>10, LegCommon DEF ReplicateInv, OpenDir, At

LEMMA CopyInsideStep == ASSUME ReplicateInv, CopyInside, LegStill PROVE ReplicateInv'
<1>1. PICK sf \in todo.inside :
        /\ todo' = [todo EXCEPT !.inside = @ \ {sf}]
        /\ IF mounted /\ sf[2] \in Inside(dir, sf[1])
           THEN dirCopy' = [dirCopy EXCEPT ![sf[1]] = @ \cup {sf[2]}] /\ UNCHANGED run
           ELSE Fail /\ UNCHANGED dirCopy
  BY DEF CopyInside
<1>2. /\ run \in Run /\ todo \in Tree /\ seen \in Tree /\ dirCopy \in [Snap -> FileSets]
      /\ sf \in Snap \X File /\ sf[1] \in seen.dirs /\ dirCopy[sf[1]] # Missing
  BY DEF ReplicateInv, TypeOK, Tree, Opened
<1>3. PICK s \in Snap, f \in File : sf = <<s, f>> /\ s = sf[1] /\ f = sf[2]
  BY <1>2
<1>4. /\ run' \in Run /\ run'.exp = run.exp /\ run'.pc = run.pc /\ run'.bad = run.bad
      /\ ~run'.failed => ~run.failed /\ f \in Inside(dir, s) /\ dirCopy' = [dirCopy EXCEPT ![s] = @ \cup {f}]
  BY <1>1, <1>2, <1>3 DEF Fail, Run
<1>5. /\ todo' \in Tree /\ todo'.dirs = todo.dirs /\ todo'.tgzs = todo.tgzs
      /\ todo'.inside = todo.inside \ {<<s, f>>}
  BY <1>1, <1>2, <1>3 DEF Tree
<1>6. /\ dirCopy' \in [Snap -> FileSets]
      /\ \A t \in Snap : /\ (dirCopy'[t] = Missing) = (dirCopy[t] = Missing)
                         /\ Inside(dirCopy, t) \subseteq Inside(dirCopy', t)
                         /\ Inside(dirCopy', t) \subseteq Inside(dirCopy, t) \cup Inside(dir, t)
  BY <1>1, <1>2, <1>3, SnapAssumption DEF Inside, FileSets
<1>7. TypeOK'
  BY <1>4, <1>5, <1>6 DEF ReplicateInv, TypeOK, CopyInside, LegStill, project, mount, observed
<1>8. CopyOf'
  BY <1>6 DEF ReplicateInv, CopyOf, Inside, Busy, CopyInside, LegStill, snapvars, disk
<1>9. Opened'
  BY <1>2, <1>5, <1>6 DEF ReplicateInv, Opened, CopyInside, Tree
<1>10. NothingMissed'
  <2>1. Good' => Good
    BY <1>4 DEF Good, LegStill, observed
  <2>2. ASSUME Good', NEW t \in Snap, NEW g \in File, SnapDue(t, g) PROVE SnapDue(t, g)'
    <3>1. dirCopy' = [dirCopy EXCEPT ![s] = @ \cup {f}] /\ UNCHANGED <<dir, tgz, tgzCopy, seen>>
      BY <1>4, <2>2 DEF Good, CopyInside, LegStill, snapvars, disk
    <3>2. ASSUME InsideDue(t, g), t = s, g = f PROVE InsideCopied(t, g)'
      <4>1. f \in dirCopy'[s] /\ dirCopy'[s] # Missing
        BY <1>2, <1>3, <1>6, <3>1 DEF FileSets
      <4> QED
        BY <1>2, <1>3, <3>1, <3>2, <4>1 DEF InsideDue, InsideCopied, Inside
    <3>3. ASSUME InsideDue(t, g), ~(t = s /\ g = f) PROVE InsideDue(t, g)'
      BY <1>5, <3>1, <3>3 DEF InsideDue, Inside
    <3>4. ASSUME InsideCopied(t, g) PROVE InsideCopied(t, g)'
      BY <1>6, <3>1, <3>4 DEF InsideCopied, Inside
    <3> QED
      BY <1>5, <2>2, <3>1, <3>2, <3>3, <3>4
         DEF SnapDue, TarballDue, TarballCopied, DirDue, Files, Inside
  <2> QED
    BY <1>4, <2>1, <2>2, BackUpLeg DEF CopyInside, At
<1> QED
  BY <1>4, <1>7, <1>8, <1>9, <1>10, LegCommon DEF ReplicateInv, CopyInside, At

LEMMA CopyTarballStep == ASSUME ReplicateInv, CopyTarball, LegStill PROVE ReplicateInv'
<1>1. PICK s \in todo.tgzs :
        /\ todo' = [todo EXCEPT !.tgzs = @ \ {s}]
        /\ IF mounted /\ tgz[s] # Missing
           THEN tgzCopy' = [tgzCopy EXCEPT ![s] = tgz[s]] /\ UNCHANGED run
           ELSE Fail /\ UNCHANGED tgzCopy
  BY DEF CopyTarball
<1>2. /\ run \in Run /\ todo \in Tree /\ s \in Snap /\ tgzCopy \in [Snap -> FileSets]
      /\ tgz[s] \in FileSets
  BY DEF ReplicateInv, TypeOK, Tree, SnapInv, SnapTypeOK
<1>3. /\ run' \in Run /\ run'.exp = run.exp /\ run'.pc = run.pc /\ run'.bad = run.bad
      /\ ~run'.failed => ~run.failed /\ tgz[s] # Missing /\ tgzCopy' = [tgzCopy EXCEPT ![s] = tgz[s]]
  BY <1>1, <1>2 DEF Fail, Run
<1>4. /\ todo' \in Tree /\ todo'.tgzs = todo.tgzs \ {s} /\ todo'.inside = todo.inside
      /\ todo'.dirs = todo.dirs
  BY <1>1, <1>2 DEF Tree
<1>5. /\ tgzCopy' \in [Snap -> FileSets]
      /\ tgzCopy' = tgzCopy \/ (tgz[s] # Missing /\ tgzCopy' = [tgzCopy EXCEPT ![s] = tgz[s]])
  BY <1>1, <1>2
<1>6. TypeOK'
  BY <1>3, <1>4, <1>5 DEF ReplicateInv, TypeOK, CopyTarball, LegStill, project, mount, observed
<1>7. CopyOf'
  <2>1. UNCHANGED <<dir, tgz, writer, dirCopy>>
    BY DEF CopyTarball, LegStill, snapvars, disk
  <2>2. \A t \in Snap : tgzCopy'[t] = tgzCopy[t] \/ (t = s /\ tgz[t] # Missing)
    BY <1>2, <1>5
  <2>3. \A t \in Snap : Busy("backup", t) => tgz[t] = Missing
    BY DEF ReplicateInv, SnapInv, WriterFound
  <2> QED
    BY <2>1, <2>2, <2>3 DEF ReplicateInv, CopyOf, Inside, Busy
<1>8. Opened'
  BY <1>4 DEF ReplicateInv, Opened, CopyTarball
<1>9. NothingMissed'
  <2>1. Good' => Good
    BY <1>3 DEF Good, LegStill, observed
  <2>2. ASSUME Good', NEW t \in Snap, NEW f \in File, SnapDue(t, f) PROVE SnapDue(t, f)'
    <3>1. /\ tgz[s] # Missing /\ tgzCopy' = [tgzCopy EXCEPT ![s] = tgz[s]]
          /\ UNCHANGED <<dir, tgz, dirCopy, seen>>
      BY <1>3, <2>2 DEF Good, CopyTarball, LegStill, snapvars, disk
    <3>2. ASSUME TarballDue(t, f), t = s PROVE TarballCopied(t, f)'
      <4>1. f \in tgz[s]
        BY <3>1, <3>2, <1>2 DEF TarballDue, Files, ReplicateInv, SnapInv, TarballWhole
      <4>2. tgzCopy'[s] = tgz[s]
        BY <1>2, <3>1
      <4> QED
        BY <1>4, <3>1, <3>2, <4>1, <4>2 DEF TarballDue, TarballCopied, Inside
    <3>3. ASSUME TarballDue(t, f), t # s PROVE TarballDue(t, f)'
      BY <1>4, <3>1, <3>3 DEF TarballDue, Files
    <3>4. ASSUME TarballCopied(t, f) PROVE TarballCopied(t, f)'
      <4>1. t # s
        BY <3>4 DEF TarballCopied
      <4>2. tgzCopy'[t] = tgzCopy[t]
        BY <1>2, <3>1, <4>1
      <4> QED
        BY <1>4, <3>1, <3>4, <4>2 DEF TarballCopied, Inside
    <3> QED
      BY <1>4, <2>2, <3>1, <3>2, <3>3, <3>4 DEF SnapDue, DirDue, InsideDue, InsideCopied, Inside
  <2> QED
    BY <1>3, <2>1, <2>2, BackUpLeg DEF CopyTarball, At
<1> QED
  BY <1>3, <1>6, <1>7, <1>8, <1>9, LegCommon DEF ReplicateInv, CopyTarball, At

\* What was listed, or lies in a directory that was, is not deleted.
LEMMA DeleteKeeps ==
  ASSUME ReplicateInv, Delete
  PROVE  /\ copy' \in [File -> Version \cup {Missing}]
         /\ dirCopy' \in [Snap -> FileSets] /\ tgzCopy' \in [Snap -> FileSets]
         /\ At("copy SYNC") =>
              UNCHANGED <<dirCopy, tgzCopy>> /\ \A f \in seen.files : copy'[f] = copy[f]
         /\ At("copy BackUp") =>
              /\ UNCHANGED copy
              /\ \A s \in seen.tgzs : tgzCopy'[s] = tgzCopy[s]
              /\ \A s \in seen.dirs :
                   /\ dirCopy[s] # Missing => dirCopy'[s] # Missing
                   /\ \A f \in Inside(dirCopy, s) : <<s, f>> \in seen.inside => f \in Inside(dirCopy', s)
         /\ \A s \in Snap :
              /\ dirCopy[s] = Missing => dirCopy'[s] = Missing
              /\ tgzCopy[s] = Missing => tgzCopy'[s] = Missing
              /\ Inside(dirCopy', s) \subseteq Inside(dirCopy, s)
<1> DEFINE ExFiles == {f \in File : copy[f] # Missing} \ seen.files
           ExDirs == {s \in Snap : dirCopy[s] # Missing} \ seen.dirs
           ExTgzs == {s \in Snap : tgzCopy[s] # Missing} \ seen.tgzs
           ExInside == {sf \in (seen.dirs \ todo.dirs) \X File :
                          sf[2] \in Inside(dirCopy, sf[1])} \ seen.inside
<1>1. /\ copy \in [File -> Version \cup {Missing}] /\ dirCopy \in [Snap -> FileSets]
      /\ tgzCopy \in [Snap -> FileSets] /\ seen \in Tree /\ todo \in Tree
  BY DEF ReplicateInv, TypeOK
<1>2. At("copy SYNC") => /\ Extra.files = ExFiles /\ Extra.dirs = {}
                         /\ Extra.tgzs = {} /\ Extra.inside = {}
  BY DEF Extra, NoTree
<1>3. At("copy BackUp") => /\ Extra.files = {} /\ Extra.dirs = ExDirs
                           /\ Extra.tgzs = ExTgzs /\ Extra.inside = ExInside
  BY DEF Extra, NoTree, At
<1>4. /\ At("copy SYNC") \/ At("copy BackUp")
      /\ ~(At("copy SYNC") /\ At("copy BackUp"))
  BY DEF Delete, At
<1> HIDE DEF ExFiles, ExDirs, ExTgzs, ExInside
<1>5. ASSUME NEW f \in Extra.files, copy' = [copy EXCEPT ![f] = Missing], UNCHANGED <<dirCopy, tgzCopy>>
      PROVE  /\ At("copy SYNC") /\ copy' \in [File -> Version \cup {Missing}]
             /\ \A g \in seen.files : copy'[g] = copy[g]
  BY <1>1, <1>2, <1>3, <1>4, <1>5 DEF ExFiles, Tree
<1>6. ASSUME NEW s \in Extra.dirs, dirCopy' = [dirCopy EXCEPT ![s] = Missing], UNCHANGED <<copy, tgzCopy>>
      PROVE  /\ At("copy BackUp") /\ dirCopy' \in [Snap -> FileSets]
             /\ \A t \in seen.dirs : dirCopy'[t] = dirCopy[t]
             /\ \A t \in Snap : dirCopy'[t] \in {dirCopy[t], Missing}
  BY <1>1, <1>2, <1>3, <1>4, <1>6 DEF ExDirs, Tree, FileSets
<1>7. ASSUME NEW sf \in Extra.inside, dirCopy' = [dirCopy EXCEPT ![sf[1]] = @ \ {sf[2]}],
             UNCHANGED <<copy, tgzCopy>>
      PROVE  /\ At("copy BackUp") /\ dirCopy' \in [Snap -> FileSets]
             /\ \A t \in Snap : /\ (dirCopy'[t] = Missing) = (dirCopy[t] = Missing)
                                /\ Inside(dirCopy', t) \subseteq Inside(dirCopy, t)
                                /\ \A f \in Inside(dirCopy, t) : <<t, f>> \in seen.inside => f \in Inside(dirCopy', t)
  <2>1. /\ At("copy BackUp") /\ sf \in ExInside
    BY <1>2, <1>3, <1>4, <1>7
  <2>2. PICK s \in Snap, f \in File : sf = <<s, f>>
    <3>1. seen.dirs \in SUBSET Snap
      BY <1>1 DEF Tree
    <3>2. sf \in (seen.dirs \ todo.dirs) \X File
      BY <2>1 DEF ExInside
    <3> QED
      BY <3>1, <3>2
  <2>3. sf[1] = s /\ sf[2] = f /\ f \in Inside(dirCopy, s) /\ <<s, f>> \notin seen.inside
    BY <2>1, <2>2 DEF ExInside
  <2>4. dirCopy' = [dirCopy EXCEPT ![s] = @ \ {f}] /\ dirCopy[s] \in SUBSET File /\ dirCopy[s] # Missing
    BY <1>1, <1>7, <2>3 DEF Inside, FileSets
  <2> QED
    BY <1>1, <2>1, <2>3, <2>4, SnapAssumption DEF Inside, FileSets
<1>8. ASSUME NEW s \in Extra.tgzs, tgzCopy' = [tgzCopy EXCEPT ![s] = Missing], UNCHANGED <<copy, dirCopy>>
      PROVE  /\ At("copy BackUp") /\ tgzCopy' \in [Snap -> FileSets]
             /\ \A t \in seen.tgzs : tgzCopy'[t] = tgzCopy[t]
             /\ \A t \in Snap : tgzCopy'[t] \in {tgzCopy[t], Missing}
  BY <1>1, <1>2, <1>3, <1>4, <1>8 DEF ExTgzs, Tree, FileSets
<1>9. CASE \E f \in Extra.files : copy' = [copy EXCEPT ![f] = Missing] /\ UNCHANGED <<dirCopy, tgzCopy>>
  BY <1>1, <1>4, <1>5, <1>9 DEF Inside
<1>10. CASE \E s \in Extra.dirs : dirCopy' = [dirCopy EXCEPT ![s] = Missing] /\ UNCHANGED <<copy, tgzCopy>>
  <2>1. \A t \in seen.dirs : Inside(dirCopy', t) = Inside(dirCopy, t)
    BY <1>6, <1>10 DEF Inside
  <2>2. \A t \in Snap : Inside(dirCopy', t) \subseteq Inside(dirCopy, t)
    BY <1>6, <1>10 DEF Inside
  <2> QED
    BY <1>1, <1>4, <1>6, <1>10, <2>1, <2>2
<1>11. CASE \E sf \in Extra.inside :
              dirCopy' = [dirCopy EXCEPT ![sf[1]] = @ \ {sf[2]}] /\ UNCHANGED <<copy, tgzCopy>>
  BY <1>1, <1>4, <1>7, <1>11 DEF Tree
<1>12. CASE \E s \in Extra.tgzs : tgzCopy' = [tgzCopy EXCEPT ![s] = Missing] /\ UNCHANGED <<copy, dirCopy>>
  BY <1>1, <1>4, <1>8, <1>12 DEF Inside
<1> QED
  BY <1>9, <1>10, <1>11, <1>12 DEF Delete

LEMMA DeleteStep == ASSUME ReplicateInv, Delete, LegStill PROVE ReplicateInv'
<1>1. UNCHANGED <<run, todo, seen>> /\ todo \in Tree /\ seen \in Tree
  BY DEF Delete, ReplicateInv, TypeOK, leg
<1>2. TypeOK'
  BY <1>1, DeleteKeeps DEF ReplicateInv, TypeOK, Delete, LegStill, project, mount, observed
<1>3. CopyOf'
  <2>1. UNCHANGED <<dir, tgz, writer>>
    BY DEF LegStill, snapvars, disk
  <2>2. \A s \in Snap : /\ Busy("backup", s)' = Busy("backup", s)
                        /\ Inside(dirCopy, s)' = Inside(dirCopy', s) /\ Inside(dir, s)' = Inside(dir, s)
    BY <2>1 DEF Busy, Inside
  <2> QED
    BY <2>1, <2>2, DeleteKeeps DEF ReplicateInv, CopyOf
<1>4. Opened'
  <2>1. CASE At("copy SYNC")
    BY <1>1, <2>1, DeleteKeeps DEF ReplicateInv, Opened
  <2>2. CASE At("copy BackUp")
    BY <1>1, <2>2, DeleteKeeps DEF ReplicateInv, Opened
  <2> QED
    BY <2>1, <2>2 DEF Delete
<1>5. NothingMissed'
  <2>1. Good' = Good
    BY <1>1 DEF Good, LegStill, observed
  <2>2. CASE At("copy SYNC")
    <3>1. SUFFICES ASSUME Good, NEW fv \in due, Has(fv[1], fv[2])'
                   PROVE  OnItsWay(fv[1], fv[2])'
      BY <2>1 DEF NothingMissed, LegStill, observed
    <3>2. /\ Has(fv[1], fv[2]) /\ fv[1] \in File
          /\ InHistory(fv[1], fv[2])' = InHistory(fv[1], fv[2])
      BY <2>2, <3>1, LegGood DEF At, Good
    <3>3. InHistory(fv[1], fv[2]) \/ SyncDue(fv[1], fv[2])
      BY <2>2, <3>1, <3>2 DEF ReplicateInv, NothingMissed, OnItsWay, At
    <3>4. SyncDue(fv[1], fv[2]) => SyncDue(fv[1], fv[2])'
      BY <1>1, <2>2, DeleteKeeps DEF SyncDue, LegStill, project
    <3> QED
      BY <1>1, <2>2, <3>2, <3>3, <3>4 DEF OnItsWay, At
  <2>3. CASE At("copy BackUp")
    <3>1. UNCHANGED <<dir, tgz>>
      BY DEF LegStill, snapvars, disk
    <3>2. ASSUME NEW t \in Snap, NEW f \in File, SnapDue(t, f) PROVE SnapDue(t, f)'
      <4>1. InsideCopied(t, f) => InsideCopied(t, f)'
        BY <1>1, <2>3, DeleteKeeps DEF InsideCopied, Inside
      <4>2. TarballCopied(t, f) => TarballCopied(t, f)'
        BY <1>1, <2>3, DeleteKeeps DEF TarballCopied, Inside
      <4> QED
        BY <1>1, <3>1, <3>2, <4>1, <4>2 DEF SnapDue, TarballDue, DirDue, InsideDue, Inside, Files
    <3> QED
      BY <1>1, <2>1, <2>3, <3>2, BackUpLeg, DeleteKeeps DEF At
  <2> QED
    BY <2>2, <2>3 DEF Delete
<1> QED
  BY <1>1, <1>2, <1>3, <1>4, <1>5, LegCommon DEF ReplicateInv, Delete, At

LEMMA CopyFailsStep == ASSUME ReplicateInv, CopyFails, LegStill PROVE ReplicateInv'
<1>1. /\ run \in Run /\ todo \in Tree /\ seen \in Tree
      /\ todo' = NoTree /\ seen' = [seen EXCEPT !.inside = @ \cup (todo.dirs \X File)]
      /\ run' = [run EXCEPT !.failed = TRUE] /\ UNCHANGED <<copy, dirCopy, tgzCopy>>
  BY DEF ReplicateInv, TypeOK, CopyFails, Fail, replica
<1>2. /\ run' \in Run /\ run'.failed /\ run'.exp = run.exp
  BY <1>1 DEF Run
<1>3. todo' \in Tree /\ seen' \in Tree /\ todo'.dirs = {} /\ todo'.inside = {}
  <2>1. todo.dirs \X File \in SUBSET (Snap \X File)
    BY <1>1 DEF Tree
  <2>2. seen' \in Tree
    BY <1>1, <2>1 DEF Tree
  <2> QED
    BY <1>1, <2>2 DEF Tree, NoTree
<1>4. TypeOK'
  BY <1>1, <1>2, <1>3 DEF ReplicateInv, TypeOK, LegStill, project, mount, observed
<1>5. CopyOf' /\ Opened'
  BY <1>1, <1>3 DEF ReplicateInv, CopyOf, Opened, Inside, Busy, LegStill, snapvars, disk
<1>6. NothingMissed'
  BY <1>2 DEF NothingMissed, Good
<1> QED
  BY <1>2, <1>4, <1>5, <1>6, LegCommon DEF ReplicateInv, CopyFails, At

LEMMA LegEndStep == ASSUME ReplicateInv, LegEnd, LegStill PROVE ReplicateInv'
<1>1. PICK next \in {"BackUp", "report"} :
        /\ At(IF next = "BackUp" THEN "copy SYNC" ELSE "copy BackUp")
        /\ LegEnds(next)
  BY DEF LegEnd
<1>2. /\ run \in Run /\ todo = NoTree /\ todo' = NoTree /\ seen' = NoTree
      /\ UNCHANGED <<copy, dirCopy, tgzCopy>>
  BY DEF ReplicateInv, TypeOK, LegEnd, replica
<1>3. /\ run' \in Run /\ run'.exp = run.exp /\ run'.pc = next
      /\ ~run'.bad => ~run.bad /\ ~run.failed
  BY <1>1, <1>2 DEF LegEnds, Run, Step
<1>4. /\ NoTree \in Tree /\ NoTree.files = {} /\ NoTree.dirs = {} /\ NoTree.tgzs = {}
      /\ NoTree.inside = {}
  BY DEF NoTree, Tree
<1>5. TypeOK'
  BY <1>2, <1>3, <1>4 DEF ReplicateInv, TypeOK, LegStill, project, mount, observed
<1>6. CopyOf' /\ Opened'
  BY <1>2, <1>4 DEF ReplicateInv, CopyOf, Opened, Inside, Busy, LegStill, snapvars, disk
<1>7. NothingMissed'
  <2>1. SUFFICES ASSUME Good', NEW fv \in due, Has(fv[1], fv[2])'
                 PROVE  OnItsWay(fv[1], fv[2])'
    BY DEF NothingMissed, LegStill, observed
  <2>2. Good /\ (At("copy SYNC") \/ At("copy BackUp"))
    BY <1>1, <1>3, <2>1 DEF Good, LegStill, observed
  <2>3. /\ Has(fv[1], fv[2]) /\ fv[1] \in File
        /\ InHistory(fv[1], fv[2])' = InHistory(fv[1], fv[2])
    BY <2>1, <2>2, LegGood DEF At, Good
  <2>4. OnItsWay(fv[1], fv[2])
    BY <2>1, <2>2, <2>3 DEF ReplicateInv, NothingMissed
  <2>5. CASE next = "BackUp"
    BY <1>1, <1>2, <1>3, <1>4, <2>3, <2>4, <2>5 DEF OnItsWay, At, SyncDue
  <2>6. CASE next = "report"
    <3>1. copy[fv[1]] = fv[2] \/ \E s \in Snap : held[s][fv[1]] = fv[2] /\ SnapDue(s, fv[1])
      BY <1>1, <2>4, <2>6 DEF OnItsWay
    <3>2. \A s \in Snap : SnapDue(s, fv[1]) => fv[1] \in Inside(dirCopy, s) \cup Inside(tgzCopy, s)
      BY <1>2, <1>4 DEF SnapDue, TarballDue, TarballCopied, DirDue, InsideDue, InsideCopied
    <3>3. Replicated(fv[1], fv[2])
      BY <3>1, <3>2 DEF Replicated
    <3>4. Replicated(fv[1], fv[2])'
      BY <1>2, <3>3 DEF Replicated, Inside, LegStill, project
    <3> QED
      BY <1>3, <2>6, <3>4 DEF OnItsWay, At
  <2> QED
    BY <2>5, <2>6
<1> QED
  BY <1>1, <1>3, <1>5, <1>6, <1>7, LegCommon DEF ReplicateInv, At

LEMMA LegStep == ASSUME ReplicateInv, Leg, ~At("report") PROVE ReplicateInv'
<1>1. UNCHANGED <<snapvars, project, mount>>
  BY DEF Leg
<1>2. UNCHANGED observed /\ (\/ ListSync \/ ListBackUp \/ CopyFile \/ OpenDir \/ CopyInside
                             \/ CopyTarball \/ Delete \/ CopyFails \/ LegEnd)
  BY DEF Leg, Report
<1> QED
  BY <1>1, <1>2, ListSyncStep, ListBackUpStep, CopyFileStep, OpenDirStep, CopyInsideStep,
     CopyTarballStep, DeleteStep, CopyFailsStep, LegEndStep DEF LegStill

--------------------------------------------------------------------------------
(* The end of a run, its beginning, and the disk. *)

LEMMA EndStep ==
  ASSUME ReplicateInv, EndRun, UNCHANGED <<snapvars, project, mount, replica>>
  PROVE  ReplicateInv'
<1> USE DEF snapvars, disk, project, mount, replica
<1>1. /\ run'.pc = "idle" /\ run' \in Run /\ todo' = NoTree /\ seen' = NoTree /\ due' = {}
      /\ moved' = FALSE /\ away' = "no"
  BY DEF EndRun, IdleRun, Run, Step
<1>2. NoTree \in Tree /\ NoTree.dirs = {} /\ NoTree.inside = {}
  BY DEF NoTree, Tree
<1>3. TypeOK'
  BY <1>1, <1>2 DEF ReplicateInv, TypeOK
<1>4. SnapInv'
  BY DEF ReplicateInv, SnapInv, SnapTypeOK, FileSets, WriterFound, TarballWhole, Busy
<1>5. GuardPassed' /\ NothingMissed' /\ DueOnce' /\ Opened'
  BY <1>1, <1>2 DEF GuardPassed, NothingMissed, DueOnce, Opened, At
<1>6. CopyOf'
  BY DEF ReplicateInv, CopyOf, Inside, Busy
<1>7. Labels'
  <2>1. \A s \in Snap : /\ Files(s)' = Files(s) /\ Inside(dir, s)' = Inside(dir, s)
                        /\ Busy("backup", s)' = Busy("backup", s)
    BY DEF Files, Inside, Busy
  <2> QED
    BY <2>1 DEF ReplicateInv, Labels
<1> QED
  BY <1>3, <1>4, <1>5, <1>6, <1>7 DEF ReplicateInv

\* Steps of a run that has not listed anything yet.
LEMMA EarlyStep ==
  ASSUME ReplicateInv, UNCHANGED <<snapvars, project, mount, replica, leg>>,
         run' \in Run, run'.pc \in {"check SYNC", "check BackUp", "SYNC"},
         due' \in SUBSET (File \X Version), moved' \in BOOLEAN, away' \in {"no", "since start", "left"},
         DueOnce', GuardPassed'
  PROVE  ReplicateInv'
<1> USE DEF snapvars, disk, project, mount, replica, leg
<1>1. TypeOK' /\ Opened'
  BY DEF ReplicateInv, TypeOK, Opened
<1>2. SnapInv'
  BY DEF ReplicateInv, SnapInv, SnapTypeOK, FileSets, WriterFound, TarballWhole, Busy
<1>3. NothingMissed'
  BY DEF NothingMissed, OnItsWay, At
<1>4. CopyOf'
  BY DEF ReplicateInv, CopyOf, Inside, Busy
<1>5. Labels'
  <2>1. \A s \in Snap : /\ Files(s)' = Files(s) /\ Inside(dir, s)' = Inside(dir, s)
                        /\ Busy("backup", s)' = Busy("backup", s)
    BY DEF Files, Inside, Busy
  <2> QED
    BY <2>1 DEF ReplicateInv, Labels
<1> QED
  BY <1>1, <1>2, <1>3, <1>4, <1>5 DEF ReplicateInv

LEMMA StartStep == ASSUME ReplicateInv, StartReplicate PROVE ReplicateInv'
<1>1. /\ UNCHANGED <<snapvars, project, mount, replica, leg>>
      /\ run'.pc = "check SYNC" /\ run' \in Run
      /\ moved' = FALSE /\ away' \in {"no", "since start"}
      /\ away' = "no" => mounted'
  BY DEF StartReplicate, IdleRun, Run, Step, ReplicateInv, TypeOK, mount
<1>2. due' \in SUBSET (File \X Version)
  BY DEF StartReplicate
<1>3. DueOnce'
  <2>1. SUFFICES ASSUME NEW fv \in due' PROVE fv[2] <= last /\ (fv[2] = last => mirror[fv[1]] = fv[2])
    BY <1>1 DEF DueOnce, project
  <2>2. fv[1] \in File /\ fv[2] \in Nat /\ fv[2] # Missing
    <3>1. fv[1] \in File /\ fv[2] \in Version
      BY <1>2
    <3>2. (\A v \in Version : v \in Nat) /\ (\A v \in Nat : v # Missing)
      BY ReplicateAssumption DEF Version
    <3> QED
      BY <3>1, <3>2
  <2>3. CASE mirror[fv[1]] = fv[2]
    BY <2>2, <2>3 DEF ReplicateInv, Labels
  <2>4. ASSUME NEW s \in Snap, fv[1] \in Files(s), held[s][fv[1]] = fv[2]
        PROVE  fv[2] <= last /\ fv[2] # last
    <3>1. fv[2] < s /\ s <= last /\ s \in Nat /\ last \in Nat
      BY <2>4, ReplicateAssumption DEF ReplicateInv, Labels, TypeOK
    <3> QED
      BY <2>2, <3>1
  <2> QED
    BY <2>1, <2>3, <2>4 DEF StartReplicate
<1>4. GuardPassed'
  BY <1>1 DEF GuardPassed, At
<1> QED
  BY <1>1, <1>2, <1>3, <1>4, EarlyStep

LEMMA CheckStep == ASSUME ReplicateInv, Check PROVE ReplicateInv'
<1>1. CASE ~Guarded /\ EndRun
  BY <1>1, EndStep DEF Check
<1>2. CASE /\ Guarded
           /\ GoTo(IF At("check SYNC") THEN "check BackUp" ELSE "SYNC")
           /\ UNCHANGED <<leg, observed>>
  <2>1. /\ UNCHANGED <<snapvars, project, mount, replica, leg, due, moved, away>>
        /\ run' \in Run /\ run'.pc \in {"check BackUp", "SYNC"} /\ run'.exp = run.exp
    BY <1>2 DEF Check, GoTo, ReplicateInv, TypeOK, Run, Step, observed
  <2>2. DueOnce'
    BY <2>1 DEF ReplicateInv, DueOnce, project
  <2>3. GuardPassed'
    <3>1. ~At("idle") /\ UNCHANGED <<mounted, below, away>>
      BY <2>1 DEF Check, At, mount
    <3>2. away = "no" => mounted
      BY <3>1 DEF ReplicateInv, GuardPassed
    <3>3. ~mounted => run.exp # "disk" /\ below = "marked"
      BY <1>2 DEF Guarded, Here
    <3> QED
      BY <2>1, <3>1, <3>2, <3>3 DEF GuardPassed
  <2> QED
    BY <2>1, <2>2, <2>3, EarlyStep DEF ReplicateInv, TypeOK
<1> QED
  BY <1>1, <1>2 DEF Check

LEMMA UnmountStep == ASSUME ReplicateInv, Unmount PROVE ReplicateInv'
<1> USE DEF disk, project, replica, leg
<1>1. TypeOK' /\ Opened' /\ DueOnce'
  BY DEF Unmount, ReplicateInv, TypeOK, Opened, DueOnce
<1>2. SnapInv'
  <2>1. [SnapNext]_snapvars
    BY DEF Unmount, SnapNext, Stop, snapvars
  <2> QED
    BY <2>1, SnapInvStep DEF ReplicateInv
<1>3. GuardPassed' /\ NothingMissed'
  BY DEF Unmount, GuardPassed, NothingMissed, Good, OnItsWay, At
<1>4. \A s \in Snap : ~Busy("backup", s)'
  BY DEF Unmount, Busy, Nobody
<1>5. CopyOf'
  BY <1>4 DEF Unmount, ReplicateInv, CopyOf
<1>6. Labels'
  <2>1. \A s \in Snap : Files(s)' = Files(s)
    BY DEF Unmount, Files
  <2> QED
    BY <1>4, <2>1 DEF Unmount, ReplicateInv, Labels
<1> QED
  BY <1>1, <1>2, <1>3, <1>5, <1>6 DEF ReplicateInv

\* Nothing is lost from sight while neither the project nor the replica changes.
LEMMA WayKept ==
  ASSUME ReplicateInv,
         UNCHANGED <<dir, tgz, mirror, held, replica, run, leg, due, moved, away>>
  PROVE  NothingMissed'
<1> USE DEF replica, leg
<1>1. Good' = Good
  BY DEF Good
<1>2. \A s \in Snap : \A f \in File :
        SnapDue(s, f)' = SnapDue(s, f) /\ (f \in Files(s))' = (f \in Files(s))
  <2>1. SUFFICES ASSUME NEW s \in Snap, NEW f \in File
                 PROVE  SnapDue(s, f)' = SnapDue(s, f) /\ (f \in Files(s))' = (f \in Files(s))
    OBVIOUS
  <2>2. Files(s)' = Files(s)
    BY DEF Files
  <2>3. /\ TarballDue(s, f)' = TarballDue(s, f)
        /\ TarballCopied(s, f)' = TarballCopied(s, f)
    BY <2>2 DEF TarballDue, TarballCopied, Inside
  <2>4. /\ DirDue(s, f)' = DirDue(s, f) /\ InsideDue(s, f)' = InsideDue(s, f)
        /\ InsideCopied(s, f)' = InsideCopied(s, f)
    BY DEF DirDue, InsideDue, InsideCopied, Inside
  <2> QED
    BY <2>2, <2>3, <2>4 DEF SnapDue
<1>3. ASSUME NEW fv \in due, fv[1] \in File
      PROVE  /\ Has(fv[1], fv[2])' => Has(fv[1], fv[2])
             /\ OnItsWay(fv[1], fv[2]) => OnItsWay(fv[1], fv[2])'
  <2>1. Has(fv[1], fv[2])' = Has(fv[1], fv[2]) /\ InHistory(fv[1], fv[2])' = InHistory(fv[1], fv[2])
    BY DEF Has, InHistory, Files
  <2>2. Replicated(fv[1], fv[2])' = Replicated(fv[1], fv[2])
    BY DEF Replicated, Inside
  <2>3. SyncDue(fv[1], fv[2])' = SyncDue(fv[1], fv[2])
    BY DEF SyncDue
  <2> QED
    BY <1>2, <1>3, <2>1, <2>2, <2>3 DEF OnItsWay, At
<1>4. \A fv \in due : fv[1] \in File
  BY DEF ReplicateInv, TypeOK
<1> QED
  BY <1>1, <1>3, <1>4 DEF ReplicateInv, NothingMissed

\* The mount and the configuration matter to the guard only.
LEMMA MountStep ==
  ASSUME ReplicateInv, UNCHANGED <<snapvars, project, replica, run, leg, observed>>,
         mounted' \in BOOLEAN, below' \in {"nothing", "dirs", "marked"},
         expected' \in {"", "disk", "system"},
         mounted => mounted', below = "marked" => below' = "marked"
  PROVE  ReplicateInv'
<1> USE DEF snapvars, disk, project, replica, leg, observed
<1>1. TypeOK' /\ Opened' /\ DueOnce'
  BY DEF ReplicateInv, TypeOK, Opened, DueOnce
<1>2. SnapInv'
  BY DEF ReplicateInv, SnapInv, SnapTypeOK, FileSets, WriterFound, TarballWhole, Busy
<1>3. GuardPassed'
  BY DEF ReplicateInv, GuardPassed, At
<1>4. CopyOf'
  BY DEF ReplicateInv, CopyOf, Inside, Busy
<1>5. Labels'
  <2>1. \A s \in Snap : /\ Files(s)' = Files(s) /\ Inside(dir, s)' = Inside(dir, s)
                        /\ Busy("backup", s)' = Busy("backup", s)
    BY DEF Files, Inside, Busy
  <2> QED
    BY <2>1 DEF ReplicateInv, Labels
<1>6. NothingMissed'
  BY WayKept
<1> QED
  BY <1>1, <1>2, <1>3, <1>4, <1>5, <1>6 DEF ReplicateInv

--------------------------------------------------------------------------------
(* The other scripts. *)

ScriptStill == UNCHANGED <<mount, replica, run, leg, due, away>>

LEMMA GuardKept ==
  ASSUME ReplicateInv, ScriptStill
  PROVE  GuardPassed' /\ Opened'
BY DEF ScriptStill, mount, replica, leg, ReplicateInv, GuardPassed, Opened, At

\* A backup that begins changes nothing yet but the clock.
LEMMA BeginStep == ASSUME ReplicateInv, NEW s \in Snap, Begin(s), ScriptStill PROVE ReplicateInv'
<1> USE DEF ScriptStill, disk, mount, replica, leg
<1>1. /\ UNCHANGED <<dir, tgz, part, mirror, held, moved>>
      /\ dir[s] = Missing /\ tgz[s] = Missing
      /\ last \in Nat /\ s \in Nat /\ last <= s /\ last' = s
      /\ \A t \in Snap : Busy("backup", t)' => t = s
  BY ReplicateAssumption DEF Begin, BeginBackup, BeBusy, Busy, ReplicateInv, TypeOK
<1>2. TypeOK'
  BY <1>1 DEF ReplicateInv, TypeOK
<1>3. SnapInv'
  <2>1. [SnapNext]_snapvars
    BY DEF Begin, SnapNext
  <2> QED
    BY <2>1, SnapInvStep DEF ReplicateInv
<1>4. Labels'
  <2>1. /\ mirror \in [File -> Version \cup {Missing}]
        /\ \A v \in Version : v \in Nat
        /\ \A t \in Snap : t \in Nat
    <3>1. \A v \in Version : v \in Nat
      BY ReplicateAssumption DEF Version
    <3>2. \A t \in Snap : t \in Nat
      BY ReplicateAssumption
    <3> QED
      BY <3>1, <3>2 DEF ReplicateInv, TypeOK
  <2>2. /\ \A t \in Snap : Files(t)' = Files(t) /\ Files(t) \in SUBSET File
        /\ Inside(dir, s)' = {}
    BY <1>1 DEF Files, Inside, ReplicateInv, SnapInv, SnapTypeOK, FileSets
  <2>3. \A f \in File : mirror'[f] # Missing => mirror'[f] <= last'
    BY <1>1, <2>1 DEF ReplicateInv, Labels
  <2>4. \A t \in Snap : \A f \in Files(t)' : held'[t][f] < t /\ t <= last' /\ mirror'[f] # held'[t][f]
    <3>1. \A t \in Snap : \A f \in Files(t) : held[t][f] < t /\ t <= last /\ mirror[f] # held[t][f]
      BY DEF ReplicateInv, Labels
    <3>2. \A t \in Snap : t <= last => t <= last'
      BY <1>1, <2>1
    <3> QED
      BY <1>1, <2>2, <3>1, <3>2
  <2>5. \A t, u \in Snap : \A f \in Files(t)' \cap Files(u)' : held'[t][f] = held'[u][f] => t = u
    BY <1>1, <2>2 DEF ReplicateInv, Labels
  <2> QED
    BY <1>1, <2>2, <2>3, <2>4, <2>5 DEF Labels
<1>5. DueOnce'
  <2>1. \A fv \in due : fv[2] \in Nat
    BY DueIsVersion DEF ReplicateInv
  <2> QED
    BY <1>1, <2>1 DEF ReplicateInv, DueOnce
<1>6. CopyOf'
  BY <1>1, SnapAssumption DEF ReplicateInv, CopyOf, Inside
<1>7. NothingMissed'
  BY <1>1, WayKept
<1> QED
  BY <1>2, <1>3, <1>4, <1>5, <1>6, <1>7, GuardKept DEF ReplicateInv

\* What the snapshot under construction has not got yet is on nobody's way.
LEMMA AsideStep ==
  ASSUME ReplicateInv, NEW s \in Snap, NEW f \in File, Aside(s, f), ScriptStill
  PROVE  ReplicateInv'
<1> USE DEF ScriptStill, mount, replica, leg
<1>1. /\ Busy("backup", s) /\ s = last /\ s \in Nat
      /\ mirror[f] # Missing /\ mirror[f] # s /\ mirror[f] \in Nat /\ mirror[f] \in Version
      /\ UNCHANGED <<tgz, part, writer, last, moved>>
  <2>1. \A v \in Version : v \in Nat
    BY ReplicateAssumption DEF Version
  <2> QED
    BY <2>1, ReplicateAssumption DEF Aside, PutAside, ReplicateInv, Labels, TypeOK
<1>2. /\ dir \in [Snap -> FileSets] /\ tgz \in [Snap -> FileSets] /\ tgz[s] = Missing
      /\ held \in [Snap -> [File -> Version]] /\ mirror \in [File -> Version \cup {Missing}]
      /\ dirCopy \in [Snap -> FileSets] /\ tgzCopy \in [Snap -> FileSets]
  BY <1>1 DEF ReplicateInv, TypeOK, SnapInv, SnapTypeOK, WriterFound
<1>3. /\ held' \in [Snap -> [File -> Version]] /\ mirror' \in [File -> Version \cup {Missing}]
      /\ held'[s][f] = mirror[f] /\ mirror'[f] = Missing
      /\ \A g \in File : g # f => mirror'[g] = mirror[g]
      /\ \A t \in Snap : \A g \in File : ~(t = s /\ g = f) => held'[t][g] = held[t][g]
  BY <1>1, <1>2 DEF Aside
<1>4. /\ f \notin Inside(dir, s) /\ f \notin Files(s) /\ Inside(tgzCopy, s) = {}
      /\ f \notin Inside(dirCopy, s)
  BY <1>1, <1>2 DEF ReplicateInv, Labels, CopyOf, Files, Inside
<1>5. /\ dir' \in [Snap -> FileSets] /\ dir'[s] # Missing
      /\ \A t \in Snap : Inside(dir', t) = Inside(dir, t) \cup (IF t = s THEN {f} ELSE {})
      /\ \A t \in Snap : t # s => dir'[t] = dir[t]
  <2>1. dir' = [dir EXCEPT ![s] = {f} \cup Inside(dir, s)] /\ {f} \cup Inside(dir, s) \in SUBSET File
    BY <1>2 DEF Aside, PutAside, Inside, FileSets
  <2> QED
    BY <1>2, <2>1, SnapAssumption DEF Inside, FileSets
<1>6. \A t \in Snap : /\ Files(t) \in SUBSET File
                      /\ Files(t)' = Files(t) \cup (IF t = s THEN {f} ELSE {})
  BY <1>1, <1>2, <1>5 DEF Files, Inside, FileSets
<1>7. TypeOK'
  BY <1>1, <1>3 DEF ReplicateInv, TypeOK
<1>8. SnapInv'
  <2>1. [SnapNext]_snapvars
    BY DEF Aside, SnapNext
  <2> QED
    BY <2>1, SnapInvStep DEF ReplicateInv
<1>9. Labels'
  <2>1. \A g \in File : mirror'[g] # Missing => mirror'[g] <= last
    BY <1>3 DEF ReplicateInv, Labels
  <2>2. \A t \in Snap : \A g \in Files(t) : ~(t = s /\ g = f)
    BY <1>4
  <2>3. held'[s][f] < s /\ s <= last /\ mirror'[f] # held'[s][f]
    BY <1>1, <1>3 DEF ReplicateInv, Labels
  <2>4. \A t \in Snap : \A g \in Files(t) : held[t][g] # Missing
    <3>1. \A v \in Version : v # Missing
      BY ReplicateAssumption DEF Version
    <3> QED
      BY <1>2, <1>6, <3>1
  <2>5. \A t \in Snap : \A g \in Files(t) :
          held'[t][g] < t /\ t <= last /\ mirror'[g] # held'[t][g]
    BY <1>3, <1>6, <2>2, <2>4 DEF ReplicateInv, Labels
  <2>6. ASSUME NEW t \in Snap, f \in Files(t) PROVE held'[t][f] # held'[s][f]
    BY <1>3, <2>2, <2>6 DEF ReplicateInv, Labels
  <2>7. \A t, u \in Snap : \A g \in Files(t) \cap Files(u) : held'[t][g] = held'[u][g] => t = u
    BY <1>3, <1>6, <2>2 DEF ReplicateInv, Labels
  <2>8. \A t, u \in Snap : \A g \in Files(t)' \cap Files(u)' : held'[t][g] = held'[u][g] => t = u
    <3>1. SUFFICES ASSUME NEW t \in Snap, NEW u \in Snap, NEW g \in Files(t)' \cap Files(u)',
                          held'[t][g] = held'[u][g], t # u
                   PROVE  FALSE
      OBVIOUS
    <3>2. CASE g \in Files(t) \cap Files(u)
      BY <2>7, <3>1, <3>2
    <3>3. CASE t = s /\ g = f
      BY <1>6, <2>6, <3>1, <3>3
    <3>4. CASE u = s /\ g = f
      BY <1>6, <2>6, <3>1, <3>4
    <3> QED
      BY <1>6, <3>1, <3>2, <3>3, <3>4
  <2>9. \A t \in Snap : \A g \in Files(t)' :
          held'[t][g] < t /\ t <= last /\ mirror'[g] # held'[t][g]
    BY <1>6, <2>3, <2>5
  <2>10. \A t \in Snap : Busy("backup", t)' =>
           t = last /\ \A g \in Inside(dir', t) : mirror'[g] \in {Missing, t}
    <3>1. \A t \in Snap : Busy("backup", t)' = Busy("backup", t)
      BY <1>1 DEF Busy
    <3>2. \A t \in Snap : Inside(dir, t) \in SUBSET File
      BY <1>2 DEF Inside, FileSets
    <3> QED
      BY <1>1, <1>3, <1>5, <3>1, <3>2 DEF ReplicateInv, Labels
  <2>11. \A t \in Snap : Inside(dir, t)' = Inside(dir', t)
    BY DEF Inside
  <2> QED
    BY <1>1, <2>1, <2>8, <2>9, <2>10, <2>11 DEF Labels
<1>10. DueOnce'
  BY <1>1, <1>3, DueIsVersion DEF ReplicateInv, DueOnce
<1>11. CopyOf'
  <2>1. \A t \in Snap : Busy("backup", t)' = Busy("backup", t)
    BY <1>1 DEF Busy
  <2>2. \A t \in Snap : Inside(dirCopy, t)' = Inside(dirCopy, t) /\ Inside(dir, t)' = Inside(dir', t)
    BY DEF Inside
  <2> QED
    BY <1>1, <1>5, <2>1, <2>2 DEF ReplicateInv, CopyOf
<1>12. NothingMissed'
  <2>1. SUFFICES ASSUME Good', NEW fv \in due, Has(fv[1], fv[2])'
                 PROVE  OnItsWay(fv[1], fv[2])'
    BY DEF NothingMissed
  <2>2. Good /\ fv[1] \in File /\ fv[2] # Missing
    BY <1>1, <2>1, DueIsVersion DEF Good, ReplicateInv
  <2>3. InHistory(fv[1], fv[2]) => InHistory(fv[1], fv[2])'
    BY <1>3, <1>4, <1>6 DEF InHistory
  <2>4. Has(fv[1], fv[2])
    <3>1. mirror'[fv[1]] = fv[2] => mirror[fv[1]] = fv[2]
      BY <1>3, <2>2
    <3>2. ASSUME NEW t \in Snap, fv[1] \in Files(t)', held'[t][fv[1]] = fv[2]
          PROVE  Has(fv[1], fv[2])
      BY <1>3, <1>6, <2>2, <3>2 DEF Has
    <3> QED
      BY <2>1, <3>1, <3>2 DEF Has
  <2>5. OnItsWay(fv[1], fv[2])
    BY <2>2, <2>4 DEF ReplicateInv, NothingMissed
  <2>6. SyncDue(fv[1], fv[2]) => SyncDue(fv[1], fv[2])' \/ InHistory(fv[1], fv[2])'
    BY <1>3, <1>6, <2>2 DEF SyncDue, InHistory
  <2>7. ASSUME NEW t \in Snap, held[t][fv[1]] = fv[2], SnapDue(t, fv[1])
        PROVE  held'[t][fv[1]] = fv[2] /\ SnapDue(t, fv[1])'
    <3>1. ~(t = s /\ fv[1] = f)
      BY <1>4, <2>7 DEF SnapDue, TarballDue, TarballCopied, DirDue, InsideDue, InsideCopied
    <3>2. SnapDue(t, fv[1])'
      BY <1>5, <1>6, <2>7
         DEF SnapDue, TarballDue, TarballCopied, DirDue, InsideDue, InsideCopied, Inside
    <3> QED
      BY <1>3, <2>2, <2>7, <3>1, <3>2
  <2>8. At("report") => Replicated(fv[1], fv[2])'
    <3>1. ASSUME NEW t \in Snap, fv[1] \in Inside(dirCopy, t) \cup Inside(tgzCopy, t),
                 held[t][fv[1]] = fv[2]
          PROVE  held'[t][fv[1]] = fv[2]
      BY <1>3, <1>4, <2>2, <3>1
    <3>2. \A t \in Snap : Inside(dirCopy, t)' = Inside(dirCopy, t) /\ Inside(tgzCopy, t)' = Inside(tgzCopy, t)
      BY DEF Inside
    <3>3. At("report") => Replicated(fv[1], fv[2])
      BY <2>5 DEF OnItsWay
    <3> QED
      BY <3>1, <3>2, <3>3 DEF Replicated
  <2> QED
    BY <2>3, <2>5, <2>6, <2>7, <2>8 DEF OnItsWay, At
<1> QED
  BY <1>7, <1>8, <1>9, <1>10, <1>11, <1>12, GuardKept DEF ReplicateInv

LEMMA PlaceStep ==
  ASSUME ReplicateInv, NEW s \in Snap, NEW f \in File, Place(s, f), ScriptStill
  PROVE  ReplicateInv'
<1> USE DEF ScriptStill, mount, replica, leg
<1>1. /\ Busy("backup", s) /\ s = last /\ s \in Nat /\ s \in Version /\ s # Missing
      /\ mirror \in [File -> Version \cup {Missing}] /\ mirror[f] = Missing
      /\ mirror' = [mirror EXCEPT ![f] = s]
      /\ UNCHANGED <<dir, tgz, part, writer, held, last, moved>>
  BY ReplicateAssumption
     DEF Place, ReplicateInv, Labels, TypeOK, Version, snapvars, disk
<1>2. /\ mirror' \in [File -> Version \cup {Missing}] /\ mirror'[f] = s
      /\ \A g \in File : g # f => mirror'[g] = mirror[g]
  BY <1>1
<1>3. TypeOK'
  BY <1>1, <1>2 DEF ReplicateInv, TypeOK
<1>4. SnapInv'
  BY <1>1 DEF ReplicateInv, SnapInv, SnapTypeOK, FileSets, WriterFound, TarballWhole, Busy
<1>5. Labels'
  <2>1. \A t \in Snap : /\ Files(t)' = Files(t) /\ Inside(dir, t)' = Inside(dir, t)
                        /\ Busy("backup", t)' = Busy("backup", t)
                        /\ Files(t) \in SUBSET File /\ Inside(dir, t) \in SUBSET File
    BY <1>1 DEF Files, Inside, Busy, ReplicateInv, SnapInv, SnapTypeOK, FileSets
  <2>2. \A g \in File : mirror'[g] # Missing => mirror'[g] <= last
    BY <1>1, <1>2 DEF ReplicateInv, Labels
  <2>3. \A t \in Snap : \A g \in Files(t) : held[t][g] # s
    <3>1. SUFFICES ASSUME NEW t \in Snap, NEW g \in Files(t) PROVE held[t][g] # s
      OBVIOUS
    <3>2. held[t][g] < t /\ t <= s
      BY <1>1 DEF ReplicateInv, Labels
    <3>3. t \in Nat /\ held[t][g] \in Nat
      <4>1. held[t][g] \in Version
        BY <2>1 DEF ReplicateInv, TypeOK
      <4>2. (\A u \in Snap : u \in Nat) /\ (\A v \in Version : v \in Nat)
        BY ReplicateAssumption DEF Version
      <4> QED
        BY <4>1, <4>2
    <3> QED
      BY <1>1, <3>2, <3>3
  <2>4. \A t \in Snap : \A g \in Files(t) : held[t][g] < t /\ t <= last /\ mirror'[g] # held[t][g]
    BY <1>2, <2>1, <2>3 DEF ReplicateInv, Labels
  <2>5. \A t \in Snap : Busy("backup", t) =>
          t = last /\ \A g \in Inside(dir, t) : mirror'[g] \in {Missing, t}
    BY <1>1, <1>2, <2>1 DEF ReplicateInv, Labels
  <2> QED
    BY <1>1, <2>1, <2>2, <2>4, <2>5 DEF ReplicateInv, Labels
<1>6. \A fv \in due : fv[1] = f => fv[2] # s
  BY <1>1 DEF ReplicateInv, DueOnce
<1>7. DueOnce'
  BY <1>1, <1>2, <1>6, DueIsVersion DEF ReplicateInv, DueOnce
<1>8. CopyOf'
  BY <1>1 DEF ReplicateInv, CopyOf, Inside, Busy
<1>9. NothingMissed'
  <2>1. SUFFICES ASSUME Good', NEW fv \in due, Has(fv[1], fv[2])'
                 PROVE  OnItsWay(fv[1], fv[2])'
    BY DEF NothingMissed
  <2>2. Good /\ fv[1] \in File /\ fv[2] # Missing
    BY <1>1, <2>1, DueIsVersion DEF Good, ReplicateInv
  <2>3. (mirror'[fv[1]] = fv[2]) = (mirror[fv[1]] = fv[2])
    BY <1>1, <1>2, <1>6, <2>2
  <2>4. /\ InHistory(fv[1], fv[2])' = InHistory(fv[1], fv[2])
        /\ Has(fv[1], fv[2])
    BY <1>1, <2>1, <2>3 DEF InHistory, Has, Files
  <2>5. OnItsWay(fv[1], fv[2])
    BY <2>2, <2>4 DEF ReplicateInv, NothingMissed
  <2>6. SyncDue(fv[1], fv[2])' = SyncDue(fv[1], fv[2])
    BY <2>3 DEF SyncDue
  <2>7. \A t \in Snap : SnapDue(t, fv[1]) => SnapDue(t, fv[1])'
    BY <1>1
       DEF SnapDue, TarballDue, TarballCopied, DirDue, InsideDue, InsideCopied, Inside, Files
  <2>8. Replicated(fv[1], fv[2]) => Replicated(fv[1], fv[2])'
    BY <1>1 DEF Replicated, Inside
  <2> QED
    BY <1>1, <2>4, <2>5, <2>6, <2>7, <2>8 DEF OnItsWay, At
<1> QED
  BY <1>3, <1>4, <1>5, <1>7, <1>8, <1>9, GuardKept DEF ReplicateInv

\* Archive and unarchive add no file to a snapshot, and take none from a directory before
\* the removal.
LEMMA RestKeeps ==
  ASSUME SnapInv, Rest, NEW s \in Snap
  PROVE  /\ Files(s)' \subseteq Files(s)
         /\ ~Busy("backup", s)'
         /\ dir'[s] = Missing /\ tgz'[s] = Missing => dir[s] = Missing /\ tgz[s] = Missing
         /\ writer.task # "remove" => Inside(dir, s) \subseteq Inside(dir', s)
<1> USE SnapAssumption DEF SnapInv, SnapTypeOK, FileSets, Files, Inside
<1> DEFINE Kept == /\ Files(s)' \subseteq Files(s)
                   /\ ~Busy("backup", s)'
                   /\ dir'[s] = Missing /\ tgz'[s] = Missing => dir[s] = Missing /\ tgz[s] = Missing
                   /\ writer.task # "remove" => Inside(dir, s) \subseteq Inside(dir', s)
<1>1. CASE Stop
  BY <1>1 DEF Stop, disk, Busy, Nobody
<1>2. ASSUME NEW t \in Snap, Pack(t) PROVE Kept
  BY <1>2 DEF Pack, Busy, BeBusy
<1>3. ASSUME NEW t \in Snap, Commit(t) PROVE Kept
  BY <1>3 DEF Commit, WriterFound, Busy, BeBusy
<1>4. ASSUME NEW t \in Snap, DropPart(t) PROVE Kept
  BY <1>4 DEF DropPart, Busy, Nobody
<1>5. ASSUME NEW t \in Snap, Remove(t) PROVE Kept
  <2>1. /\ dir[t] # Missing /\ tgz[t] # Missing /\ dir[t] \subseteq tgz[t]
        /\ writer.task = "remove" /\ ~Busy("backup", s)' /\ UNCHANGED tgz
    <3>1. writer = [task |-> "remove", snap |-> t] /\ UNCHANGED tgz
      BY <1>5 DEF Remove, Busy
    <3>2. writer' = writer \/ writer' = Nobody
      BY <1>5 DEF Remove
    <3>3. dir[t] # Missing /\ tgz[t] # Missing /\ dir[t] \subseteq tgz[t]
      BY <3>1 DEF WriterFound, TarballWhole, Busy
    <3> QED
      BY <3>1, <3>2, <3>3 DEF Busy, Nobody
  <2>2. ASSUME NEW f \in dir[t], dir' = [dir EXCEPT ![t] = @ \ {f}] PROVE Kept
    BY <2>1, <2>2
  <2>3. CASE dir' = [dir EXCEPT ![t] = Missing]
    BY <2>1, <2>3
  <2> QED
    BY <1>5, <2>2, <2>3 DEF Remove
<1>6. ASSUME NEW t \in Snap, BeginExtract(t) PROVE Kept
  BY <1>6 DEF BeginExtract, Busy, BeBusy
<1>7. ASSUME NEW t \in Snap, Extract(t) PROVE Kept
  <2>1. dir[t] # Missing /\ tgz[t] # Missing /\ ~Busy("backup", s)'
    <3>1. writer = [task |-> "extract", snap |-> t]
      BY <1>7 DEF Extract, Busy
    <3>2. writer' = writer \/ writer' = Nobody
      BY <1>7 DEF Extract
    <3>3. dir[t] # Missing /\ tgz[t] # Missing
      BY <3>1 DEF WriterFound, Busy
    <3> QED
      BY <3>1, <3>2, <3>3 DEF Busy, Nobody
  <2>2. ASSUME NEW f \in tgz[t], dir' = [dir EXCEPT ![t] = @ \cup {f}], UNCHANGED tgz PROVE Kept
    BY <2>1, <2>2
  <2>3. CASE tgz' = [tgz EXCEPT ![t] = Missing] /\ UNCHANGED dir /\ tgz[t] \subseteq dir[t]
    BY <2>1, <2>3
  <2> QED
    BY <1>7, <2>2, <2>3 DEF Extract
<1> QED
  BY <1>1, <1>2, <1>3, <1>4, <1>5, <1>6, <1>7 DEF Rest

LEMMA RestStep == ASSUME ReplicateInv, Rest, mounted, ScriptStill PROVE ReplicateInv'
<1> USE DEF ScriptStill, mount, replica, leg
<1>1. /\ UNCHANGED <<mirror, held, last>> /\ SnapInv
      /\ moved' = (~At("idle") /\ (moved \/ writer.task = "remove"))
  BY DEF Rest, project, ReplicateInv
<1>2. /\ \A s \in Snap : /\ Files(s)' \subseteq Files(s)
                         /\ ~Busy("backup", s)'
                         /\ dir'[s] = Missing /\ tgz'[s] = Missing => dir[s] = Missing /\ tgz[s] = Missing
      /\ writer.task # "remove" => \A s \in Snap : Inside(dir, s) \subseteq Inside(dir', s)
  BY <1>1, RestKeeps
<1>3. TypeOK'
  BY <1>1 DEF ReplicateInv, TypeOK
<1>4. SnapInv'
  <2>1. [SnapNext]_snapvars
    BY DEF Rest, SnapNext
  <2> QED
    BY <1>1, <2>1, SnapInvStep
<1>5. Labels'
  BY <1>1, <1>2 DEF ReplicateInv, Labels
<1>6. DueOnce'
  BY <1>1 DEF ReplicateInv, DueOnce
<1>7. CopyOf'
  BY <1>2 DEF ReplicateInv, CopyOf
<1>8. NothingMissed'
  <2>1. SUFFICES ASSUME Good', NEW fv \in due, Has(fv[1], fv[2])'
                 PROVE  OnItsWay(fv[1], fv[2])'
    BY DEF NothingMissed
  <2>2. CASE At("idle")
    BY <2>2 DEF OnItsWay, At
  <2>3. CASE ~At("idle")
    <3>1. Good /\ writer.task # "remove"
      BY <1>1, <2>1, <2>3 DEF Good, ReplicateInv, TypeOK
    <3>2. Has(fv[1], fv[2])
      BY <1>1, <1>2, <2>1 DEF Has
    <3>3. OnItsWay(fv[1], fv[2])
      BY <3>1, <3>2 DEF ReplicateInv, NothingMissed
    <3>4. ASSUME NEW s \in Snap, fv[1] \in Files(s), held[s][fv[1]] = fv[2]
          PROVE  fv[1] \in Files(s)'
      <4>1. mirror[fv[1]] # fv[2]
        BY <3>4 DEF ReplicateInv, Labels
      <4>2. PICK t \in Snap : fv[1] \in Files(t)' /\ held[t][fv[1]] = fv[2]
        BY <1>1, <2>1, <4>1 DEF Has
      <4>3. fv[1] \in Files(t)
        BY <1>2, <4>2
      <4> QED
        BY <3>4, <4>2, <4>3 DEF ReplicateInv, Labels
    <3>5. InHistory(fv[1], fv[2]) => InHistory(fv[1], fv[2])'
      BY <1>1, <3>4 DEF InHistory
    <3>6. SyncDue(fv[1], fv[2]) => SyncDue(fv[1], fv[2])'
      BY <1>1 DEF SyncDue
    <3>7. ASSUME NEW s \in Snap, held[s][fv[1]] = fv[2], SnapDue(s, fv[1])
          PROVE  SnapDue(s, fv[1])'
      <4>1. Inside(dir, s) \subseteq Inside(dir, s)'
        BY <1>2, <3>1 DEF Inside
      <4>2. TarballDue(s, fv[1]) => TarballDue(s, fv[1])'
        BY <3>4, <3>7 DEF TarballDue
      <4>3. DirDue(s, fv[1]) => DirDue(s, fv[1])'
        BY <4>1 DEF DirDue
      <4>4. InsideDue(s, fv[1]) => InsideDue(s, fv[1])'
        BY <4>1 DEF InsideDue
      <4>5. InsideCopied(s, fv[1]) => InsideCopied(s, fv[1])'
        BY DEF InsideCopied, Inside
      <4>6. TarballCopied(s, fv[1]) => TarballCopied(s, fv[1])'
        BY DEF TarballCopied, Inside
      <4> QED
        BY <3>7, <4>2, <4>3, <4>4, <4>5, <4>6 DEF SnapDue
    <3>8. Replicated(fv[1], fv[2]) => Replicated(fv[1], fv[2])'
      BY <1>1 DEF Replicated, Inside
    <3> QED
      BY <1>1, <3>3, <3>5, <3>6, <3>7, <3>8 DEF OnItsWay, At
  <2> QED
    BY <2>2, <2>3
<1> QED
  BY <1>3, <1>4, <1>5, <1>6, <1>7, <1>8, GuardKept DEF ReplicateInv

LEMMA ScriptsStep == ASSUME ReplicateInv, Scripts PROVE ReplicateInv'
<1>1. ScriptStill /\ mounted
  BY DEF Scripts, ScriptStill
<1>2. CASE Rest
  BY <1>1, <1>2, RestStep
<1>3. ASSUME NEW s \in Snap, Begin(s) PROVE ReplicateInv'
  BY <1>1, <1>3, BeginStep
<1>4. ASSUME NEW s \in Snap, NEW f \in File, Aside(s, f) PROVE ReplicateInv'
  BY <1>1, <1>4, AsideStep
<1>5. ASSUME NEW s \in Snap, NEW f \in File, Place(s, f) PROVE ReplicateInv'
  BY <1>1, <1>5, PlaceStep
<1> QED
  BY <1>2, <1>3, <1>4, <1>5 DEF Scripts

--------------------------------------------------------------------------------

LEMMA InvInit == Init => ReplicateInv
<1> SUFFICES ASSUME Init PROVE ReplicateInv
  OBVIOUS
<1>1. SnapInv
  BY SnapInvInit DEF Init
<1>2. NoTree \in Tree /\ NoTree.dirs = {} /\ NoTree.inside = {}
  BY DEF NoTree, Tree
<1>3. run \in Run /\ run.pc = "idle"
  BY DEF Init, IdleRun, Run, Step
<1>4. TypeOK
  BY <1>2, <1>3 DEF Init, TypeOK, Version, FileSets
<1>5. \A s \in Snap : /\ dir[s] = Missing /\ tgz[s] = Missing /\ ~Busy("backup", s)
                      /\ Files(s) = {} /\ dirCopy[s] = Missing /\ tgzCopy[s] = Missing
  BY DEF Init, SnapInit, Busy, Nobody, Files
<1>6. Labels
  <2>1. last = 0 /\ \A f \in File : mirror[f] \in {0, Missing}
    BY DEF Init
  <2>2. \A f \in File : mirror[f] # Missing => mirror[f] <= last
    BY <2>1
  <2> QED
    BY <1>5, <2>2 DEF Labels
<1>7. CopyOf
  BY <1>5 DEF CopyOf
<1>8. GuardPassed /\ DueOnce /\ Opened /\ NothingMissed
  BY <1>2, <1>3 DEF Init, GuardPassed, DueOnce, Opened, NothingMissed, At
<1> QED
  BY <1>1, <1>4, <1>6, <1>7, <1>8 DEF ReplicateInv

LEMMA InvStep == ReplicateInv /\ [Next]_repvars => ReplicateInv'
<1> SUFFICES ASSUME ReplicateInv, [Next]_repvars PROVE ReplicateInv'
  OBVIOUS
<1>1. CASE StartReplicate
  BY <1>1, StartStep
<1>2. CASE Check
  BY <1>2, CheckStep
<1>3. CASE Leg
  <2>1. CASE At("report")
    <3>1. Report /\ UNCHANGED <<snapvars, project, mount>>
      BY <1>3, <2>1 DEF Leg, ListSync, ListBackUp, Lists, CopyFile, OpenDir, CopyInside,
                        CopyTarball, Delete, CopyFails, LegEnd, At
    <3> QED
      BY <3>1, EndStep DEF Report
  <2> QED
    BY <1>3, <2>1, LegStep
<1>4. CASE Scripts
  BY <1>4, ScriptsStep
<1>5. CASE Unmount
  BY <1>5, UnmountStep
<1>6. CASE Mount
  BY <1>6, MountStep DEF Mount, ReplicateInv, TypeOK
<1>7. CASE Configure
  BY <1>7, MountStep DEF Configure, Here, ReplicateInv, TypeOK
<1>8. CASE Killed
  BY <1>8, EndStep DEF Killed
<1>9. CASE UNCHANGED repvars
  <2>1. UNCHANGED <<snapvars, project, replica, run, leg, observed, mount>>
    BY <1>9 DEF repvars, leg, observed
  <2> QED
    BY <2>1, MountStep DEF mount, ReplicateInv, TypeOK
<1> QED
  BY <1>1, <1>2, <1>3, <1>4, <1>5, <1>6, <1>7, <1>8, <1>9 DEF Next

LEMMA ReplicateInvariant == Spec => []ReplicateInv
BY InvInit, InvStep, PTL DEF Spec

\* A failure is taken over by the run at the end of its leg.
LEMMA FailuresInvariant == Spec => []Failures
<1>1. Init => Failures
  <2>1. IdleRun.failed = FALSE
    BY DEF IdleRun
  <2> QED
    BY <2>1 DEF Init, Failures
<1>2. ReplicateInv /\ Failures /\ [Next]_repvars => Failures'
  <2> SUFFICES ASSUME run \in Run, Failures, [Next]_repvars PROVE Failures'
    BY DEF ReplicateInv, TypeOK
  <2> USE DEF Failures, At, Run
  <2>1. CASE StartReplicate
    BY <2>1 DEF StartReplicate, IdleRun
  <2>2. CASE Check
    <3>1. CASE EndRun
      BY <3>1 DEF EndRun, IdleRun
    <3>2. CASE GoTo(IF At("check SYNC") THEN "check BackUp" ELSE "SYNC")
      <4>1. run'.failed = run.failed /\ ~run.failed
        BY <2>2, <3>2 DEF Check, GoTo
      <4> QED
        BY <4>1
    <3> QED
      BY <2>2, <3>1, <3>2 DEF Check
  <2>3. CASE Leg
    <3>1. CASE ListSync
      BY <3>1 DEF ListSync, Lists, GoTo
    <3>2. CASE ListBackUp
      BY <3>2 DEF ListBackUp, Lists, GoTo
    <3>3. CASE CopyFile \/ OpenDir \/ CopyInside \/ CopyTarball \/ Delete \/ CopyFails
      <4>1. run' = run \/ Fail
        BY <3>3 DEF CopyFile, OpenDir, CopyInside, CopyTarball, Delete, CopyFails
      <4>2. At("copy SYNC") \/ At("copy BackUp")
        BY <3>3 DEF CopyFile, OpenDir, CopyInside, CopyTarball, Delete, CopyFails
      <4> QED
        BY <4>1, <4>2 DEF Fail
    <3>4. CASE LegEnd
      BY <3>4 DEF LegEnd, LegEnds
    <3>5. CASE Report
      BY <3>5 DEF Report, EndRun, IdleRun
    <3> QED
      BY <2>3, <3>1, <3>2, <3>3, <3>4, <3>5 DEF Leg
  <2>4. CASE Scripts \/ Unmount \/ Mount \/ Configure \/ UNCHANGED repvars
    BY <2>4 DEF Scripts, Unmount, Mount, Configure, repvars
  <2>5. CASE Killed
    BY <2>5 DEF Killed, EndRun, IdleRun
  <2> QED
    BY <2>1, <2>2, <2>3, <2>4, <2>5 DEF Next
<1> QED
  BY <1>1, <1>2, ReplicateInvariant, PTL DEF Spec

\* "Replication complete." of backmeup.replicate.sh is true of every version of every file that
\* was there when the run started, whatever backups do meanwhile, as long as the disk stays and
\* no archived directory is removed.
THEOREM CompleteMeansTheorem == Spec => []CompleteMeans
<1>1. ReplicateInv /\ Failures => CompleteMeans
  <2> SUFFICES ASSUME ReplicateInv, Failures, At("report"), ~run.bad, away = "no", ~moved,
                      NEW fv \in due, Has(fv[1], fv[2])
               PROVE  Replicated(fv[1], fv[2])
    BY DEF CompleteMeans
  <2>1. ~run.failed
    BY DEF Failures, At
  <2> QED
    BY <2>1 DEF ReplicateInv, NothingMissed, Good, OnItsWay
<1> QED
  BY <1>1, ReplicateInvariant, FailuresInvariant, PTL

\* A replication loses what the replica has while the disk is away only if it went after the
\* guard, or the guard was told to expect no disk and found a marker.
THEOREM NotWipedTheorem == Spec => NotWiped
<1> DEFINE Allowed == ~mounted /\ Loses => away = "left" \/ (run.exp # "disk" /\ below = "marked")
<1>1. ReplicateInv /\ [Next]_repvars => [Allowed]_repvars
  <2> SUFFICES ASSUME ReplicateInv, Next, ~mounted, Loses
               PROVE  away = "left" \/ (run.exp # "disk" /\ below = "marked")
    OBVIOUS
  <2>1. ~UNCHANGED replica
    BY DEF Loses, Inside, replica
  <2>2. Leg
    BY <2>1 DEF Next, StartReplicate, Check, Scripts, Unmount, Mount, Configure, Killed
  <2>3. ~At("idle") /\ ~At("check SYNC")
    BY <2>1, <2>2 DEF Leg, ListSync, ListBackUp, Lists, CopyFile, OpenDir, CopyInside,
                      CopyTarball, Delete, CopyFails, LegEnd, Report, At
  <2> QED
    BY <2>3 DEF ReplicateInv, GuardPassed, TypeOK
<1> QED
  BY <1>1, ReplicateInvariant, PTL DEF Spec, NotWiped

================================================================================
