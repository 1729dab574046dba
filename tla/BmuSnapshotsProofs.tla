-------------------------- MODULE BmuSnapshotsProofs --------------------------
(***************************************************************************)
(* What a reader of the history may rely on, for every set of files and    *)
(* snapshots and whatever fails or is killed: the facts that the proofs    *)
(* about the readers' modules cite.                                        *)
(***************************************************************************)
EXTENDS BmuSnapshots, FiniteSetTheorems, TLAPS

FileSets == (SUBSET File) \cup {Missing}

SnapTypeOK ==
    /\ dir \in [Snap -> FileSets]
    /\ tgz \in [Snap -> FileSets]
    /\ part \in [Snap -> FileSets]

\* What the writer of snapshot s has found or made before its present task.
WriterFound(s) ==
    /\ Busy("backup", s) => tgz[s] = Missing
    /\ Busy("archive", s) => dir[s] # Missing /\ part[s] # Missing /\ part[s] \subseteq dir[s]
    /\ Busy("remove", s) => dir[s] # Missing /\ tgz[s] # Missing
    /\ Busy("extract", s) => dir[s] # Missing /\ tgz[s] # Missing

\* Where both forms of a snapshot are there, the tarball is the whole one.
TarballWhole(s) == dir[s] # Missing /\ tgz[s] # Missing => dir[s] \subseteq tgz[s]

SnapInv == SnapTypeOK /\ \A s \in Snap : WriterFound(s) /\ TarballWhole(s)

\* Snapshot s exists and no backup will add to it.
Settled(s) == (dir[s] # Missing \/ tgz[s] # Missing) /\ ~Busy("backup", s)

--------------------------------------------------------------------------------

\* A tarball with as many entries as the directory it was made from is the directory.
LEMMA CountedIsWhole ==
  ASSUME NEW D \in SUBSET File, NEW P \in SUBSET D, Cardinality(P) = Cardinality(D)
  PROVE  P = D
<1>1. IsFiniteSet(D)
  BY FS_Subset, SnapAssumption
<1> QED
  BY <1>1, FS_Subset

\* The states of the history stay consistent, step by step.
LEMMA SnapInvStep == SnapInv /\ [SnapNext]_snapvars => SnapInv'
<1> SUFFICES ASSUME SnapInv, [SnapNext]_snapvars PROVE SnapInv'
  OBVIOUS
<1> USE SnapAssumption DEF SnapInv, SnapTypeOK, FileSets
<1>1. ASSUME NEW s \in Snap, BeginBackup(s) PROVE SnapInv'
  BY <1>1 DEF BeginBackup, WriterFound, TarballWhole, Busy, BeBusy, disk, Nobody
<1>2. ASSUME NEW s \in Snap, NEW f \in File, PutAside(s, f) PROVE SnapInv'
  BY <1>2 DEF PutAside, WriterFound, TarballWhole, Busy
<1>3. ASSUME NEW s \in Snap, Pack(s) PROVE SnapInv'
  BY <1>3 DEF Pack, WriterFound, TarballWhole, Busy, BeBusy, Nobody
<1>4. ASSUME NEW s \in Snap, Commit(s) PROVE SnapInv'
  <2>1. part[s] = dir[s] /\ dir[s] # Missing
    <3>1. Busy("archive", s) /\ Cardinality(part[s]) = Cardinality(dir[s])
      BY <1>4 DEF Commit
    <3>2. dir[s] # Missing /\ part[s] # Missing /\ part[s] \subseteq dir[s]
      BY <3>1 DEF WriterFound
    <3>3. dir[s] \in SUBSET File
      BY <3>2
    <3> QED
      BY <3>1, <3>2, <3>3, CountedIsWhole
  <2> QED
    BY <1>4, <2>1 DEF Commit, WriterFound, TarballWhole, Busy, BeBusy
<1>5. ASSUME NEW s \in Snap, DropPart(s) PROVE SnapInv'
  BY <1>5 DEF DropPart, WriterFound, TarballWhole, Busy, Nobody
<1>6. ASSUME NEW s \in Snap, Remove(s) PROVE SnapInv'
  <2>1. dir[s] # Missing /\ tgz[s] # Missing /\ dir[s] \subseteq tgz[s] /\ dir[s] \in SUBSET File
    BY <1>6 DEF Remove, WriterFound, TarballWhole
  <2>2. ASSUME NEW f \in dir[s], dir' = [dir EXCEPT ![s] = @ \ {f}], UNCHANGED writer
        PROVE  SnapInv'
    BY <1>6, <2>1, <2>2 DEF Remove, WriterFound, TarballWhole, Busy
  <2>3. CASE dir' = [dir EXCEPT ![s] = Missing] /\ writer' = Nobody
    BY <1>6, <2>1, <2>3 DEF Remove, WriterFound, TarballWhole, Busy, Nobody
  <2> QED
    BY <1>6, <2>2, <2>3 DEF Remove
<1>7. ASSUME NEW s \in Snap, BeginExtract(s) PROVE SnapInv'
  BY <1>7 DEF BeginExtract, WriterFound, TarballWhole, Busy, BeBusy, Nobody
<1>8. ASSUME NEW s \in Snap, Extract(s) PROVE SnapInv'
  <2>1. dir[s] # Missing /\ tgz[s] # Missing /\ dir[s] \subseteq tgz[s] /\ tgz[s] \in SUBSET File
    BY <1>8 DEF Extract, WriterFound, TarballWhole
  <2>2. ASSUME NEW f \in tgz[s], dir' = [dir EXCEPT ![s] = @ \cup {f}], UNCHANGED <<tgz, writer>>
        PROVE  SnapInv'
    BY <1>8, <2>1, <2>2 DEF Extract, WriterFound, TarballWhole, Busy
  <2>3. CASE tgz' = [tgz EXCEPT ![s] = Missing] /\ writer' = Nobody /\ UNCHANGED dir
    BY <1>8, <2>1, <2>3 DEF Extract, WriterFound, TarballWhole, Busy, Nobody
  <2> QED
    BY <1>8, <2>2, <2>3 DEF Extract
<1>9. CASE Stop
  BY <1>9 DEF Stop, WriterFound, TarballWhole, Busy, disk, Nobody
<1>10. CASE UNCHANGED snapvars
  BY <1>10 DEF snapvars, disk, WriterFound, TarballWhole, Busy
<1> QED
  BY <1>1, <1>2, <1>3, <1>4, <1>5, <1>6, <1>7, <1>8, <1>9, <1>10 DEF SnapNext

LEMMA SnapInvInit == SnapInit => SnapInv
BY SnapAssumption
   DEF SnapInit, SnapInv, SnapTypeOK, FileSets, WriterFound, TarballWhole, Busy, Nobody

\* Once its backup is over a snapshot is there for good, and no file is ever added.
LEMMA SettledStep ==
  ASSUME SnapInv, [SnapNext]_snapvars, NEW s \in Snap, Settled(s)
  PROVE  Settled(s)' /\ Files(s)' \subseteq Files(s)
<1> USE SnapAssumption DEF SnapInv, SnapTypeOK, FileSets, Settled, Files
<1>1. ASSUME NEW t \in Snap, BeginBackup(t) PROVE Settled(s)' /\ Files(s)' \subseteq Files(s)
  BY <1>1 DEF BeginBackup, Busy, BeBusy, disk
<1>2. ASSUME NEW t \in Snap, NEW f \in File, PutAside(t, f)
      PROVE Settled(s)' /\ Files(s)' \subseteq Files(s)
  BY <1>2 DEF PutAside, Busy
<1>3. ASSUME NEW t \in Snap, Pack(t) PROVE Settled(s)' /\ Files(s)' \subseteq Files(s)
  BY <1>3 DEF Pack, Busy, BeBusy
<1>4. ASSUME NEW t \in Snap, Commit(t) PROVE Settled(s)' /\ Files(s)' \subseteq Files(s)
  BY <1>4 DEF Commit, WriterFound, Busy, BeBusy
<1>5. ASSUME NEW t \in Snap, DropPart(t) PROVE Settled(s)' /\ Files(s)' \subseteq Files(s)
  BY <1>5 DEF DropPart, Busy, Nobody
<1>6. ASSUME NEW t \in Snap, Remove(t) PROVE Settled(s)' /\ Files(s)' \subseteq Files(s)
  <2>1. dir[t] # Missing /\ tgz[t] # Missing /\ dir[t] \subseteq tgz[t]
    BY <1>6 DEF Remove, WriterFound, TarballWhole
  <2>4. ~Busy("backup", s)'
    BY <1>6 DEF Remove, Busy, Nobody
  <2>2. ASSUME NEW f \in dir[t], dir' = [dir EXCEPT ![t] = @ \ {f}]
        PROVE  Settled(s)' /\ Files(s)' \subseteq Files(s)
    BY <1>6, <2>1, <2>2, <2>4 DEF Remove
  <2>3. CASE dir' = [dir EXCEPT ![t] = Missing]
    BY <1>6, <2>1, <2>3, <2>4 DEF Remove
  <2> QED
    BY <1>6, <2>2, <2>3 DEF Remove
<1>7. ASSUME NEW t \in Snap, BeginExtract(t) PROVE Settled(s)' /\ Files(s)' \subseteq Files(s)
  BY <1>7 DEF BeginExtract, Busy, BeBusy
<1>8. ASSUME NEW t \in Snap, Extract(t) PROVE Settled(s)' /\ Files(s)' \subseteq Files(s)
  <2>1. dir[t] # Missing /\ tgz[t] # Missing
    BY <1>8 DEF Extract, WriterFound
  <2>4. ~Busy("backup", s)'
    BY <1>8 DEF Extract, Busy, Nobody
  <2>2. ASSUME NEW f \in tgz[t], dir' = [dir EXCEPT ![t] = @ \cup {f}], UNCHANGED tgz
        PROVE  Settled(s)' /\ Files(s)' \subseteq Files(s)
    BY <1>8, <2>1, <2>2, <2>4 DEF Extract
  <2>3. CASE tgz' = [tgz EXCEPT ![t] = Missing] /\ UNCHANGED dir
    BY <1>8, <2>1, <2>3, <2>4 DEF Extract
  <2> QED
    BY <1>8, <2>2, <2>3 DEF Extract
<1>9. CASE Stop
  BY <1>9 DEF Stop, Busy, Nobody, disk
<1>10. CASE UNCHANGED snapvars
  BY <1>10 DEF snapvars, disk, Busy
<1> QED
  BY <1>1, <1>2, <1>3, <1>4, <1>5, <1>6, <1>7, <1>8, <1>9, <1>10 DEF SnapNext

LEMMA SnapInvariant == SnapSpec => []SnapInv
BY SnapInvInit, SnapInvStep, PTL DEF SnapSpec

\* Whatever fails or is killed, where directory and tarball are both left, the
\* tarball has every file (backmeup.archive.sh commits before it removes,
\* backmeup.unarchive.sh removes after it has extracted).
THEOREM TarballTheorem == SnapSpec => [](\A s \in Snap : TarballWhole(s))
<1>1. SnapInv => \A s \in Snap : TarballWhole(s)
  BY DEF SnapInv
<1> QED
  BY <1>1, SnapInvariant, PTL

\* A new tarball comes in the place of one that was there already.
Overwrites(s) ==
    /\ Busy("archive", s)
    /\ dir[s] # Missing /\ tgz[s] # Missing
    /\ tgz'[s] = dir[s]

LEMMA OnlyOverwriteLoses ==
  ASSUME SnapInv, [SnapNext]_snapvars, NEW s \in Snap, Settled(s), Files(s)' # Files(s)
  PROVE  Overwrites(s)
<1> USE SnapAssumption DEF SnapInv, SnapTypeOK, FileSets, Settled, Files
<1>1. ASSUME NEW t \in Snap, Pack(t) \/ DropPart(t) PROVE FALSE
  BY <1>1 DEF Pack, DropPart
<1>2. ASSUME NEW t \in Snap, BeginBackup(t) PROVE FALSE
  BY <1>2 DEF BeginBackup, disk
<1>3. ASSUME NEW t \in Snap, NEW f \in File, PutAside(t, f) PROVE FALSE
  BY <1>3 DEF PutAside
<1>4. ASSUME NEW t \in Snap, Commit(t) PROVE Overwrites(s)
  <2>1. Busy("archive", t) /\ dir[t] # Missing /\ part[t] # Missing /\ part[t] = dir[t]
    <3>1. Busy("archive", t) /\ Cardinality(part[t]) = Cardinality(dir[t])
      BY <1>4 DEF Commit
    <3>2. dir[t] # Missing /\ part[t] # Missing /\ part[t] \subseteq dir[t]
      BY <3>1 DEF WriterFound
    <3> QED
      BY <3>1, <3>2, CountedIsWhole
  <2>2. tgz' = [tgz EXCEPT ![t] = dir[t]] /\ dir' = dir
    BY <1>4, <2>1 DEF Commit
  <2>3. s = t /\ tgz[s] # Missing
    BY <2>1, <2>2
  <2> QED
    BY <2>1, <2>2, <2>3 DEF Overwrites
<1>5. ASSUME NEW t \in Snap, Remove(t) PROVE FALSE
  <2>1. dir[t] # Missing /\ tgz[t] # Missing /\ dir[t] \subseteq tgz[t]
    BY <1>5 DEF Remove, WriterFound, TarballWhole
  <2>2. ASSUME NEW f \in dir[t], dir' = [dir EXCEPT ![t] = @ \ {f}] PROVE FALSE
    BY <1>5, <2>1, <2>2 DEF Remove
  <2>3. CASE dir' = [dir EXCEPT ![t] = Missing]
    BY <1>5, <2>1, <2>3 DEF Remove
  <2> QED
    BY <1>5, <2>2, <2>3 DEF Remove
<1>6. ASSUME NEW t \in Snap, BeginExtract(t) PROVE FALSE
  BY <1>6 DEF BeginExtract
<1>7. ASSUME NEW t \in Snap, Extract(t) PROVE FALSE
  <2>1. dir[t] # Missing /\ tgz[t] # Missing /\ dir[t] \subseteq tgz[t]
    BY <1>7 DEF Extract, WriterFound, TarballWhole
  <2>2. ASSUME NEW f \in tgz[t], dir' = [dir EXCEPT ![t] = @ \cup {f}], UNCHANGED tgz PROVE FALSE
    BY <1>7, <2>1, <2>2 DEF Extract
  <2>3. CASE tgz[t] \subseteq dir[t] /\ tgz' = [tgz EXCEPT ![t] = Missing] /\ UNCHANGED dir
    BY <1>7, <2>1, <2>3 DEF Extract
  <2> QED
    BY <1>7, <2>2, <2>3 DEF Extract
<1>8. CASE Stop \/ UNCHANGED snapvars
  BY <1>8 DEF Stop, snapvars, disk
<1> QED
  BY <1>1, <1>2, <1>3, <1>4, <1>5, <1>6, <1>7, <1>8 DEF SnapNext

\* A snapshot whose backup is over stays and never gains a file; and it can lose one in a single
\* way, when an archive run packs what an interrupted rm -rf has left of the directory and
\* renames that over the tarball that was whole (backmeup.archive.sh does not look for one).
THEOREM OnlyOverwriteLosesTheorem ==
  SnapSpec =>
    [][\A s \in Snap : Settled(s) =>
         /\ Settled(s)' /\ Files(s)' \subseteq Files(s)
         /\ Files(s)' # Files(s) => Overwrites(s)]_snapvars
<1>1. SnapInv /\ [SnapNext]_snapvars =>
        \A s \in Snap : Settled(s) =>
          /\ Settled(s)' /\ Files(s)' \subseteq Files(s)
          /\ Files(s)' # Files(s) => Overwrites(s)
  BY SettledStep, OnlyOverwriteLoses
<1> QED
  BY <1>1, SnapInvariant, PTL DEF SnapSpec

================================================================================
