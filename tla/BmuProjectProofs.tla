--------------------------- MODULE BmuProjectProofs ---------------------------
(***************************************************************************)
(* What holds of one project for every set of files and any number of      *)
(* overlapping scripts, edits and backups, whatever fails or is killed.    *)
(* Where a theorem needs that something does not happen, it says so in its *)
(* hypothesis, and the comment what the code does then.                    *)
(***************************************************************************)
EXTENDS BmuProject, FiniteSetTheorems, TLAPS

AboutStamp == {"acq_backup", "acq_unarchive", "rsync", "install", "flist", "flist2", "alist",
               "alist2", "tar", "verify", "rm", "extract"}
Archiving == {"alist", "alist2", "tar", "verify", "rm"}

\* What a script has found or made before the step it is at, and relies on.
Found(r) ==
    LET s == run[r].stamp IN
    /\ run[r].pc \in AboutStamp => s \in Stamp
    /\ run[r].pc \in Archiving \cup {"extract"} => dir[s] # Missing
    /\ run[r].pc = "verify" => part[s] # Missing
    /\ run[r].pc = "extract" => tgz[s] # Missing
    /\ run[r].pc \in Archiving => s \notin run[r].queue
    /\ run[r].pc \in Archiving \cup {"each"} => \A q \in run[r].queue : dir[q] # Missing

ProjectInv == TypeOK /\ \A r \in Slot : Found(r)

RunType == [pc : Step, stamp : 0..MaxStamp, todo : SUBSET File,
            queue : SUBSET Stamp, failed : BOOLEAN, dry : BOOLEAN,
            new : SUBSET (File \X (1..MaxVersion))]

--------------------------------------------------------------------------------

LEMMA EmptyTree == Empty \in Tree /\ NotRunning \in RunType
BY ProjectAssumption DEF Empty, Tree, NotRunning, RunType, Step, LockedStep, Stamp

\* Taking a version out of a tree, or putting one in, leaves a tree.
LEMMA TreeExcept ==
  ASSUME NEW t \in Tree, NEW f \in File, NEW v \in 0..MaxVersion
  PROVE  [t EXCEPT ![f] = v] \in Tree
BY DEF Tree

FilesOK ==
    /\ mirror \in Tree
    /\ dir \in [Stamp -> Tree \cup {Missing}]
    /\ tgz \in [Stamp -> Tree \cup {Missing}]
    /\ part \in [Stamp -> Tree \cup {Missing}]
    /\ list \in [Stamp -> (SUBSET File) \cup {Missing}]
    /\ livelist \in (SUBSET File) \cup {Missing}
    /\ lastrun \in 0..(MaxStamp + 1)

EnvOK ==
    /\ source \in Tree /\ clock \in 1..(MaxStamp + 1)
    /\ version \in 0..MaxVersion /\ crashes \in 0..MaxCrash

Discipline(r) == run[r].pc \in LockedStep <=> lock = r

LEMMA TypeParts ==
  TypeOK <=> /\ FilesOK /\ EnvOK
             /\ lock \in Slot \cup {None} /\ run \in [Slot -> RunType]
             /\ \A r \in Slot : Discipline(r)
BY DEF TypeOK, FilesOK, EnvOK, Discipline, RunType

\* A step of run r: the other runs rely on nothing that only a lock holder may change.
LEMMA StepOf ==
  ASSUME ProjectInv, NEW r \in Slot,
         FilesOK', EnvOK', run' \in [Slot -> RunType], lock' \in Slot \cup {None},
         \A q \in Slot \ {r} : run'[q] = run[q],
         {lock, lock'} \subseteq {r, None} \/ UNCHANGED <<dir, tgz, part, lock>>,
         Discipline(r)', Found(r)'
  PROVE  ProjectInv'
<1>0. None \notin Slot
  BY ProjectAssumption
<1>1. ASSUME NEW q \in Slot \ {r} PROVE Discipline(q)' /\ Found(q)'
  <2>1. run'[q] = run[q] /\ Discipline(q) /\ Found(q)
    BY TypeParts DEF ProjectInv
  <2>2. CASE {lock, lock'} \subseteq {r, None}
    <3>1. run[q].pc \notin LockedStep
      BY <1>0, <2>1, <2>2 DEF Discipline
    <3> QED
      BY <1>0, <2>1, <2>2, <3>1 DEF Discipline, Found, AboutStamp, Archiving, LockedStep
  <2>3. CASE UNCHANGED <<dir, tgz, part, lock>>
    BY <2>1, <2>3 DEF Discipline, Found
  <2> QED
    BY <2>2, <2>3
<1>2. TypeOK'
  BY <1>1 DEF TypeOK, FilesOK, EnvOK, Discipline, RunType
<1> QED
  BY <1>1, <1>2 DEF ProjectInv

\* The lock holder: its steps before the last one keep the lock.
LEMMA HolderStep ==
  ASSUME ProjectInv, NEW r \in Slot, run[r].pc \in LockedStep, UNCHANGED lock,
         FilesOK', EnvOK', run' \in [Slot -> RunType],
         \A q \in Slot \ {r} : run'[q] = run[q],
         run'[r].pc \in LockedStep, Found(r)'
  PROVE  ProjectInv'
<1>1. lock = r /\ lock' = r
  BY TypeParts DEF ProjectInv, Discipline
<1> QED
  BY <1>1, StepOf DEF Discipline

LEMMA BackupStep == ASSUME ProjectInv, NEW r \in Slot, Backup(r) PROVE ProjectInv'
<1>1. /\ FilesOK /\ EnvOK /\ lock \in Slot \cup {None} /\ run \in [Slot -> RunType]
      /\ Discipline(r) /\ Found(r)
  BY TypeParts DEF ProjectInv
<1>2. /\ run[r] \in RunType /\ run[r].stamp \in 0..MaxStamp /\ run[r].todo \in SUBSET File
  BY <1>1 DEF RunType
<1>3. CASE StartBackup(r)
  <2>1. run'[r] = [NotRunning EXCEPT !.pc = "acq_backup", !.stamp = clock] /\ clock \in Stamp
    BY <1>1, <1>3 DEF StartBackup
  <2>2. run'[r] \in RunType /\ run'[r].pc = "acq_backup" /\ run'[r].stamp = clock
    <3>1. clock \in 0..MaxStamp /\ "acq_backup" \in Step
      BY <2>1, ProjectAssumption DEF Stamp, Step
    <3> QED
      BY <2>1, <3>1, EmptyTree DEF RunType
  <2>3. run' \in [Slot -> RunType] /\ \A q \in Slot \ {r} : run'[q] = run[q]
    BY <1>1, <1>3, <2>2 DEF StartBackup
  <2>4. FilesOK' /\ EnvOK' /\ UNCHANGED <<dir, tgz, part, lock>>
    BY <1>1, <1>3, ProjectAssumption DEF StartBackup, files, FilesOK, EnvOK, Stamp
  <2>5. Found(r)'
    BY <2>1, <2>2 DEF Found, AboutStamp, Archiving
  <2>6. Discipline(r)'
    BY <1>1, <1>3, <2>2 DEF StartBackup, At, Discipline, LockedStep
  <2> QED
    BY <1>1, <2>2, <2>3, <2>4, <2>5, <2>6, StepOf
<1>4. CASE AcquireBackup(r)
  <2>1. FilesOK' /\ EnvOK' /\ UNCHANGED <<dir, tgz, part>>
    BY <1>1, <1>4 DEF AcquireBackup, files, env, FilesOK, EnvOK
  <2>2. CASE lock = None /\ lock' = r /\ run' = [run EXCEPT ![r].pc = "rsync", ![r].todo = File]
    <3>1. run'[r] \in RunType /\ run'[r].pc = "rsync" /\ run'[r].stamp = run[r].stamp
      BY <1>1, <1>2, <2>2 DEF RunType, Step, LockedStep
    <3>2. run' \in [Slot -> RunType] /\ \A q \in Slot \ {r} : run'[q] = run[q]
      BY <1>1, <2>2, <3>1
    <3>3. Found(r)' /\ Discipline(r)'
      BY <1>1, <1>4, <2>2, <3>1 DEF AcquireBackup, At, Found, AboutStamp, Archiving, Discipline, LockedStep
    <3> QED
      BY <1>1, <2>1, <2>2, <3>2, <3>3, StepOf
  <2>3. CASE lock # None /\ run' = [run EXCEPT ![r] = NotRunning] /\ UNCHANGED lock
    <3>1. run'[r] = NotRunning /\ run'[r].pc = "idle"
      BY <1>1, <2>3 DEF NotRunning
    <3>2. run' \in [Slot -> RunType] /\ \A q \in Slot \ {r} : run'[q] = run[q]
      BY <1>1, <2>3, EmptyTree
    <3>3. Found(r)' /\ Discipline(r)'
      BY <1>1, <1>4, <2>3, <3>1 DEF AcquireBackup, At, Found, AboutStamp, Archiving, Discipline, LockedStep
    <3> QED
      BY <1>1, <2>1, <2>3, <3>2, <3>3, StepOf
  <2> QED
    BY <1>4, <2>2, <2>3 DEF AcquireBackup
<1>5. CASE \E f \in File : RsyncSame(r, f) \/ RsyncSkip(r, f)
  <2>1. PICK f \in File : RsyncSame(r, f) \/ RsyncSkip(r, f)
    BY <1>5
  <2>2. run[r].pc = "rsync" /\ UNCHANGED <<files, lock, env>>
    BY <2>1 DEF RsyncSame, RsyncSkip, At
  <2>3. FilesOK' /\ EnvOK'
    BY <1>1, <2>2 DEF files, env, FilesOK, EnvOK
  <2>4. run'[r] \in RunType /\ run'[r].pc = "rsync" /\ run'[r].stamp = run[r].stamp
    BY <1>1, <1>2, <2>1, <2>2 DEF RsyncSame, RsyncSkip, RunType
  <2>5. run' \in [Slot -> RunType] /\ \A q \in Slot \ {r} : run'[q] = run[q]
    BY <1>1, <2>1, <2>4 DEF RsyncSame, RsyncSkip
  <2>6. Found(r)'
    BY <1>1, <2>2, <2>4 DEF Found, AboutStamp, Archiving
  <2> QED
    BY <2>2, <2>3, <2>4, <2>5, <2>6, HolderStep DEF LockedStep
<1>6. CASE \E f \in File : RsyncNew(r, f)
  <2>1. PICK f \in File : RsyncNew(r, f)
    BY <1>6
  <2>2. run[r].pc = "rsync" /\ UNCHANGED lock
    BY <2>1 DEF RsyncNew, At
  <2>3. source[f] \in 0..MaxVersion
    BY <1>1 DEF EnvOK, Tree
  <2>4. FilesOK' /\ EnvOK'
    BY <1>1, <2>1, <2>3, TreeExcept DEF RsyncNew, env, FilesOK, EnvOK
  <2>5. run'[r] \in RunType /\ run'[r].pc = "rsync" /\ run'[r].stamp = run[r].stamp
    BY <1>1, <1>2, <2>1, <2>2 DEF RsyncNew, RunType
  <2>6. run' \in [Slot -> RunType] /\ \A q \in Slot \ {r} : run'[q] = run[q]
    BY <1>1, <2>1, <2>5 DEF RsyncNew
  <2>7. Found(r)'
    BY <1>1, <2>2, <2>5 DEF Found, AboutStamp, Archiving
  <2> QED
    BY <2>2, <2>4, <2>5, <2>6, <2>7, HolderStep DEF LockedStep
<1>7. CASE \E f \in File : RsyncDelete(r, f) \/ RsyncReplace(r, f)
  <2>1. PICK f \in File : RsyncDelete(r, f) \/ RsyncReplace(r, f)
    BY <1>7
  <2>2. run[r].pc = "rsync" /\ UNCHANGED lock /\ PutAside(r, f)
    BY <2>1 DEF RsyncDelete, RsyncReplace, At
  <2>3. PutAside(r, f) => mirror' \in Tree /\ dir' \in [Stamp -> Tree \cup {Missing}]
    <3>1. run[r].stamp \in Stamp
      BY <1>1, <2>2 DEF Found, AboutStamp
    <3>2. (IF dir[run[r].stamp] = Missing THEN Empty ELSE dir[run[r].stamp]) \in Tree
      BY <1>1, <3>1, EmptyTree DEF FilesOK
    <3>3. mirror[f] \in 0..MaxVersion /\ 0 \in 0..MaxVersion
      BY <1>1, ProjectAssumption DEF FilesOK, Tree
    <3> QED
      BY <1>1, <2>2, <3>1, <3>2, <3>3, TreeExcept DEF PutAside, FilesOK
  <2>4. FilesOK' /\ EnvOK'
    BY <1>1, <2>1, <2>2, <2>3 DEF RsyncDelete, RsyncReplace, env, FilesOK, EnvOK
  <2>5. run'[r] \in RunType /\ run'[r].pc \in {"rsync", "install"} /\ run'[r].stamp = run[r].stamp
    <3>1. CASE RsyncDelete(r, f)
      BY <1>1, <1>2, <2>2, <3>1 DEF RsyncDelete, RunType
    <3>2. CASE RsyncReplace(r, f)
      <4>1. {<<f, source[f]>>} \in SUBSET (File \X (1..MaxVersion))
        BY <1>1, <3>2, ProjectAssumption DEF RsyncReplace, EnvOK, Tree
      <4>2. "install" \in Step
        BY DEF Step, LockedStep
      <4> QED
        BY <1>1, <1>2, <3>2, <4>1, <4>2 DEF RsyncReplace, RunType
    <3> QED
      BY <2>1, <3>1, <3>2
  <2>6. run' \in [Slot -> RunType] /\ \A q \in Slot \ {r} : run'[q] = run[q]
    BY <1>1, <2>1, <2>5 DEF RsyncDelete, RsyncReplace
  <2>7. Found(r)'
    BY <1>1, <2>2, <2>5 DEF Found, AboutStamp, Archiving
  <2> QED
    BY <2>2, <2>4, <2>5, <2>6, <2>7, HolderStep DEF LockedStep
<1>8. CASE RsyncInstall(r)
  <2>1. run[r].pc = "install" /\ UNCHANGED lock
    BY <1>8 DEF RsyncInstall, At
  <2>2. PICK p \in run[r].new :
          LET done == [run[r] EXCEPT !.pc = "rsync", !.todo = @ \ {p[1]}, !.new = {}]
          IN  \/ /\ mirror' = [mirror EXCEPT ![p[1]] = p[2]]
                 /\ run' = [run EXCEPT ![r] = done]
              \/ /\ run' = [run EXCEPT ![r] = [done EXCEPT !.failed = TRUE]]
                 /\ UNCHANGED mirror
    BY <1>8 DEF RsyncInstall
  <2>3. p \in File \X (1..MaxVersion)
    BY <1>2, <2>2 DEF RunType
  <2>4. p[1] \in File /\ p[2] \in 0..MaxVersion
    BY <2>3, ProjectAssumption
  <2>5. mirror' \in Tree
    BY <1>1, <2>2, <2>4, TreeExcept DEF FilesOK
  <2>6. FilesOK' /\ EnvOK'
    BY <1>1, <1>8, <2>5 DEF RsyncInstall, env, FilesOK, EnvOK
  <2>7. run'[r] \in RunType /\ run'[r].pc = "rsync" /\ run'[r].stamp = run[r].stamp
    <3> DEFINE done == [run[r] EXCEPT !.pc = "rsync", !.todo = @ \ {p[1]}, !.new = {}]
    <3>1. done \in RunType /\ done.pc = "rsync" /\ done.stamp = run[r].stamp
      BY <1>2 DEF RunType, Step, LockedStep
    <3>2. run'[r] = done \/ run'[r] = [done EXCEPT !.failed = TRUE]
      BY <1>1, <2>2
    <3> HIDE DEF done
    <3> QED
      BY <3>1, <3>2 DEF RunType
  <2>8. run' \in [Slot -> RunType] /\ \A q \in Slot \ {r} : run'[q] = run[q]
    BY <1>1, <2>2, <2>7
  <2>9. Found(r)'
    BY <1>1, <2>1, <2>7 DEF Found, AboutStamp, Archiving
  <2> QED
    BY <2>1, <2>6, <2>7, <2>8, <2>9, HolderStep DEF LockedStep
<1>9. CASE RsyncEnd(r) \/ BeginLive(r) \/ EndLive(r)
  <2>1. /\ run[r].pc \in {"rsync", "live", "live2"}
        /\ UNCHANGED <<lock, mirror, dir, tgz, part, list, env>>
    BY <1>9 DEF RsyncEnd, BeginLive, EndLive, At
  <2>2. FilesOK' /\ EnvOK'
    <3>1. livelist' \in (SUBSET File) \cup {Missing}
      BY <1>1, <1>9 DEF RsyncEnd, BeginLive, EndLive, Names, FilesOK
    <3>2. lastrun' \in 0..(MaxStamp + 1)
      BY <1>1, <1>9, ProjectAssumption DEF RsyncEnd, BeginLive, EndLive, FilesOK, EnvOK
    <3> QED
      BY <1>1, <2>1, <3>1, <3>2 DEF env, FilesOK, EnvOK
  <2>3. PICK step \in {"flist", "live2", "exit"} : GoTo(r, step) /\ (step = "flist" => run[r].pc = "rsync")
    BY <1>9 DEF RsyncEnd, BeginLive, EndLive, At
  <2>4. run'[r] \in RunType /\ run'[r].pc = step /\ run'[r].stamp = run[r].stamp
    BY <1>1, <1>2, <2>3 DEF GoTo, RunType, Step, LockedStep
  <2>5. run' \in [Slot -> RunType] /\ \A q \in Slot \ {r} : run'[q] = run[q]
    BY <1>1, <2>3, <2>4 DEF GoTo
  <2>6. Found(r)'
    BY <1>1, <2>1, <2>3, <2>4 DEF Found, AboutStamp, Archiving
  <2> QED
    BY <2>1, <2>2, <2>3, <2>4, <2>5, <2>6, HolderStep DEF LockedStep
<1>10. CASE BeginFilelist(r) \/ EndFilelist(r)
  <2>1. /\ run[r].pc \in {"flist", "flist2"}
        /\ UNCHANGED <<lock, mirror, dir, tgz, part, livelist, lastrun, env>>
    BY <1>10 DEF BeginFilelist, EndFilelist, At
  <2>2. FilesOK' /\ EnvOK'
    <3>1. list' \in [Stamp -> (SUBSET File) \cup {Missing}]
      BY <1>1, <1>10 DEF BeginFilelist, EndFilelist, Names, FilesOK
    <3> QED
      BY <1>1, <2>1, <3>1 DEF env, FilesOK, EnvOK
  <2>3. PICK step \in {"flist2", "live"} : GoTo(r, step)
    BY <1>10 DEF BeginFilelist, EndFilelist
  <2>4. run'[r] \in RunType /\ run'[r].pc = step /\ run'[r].stamp = run[r].stamp
    BY <1>1, <1>2, <2>3 DEF GoTo, RunType, Step, LockedStep
  <2>5. run' \in [Slot -> RunType] /\ \A q \in Slot \ {r} : run'[q] = run[q]
    BY <1>1, <2>3, <2>4 DEF GoTo
  <2>6. Found(r)'
    BY <1>1, <2>1, <2>3, <2>4 DEF Found, AboutStamp, Archiving
  <2> QED
    BY <2>1, <2>2, <2>3, <2>4, <2>5, <2>6, HolderStep DEF LockedStep
<1> QED
  BY <1>3, <1>4, <1>5, <1>6, <1>7, <1>8, <1>9, <1>10 DEF Backup, Rsync

LEMMA ArchiveStep == ASSUME ProjectInv, NEW r \in Slot, Archive(r) PROVE ProjectInv'
<1>1. /\ FilesOK /\ EnvOK /\ lock \in Slot \cup {None} /\ run \in [Slot -> RunType]
      /\ Discipline(r) /\ Found(r)
  BY TypeParts DEF ProjectInv
<1>2. /\ run[r] \in RunType /\ run[r].stamp \in 0..MaxStamp /\ run[r].todo \in SUBSET File
      /\ run[r].queue \in SUBSET Stamp
  BY <1>1 DEF RunType
<1> DEFINE s == run[r].stamp
<1>3. CASE StartArchive(r)
  <2>1. PICK cutoff \in 1..clock, d \in BOOLEAN :
          run' = [run EXCEPT ![r] = [NotRunning EXCEPT
                     !.pc = "each", !.dry = d,
                     !.queue = {q \in Stamp : q < cutoff /\ dir[q] # Missing}]]
    BY <1>3 DEF StartArchive
  <2>2. /\ run'[r] \in RunType /\ run'[r].pc = "each"
        /\ run'[r].queue = {q \in Stamp : q < cutoff /\ dir[q] # Missing}
    <3>1. "each" \in Step
      BY DEF Step, LockedStep
    <3> QED
      BY <1>1, <2>1, <3>1, EmptyTree DEF RunType
  <2>3. run' \in [Slot -> RunType] /\ \A q \in Slot \ {r} : run'[q] = run[q]
    BY <1>1, <2>1, <2>2
  <2>4. FilesOK' /\ EnvOK' /\ UNCHANGED <<dir, tgz, part>> /\ lock = None /\ lock' = r
    BY <1>1, <1>3 DEF StartArchive, files, env, FilesOK, EnvOK
  <2>5. Found(r)' /\ Discipline(r)'
    BY <2>2, <2>4 DEF Found, AboutStamp, Archiving, Discipline, LockedStep
  <2> QED
    BY <1>1, <2>3, <2>4, <2>5, StepOf
<1>4. CASE PickSnapshot(r)
  <2>1. run[r].pc = "each" /\ UNCHANGED <<files, lock, env>>
    BY <1>4 DEF PickSnapshot, At
  <2>2. FilesOK' /\ EnvOK' /\ UNCHANGED <<dir, tgz, part>>
    BY <1>1, <2>1 DEF files, env, FilesOK, EnvOK
  <2>3. CASE GoTo(r, "exit")
    <3>1. run'[r] \in RunType /\ run'[r].pc = "exit"
      BY <1>1, <1>2, <2>3 DEF GoTo, RunType, Step, LockedStep
    <3>2. run' \in [Slot -> RunType] /\ \A q \in Slot \ {r} : run'[q] = run[q]
      BY <1>1, <2>3, <3>1 DEF GoTo
    <3>3. Found(r)'
      BY <3>1 DEF Found, AboutStamp, Archiving
    <3> QED
      BY <2>1, <2>2, <3>1, <3>2, <3>3, HolderStep DEF LockedStep
  <2>4. CASE \E q \in run[r].queue, step \in {"alist", "each", "tar"} :
               run' = [run EXCEPT ![r].stamp = q, ![r].queue = @ \ {q}, ![r].pc = step]
    <3>1. PICK q \in run[r].queue, step \in {"alist", "each", "tar"} :
               run' = [run EXCEPT ![r].stamp = q, ![r].queue = @ \ {q}, ![r].pc = step]
      BY <2>4
    <3>2. q \in Stamp /\ q \in 0..MaxStamp /\ step \in Step
      BY <1>2, ProjectAssumption DEF Stamp, Step, LockedStep
    <3>3. /\ run'[r] \in RunType /\ run'[r].pc = step /\ run'[r].stamp = q
          /\ run'[r].queue = run[r].queue \ {q}
      BY <1>1, <1>2, <3>1, <3>2 DEF RunType
    <3>4. run' \in [Slot -> RunType] /\ \A p \in Slot \ {r} : run'[p] = run[p]
      BY <1>1, <3>1, <3>3
    <3>5. \A p \in run[r].queue : dir[p] # Missing
      BY <1>1, <2>1 DEF Found
    <3>6. Found(r)'
      BY <2>2, <3>2, <3>3, <3>5 DEF Found, AboutStamp, Archiving
    <3> QED
      BY <2>1, <2>2, <3>3, <3>4, <3>6, HolderStep DEF LockedStep
  <2> QED
    BY <1>4, <2>3, <2>4 DEF PickSnapshot, AfterList
<1>5. CASE BeginArchiveList(r) \/ EndArchiveList(r) \/ Tar(r)
  <2>1. /\ run[r].pc \in {"alist", "alist2", "tar"} /\ s \in Stamp /\ dir[s] # Missing
        /\ UNCHANGED <<lock, mirror, dir, tgz, livelist, lastrun, env>>
    BY <1>1, <1>5 DEF BeginArchiveList, EndArchiveList, Tar, At, Found, AboutStamp, Archiving
  <2>2. list' \in [Stamp -> (SUBSET File) \cup {Missing}]
    BY <1>1, <1>5 DEF BeginArchiveList, EndArchiveList, Tar, Names, FilesOK
  <2>3. part' \in [Stamp -> Tree \cup {Missing}] /\ (Tar(r) => part'[s] # Missing)
    <3>1. CASE BeginArchiveList(r) \/ EndArchiveList(r)
      BY <1>1, <1>5, <3>1 DEF BeginArchiveList, EndArchiveList, Tar, FilesOK, At
    <3>2. CASE Tar(r)
      <4>1. PICK t \in TarOf(dir[s]) : part' = [part EXCEPT ![s] = t]
        BY <3>2 DEF Tar
      <4>2. dir[s] \in Tree
        BY <1>1, <2>1 DEF FilesOK
      <4>3. t \in Tree
        BY <4>1, <4>2, ProjectAssumption DEF TarOf, Tree
      <4> QED
        BY <1>1, <2>1, <4>1, <4>3, ProjectAssumption DEF FilesOK, Tree
    <3> QED
      BY <1>5, <3>1, <3>2
  <2>4. FilesOK' /\ EnvOK'
    BY <1>1, <2>1, <2>2, <2>3 DEF env, FilesOK, EnvOK
  <2>5. PICK step \in {"alist2", "each", "tar", "verify"} :
          GoTo(r, step) /\ (step = "verify" => Tar(r))
    BY <1>5 DEF BeginArchiveList, EndArchiveList, Tar, AfterList
  <2>6. /\ run'[r] \in RunType /\ run'[r].pc = step /\ run'[r].stamp = s
        /\ run'[r].queue = run[r].queue
    BY <1>1, <1>2, <2>5 DEF GoTo, RunType, Step, LockedStep
  <2>7. run' \in [Slot -> RunType] /\ \A q \in Slot \ {r} : run'[q] = run[q]
    BY <1>1, <2>5, <2>6 DEF GoTo
  <2>8. Found(r)'
    BY <1>1, <2>1, <2>3, <2>5, <2>6 DEF Found, AboutStamp, Archiving
  <2> QED
    BY <2>1, <2>4, <2>5, <2>6, <2>7, <2>8, HolderStep DEF LockedStep
<1>6. CASE Commit(r)
  <2>1. /\ run[r].pc = "verify" /\ s \in Stamp /\ dir[s] # Missing /\ part[s] # Missing
        /\ UNCHANGED <<mirror, dir, list, livelist, lastrun, lock, env>>
    BY <1>1, <1>6 DEF Commit, At, Found, AboutStamp, Archiving
  <2>2. tgz' \in [Stamp -> Tree \cup {Missing}] /\ part' \in [Stamp -> Tree \cup {Missing}]
    BY <1>1, <1>6, <2>1 DEF Commit, FilesOK
  <2>3. FilesOK' /\ EnvOK'
    BY <1>1, <2>1, <2>2 DEF env, FilesOK, EnvOK
  <2>4. PICK step \in {"rm", "each", "exit"}, todo \in SUBSET File :
          run' = [run EXCEPT ![r].pc = step, ![r].todo = todo] \/ GoTo(r, step)
    <3>1. Names(dir[s]) \in SUBSET File
      BY DEF Names
    <3> QED
      BY <1>6, <3>1 DEF Commit
  <2>5. /\ run'[r] \in RunType /\ run'[r].pc = step /\ run'[r].stamp = s
        /\ run'[r].queue = run[r].queue
    BY <1>1, <1>2, <2>4 DEF GoTo, RunType, Step, LockedStep
  <2>6. run' \in [Slot -> RunType] /\ \A q \in Slot \ {r} : run'[q] = run[q]
    BY <1>1, <2>4, <2>5 DEF GoTo
  <2>7. Found(r)'
    BY <1>1, <2>1, <2>5 DEF Found, AboutStamp, Archiving
  <2> QED
    BY <2>1, <2>3, <2>4, <2>5, <2>6, <2>7, HolderStep DEF LockedStep
<1>7. CASE RemoveDir(r)
  <2>1. /\ run[r].pc = "rm" /\ s \in Stamp /\ dir[s] \in Tree
        /\ UNCHANGED <<mirror, tgz, part, list, livelist, lastrun, lock, env>>
    BY <1>1, <1>7 DEF RemoveDir, At, Found, AboutStamp, Archiving, FilesOK
  <2>2. PICK step \in {"rm", "each"}, todo \in SUBSET File :
          /\ \/ run' = [run EXCEPT ![r].pc = step, ![r].todo = todo]
             \/ run' = [run EXCEPT ![r].todo = todo] /\ step = "rm"
             \/ GoTo(r, step)
          /\ \/ step = "rm" /\ \E f \in File : dir' = [dir EXCEPT ![s][f] = 0]
             \/ step = "each" /\ (dir' = [dir EXCEPT ![s] = Missing] \/ dir' = dir)
    <3>1. CASE \E f \in run[r].todo : /\ dir' = [dir EXCEPT ![s][f] = 0]
                                      /\ run' = [run EXCEPT ![r].todo = @ \ {f}]
      <4>1. PICK f \in File : /\ dir' = [dir EXCEPT ![s][f] = 0]
                              /\ run' = [run EXCEPT ![r].todo = run[r].todo \ {f}]
        BY <1>1, <1>2, <3>1
      <4>2. run[r].todo \ {f} \in SUBSET File
        BY <1>2
      <4> QED
        BY <4>1, <4>2
    <3>2. CASE dir' = [dir EXCEPT ![s] = Missing] /\ GoTo(r, "each")
      BY <3>2
    <3>3. CASE run' = [run EXCEPT ![r].pc = "each", ![r].todo = {}] /\ UNCHANGED dir
      <4>1. {} \in SUBSET File /\ "each" \in {"rm", "each"}
        OBVIOUS
      <4> QED
        BY <3>3, <4>1, Zenon
    <3> QED
      BY <1>7, <3>1, <3>2, <3>3 DEF RemoveDir
  <2>3. /\ dir' \in [Stamp -> Tree \cup {Missing}]
        /\ \A q \in Stamp \ {s} : dir'[q] = dir[q]
        /\ step = "rm" => dir'[s] \in Tree
    <3>1. CASE \E f \in File : dir' = [dir EXCEPT ![s][f] = 0]
      <4>1. PICK f \in File : dir' = [dir EXCEPT ![s] = [dir[s] EXCEPT ![f] = 0]]
        BY <1>1, <2>1, <3>1 DEF FilesOK
      <4>2. [dir[s] EXCEPT ![f] = 0] \in Tree
        BY <2>1, TreeExcept, ProjectAssumption
      <4> QED
        BY <1>1, <2>1, <4>1, <4>2 DEF FilesOK
    <3>2. CASE step = "each" /\ (dir' = [dir EXCEPT ![s] = Missing] \/ dir' = dir)
      BY <1>1, <2>1, <3>2 DEF FilesOK
    <3> QED
      BY <2>2, <3>1, <3>2
  <2>4. FilesOK' /\ EnvOK'
    BY <1>1, <2>1, <2>3 DEF env, FilesOK, EnvOK
  <2>5. /\ run'[r] \in RunType /\ run'[r].pc = step /\ run'[r].stamp = s
        /\ run'[r].queue = run[r].queue
    BY <1>1, <1>2, <2>1, <2>2 DEF GoTo, RunType, Step, LockedStep
  <2>6. run' \in [Slot -> RunType] /\ \A q \in Slot \ {r} : run'[q] = run[q]
    BY <1>1, <2>2, <2>5 DEF GoTo
  <2>7. s \notin run[r].queue /\ (\A q \in run[r].queue : dir'[q] # Missing)
    BY <1>1, <1>2, <2>1, <2>3 DEF Found, Archiving
  <2>8. Found(r)'
    BY <2>1, <2>2, <2>3, <2>5, <2>7, ProjectAssumption DEF Found, AboutStamp, Archiving, Tree
  <2> QED
    BY <2>1, <2>2, <2>4, <2>5, <2>6, <2>8, HolderStep DEF LockedStep
<1> QED
  BY <1>3, <1>4, <1>5, <1>6, <1>7 DEF Archive

LEMMA UnarchiveStep == ASSUME ProjectInv, NEW r \in Slot, Unarchive(r) PROVE ProjectInv'
<1>1. /\ FilesOK /\ EnvOK /\ lock \in Slot \cup {None} /\ run \in [Slot -> RunType]
      /\ Discipline(r) /\ Found(r)
  BY TypeParts DEF ProjectInv
<1>2. /\ run[r] \in RunType /\ run[r].stamp \in 0..MaxStamp /\ run[r].todo \in SUBSET File
  BY <1>1 DEF RunType
<1> DEFINE s == run[r].stamp
<1>3. CASE StartUnarchive(r)
  <2>1. PICK q \in Stamp :
          run' = [run EXCEPT ![r] = [NotRunning EXCEPT !.pc = "acq_unarchive", !.stamp = q]]
    BY <1>3 DEF StartUnarchive
  <2>2. run'[r] \in RunType /\ run'[r].pc = "acq_unarchive" /\ run'[r].stamp = q
    <3>1. q \in 0..MaxStamp /\ "acq_unarchive" \in Step
      BY ProjectAssumption DEF Stamp, Step
    <3> QED
      BY <1>1, <2>1, <3>1, EmptyTree DEF RunType
  <2>3. run' \in [Slot -> RunType] /\ \A p \in Slot \ {r} : run'[p] = run[p]
    BY <1>1, <2>1, <2>2
  <2>4. FilesOK' /\ EnvOK' /\ UNCHANGED <<dir, tgz, part, lock>>
    BY <1>1, <1>3 DEF StartUnarchive, files, env, FilesOK, EnvOK
  <2>5. Found(r)' /\ Discipline(r)'
    BY <1>1, <1>3, <2>2, <2>4
       DEF StartUnarchive, At, Found, AboutStamp, Archiving, Discipline, LockedStep
  <2> QED
    BY <1>1, <2>3, <2>4, <2>5, StepOf
<1>4. CASE AcquireUnarchive(r)
  <2>1. /\ run[r].pc = "acq_unarchive" /\ s \in Stamp
        /\ UNCHANGED <<mirror, tgz, part, list, livelist, lastrun, env>>
    BY <1>1, <1>4 DEF AcquireUnarchive, At, Found, AboutStamp
  <2>2. CASE /\ lock = None /\ lock' = r /\ tgz[s] # Missing
             /\ dir' = [dir EXCEPT ![s] = IF dir[s] = Missing THEN Empty ELSE dir[s]]
             /\ run' = [run EXCEPT ![r].pc = "extract", ![r].todo = Names(tgz[s])]
    <3>1. run'[r] \in RunType /\ run'[r].pc = "extract" /\ run'[r].stamp = s
      BY <1>1, <1>2, <2>2 DEF RunType, Names, Step, LockedStep
    <3>2. run' \in [Slot -> RunType] /\ \A q \in Slot \ {r} : run'[q] = run[q]
      BY <1>1, <2>2, <3>1
    <3>3. dir' \in [Stamp -> Tree \cup {Missing}] /\ dir'[s] # Missing
      BY <1>1, <2>1, <2>2, EmptyTree, ProjectAssumption DEF FilesOK, Tree
    <3>4. FilesOK' /\ EnvOK'
      BY <1>1, <2>1, <3>3 DEF env, FilesOK, EnvOK
    <3>5. Found(r)' /\ Discipline(r)'
      BY <2>1, <2>2, <3>1, <3>3 DEF Found, AboutStamp, Archiving, Discipline, LockedStep
    <3> QED
      BY <1>1, <2>2, <3>2, <3>4, <3>5, StepOf
  <2>3. CASE lock = None /\ lock' = r /\ GoTo(r, "exit") /\ UNCHANGED dir
    <3>1. run'[r] \in RunType /\ run'[r].pc = "exit"
      BY <1>1, <1>2, <2>3 DEF GoTo, RunType, Step, LockedStep
    <3>2. run' \in [Slot -> RunType] /\ \A q \in Slot \ {r} : run'[q] = run[q]
      BY <1>1, <2>3, <3>1 DEF GoTo
    <3>3. FilesOK' /\ EnvOK'
      BY <1>1, <2>1, <2>3 DEF env, FilesOK, EnvOK
    <3>4. Found(r)' /\ Discipline(r)'
      BY <2>3, <3>1 DEF Found, AboutStamp, Archiving, Discipline, LockedStep
    <3> QED
      BY <1>1, <2>3, <3>2, <3>3, <3>4, StepOf
  <2>4. CASE lock # None /\ run' = [run EXCEPT ![r] = NotRunning] /\ UNCHANGED <<dir, lock>>
    <3>1. run'[r] = NotRunning /\ run'[r].pc = "idle"
      BY <1>1, <2>4 DEF NotRunning
    <3>2. run' \in [Slot -> RunType] /\ \A q \in Slot \ {r} : run'[q] = run[q]
      BY <1>1, <2>4, EmptyTree
    <3>3. FilesOK' /\ EnvOK' /\ UNCHANGED <<dir, tgz, part, lock>>
      BY <1>1, <2>1, <2>4 DEF env, FilesOK, EnvOK
    <3>4. Found(r)' /\ Discipline(r)'
      BY <1>1, <2>1, <3>1, <3>3 DEF Found, AboutStamp, Archiving, Discipline, LockedStep
    <3> QED
      BY <1>1, <3>2, <3>3, <3>4, StepOf
  <2> QED
    BY <1>4, <2>2, <2>3, <2>4 DEF AcquireUnarchive
<1>5. CASE Extract(r)
  <2>1. /\ run[r].pc = "extract" /\ s \in Stamp /\ dir[s] \in Tree /\ tgz[s] \in Tree
        /\ UNCHANGED <<mirror, part, list, livelist, lastrun, lock, env>>
    BY <1>1, <1>5 DEF Extract, At, Found, AboutStamp, FilesOK
  <2>2. CASE \E f \in run[r].todo :
               /\ dir' = [dir EXCEPT ![s][f] = tgz[s][f]]
               /\ run' = [run EXCEPT ![r].todo = @ \ {f}]
               /\ UNCHANGED tgz
    <3>1. PICK f \in File :
               /\ dir' = [dir EXCEPT ![s] = [dir[s] EXCEPT ![f] = tgz[s][f]]]
               /\ run' = [run EXCEPT ![r].todo = @ \ {f}]
               /\ UNCHANGED tgz
      BY <1>1, <1>2, <2>1, <2>2 DEF FilesOK
    <3>2. [dir[s] EXCEPT ![f] = tgz[s][f]] \in Tree
      <4>1. tgz[s][f] \in 0..MaxVersion
        BY <2>1 DEF Tree
      <4> QED
        BY <2>1, <4>1, TreeExcept
    <3>3. dir' \in [Stamp -> Tree \cup {Missing}] /\ dir'[s] # Missing
      BY <1>1, <2>1, <3>1, <3>2, ProjectAssumption DEF FilesOK, Tree
    <3>4. run'[r] \in RunType /\ run'[r].pc = "extract" /\ run'[r].stamp = s
      BY <1>1, <1>2, <2>1, <3>1 DEF RunType
    <3>5. run' \in [Slot -> RunType] /\ \A q \in Slot \ {r} : run'[q] = run[q]
      BY <1>1, <3>1, <3>4
    <3>6. FilesOK' /\ EnvOK'
      BY <1>1, <2>1, <3>1, <3>3 DEF env, FilesOK, EnvOK
    <3>7. Found(r)'
      BY <1>1, <2>1, <3>1, <3>3, <3>4 DEF Found, AboutStamp, Archiving
    <3> QED
      BY <2>1, <3>4, <3>5, <3>6, <3>7, HolderStep DEF LockedStep
  <2>3. CASE /\ GoTo(r, "exit") \/ run' = [run EXCEPT ![r].pc = "exit", ![r].todo = {}]
             /\ tgz' = [tgz EXCEPT ![s] = Missing] \/ UNCHANGED tgz
             /\ UNCHANGED dir
    <3>1. run'[r] \in RunType /\ run'[r].pc = "exit"
      BY <1>1, <1>2, <2>3 DEF GoTo, RunType, Step, LockedStep
    <3>2. run' \in [Slot -> RunType] /\ \A q \in Slot \ {r} : run'[q] = run[q]
      BY <1>1, <2>3, <3>1 DEF GoTo
    <3>3. FilesOK' /\ EnvOK'
      BY <1>1, <2>1, <2>3 DEF env, FilesOK, EnvOK
    <3>4. Found(r)'
      BY <3>1 DEF Found, AboutStamp, Archiving
    <3> QED
      BY <2>1, <3>1, <3>2, <3>3, <3>4, HolderStep DEF LockedStep
  <2> QED
    BY <1>5, <2>2, <2>3 DEF Extract
<1> QED
  BY <1>3, <1>4, <1>5 DEF Unarchive

--------------------------------------------------------------------------------

\* The end of a run, its death, and the user.
LEMMA OtherStep ==
  ASSUME ProjectInv,
         \/ \E r \in Slot : Exit(r) \/ Crash(r)
         \/ \E f \in File : Edit(f) \/ Delete(f)
         \/ UNCHANGED vars
  PROVE  ProjectInv'
<1>1. /\ FilesOK /\ EnvOK /\ lock \in Slot \cup {None} /\ run \in [Slot -> RunType]
      /\ \A r \in Slot : Discipline(r) /\ Found(r)
  BY TypeParts DEF ProjectInv
<1>2. ASSUME NEW r \in Slot, Exit(r) \/ Crash(r) PROVE ProjectInv'
  <2>1. run' = [run EXCEPT ![r] = NotRunning] /\ UNCHANGED files
    BY <1>2 DEF Exit, Crash
  <2>2. run'[r] = NotRunning /\ run'[r].pc = "idle"
    BY <1>1, <2>1 DEF NotRunning
  <2>3. run' \in [Slot -> RunType] /\ \A q \in Slot \ {r} : run'[q] = run[q]
    BY <1>1, <2>1, EmptyTree
  <2>4. FilesOK' /\ EnvOK' /\ UNCHANGED <<dir, tgz, part>>
    BY <1>1, <1>2, ProjectAssumption DEF Exit, Crash, files, env, FilesOK, EnvOK
  <2>5. (lock \in {r, None} /\ lock' = None) \/ (lock # r /\ UNCHANGED lock)
    BY <1>1, <1>2 DEF Exit, Crash, At, Discipline, LockedStep
  <2>6. Found(r)' /\ Discipline(r)'
    BY <2>2, <2>5, ProjectAssumption DEF Found, AboutStamp, Archiving, Discipline, LockedStep
  <2> QED
    BY <1>1, <2>3, <2>4, <2>5, <2>6, StepOf
<1>3. CASE (\E f \in File : Edit(f) \/ Delete(f)) \/ UNCHANGED vars
  <2>1. UNCHANGED <<files, lock, run>>
    BY <1>3 DEF Edit, Delete, vars
  <2>2. EnvOK'
    BY <1>1, <1>3, ProjectAssumption DEF Edit, Delete, vars, env, EnvOK, Tree
  <2>3. FilesOK' /\ \A r \in Slot : Discipline(r)' /\ Found(r)'
    BY <1>1, <2>1 DEF files, FilesOK, Discipline, Found
  <2>4. TypeOK'
    BY <1>1, <2>1, <2>2, <2>3 DEF TypeOK, FilesOK, EnvOK, Discipline, RunType
  <2> QED
    BY <2>3, <2>4 DEF ProjectInv
<1> QED
  BY <1>2, <1>3

LEMMA ProjectStep == ProjectInv /\ [Next]_vars => ProjectInv'
BY BackupStep, ArchiveStep, UnarchiveStep, OtherStep DEF Next, RunStep

LEMMA ProjectInit == Init => ProjectInv
<1> SUFFICES ASSUME Init PROVE ProjectInv
  OBVIOUS
<1>1. FilesOK /\ EnvOK
  BY EmptyTree, ProjectAssumption DEF Init, FilesOK, EnvOK
<1>2. lock = None /\ run \in [Slot -> RunType] /\ \A r \in Slot : run[r].pc = "idle"
  BY EmptyTree DEF Init, NotRunning
<1>3. \A r \in Slot : Discipline(r) /\ Found(r)
  BY <1>2, ProjectAssumption DEF Discipline, Found, AboutStamp, Archiving, LockedStep
<1> QED
  BY <1>1, <1>2, <1>3, TypeParts DEF ProjectInv

--------------------------------------------------------------------------------

\* Every state is well formed, and a script past its acquire is the lock's holder and
\* the only one: at any number of scripts that overlap, failures and kills.
THEOREM TypeCorrect == Spec => []TypeOK
<1>1. ProjectInv => TypeOK
  BY DEF ProjectInv
<1> QED
  BY <1>1, ProjectInit, ProjectStep, PTL DEF Spec

--------------------------------------------------------------------------------
(* What the steps do to the files. *)

\* What ProjectInv says of one script.
LEMMA Known ==
  ASSUME ProjectInv, NEW r \in Slot
  PROVE  /\ FilesOK /\ EnvOK /\ lock \in Slot \cup {None} /\ None \notin Slot
         /\ run \in [Slot -> RunType] /\ run[r] \in RunType
         /\ run[r].pc \in Step /\ run[r].stamp \in 0..MaxStamp
         /\ run[r].todo \in SUBSET File /\ run[r].queue \in SUBSET Stamp
         /\ run[r].new \in SUBSET (File \X (1..MaxVersion)) /\ run[r].failed \in BOOLEAN
         /\ Found(r)
         /\ (run[r].pc \in LockedStep <=> lock = r)
         /\ Missing \notin Tree /\ Missing \notin SUBSET File
<1>1. TypeOK /\ Found(r)
  BY DEF ProjectInv
<1>2. FilesOK /\ EnvOK /\ lock \in Slot \cup {None} /\ run \in [Slot -> RunType]
  BY <1>1, TypeParts
<1>3. run[r] \in RunType
  BY <1>2
<1>4. run[r].pc \in LockedStep <=> lock = r
  BY <1>1 DEF TypeOK
<1>5. Missing \notin Tree /\ Missing \notin SUBSET File /\ None \notin Slot
  BY ProjectAssumption DEF Tree
<1> QED
  BY <1>1, <1>2, <1>3, <1>4, <1>5 DEF RunType

\* rsync puts a file aside.
LEMMA AsideFacts ==
  ASSUME ProjectInv, NEW r \in Slot, NEW f \in File, RsyncDelete(r, f) \/ RsyncReplace(r, f)
  PROVE  LET s == run[r].stamp IN
         /\ run[r].pc = "rsync" /\ lock = r /\ s \in Stamp /\ f \in run[r].todo
         /\ UNCHANGED <<tgz, part, list, livelist, lastrun, lock, env>>
         /\ mirror[f] \in 1..MaxVersion
         /\ mirror' = [mirror EXCEPT ![f] = 0]
         /\ dir'[s] \in Tree /\ dir'[s] # Missing
         /\ \A g \in File : dir'[s][g] = IF g = f THEN mirror[f]
                                       ELSE IF dir[s] = Missing THEN 0 ELSE dir[s][g]
         /\ \A t \in Stamp \ {s} : dir'[t] = dir[t]
         /\ \A q \in Slot \ {r} : run'[q] = run[q]
         /\ run'[r].stamp = s /\ run'[r].failed = run[r].failed
         /\ \/ /\ source[f] = 0 /\ run'[r].pc = "rsync"
               /\ run'[r].todo = run[r].todo \ {f}
            \/ /\ source[f] \in (1..MaxVersion) \ {mirror[f]} /\ run'[r].pc = "install"
               /\ run'[r].todo = run[r].todo /\ run'[r].new = {<<f, source[f]>>}
<1> DEFINE s == run[r].stamp
<1>1. run[r].pc = "rsync" /\ f \in run[r].todo /\ mirror[f] # 0 /\ PutAside(r, f)
  BY DEF RsyncDelete, RsyncReplace, At
<1>2. lock = r /\ s \in Stamp
  BY <1>1, Known DEF LockedStep, Found, AboutStamp
<1>3. mirror[f] \in 1..MaxVersion /\ source[f] \in 0..MaxVersion
  BY <1>1, Known, ProjectAssumption DEF FilesOK, EnvOK, Tree
<1> DEFINE old == IF dir[s] = Missing THEN Empty ELSE dir[s]
<1>4. old \in Tree
  BY <1>2, Known, EmptyTree DEF FilesOK
<1>5. dir' = [dir EXCEPT ![s] = [old EXCEPT ![f] = mirror[f]]] /\ mirror' = [mirror EXCEPT ![f] = 0]
  BY <1>1 DEF PutAside
<1>6. [old EXCEPT ![f] = mirror[f]] \in Tree
  BY <1>3, <1>4, TreeExcept
<1>7. dir'[s] = [old EXCEPT ![f] = mirror[f]] /\ \A t \in Stamp \ {s} : dir'[t] = dir[t]
  BY <1>2, <1>5, Known DEF FilesOK
<1>8. \A g \in File : dir'[s][g] = IF g = f THEN mirror[f]
                                 ELSE IF dir[s] = Missing THEN 0 ELSE dir[s][g]
  BY <1>4, <1>7 DEF Tree, Empty
<1>9. dir'[s] \in Tree /\ dir'[s] # Missing
  BY <1>6, <1>7, Known
<1>10. UNCHANGED <<tgz, part, list, livelist, lastrun, lock, env>>
  BY DEF RsyncDelete, RsyncReplace
<1>11. /\ \A q \in Slot \ {r} : run'[q] = run[q]
       /\ run'[r].stamp = s /\ run'[r].failed = run[r].failed
       /\ \/ /\ source[f] = 0 /\ run'[r].pc = "rsync"
             /\ run'[r].todo = run[r].todo \ {f}
          \/ /\ source[f] \in (1..MaxVersion) \ {mirror[f]} /\ run'[r].pc = "install"
             /\ run'[r].todo = run[r].todo /\ run'[r].new = {<<f, source[f]>>}
  BY <1>1, <1>3, Known DEF RsyncDelete, RsyncReplace, RunType
<1> QED
  BY <1>1, <1>2, <1>3, <1>5, <1>8, <1>7, <1>9, <1>10, <1>11

\* tar writes some of the directory to the .part file.
LEMMA TarFacts ==
  ASSUME ProjectInv, NEW r \in Slot, Tar(r)
  PROVE  LET s == run[r].stamp IN
         /\ run[r].pc = "tar" /\ lock = r /\ s \in Stamp /\ dir[s] \in Tree
         /\ UNCHANGED <<mirror, dir, tgz, list, livelist, lastrun, lock, env>>
         /\ part'[s] \in Tree /\ part'[s] # Missing
         /\ \A f \in File : part'[s][f] \in {0, dir[s][f]}
         /\ \A t \in Stamp \ {s} : part'[t] = part[t]
         /\ \A q \in Slot \ {r} : run'[q] = run[q]
         /\ run'[r].stamp = s /\ run'[r].pc = "verify"
<1> DEFINE s == run[r].stamp
<1>1. run[r].pc = "tar" /\ GoTo(r, "verify")
      /\ UNCHANGED <<mirror, dir, tgz, list, livelist, lastrun, lock, env>>
  BY DEF Tar, At
<1>2. lock = r /\ s \in Stamp /\ dir[s] \in Tree
  BY <1>1, Known DEF LockedStep, Found, AboutStamp, Archiving, FilesOK
<1>3. PICK t \in TarOf(dir[s]) : part' = [part EXCEPT ![s] = t]
  BY DEF Tar
<1>4. t \in Tree /\ \A f \in File : t[f] \in {0, dir[s][f]}
  BY <1>2, <1>3, ProjectAssumption DEF TarOf, Tree
<1>5. part'[s] = t /\ \A u \in Stamp \ {s} : part'[u] = part[u]
  BY <1>2, <1>3, Known DEF FilesOK
<1>6. (\A q \in Slot \ {r} : run'[q] = run[q]) /\ run'[r].stamp = s /\ run'[r].pc = "verify"
  BY <1>1, Known DEF GoTo, RunType
<1> QED
  BY <1>1, <1>2, <1>4, <1>5, <1>6, Known

\* The .part file becomes the tarball, stays or goes.
LEMMA CommitFacts ==
  ASSUME ProjectInv, NEW r \in Slot, Commit(r)
  PROVE  LET s == run[r].stamp IN
         /\ run[r].pc = "verify" /\ lock = r /\ s \in Stamp /\ dir[s] \in Tree /\ part[s] \in Tree
         /\ UNCHANGED <<mirror, dir, list, livelist, lastrun, lock, env>>
         /\ \A q \in Slot \ {r} : run'[q] = run[q]
         /\ run'[r].stamp = s
         /\ \/ /\ Cardinality(Names(part[s])) = Cardinality(Names(dir[s]))
               /\ tgz' = [tgz EXCEPT ![s] = part[s]] /\ tgz'[s] = part[s]
               /\ \A t \in Stamp \ {s} : tgz'[t] = tgz[t]
               /\ part' = [part EXCEPT ![s] = Missing]
               /\ run'[r].pc = "rm" /\ run'[r].todo = Names(dir[s])
            \/ run'[r].pc = "each" /\ UNCHANGED <<tgz, part>>
            \/ /\ run'[r].pc = "exit" /\ UNCHANGED tgz
               /\ part' = [part EXCEPT ![s] = Missing]
<1> DEFINE s == run[r].stamp
<1>1. run[r].pc = "verify" /\ UNCHANGED <<mirror, dir, list, livelist, lastrun, lock, env>>
  BY DEF Commit, At
<1>2. lock = r /\ s \in Stamp /\ dir[s] \in Tree /\ part[s] \in Tree
  BY <1>1, Known DEF LockedStep, Found, AboutStamp, Archiving, FilesOK
<1>3. \/ /\ Cardinality(Names(part[s])) = Cardinality(Names(dir[s]))
         /\ tgz' = [tgz EXCEPT ![s] = part[s]]
         /\ part' = [part EXCEPT ![s] = Missing]
         /\ run' = [run EXCEPT ![r].pc = "rm", ![r].todo = Names(dir[s])]
      \/ GoTo(r, "each") /\ UNCHANGED <<tgz, part>>
      \/ part' = [part EXCEPT ![s] = Missing] /\ GoTo(r, "exit") /\ UNCHANGED tgz
  BY DEF Commit
<1>4. (\A q \in Slot \ {r} : run'[q] = run[q]) /\ run'[r].stamp = s
  BY <1>3, Known DEF GoTo, RunType
<1>5. CASE /\ Cardinality(Names(part[s])) = Cardinality(Names(dir[s]))
           /\ tgz' = [tgz EXCEPT ![s] = part[s]]
           /\ part' = [part EXCEPT ![s] = Missing]
           /\ run' = [run EXCEPT ![r].pc = "rm", ![r].todo = Names(dir[s])]
  <2>1. run'[r].pc = "rm" /\ run'[r].todo = Names(dir[s])
    BY <1>5, Known DEF RunType
  <2>2. tgz'[s] = part[s] /\ \A t \in Stamp \ {s} : tgz'[t] = tgz[t]
    BY <1>2, <1>5, Known DEF FilesOK
  <2> QED
    BY <1>1, <1>2, <1>4, <1>5, <2>1, <2>2
<1>6. CASE GoTo(r, "each") /\ UNCHANGED <<tgz, part>>
  BY <1>1, <1>2, <1>4, <1>6, Known DEF GoTo, RunType
<1>7. CASE part' = [part EXCEPT ![s] = Missing] /\ GoTo(r, "exit") /\ UNCHANGED tgz
  <2>1. run'[r].pc = "exit"
    BY <1>7, Known DEF GoTo, RunType
  <2> QED
    BY <1>1, <1>2, <1>4, <1>7, <2>1
<1> QED
  BY <1>3, <1>5, <1>6, <1>7

\* A file or the whole directory goes, or the removal fails.
LEMMA RemoveFacts ==
  ASSUME ProjectInv, NEW r \in Slot, RemoveDir(r)
  PROVE  LET s == run[r].stamp IN
         /\ run[r].pc = "rm" /\ lock = r /\ s \in Stamp /\ dir[s] \in Tree
         /\ UNCHANGED <<mirror, tgz, part, list, livelist, lastrun, lock, env>>
         /\ \A q \in Slot \ {r} : run'[q] = run[q]
         /\ \A t \in Stamp \ {s} : dir'[t] = dir[t]
         /\ run'[r].stamp = s
         /\ \/ \E f \in run[r].todo :
                  /\ dir'[s] \in Tree /\ \A g \in File : dir'[s][g] = IF g = f THEN 0 ELSE dir[s][g]
                  /\ run'[r].pc = "rm" /\ run'[r].todo = run[r].todo \ {f}
            \/ /\ run[r].todo = {} /\ dir' = [dir EXCEPT ![s] = Missing] /\ dir'[s] = Missing
               /\ run'[r].pc = "each"
            \/ /\ "rm" \in MayFail /\ UNCHANGED dir /\ run'[r].pc = "each"
<1> DEFINE s == run[r].stamp
<1>1. run[r].pc = "rm" /\ UNCHANGED <<mirror, tgz, part, list, livelist, lastrun, lock, env>>
  BY DEF RemoveDir, At
<1>2. lock = r /\ s \in Stamp /\ dir[s] \in Tree
  BY <1>1, Known DEF LockedStep, Found, AboutStamp, Archiving, FilesOK
<1>3. CASE \E f \in run[r].todo : /\ dir' = [dir EXCEPT ![s][f] = 0]
                                  /\ run' = [run EXCEPT ![r].todo = @ \ {f}]
  <2>1. PICK f \in run[r].todo : /\ dir' = [dir EXCEPT ![s][f] = 0]
                                 /\ run' = [run EXCEPT ![r].todo = @ \ {f}]
    BY <1>3
  <2>2. f \in File
    BY <2>1, Known
  <2>3. dir' = [dir EXCEPT ![s] = [dir[s] EXCEPT ![f] = 0]]
    BY <1>2, <2>1, Known DEF FilesOK
  <2>4. [dir[s] EXCEPT ![f] = 0] \in Tree
    BY <1>2, <2>2, TreeExcept, ProjectAssumption
  <2>5. dir'[s] = [dir[s] EXCEPT ![f] = 0] /\ \A t \in Stamp \ {s} : dir'[t] = dir[t]
    BY <1>2, <2>3, Known DEF FilesOK
  <2>6. \A g \in File : dir'[s][g] = IF g = f THEN 0 ELSE dir[s][g]
    BY <1>2, <2>2, <2>5 DEF Tree
  <2>7. /\ \A q \in Slot \ {r} : run'[q] = run[q]
        /\ run'[r].stamp = s /\ run'[r].pc = "rm" /\ run'[r].todo = run[r].todo \ {f}
    BY <1>1, <2>1, Known DEF RunType
  <2> QED
    BY <1>1, <1>2, <2>1, <2>4, <2>5, <2>6, <2>7
<1>4. CASE run[r].todo = {} /\ dir' = [dir EXCEPT ![s] = Missing] /\ GoTo(r, "each")
  <2>1. /\ \A q \in Slot \ {r} : run'[q] = run[q]
        /\ run'[r].stamp = s /\ run'[r].pc = "each"
    BY <1>4, Known DEF GoTo, RunType
  <2>2. dir'[s] = Missing /\ \A t \in Stamp \ {s} : dir'[t] = dir[t]
    BY <1>2, <1>4, Known DEF FilesOK
  <2> QED
    BY <1>1, <1>2, <1>4, <2>1, <2>2
<1>5. CASE "rm" \in MayFail /\ run' = [run EXCEPT ![r].pc = "each", ![r].todo = {}] /\ UNCHANGED dir
  <2>1. /\ \A q \in Slot \ {r} : run'[q] = run[q]
        /\ run'[r].stamp = s /\ run'[r].pc = "each"
    BY <1>5, Known DEF RunType
  <2> QED
    BY <1>1, <1>2, <1>5, <2>1
<1> QED
  BY <1>3, <1>4, <1>5 DEF RemoveDir

\* unarchive has the lock, and the tarball is still there.
Unpack(r) == AcquireUnarchive(r) /\ lock = None /\ tgz[run[r].stamp] # Missing

\* The directory is made.
LEMMA UnpackFacts ==
  ASSUME ProjectInv, NEW r \in Slot, Unpack(r)
  PROVE  LET s == run[r].stamp IN
         /\ run[r].pc = "acq_unarchive" /\ lock = None /\ lock' = r /\ s \in Stamp /\ tgz[s] \in Tree
         /\ UNCHANGED <<mirror, tgz, part, list, livelist, lastrun, env>>
         /\ \A q \in Slot \ {r} : run'[q] = run[q]
         /\ \A t \in Stamp \ {s} : dir'[t] = dir[t]
         /\ dir' = [dir EXCEPT ![s] = IF dir[s] = Missing THEN Empty ELSE dir[s]]
         /\ dir'[s] \in Tree /\ dir'[s] # Missing
         /\ \A g \in File : dir'[s][g] = IF dir[s] = Missing THEN 0 ELSE dir[s][g]
         /\ run'[r].stamp = s /\ run'[r].pc = "extract" /\ run'[r].todo = Names(tgz[s])
<1> DEFINE s == run[r].stamp
<1>1. /\ run[r].pc = "acq_unarchive" /\ lock = None /\ lock' = r /\ tgz[s] # Missing
      /\ UNCHANGED <<mirror, tgz, part, list, livelist, lastrun, env>>
      /\ dir' = [dir EXCEPT ![s] = IF dir[s] = Missing THEN Empty ELSE dir[s]]
      /\ run' = [run EXCEPT ![r].pc = "extract", ![r].todo = Names(tgz[s])]
  BY DEF Unpack, AcquireUnarchive, At
<1>2. s \in Stamp /\ tgz[s] \in Tree
  BY <1>1, Known DEF Found, AboutStamp, FilesOK
<1>3. /\ dir'[s] = (IF dir[s] = Missing THEN Empty ELSE dir[s])
      /\ \A t \in Stamp \ {s} : dir'[t] = dir[t]
  BY <1>1, <1>2, Known DEF FilesOK
<1>4. dir'[s] \in Tree /\ dir'[s] # Missing
  BY <1>2, <1>3, Known, EmptyTree DEF FilesOK
<1>5. \A g \in File : dir'[s][g] = IF dir[s] = Missing THEN 0 ELSE dir[s][g]
  BY <1>3 DEF Empty
<1>6. /\ \A q \in Slot \ {r} : run'[q] = run[q]
      /\ run'[r].stamp = s /\ run'[r].pc = "extract" /\ run'[r].todo = Names(tgz[s])
  BY <1>1, Known DEF RunType
<1> QED
  BY <1>1, <1>2, <1>3, <1>4, <1>5, <1>6

\* A file comes out of the tarball, the tarball goes, or the extraction fails.
LEMMA ExtractFacts ==
  ASSUME ProjectInv, NEW r \in Slot, Extract(r)
  PROVE  LET s == run[r].stamp IN
         /\ run[r].pc = "extract" /\ lock = r /\ s \in Stamp /\ dir[s] \in Tree /\ tgz[s] \in Tree
         /\ UNCHANGED <<mirror, part, list, livelist, lastrun, lock, env>>
         /\ \A q \in Slot \ {r} : run'[q] = run[q]
         /\ \A t \in Stamp \ {s} : dir'[t] = dir[t] /\ tgz'[t] = tgz[t]
         /\ run'[r].stamp = s
         /\ \/ \E f \in run[r].todo :
                  /\ UNCHANGED tgz
                  /\ dir'[s] \in Tree /\ dir'[s] # Missing
                  /\ \A g \in File : dir'[s][g] = IF g = f THEN tgz[s][f] ELSE dir[s][g]
                  /\ run'[r].pc = "extract" /\ run'[r].todo = run[r].todo \ {f}
            \/ /\ run[r].todo = {} /\ UNCHANGED dir
               /\ tgz' = [tgz EXCEPT ![s] = Missing] /\ tgz'[s] = Missing
               /\ run'[r].pc = "exit"
            \/ /\ "extract" \in MayFail /\ UNCHANGED <<dir, tgz>> /\ run'[r].pc = "exit"
<1> DEFINE s == run[r].stamp
<1>1. run[r].pc = "extract" /\ UNCHANGED <<mirror, part, list, livelist, lastrun, lock, env>>
  BY DEF Extract, At
<1>2. lock = r /\ s \in Stamp /\ dir[s] \in Tree /\ tgz[s] \in Tree
  BY <1>1, Known DEF LockedStep, Found, AboutStamp, FilesOK
<1>3. CASE \E f \in run[r].todo : /\ dir' = [dir EXCEPT ![s][f] = tgz[s][f]]
                                  /\ run' = [run EXCEPT ![r].todo = @ \ {f}]
                                  /\ UNCHANGED tgz
  <2>1. PICK f \in run[r].todo : /\ dir' = [dir EXCEPT ![s][f] = tgz[s][f]]
                                 /\ run' = [run EXCEPT ![r].todo = @ \ {f}]
                                 /\ UNCHANGED tgz
    BY <1>3
  <2>2. f \in File /\ tgz[s][f] \in 0..MaxVersion
    <3>1. f \in File
      BY <2>1, Known
    <3> QED
      BY <1>2, <3>1 DEF Tree
  <2>3. dir' = [dir EXCEPT ![s] = [dir[s] EXCEPT ![f] = tgz[s][f]]]
    BY <1>2, <2>1, Known DEF FilesOK
  <2>4. [dir[s] EXCEPT ![f] = tgz[s][f]] \in Tree
    BY <1>2, <2>2, TreeExcept
  <2>5. dir'[s] = [dir[s] EXCEPT ![f] = tgz[s][f]] /\ \A t \in Stamp \ {s} : dir'[t] = dir[t]
    BY <1>2, <2>3, Known DEF FilesOK
  <2>6. \A g \in File : dir'[s][g] = IF g = f THEN tgz[s][f] ELSE dir[s][g]
    BY <1>2, <2>2, <2>5 DEF Tree
  <2>7. /\ \A q \in Slot \ {r} : run'[q] = run[q]
        /\ run'[r].stamp = s /\ run'[r].pc = "extract" /\ run'[r].todo = run[r].todo \ {f}
    BY <1>1, <2>1, Known DEF RunType
  <2>8. dir'[s] \in Tree /\ dir'[s] # Missing
    BY <2>4, <2>5, Known
  <2> QED
    BY <1>1, <1>2, <2>1, <2>5, <2>6, <2>7, <2>8
<1>4. CASE run[r].todo = {} /\ tgz' = [tgz EXCEPT ![s] = Missing] /\ GoTo(r, "exit") /\ UNCHANGED dir
  <2>1. /\ \A q \in Slot \ {r} : run'[q] = run[q]
        /\ run'[r].stamp = s /\ run'[r].pc = "exit"
    BY <1>4, Known DEF GoTo, RunType
  <2>2. tgz'[s] = Missing /\ \A t \in Stamp \ {s} : tgz'[t] = tgz[t]
    BY <1>2, <1>4, Known DEF FilesOK
  <2> QED
    BY <1>1, <1>2, <1>4, <2>1, <2>2
<1>5. CASE /\ "extract" \in MayFail /\ run' = [run EXCEPT ![r].pc = "exit", ![r].todo = {}]
           /\ UNCHANGED <<dir, tgz>>
  <2>1. /\ \A q \in Slot \ {r} : run'[q] = run[q]
        /\ run'[r].stamp = s /\ run'[r].pc = "exit"
    BY <1>5, Known DEF RunType
  <2> QED
    BY <1>1, <1>2, <1>5, <2>1
<1> QED
  BY <1>3, <1>4, <1>5 DEF Extract

\* The steps of a script that leave every snapshot as it is.
Quiet(r) ==
    \/ StartBackup(r)
    \/ AcquireBackup(r)
    \/ RsyncInstall(r)
    \/ \E f \in File : RsyncSame(r, f) \/ RsyncNew(r, f) \/ RsyncSkip(r, f)
    \/ RsyncEnd(r)
    \/ BeginFilelist(r)
    \/ EndFilelist(r)
    \/ BeginLive(r) \/ EndLive(r)
    \/ StartArchive(r)
    \/ PickSnapshot(r)
    \/ BeginArchiveList(r)
    \/ EndArchiveList(r)
    \/ StartUnarchive(r)
    \/ (AcquireUnarchive(r) /\ ~Unpack(r))
    \/ Exit(r)
    \/ Crash(r)

\* What they may do, and which of them go where.
QuietEffect(r) ==
    LET s == run[r].stamp IN
    /\ UNCHANGED <<dir, tgz, part, source, version>>
    /\ \A q \in Slot \ {r} : run'[q] = run[q]
    /\ run'[r].pc \notin {"install", "verify", "rm", "extract"}
    /\ lock' = lock \/ (lock = None /\ lock' = r) \/ (lock = r /\ lock' = None)
    /\ clock' \in {clock, clock + 1}
    /\ mirror' = mirror \/ lock = r
    /\ \/ list' = list
       \/ /\ lock = r /\ run[r].pc \in {"flist", "flist2", "alist", "alist2"}
          /\ run[r].pc = "flist" => dir[s] # Missing
          /\ \E fs \in SUBSET File : list' = [list EXCEPT ![s] = fs]
    /\ run'[r].pc = "acq_backup" =>
          /\ run[r].pc = "idle" /\ run'[r].stamp = clock /\ clock \in Stamp /\ list' = list
          /\ SameSecond = FALSE => clock' = clock + 1
    /\ run'[r].pc = "rsync" =>
          /\ run'[r].stamp = s /\ list' = list
          /\ \/ run[r].pc = "acq_backup" /\ lock = None /\ lock' = r
             \/ /\ run[r].pc = "rsync" /\ lock = r /\ lock' = r
                /\ run'[r].todo \subseteq run[r].todo
             \/ /\ run[r].pc = "install" /\ lock = r /\ lock' = r
                /\ \E p \in run[r].new : run'[r].todo = run[r].todo \ {p[1]}
    /\ run'[r].pc = "flist" => run[r].pc = "rsync" /\ run'[r].stamp = s /\ list' = list
    /\ run'[r].pc = "flist2" => run[r].pc = "flist" /\ run'[r].stamp = s /\ dir[s] # Missing
    /\ run'[r].pc \in {"live", "live2"} => run[r].pc \in {"flist", "flist2", "live"}
    /\ run'[r].pc \in {"alist", "alist2", "tar"} =>
          PickSnapshot(r) \/ BeginArchiveList(r) \/ EndArchiveList(r)

LEMMA GoToFacts ==
  ASSUME ProjectInv, NEW r \in Slot, NEW step, GoTo(r, step)
  PROVE  /\ \A q \in Slot \ {r} : run'[q] = run[q]
         /\ run'[r].pc = step /\ run'[r].stamp = run[r].stamp /\ run'[r].todo = run[r].todo
         /\ run'[r].failed = run[r].failed
BY Known DEF GoTo, RunType

LEMMA NotRunningFacts ==
  ASSUME ProjectInv, NEW r \in Slot, run' = [run EXCEPT ![r] = NotRunning]
  PROVE  (\A q \in Slot \ {r} : run'[q] = run[q]) /\ run'[r].pc = "idle" /\ ~run'[r].failed
BY Known DEF NotRunning

LEMMA QuietFacts == ASSUME ProjectInv, NEW r \in Slot, Quiet(r) PROVE QuietEffect(r)
<1>0. /\ run \in [Slot -> RunType] /\ run[r] \in RunType /\ run[r].pc \in Step
      /\ (run[r].pc \in LockedStep <=> lock = r) /\ None \notin Slot
  BY Known
<1>1. CASE StartBackup(r)
  <2>1. /\ \A q \in Slot \ {r} : run'[q] = run[q]
        /\ run'[r].pc = "acq_backup" /\ run'[r].stamp = clock
    BY <1>0, <1>1 DEF StartBackup, NotRunning
  <2>2. /\ UNCHANGED <<files, lock, source, version>> /\ run[r].pc = "idle" /\ clock \in Stamp
        /\ clock' \in {clock, clock + 1} /\ (SameSecond = FALSE => clock' = clock + 1)
    BY <1>1 DEF StartBackup, At
  <2> QED
    BY <2>1, <2>2 DEF QuietEffect, files
<1>2. CASE AcquireBackup(r)
  <2>1. run[r].pc = "acq_backup" /\ UNCHANGED <<files, env>>
    BY <1>2 DEF AcquireBackup, At
  <2>2. CASE lock = None /\ lock' = r /\ run' = [run EXCEPT ![r].pc = "rsync", ![r].todo = File]
    <3>1. /\ \A q \in Slot \ {r} : run'[q] = run[q]
          /\ run'[r].pc = "rsync" /\ run'[r].stamp = run[r].stamp
      BY <1>0, <2>2 DEF RunType
    <3> QED
      BY <2>1, <2>2, <3>1 DEF QuietEffect, files, env
  <2>3. CASE run' = [run EXCEPT ![r] = NotRunning] /\ UNCHANGED lock
    BY <2>1, <2>3, NotRunningFacts DEF QuietEffect, files, env
  <2> QED
    BY <1>2, <2>2, <2>3 DEF AcquireBackup
<1>3. CASE RsyncInstall(r)
  <2>1. PICK p \in run[r].new :
          LET done == [run[r] EXCEPT !.pc = "rsync", !.todo = @ \ {p[1]}, !.new = {}]
          IN  run' = [run EXCEPT ![r] = done] \/ run' = [run EXCEPT ![r] = [done EXCEPT !.failed = TRUE]]
    BY <1>3 DEF RsyncInstall
  <2> DEFINE done == [run[r] EXCEPT !.pc = "rsync", !.todo = @ \ {p[1]}, !.new = {}]
  <2>2. /\ \A q \in Slot \ {r} : run'[q] = run[q]
        /\ run'[r].pc = "rsync" /\ run'[r].stamp = run[r].stamp
        /\ run'[r].todo = run[r].todo \ {p[1]}
    <3>1. /\ done.pc = "rsync" /\ done.stamp = run[r].stamp /\ done.todo = run[r].todo \ {p[1]}
          /\ done \in RunType
      BY <1>0 DEF RunType, Step, LockedStep
    <3>2. run' = [run EXCEPT ![r] = done] \/ run' = [run EXCEPT ![r] = [done EXCEPT !.failed = TRUE]]
      BY <2>1
    <3> HIDE DEF done
    <3> QED
      BY <1>0, <3>1, <3>2 DEF RunType
  <2>3. run[r].pc = "install" /\ lock = r /\ UNCHANGED <<dir, tgz, part, list, lock, env>>
    BY <1>0, <1>3 DEF RsyncInstall, At, LockedStep
  <2> QED
    BY <2>1, <2>2, <2>3 DEF QuietEffect, env
<1>4. CASE \E f \in File : RsyncSame(r, f) \/ RsyncNew(r, f) \/ RsyncSkip(r, f)
  <2>1. PICK f \in File : \/ run' = [run EXCEPT ![r].todo = @ \ {f}]
                          \/ run' = [run EXCEPT ![r].todo = @ \ {f}, ![r].failed = TRUE]
    BY <1>4 DEF RsyncSame, RsyncNew, RsyncSkip
  <2>2. run[r].pc = "rsync" /\ lock = r /\ UNCHANGED <<dir, tgz, part, list, lock, env>>
    BY <1>0, <1>4 DEF RsyncSame, RsyncNew, RsyncSkip, At, LockedStep, files
  <2>3. /\ \A q \in Slot \ {r} : run'[q] = run[q]
        /\ run'[r].pc = "rsync" /\ run'[r].stamp = run[r].stamp
        /\ run'[r].todo = run[r].todo \ {f}
    BY <1>0, <2>1, <2>2 DEF RunType
  <2> QED
    BY <2>2, <2>3 DEF QuietEffect, env
<1>5. CASE RsyncEnd(r)
  <2>1. /\ run[r].pc = "rsync" /\ GoTo(r, "flist")
        /\ UNCHANGED <<mirror, dir, tgz, part, list, livelist, lock, env>>
    BY <1>5 DEF RsyncEnd, At
  <2> QED
    BY <2>1, GoToFacts DEF QuietEffect, env
<1>6. CASE BeginFilelist(r) \/ EndFilelist(r) \/ BeginArchiveList(r) \/ EndArchiveList(r)
  <2>1. /\ run[r].pc \in {"flist", "flist2", "alist", "alist2"} /\ lock = r
        /\ UNCHANGED <<mirror, dir, tgz, part, livelist, lastrun, lock, env>>
    BY <1>0, <1>6 DEF BeginFilelist, EndFilelist, BeginArchiveList, EndArchiveList, At, LockedStep
  <2>2. \/ list' = list
        \/ /\ run[r].pc = "flist" => dir[run[r].stamp] # Missing
           /\ \E fs \in SUBSET File : list' = [list EXCEPT ![run[r].stamp] = fs]
    BY <1>6 DEF BeginFilelist, EndFilelist, BeginArchiveList, EndArchiveList, At, Names
  <2>3. PICK step \in {"flist2", "live", "alist2", "each", "tar"} :
          /\ GoTo(r, step)
          /\ step = "flist2" => run[r].pc = "flist" /\ dir[run[r].stamp] # Missing
          /\ step \in {"alist2", "tar"} => BeginArchiveList(r) \/ EndArchiveList(r)
          /\ step = "live" => run[r].pc \in {"flist", "flist2"}
    BY <1>6 DEF BeginFilelist, EndFilelist, BeginArchiveList, EndArchiveList, AfterList, At
  <2>4. /\ \A q \in Slot \ {r} : run'[q] = run[q]
        /\ run'[r].pc = step /\ run'[r].stamp = run[r].stamp
    BY <2>3, GoToFacts
  <2> QED
    BY <2>1, <2>2, <2>3, <2>4 DEF QuietEffect, env
<1>7. CASE BeginLive(r) \/ EndLive(r)
  <2>1. UNCHANGED <<mirror, dir, tgz, part, list, lastrun, lock, env>>
    BY <1>7 DEF BeginLive, EndLive
  <2>2. PICK step \in {"live2", "exit"} : GoTo(r, step) /\ (step = "live2" => run[r].pc = "live")
    BY <1>7 DEF BeginLive, EndLive, At
  <2> QED
    BY <2>1, <2>2, GoToFacts DEF QuietEffect, env
<1>8. CASE StartArchive(r)
  <2>1. lock = None /\ lock' = r /\ UNCHANGED <<files, env>>
    BY <1>8 DEF StartArchive
  <2>2. (\A q \in Slot \ {r} : run'[q] = run[q]) /\ run'[r].pc = "each"
    BY <1>0, <1>8 DEF StartArchive, NotRunning
  <2> QED
    BY <2>1, <2>2 DEF QuietEffect, files, env
<1>9. CASE PickSnapshot(r)
  <2>1. UNCHANGED <<files, lock, env>>
    BY <1>9 DEF PickSnapshot
  <2>2. \A q \in Slot \ {r} : run'[q] = run[q]
    BY <1>0, <1>9 DEF PickSnapshot, GoTo
  <2>3. run'[r].pc \in {"exit", "alist", "each", "tar"}
    <3>1. CASE GoTo(r, "exit")
      BY <3>1, GoToFacts
    <3>2. CASE \E s \in run[r].queue :
                 run' = [run EXCEPT ![r].stamp = s, ![r].queue = @ \ {s},
                           ![r].pc = IF list[s] = Missing THEN "alist" ELSE AfterList(r)]
      BY <1>0, <3>2 DEF AfterList, RunType
    <3> QED
      BY <1>9, <3>1, <3>2 DEF PickSnapshot
  <2> QED
    BY <1>9, <2>1, <2>2, <2>3 DEF QuietEffect, files, env
<1>10. CASE StartUnarchive(r)
  <2>1. UNCHANGED <<files, lock, env>>
    BY <1>10 DEF StartUnarchive
  <2>2. (\A q \in Slot \ {r} : run'[q] = run[q]) /\ run'[r].pc = "acq_unarchive"
    BY <1>0, <1>10 DEF StartUnarchive, NotRunning
  <2> QED
    BY <2>1, <2>2 DEF QuietEffect, files, env
<1>11. CASE AcquireUnarchive(r) /\ ~Unpack(r)
  <2>1. UNCHANGED <<mirror, dir, tgz, part, list, env>>
    BY <1>11 DEF AcquireUnarchive, Unpack
  <2>2. \/ lock = None /\ lock' = r /\ GoTo(r, "exit")
        \/ UNCHANGED lock /\ run' = [run EXCEPT ![r] = NotRunning]
    BY <1>11 DEF AcquireUnarchive, Unpack
  <2> QED
    BY <2>1, <2>2, GoToFacts, NotRunningFacts DEF QuietEffect, env
<1>12. CASE Exit(r) \/ Crash(r)
  <2>1. run' = [run EXCEPT ![r] = NotRunning] /\ UNCHANGED <<files, source, version, clock>>
    BY <1>12 DEF Exit, Crash, env
  <2>2. lock' = lock \/ (lock = r /\ lock' = None)
    BY <1>0, <1>12 DEF Exit, Crash, At, LockedStep
  <2> QED
    BY <2>1, <2>2, NotRunningFacts DEF QuietEffect, files
<1> QED
  BY <1>1, <1>2, <1>3, <1>4, <1>5, <1>6, <1>7, <1>8, <1>9, <1>10, <1>11, <1>12 DEF Quiet

\* Whatever happens is a quiet step, a step that changes a snapshot, or the user's.
LEMMA StepKinds ==
  ASSUME Next
  PROVE  \/ \E r \in Slot :
               \/ Quiet(r)
               \/ \E f \in File : RsyncDelete(r, f) \/ RsyncReplace(r, f)
               \/ Tar(r) \/ Commit(r) \/ RemoveDir(r)
               \/ Unpack(r) \/ Extract(r)
         \/ \E f \in File : Edit(f) \/ Delete(f)
<1>1. ASSUME NEW r \in Slot, RunStep(r) \/ Crash(r)
      PROVE  \/ Quiet(r)
             \/ \E f \in File : RsyncDelete(r, f) \/ RsyncReplace(r, f)
             \/ Tar(r) \/ Commit(r) \/ RemoveDir(r)
             \/ Unpack(r) \/ Extract(r)
  <2>1. CASE Backup(r)
    BY <2>1 DEF Backup, Rsync, Quiet
  <2>2. CASE Archive(r)
    BY <2>2 DEF Archive, Quiet
  <2>3. CASE Unarchive(r)
    BY <2>3 DEF Unarchive, Quiet
  <2>4. CASE Exit(r) \/ Crash(r)
    BY <2>4 DEF Quiet
  <2> QED
    BY <1>1, <2>1, <2>2, <2>3, <2>4 DEF RunStep
<1>2. CASE \E r \in Slot : RunStep(r) \/ Crash(r)
  <2>1. PICK r \in Slot : RunStep(r) \/ Crash(r)
    BY <1>2
  <2>2. \/ Quiet(r)
        \/ \E f \in File : RsyncDelete(r, f) \/ RsyncReplace(r, f)
        \/ Tar(r) \/ Commit(r) \/ RemoveDir(r)
        \/ Unpack(r) \/ Extract(r)
    BY <1>1, <2>1
  <2> QED
    BY <2>2
<1> QED
  BY <1>2 DEF Next

--------------------------------------------------------------------------------
(* Work that is half done. *)

\* What a script has done so far with the snapshot or the file it is at.
Halfway(r) ==
    LET s == run[r].stamp IN
    /\ run[r].pc = "install" =>
          \E p \in File \X (1..MaxVersion) : run[r].new = {p} /\ mirror[p[1]] = 0
    /\ run[r].pc = "flist2" => dir[s] # Missing
    /\ run[r].pc = "verify" => \A f \in File : part[s][f] \in {0, dir[s][f]}
    /\ run[r].pc = "rm" => tgz[s] # Missing /\ \A f \in File : dir[s][f] # 0 => f \in run[r].todo
    /\ run[r].pc = "extract" =>
          /\ run[r].todo \subseteq Names(tgz[s])
          /\ \A f \in Names(tgz[s]) \ run[r].todo : dir[s][f] = tgz[s][f]

WorkInv == ProjectInv /\ \A r \in Slot : Halfway(r)

\* A script that does not have the lock is not halfway through anything.
LEMMA OtherHalfway ==
  ASSUME WorkInv, NEW r \in Slot, NEW q \in Slot \ {r}, run'[q] = run[q],
         lock \in {r, None} \/ UNCHANGED <<mirror, dir, tgz, part>>
  PROVE  Halfway(q)'
<1>1. ProjectInv /\ Halfway(q)
  BY DEF WorkInv
<1>2. CASE lock \in {r, None}
  <2>1. run[q].pc \notin LockedStep
    BY <1>1, <1>2, Known
  <2> QED
    BY <2>1 DEF Halfway, LockedStep
<1>3. CASE UNCHANGED <<mirror, dir, tgz, part>>
  BY <1>1, <1>3 DEF Halfway, Names
<1> QED
  BY <1>2, <1>3

LEMMA QuietHalfway == ASSUME WorkInv, NEW r \in Slot, Quiet(r) PROVE \A q \in Slot : Halfway(q)'
<1>1. QuietEffect(r) /\ None \notin Slot
  BY QuietFacts, Known DEF WorkInv
<1>2. Halfway(r)'
  BY <1>1 DEF QuietEffect, Halfway
<1>3. ASSUME NEW q \in Slot \ {r} PROVE Halfway(q)'
  <2>1. run'[q] = run[q] /\ (lock = r \/ UNCHANGED <<mirror, dir, tgz, part>>)
    BY <1>1 DEF QuietEffect
  <2> QED
    BY <2>1, OtherHalfway
<1> QED
  BY <1>2, <1>3

LEMMA LoudHalfway ==
  ASSUME WorkInv, NEW r \in Slot,
         \/ \E f \in File : RsyncDelete(r, f) \/ RsyncReplace(r, f)
         \/ Tar(r) \/ Commit(r) \/ RemoveDir(r) \/ Unpack(r) \/ Extract(r)
  PROVE  \A q \in Slot : Halfway(q)'
<1> DEFINE s == run[r].stamp
<1>0. ProjectInv /\ Halfway(r)
  BY DEF WorkInv
<1>1. lock \in {r, None} /\ \A q \in Slot \ {r} : run'[q] = run[q]
  BY <1>0, AsideFacts, TarFacts, CommitFacts, RemoveFacts, UnpackFacts, ExtractFacts
<1>2. \A q \in Slot \ {r} : Halfway(q)'
  BY <1>1, OtherHalfway
<1>3. ASSUME \E f \in File : RsyncDelete(r, f) \/ RsyncReplace(r, f) PROVE Halfway(r)'
  <2>1. PICK f \in File : RsyncDelete(r, f) \/ RsyncReplace(r, f)
    BY <1>3
  <2>2. /\ mirror' = [mirror EXCEPT ![f] = 0]
        /\ \/ run'[r].pc = "rsync"
           \/ /\ source[f] \in 1..MaxVersion /\ run'[r].pc = "install"
              /\ run'[r].new = {<<f, source[f]>>}
    BY <1>0, <2>1, AsideFacts
  <2>3. CASE run'[r].pc = "rsync"
    BY <2>3 DEF Halfway
  <2>4. CASE /\ source[f] \in 1..MaxVersion /\ run'[r].pc = "install"
             /\ run'[r].new = {<<f, source[f]>>}
    <3>1. <<f, source[f]>> \in File \X (1..MaxVersion)
      BY <2>4
    <3>2. mirror'[f] = 0
      BY <1>0, <2>2, Known DEF FilesOK, Tree
    <3> QED
      BY <2>4, <3>1, <3>2 DEF Halfway
  <2> QED
    BY <2>2, <2>3, <2>4
<1>4. ASSUME Tar(r) PROVE Halfway(r)'
  <2>1. /\ run'[r].stamp = s /\ run'[r].pc = "verify" /\ dir' = dir
        /\ \A f \in File : part'[s][f] \in {0, dir[s][f]}
    BY <1>0, <1>4, TarFacts
  <2> QED
    BY <2>1 DEF Halfway
<1>5. ASSUME Commit(r) PROVE Halfway(r)'
  <2>1. /\ UNCHANGED dir /\ part[s] \in Tree /\ run'[r].stamp = s
        /\ \/ /\ tgz'[s] = part[s] /\ run'[r].pc = "rm" /\ run'[r].todo = Names(dir[s])
           \/ run'[r].pc \in {"each", "exit"}
    BY <1>0, <1>5, CommitFacts
  <2>2. part[s] # Missing
    BY <1>0, <2>1, Known
  <2> QED
    BY <2>1, <2>2 DEF Halfway, Names
<1>6. ASSUME RemoveDir(r) PROVE Halfway(r)'
  BY <1>0, <1>6, RemoveFacts DEF Halfway
<1>7. ASSUME Unpack(r) PROVE Halfway(r)'
  BY <1>0, <1>7, UnpackFacts DEF Halfway
<1>8. ASSUME Extract(r) PROVE Halfway(r)'
  BY <1>0, <1>8, ExtractFacts DEF Halfway, Names
<1> QED
  BY <1>2, <1>3, <1>4, <1>5, <1>6, <1>7, <1>8

LEMMA UserHalfway ==
  ASSUME WorkInv, (\E f \in File : Edit(f) \/ Delete(f)) \/ UNCHANGED vars
  PROVE  \A q \in Slot : Halfway(q)'
<1>1. UNCHANGED <<mirror, dir, tgz, part, run>>
  BY DEF Edit, Delete, vars, files
<1> QED
  BY <1>1 DEF WorkInv, Halfway, Names

LEMMA WorkStep == WorkInv /\ [Next]_vars => WorkInv'
<1> SUFFICES ASSUME WorkInv, [Next]_vars PROVE WorkInv'
  OBVIOUS
<1>1. ProjectInv'
  BY ProjectStep DEF WorkInv
<1>2. \A q \in Slot : Halfway(q)'
  BY StepKinds, QuietHalfway, LoudHalfway, UserHalfway
<1> QED
  BY <1>1, <1>2 DEF WorkInv

LEMMA WorkInit == Init => WorkInv
<1> SUFFICES ASSUME Init PROVE WorkInv
  OBVIOUS
<1>1. \A r \in Slot : run[r].pc = "idle"
  BY DEF Init, NotRunning
<1> QED
  BY <1>1, ProjectInit DEF WorkInv, Halfway

--------------------------------------------------------------------------------
(* Backups with a second of their own. *)

Present(s) == dir[s] # Missing \/ tgz[s] # Missing
Backing == {"acq_backup", "rsync", "install"}

\* With a second of its own, a backup writes into a snapshot that nobody else has to do with.
StampPast(r) == run[r].pc \in Backing => run[r].stamp < clock
Fresh(r) ==
    LET s == run[r].stamp IN
    /\ run[r].pc = "acq_backup" => ~Present(s) /\ list[s] = Missing
    /\ run[r].pc \in {"rsync", "install", "flist"} => tgz[s] = Missing /\ list[s] = Missing
    /\ run[r].pc = "flist2" => tgz[s] = Missing
    /\ run[r].pc \in {"rsync", "install"} /\ dir[s] # Missing =>
          \A f \in run[r].todo : dir[s][f] # 0 =>
              run[r].pc = "install" /\ \A p \in run[r].new : p[1] = f
Own(q, r) ==
    q # r /\ {run[q].pc, run[r].pc} \subseteq Backing => run[q].stamp # run[r].stamp

StampParts ==
    /\ \A s \in Stamp : Present(s) \/ list[s] # Missing => s < clock
    /\ \A r \in Slot : StampPast(r) /\ Fresh(r)
    /\ \A q, r \in Slot : Own(q, r)

StampInv == WorkInv /\ StampParts

\* A filelist is only made for a directory that is there.
LEMMA ListMade ==
  ASSUME WorkInv, NEW r \in Slot, Quiet(r), NEW t \in Stamp
  PROVE  \/ list'[t] = list[t]
         \/ /\ lock = r /\ t = run[r].stamp /\ dir[t] # Missing
            /\ run[r].pc \in {"flist", "flist2", "alist", "alist2"}
<1>1. ProjectInv /\ Halfway(r) /\ QuietEffect(r) /\ Found(r)
  BY QuietFacts, Known DEF WorkInv
<1>2. list \in [Stamp -> (SUBSET File) \cup {Missing}]
  BY <1>1, Known DEF FilesOK
<1>3. CASE list' = list
  BY <1>3
<1>4. CASE /\ lock = r /\ run[r].pc \in {"flist", "flist2", "alist", "alist2"}
           /\ run[r].pc = "flist" => dir[run[r].stamp] # Missing
           /\ \E fs \in SUBSET File : list' = [list EXCEPT ![run[r].stamp] = fs]
  <2>1. dir[run[r].stamp] # Missing
    BY <1>1, <1>4 DEF Halfway, Found, Archiving
  <2> QED
    BY <1>2, <1>4, <2>1
<1> QED
  BY <1>1, <1>3, <1>4 DEF QuietEffect

\* archive and unarchive work on a snapshot that is there.
Reshape(r) == Tar(r) \/ Commit(r) \/ RemoveDir(r) \/ Unpack(r) \/ Extract(r)

LEMMA ReshapeFacts ==
  ASSUME ProjectInv, NEW r \in Slot, Reshape(r)
  PROVE  LET s == run[r].stamp IN
         /\ s \in Stamp /\ Present(s) /\ lock \in {r, None}
         /\ UNCHANGED <<mirror, list, livelist, lastrun, env>>
         /\ \A t \in Stamp \ {s} : dir'[t] = dir[t] /\ tgz'[t] = tgz[t]
         /\ \A q \in Slot \ {r} : run'[q] = run[q]
         /\ run'[r].pc \in {"verify", "rm", "each", "extract", "exit"} /\ run'[r].stamp = s
<1> DEFINE s == run[r].stamp
<1>1. Missing \notin Tree
  BY Known
<1>2. CASE Tar(r)
  BY <1>1, <1>2, TarFacts DEF Present
<1>3. CASE Commit(r)
  BY <1>1, <1>3, CommitFacts DEF Present
<1>4. CASE RemoveDir(r)
  BY <1>1, <1>4, RemoveFacts DEF Present
<1>5. CASE Unpack(r)
  BY <1>1, <1>5, UnpackFacts DEF Present
<1>6. CASE Extract(r)
  BY <1>1, <1>6, ExtractFacts DEF Present
<1> QED
  BY <1>2, <1>3, <1>4, <1>5, <1>6 DEF Reshape

LEMMA QuietStamps ==
  ASSUME SameSecond = FALSE, StampInv, NEW r \in Slot, Quiet(r)
  PROVE  StampParts'
<1>1. ProjectInv /\ WorkInv /\ QuietEffect(r) /\ None \notin Slot
  BY QuietFacts, Known DEF WorkInv, StampInv, StampParts
<1>2. clock \in Nat /\ Stamp \subseteq Nat /\ \A q \in Slot : run[q].stamp \in Nat
  BY <1>1, Known, ProjectAssumption DEF EnvOK, Stamp
<1>3. clock' \in Nat /\ clock <= clock'
  BY <1>1, <1>2 DEF QuietEffect
<1>4. ASSUME NEW t \in Stamp PROVE Present(t)' \/ list'[t] # Missing => t < clock'
  BY <1>1, <1>2, <1>3, ListMade DEF StampInv, StampParts, Present, QuietEffect
<1>5. ASSUME NEW q \in Slot PROVE StampPast(q)'
  <2>1. CASE q = r
    BY <1>1, <1>2, <1>3, <2>1 DEF StampInv, StampParts, StampPast, Backing, QuietEffect
  <2>2. CASE q # r
    BY <1>1, <1>2, <1>3, <2>2 DEF StampInv, StampParts, StampPast, Backing, QuietEffect
  <2> QED
    BY <2>1, <2>2
<1>6. ASSUME NEW q \in Slot \ {r} PROVE Fresh(q)'
  <2>1. /\ run'[q] = run[q] /\ Fresh(q) /\ UNCHANGED <<dir, tgz>>
        /\ (run[q].pc \in LockedStep <=> lock = q) /\ Found(q) /\ StampPast(q)
    BY <1>1, Known DEF QuietEffect, StampInv, StampParts
  <2>2. CASE run[q].pc \in {"acq_backup", "rsync", "install", "flist"}
    <3>1. run[q].stamp \in Stamp \/ run[q].pc = "flist"
      BY <2>1, <2>2 DEF Found, AboutStamp
    <3>2. list'[run[q].stamp] = list[run[q].stamp]
      <4>1. CASE run[q].pc = "acq_backup"
        BY <1>1, <2>1, <3>1, <4>1, ListMade DEF Fresh, Present
      <4>2. CASE run[q].pc \in {"rsync", "install", "flist"}
        BY <1>1, <2>1, <4>2 DEF LockedStep, QuietEffect
      <4> QED
        BY <2>2, <4>1, <4>2
    <3> QED
      BY <2>1, <3>2 DEF Fresh, Present
  <2>3. CASE run[q].pc \notin {"acq_backup", "rsync", "install", "flist"}
    BY <2>1, <2>3 DEF Fresh
  <2> QED
    BY <2>2, <2>3
<1>7. Fresh(r)'
  <2>1. Fresh(r) /\ UNCHANGED <<dir, tgz>> /\ Halfway(r)
    BY <1>1 DEF QuietEffect, StampInv, StampParts, WorkInv
  <2>2. CASE run'[r].pc = "acq_backup"
    <3>1. run'[r].stamp = clock /\ clock \in Stamp /\ list' = list
      BY <1>1, <2>2 DEF QuietEffect
    <3>2. ~Present(clock) /\ list[clock] = Missing
      BY <1>2, <3>1 DEF StampInv, StampParts
    <3> QED
      BY <2>1, <2>2, <3>1, <3>2 DEF Fresh, Present
  <2>3. CASE run'[r].pc = "rsync"
    <3>1. run'[r].stamp = run[r].stamp /\ list' = list
      BY <1>1, <2>3 DEF QuietEffect
    <3>2. CASE run[r].pc = "acq_backup"
      BY <2>1, <2>3, <3>1, <3>2 DEF Fresh, Present
    <3>3. CASE run[r].pc = "rsync" /\ run'[r].todo \subseteq run[r].todo
      BY <2>1, <2>3, <3>1, <3>3 DEF Fresh
    <3>4. CASE run[r].pc = "install" /\ \E p \in run[r].new : run'[r].todo = run[r].todo \ {p[1]}
      BY <2>1, <2>3, <3>1, <3>4 DEF Fresh
    <3> QED
      BY <1>1, <2>3, <3>2, <3>3, <3>4 DEF QuietEffect
  <2>4. CASE run'[r].pc \in {"flist", "flist2"}
    BY <1>1, <2>1, <2>4 DEF Fresh, QuietEffect
  <2>5. CASE run'[r].pc \notin {"acq_backup", "rsync", "install", "flist", "flist2"}
    BY <2>5 DEF Fresh
  <2> QED
    BY <1>1, <2>2, <2>3, <2>4, <2>5 DEF QuietEffect
<1>8. ASSUME NEW p \in Slot, NEW q \in Slot PROVE Own(p, q)'
  <2>1. \A u \in Slot : u # r => run'[u] = run[u]
    BY <1>1 DEF QuietEffect
  <2>2. run'[r].pc \in Backing =>
          \/ run'[r].stamp = clock
          \/ run'[r].stamp = run[r].stamp /\ run[r].pc \in Backing
    BY <1>1 DEF QuietEffect, Backing
  <2>3. /\ Own(p, q) /\ Own(q, p)
        /\ StampPast(p) /\ StampPast(q)
    BY DEF StampInv, StampParts
  <2> QED
    BY <1>2, <2>1, <2>2, <2>3 DEF Own, StampPast
<1> QED
  BY <1>4, <1>5, <1>6, <1>7, <1>8 DEF StampParts

LEMMA AsideStamps ==
  ASSUME StampInv, NEW r \in Slot, NEW f \in File, RsyncDelete(r, f) \/ RsyncReplace(r, f)
  PROVE  StampParts'
<1> DEFINE s == run[r].stamp
<1>1. ProjectInv /\ None \notin Slot
  BY Known DEF WorkInv, StampInv, StampParts
<1>2. /\ run[r].pc = "rsync" /\ lock = r /\ s \in Stamp
      /\ UNCHANGED <<tgz, list, clock>>
      /\ dir'[s] # Missing
      /\ \A g \in File \ {f} : dir'[s][g] = IF dir[s] = Missing THEN 0 ELSE dir[s][g]
      /\ \A t \in Stamp \ {s} : dir'[t] = dir[t]
      /\ \A q \in Slot \ {r} : run'[q] = run[q]
      /\ run'[r].stamp = s
      /\ \/ run'[r].pc = "rsync" /\ run'[r].todo = run[r].todo \ {f}
         \/ /\ run'[r].pc = "install"
            /\ run'[r].todo = run[r].todo /\ run'[r].new = {<<f, source[f]>>}
  BY <1>1, AsideFacts DEF env
<1>3. ASSUME NEW t \in Stamp PROVE Present(t)' \/ list'[t] # Missing => t < clock'
  BY <1>2 DEF StampInv, StampParts, Present, StampPast, Backing
<1>4. ASSUME NEW q \in Slot PROVE StampPast(q)'
  BY <1>2 DEF StampInv, StampParts, StampPast, Backing
<1>5. ASSUME NEW q \in Slot \ {r} PROVE Fresh(q)'
  <2>1. Fresh(q) /\ Found(q) /\ Own(q, r) /\ run'[q] = run[q] /\ run[q].pc \notin LockedStep
    BY <1>1, <1>2, Known DEF StampInv, StampParts
  <2>2. CASE run[q].pc = "acq_backup"
    <3>1. run[q].stamp \in Stamp \ {s}
      BY <1>2, <2>1, <2>2 DEF Own, Backing, Found, AboutStamp
    <3> QED
      BY <1>2, <2>1, <2>2, <3>1 DEF Fresh, Present
  <2>3. CASE run[q].pc # "acq_backup"
    BY <2>1, <2>3 DEF Fresh, LockedStep
  <2> QED
    BY <2>2, <2>3
<1>6. Fresh(r)'
  <2>1. run[r].todo \subseteq File /\ Fresh(r)
    BY <1>1, Known DEF StampInv, StampParts
  <2>2. \A g \in run[r].todo \ {f} : dir'[s][g] = 0
    BY <1>2, <2>1 DEF Fresh
  <2> QED
    BY <1>2, <2>1, <2>2 DEF Fresh
<1>7. ASSUME NEW p \in Slot, NEW q \in Slot PROVE Own(p, q)'
  BY <1>2 DEF StampInv, StampParts, Own, Backing
<1> QED
  BY <1>3, <1>4, <1>5, <1>6, <1>7 DEF StampParts

LEMMA ReshapeStamps ==
  ASSUME StampInv, NEW r \in Slot, Reshape(r)
  PROVE  StampParts'
<1> DEFINE s == run[r].stamp
<1>1. ProjectInv /\ None \notin Slot
  BY Known DEF WorkInv, StampInv, StampParts
<1>2. /\ s \in Stamp /\ Present(s) /\ lock \in {r, None}
      /\ UNCHANGED <<list, clock>>
      /\ \A t \in Stamp \ {s} : dir'[t] = dir[t] /\ tgz'[t] = tgz[t]
      /\ \A q \in Slot \ {r} : run'[q] = run[q]
      /\ run'[r].pc \in {"verify", "rm", "each", "extract", "exit"}
  BY <1>1, ReshapeFacts DEF env
<1>3. ASSUME NEW t \in Stamp PROVE Present(t)' \/ list'[t] # Missing => t < clock'
  BY <1>2 DEF StampInv, StampParts, Present
<1>4. ASSUME NEW q \in Slot PROVE StampPast(q)'
  BY <1>2 DEF StampInv, StampParts, StampPast, Backing
<1>5. ASSUME NEW q \in Slot \ {r} PROVE Fresh(q)'
  <2>1. Fresh(q) /\ Found(q) /\ run'[q] = run[q] /\ run[q].pc \notin LockedStep
    BY <1>1, <1>2, Known DEF StampInv, StampParts
  <2>2. CASE run[q].pc = "acq_backup"
    <3>1. run[q].stamp \in Stamp \ {s}
      BY <1>2, <2>1, <2>2 DEF Fresh, Found, AboutStamp
    <3> QED
      BY <1>2, <2>1, <2>2, <3>1 DEF Fresh, Present
  <2>3. CASE run[q].pc # "acq_backup"
    BY <2>1, <2>3 DEF Fresh, LockedStep
  <2> QED
    BY <2>2, <2>3
<1>6. Fresh(r)'
  BY <1>2 DEF Fresh
<1>7. ASSUME NEW p \in Slot, NEW q \in Slot PROVE Own(p, q)'
  BY <1>2 DEF StampInv, StampParts, Own, Backing
<1> QED
  BY <1>3, <1>4, <1>5, <1>6, <1>7 DEF StampParts

LEMMA StampStep == SameSecond = FALSE /\ StampInv /\ [Next]_vars => StampInv'
<1> SUFFICES ASSUME SameSecond = FALSE, StampInv, [Next]_vars PROVE StampInv'
  OBVIOUS
<1>1. WorkInv'
  BY WorkStep DEF StampInv, StampParts
<1>2. CASE (\E f \in File : Edit(f) \/ Delete(f)) \/ UNCHANGED vars
  <2>1. UNCHANGED <<dir, tgz, list, run, clock>>
    BY <1>2 DEF Edit, Delete, vars, files, env
  <2> QED
    BY <1>1, <2>1 DEF StampInv, StampParts, StampPast, Fresh, Own, Present
<1>3. CASE \E r \in Slot : Quiet(r) \/ Reshape(r)
                           \/ \E f \in File : RsyncDelete(r, f) \/ RsyncReplace(r, f)
  <2>1. StampParts'
    BY <1>3, QuietStamps, AsideStamps, ReshapeStamps
  <2> QED
    BY <1>1, <2>1 DEF StampInv, StampParts
<1> QED
  BY <1>2, <1>3, StepKinds DEF Reshape

LEMMA StampInit == Init => StampInv
<1> SUFFICES ASSUME Init PROVE StampInv
  OBVIOUS
<1>1. /\ \A r \in Slot : run[r].pc = "idle"
      /\ \A s \in Stamp : dir[s] = Missing /\ tgz[s] = Missing /\ list[s] = Missing
  BY DEF Init, NotRunning
<1> QED
  BY <1>1, WorkInit DEF StampInv, StampParts, StampPast, Fresh, Own, Present, Backing

--------------------------------------------------------------------------------
(* The history as its readers see it. *)

\* The lock holder's task, by the step it is at.
TaskAt(pc) ==
    CASE pc \in {"rsync", "install"} -> "backup"
      [] pc = "verify" -> "archive"
      [] pc = "rm" -> "remove"
      [] pc = "extract" -> "extract"
      [] OTHER -> "none"

LEMMA WriterFree ==
  /\ lock = None => Writer = [task |-> "none", snap |-> 0]
  /\ lock' = None => Writer' = [task |-> "none", snap |-> 0]
BY DEF Writer

LEMMA WriterAt ==
  ASSUME NEW r \in Slot, lock = r
  PROVE  Writer = [task |-> TaskAt(run[r].pc),
                   snap |-> IF TaskAt(run[r].pc) = "none" THEN 0 ELSE run[r].stamp]
<1>1. (CHOOSE q \in Slot : lock = q) = r /\ lock # None
  BY ProjectAssumption
<1> QED
  BY <1>1 DEF Writer, TaskAt

LEMMA WriterThen ==
  ASSUME NEW r \in Slot, lock' = r
  PROVE  Writer' = [task |-> TaskAt(run'[r].pc),
                    snap |-> IF TaskAt(run'[r].pc) = "none" THEN 0 ELSE run'[r].stamp]
<1>1. (CHOOSE q \in Slot : lock' = q) = r /\ lock' # None
  BY ProjectAssumption
<1> QED
  BY <1>1 DEF Writer, TaskAt

\* Whatever leaves the snapshots alone ends the writer's task, if anything.
LEMMA QuietSeen ==
  ASSUME StampInv, NEW r \in Slot, Quiet(r)
  PROVE  [Snapshots!SnapNext]_(Snapshots!snapvars)
<1> USE DEF Snapshots!Nobody, Snapshots!disk, Snapshots!snapvars
<1>1. ProjectInv /\ QuietEffect(r) /\ None \notin Slot /\ lock \in Slot \cup {None} /\ Fresh(r)
      /\ Found(r) /\ (run[r].pc \in LockedStep <=> lock = r)
  BY QuietFacts, Known DEF WorkInv, StampInv, StampParts
<1>2. UNCHANGED <<Shown(dir), Shown(tgz), Shown(part)>>
  BY <1>1 DEF QuietEffect, Shown
<1>3. CASE Writer' = Snapshots!Nobody
  BY <1>2, <1>3 DEF Snapshots!Stop, Snapshots!SnapNext
<1>4. CASE lock \notin {r, None}
  <2>1. PICK q \in Slot \ {r} : lock = q
    BY <1>1, <1>4
  <2>2. lock' = q /\ run'[q] = run[q]
    BY <1>1, <1>4, <2>1 DEF QuietEffect
  <2>3. Writer' = Writer
    BY <2>1, <2>2, WriterAt, WriterThen
  <2> QED
    BY <1>2, <2>3
<1>5. CASE lock' = None
  BY <1>3, <1>5, WriterFree
<1>6. CASE lock' = r /\ run'[r].pc # "rsync"
  <2>1. TaskAt(run'[r].pc) = "none"
    BY <1>1, <1>6 DEF QuietEffect, TaskAt
  <2> QED
    BY <1>3, <1>6, <2>1, WriterThen
<1>7. CASE lock' = r /\ run'[r].pc = "rsync" /\ run[r].pc = "acq_backup" /\ lock = None
  <2> DEFINE s == run[r].stamp
  <2>1. Writer' = [task |-> "backup", snap |-> s]
    BY <1>1, <1>7, WriterThen DEF TaskAt, QuietEffect
  <2>2. s \in Stamp /\ dir[s] = Missing /\ tgz[s] = Missing
    BY <1>1, <1>7 DEF Fresh, Present, Found, AboutStamp
  <2>3. Snapshots!BeginBackup(s)
    BY <1>2, <1>7, <2>1, <2>2, WriterFree DEF Snapshots!BeginBackup, Snapshots!BeBusy, Shown
  <2> QED
    BY <2>2, <2>3 DEF Snapshots!SnapNext
<1>8. CASE lock' = r /\ run'[r].pc = "rsync" /\ run[r].pc \in {"rsync", "install"} /\ lock = r
  <2>1. run'[r].stamp = run[r].stamp
    BY <1>1, <1>8 DEF QuietEffect
  <2>2. Writer' = Writer
    BY <1>8, <2>1, WriterAt, WriterThen DEF TaskAt
  <2> QED
    BY <1>2, <2>2
<1> QED
  BY <1>1, <1>4, <1>5, <1>6, <1>7, <1>8 DEF QuietEffect

LEMMA AsideSeen ==
  ASSUME StampInv, NEW r \in Slot, NEW f \in File, RsyncDelete(r, f) \/ RsyncReplace(r, f)
  PROVE  Snapshots!SnapNext
<1> DEFINE s == run[r].stamp
<1>1. /\ run[r].pc = "rsync" /\ lock = r /\ lock' = r /\ s \in Stamp
      /\ UNCHANGED <<tgz, part>>
      /\ mirror[f] # 0
      /\ dir'[s] # Missing
      /\ \A g \in File : dir'[s][g] = IF g = f THEN mirror[f]
                                      ELSE IF dir[s] = Missing THEN 0 ELSE dir[s][g]
      /\ \A t \in Stamp \ {s} : dir'[t] = dir[t]
      /\ run'[r].stamp = s /\ run'[r].pc \in {"rsync", "install"}
  BY AsideFacts DEF StampInv, WorkInv
<1>2. Writer = [task |-> "backup", snap |-> s] /\ Writer' = Writer
  BY <1>1, WriterAt, WriterThen DEF TaskAt
<1>3. Names(dir'[s]) = {f} \cup (IF dir[s] = Missing THEN {} ELSE Names(dir[s]))
  BY <1>1 DEF Names
<1>4. Shown(dir)' = [Shown(dir) EXCEPT ![s] = {f} \cup (IF @ = Missing THEN {} ELSE @)]
  <2>1. Missing # Names(dir[s])
    BY ProjectAssumption DEF Names
  <2> QED
    BY <1>1, <1>3, <2>1 DEF Shown
<1>5. Snapshots!PutAside(s, f)
  BY <1>1, <1>2, <1>4 DEF Snapshots!PutAside, Snapshots!Busy, Shown
<1> QED
  BY <1>1, <1>5 DEF Snapshots!SnapNext

LEMMA TarSeen == ASSUME StampInv, NEW r \in Slot, Tar(r) PROVE Snapshots!SnapNext
<1> DEFINE s == run[r].stamp
<1>1. /\ run[r].pc = "tar" /\ lock = r /\ lock' = r /\ s \in Stamp /\ dir[s] \in Tree
      /\ UNCHANGED <<dir, tgz>>
      /\ part'[s] # Missing /\ \A f \in File : part'[s][f] \in {0, dir[s][f]}
      /\ \A t \in Stamp \ {s} : part'[t] = part[t]
      /\ run'[r].stamp = s /\ run'[r].pc = "verify"
  BY TarFacts DEF StampInv, WorkInv
<1>2. Writer = Snapshots!Nobody /\ Writer' = [task |-> "archive", snap |-> s]
  BY <1>1, WriterAt, WriterThen DEF TaskAt, Snapshots!Nobody
<1>3. Names(part'[s]) \in SUBSET Names(dir[s])
  BY <1>1 DEF Names
<1>4. dir[s] # Missing /\ Shown(dir)[s] = Names(dir[s])
  BY <1>1, ProjectAssumption DEF Shown, Tree
<1>5. Shown(part)' = [Shown(part) EXCEPT ![s] = Names(part'[s])]
  BY <1>1 DEF Shown
<1>6. Names(dir[s]) # Missing
  BY ProjectAssumption DEF Names
<1>7. Snapshots!Pack(s)
  BY <1>1, <1>2, <1>3, <1>4, <1>5, <1>6 DEF Snapshots!Pack, Snapshots!BeBusy, Shown
<1> QED
  BY <1>1, <1>7 DEF Snapshots!SnapNext

\* The two modules count alike.
LEMMA SameCount == \A S : Snapshots!Cardinality(S) = Cardinality(S)
BY DEF Snapshots!Cardinality, Cardinality

LEMMA CommitSeen == ASSUME StampInv, NEW r \in Slot, Commit(r) PROVE Snapshots!SnapNext
<1> DEFINE s == run[r].stamp
<1>1. /\ run[r].pc = "verify" /\ lock = r /\ lock' = r /\ s \in Stamp /\ dir[s] \in Tree /\ part[s] \in Tree
      /\ UNCHANGED dir
      /\ run'[r].stamp = s
      /\ \/ /\ Cardinality(Names(part[s])) = Cardinality(Names(dir[s]))
            /\ tgz' = [tgz EXCEPT ![s] = part[s]]
            /\ part' = [part EXCEPT ![s] = Missing]
            /\ run'[r].pc = "rm"
         \/ run'[r].pc = "each" /\ UNCHANGED <<tgz, part>>
         \/ /\ run'[r].pc = "exit" /\ UNCHANGED tgz
            /\ part' = [part EXCEPT ![s] = Missing]
  BY CommitFacts DEF StampInv, WorkInv
<1>2. Snapshots!Busy("archive", s)
  BY <1>1, WriterAt DEF TaskAt, Snapshots!Busy
<1>3. Shown(dir)' = Shown(dir) /\ Shown(dir)[s] = Names(dir[s]) /\ Shown(part)[s] = Names(part[s])
  BY <1>1, ProjectAssumption DEF Shown, Tree
<1>4. /\ tgz \in [Stamp -> Tree \cup {Missing}] /\ part \in [Stamp -> Tree \cup {Missing}]
      /\ Missing \notin Tree
  BY Known DEF FilesOK, StampInv, WorkInv
<1>5. CASE /\ Cardinality(Names(part[s])) = Cardinality(Names(dir[s]))
           /\ tgz' = [tgz EXCEPT ![s] = part[s]]
           /\ part' = [part EXCEPT ![s] = Missing]
           /\ run'[r].pc = "rm"
  <2>1. Writer' = [task |-> "remove", snap |-> s]
    BY <1>1, <1>5, WriterThen DEF TaskAt
  <2>2. Shown(tgz)' = [Shown(tgz) EXCEPT ![s] = Shown(part)[s]]
    BY <1>1, <1>3, <1>4, <1>5 DEF Shown
  <2>3. Shown(part)' = [Shown(part) EXCEPT ![s] = Missing]
    BY <1>1, <1>4, <1>5 DEF Shown
  <2>4. Snapshots!Commit(s)
    BY <1>2, <1>3, <1>5, <2>1, <2>2, <2>3, SameCount DEF Snapshots!Commit, Snapshots!BeBusy
  <2> QED
    BY <1>1, <2>4 DEF Snapshots!SnapNext
<1>6. CASE run'[r].pc = "each" /\ UNCHANGED <<tgz, part>>
  <2>1. Writer' = Snapshots!Nobody
    BY <1>1, <1>6, WriterThen DEF TaskAt, Snapshots!Nobody
  <2>2. UNCHANGED <<Shown(tgz), Shown(part)>>
    BY <1>6 DEF Shown
  <2>3. Writer # Snapshots!Nobody
    BY <1>2 DEF Snapshots!Busy, Snapshots!Nobody
  <2> QED
    BY <1>3, <2>1, <2>2, <2>3 DEF Snapshots!Stop, Snapshots!SnapNext, Snapshots!disk
<1>7. CASE /\ run'[r].pc = "exit" /\ UNCHANGED tgz
           /\ part' = [part EXCEPT ![s] = Missing]
  <2>1. Writer' = Snapshots!Nobody
    BY <1>1, <1>7, WriterThen DEF TaskAt, Snapshots!Nobody
  <2>2. Shown(part)' = [Shown(part) EXCEPT ![s] = Missing]
    BY <1>1, <1>4, <1>7 DEF Shown
  <2>3. Shown(tgz)' = Shown(tgz)
    BY <1>7 DEF Shown
  <2>4. Snapshots!DropPart(s)
    BY <1>2, <1>3, <2>1, <2>2, <2>3 DEF Snapshots!DropPart
  <2> QED
    BY <1>1, <2>4 DEF Snapshots!SnapNext
<1> QED
  BY <1>1, <1>5, <1>6, <1>7

LEMMA RemoveSeen ==
  ASSUME StampInv, NEW r \in Slot, RemoveDir(r)
  PROVE  [Snapshots!SnapNext]_(Snapshots!snapvars)
<1> DEFINE s == run[r].stamp
<1>1. /\ run[r].pc = "rm" /\ lock = r /\ lock' = r /\ s \in Stamp /\ dir[s] \in Tree
      /\ UNCHANGED <<tgz, part>>
      /\ \A t \in Stamp \ {s} : dir'[t] = dir[t]
      /\ run'[r].stamp = s
      /\ \/ \E f \in run[r].todo :
               /\ dir'[s] \in Tree /\ \A g \in File : dir'[s][g] = IF g = f THEN 0 ELSE dir[s][g]
               /\ run'[r].pc = "rm"
         \/ /\ run[r].todo = {} /\ dir'[s] = Missing
            /\ run'[r].pc = "each"
         \/ UNCHANGED dir /\ run'[r].pc = "each"
  BY RemoveFacts DEF StampInv, WorkInv
<1>2. Snapshots!Busy("remove", s)
  BY <1>1, WriterAt DEF TaskAt, Snapshots!Busy
<1>3. /\ Shown(tgz)' = Shown(tgz) /\ Shown(part)' = Shown(part)
      /\ dir[s] # Missing /\ Shown(dir)[s] = Names(dir[s])
  BY <1>1, ProjectAssumption DEF Shown, Tree
<1>4. Missing \notin Tree /\ Halfway(r) /\ run[r].todo \subseteq File
  BY Known DEF StampInv, WorkInv
<1>5. ASSUME NEW f \in run[r].todo,
             dir'[s] \in Tree, \A g \in File : dir'[s][g] = IF g = f THEN 0 ELSE dir[s][g],
             run'[r].pc = "rm"
      PROVE  [Snapshots!SnapNext]_(Snapshots!snapvars)
  <2>1. Writer' = Writer
    BY <1>1, <1>2, <1>5, WriterThen DEF TaskAt, Snapshots!Busy
  <2>2. Names(dir'[s]) = Names(dir[s]) \ {f}
    BY <1>4, <1>5 DEF Names
  <2>3. Shown(dir)' = [Shown(dir) EXCEPT ![s] = @ \ {f}]
    <3>1. Shown(dir)'[s] = Shown(dir)[s] \ {f}
      BY <1>1, <1>3, <1>4, <1>5, <2>2 DEF Shown
    <3>2. \A t \in Stamp \ {s} : Shown(dir)'[t] = Shown(dir)[t]
      BY <1>1 DEF Shown
    <3> QED
      BY <3>1, <3>2 DEF Shown
  <2>4. CASE f \in Names(dir[s])
    <3>1. f \in Shown(dir)[s] /\ UNCHANGED <<Writer, Shown(tgz), Shown(part)>>
      BY <1>3, <2>1, <2>4
    <3>2. Snapshots!Remove(s)
      BY <1>2, <2>3, <3>1 DEF Snapshots!Remove
    <3> QED
      BY <1>1, <3>2 DEF Snapshots!SnapNext
  <2>5. CASE f \notin Names(dir[s])
    <3>1. Names(dir'[s]) = Names(dir[s]) /\ dir'[s] # Missing
      BY <1>4, <1>5, <2>2, <2>5
    <3>2. Shown(dir)' = Shown(dir)
      BY <1>1, <1>3, <3>1 DEF Shown
    <3> QED
      BY <1>3, <2>1, <3>2 DEF Snapshots!snapvars
  <2> QED
    BY <2>4, <2>5
<1>6. CASE run[r].todo = {} /\ dir'[s] = Missing /\ run'[r].pc = "each"
  <2>1. Writer' = Snapshots!Nobody
    BY <1>1, <1>6, WriterThen DEF TaskAt, Snapshots!Nobody
  <2>2. Names(dir[s]) = {}
    BY <1>1, <1>4, <1>6 DEF Halfway, Names
  <2>3. Shown(dir)' = [Shown(dir) EXCEPT ![s] = Missing]
    BY <1>1, <1>6 DEF Shown
  <2>4. Snapshots!Remove(s)
    BY <1>2, <1>3, <2>1, <2>2, <2>3 DEF Snapshots!Remove
  <2> QED
    BY <1>1, <2>4 DEF Snapshots!SnapNext
<1>7. CASE UNCHANGED dir /\ run'[r].pc = "each"
  <2>1. Writer' = Snapshots!Nobody
    BY <1>1, <1>7, WriterThen DEF TaskAt, Snapshots!Nobody
  <2>2. Writer # Snapshots!Nobody
    BY <1>2 DEF Snapshots!Busy, Snapshots!Nobody
  <2>3. Shown(dir)' = Shown(dir)
    BY <1>7 DEF Shown
  <2> QED
    BY <1>3, <2>1, <2>2, <2>3 DEF Snapshots!Stop, Snapshots!SnapNext, Snapshots!disk
<1> QED
  BY <1>1, <1>5, <1>6, <1>7

LEMMA UnpackSeen == ASSUME StampInv, NEW r \in Slot, Unpack(r) PROVE Snapshots!SnapNext
<1> DEFINE s == run[r].stamp
<1>1. /\ lock = None /\ lock' = r /\ s \in Stamp /\ tgz[s] \in Tree
      /\ UNCHANGED <<tgz, part>>
      /\ \A t \in Stamp \ {s} : dir'[t] = dir[t]
      /\ dir'[s] # Missing
      /\ \A g \in File : dir'[s][g] = IF dir[s] = Missing THEN 0 ELSE dir[s][g]
      /\ run'[r].stamp = s /\ run'[r].pc = "extract"
  BY UnpackFacts DEF StampInv, WorkInv
<1>2. Writer = Snapshots!Nobody /\ Writer' = [task |-> "extract", snap |-> s]
  BY <1>1, WriterFree, WriterThen DEF TaskAt, Snapshots!Nobody
<1>3. Names(dir'[s]) = IF dir[s] = Missing THEN {} ELSE Names(dir[s])
  BY <1>1 DEF Names
<1>4. Names(dir[s]) # Missing /\ Names(tgz[s]) # Missing /\ tgz[s] # Missing
  BY <1>1, ProjectAssumption DEF Names, Tree
<1>5. Shown(dir)' = [Shown(dir) EXCEPT ![s] = IF @ = Missing THEN {} ELSE @]
  BY <1>1, <1>3, <1>4 DEF Shown
<1>6. Snapshots!BeginExtract(s)
  BY <1>1, <1>2, <1>4, <1>5 DEF Snapshots!BeginExtract, Snapshots!BeBusy, Shown
<1> QED
  BY <1>1, <1>6 DEF Snapshots!SnapNext

LEMMA ExtractSeen == ASSUME StampInv, NEW r \in Slot, Extract(r) PROVE Snapshots!SnapNext
<1> DEFINE s == run[r].stamp
<1>1. /\ run[r].pc = "extract" /\ lock = r /\ lock' = r /\ s \in Stamp
      /\ dir[s] \in Tree /\ tgz[s] \in Tree
      /\ UNCHANGED part
      /\ \A t \in Stamp \ {s} : dir'[t] = dir[t] /\ tgz'[t] = tgz[t]
      /\ run'[r].stamp = s
      /\ \/ \E f \in run[r].todo :
               /\ UNCHANGED tgz /\ dir'[s] # Missing
               /\ \A g \in File : dir'[s][g] = IF g = f THEN tgz[s][f] ELSE dir[s][g]
               /\ run'[r].pc = "extract"
         \/ /\ run[r].todo = {} /\ UNCHANGED dir /\ tgz'[s] = Missing
            /\ run'[r].pc = "exit"
         \/ UNCHANGED <<dir, tgz>> /\ run'[r].pc = "exit"
  BY ExtractFacts DEF StampInv, WorkInv
<1>2. Snapshots!Busy("extract", s)
  BY <1>1, WriterAt DEF TaskAt, Snapshots!Busy
<1>3. /\ dir[s] # Missing /\ Shown(dir)[s] = Names(dir[s])
      /\ tgz[s] # Missing /\ Shown(tgz)[s] = Names(tgz[s])
      /\ Shown(part)' = Shown(part)
  BY <1>1, ProjectAssumption DEF Shown, Tree
<1>4. Halfway(r) /\ run[r].todo \subseteq File
  BY Known DEF StampInv, WorkInv
<1>5. run[r].todo \subseteq Names(tgz[s]) /\ \A f \in Names(tgz[s]) \ run[r].todo : dir[s][f] = tgz[s][f]
  BY <1>1, <1>4 DEF Halfway
<1>6. ASSUME NEW f \in run[r].todo, UNCHANGED tgz, dir'[s] # Missing,
             \A g \in File : dir'[s][g] = IF g = f THEN tgz[s][f] ELSE dir[s][g],
             run'[r].pc = "extract"
      PROVE  Snapshots!SnapNext
  <2>1. Writer' = Writer
    BY <1>1, <1>2, <1>6, WriterThen DEF TaskAt, Snapshots!Busy
  <2>2. Names(dir'[s]) = Names(dir[s]) \cup {f} /\ f \in Names(tgz[s])
    BY <1>4, <1>5, <1>6 DEF Names
  <2>3. Shown(dir)' = [Shown(dir) EXCEPT ![s] = @ \cup {f}]
    BY <1>1, <1>3, <1>6, <2>2 DEF Shown
  <2>4. Shown(tgz)' = Shown(tgz)
    BY <1>6 DEF Shown
  <2>5. Snapshots!Extract(s)
    BY <1>2, <1>3, <2>1, <2>2, <2>3, <2>4 DEF Snapshots!Extract
  <2> QED
    BY <1>1, <2>5 DEF Snapshots!SnapNext
<1>7. CASE run[r].todo = {} /\ UNCHANGED dir /\ tgz'[s] = Missing /\ run'[r].pc = "exit"
  <2>1. Writer' = Snapshots!Nobody
    BY <1>1, <1>7, WriterThen DEF TaskAt, Snapshots!Nobody
  <2>2. Names(tgz[s]) \subseteq Names(dir[s])
    BY <1>5, <1>7 DEF Names
  <2>3. Shown(tgz)' = [Shown(tgz) EXCEPT ![s] = Missing]
    BY <1>1, <1>7 DEF Shown
  <2>4. Shown(dir)' = Shown(dir)
    BY <1>7 DEF Shown
  <2>5. Snapshots!Extract(s)
    BY <1>2, <1>3, <2>1, <2>2, <2>3, <2>4 DEF Snapshots!Extract
  <2> QED
    BY <1>1, <2>5 DEF Snapshots!SnapNext
<1>8. CASE UNCHANGED <<dir, tgz>> /\ run'[r].pc = "exit"
  <2>1. Writer' = Snapshots!Nobody
    BY <1>1, <1>8, WriterThen DEF TaskAt, Snapshots!Nobody
  <2>2. Writer # Snapshots!Nobody
    BY <1>2 DEF Snapshots!Busy, Snapshots!Nobody
  <2>3. UNCHANGED <<Shown(dir), Shown(tgz)>>
    BY <1>8 DEF Shown
  <2> QED
    BY <1>3, <2>1, <2>2, <2>3 DEF Snapshots!Stop, Snapshots!SnapNext, Snapshots!disk
<1> QED
  BY <1>1, <1>6, <1>7, <1>8

\* Every step is one of the history as its readers see it, or none.
LEMMA StepSeen ==
  StampInv /\ [Next]_vars => [Snapshots!SnapNext]_(Snapshots!snapvars)
<1> SUFFICES ASSUME StampInv, [Next]_vars PROVE [Snapshots!SnapNext]_(Snapshots!snapvars)
  OBVIOUS
<1>1. CASE (\E f \in File : Edit(f) \/ Delete(f)) \/ UNCHANGED vars
  <2>1. UNCHANGED <<dir, tgz, part, lock, run>>
    BY <1>1 DEF Edit, Delete, vars, files
  <2>2. UNCHANGED <<Shown(dir), Shown(tgz), Shown(part), Writer>>
    BY <2>1 DEF Shown, Writer
  <2> QED
    BY <2>2 DEF Snapshots!snapvars
<1>2. CASE \E r \in Slot : Quiet(r) \/ RemoveDir(r)
  BY <1>2, QuietSeen, RemoveSeen
<1>3. CASE \E r \in Slot : \/ Tar(r) \/ Commit(r) \/ Unpack(r) \/ Extract(r)
                           \/ \E f \in File : RsyncDelete(r, f) \/ RsyncReplace(r, f)
  <2>1. Snapshots!SnapNext
    BY <1>3, TarSeen, CommitSeen, UnpackSeen, ExtractSeen, AsideSeen
  <2> QED
    BY <2>1
<1> QED
  BY <1>1, <1>2, <1>3, StepKinds

LEMMA StartSeen == Init => Snapshots!SnapInit
<1> SUFFICES ASSUME Init PROVE Snapshots!SnapInit
  OBVIOUS
<1>1. Writer = Snapshots!Nobody
  BY WriterFree DEF Init, Snapshots!Nobody
<1>2. \A s \in Stamp : Shown(dir)[s] = Missing /\ Shown(tgz)[s] = Missing /\ Shown(part)[s] = Missing
  BY DEF Init, Shown
<1> QED
  BY <1>1, <1>2 DEF Snapshots!SnapInit, Shown

\* Whatever fails and wherever a script is killed, the programs that read a project's
\* history without its lock (retrieve, locate, status, both replications) may take it for
\* the one of module BmuSnapshots.  Of two backups of one second the later would write
\* into the earlier one's snapshot, archived or not (backmeup.sh takes the second for a
\* name before it takes the lock).
THEOREM HistoryAsReadTheorem == ASSUME SameSecond = FALSE PROVE Spec => HistoryAsRead
<1>1. StampInv /\ [Next]_vars => StampInv'
  BY StampStep
<1> QED
  BY <1>1, StampInit, StepSeen, StartSeen, PTL DEF Spec, HistoryAsRead, Snapshots!SnapSpec

--------------------------------------------------------------------------------
(* Directory and tarball of a snapshot, whatever fails or is killed. *)

\* Where a snapshot has both forms they do not contradict each other: what is left of the
\* directory, or there of it already, is in the tarball too.
Agree(s) ==
    dir[s] # Missing /\ tgz[s] # Missing => \A f \in File : dir[s][f] \in {0, tgz[s][f]}

AgreeInv == StampInv /\ \A s \in Stamp : Agree(s)

\* When the entry counts agree, the tarball has exactly what the directory has.
LEMMA CountedWhole ==
  ASSUME NEW d \in Tree, NEW t \in Tree, \A f \in File : t[f] \in {0, d[f]},
         Cardinality(Names(t)) = Cardinality(Names(d))
  PROVE  t = d
<1>1. Names(t) \subseteq Names(d)
  BY DEF Names
<1>2. IsFiniteSet(Names(d))
  BY FS_Subset, ProjectAssumption DEF Names
<1>3. Names(t) = Names(d)
  BY <1>1, <1>2, FS_Subset
<1>4. \A f \in File : t[f] = d[f]
  BY <1>3 DEF Names
<1> QED
  BY <1>4 DEF Tree

LEMMA AgreeFacts ==
  ASSUME AgreeInv, NEW r \in Slot
  PROVE  /\ StampInv /\ WorkInv /\ ProjectInv /\ Halfway(r) /\ Fresh(r) /\ None \notin Slot
         /\ FilesOK /\ Missing \notin Tree
         /\ lock \in Slot \cup {None}
         /\ \A s \in Stamp : Agree(s)
<1>1. StampInv /\ WorkInv /\ \A s \in Stamp : Agree(s)
  BY DEF AgreeInv, StampInv, StampParts
<1>2. Halfway(r) /\ Fresh(r) /\ ProjectInv
  BY <1>1 DEF StampInv, StampParts, WorkInv
<1> QED
  BY <1>1, <1>2, Known

\* A backup's snapshot has no tarball.
LEMMA AsideAgrees ==
  ASSUME AgreeInv, NEW r \in Slot, NEW f \in File, RsyncDelete(r, f) \/ RsyncReplace(r, f)
  PROVE  \A s \in Stamp : Agree(s)'
<1> DEFINE s == run[r].stamp
<1>1. /\ run[r].pc = "rsync" /\ s \in Stamp /\ tgz' = tgz
      /\ \A t \in Stamp \ {s} : dir'[t] = dir[t]
  BY AsideFacts, AgreeFacts
<1>2. tgz'[s] = Missing
  BY <1>1, AgreeFacts DEF Fresh
<1>3. ASSUME NEW t \in Stamp PROVE Agree(t)'
  <2>1. CASE t = s
    BY <1>2, <2>1 DEF Agree
  <2>2. CASE t # s
    BY <1>1, <2>2, AgreeFacts DEF Agree
  <2> QED
    BY <2>1, <2>2
<1> QED
  BY <1>3

LEMMA ReshapeAgrees ==
  ASSUME AgreeInv, NEW r \in Slot, Reshape(r)
  PROVE  \A s \in Stamp : Agree(s)'
<1> DEFINE s == run[r].stamp
<1>1. /\ s \in Stamp
      /\ \A t \in Stamp \ {s} : dir'[t] = dir[t] /\ tgz'[t] = tgz[t]
  BY ReshapeFacts, AgreeFacts
<1>2. Agree(s)
  BY <1>1, AgreeFacts
<1>3. ASSUME dir'[s] # Missing, tgz'[s] # Missing
      PROVE  \A f \in File : dir'[s][f] \in {0, tgz'[s][f]}
  <2>1. CASE Tar(r)
    BY <1>2, <1>3, <2>1, TarFacts, AgreeFacts DEF Agree
  <2>2. CASE Commit(r)
    <3>1. /\ run[r].pc = "verify" /\ dir[s] \in Tree /\ part[s] \in Tree /\ UNCHANGED dir
          /\ \/ /\ Cardinality(Names(part[s])) = Cardinality(Names(dir[s]))
                /\ tgz'[s] = part[s]
             \/ UNCHANGED tgz
      BY <2>2, CommitFacts, AgreeFacts
    <3>2. \A f \in File : part[s][f] \in {0, dir[s][f]}
      BY <3>1, AgreeFacts DEF Halfway
    <3>3. tgz'[s] = dir[s] \/ UNCHANGED tgz
      BY <3>1, <3>2, CountedWhole
    <3> QED
      BY <1>2, <1>3, <3>1, <3>3 DEF Agree
  <2>3. CASE RemoveDir(r)
    <3>1. /\ UNCHANGED tgz /\ dir[s] # Missing
          /\ \/ \E f \in File : \A g \in File : dir'[s][g] = IF g = f THEN 0 ELSE dir[s][g]
             \/ dir'[s] = Missing
             \/ UNCHANGED dir
      <4>1. run[r].todo \subseteq File
        BY AgreeFacts, Known
      <4> QED
        BY <2>3, <4>1, RemoveFacts, AgreeFacts
    <3> QED
      BY <1>2, <1>3, <3>1 DEF Agree
  <2>4. CASE Unpack(r)
    <3>1. /\ UNCHANGED tgz
          /\ \A g \in File : dir'[s][g] = IF dir[s] = Missing THEN 0 ELSE dir[s][g]
      BY <2>4, UnpackFacts, AgreeFacts
    <3> QED
      BY <1>2, <1>3, <3>1 DEF Agree
  <2>5. CASE Extract(r)
    <3>1. /\ dir[s] # Missing /\ tgz[s] # Missing
          /\ \/ /\ UNCHANGED tgz
                /\ \E f \in File :
                      \A g \in File : dir'[s][g] = IF g = f THEN tgz[s][f] ELSE dir[s][g]
             \/ tgz'[s] = Missing
             \/ UNCHANGED <<dir, tgz>>
      <4>1. run[r].todo \subseteq File
        BY AgreeFacts, Known
      <4> QED
        BY <2>5, <4>1, ExtractFacts, AgreeFacts
    <3> QED
      BY <1>2, <1>3, <3>1 DEF Agree
  <2> QED
    BY <2>1, <2>2, <2>3, <2>4, <2>5 DEF Reshape
<1>4. ASSUME NEW t \in Stamp PROVE Agree(t)'
  <2>1. CASE t = s
    BY <1>3, <2>1 DEF Agree
  <2>2. CASE t # s
    BY <1>1, <2>2, AgreeFacts DEF Agree
  <2> QED
    BY <2>1, <2>2
<1> QED
  BY <1>4

LEMMA AgreeStep == SameSecond = FALSE /\ AgreeInv /\ [Next]_vars => AgreeInv'
<1> SUFFICES ASSUME SameSecond = FALSE, AgreeInv, [Next]_vars PROVE AgreeInv'
  OBVIOUS
<1>1. StampInv'
  BY StampStep DEF AgreeInv
<1>2. ASSUME UNCHANGED <<dir, tgz>> PROVE \A s \in Stamp : Agree(s)'
  BY <1>2 DEF AgreeInv, Agree
<1>3. CASE (\E f \in File : Edit(f) \/ Delete(f)) \/ UNCHANGED vars
  BY <1>1, <1>2, <1>3 DEF AgreeInv, Edit, Delete, vars, files
<1>4. ASSUME NEW r \in Slot, Quiet(r) PROVE \A s \in Stamp : Agree(s)'
  BY <1>2, <1>4, AgreeFacts, QuietFacts DEF QuietEffect
<1>5. CASE \E r \in Slot : Quiet(r) \/ Reshape(r)
                           \/ \E f \in File : RsyncDelete(r, f) \/ RsyncReplace(r, f)
  <2>1. \A s \in Stamp : Agree(s)'
    BY <1>4, <1>5, AsideAgrees, ReshapeAgrees
  <2> QED
    BY <1>1, <2>1 DEF AgreeInv
<1> QED
  BY <1>3, <1>5, StepKinds DEF Reshape

LEMMA AgreeInit == Init => AgreeInv
<1> SUFFICES ASSUME Init PROVE AgreeInv
  OBVIOUS
<1>1. \A s \in Stamp : dir[s] = Missing
  BY DEF Init
<1> QED
  BY <1>1, StampInit DEF AgreeInv, Agree

--------------------------------------------------------------------------------
(* What a snapshot holds. *)

\* The run has packed what there was of a directory and renames it over the tarball.
Overwrites(r, s) ==
    /\ run[r].pc = "verify" /\ run[r].stamp = s
    /\ dir[s] # Missing /\ tgz[s] # Missing
    /\ tgz'[s] = dir[s]

LEMMA SameContent ==
  ASSUME NEW s, UNCHANGED <<dir[s], tgz[s]>>
  PROVE  Content(s)' = Content(s)
BY DEF Content

\* A snapshot that does not contradict itself has what its tarball has, when it has one
\* and the directory next to it is on the way out or in.
LEMMA TarballContent ==
  ASSUME NEW s \in Stamp, Agree(s), tgz[s] # Missing
  PROVE  Content(s) = {p \in File \X (1..MaxVersion) : tgz[s][p[1]] = p[2]}
BY DEF Content, Agree

LEMMA TarballContentThen ==
  ASSUME NEW s \in Stamp, Agree(s)', tgz'[s] # Missing
  PROVE  Content(s)' = {p \in File \X (1..MaxVersion) : tgz'[s][p[1]] = p[2]}
BY DEF Content, Agree

\* Archive and unarchive change where a snapshot is kept, not what it holds, but for that.
LEMMA ReshapeContent ==
  ASSUME AgreeInv, NEW r \in Slot, Reshape(r), NEW u \in Stamp
  PROVE  Content(u)' = Content(u) \/ (Overwrites(r, u) /\ Content(u)' \subseteq Content(u))
<1>0. PICK s \in Stamp : s = run[r].stamp
  BY ReshapeFacts, AgreeFacts
<1>1. \A t \in Stamp \ {s} : dir'[t] = dir[t] /\ tgz'[t] = tgz[t]
  BY <1>0, ReshapeFacts, AgreeFacts
<1>2. ASSUME u # s PROVE Content(u)' = Content(u)
  BY <1>1, <1>2, SameContent
<1>3. Agree(s) /\ Agree(s)'
  BY ReshapeAgrees, AgreeFacts
<1>4. Content(s)' = Content(s) \/ (Overwrites(r, s) /\ Content(s)' \subseteq Content(s))
  <2>1. CASE Tar(r)
    BY <1>0, <2>1, TarFacts, AgreeFacts, SameContent
  <2>2. CASE Commit(r)
    <3>1. /\ run[r].pc = "verify" /\ dir[s] \in Tree /\ part[s] \in Tree /\ dir[s] # Missing
          /\ UNCHANGED dir
          /\ \/ /\ Cardinality(Names(part[s])) = Cardinality(Names(dir[s]))
                /\ tgz'[s] = part[s]
             \/ UNCHANGED tgz
      BY <1>0, <2>2, CommitFacts, AgreeFacts
    <3>2. \A f \in File : part[s][f] \in {0, dir[s][f]}
      BY <1>0, <3>1, AgreeFacts DEF Halfway
    <3>3. CASE tgz'[s] = dir[s] /\ tgz[s] = Missing
      BY <3>1, <3>3 DEF Content
    <3>4. CASE tgz'[s] = dir[s] /\ tgz[s] # Missing
      <4>1. Overwrites(r, s)
        BY <1>0, <3>1, <3>4 DEF Overwrites
      <4>2. Content(s)' \subseteq Content(s)
        BY <3>1, <3>4 DEF Content
      <4> QED
        BY <4>1, <4>2
    <3>5. CASE UNCHANGED tgz
      BY <3>1, <3>5, SameContent
    <3> QED
      BY <3>1, <3>2, <3>3, <3>4, <3>5, CountedWhole
  <2>3. CASE RemoveDir(r)
    <3>1. UNCHANGED tgz /\ tgz[s] # Missing
      BY <1>0, <2>3, RemoveFacts, AgreeFacts DEF Halfway
    <3> QED
      BY <1>1, <1>3, <3>1, TarballContent, TarballContentThen
  <2>4. CASE Unpack(r)
    <3>1. UNCHANGED tgz /\ tgz[s] # Missing
      BY <1>0, <2>4, UnpackFacts, AgreeFacts
    <3> QED
      BY <1>1, <1>3, <3>1, TarballContent, TarballContentThen
  <2>5. CASE Extract(r)
    <3>1. /\ run[r].pc = "extract" /\ dir[s] \in Tree /\ tgz[s] \in Tree
          /\ UNCHANGED tgz \/ (run[r].todo = {} /\ UNCHANGED dir /\ tgz'[s] = Missing)
      BY <1>0, <2>5, ExtractFacts, AgreeFacts
    <3>2. dir[s] # Missing /\ tgz[s] # Missing
      BY <3>1, AgreeFacts
    <3>3. CASE UNCHANGED tgz
      BY <1>1, <1>3, <3>2, <3>3, TarballContent, TarballContentThen
    <3>4. CASE run[r].todo = {} /\ UNCHANGED dir /\ tgz'[s] = Missing
      <4>1. \A f \in Names(tgz[s]) : dir[s][f] = tgz[s][f]
        BY <1>0, <3>1, <3>4, AgreeFacts DEF Halfway
      <4>2. \A f \in File : dir[s][f] = tgz[s][f]
        BY <1>3, <3>2, <4>1 DEF Names, Agree
      <4> QED
        BY <3>2, <3>4, <4>2 DEF Content
    <3> QED
      BY <3>1, <3>3, <3>4
  <2> QED
    BY <2>1, <2>2, <2>3, <2>4, <2>5 DEF Reshape
<1> QED
  BY <1>2, <1>4

\* rsync adds the version that it takes away from the mirror, to a snapshot that has none of it.
LEMMA AsideContent ==
  ASSUME AgreeInv, NEW r \in Slot, NEW f \in File, RsyncDelete(r, f) \/ RsyncReplace(r, f),
         NEW s, s = run[r].stamp
  PROVE  /\ s \in Stamp /\ run[r].pc = "rsync"
         /\ mirror[f] \in 1..MaxVersion /\ mirror' = [mirror EXCEPT ![f] = 0]
         /\ Content(s)' = Content(s) \cup {<<f, mirror[f]>>}
         /\ \A t \in Stamp \ {s} : Content(t)' = Content(t)
<1>1. /\ s \in Stamp /\ run[r].pc = "rsync" /\ f \in run[r].todo
      /\ mirror[f] \in 1..MaxVersion /\ mirror' = [mirror EXCEPT ![f] = 0]
      /\ UNCHANGED tgz
      /\ dir'[s] # Missing
      /\ \A g \in File : dir'[s][g] = IF g = f THEN mirror[f]
                                      ELSE IF dir[s] = Missing THEN 0 ELSE dir[s][g]
      /\ \A t \in Stamp \ {s} : dir'[t] = dir[t]
  BY AsideFacts, AgreeFacts
<1>2. tgz[s] = Missing /\ (dir[s] # Missing => dir[s][f] = 0)
  BY <1>1, AgreeFacts DEF Fresh
<1>3. \A t \in Stamp \ {s} : Content(t)' = Content(t)
  BY <1>1, SameContent
<1>4. Content(s)' = {p \in File \X (1..MaxVersion) : dir'[s][p[1]] = p[2]}
  BY <1>1, <1>2 DEF Content
<1>5. Content(s) = {p \in File \X (1..MaxVersion) : dir[s] # Missing /\ dir[s][p[1]] = p[2]}
  BY <1>2 DEF Content
<1>6. ASSUME NEW p \in File \X (1..MaxVersion)
      PROVE  dir'[s][p[1]] = p[2] <=> (dir[s] # Missing /\ dir[s][p[1]] = p[2]) \/ p = <<f, mirror[f]>>
  <2>1. PICK g \in File, v \in 1..MaxVersion : p = <<g, v>>
    BY <1>6
  <2>2. v # 0
    BY <2>1
  <2> QED
    BY <1>1, <1>2, <2>1, <2>2
<1>7. <<f, mirror[f]>> \in File \X (1..MaxVersion)
  BY <1>1
<1>8. Content(s)' = Content(s) \cup {<<f, mirror[f]>>}
  BY <1>4, <1>5, <1>6, <1>7
<1> QED
  BY <1>1, <1>3, <1>8

LEMMA QuietContent ==
  ASSUME ProjectInv, NEW r \in Slot, Quiet(r)
  PROVE  UNCHANGED <<dir, tgz>> /\ \A s \in Stamp : Content(s)' = Content(s)
BY QuietFacts, SameContent DEF QuietEffect

\* The quiet steps that write to the mirror.
LEMMA QuietMirror ==
  ASSUME NEW r \in Slot, Quiet(r)
  PROVE  UNCHANGED mirror \/ RsyncInstall(r) \/ \E f \in File : RsyncNew(r, f)
BY DEF Quiet, StartBackup, AcquireBackup, RsyncSame, RsyncSkip, RsyncEnd, BeginFilelist,
       EndFilelist, BeginLive, EndLive, StartArchive, PickSnapshot, BeginArchiveList,
       EndArchiveList, StartUnarchive, AcquireUnarchive, Exit, Crash, files

\* A new version enters the mirror where none is.
LEMMA MirrorTakes ==
  ASSUME WorkInv, NEW r \in Slot, Quiet(r)
  PROVE  \/ UNCHANGED mirror
         \/ \E f \in File, v \in 1..MaxVersion :
               mirror[f] = 0 /\ mirror' = [mirror EXCEPT ![f] = v]
<1>1. ProjectInv /\ Halfway(r) /\ EnvOK
  BY Known DEF WorkInv
<1>2. CASE \E f \in File : RsyncNew(r, f)
  <2>1. PICK f \in File : RsyncNew(r, f)
    BY <1>2
  <2>2. source[f] \in 1..MaxVersion
    BY <1>1, <2>1, ProjectAssumption DEF RsyncNew, EnvOK, Tree
  <2> QED
    BY <2>1, <2>2 DEF RsyncNew
<1>3. CASE RsyncInstall(r)
  <2>1. PICK p \in File \X (1..MaxVersion) : run[r].new = {p} /\ mirror[p[1]] = 0
    BY <1>1, <1>3 DEF RsyncInstall, At, Halfway
  <2>2. UNCHANGED mirror \/ mirror' = [mirror EXCEPT ![p[1]] = p[2]]
    BY <1>3, <2>1 DEF RsyncInstall
  <2>3. p[1] \in File /\ p[2] \in 1..MaxVersion
    BY <2>1
  <2> QED
    BY <2>1, <2>2, <2>3
<1> QED
  BY <1>2, <1>3, QuietMirror

NoOverwrite == \A r \in Slot, s \in Stamp : ~Overwrites(r, s)

\* Any other step is one of the vault, or none.
LEMMA StepKept == AgreeInv /\ [Next]_vars /\ NoOverwrite => [Vault!Next]_(Vault!vars)
<1> SUFFICES ASSUME AgreeInv, [Next]_vars, NoOverwrite PROVE [Vault!Next]_(Vault!vars)
  OBVIOUS
<1> DEFINE past == UNION {Content(s) : s \in Stamp}
<1>1. WorkInv /\ ProjectInv
  BY DEF AgreeInv, StampInv, WorkInv
<1>2. ASSUME \A s \in Stamp : Content(s)' = Content(s) PROVE past' = past
  BY <1>2
<1>3. CASE (\E f \in File : Edit(f) \/ Delete(f)) \/ UNCHANGED vars
  <2>1. UNCHANGED <<dir, tgz, mirror>>
    BY <1>3 DEF Edit, Delete, vars, files
  <2>2. past' = past
    BY <1>2, <2>1, SameContent
  <2> QED
    BY <2>1, <2>2 DEF Vault!vars
<1>4. ASSUME NEW r \in Slot, Quiet(r) PROVE [Vault!Next]_(Vault!vars)
  <2>1. past' = past
    BY <1>1, <1>2, <1>4, QuietContent
  <2>2. CASE UNCHANGED mirror
    BY <2>1, <2>2 DEF Vault!vars
  <2>3. CASE \E f \in File, v \in 1..MaxVersion : mirror[f] = 0 /\ mirror' = [mirror EXCEPT ![f] = v]
    BY <2>1, <2>3 DEF Vault!Next, Vault!Take
  <2> QED
    BY <1>1, <1>4, <2>2, <2>3, MirrorTakes
<1>5. ASSUME NEW r \in Slot, Reshape(r) PROVE [Vault!Next]_(Vault!vars)
  <2>1. past' = past
    BY <1>2, <1>5, ReshapeContent DEF NoOverwrite
  <2>2. UNCHANGED mirror
    BY <1>1, <1>5, ReshapeFacts
  <2> QED
    BY <2>1, <2>2 DEF Vault!vars
<1>6. ASSUME NEW r \in Slot, NEW f \in File, RsyncDelete(r, f) \/ RsyncReplace(r, f)
      PROVE  [Vault!Next]_(Vault!vars)
  <2>0. PICK s : s = run[r].stamp
    OBVIOUS
  <2>1. /\ s \in Stamp /\ mirror[f] \in 1..MaxVersion /\ mirror' = [mirror EXCEPT ![f] = 0]
        /\ Content(s)' = Content(s) \cup {<<f, mirror[f]>>}
        /\ \A t \in Stamp \ {s} : Content(t)' = Content(t)
    BY <1>6, <2>0, AsideContent
  <2>2. past' = past \cup {<<f, mirror[f]>>}
    <3> DEFINE c == <<f, mirror[f]>>
    <3>1. \A t \in Stamp : Content(t)' = IF t = s THEN Content(t) \cup {c} ELSE Content(t)
      BY <2>1
    <3> HIDE DEF c
    <3>2. \A p : p \in past' <=> p \in past \cup {c}
      <4>1. \A p : p \in past' <=> \E t \in Stamp : p \in Content(t)'
        OBVIOUS
      <4>2. \A p : p \in past <=> \E t \in Stamp : p \in Content(t)
        OBVIOUS
      <4> QED
        BY <2>1, <3>1, <4>1, <4>2
    <3> QED
      BY <3>2 DEF c
  <2>3. mirror[f] # 0
    BY <2>1
  <2>4. Vault!Keep(f)
    BY <2>1, <2>2, <2>3 DEF Vault!Keep
  <2> QED
    BY <2>4 DEF Vault!Next
<1> QED
  BY <1>3, <1>4, <1>5, <1>6, StepKinds DEF Reshape

LEMMA StartKept == Init => Vault!Init
<1> SUFFICES ASSUME Init PROVE Vault!Init
  OBVIOUS
<1>1. \A s \in Stamp : Content(s) = {}
  BY DEF Init, Content
<1> QED
  BY <1>1 DEF Vault!Init, Init, Empty

\* What a step may do to a snapshot.
Kept(s) ==
    \/ Content(s)' = Content(s)
    \/ \E r \in Slot : run[r].pc = "rsync" /\ run[r].stamp = s /\ Content(s) \subseteq Content(s)'
    \/ \E r \in Slot : Overwrites(r, s) /\ Content(s)' \subseteq Content(s)

LEMMA StepContent == AgreeInv /\ [Next]_vars => \A s \in Stamp : Kept(s)
<1> SUFFICES ASSUME AgreeInv, [Next]_vars, NEW s \in Stamp PROVE Kept(s)
  OBVIOUS
<1>1. CASE (\E f \in File : Edit(f) \/ Delete(f)) \/ UNCHANGED vars
  <2>1. UNCHANGED <<dir, tgz>>
    BY <1>1 DEF Edit, Delete, vars, files
  <2> QED
    BY <2>1, SameContent DEF Kept
<1>2. CASE \E r \in Slot : Quiet(r)
  BY <1>2, QuietContent DEF Kept, AgreeInv, StampInv, WorkInv
<1>3. CASE \E r \in Slot : Reshape(r)
  BY <1>3, ReshapeContent DEF Kept
<1>4. ASSUME NEW r \in Slot, NEW f \in File, RsyncDelete(r, f) \/ RsyncReplace(r, f) PROVE Kept(s)
  <2>1. PICK t : t = run[r].stamp
    OBVIOUS
  <2>2. /\ run[r].pc = "rsync" /\ Content(t) \subseteq Content(t)'
        /\ \A u \in Stamp \ {t} : Content(u)' = Content(u)
    BY <1>4, <2>1, AsideContent
  <2> QED
    BY <2>1, <2>2 DEF Kept
<1> QED
  BY <1>1, <1>2, <1>3, <1>4, StepKinds DEF Reshape

\* Whatever fails and wherever a script is killed, a version is lost in one way only: an archive
\* run finds a directory beside its tarball, because a removal or an extraction was cut short,
\* packs what is there of it and renames that over the tarball (backmeup.archive.sh looks for
\* directories, and not for a tarball of the same name).  Every other step keeps what the
\* mirror and the snapshots hold, and only a backup adds to its own snapshot.
THEOREM LossTheorem ==
  ASSUME SameSecond = FALSE
  PROVE  Spec => [][/\ NoOverwrite => [Vault!Next]_(Vault!vars)
                    /\ \A s \in Stamp : Kept(s)]_vars
<1>1. AgreeInv /\ [Next]_vars => AgreeInv'
  BY AgreeStep
<1>2. AgreeInv /\ [Next]_vars => /\ NoOverwrite => [Vault!Next]_(Vault!vars)
                                 /\ \A s \in Stamp : Kept(s)
  BY StepKept, StepContent
<1> QED
  BY <1>1, <1>2, AgreeInit, PTL DEF Spec

--------------------------------------------------------------------------------
(* Nothing cuts a removal or an extraction short. *)

\* archive's rm -rf and unarchive's tar -x do not fail and are not killed: where one was, the
\* next archive run puts a partial tarball in the place of the whole one.
NoneCutShort == {"rm", "extract"} \cap (CrashAt \cup MayFail) = {}

CarefulInv == AgreeInv /\ OneFormAtRest

\* Which quiet steps there are where a directory is removed or filled: a kill.
LEMMA QuietAt ==
  ASSUME NEW r \in Slot, Quiet(r), run[r].pc \in {"rm", "extract"}
  PROVE  Crash(r)
BY DEF Quiet, StartBackup, AcquireBackup, RsyncInstall, RsyncSame, RsyncNew, RsyncSkip, RsyncEnd,
       BeginFilelist, EndFilelist, BeginLive, EndLive, StartArchive, PickSnapshot,
       BeginArchiveList, EndArchiveList, StartUnarchive, AcquireUnarchive, Exit, At

\* The holder is at work on a snapshot that may have both forms.
BothAt(s, r) == lock = r /\ run[r].stamp = s /\ run[r].pc \in {"rm", "extract"}

LEMMA CarefulFacts ==
  ASSUME CarefulInv, NEW r \in Slot
  PROVE  /\ ProjectInv /\ Halfway(r) /\ Fresh(r) /\ None \notin Slot /\ Missing \notin Tree
         /\ lock \in Slot \cup {None}
         /\ \A s \in Stamp : dir[s] # Missing /\ tgz[s] # Missing => \E q \in Slot : BothAt(s, q)
BY AgreeFacts DEF CarefulInv, OneFormAtRest, BothAt

LEMMA QuietCareful ==
  ASSUME NoneCutShort, CarefulInv, NEW r \in Slot, Quiet(r)
  PROVE  OneFormAtRest'
<1>1. QuietEffect(r) /\ ProjectInv
  BY CarefulFacts, QuietFacts
<1>2. UNCHANGED <<dir, tgz>>
  BY <1>1 DEF QuietEffect
<1>3. ASSUME NEW s \in Stamp, dir'[s] # Missing, tgz'[s] # Missing
      PROVE  \E q \in Slot : BothAt(s, q)'
  <2>1. PICK q \in Slot : BothAt(s, q)
    BY <1>2, <1>3, CarefulFacts
  <2>2. q # r
    BY <2>1, QuietAt DEF BothAt, NoneCutShort, Crash
  <2>3. run'[q] = run[q] /\ lock' = lock
    BY <1>1, <2>1, <2>2, CarefulFacts DEF QuietEffect, BothAt
  <2> QED
    BY <2>1, <2>3 DEF BothAt
<1> QED
  BY <1>3 DEF OneFormAtRest, BothAt

LEMMA AsideCareful ==
  ASSUME CarefulInv, NEW r \in Slot, NEW f \in File, RsyncDelete(r, f) \/ RsyncReplace(r, f)
  PROVE  OneFormAtRest'
<1> DEFINE s == run[r].stamp
<1>1. /\ run[r].pc = "rsync" /\ lock = r /\ s \in Stamp /\ tgz' = tgz
      /\ \A t \in Stamp \ {s} : dir'[t] = dir[t]
  BY AsideFacts, CarefulFacts
<1>2. \A t \in Stamp : dir[t] = Missing \/ tgz[t] = Missing
  BY <1>1, CarefulFacts DEF BothAt
<1>3. tgz[s] = Missing
  BY <1>1, CarefulFacts DEF Fresh
<1> QED
  BY <1>1, <1>2, <1>3 DEF OneFormAtRest

LEMMA ReshapeCareful ==
  ASSUME NoneCutShort, CarefulInv, NEW r \in Slot, Reshape(r)
  PROVE  OneFormAtRest'
<1> DEFINE s == run[r].stamp
<1>1. /\ s \in Stamp /\ lock \in {r, None}
      /\ \A t \in Stamp \ {s} : dir'[t] = dir[t] /\ tgz'[t] = tgz[t]
      /\ run'[r].stamp = s
  BY ReshapeFacts, CarefulFacts
<1>2. \A t \in Stamp \ {s} : dir[t] = Missing \/ tgz[t] = Missing
  BY <1>1, CarefulFacts DEF BothAt
<1>3. ASSUME dir'[s] # Missing, tgz'[s] # Missing PROVE BothAt(s, r)'
  <2>1. CASE Tar(r)
    <3>1. run[r].pc = "tar" /\ UNCHANGED <<dir, tgz>>
      BY <2>1, TarFacts, CarefulFacts
    <3> QED
      BY <1>1, <1>3, <3>1, CarefulFacts DEF BothAt
  <2>2. CASE Commit(r)
    <3>1. /\ run[r].pc = "verify" /\ lock' = lock /\ lock = r /\ dir[s] \in Tree /\ UNCHANGED dir
          /\ run'[r].pc = "rm" \/ UNCHANGED tgz
      BY <2>2, CommitFacts, CarefulFacts
    <3>2. dir[s] = Missing \/ tgz[s] = Missing
      BY <1>1, <3>1, CarefulFacts DEF BothAt
    <3> QED
      BY <1>1, <1>3, <3>1, <3>2 DEF BothAt
  <2>3. CASE RemoveDir(r)
    <3>1. /\ lock = r /\ lock' = lock
          /\ run'[r].pc = "rm" \/ dir'[s] = Missing \/ "rm" \in MayFail
      BY <2>3, RemoveFacts, CarefulFacts
    <3> QED
      BY <1>1, <1>3, <3>1 DEF BothAt, NoneCutShort
  <2>4. CASE Unpack(r)
    BY <1>1, <2>4, UnpackFacts, CarefulFacts DEF BothAt
  <2>5. CASE Extract(r)
    <3>1. /\ lock = r /\ lock' = lock
          /\ run'[r].pc = "extract" \/ tgz'[s] = Missing \/ "extract" \in MayFail
      BY <2>5, ExtractFacts, CarefulFacts
    <3> QED
      BY <1>1, <1>3, <3>1 DEF BothAt, NoneCutShort
  <2> QED
    BY <2>1, <2>2, <2>3, <2>4, <2>5 DEF Reshape
<1> QED
  BY <1>1, <1>2, <1>3 DEF OneFormAtRest, BothAt

LEMMA CarefulStep ==
  SameSecond = FALSE /\ NoneCutShort /\ CarefulInv /\ [Next]_vars => CarefulInv'
<1> SUFFICES ASSUME SameSecond = FALSE, NoneCutShort, CarefulInv, [Next]_vars PROVE CarefulInv'
  OBVIOUS
<1>1. AgreeInv'
  BY AgreeStep DEF CarefulInv
<1>2. CASE (\E f \in File : Edit(f) \/ Delete(f)) \/ UNCHANGED vars
  <2>1. UNCHANGED <<dir, tgz, lock, run>>
    BY <1>2 DEF Edit, Delete, vars, files
  <2> QED
    BY <1>1, <2>1 DEF CarefulInv, OneFormAtRest
<1>3. CASE \E r \in Slot : Quiet(r) \/ Reshape(r)
                           \/ \E f \in File : RsyncDelete(r, f) \/ RsyncReplace(r, f)
  <2>1. OneFormAtRest'
    BY <1>3, QuietCareful, AsideCareful, ReshapeCareful
  <2> QED
    BY <1>1, <2>1 DEF CarefulInv
<1> QED
  BY <1>2, <1>3, StepKinds DEF Reshape

LEMMA CarefulInit == Init => CarefulInv
<1> SUFFICES ASSUME Init PROVE CarefulInv
  OBVIOUS
<1>1. \A s \in Stamp : dir[s] = Missing
  BY DEF Init
<1> QED
  BY <1>1, AgreeInit DEF CarefulInv, OneFormAtRest

\* Archive meets no snapshot with both forms.
LEMMA CarefulKeeps == CarefulInv => NoOverwrite
<1> SUFFICES ASSUME CarefulInv, NEW r \in Slot, NEW s \in Stamp, Overwrites(r, s) PROVE FALSE
  BY DEF NoOverwrite
<1>1. lock = r /\ run[r].pc = "verify"
  BY CarefulFacts, Known DEF Overwrites, LockedStep
<1>2. PICK q \in Slot : BothAt(s, q)
  BY CarefulFacts DEF Overwrites
<1> QED
  BY <1>1, <1>2 DEF BothAt

\* A snapshot is a directory and a tarball at once only while the lock holder removes the one
\* or fills the other.
THEOREM OneFormTheorem ==
  ASSUME SameSecond = FALSE, NoneCutShort
  PROVE  Spec => []OneFormAtRest
<1>1. CarefulInv /\ [Next]_vars => CarefulInv'
  BY CarefulStep
<1>2. CarefulInv => OneFormAtRest
  BY DEF CarefulInv
<1> QED
  BY <1>1, <1>2, CarefulInit, PTL DEF Spec

\* "Anything changed or deleted since the last run is moved into a new snapshot instead of
\* being lost": mirror and history implement the vault, also when scripts overlap, rsync, tar
\* and mv fail, and a run is killed elsewhere.
THEOREM VersionsKeptTheorem ==
  ASSUME SameSecond = FALSE, NoneCutShort
  PROVE  Spec => VersionsKept
<1>1. CarefulInv /\ [Next]_vars => CarefulInv'
  BY CarefulStep
<1>2. CarefulInv /\ [Next]_vars => [Vault!Next]_(Vault!vars)
  BY StepKept, CarefulKeeps DEF CarefulInv
<1> QED
  BY <1>1, <1>2, CarefulInit, StartKept, PTL DEF Spec, VersionsKept, Vault!Spec

\* What a step may not do to a finished snapshot.
Frozen == \A s \in Stamp : Content(s) # {} /\ ~Writing(s) => Content(s)' = Content(s)

LEMMA StepFrozen == CarefulInv /\ [Next]_vars => Frozen
<1> SUFFICES ASSUME CarefulInv, [Next]_vars PROVE Frozen
  OBVIOUS
<1>1. NoOverwrite /\ \A s \in Stamp : Kept(s)
  BY CarefulKeeps, StepContent DEF CarefulInv
<1> QED
  BY <1>1 DEF Frozen, Kept, Writing, NoOverwrite

\* A snapshot whose backup is over holds the same versions of the same files for ever:
\* archive and unarchive are exact inverses, at every step of theirs.
THEOREM SnapshotFrozenTheorem ==
  ASSUME SameSecond = FALSE, NoneCutShort
  PROVE  Spec => SnapshotFrozen
<1>1. CarefulInv /\ [Next]_vars => CarefulInv'
  BY CarefulStep
<1>2. CarefulInv /\ [Next]_vars => [Frozen]_vars
  BY StepFrozen
<1> QED
  BY <1>1, <1>2, CarefulInit, PTL DEF Spec, SnapshotFrozen, Frozen

--------------------------------------------------------------------------------
(* One run at a time, whatever fails or is killed. *)

\* A backup writes into the last snapshot there is.
Latest(r) ==
    run[r].pc \in Backing =>
        run[r].stamp <= clock /\ \A s \in Stamp : Present(s) => s <= run[r].stamp

\* Of a file the user has the newest version, then the mirror, then the history.
NewestFirst(f) ==
    /\ source[f] <= version /\ mirror[f] <= version
    /\ source[f] # 0 => mirror[f] <= source[f]
Superseded(p) ==
    /\ p[2] <= version
    /\ source[p[1]] # 0 => p[2] < source[p[1]]
    /\ mirror[p[1]] # 0 => p[2] < mirror[p[1]]
Incoming(r) ==
    run[r].pc = "install" => \A p \in run[r].new :
        /\ p[2] <= version
        /\ source[p[1]] # 0 => p[2] <= source[p[1]]
        /\ \A s \in Stamp : \A q \in Content(s) : q[1] = p[1] => q[2] < p[2]

OrderParts ==
    /\ \A s \in Stamp : Present(s) => s <= clock
    /\ \A r \in Slot : Latest(r) /\ Incoming(r)
    /\ \A f \in File : NewestFirst(f)
    /\ \A s \in Stamp : \A p \in Content(s) : Superseded(p)

OrderInv == WorkInv /\ OrderParts /\ HistoryInOrder

\* Whatever fails, archive and unarchive add nothing to a snapshot.
LEMMA ReshapeShrinks ==
  ASSUME WorkInv, NEW r \in Slot, Reshape(r), NEW u \in Stamp
  PROVE  Content(u)' \subseteq Content(u)
<1>0. PICK s \in Stamp : s = run[r].stamp
  BY ReshapeFacts DEF WorkInv
<1>1. ProjectInv /\ Halfway(r) /\ \A t \in Stamp \ {s} : dir'[t] = dir[t] /\ tgz'[t] = tgz[t]
  BY <1>0, ReshapeFacts DEF WorkInv
<1>2. CASE u # s
  BY <1>1, <1>2, SameContent
<1>3. Content(s)' \subseteq Content(s)
  <2>1. CASE Tar(r)
    BY <1>0, <1>1, <2>1, TarFacts, SameContent
  <2>2. CASE Commit(r)
    <3>1. /\ run[r].pc = "verify" /\ dir[s] \in Tree /\ dir' = dir
          /\ tgz'[s] = part[s] \/ tgz' = tgz
      BY <1>0, <1>1, <2>2, CommitFacts
    <3>2. dir[s] # Missing /\ \A f \in File : part[s][f] \in {0, dir[s][f]}
      BY <1>0, <1>1, <3>1, Known DEF Halfway
    <3>3. CASE tgz'[s] = part[s]
      BY <3>1, <3>2, <3>3 DEF Content
    <3>4. CASE tgz' = tgz
      BY <3>1, <3>4, SameContent
    <3> QED
      BY <3>1, <3>3, <3>4
  <2>3. CASE RemoveDir(r)
    <3>1. /\ tgz' = tgz /\ dir[s] \in Tree
          /\ \/ \E f \in run[r].todo :
                   \A g \in File : dir'[s][g] = IF g = f THEN 0 ELSE dir[s][g]
             \/ dir'[s] = Missing
             \/ dir' = dir
      BY <1>0, <1>1, <2>3, RemoveFacts
    <3>2. dir[s] # Missing
      BY <1>1, <3>1, Known
    <3>3. dir'[s] # Missing => \A g \in File : dir'[s][g] \in {0, dir[s][g]}
      BY <3>1
    <3> QED
      BY <3>1, <3>2, <3>3 DEF Content
  <2>4. CASE Unpack(r)
    <3>1. /\ tgz' = tgz
          /\ \A g \in File : dir'[s][g] = IF dir[s] = Missing THEN 0 ELSE dir[s][g]
      BY <1>0, <1>1, <2>4, UnpackFacts
    <3> QED
      BY <3>1 DEF Content
  <2>5. CASE Extract(r)
    <3>1. /\ dir[s] \in Tree /\ tgz[s] \in Tree
          /\ \/ /\ tgz' = tgz
                /\ \E f \in run[r].todo :
                      \A g \in File : dir'[s][g] = IF g = f THEN tgz[s][f] ELSE dir[s][g]
             \/ dir' = dir /\ tgz'[s] = Missing
             \/ dir' = dir /\ tgz' = tgz
      BY <1>0, <1>1, <2>5, ExtractFacts
    <3>2. dir[s] # Missing /\ tgz[s] # Missing
      BY <1>1, <3>1, Known
    <3>3. /\ tgz'[s] # Missing => tgz'[s] = tgz[s]
          /\ \A g \in File : dir'[s][g] \in {dir[s][g], tgz[s][g]}
      BY <3>1
    <3> QED
      BY <3>2, <3>3 DEF Content
  <2> QED
    BY <2>1, <2>2, <2>3, <2>4, <2>5 DEF Reshape
<1> QED
  BY <1>2, <1>3

LEMMA AsideAdds ==
  ASSUME WorkInv, NEW r \in Slot, NEW f \in File, RsyncDelete(r, f) \/ RsyncReplace(r, f),
         NEW s, s = run[r].stamp
  PROVE  /\ Content(s)' \subseteq Content(s) \cup {<<f, mirror[f]>>}
         /\ \A t \in Stamp \ {s} : Content(t)' = Content(t)
<1>1. /\ tgz' = tgz /\ mirror[f] \in 1..MaxVersion
      /\ \A g \in File : dir'[s][g] = IF g = f THEN mirror[f]
                                      ELSE IF dir[s] = Missing THEN 0 ELSE dir[s][g]
      /\ \A t \in Stamp \ {s} : dir'[t] = dir[t]
  BY AsideFacts DEF WorkInv
<1>2. \A t \in Stamp \ {s} : Content(t)' = Content(t)
  BY <1>1, SameContent
<1>3. ASSUME NEW p \in Content(s)' PROVE p \in Content(s) \/ p = <<f, mirror[f]>>
  <2>1. PICK g \in File, v \in 1..MaxVersion : p = <<g, v>>
    BY <1>3 DEF Content
  <2>2. \/ dir'[s] # Missing /\ dir'[s][g] = v
        \/ tgz'[s] # Missing /\ tgz'[s][g] = v
    BY <1>3, <2>1 DEF Content
  <2>3. v # 0
    BY <2>1
  <2> QED
    BY <1>1, <2>1, <2>2, <2>3 DEF Content
<1> QED
  BY <1>2, <1>3

\* Versions and seconds are numbers.
LEMMA Counters ==
  ASSUME WorkInv
  PROVE  /\ clock \in Nat /\ version \in Nat /\ \A s \in Stamp : s \in Nat
         /\ \A f \in File : source[f] \in Nat /\ mirror[f] \in Nat
         /\ \A r \in Slot : run[r].stamp \in Nat
         /\ \A s \in Stamp : \A p \in Content(s) : p[1] \in File /\ p[2] \in Nat \ {0}
         /\ \A r \in Slot : \A p \in run[r].new : p[1] \in File /\ p[2] \in Nat \ {0}
<1>1. ProjectInv /\ MaxVersion \in Nat /\ MaxStamp \in Nat
  BY ProjectAssumption DEF WorkInv
<1>2. TypeOK
  BY <1>1 DEF ProjectInv
<1>3. FilesOK /\ EnvOK
  BY <1>2, TypeParts
<1>4. /\ clock \in Nat /\ version \in Nat /\ \A s \in Stamp : s \in Nat
      /\ \A f \in File : source[f] \in Nat /\ mirror[f] \in Nat
  BY <1>1, <1>3 DEF FilesOK, EnvOK, Stamp, Tree
<1>5. ASSUME NEW p \in File \X (1..MaxVersion) PROVE p[1] \in File /\ p[2] \in Nat \ {0}
  BY <1>1
<1>6. \A r \in Slot : run[r].stamp \in Nat /\ run[r].new \subseteq File \X (1..MaxVersion)
  BY <1>1, Known
<1>7. \A s \in Stamp : Content(s) \subseteq File \X (1..MaxVersion)
  BY DEF Content
<1> QED
  BY <1>4, <1>5, <1>6, <1>7

\* There is one slot, so no script starts before the last one is over.
OneRun == \A q, r \in Slot : q = r

LEMMA QuietOrder ==
  ASSUME OneRun, OrderInv, NEW r \in Slot, Quiet(r)
  PROVE  OrderParts' /\ HistoryInOrder'
<1>1. ProjectInv /\ WorkInv /\ OrderParts /\ HistoryInOrder /\ QuietEffect(r) /\ Halfway(r)
  BY QuietFacts DEF OrderInv, WorkInv
<1>2. /\ UNCHANGED <<dir, tgz, source, version>> /\ clock' \in {clock, clock + 1}
      /\ run'[r].pc # "install"
      /\ \A s \in Stamp : Content(s)' = Content(s)
      /\ \A s \in Stamp : Present(s)' <=> Present(s)
  BY <1>1, QuietContent DEF QuietEffect, Present
<1>3. clock <= clock' /\ clock' \in Nat
  BY <1>1, <1>2, Counters
<1>4. \A s \in Stamp : Present(s)' => s <= clock'
  BY <1>1, <1>2, <1>3, Counters DEF OrderParts
<1>5. Latest(r)' /\ Incoming(r)'
  <2>1. CASE run'[r].pc = "acq_backup"
    <3>1. run'[r].stamp = clock
      BY <1>1, <2>1 DEF QuietEffect
    <3> QED
      BY <1>1, <1>2, <1>3, <2>1, <3>1 DEF Latest, Incoming, OrderParts
  <2>2. CASE run'[r].pc = "rsync"
    <3>1. run'[r].stamp = run[r].stamp /\ run[r].pc \in Backing
      BY <1>1, <2>2 DEF QuietEffect, Backing
    <3> QED
      BY <1>1, <1>2, <1>3, <2>2, <3>1, Counters DEF Latest, Incoming, OrderParts
  <2> QED
    BY <1>2, <2>1, <2>2 DEF Latest, Incoming, Backing
<1>6. CASE UNCHANGED mirror
  BY <1>1, <1>2, <1>4, <1>5, <1>6 DEF OneRun, OrderParts, NewestFirst, Superseded, HistoryInOrder
<1>7. CASE \E f \in File : RsyncNew(r, f)
  <2>1. PICK f \in File : RsyncNew(r, f)
    BY <1>7
  <2>2. /\ source[f] # 0 /\ \A g \in File : mirror'[g] = IF g = f THEN source[f] ELSE mirror[g]
    BY <1>1, <2>1, Known DEF RsyncNew, FilesOK, Tree
  <2>3. ASSUME NEW g \in File PROVE NewestFirst(g)'
    BY <1>1, <1>2, <2>2, <2>3, Counters DEF OrderParts, NewestFirst
  <2>4. ASSUME NEW s \in Stamp, NEW p \in Content(s) PROVE Superseded(p)'
    BY <1>1, <1>2, <2>2, <2>4, Counters DEF OrderParts, Superseded
  <2> QED
    BY <1>1, <1>2, <1>4, <1>5, <2>3, <2>4 DEF OneRun, OrderParts, HistoryInOrder
<1>8. CASE RsyncInstall(r)
  <2>1. PICK n \in File \X (1..MaxVersion) : run[r].new = {n}
    BY <1>1, <1>8 DEF RsyncInstall, At, Halfway
  <2>2. n[1] \in File /\ n[2] \in Nat /\ run[r].pc = "install"
    BY <1>1, <1>8, <2>1, Counters DEF RsyncInstall, At
  <2>3. UNCHANGED mirror \/ mirror' = [mirror EXCEPT ![n[1]] = n[2]]
    BY <1>8, <2>1 DEF RsyncInstall
  <2>4. CASE mirror' = [mirror EXCEPT ![n[1]] = n[2]]
    <3>1. \A g \in File : mirror'[g] = IF g = n[1] THEN n[2] ELSE mirror[g]
      BY <1>1, <2>2, <2>4, Known DEF FilesOK, Tree
    <3>2. /\ n[2] <= version /\ (source[n[1]] # 0 => n[2] <= source[n[1]])
          /\ \A s \in Stamp : \A q \in Content(s) : q[1] = n[1] => q[2] < n[2]
      BY <1>1, <2>1, <2>2 DEF OrderParts, Incoming
    <3>3. ASSUME NEW g \in File PROVE NewestFirst(g)'
      BY <1>1, <1>2, <3>1, <3>2, <3>3, Counters DEF OrderParts, NewestFirst
    <3>4. ASSUME NEW s \in Stamp, NEW p \in Content(s) PROVE Superseded(p)'
      BY <1>1, <1>2, <3>1, <3>2, <3>4, Counters DEF OrderParts, Superseded
    <3> QED
      BY <1>1, <1>2, <1>4, <1>5, <3>3, <3>4 DEF OneRun, OrderParts, HistoryInOrder
  <2> QED
    BY <1>6, <2>3, <2>4
<1> QED
  BY <1>6, <1>7, <1>8, QuietMirror

LEMMA AsideOrder ==
  ASSUME OneRun, OrderInv, NEW r \in Slot, NEW f \in File, RsyncDelete(r, f) \/ RsyncReplace(r, f)
  PROVE  OrderParts' /\ HistoryInOrder'
<1>0. PICK s \in Stamp : s = run[r].stamp
  BY AsideFacts DEF OrderInv, WorkInv
<1>1. ProjectInv /\ WorkInv /\ OrderParts /\ HistoryInOrder
  BY DEF OrderInv, WorkInv
<1>2. /\ run[r].pc = "rsync" /\ UNCHANGED <<tgz, source, clock, version>>
      /\ mirror[f] \in Nat \ {0}
      /\ \A g \in File : mirror'[g] = IF g = f THEN 0 ELSE mirror[g]
      /\ \A t \in Stamp \ {s} : dir'[t] = dir[t]
      /\ run'[r].stamp = s
      /\ \/ source[f] = 0 /\ run'[r].pc = "rsync"
         \/ source[f] # 0 /\ source[f] # mirror[f] /\ run'[r].pc = "install" /\ run'[r].new = {<<f, source[f]>>}
  BY <1>0, <1>1, AsideFacts, Known DEF env, FilesOK, Tree
<1>3. /\ Content(s)' \subseteq Content(s) \cup {<<f, mirror[f]>>}
      /\ \A t \in Stamp \ {s} : Content(t)' = Content(t)
  BY <1>0, <1>1, AsideAdds
<1>4. s <= clock /\ \A t \in Stamp : Present(t) => t <= s
  BY <1>0, <1>1, <1>2 DEF OrderParts, Latest, Backing
<1>5. mirror[f] <= version /\ (source[f] # 0 => mirror[f] < source[f]) /\ source[f] <= version
  BY <1>1, <1>2, Counters DEF OrderParts, NewestFirst
<1>6. \A t \in Stamp : Present(t)' => t <= clock' /\ t <= s
  <2>1. s <= s
    BY <1>1, Counters
  <2>2. \A t \in Stamp \ {s} : Present(t)' <=> Present(t)
    BY <1>2 DEF Present
  <2> QED
    BY <1>1, <1>2, <1>4, <2>1, <2>2 DEF OrderParts
<1>7. ASSUME NEW t \in Stamp, NEW p \in Content(t)' PROVE Superseded(p)'
  <2>1. p \in Content(t) \/ p = <<f, mirror[f]>>
    BY <1>3, <1>7
  <2> QED
    BY <1>1, <1>2, <1>5, <2>1, Counters DEF OrderParts, Superseded
<1>8. ASSUME NEW g \in File PROVE NewestFirst(g)'
  BY <1>1, <1>2, <1>8, Counters DEF OrderParts, NewestFirst
<1>9. Latest(r)'
  BY <1>2, <1>4, <1>6 DEF Latest
<1>10. Incoming(r)'
  <2>1. CASE run'[r].pc = "install"
    <3>1. run'[r].new = {<<f, source[f]>>} /\ source[f] # 0
      BY <1>2, <2>1
    <3>2. ASSUME NEW t \in Stamp, NEW q \in Content(t)', q[1] = f PROVE q[2] < source[f]
      <4>1. q \in Content(t) \/ q = <<f, mirror[f]>>
        BY <1>3, <3>2
      <4> QED
        BY <1>1, <1>5, <3>1, <3>2, <4>1 DEF OrderParts, Superseded
    <3> QED
      BY <1>1, <1>2, <1>5, <3>1, <3>2, Counters DEF Incoming
  <2> QED
    BY <2>1 DEF Incoming
<1>11. HistoryInOrder'
  <2>1. SUFFICES ASSUME NEW t \in Stamp, NEW u \in Stamp, t < u,
                        NEW p \in Content(t)', NEW q \in Content(u)', p[1] = q[1]
                 PROVE  p[2] < q[2]
    BY DEF HistoryInOrder
  <2>2. Content(u)' # {} => Present(u)'
    BY DEF Content, Present
  <2>3. u <= s
    BY <1>6, <2>1, <2>2
  <2>4. t # s
    BY <1>1, <2>1, <2>3, Counters
  <2>5. p \in Content(t)
    BY <1>3, <2>1, <2>4
  <2>6. q \in Content(u) \/ (q = <<f, mirror[f]>>)
    BY <1>3, <2>1
  <2>7. CASE q \in Content(u)
    BY <1>1, <2>1, <2>5, <2>7 DEF HistoryInOrder
  <2>8. CASE q = <<f, mirror[f]>>
    BY <1>1, <1>2, <2>1, <2>5, <2>8 DEF OrderParts, Superseded
  <2> QED
    BY <2>6, <2>7, <2>8
<1> QED
  BY <1>6, <1>7, <1>8, <1>9, <1>10, <1>11 DEF OneRun, OrderParts

LEMMA ReshapeOrder ==
  ASSUME OneRun, OrderInv, NEW r \in Slot, Reshape(r)
  PROVE  OrderParts' /\ HistoryInOrder'
<1>1. ProjectInv /\ WorkInv /\ OrderParts /\ HistoryInOrder
  BY DEF OrderInv, WorkInv
<1>0. PICK s \in Stamp : s = run[r].stamp
  BY <1>1, ReshapeFacts
<1>2. /\ Present(s) /\ UNCHANGED <<mirror, source, clock, version>>
      /\ \A t \in Stamp \ {s} : dir'[t] = dir[t] /\ tgz'[t] = tgz[t]
      /\ run'[r].pc \in {"verify", "rm", "each", "extract", "exit"}
  BY <1>0, <1>1, ReshapeFacts DEF env
<1>3. \A t \in Stamp : Content(t)' \subseteq Content(t)
  BY <1>1, ReshapeShrinks
<1>4. \A t \in Stamp : Present(t)' => t <= clock'
  BY <1>1, <1>2 DEF OrderParts, Present
<1>5. Latest(r)' /\ Incoming(r)'
  BY <1>2 DEF Latest, Incoming, Backing
<1>6. \A f \in File : NewestFirst(f)'
  BY <1>1, <1>2 DEF OrderParts, NewestFirst
<1>7. \A t \in Stamp : \A p \in Content(t)' : Superseded(p)'
  BY <1>1, <1>2, <1>3 DEF OrderParts, Superseded
<1>8. HistoryInOrder'
  BY <1>1, <1>3 DEF HistoryInOrder
<1> QED
  BY <1>4, <1>5, <1>6, <1>7, <1>8 DEF OneRun, OrderParts

LEMMA UserOrder ==
  ASSUME OrderInv, (\E f \in File : Edit(f) \/ Delete(f)) \/ UNCHANGED vars
  PROVE  OrderParts' /\ HistoryInOrder'
<1>1. WorkInv /\ OrderParts /\ HistoryInOrder /\ ProjectInv
  BY DEF OrderInv, WorkInv
<1>2. source \in Tree /\ version \in Nat
  BY <1>1, TypeParts, Counters DEF ProjectInv, EnvOK
<1>3. /\ UNCHANGED <<dir, tgz, mirror, run, clock>> /\ version <= version' /\ version' \in Nat
      /\ \A g \in File : \/ source'[g] \in {source[g], 0}
                         \/ (version' = version + 1 /\ source'[g] = version')
  <2>1. version <= version /\ version <= version + 1 /\ version + 1 \in Nat
    BY <1>2
  <2>2. ASSUME NEW f \in File, Edit(f)
        PROVE  /\ UNCHANGED <<dir, tgz, mirror, run, clock>> /\ version' = version + 1
               /\ \A g \in File : source'[g] \in {source[g], version + 1}
    BY <1>2, <2>2 DEF Edit, files, Tree
  <2>3. ASSUME NEW f \in File, Delete(f)
        PROVE  /\ UNCHANGED <<dir, tgz, mirror, run, clock, version>>
               /\ \A g \in File : source'[g] \in {source[g], 0}
    BY <1>2, <2>3 DEF Delete, files, Tree
  <2>4. UNCHANGED vars => UNCHANGED <<dir, tgz, mirror, run, clock, version, source>>
    BY DEF vars, files, env
  <2>5. CASE \E f \in File : Edit(f)
    BY <2>1, <2>2, <2>5
  <2>6. CASE (\E f \in File : Delete(f)) \/ UNCHANGED vars
    BY <1>2, <2>1, <2>3, <2>4, <2>6
  <2> QED
    BY <2>5, <2>6
<1>4. \A s \in Stamp : Content(s)' = Content(s) /\ (Present(s)' <=> Present(s))
  BY <1>3, SameContent DEF Present
<1>5. ASSUME NEW g \in File PROVE NewestFirst(g)'
  BY <1>1, <1>3, <1>5, Counters DEF OrderParts, NewestFirst
<1>6. ASSUME NEW s \in Stamp, NEW p \in Content(s)' PROVE Superseded(p)'
  <2>1. Superseded(p) /\ p[1] \in File /\ p[2] \in Nat
    BY <1>1, <1>4, <1>6, Counters DEF OrderParts
  <2> QED
    BY <1>1, <1>3, <2>1, Counters DEF Superseded
<1>7. ASSUME NEW r \in Slot PROVE Latest(r)' /\ Incoming(r)'
  <2>1. Latest(r) /\ Incoming(r)
    BY <1>1, <1>7 DEF OrderParts
  <2>2. Latest(r)'
    BY <1>3, <1>4, <2>1 DEF Latest
  <2>3. ASSUME run[r].pc = "install", NEW p \in run[r].new
        PROVE  /\ p[2] <= version' /\ (source'[p[1]] # 0 => p[2] <= source'[p[1]])
               /\ \A s \in Stamp : \A q \in Content(s)' : q[1] = p[1] => q[2] < p[2]
    <3>1. p[1] \in File /\ p[2] \in Nat
      BY <1>1, <1>7, <2>3, Counters
    <3>2. p[2] <= version'
      BY <1>1, <1>3, <2>1, <2>3, <3>1, Counters DEF Incoming
    <3> QED
      BY <1>3, <1>4, <2>1, <2>3, <3>1, <3>2 DEF Incoming
  <2> QED
    BY <1>3, <2>2, <2>3 DEF Incoming
<1> QED
  BY <1>1, <1>3, <1>4, <1>5, <1>6, <1>7 DEF OrderParts, HistoryInOrder

LEMMA OrderStep == OneRun /\ OrderInv /\ [Next]_vars => OrderInv'
<1> SUFFICES ASSUME OneRun, OrderInv, [Next]_vars PROVE OrderInv'
  OBVIOUS
<1>1. WorkInv'
  BY WorkStep DEF OrderInv
<1>2. OrderParts' /\ HistoryInOrder'
  BY StepKinds, QuietOrder, AsideOrder, ReshapeOrder, UserOrder DEF Reshape
<1> QED
  BY <1>1, <1>2 DEF OrderInv

LEMMA OrderInit == Init => OrderInv
<1> SUFFICES ASSUME Init PROVE OrderInv
  OBVIOUS
<1>1. /\ \A s \in Stamp : dir[s] = Missing /\ tgz[s] = Missing
      /\ \A r \in Slot : run[r].pc = "idle"
      /\ \A f \in File : source[f] = 0 /\ mirror[f] = 0
      /\ version = 0
  BY DEF Init, NotRunning, Empty
<1>2. \A s \in Stamp : Content(s) = {} /\ ~Present(s)
  BY <1>1 DEF Content, Present
<1>3. \A f \in File : NewestFirst(f)
  BY <1>1 DEF NewestFirst
<1> QED
  BY <1>1, <1>2, <1>3, WorkInit DEF OrderInv, OrderParts, Latest, Incoming, Backing, HistoryInOrder

\* Read in name order the snapshots tell how a file changed, whatever fails or is killed, and
\* even when two backups start in the same second, as long as runs do not overlap (of two
\* that do, the one that took its second first may write last).
THEOREM HistoryInOrderTheorem == ASSUME OneRun PROVE Spec => []HistoryInOrder
<1>1. OrderInv /\ [Next]_vars => OrderInv'
  BY OrderStep
<1>2. OrderInv => HistoryInOrder
  BY DEF OrderInv
<1> QED
  BY <1>1, <1>2, OrderInit, PTL DEF Spec

--------------------------------------------------------------------------------
(* The filelists of the snapshots, as long as no run is killed inside a find. *)

Listing == {"flist2", "alist2"}
NoneKilledListing == Listing \cap CrashAt = {}

\* A tarball's files are listed; a directory's are, once its list is made; and an archive run has
\* the list before it makes the tarball.
TarballListed(s) == tgz[s] # Missing => list[s] # Missing /\ Names(tgz[s]) \subseteq list[s]
DirListed(s) ==
    dir[s] # Missing /\ list[s] # Missing =>
        \/ Names(dir[s]) \subseteq list[s]
        \/ \E r \in Slot : run[r].stamp = s /\ run[r].pc \in Listing
ListedBefore(r) ==
    LET s == run[r].stamp IN
    /\ run[r].pc = "alist" => list[s] = Missing
    /\ run[r].pc = "alist2" => tgz[s] = Missing
    /\ run[r].pc \in {"tar", "verify"} => list[s] # Missing

ListParts ==
    /\ \A s \in Stamp : TarballListed(s) /\ DirListed(s)
    /\ \A r \in Slot : ListedBefore(r)

ListInv == StampInv /\ ListParts

LEMMA ListFacts ==
  ASSUME ListInv, NEW r \in Slot
  PROVE  /\ StampInv /\ WorkInv /\ ProjectInv /\ Halfway(r) /\ Fresh(r) /\ None \notin Slot
         /\ list \in [Stamp -> (SUBSET File) \cup {Missing}]
         /\ ListParts /\ ListedBefore(r)
         /\ Missing \notin Tree /\ Missing \notin SUBSET File
<1>1. StampInv /\ WorkInv /\ ListParts /\ ListedBefore(r)
  BY DEF ListInv, StampInv, StampParts, ListParts
<1>2. Halfway(r) /\ Fresh(r) /\ ProjectInv
  BY <1>1 DEF StampInv, StampParts, WorkInv
<1> QED
  BY <1>1, <1>2, Known DEF FilesOK

\* A script that does not have the lock has found nothing about the lists.
LEMMA OtherListed ==
  ASSUME ListInv, NEW r \in Slot, lock \in {r, None} \/ UNCHANGED <<tgz, list>>,
         \A q \in Slot \ {r} : run'[q] = run[q],
         ListedBefore(r)'
  PROVE  \A q \in Slot : ListedBefore(q)'
<1>1. ASSUME NEW q \in Slot \ {r} PROVE ListedBefore(q)'
  <2>1. ListedBefore(q) /\ (run[q].pc \in LockedStep <=> lock = q) /\ run'[q] = run[q] /\ None \notin Slot
    BY ListFacts, Known
  <2>2. CASE UNCHANGED <<tgz, list>>
    BY <2>1, <2>2 DEF ListedBefore
  <2>3. CASE lock \in {r, None}
    BY <2>1, <2>3 DEF ListedBefore, LockedStep
  <2> QED
    BY <2>2, <2>3
<1> QED
  BY <1>1

\* The four steps that write a filelist.
LEMMA ListWritten ==
  ASSUME ListInv, NEW r \in Slot,
         BeginFilelist(r) \/ EndFilelist(r) \/ BeginArchiveList(r) \/ EndArchiveList(r),
         list' # list, NEW s, s = run[r].stamp
  PROVE  /\ lock = r /\ s \in Stamp /\ tgz[s] = Missing
         /\ list'[s] # Missing
         /\ \A t \in Stamp \ {s} : list'[t] = list[t]
         /\ list'[s] = Names(dir[s]) \/ run'[r].pc \in Listing
         /\ run'[r].pc \in {"flist2", "alist2", "live", "each", "tar"} /\ run'[r].stamp = s
<1>1. /\ run[r].pc \in {"flist", "flist2", "alist", "alist2"}
      /\ (run[r].pc \in LockedStep <=> lock = r) /\ Found(r)
  BY ListFacts, Known DEF BeginFilelist, EndFilelist, BeginArchiveList, EndArchiveList, At
<1>2. lock = r /\ s \in Stamp
  BY <1>1 DEF LockedStep, Found, AboutStamp
<1>3. tgz[s] = Missing
  BY <1>1, <1>2, ListFacts DEF Fresh, ListedBefore, ListParts, TarballListed
<1>4. Names(dir[s]) \in SUBSET File /\ {} \in SUBSET File
  BY DEF Names
<1>5. PICK fs \in SUBSET File, step \in {"flist2", "alist2", "live", "each", "tar"} :
         /\ list' = [list EXCEPT ![s] = fs] /\ GoTo(r, step)
         /\ fs = Names(dir[s]) \/ step \in Listing
  BY <1>4 DEF BeginFilelist, EndFilelist, BeginArchiveList, EndArchiveList, AfterList, Listing
<1>6. list'[s] = fs /\ \A t \in Stamp \ {s} : list'[t] = list[t]
  BY <1>2, <1>5, ListFacts
<1>7. run'[r].pc = step /\ run'[r].stamp = s
  BY <1>5, ListFacts, GoToFacts
<1> QED
  BY <1>2, <1>3, <1>5, <1>6, <1>7, ListFacts

\* The quiet steps that do not.
LEMMA ListLeft ==
  ASSUME ListInv, NEW r \in Slot, Quiet(r), list' = list
  PROVE  /\ ListedBefore(r)'
         /\ run[r].pc \in Listing /\ ~Crash(r) => Names(dir[run[r].stamp]) \subseteq list[run[r].stamp]
<1>1. ProjectInv /\ QuietEffect(r) /\ run \in [Slot -> RunType] /\ run[r] \in RunType
      /\ (run[r].pc \in LockedStep <=> lock = r) /\ Found(r)
  BY ListFacts, QuietFacts, Known
<1>2. ASSUME run[r].pc \in Listing, ~Crash(r) PROVE EndFilelist(r) \/ EndArchiveList(r)
  BY <1>2 DEF Quiet, StartBackup, AcquireBackup, RsyncInstall, RsyncSame, RsyncNew, RsyncSkip, RsyncEnd,
       BeginFilelist, BeginLive, EndLive, StartArchive, PickSnapshot,
       BeginArchiveList, StartUnarchive, AcquireUnarchive, Exit, At, Listing
<1>3. ASSUME run[r].pc \in Listing, ~Crash(r)
      PROVE  Names(dir[run[r].stamp]) \subseteq list[run[r].stamp]
  <2>1. list' = [list EXCEPT ![run[r].stamp] = Names(dir[run[r].stamp])]
    BY <1>2, <1>3 DEF EndFilelist, EndArchiveList
  <2>2. run[r].stamp \in Stamp
    BY <1>1, <1>3 DEF Found, AboutStamp, Listing
  <2> QED
    BY <2>1, <2>2, ListFacts
<1>4. ListedBefore(r)'
  <2>1. CASE PickSnapshot(r)
    <3>1. CASE GoTo(r, "exit")
      BY <1>1, <3>1, GoToFacts DEF ListedBefore
    <3>2. ASSUME NEW s \in run[r].queue,
                 run' = [run EXCEPT ![r].stamp = s, ![r].queue = @ \ {s},
                           ![r].pc = IF list[s] = Missing THEN "alist" ELSE AfterList(r)]
          PROVE  ListedBefore(r)'
      <4>1. run'[r].stamp = s /\ run'[r].pc = IF list[s] = Missing THEN "alist" ELSE AfterList(r)
        BY <1>1, <3>2 DEF RunType
      <4>2. list' = list
        OBVIOUS
      <4> QED
        BY <4>1, <4>2 DEF ListedBefore, AfterList
    <3> QED
      BY <2>1, <3>1, <3>2 DEF PickSnapshot
  <2>2. CASE BeginArchiveList(r) \/ EndArchiveList(r)
    <3>1. PICK step \in {"alist2", "each", "tar"} : GoTo(r, step) /\ (step = "alist2" => run[r].pc = "alist")
      BY <2>2 DEF BeginArchiveList, EndArchiveList, AfterList, At
    <3>2. run'[r].pc = step /\ run'[r].stamp = run[r].stamp
      BY <1>1, <3>1, GoToFacts
    <3>3. run[r].stamp \in Stamp /\ \E fs \in SUBSET File : list' = [list EXCEPT ![run[r].stamp] = fs]
      <4>1. run[r].pc \in {"alist", "alist2"}
        BY <2>2 DEF BeginArchiveList, EndArchiveList, At
      <4> QED
        BY <1>1, <2>2, <4>1 DEF BeginArchiveList, EndArchiveList, Names, Found, AboutStamp
    <3>4. list'[run[r].stamp] # Missing
      BY <3>3, ListFacts
    <3>5. list[run[r].stamp] # Missing
      BY <3>4
    <3> QED
      BY <1>1, <3>1, <3>2, <3>4, <3>5, ListFacts DEF ListedBefore, QuietEffect
  <2>3. CASE run'[r].pc \notin {"alist", "alist2", "tar", "verify"}
    BY <2>3 DEF ListedBefore
  <2> QED
    BY <1>1, <2>1, <2>2, <2>3 DEF QuietEffect
<1> QED
  BY <1>3, <1>4

LEMMA QuietLists ==
  ASSUME NEW r \in Slot, Quiet(r), list' # list
  PROVE  BeginFilelist(r) \/ EndFilelist(r) \/ BeginArchiveList(r) \/ EndArchiveList(r)
BY DEF Quiet, StartBackup, AcquireBackup, RsyncInstall, RsyncSame, RsyncNew, RsyncSkip, RsyncEnd,
       BeginLive, EndLive, StartArchive, PickSnapshot, StartUnarchive, AcquireUnarchive, Exit,
       Crash, files

\* Only the lock holder is inside a find.
LEMMA ListingHolds ==
  ASSUME ProjectInv, NEW r \in Slot, run[r].pc \in Listing
  PROVE  lock = r
BY Known DEF Listing, LockedStep

LEMMA QuietListed ==
  ASSUME NoneKilledListing, ListInv, NEW r \in Slot, Quiet(r)
  PROVE  ListParts'
<1>1. /\ UNCHANGED <<dir, tgz>> /\ \A q \in Slot \ {r} : run'[q] = run[q]
      /\ ProjectInv /\ ListParts
  BY ListFacts, QuietFacts DEF QuietEffect
<1>2. CASE list' # list
  <2>1. PICK s : s = run[r].stamp
    OBVIOUS
  <2>2. /\ lock = r /\ s \in Stamp /\ tgz[s] = Missing
        /\ list'[s] # Missing
        /\ \A t \in Stamp \ {s} : list'[t] = list[t]
        /\ list'[s] = Names(dir[s]) \/ run'[r].pc \in Listing
        /\ run'[r].pc \in {"flist2", "alist2", "live", "each", "tar"} /\ run'[r].stamp = s
    BY <1>2, <2>1, QuietLists, ListWritten
  <2>3. ListedBefore(r)'
    BY <1>1, <2>2 DEF ListedBefore
  <2>4. \A q \in Slot : ListedBefore(q)'
    BY <1>1, <2>2, <2>3, OtherListed
  <2>5. TarballListed(s)' /\ DirListed(s)'
    BY <1>1, <2>2 DEF TarballListed, DirListed
  <2>6. ASSUME NEW t \in Stamp \ {s} PROVE TarballListed(t)' /\ DirListed(t)'
    <3>1. ~\E q \in Slot : run[q].stamp = t /\ run[q].pc \in Listing
      BY <1>1, <2>1, <2>2, ListingHolds
    <3>2. TarballListed(t) /\ DirListed(t)
      BY <1>1 DEF ListParts
    <3> QED
      BY <1>1, <2>2, <3>1, <3>2 DEF TarballListed, DirListed
  <2> QED
    BY <2>4, <2>5, <2>6 DEF ListParts
<1>3. CASE list' = list
  <2>1. \A q \in Slot : ListedBefore(q)'
    BY <1>1, <1>3, ListLeft, OtherListed
  <2>2. ASSUME NEW t \in Stamp PROVE TarballListed(t)' /\ DirListed(t)'
    <3>1. TarballListed(t) /\ DirListed(t)
      BY <1>1 DEF ListParts
    <3>2. run[r].pc \in Listing /\ run[r].stamp = t => Names(dir[t]) \subseteq list[t]
      BY <1>3, ListLeft DEF NoneKilledListing, Crash
    <3> QED
      BY <1>1, <1>3, <3>1, <3>2 DEF TarballListed, DirListed
  <2> QED
    BY <2>1, <2>2 DEF ListParts
<1> QED
  BY <1>2, <1>3

LEMMA AsideListed ==
  ASSUME ListInv, NEW r \in Slot, NEW f \in File, RsyncDelete(r, f) \/ RsyncReplace(r, f)
  PROVE  ListParts'
<1>0. PICK s : s = run[r].stamp
  OBVIOUS
<1>1. /\ run[r].pc = "rsync" /\ lock = r /\ s \in Stamp /\ UNCHANGED <<tgz, list>>
      /\ \A t \in Stamp \ {s} : dir'[t] = dir[t]
      /\ \A q \in Slot \ {r} : run'[q] = run[q]
      /\ run'[r].pc \in {"rsync", "install"}
  BY <1>0, AsideFacts, ListFacts
<1>2. \A q \in Slot : ListedBefore(q)'
  <2>1. ListedBefore(r)'
    BY <1>1 DEF ListedBefore
  <2> QED
    BY <1>1, <2>1, OtherListed
<1>3. ASSUME NEW t \in Stamp PROVE TarballListed(t)' /\ DirListed(t)'
  <2>1. TarballListed(t) /\ DirListed(t)
    BY ListFacts DEF ListParts
  <2>2. ~\E q \in Slot : run[q].stamp = t /\ run[q].pc \in Listing
    BY <1>1, ListFacts, ListingHolds DEF Listing
  <2>3. list[s] = Missing
    BY <1>0, <1>1, ListFacts DEF Fresh
  <2> QED
    BY <1>1, <2>1, <2>2, <2>3 DEF TarballListed, DirListed
<1> QED
  BY <1>2, <1>3 DEF ListParts

LEMMA ReshapeListed ==
  ASSUME ListInv, NEW r \in Slot, Reshape(r)
  PROVE  ListParts'
<1>0. PICK s : s = run[r].stamp
  OBVIOUS
<1>1. /\ s \in Stamp /\ lock \in {r, None} /\ UNCHANGED list
      /\ \A t \in Stamp \ {s} : dir'[t] = dir[t] /\ tgz'[t] = tgz[t]
      /\ \A q \in Slot \ {r} : run'[q] = run[q]
      /\ run'[r].pc \in {"verify", "rm", "each", "extract", "exit"} /\ run'[r].stamp = s
  BY <1>0, ReshapeFacts, ListFacts
<1>2. run[r].pc \notin Listing
  BY DEF Reshape, Tar, Commit, RemoveDir, Unpack, AcquireUnarchive, Extract, At, Listing
<1>3. \A t \in Stamp : ~\E q \in Slot : run[q].stamp = t /\ run[q].pc \in Listing
  BY <1>1, <1>2, ListFacts, ListingHolds
<1>4. \A t \in Stamp : /\ tgz[t] # Missing => list[t] # Missing /\ Names(tgz[t]) \subseteq list[t]
                       /\ dir[t] # Missing /\ list[t] # Missing => Names(dir[t]) \subseteq list[t]
  BY <1>3, ListFacts DEF ListParts, TarballListed, DirListed
<1>5. ASSUME TRUE
      PROVE  /\ tgz'[s] # Missing => list[s] # Missing /\ Names(tgz'[s]) \subseteq list[s]
             /\ dir'[s] # Missing /\ list[s] # Missing => Names(dir'[s]) \subseteq list[s]
             /\ run'[r].pc = "verify" => list[s] # Missing
  <2>1. CASE Tar(r)
    <3>1. run[r].pc = "tar" /\ UNCHANGED <<dir, tgz>>
      BY <2>1, TarFacts, ListFacts
    <3> QED
      BY <1>0, <1>1, <1>4, <3>1, ListFacts DEF ListedBefore
  <2>2. CASE Commit(r)
    <3>1. /\ run[r].pc = "verify" /\ dir[s] \in Tree /\ dir' = dir
          /\ tgz'[s] = part[s] \/ tgz' = tgz
      BY <1>0, <2>2, CommitFacts, ListFacts
    <3>2. list[s] # Missing /\ dir[s] # Missing /\ \A f \in File : part[s][f] \in {0, dir[s][f]}
      BY <1>0, <3>1, ListFacts DEF ListedBefore, Halfway
    <3>3. Names(part[s]) \subseteq Names(dir[s])
      BY <3>2 DEF Names
    <3> QED
      BY <1>1, <1>4, <3>1, <3>2, <3>3
  <2>3. CASE RemoveDir(r)
    <3>1. /\ tgz' = tgz /\ dir[s] \in Tree /\ run'[r].pc # "verify"
          /\ \/ \E f \in run[r].todo :
                   \A g \in File : dir'[s][g] = IF g = f THEN 0 ELSE dir[s][g]
             \/ dir'[s] = Missing
             \/ dir' = dir
      BY <1>0, <2>3, RemoveFacts, ListFacts
    <3>2. dir'[s] # Missing => Names(dir'[s]) \subseteq Names(dir[s])
      BY <3>1 DEF Names
    <3> QED
      BY <1>1, <1>4, <3>1, <3>2, ListFacts
  <2>4. CASE Unpack(r)
    <3>1. /\ tgz' = tgz /\ run'[r].pc # "verify"
          /\ \A g \in File : dir'[s][g] = IF dir[s] = Missing THEN 0 ELSE dir[s][g]
      BY <1>0, <2>4, UnpackFacts, ListFacts
    <3>2. Names(dir'[s]) = IF dir[s] = Missing THEN {} ELSE Names(dir[s])
      BY <3>1 DEF Names
    <3> QED
      BY <1>1, <1>4, <3>1, <3>2
  <2>5. CASE Extract(r)
    <3>1. /\ dir[s] \in Tree /\ tgz[s] \in Tree /\ run'[r].pc # "verify"
          /\ \/ /\ tgz' = tgz
                /\ \E f \in run[r].todo :
                      \A g \in File : dir'[s][g] = IF g = f THEN tgz[s][f] ELSE dir[s][g]
             \/ dir' = dir /\ tgz'[s] = Missing
             \/ dir' = dir /\ tgz' = tgz
      BY <1>0, <2>5, ExtractFacts, ListFacts
    <3>2. Names(dir'[s]) \subseteq Names(dir[s]) \cup Names(tgz[s])
      BY <3>1 DEF Names
    <3> QED
      BY <1>1, <1>4, <3>1, <3>2, ListFacts
  <2> QED
    BY <2>1, <2>2, <2>3, <2>4, <2>5 DEF Reshape
<1>6. \A q \in Slot : ListedBefore(q)'
  <2>1. ListedBefore(r)'
    BY <1>1, <1>5 DEF ListedBefore
  <2> QED
    BY <1>1, <2>1, OtherListed
<1>7. \A t \in Stamp : TarballListed(t)' /\ DirListed(t)'
  BY <1>1, <1>4, <1>5 DEF TarballListed, DirListed
<1> QED
  BY <1>6, <1>7 DEF ListParts

LEMMA ListStep ==
  SameSecond = FALSE /\ NoneKilledListing /\ ListInv /\ [Next]_vars => ListInv'
<1> SUFFICES ASSUME SameSecond = FALSE, NoneKilledListing, ListInv, [Next]_vars PROVE ListInv'
  OBVIOUS
<1>1. StampInv'
  BY StampStep DEF ListInv
<1>2. CASE (\E f \in File : Edit(f) \/ Delete(f)) \/ UNCHANGED vars
  <2>1. UNCHANGED <<dir, tgz, list, run>>
    BY <1>2 DEF Edit, Delete, vars, files
  <2> QED
    BY <1>1, <2>1 DEF ListInv, ListParts, TarballListed, DirListed, ListedBefore
<1>3. CASE \E r \in Slot : Quiet(r) \/ Reshape(r)
                           \/ \E f \in File : RsyncDelete(r, f) \/ RsyncReplace(r, f)
  <2>1. ListParts'
    BY <1>3, QuietListed, AsideListed, ReshapeListed
  <2> QED
    BY <1>1, <2>1 DEF ListInv
<1> QED
  BY <1>2, <1>3, StepKinds DEF Reshape

LEMMA ListInit == Init => ListInv
<1> SUFFICES ASSUME Init PROVE ListInv
  OBVIOUS
<1>1. /\ \A r \in Slot : run[r].pc = "idle"
      /\ \A s \in Stamp : dir[s] = Missing /\ tgz[s] = Missing
  BY DEF Init, NotRunning
<1> QED
  BY <1>1, StampInit DEF ListInv, ListParts, TarballListed, DirListed, ListedBefore

\* What is archived is listed: backmeup.locate.sh finds every file of a snapshot that exists
\* only as a tarball.  A list that a killed find left empty counts as made, so no run may be
\* killed inside a find; everything else may fail or be killed, rm and tar -x included.
THEOREM ArchivedSearchableTheorem ==
  ASSUME SameSecond = FALSE, NoneKilledListing
  PROVE  Spec => []ArchivedSearchable
<1>1. ListInv /\ [Next]_vars => ListInv'
  BY ListStep
<1>2. ListInv => ArchivedSearchable
  BY DEF ListInv, ListParts, TarballListed, ArchivedSearchable
<1> QED
  BY <1>1, <1>2, ListInit, PTL DEF Spec

--------------------------------------------------------------------------------
(* The live filelist, as long as no rsync fails and no run is killed after it began. *)

Copying == {"rsync", "install", "flist", "flist2", "live", "live2"}
CopyUndisturbed == "rsync" \notin MayFail /\ Copying \cap CrashAt = {}

\* A backup with the lock has not failed, so it ends by listing the mirror.
NotFailed(r) == run[r].pc \in {"acq_backup"} \cup Copying => ~run[r].failed
LiveParts ==
    /\ \A r \in Slot : NotFailed(r)
    /\ livelist # Missing =>
          livelist = Names(mirror) \/ \E r \in Slot : run[r].pc \in Copying

LiveInv == ProjectInv /\ LiveParts

\* What a backup does from its rsync on, and how it ends.
CopyStep(r) ==
    \/ Rsync(r) \/ RsyncEnd(r) \/ BeginFilelist(r) \/ EndFilelist(r) \/ BeginLive(r) \/ EndLive(r)

LEMMA CopyStepLive ==
  ASSUME CopyUndisturbed, LiveInv, NEW r \in Slot, CopyStep(r)
  PROVE  LiveParts'
<1>1. /\ ProjectInv /\ LiveParts /\ NotFailed(r) /\ run \in [Slot -> RunType] /\ run[r] \in RunType
  BY Known DEF LiveInv, LiveParts
<1>2. run[r].pc \in Copying /\ ~run[r].failed
  BY <1>1 DEF NotFailed, CopyStep, Rsync, RsyncSame, RsyncNew, RsyncDelete, RsyncReplace, RsyncSkip,
              RsyncInstall, RsyncEnd, BeginFilelist, EndFilelist, BeginLive, EndLive, At, Copying
<1>3. \A q \in Slot \ {r} : run'[q] = run[q]
  BY <1>1 DEF CopyStep, Rsync, RsyncSame, RsyncNew, RsyncDelete, RsyncReplace, RsyncSkip,
              RsyncInstall, RsyncEnd, BeginFilelist, EndFilelist, BeginLive, EndLive, GoTo
<1>4. ~run'[r].failed /\ (run'[r].pc \in Copying \/ EndLive(r))
  <2>1. CASE \E f \in File : RsyncSame(r, f) \/ RsyncNew(r, f) \/ RsyncDelete(r, f)
    <3>1. PICK f \in File : run' = [run EXCEPT ![r].todo = @ \ {f}]
      BY <2>1 DEF RsyncSame, RsyncNew, RsyncDelete
    <3>2. run'[r].pc = run[r].pc /\ run'[r].failed = run[r].failed
      BY <1>1, <3>1 DEF RunType
    <3> QED
      BY <1>2, <3>2
  <2>2. CASE \E f \in File : RsyncReplace(r, f)
    <3>1. PICK n : run' = [run EXCEPT ![r].pc = "install", ![r].new = n]
      BY <2>2 DEF RsyncReplace
    <3>2. run'[r].pc = "install" /\ run'[r].failed = run[r].failed
      BY <1>1, <3>1 DEF RunType
    <3> QED
      BY <1>2, <3>2 DEF Copying
  <2>3. ~\E f \in File : RsyncSkip(r, f)
    BY DEF RsyncSkip, CopyUndisturbed
  <2>4. CASE RsyncInstall(r)
    <3>1. PICK p \in run[r].new :
             run' = [run EXCEPT ![r] = [run[r] EXCEPT !.pc = "rsync", !.todo = @ \ {p[1]}, !.new = {}]]
      BY <2>4 DEF RsyncInstall, CopyUndisturbed
    <3>2. run'[r] = [run[r] EXCEPT !.pc = "rsync", !.todo = @ \ {p[1]}, !.new = {}]
      BY <1>1, <3>1
    <3>3. run'[r].pc = "rsync" /\ run'[r].failed = run[r].failed
      BY <1>1, <3>2 DEF RunType
    <3> QED
      BY <1>2, <3>3 DEF Copying
  <2>5. CASE RsyncEnd(r) \/ BeginFilelist(r) \/ EndFilelist(r) \/ BeginLive(r)
    <3>1. PICK step \in Copying : GoTo(r, step)
      BY <1>2, <2>5 DEF RsyncEnd, BeginFilelist, EndFilelist, BeginLive, Copying
    <3> QED
      BY <1>1, <1>2, <3>1, GoToFacts
  <2>6. CASE EndLive(r)
    BY <1>1, <1>2, <2>6, GoToFacts DEF EndLive
  <2> QED
    BY <2>1, <2>2, <2>3, <2>4, <2>5, <2>6 DEF CopyStep, Rsync
<1>5. \A q \in Slot : NotFailed(q)'
  BY <1>1, <1>3, <1>4 DEF LiveParts, NotFailed
<1>6. EndLive(r) => livelist' = Names(mirror')
  BY DEF EndLive
<1> QED
  BY <1>4, <1>5, <1>6 DEF LiveParts, Names

\* Every other step leaves mirror and list alone, and is not one of a run that copies.
LEMMA OtherStepLive ==
  ASSUME CopyUndisturbed, LiveInv, NEW r \in Slot, RunStep(r) \/ Crash(r), ~CopyStep(r)
  PROVE  LiveParts'
<1>1. /\ ProjectInv /\ LiveParts /\ NotFailed(r) /\ run \in [Slot -> RunType] /\ run[r] \in RunType
  BY Known DEF LiveInv, LiveParts
<1>2. UNCHANGED <<mirror, livelist>> /\ run[r].pc \notin Copying
  BY DEF RunStep, Backup, Archive, Unarchive, CopyStep, StartBackup, AcquireBackup, StartArchive,
         PickSnapshot, BeginArchiveList, EndArchiveList, Tar, Commit, RemoveDir, StartUnarchive,
         AcquireUnarchive, Extract, Exit, Crash, files, At, Copying, CopyUndisturbed
<1>3. \A q \in Slot \ {r} : run'[q] = run[q]
  BY <1>1 DEF RunStep, Backup, Archive, Unarchive, CopyStep, StartBackup, AcquireBackup, StartArchive,
         PickSnapshot, BeginArchiveList, EndArchiveList, Tar, Commit, RemoveDir, StartUnarchive,
         AcquireUnarchive, Extract, Exit, Crash, GoTo
<1>4. NotFailed(r)'
  <2>1. CASE StartBackup(r)
    BY <1>1, <2>1 DEF StartBackup, NotRunning, NotFailed
  <2>2. CASE AcquireBackup(r)
    <3>1. CASE run' = [run EXCEPT ![r].pc = "rsync", ![r].todo = File]
      <4>1. run'[r].failed = run[r].failed
        BY <1>1, <3>1 DEF RunType
      <4> QED
        BY <1>1, <2>2, <4>1 DEF AcquireBackup, At, NotFailed
    <3>2. CASE run' = [run EXCEPT ![r] = NotRunning]
      BY <1>1, <3>2, NotRunningFacts DEF NotFailed
    <3> QED
      BY <2>2, <3>1, <3>2 DEF AcquireBackup
  <2>3. CASE Archive(r) \/ Unarchive(r) \/ Exit(r) \/ Crash(r)
    <3>1. run'[r].pc \notin {"acq_backup"} \cup Copying
      <4>1. CASE Exit(r) \/ Crash(r)
        BY <1>1, <4>1, NotRunningFacts DEF Exit, Crash, Copying
      <4>2. CASE Quiet(r) /\ (Archive(r) \/ Unarchive(r))
        <5>1. QuietEffect(r)
          BY <1>1, <4>2, QuietFacts
        <5>2. CASE StartArchive(r) \/ StartUnarchive(r)
          BY <1>1, <5>2 DEF StartArchive, StartUnarchive, NotRunning, Copying
        <5>3. CASE run[r].pc \notin {"idle", "acq_backup"}
          BY <1>2, <5>1, <5>3 DEF QuietEffect, Copying
        <5> QED
          BY <4>2, <5>2, <5>3 DEF Archive, Unarchive, PickSnapshot, BeginArchiveList,
             EndArchiveList, Tar, Commit, RemoveDir, AcquireUnarchive, Extract, At
      <4>3. CASE Reshape(r)
        BY <1>1, <4>3, ReshapeFacts DEF Copying
      <4> QED
        BY <2>3, <4>1, <4>2, <4>3 DEF Archive, Unarchive, Reshape, Quiet
    <3> QED
      BY <3>1 DEF NotFailed
  <2> QED
    BY <2>1, <2>2, <2>3 DEF RunStep, Backup, CopyStep
<1> QED
  BY <1>1, <1>2, <1>3, <1>4 DEF LiveParts, NotFailed, Names

LEMMA LiveStep == CopyUndisturbed /\ LiveInv /\ [Next]_vars => LiveInv'
<1> SUFFICES ASSUME CopyUndisturbed, LiveInv, [Next]_vars PROVE LiveInv'
  OBVIOUS
<1>1. ProjectInv'
  BY ProjectStep DEF LiveInv
<1>2. CASE (\E f \in File : Edit(f) \/ Delete(f)) \/ UNCHANGED vars
  <2>1. UNCHANGED <<mirror, livelist, run>>
    BY <1>2 DEF Edit, Delete, vars, files
  <2> QED
    BY <1>1, <2>1 DEF LiveInv, LiveParts, NotFailed, Names
<1>3. CASE \E r \in Slot : RunStep(r) \/ Crash(r)
  BY <1>1, <1>3, CopyStepLive, OtherStepLive DEF LiveInv
<1> QED
  BY <1>2, <1>3 DEF Next

\* Between runs the live filelist has what the mirror has.  The list is made after rsync and
\* not at all when rsync failed, so no rsync may fail and no backup be killed once it copies.
THEOREM LiveSearchableTheorem == ASSUME CopyUndisturbed PROVE Spec => []LiveSearchable
<1>1. Init => LiveInv
  <2> SUFFICES ASSUME Init PROVE LiveInv
    OBVIOUS
  <2>1. livelist = Missing /\ \A r \in Slot : run[r].pc = "idle"
    BY DEF Init, NotRunning
  <2> QED
    BY <2>1, ProjectInit DEF LiveInv, LiveParts, NotFailed, Copying
<1>2. LiveInv /\ [Next]_vars => LiveInv'
  BY LiveStep
<1>3. LiveInv => LiveSearchable
  <2> SUFFICES ASSUME LiveInv, lock = None, livelist # Missing PROVE livelist = Names(mirror)
    BY DEF LiveSearchable
  <2>1. \A r \in Slot : run[r].pc \notin Copying
    BY Known DEF LiveInv, Copying, LockedStep
  <2> QED
    BY <2>1 DEF LiveInv, LiveParts
<1> QED
  BY <1>1, <1>2, <1>3, PTL DEF Spec

================================================================================
