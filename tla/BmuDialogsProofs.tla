----------------------------- MODULE BmuDialogsProofs ---------------------------
(***************************************************************************)
(* Proofs about BmuDialogs, for any set of names and any limit of steps:   *)
(* the types, that no half-made remote is left, and that what the user     *)
(* made is kept.                                                           *)
(***************************************************************************)
EXTENDS BmuDialogs, TLAPS

\* Where a command has found the name free and not yet returned.
Making == {"create", "answer", "oauth", "confirm", "rollback"}

\* A command that makes a remote has a name for it.
Named == pc \in Making \cup {"check"} => name \in Names

\* A remote without a token is being worked on by a command that will still look at it,
\* and rclone has not said of it that it is done.
StubOwned ==
    /\ \A n \in Names :
         remotes[n] = Stub /\ n \notin spoilt => pc \in Making \ {"create"} /\ name = n
    /\ pc = "confirm" => remotes[name] # Stub

\* The names that something of the program's may still write to: its command's, and
\* those of the sign-ins that outlived it.
Written == orphans \cup IF pc \in Making THEN {name} ELSE {}

\* What the user has under such a name was made after the program had looked.
Guarded == \A n \in Written : remotes[n] # None /\ remotes[n].by = "user" => n \in fresh

DialogInv == TypeOK /\ Named /\ StubOwned /\ Guarded

--------------------------------------------------------------------------------

\* What follows a reply: one of four places, and a waiting command in one of them.
LEMMA NextStepPlaces ==
    ASSUME NEW s \in ConfigStep, steps_taken \in 0..MaxSteps, NextStep(s)
    PROVE  /\ pc' \in {"rollback", "confirm", "answer", "oauth"}
           /\ steps_taken' \in 0..MaxSteps /\ clock' \in {"early", "late"}
           /\ child' \in {"none", "waiting"} /\ (child' # "none" <=> pc' = "oauth")
           /\ name' = name /\ answer' = answer
           /\ pc' = "confirm" => ~s.error /\ ~s.more
<1> DEFINE asked == steps_taken + 1
<1>1. s.error \in BOOLEAN /\ s.more \in BOOLEAN
  BY DEF ConfigStep
<1>2. /\ pc' \in {"rollback", "confirm", "answer", "oauth"}
      /\ pc' = "confirm" => ~s.error /\ ~s.more
      /\ pc' \in {"oauth", "answer"} => ~(asked > MaxSteps)
  BY <1>1 DEF NextStep
<1>3. steps_taken' \in 0..MaxSteps
  BY <1>2, DialogsAssumption DEF NextStep
<1> QED
  BY <1>2, <1>3 DEF NextStep

LEMMA RepliesAreSteps ==
    ASSUME NEW conf, NEW s \in Replies(conf)
    PROVE  s \in ConfigStep /\ (~s.more /\ ~s.error => conf # Stub)
BY DEF Replies, Stub, ConfigStep

\* The remotes that there are.
Made == [Stub EXCEPT !.token = TRUE]
Users == [kind : {"drive", "other"}, token : {TRUE}, by : {"user"}]

LEMMA RemoteKinds ==
    /\ {Stub, Made} \cup Users \subseteq Remote
    /\ Stub.by = "app" /\ Made.by = "app" /\ Made # Stub
    /\ \A r \in Users : r.by = "user" /\ r # Stub
    /\ None # Stub /\ None \notin Remote
<1>1. {Stub, Made} \subseteq Remote
  <2>1. Stub \in Remote
    BY DEF Stub, Remote
  <2>2. Made \in Remote
    BY <2>1 DEF Made, Remote
  <2> QED
    BY <2>1, <2>2
<1>2. Users \subseteq Remote
  BY DEF Users, Remote
<1>3. Stub.token = FALSE /\ Made.token = TRUE /\ Stub.by = "app" /\ Made.by = "app"
  BY DEF Stub, Made
<1>4. \A r \in Users : r.by = "user" /\ r.token = TRUE
  BY DEF Users
<1>5. \A r \in Users : r # Stub
  BY <1>3, <1>4
<1>6. Made # Stub /\ None # Stub
  BY <1>1, <1>3, DialogsAssumption
<1> QED
  BY <1>1, <1>2, <1>3, <1>4, <1>5, <1>6, DialogsAssumption

--------------------------------------------------------------------------------

LEMMA InitInv == Init => DialogInv
<1> SUFFICES ASSUME Init PROVE DialogInv
  OBVIOUS
<1> USE DEF Init
<1>1. remotes \in [Names -> Remote \cup {None}] /\ \A n \in Names : remotes[n] # Stub
  <2>1. [kind |-> "other", token |-> TRUE, by |-> "user"] \in Users
    BY DEF Users
  <2> QED
    BY <2>1, RemoteKinds
<1>2. TypeOK
  BY <1>1, DialogsAssumption DEF TypeOK
<1> QED
  BY <1>1, <1>2 DEF DialogInv, Named, StubOwned, Guarded, Written, Making

LEMMA InvStep == DialogInv /\ [Next]_vars => DialogInv'
<1> SUFFICES ASSUME DialogInv, [Next]_vars PROVE DialogInv'
  OBVIOUS
<1> USE DialogsAssumption DEF DialogInv, TypeOK, Named, StubOwned, Guarded, Written, Making
<1> USE DEF rclone, locals, timed, outside, Return, Goto, Stop
<1>1. CASE UNCHANGED vars
  BY <1>1 DEF vars
<1>2. CASE Check
  BY <1>2 DEF Check
<1>3. CASE ConfigCreate
  BY <1>3, NextStepPlaces, RepliesAreSteps, RemoteKinds DEF ConfigCreate
<1>4. CASE Answer
  BY <1>4, NextStepPlaces, RepliesAreSteps DEF Answer
<1>5. CASE Confirm
  BY <1>5 DEF Confirm
<1>6. CASE Rollback
  <2>1. TypeOK'
    BY <1>6, RemoteKinds DEF Rollback
  <2>2. Named' /\ StubOwned'
    BY <1>6, RemoteKinds DEF Rollback
  <2>3. Guarded'
    BY <1>6, RemoteKinds DEF Rollback
  <2> QED
    BY <2>1, <2>2, <2>3
<1>7. CASE LoginStart
  BY <1>7 DEF LoginStart
<1>8. CASE Verify
  BY <1>8 DEF Verify
<1>9. CASE Collect
  <2>1. TypeOK'
    BY <1>9, NextStepPlaces, RepliesAreSteps DEF Collect
  <2>2. Named' /\ StubOwned'
    BY <1>9, NextStepPlaces, RepliesAreSteps DEF Collect
  <2>3. Guarded'
    BY <1>9, NextStepPlaces, RepliesAreSteps DEF Collect
  <2> QED
    BY <2>1, <2>2, <2>3
<1>10. CASE TimedOut
  <2>1. TypeOK'
    <3>1. CASE pc = "oauth"
      BY <1>10, <3>1 DEF TimedOut
    <3>2. CASE pc = "signing"
      <4>1. pc' = "idle" /\ name' = None /\ steps_taken' = 0
        BY <1>10, <3>2 DEF TimedOut
      <4>2. child' = "none" /\ clock' = "early" /\ UNCHANGED <<rclone, outside>>
        BY <1>10 DEF TimedOut
      <4> QED
        BY <4>1, <4>2
    <3> QED
      BY <1>10, <3>1, <3>2 DEF TimedOut
  <2>2. Named' /\ StubOwned'
    BY <1>10 DEF TimedOut
  <2>3. Guarded'
    BY <1>10 DEF TimedOut
  <2> QED
    BY <2>1, <2>2, <2>3
<1>11. CASE ListRclone
  BY <1>11 DEF ListRclone
<1>12. CASE ListProton
  <2>1. pc = "list" /\ pc' = "idle" /\ name' = None /\ steps_taken' = 0
    BY <1>12 DEF ListProton
  <2>2. UNCHANGED <<rclone, outside, timed>>
    BY <1>12 DEF ListProton
  <2> QED
    BY <2>1, <2>2
<1>13. CASE CreateFolderRclone
  <2>1. pc' = "idle" /\ folders' \subseteq Tool
    BY <1>13 DEF CreateFolderRclone, Tool
  <2>2. name' = None /\ steps_taken' = 0
    BY <1>13 DEF CreateFolderRclone
  <2> QED
    BY <1>13, <2>1, <2>2 DEF CreateFolderRclone
<1>14. CASE FolderInfo
  BY <1>14 DEF FolderInfo
<1>15. CASE CreateFolderProton
  <2>1. pc = "create-folder" /\ pc' = "idle" /\ folders' \subseteq Tool
    BY <1>15 DEF CreateFolderProton, Tool
  <2>2. name' = None /\ steps_taken' = 0 /\ UNCHANGED <<rclone, session, timed>>
    BY <1>15 DEF CreateFolderProton
  <2> QED
    BY <2>1, <2>2
<1>16. CASE Commands
  BY <1>16 DEF Commands, Begin, Login, CreateRemote, Browse, NewFolder
<1>17. CASE TimePasses
  BY <1>17 DEF TimePasses
<1>18. CASE SignIn
  <2>1. TypeOK'
    BY <1>18, RemoteKinds DEF SignIn, Made
  <2>2. Named' /\ StubOwned'
    BY <1>18, RemoteKinds DEF SignIn, Made
  <2>3. Guarded'
    <3>1. UNCHANGED <<pc, name, orphans, fresh>>
      BY <1>18 DEF SignIn
    <3>2. remotes' = remotes \/ remotes' = [remotes EXCEPT ![name] = Made]
      BY <1>18 DEF SignIn, Made
    <3>3. \A n \in Names : remotes'[n] = remotes[n] \/ remotes'[n].by = "app"
      BY <3>2, RemoteKinds
    <3>4. Written' = Written /\ Written \subseteq Names
      BY <3>1
    <3> QED
      BY <3>1, <3>3, <3>4
  <2> QED
    BY <2>1, <2>2, <2>3
<1>19. CASE ChildExit
  BY <1>19 DEF ChildExit
<1>20. CASE UserEdits
  <2>1. TypeOK'
    <3>1. PICK n \in Names, r \in {None} \cup Users : remotes' = [remotes EXCEPT ![n] = r]
      BY <1>20 DEF UserEdits, Users
    <3>2. remotes' \in [Names -> Remote \cup {None}]
      BY <3>1, RemoteKinds
    <3>3. fresh' \subseteq Names /\ spoilt' \subseteq Names
      BY <1>20 DEF UserEdits
    <3> QED
      BY <1>20, <3>2, <3>3 DEF UserEdits
  <2>2. Named' /\ StubOwned'
    BY <1>20, RemoteKinds DEF UserEdits, Users
  <2>3. Guarded'
    BY <1>20, RemoteKinds DEF UserEdits, Users
  <2> QED
    BY <2>1, <2>2, <2>3
<1>21. CASE Elsewhere
  BY <1>21 DEF Elsewhere, Tool
<1>22. CASE Kill
  <2>1. TypeOK'
    BY <1>22 DEF Kill
  <2>2. Named' /\ StubOwned'
    BY <1>22 DEF Kill
  <2>3. Guarded'
    BY <1>22 DEF Kill
  <2> QED
    BY <2>1, <2>2, <2>3
<1>23. ASSUME NEW n \in Names, OrphanEnds(n) PROVE DialogInv'
  <2>1. TypeOK'
    BY <1>23, RemoteKinds DEF OrphanEnds, Made
  <2>2. Named' /\ StubOwned'
    BY <1>23, RemoteKinds DEF OrphanEnds, Made
  <2>3. Guarded'
    <3>1. UNCHANGED <<pc, name, fresh>> /\ Written' \subseteq Written
      BY <1>23 DEF OrphanEnds
    <3>2. remotes' = remotes \/ remotes' = [remotes EXCEPT ![n] = Made]
      BY <1>23 DEF OrphanEnds, Made
    <3>3. \A m \in Names : remotes'[m] = remotes[m] \/ remotes'[m].by = "app"
      BY <3>2, RemoteKinds
    <3>4. Written \subseteq Names
      OBVIOUS
    <3> QED
      BY <3>1, <3>3, <3>4
  <2> QED
    BY <2>1, <2>2, <2>3
<1> QED
  BY <1>1, <1>2, <1>3, <1>4, <1>5, <1>6, <1>7, <1>8, <1>9, <1>10, <1>11, <1>12, <1>13,
     <1>14, <1>15, <1>16, <1>17, <1>18, <1>19, <1>20, <1>21, <1>22, <1>23
  DEF Next, Caller, World

--------------------------------------------------------------------------------

\* The types, for any set of names: in particular a process with a time limit runs only
\* while the command that started it waits for it.
THEOREM DialogsTypeCorrect == Spec => []TypeOK
<1>1. DialogInv => TypeOK
  BY DEF DialogInv
<1> QED
  BY <1>1, InitInv, InvStep, PTL DEF Spec

\* create_drive_remote leaves no half-made remote behind, wherever it fails.
THEOREM NoStubLeftTheorem == Spec => []NoStubLeft
<1>1. DialogInv => NoStubLeft
  BY DEF DialogInv, StubOwned, NoStubLeft, Making
<1> QED
  BY <1>1, InitInv, InvStep, PTL DEF Spec

\* A step of the program changes a remote of the user's only if it is under a name that
\* something of the program's may still write to.
LEMMA KeepsStep == DialogInv /\ [Next]_vars =>
    [\A n \in Names \ fresh :
        remotes[n] # None /\ remotes[n].by = "user" => remotes'[n] = remotes[n] \/ UserEdits]_vars
<1> SUFFICES ASSUME DialogInv, Next, ~UserEdits,
                    NEW n \in Names \ fresh, remotes[n] # None, remotes[n].by = "user"
             PROVE  remotes'[n] = remotes[n]
  BY DEF vars
<1> USE DEF DialogInv, TypeOK, Named, Guarded, Written, Making
<1>1. n \notin Written
  BY DEF Guarded
<1>2. CASE UNCHANGED remotes
  BY <1>2
<1>3. CASE ConfigCreate
  BY <1>1, <1>3 DEF ConfigCreate
<1>4. CASE Rollback
  BY <1>1, <1>4 DEF Rollback
<1>5. CASE SignIn
  BY <1>1, <1>5 DEF SignIn
<1>6. ASSUME NEW m \in Names, OrphanEnds(m) PROVE remotes'[n] = remotes[n]
  BY <1>1, <1>6 DEF OrphanEnds
<1> QED
  BY <1>2, <1>3, <1>4, <1>5, <1>6
  DEF Next, Caller, World, Commands, rclone, Check, Answer, Confirm, LoginStart, Verify, Collect,
      TimedOut, ListRclone, ListProton, CreateFolderRclone, FolderInfo, CreateFolderProton, Login,
      CreateRemote, Browse, NewFolder, TimePasses, ChildExit, Elsewhere, Kill

\* What the user made by hand is not touched, whatever happens between the check of a name
\* and what is done to it, with the exception that UserRemotesKept names.
THEOREM UserRemotesKeptTheorem == Spec => UserRemotesKept
BY InitInv, InvStep, KeepsStep, PTL DEF Spec, UserRemotesKept

\* A success is answered only where the tool's own words have just been checked.
LEMMA SuccessStep == [Next]_vars =>
    [pc' = "idle" /\ answer' = "ok" =>
         CASE pc = "confirm" -> name \in Drives
           [] pc \in {"login", "verify"} -> session
           [] pc = "mkdir" -> "rclone" \in folders'
           [] pc \in {"info", "create-folder"} -> "proton" \in folders'
           [] OTHER -> pc = "idle"]_vars
<1> SUFFICES ASSUME Next, pc # "idle", pc' = "idle", answer' = "ok"
             PROVE  CASE pc = "confirm" -> name \in Drives
                      [] pc \in {"login", "verify"} -> session
                      [] pc = "mkdir" -> "rclone" \in folders'
                      [] pc \in {"info", "create-folder"} -> "proton" \in folders'
                      [] OTHER -> pc = "idle"
  BY DEF vars
<1> USE DEF Return, Goto, locals
<1>1. CASE Confirm
  BY <1>1 DEF Confirm
<1>2. CASE LoginStart
  BY <1>2 DEF LoginStart
<1>3. CASE Verify
  BY <1>3 DEF Verify
<1>4. CASE CreateFolderRclone
  BY <1>4 DEF CreateFolderRclone
<1>5. CASE FolderInfo
  BY <1>5 DEF FolderInfo, outside
<1>6. CASE CreateFolderProton
  BY <1>6 DEF CreateFolderProton
<1>7. ~(Check \/ ConfigCreate \/ Answer \/ Rollback \/ Collect \/ TimedOut \/ ListRclone \/ ListProton)
  <2>1. ~Check /\ ~Rollback /\ ~TimedOut /\ ~ListRclone /\ ~ListProton
    BY DEF Check, Rollback, TimedOut, ListRclone, ListProton
  <2>2. \A s : ~NextStep(s)
    BY DEF NextStep
  <2> QED
    BY <2>1, <2>2 DEF ConfigCreate, Answer, Collect
<1>8. ~(Commands \/ TimePasses \/ World)
  BY DEF Commands, Login, CreateRemote, Browse, NewFolder, Begin, TimePasses, World, SignIn, ChildExit,
         UserEdits, Elsewhere, Kill, OrphanEnds
<1> QED
  BY <1>1, <1>2, <1>3, <1>4, <1>5, <1>6, <1>7, <1>8 DEF Next, Caller

\* What a command calls a success is one, whatever the tools said, when the session ends,
\* the user edits and others make folders at any moment.
THEOREM SuccessMeansTheorem == Spec => SuccessMeans
BY SuccessStep, PTL DEF Spec, SuccessMeans

================================================================================
