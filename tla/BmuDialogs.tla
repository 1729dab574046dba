------------------------------- MODULE BmuDialogs ------------------------------
(***************************************************************************)
(* The dialogs of the replication settings: a Google Drive remote made     *)
(* through rclone's question and answer protocol (rclone_browse.rs), the   *)
(* sign-in to Proton Drive (proton_browse.rs), and the browsing and making *)
(* of folders on both.  Commands run one at a time; beside them the user   *)
(* edits the same remotes in a terminal, a browser may or may not come     *)
(* back from a sign-in, time passes, and the program may be killed, which  *)
(* leaves a command of rclone's that is waiting for the browser alone.     *)
(***************************************************************************)
EXTENDS Naturals, FiniteSets

CONSTANTS
    Names,              \* names of remotes
    MaxSteps,           \* MAX_CONFIG_STEPS
    None

Tool == {"rclone", "proton"}
Remote == [kind : {"drive", "other"}, token : BOOLEAN, by : {"app", "user"}]
Stub == [kind |-> "drive", token |-> FALSE, by |-> "app"]

ASSUME DialogsAssumption == MaxSteps \in Nat /\ None \notin Names \cup Remote

Question == {"config_shared_client_id", "config_is_local", "team drive"}

\* What a step of rclone's setup prints.
ConfigStep == [more : BOOLEAN, option : Question \cup {None}, error : BOOLEAN]

VARIABLES
    remotes,            \* rclone's configuration
    session,            \* whether proton-drive is signed in
    folders,            \* where the folder that is asked for exists
    pc, name, steps_taken,      \* the command that runs: where it is, its locals
    child, clock,       \* a command with a time limit, and whether that is over
    answer,             \* what the last command returned
    orphans,            \* sign-ins that outlived the program, by remote
    fresh,              \* observed: made by the user after a command had looked at the name
    spoilt              \* observed: no rollback, because of a kill or a failed delete

rclone == <<remotes, orphans, fresh, spoilt>>
locals == <<name, steps_taken>>
timed == <<child, clock>>
outside == <<session, folders>>
vars == <<rclone, outside, pc, locals, timed, answer>>

Begin(l, n) ==
    /\ pc = "idle" /\ pc' = l /\ name' = n
    /\ answer' = None
    /\ UNCHANGED <<steps_taken, timed>>

Return(a) ==
    /\ pc' = "idle" /\ answer' = a
    /\ name' = None /\ steps_taken' = 0

Goto(l) == pc' = l /\ UNCHANGED <<locals, answer>>

--------------------------------------------------------------------------------
(* Making a remote. *)

\* list_drive_remotes
Drives == {n \in Names : remotes[n] # None /\ remotes[n].kind = "drive"}

CreateRemote(n) ==
    /\ Begin("check", n)
    /\ fresh' = fresh \ ({n} \ orphans)
    /\ UNCHANGED <<remotes, orphans, spoilt, outside>>

\* Nothing is made yet, so that nothing is rolled back.
BugCheck ==                             \* takes the name whether it is there or not
    /\ pc = "check"
    /\ \/ Return("failed")
       \/ Goto("create")
    /\ UNCHANGED <<rclone, outside, timed>>

Check ==
    /\ pc = "check"
    /\ \/ Return("failed")
       \/ remotes[name] # None /\ Return("exists")
       \/ remotes[name] = None /\ Goto("create")
    /\ UNCHANGED <<rclone, outside, timed>>

\* rclone says that it is done only when there is a token.
Replies(conf) ==
    {s \in ConfigStep : ~s.more => conf # None /\ (conf.token \/ s.error)}

\* The loop of run_create_flow from one reply to what is done about it.  Only one question
\* is answered with a time limit, because it opens the browser; the others are answered
\* with "true" or with rclone's own proposal.
BugNextStep(s) ==                       \* does not count
    /\ pc' = CASE s.error -> "rollback"
               [] ~s.error /\ ~s.more -> "confirm"
               [] ~s.error /\ s.more ->
                    IF s.option = None THEN "rollback"
                    ELSE IF s.option = "config_is_local" THEN "oauth" ELSE "answer"
    /\ child' = IF pc' = "oauth" THEN "waiting" ELSE "none"
    /\ clock' = "early"
    /\ UNCHANGED <<name, steps_taken, answer>>

NextStep(s) ==
    LET asked == steps_taken + 1 IN
    /\ pc' = CASE s.error -> "rollback"
               [] ~s.error /\ ~s.more -> "confirm"
               [] ~s.error /\ s.more ->
                    IF asked > MaxSteps \/ s.option = None THEN "rollback"
                    ELSE IF s.option = "config_is_local" THEN "oauth" ELSE "answer"
    /\ steps_taken' = IF pc' \in {"oauth", "answer"} THEN asked ELSE steps_taken
    /\ child' = IF pc' = "oauth" THEN "waiting" ELSE "none"
    /\ clock' = "early"
    /\ UNCHANGED <<name, answer>>

\* config create does not mind an existing name.
ConfigCreate ==
    /\ pc = "create"
    /\ \/ remotes' = [remotes EXCEPT ![name] = Stub]
       \/ UNCHANGED remotes
    /\ \/ Goto("rollback") /\ UNCHANGED timed
       \/ remotes'[name] = Stub /\ \E s \in Replies(Stub) : NextStep(s)
    /\ UNCHANGED <<orphans, fresh, spoilt, outside>>

Answer ==
    /\ pc = "answer"
    /\ \/ Goto("rollback") /\ UNCHANGED timed
       \/ \E s \in Replies(remotes[name]) : NextStep(s)
    /\ UNCHANGED <<rclone, outside>>

\* What is asked last is not what rclone says it did, but what it has.
BugConfirm ==
    /\ pc = "confirm"
    /\ Return("ok")
    /\ UNCHANGED <<rclone, outside, timed>>

Confirm ==
    /\ pc = "confirm"
    /\ \/ Goto("rollback")
       \/ name \in Drives /\ Return("ok")
    /\ UNCHANGED <<rclone, outside, timed>>

\* Whatever failed; that the deletion fails is not noticed.
BugRollback ==                          \* none
    /\ pc = "rollback"
    /\ Return("failed")
    /\ UNCHANGED <<rclone, outside, timed>>

Rollback ==
    /\ pc = "rollback"
    /\ \/ /\ remotes' = [remotes EXCEPT ![name] = None]
          /\ UNCHANGED spoilt
       \/ /\ spoilt' = spoilt \cup {name}
          /\ UNCHANGED remotes
    /\ Return("failed")
    /\ UNCHANGED <<orphans, fresh, outside, timed>>

--------------------------------------------------------------------------------
(* Signing in to Proton Drive. *)

Login == Begin("login", None) /\ UNCHANGED <<rclone, outside>>

\* signed_in asks the network, and may say no to somebody who is.
LoginStart ==
    /\ pc = "login"
    /\ \/ session /\ Return("ok") /\ UNCHANGED timed
       \/ Return("failed") /\ UNCHANGED timed
       \/ Goto("signing") /\ child' = "waiting" /\ clock' = "early"
    /\ UNCHANGED <<rclone, outside>>

Verify ==
    /\ pc = "verify"
    /\ \/ session /\ Return("ok")
       \/ Return("failed")
    /\ UNCHANGED <<rclone, outside, timed>>

--------------------------------------------------------------------------------
(* The command that waits for the browser, and run_with_timeout beside it. *)

Stop == child' = "none" /\ clock' = "early"

\* What the sign-in leaves behind is there before the command ends.
SignIn ==
    /\ child = "waiting" /\ child' = "stored"
    /\ \/ /\ pc = "oauth"
          /\ remotes' = [remotes EXCEPT ![name] = [Stub EXCEPT !.token = TRUE]]
          /\ UNCHANGED session
       \/ pc = "signing" /\ session' = TRUE /\ UNCHANGED remotes
    /\ UNCHANGED <<orphans, fresh, spoilt, folders, pc, locals, clock, answer>>

ChildExit ==
    /\ \/ child = "stored" /\ child' \in {"ok", "failed"}
       \/ child = "waiting" /\ child' = "failed"
    /\ UNCHANGED <<rclone, outside, pc, locals, clock, answer>>

TimePasses ==
    /\ child \in {"waiting", "stored"} /\ clock = "early"
    /\ clock' = "late"
    /\ UNCHANGED <<rclone, outside, pc, locals, child, answer>>

Collect ==
    /\ child \in {"ok", "failed"}
    /\ \/ pc = "oauth" /\ child = "ok" /\ \E s \in Replies(remotes[name]) : NextStep(s)
       \/ pc = "oauth" /\ Goto("rollback") /\ Stop
       \/ pc = "signing" /\ child = "ok" /\ Goto("verify") /\ Stop
       \/ pc = "signing" /\ child = "failed" /\ Return("failed") /\ Stop
    /\ UNCHANGED <<rclone, outside>>

\* The time is looked at after try_wait: the command may have ended since.
TimedOut ==
    /\ child # "none" /\ clock = "late"
    /\ Stop
    /\ \/ pc = "oauth" /\ Goto("rollback")
       \/ pc = "signing" /\ Return("timed out")
    /\ UNCHANGED <<rclone, outside>>

--------------------------------------------------------------------------------
(* Folders. *)

Browse(t) ==
    /\ Begin(IF t = "rclone" THEN "lsjson" ELSE "list", None)
    /\ UNCHANGED <<rclone, outside>>

\* An expired token of Google's is rclone's own message, like every other refusal.
ListRclone ==
    /\ pc = "lsjson"
    /\ \/ Return("failed")
       \/ Return("listed")
    /\ UNCHANGED <<rclone, outside, timed>>

\* NOT_SIGNED_IN_MESSAGE for LOGIN_REQUIRED_MARKER, and only for that.
ListProton ==
    /\ pc = "list"
    /\ \/ Return("failed")
       \/ Return(IF session THEN "listed" ELSE "not signed in")
    /\ UNCHANGED <<rclone, outside, timed>>

NewFolder(t) ==
    /\ Begin(IF t = "rclone" THEN "mkdir" ELSE "info", None)
    /\ UNCHANGED <<rclone, outside>>

\* mkdir makes what is missing and accepts what is there.
CreateFolderRclone ==
    /\ pc = "mkdir"
    /\ \/ Return("failed") /\ UNCHANGED folders
       \/ folders' = folders \cup {"rclone"} /\ Return("ok")
    /\ UNCHANGED <<rclone, session, timed>>

\* create-folder does not, so that the path is asked for first; a refusal of any kind
\* counts as absent.
FolderInfo ==
    /\ pc = "info"
    /\ \/ Return("failed")
       \/ session /\ "proton" \in folders /\ Return("ok")
       \/ Goto("create-folder")
    /\ UNCHANGED <<rclone, outside, timed>>

CreateFolderProton ==
    /\ pc = "create-folder"
    /\ \/ Return("failed") /\ UNCHANGED folders
       \/ ~session /\ Return("not signed in") /\ UNCHANGED folders
       \/ /\ session /\ "proton" \notin folders
          /\ folders' = folders \cup {"proton"} /\ Return("ok")
    /\ UNCHANGED <<rclone, session, timed>>

--------------------------------------------------------------------------------
(* The rest of the world. *)

\* `rclone config` in a terminal.
UserEdits ==
    /\ \E n \in Names, r \in {None} \cup [kind : {"drive", "other"}, token : {TRUE}, by : {"user"}] :
         /\ r # remotes[n]
         /\ remotes' = [remotes EXCEPT ![n] = r]
         /\ fresh' = IF (pc # "idle" /\ n = name) \/ n \in orphans THEN fresh \cup {n} ELSE fresh
         /\ spoilt' = spoilt \ {n}
    /\ UNCHANGED <<orphans, outside, pc, locals, timed, answer>>

\* The session ends, somebody else makes or removes the folder.
Elsewhere ==
    /\ \/ session' = ~session /\ UNCHANGED folders
       \/ /\ \E t \in Tool : folders' \in {folders \cup {t}, folders \ {t}}
          /\ UNCHANGED session
    /\ UNCHANGED <<rclone, pc, locals, timed, answer>>

\* The program ends at any point; a sign-in that waits for the browser goes on.
Kill ==
    /\ pc # "idle"
    /\ Return("killed") /\ Stop
    /\ orphans' = IF pc = "oauth" /\ child = "waiting" THEN orphans \cup {name} ELSE orphans
    /\ spoilt' = IF pc \in {"answer", "oauth", "confirm", "rollback"}
                 THEN spoilt \cup {name} ELSE spoilt
    /\ UNCHANGED <<remotes, fresh, outside>>

OrphanEnds(n) ==
    /\ n \in orphans
    /\ remotes' \in {remotes, [remotes EXCEPT ![n] = [Stub EXCEPT !.token = TRUE]]}
    /\ orphans' = orphans \ {n}
    /\ UNCHANGED <<fresh, spoilt, outside, pc, locals, timed, answer>>

--------------------------------------------------------------------------------

Init ==
    /\ remotes \in [Names -> {None, [kind |-> "other", token |-> TRUE, by |-> "user"]}]
    /\ session \in BOOLEAN /\ folders = {}
    /\ pc = "idle" /\ name = None /\ steps_taken = 0
    /\ child = "none" /\ clock = "early" /\ answer = None
    /\ orphans = {} /\ fresh = {} /\ spoilt = {}

Caller ==
    \/ Check \/ ConfigCreate \/ Answer \/ Confirm \/ Rollback
    \/ LoginStart \/ Verify \/ Collect \/ TimedOut
    \/ ListRclone \/ ListProton \/ CreateFolderRclone \/ FolderInfo \/ CreateFolderProton

Commands == Login \/ (\E n \in Names : CreateRemote(n)) \/ (\E t \in Tool : Browse(t) \/ NewFolder(t))

World == SignIn \/ ChildExit \/ UserEdits \/ Elsewhere \/ Kill \/ (\E n \in Names : OrphanEnds(n))

Next == Caller \/ Commands \/ TimePasses \/ World

\* The calling thread goes on, the commands without a time limit return, and time passes;
\* nobody has to sign in.
Spec == Init /\ [][Next]_vars /\ WF_vars(Caller) /\ WF_vars(TimePasses)

--------------------------------------------------------------------------------
(* Properties. *)

\* Types; a command with a time limit runs exactly while somebody waits for it.
TypeOK ==
    /\ remotes \in [Names -> Remote \cup {None}]
    /\ session \in BOOLEAN /\ folders \subseteq Tool
    /\ name \in Names \cup {None}
    /\ steps_taken \in 0..MaxSteps /\ clock \in {"early", "late"}
    /\ child \in {"none", "waiting", "stored", "ok", "failed"}
    /\ child # "none" <=> pc \in {"oauth", "signing"}
    /\ orphans \subseteq Names /\ fresh \subseteq Names /\ spoilt \subseteq Names

\* create_drive_remote: a failure at any point, the time limit included, leaves no remote
\* without a token, which would block the name for the next attempt; only a kill or a
\* failed deletion does.
NoStubLeft ==
    \A n \in Names : remotes[n] = Stub /\ n \notin spoilt => pc # "idle" /\ name = n

\* Nothing but the user's own hand changes a remote the user made, unless it was made
\* after the command, or the sign-in that outlived it, had found the name free.
UserRemotesKept ==
    [][\A n \in Names \ fresh :
         remotes[n] # None /\ remotes[n].by = "user" => remotes'[n] = remotes[n] \/ UserEdits]_vars

\* A success is true when it is told, whatever the tools said on the way: the remote is
\* one of Google Drive's, the session or the folder is there.
SuccessMeans ==
    [][pc' = "idle" /\ answer' = "ok" =>
         CASE pc = "confirm" -> name \in Drives
           [] pc \in {"login", "verify"} -> session
           [] pc = "mkdir" -> "rclone" \in folders'
           [] pc \in {"info", "create-folder"} -> "proton" \in folders'
           [] OTHER -> pc = "idle"]_vars

\* Every command returns, though rclone may ask for ever and nobody may ever sign in.
DialogEnds == (pc # "idle") ~> (pc = "idle")

================================================================================
