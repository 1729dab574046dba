-------------------------------- MODULE BmuVault --------------------------------
(***************************************************************************)
(* What the history of one project promises (docs/MANUAL.md, backmeup.sh): *)
(* "anything changed or deleted since the last run is moved into a new     *)
(* snapshot instead of being lost".  There is the current version of each  *)
(* file and the set of its past ones; a version leaves the first only to   *)
(* enter the second, and nothing ever leaves the second.                   *)
(***************************************************************************)
CONSTANTS
    File,
    Version,   \* the versions a file can have
    NoVersion  \* the file is not there

VARIABLES
    current,   \* current[f]: the version of f in the mirror, NoVersion when it has none
    past       \* the <<file, version>> pairs that history holds

vars == <<current, past>>

Init ==
    /\ current = [f \in File |-> NoVersion]
    /\ past = {}

\* The current version of f becomes a past one.
Keep(f) ==
    /\ current[f] # NoVersion
    /\ past' = past \cup {<<f, current[f]>>}
    /\ current' = [current EXCEPT ![f] = NoVersion]

\* A new version of f becomes the current one; no older one is in its place.
Take(f, v) ==
    /\ current[f] = NoVersion
    /\ current' = [current EXCEPT ![f] = v]
    /\ UNCHANGED past

Next == \E f \in File : Keep(f) \/ \E v \in Version : Take(f, v)

Spec == Init /\ [][Next]_vars

================================================================================
