------------------------------- MODULE MCBmuLock -------------------------------
(* Small instances of BmuLock for TLC. *)
EXTENDS BmuLock, TLC

\* The runs are interchangeable (used for safety only).
RunSymmetry == Permutations(Run)

================================================================================
