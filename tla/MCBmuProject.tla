------------------------------ MODULE MCBmuProject ------------------------------
(* Small instances of BmuProject for TLC. *)
EXTENDS BmuProject, TLC

Symmetry == Permutations(File) \cup Permutations(Slot)

\* Where a run may be killed: anywhere; anywhere but while a directory is half removed or half
\* extracted (see store_killed_rm) or a filelist half written.
AnyStep == Step \ {"idle"}
SafeStep == AnyStep \ {"rm", "extract", "flist2", "live2", "alist2"}

================================================================================
