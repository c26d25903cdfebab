---------------------------- MODULE MCLifecycle ----------------------------
(***************************************************************************)
(* Small instances of Lifecycle for TLC.                                   *)
(***************************************************************************)
EXTENDS Lifecycle, TLC

\* Commands, processes and inodes are interchangeable.
Symmetry == Permutations(Cmds) \cup Permutations(Pids) \cup Permutations(Inodes)

=============================================================================
