----------------------------- MODULE MCRollout -----------------------------
(***************************************************************************)
(* Small instances of Rollout for TLC.                                     *)
(***************************************************************************)
EXTENDS Rollout, TLC

\* The bundle's root filesystem has every file, with the content Old.
CONSTANT Old
OldFiles == [f \in Files |-> Old]

Symmetry == Permutations(Cmds) \cup Permutations(Ids) \cup Permutations(Snaps)
              \cup Permutations(Ckpts) \cup Permutations(Files)

=============================================================================
