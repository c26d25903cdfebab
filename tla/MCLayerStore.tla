---------------------------- MODULE MCLayerStore ----------------------------
(***************************************************************************)
(* Small instances of LayerStore for TLC.                                  *)
(***************************************************************************)
EXTENDS LayerStore, TLC

CONSTANTS v, d0, d1, d2

\* Three layers: nothing, a whiteout and a file, each with its digest.
Hash == "nothing" :> d0 @@ "gone" :> d1 @@ v :> d2

Symmetry == Permutations(Procs) \cup Permutations(Ids)

=============================================================================
