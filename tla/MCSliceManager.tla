--------------------------- MODULE MCSliceManager ---------------------------
(* Instances of SliceManager for TLC.  Handlers run the same code and slices *)
(* differ in nothing, so both are symmetric.                                 *)
EXTENDS SliceManager, TLC

CONSTANTS s1, s2, r1, r2, r3

Symmetry == Permutations(Slices) \cup Permutations(Requests)
=============================================================================
