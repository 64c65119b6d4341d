---------------------------- MODULE MCAsyncPool -----------------------------
(* AsyncPool for TLC. *)
EXTENDS AsyncPool

Symmetry == Permutations(Resources)
=============================================================================
