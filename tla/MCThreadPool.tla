---------------------------- MODULE MCThreadPool ----------------------------
(* ThreadPool for TLC: threads and resources are interchangeable.          *)
EXTENDS ThreadPool

Symmetry == Permutations(Threads) \cup Permutations(Resources)
=============================================================================
