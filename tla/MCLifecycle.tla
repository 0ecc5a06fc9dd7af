---------------------------- MODULE MCLifecycle ----------------------------
(* Lifecycle for TLC: symmetric clients and runs.                          *)
EXTENDS Lifecycle, TLC

Symmetry == Permutations(Clients) \cup Permutations(Runs)

=============================================================================
