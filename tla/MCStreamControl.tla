--------------------------- MODULE MCStreamControl ---------------------------
(* Small instances of StreamControl; the names of attempts, groups and runs *)
(* are interchangeable.                                                     *)
EXTENDS StreamControl, TLC

Symmetry == Permutations(Attempts) \cup Permutations(Groups) \cup Permutations(Runs)

=============================================================================
