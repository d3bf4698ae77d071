---------------------------- MODULE MCColdRestore ----------------------------
(* TLC instances of ColdRestore. *)
EXTENDS ColdRestore, TLC

\* Sound for safety: writers are interchangeable.
Symmetry == Permutations(Writers)

=============================================================================
