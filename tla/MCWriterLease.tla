--------------------------- MODULE MCWriterLease ---------------------------
(* TLC instances of WriterLease. *)
EXTENDS WriterLease, TLC

\* Sound for safety: pages and subscription slots are interchangeable.
Symmetry == Permutations(Clients) \cup Permutations(Slots)

=============================================================================
