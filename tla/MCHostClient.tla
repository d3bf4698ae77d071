---------------------------- MODULE MCHostClient ----------------------------
(* TLC instances of HostClient. *)
EXTENDS HostClient, TLC

\* Sound for safety: calls are interchangeable, and so are socket objects.
Symmetry == Permutations(Calls) \cup Permutations(Socks)

=============================================================================
