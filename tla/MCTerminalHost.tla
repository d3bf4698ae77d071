--------------------------- MODULE MCTerminalHost ---------------------------
(* TLC instances of TerminalHost. *)
EXTENDS TerminalHost, TLC

\* Sound for safety: calls, clients, sockets and handles are interchangeable.
Symmetry == Permutations(Handles) \cup Permutations(Calls)
            \cup Permutations(Socks) \cup Permutations(Clients)

=============================================================================
