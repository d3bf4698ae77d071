-------------------------- MODULE MCWorkspaceInit --------------------------
(* TLC instances of WorkspaceInit. *)
EXTENDS WorkspaceInit, TLC

\* Sound for safety: workspaces, initialisations and deletes are interchangeable.
Symmetry == Permutations(Workspaces) \cup Permutations(Inits)
            \cup Permutations(Deletes)

=============================================================================
