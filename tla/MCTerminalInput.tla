-------------------------- MODULE MCTerminalInput --------------------------
(* TLC instances of TerminalInput. *)
EXTENDS TerminalInput

=============================================================================
