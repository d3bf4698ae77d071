-------------------------- MODULE MCTerminalOutput --------------------------
(* TLC instances of TerminalOutput. *)
EXTENDS TerminalOutput

=============================================================================
