-------------------------- MODULE SessionDirectory --------------------------
(***************************************************************************)
(* What a client of the daemon may rely on when it polls listSessions: per *)
(* session id, a session that was asked to terminate or has exited never   *)
(* becomes attachable again; only after the id has left the list can a new *)
(* session appear under it.  killByWorkspaceId and the kill-all procedure  *)
(* poll on that ground until no session is alive.                          *)
(***************************************************************************)
CONSTANT Ids

VARIABLE status  \* what listSessions shows of each id

State == {"absent", "attachable", "dying"}

\* How the entry of one id may change in one step.  "attachable" to "absent"
\* is the shutdown of the host.
May(from, to) ==
  \/ from = to
  \/ from = "absent" /\ to = "attachable"
  \/ from = "attachable" /\ to \in {"dying", "absent"}
  \/ from = "dying" /\ to = "absent"

Init == status = [id \in Ids |-> "absent"]

\* One event may touch several ids: killAll, a disconnect, shutdown.
Next ==
  /\ status' \in [Ids -> State]
  /\ \A id \in Ids : May(status[id], status'[id])

Spec == Init /\ [][Next]_status

=============================================================================
