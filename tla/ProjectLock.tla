---------------------------- MODULE ProjectLock ----------------------------
(***************************************************************************)
(* What acquireProjectLock and releaseProjectLock of WorkspaceInitManager  *)
(* promise to those who work on a project's repository: one at a time, in  *)
(* the order in which they asked, and the lock is given back by the one    *)
(* who has it.  Nobody gives up waiting: whoever has asked leaves the line *)
(* only when served, if only to go at once because there is nothing to do  *)
(* any more.                                                               *)
(***************************************************************************)
EXTENDS Sequences

CONSTANTS Actors, None

VARIABLES
  at,      \* where each actor is: "away", "waiting", "inside"
  line,    \* who waits, in the order they came
  holder   \* who has the lock, or None

vars == <<at, line, holder>>

Init ==
  /\ at = [a \in Actors |-> "away"]
  /\ line = << >>
  /\ holder = None

Move(a, from, to) == at[a] = from /\ at' = [at EXCEPT ![a] = to]

Ask(a) ==
  /\ Move(a, "away", "waiting")
  /\ line' = Append(line, a)
  /\ UNCHANGED holder

\* The lock is free and a is the first in the line.
Served(a) ==
  /\ holder = None
  /\ line # << >> /\ a = Head(line)
  /\ line' = Tail(line)

Enter(a) ==
  /\ Served(a)
  /\ Move(a, "waiting", "inside")
  /\ holder' = a

Pass(a) ==
  /\ Served(a)
  /\ Move(a, "waiting", "away")
  /\ UNCHANGED holder

Leave(a) ==
  /\ holder = a
  /\ Move(a, "inside", "away")
  /\ holder' = None
  /\ UNCHANGED line

\* The app stops; nothing of the lock is persisted.
Lost == Init'

Next == Lost \/ \E a \in Actors : Ask(a) \/ Enter(a) \/ Pass(a) \/ Leave(a)

Spec == Init /\ [][Next]_vars

=============================================================================
