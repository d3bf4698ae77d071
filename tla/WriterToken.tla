---------------------------- MODULE WriterToken ----------------------------
(***************************************************************************)
(* What the writer lease of a pane promises to those who have it on their  *)
(* screens, whatever timers, counts and closures it is made of: a token    *)
(* for the right to type.  A device whose token is live loses it to nobody *)
(* who has not asked for control; it stays live while the device has a     *)
(* screen, and goes with the last one.  Whenever the token changes hands   *)
(* every screen is told in the same step whether it is view-only now.      *)
(***************************************************************************)
CONSTANTS
  Clients,  \* devices
  Slots,    \* a screen is a device and one of its slots
  None

VARIABLES
  writer,  \* who has the token, or None
  live,    \* the token is in use: it cannot just be taken
  wanted,  \* the devices that ask for control
  told     \* per screen: whether it was told to be view-only

vars == <<writer, live, wanted, told>>

Init ==
  /\ writer = None /\ live = FALSE
  /\ wanted = {}
  /\ told = [s \in {} |-> FALSE]

Screens == DOMAIN told

IsLast(s) == s[1] = writer /\ \A r \in Screens \ {s} : r[1] # writer

\* The token goes to c, and all screens are told.
Grant(c) ==
  /\ writer' = c /\ live' = TRUE
  /\ told' = IF writer = c THEN told ELSE [s \in Screens |-> s[1] # c]

\* By using the terminal: the writer goes on, or a token not in use is taken.
Claim(c) ==
  /\ writer = c \/ ~live
  /\ Grant(c)
  /\ UNCHANGED wanted

Ask(c) == wanted' = wanted \cup {c} /\ UNCHANGED <<writer, live, told>>

Withdraw(c) == wanted' = wanted \ {c} /\ UNCHANGED <<writer, live, told>>

TakeControl(c) ==
  /\ c \in wanted /\ wanted' = wanted \ {c}
  /\ Grant(c)

\* The writer has been idle, and has no screen.
Lapse ==
  /\ live /\ \A s \in Screens : s[1] # writer
  /\ live' = FALSE
  /\ UNCHANGED <<writer, wanted, told>>

\* The terminal is killed, or the writer leaves it.
Free ==
  /\ writer # None
  /\ writer' = None /\ live' = FALSE
  /\ told' = [s \in Screens |-> FALSE]
  /\ UNCHANGED wanted

\* A screen is added; that of an idle writer brings the token back to life.
Join(s) ==
  /\ s \notin Screens
  /\ live' = (live \/ s[1] = writer)
  /\ told' = [r \in Screens \cup {s} |-> IF r = s THEN live /\ s[1] # writer ELSE told[r]]
  /\ UNCHANGED <<writer, wanted>>

\* One goes, and with the last of the writer the token.
Leave(s) ==
  /\ s \in Screens
  /\ writer' = IF IsLast(s) THEN None ELSE writer
  /\ live' = (live /\ ~IsLast(s))
  /\ told' = [r \in Screens \ {s} |-> told[r] /\ ~IsLast(s)]
  /\ UNCHANGED wanted

Next ==
  \/ \E c \in Clients : Claim(c) \/ Ask(c) \/ Withdraw(c) \/ TakeControl(c)
  \/ \E s \in Clients \X Slots : Join(s) \/ Leave(s)
  \/ Lapse \/ Free

Spec == Init /\ [][Next]_vars

=============================================================================
