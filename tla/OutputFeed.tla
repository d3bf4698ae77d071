----------------------------- MODULE OutputFeed -----------------------------
(***************************************************************************)
(* What a terminal promises to the clients that watch it, whatever         *)
(* batches, pipes and pauses its output passes: a feed.  Units are         *)
(* published in order and without a hole.  All members hear a unit at the  *)
(* same time, when it is published: nobody twice, and none is left out.    *)
(* The end is told once to all who are members then, nothing is published  *)
(* after it and nobody joins any more.                                     *)
(***************************************************************************)
EXTENDS Naturals

CONSTANT Clients

VARIABLES
  log,      \* the units published so far: 1 .. n for some n
  over,     \* the feed has ended
  members,  \* the clients that have joined and not left
  heard,    \* per client, what was published since it joined
  told      \* the members that were told of the end

vars == <<log, over, members, heard, told>>

Init ==
  /\ log = {} /\ over = FALSE
  /\ members = {}
  /\ heard = [c \in Clients |-> {}]
  /\ told = {}

WithoutHole(units) == \A u \in units : u \in Nat \ {0} /\ 1 .. u \subseteq units

Publish ==
  /\ ~over
  /\ log \subseteq log' /\ log' # log
  /\ WithoutHole(log')
  /\ heard' = [c \in Clients |-> IF c \in members THEN heard[c] \cup (log' \ log) ELSE {}]
  /\ UNCHANGED <<over, members, told>>

End ==
  /\ ~over
  /\ over' = TRUE
  /\ told' = members
  /\ UNCHANGED <<log, members, heard>>

Join(c) ==
  /\ ~over
  /\ members' = members \cup {c}
  /\ heard' = [heard EXCEPT ![c] = {}]
  /\ UNCHANGED <<log, over, told>>

Leave(gone) ==
  /\ members' = members \ gone
  /\ heard' = [c \in Clients |-> IF c \in gone THEN {} ELSE heard[c]]
  /\ told' = told \ gone
  /\ UNCHANGED <<log, over>>

Next ==
  \/ Publish \/ End
  \/ \E c \in Clients : Join(c)
  \/ \E gone \in SUBSET members : Leave(gone)

Spec == Init /\ [][Next]_vars

=============================================================================
