---------------------------- MODULE InputChannel ----------------------------
(***************************************************************************)
(* What a terminal promises to those who type into it, whatever queues,    *)
(* pipes, chunks and retries the input passes: a channel.  Units are       *)
(* numbered as they are accepted; only an open channel accepts, and one    *)
(* that was closed is not opened again.  They come out in order, each      *)
(* once, and without a hole until the channel breaks; what was accepted    *)
(* may still come out when the channel is closed.                          *)
(***************************************************************************)
EXTENDS Naturals, Sequences

VARIABLES
  open,      \* input may be accepted
  broken,    \* units may be missing from now on
  accepted,  \* units accepted so far
  received   \* units that came out, in order

vars == <<open, broken, accepted, received>>

Init ==
  /\ open = TRUE /\ broken = FALSE
  /\ accepted = 0
  /\ received = << >>

Accept ==
  /\ open
  /\ accepted' \in Nat /\ accepted' > accepted
  /\ UNCHANGED <<open, broken, received>>

\* Some units come out together, the next ones if the channel is not broken.
Deliver ==
  \E from, to \in 1 .. accepted :
    /\ from <= to
    /\ \A i \in 1 .. Len(received) : received[i] < from
    /\ broken \/ from = Len(received) + 1
    /\ received' = received \o [i \in 1 .. to - from + 1 |-> from + i - 1]
    /\ UNCHANGED <<open, broken, accepted>>

Break ==
  /\ ~broken
  /\ broken' = TRUE
  /\ UNCHANGED <<open, accepted, received>>

Close ==
  /\ open
  /\ open' = FALSE
  /\ UNCHANGED <<broken, accepted, received>>

Next == Accept \/ Deliver \/ Break \/ Close

Spec == Init /\ [][Next]_vars

=============================================================================
