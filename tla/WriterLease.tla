---------------------------- MODULE WriterLease ----------------------------
(***************************************************************************)
(* The writer lease of one terminal pane in papyrus-server: the class      *)
(* WriterLeaseRegistry, the procedures of the terminal router that consult *)
(* it, and what a browser page does with the mode events of its stream.    *)
(* Panes share nothing, so one pane is the whole policy.                   *)
(*                                                                         *)
(* The server is one Node process: a procedure runs without interruption,  *)
(* except createOrAttach, which awaits the terminal daemon before it asks  *)
(* for the lease.  Requests of a page that is gone may still be running.   *)
(*                                                                         *)
(* A client is one page load.  A page that is closed may come back under   *)
(* the same name in the model once the server holds nothing of it; in the  *)
(* code that is another page with another id.                              *)
(*                                                                         *)
(* Left out: calls without a clientId, which read and change no lease.     *)
(***************************************************************************)
EXTENDS Naturals, FiniteSets

CONSTANTS
  Clients,   \* page loads, by clientId
  Slots,     \* stream subscriptions a page may have at the server at a time
  Grace,     \* WRITER_LEASE_GRACE_MS, in ticks
  None       \* null / undefined

ASSUME GraceAssumption == Grace \in Nat \ {0}
ASSUME SlotsAssumption == IsFiniteSet(Slots)
ASSUME NoneAssumption == None \notin Clients \cup Slots

VARIABLES
  (* PaneLeaseState *)
  holder,     \* the current writer, or None
  age,        \* ticks since lastActivityAt, counted up to Grace
  subs,       \* live stream subscriptions per client
  bound,      \* the bound subscriptions: their listener and their unbind closure
  (* the stream procedure *)
  mode,       \* readOnly of the last mode event of each bound subscription
  (* requests under way *)
  attaching,  \* clients whose createOrAttach is waiting for the daemon
  asked,      \* clients whose takeWriter is on its way
  (* the pages *)
  open,       \* pages that are loaded
  feed,       \* the subscription a page's terminal listens to, or None
  view        \* readOnlyRef: whether the page holds back its input

leaseVars == <<holder, age, subs, bound, mode>>
pageVars == <<open, feed, view>>
vars == <<leaseVars, attaching, asked, pageVars>>

Streams == Clients \X Slots

TypeOK ==
  /\ holder \in Clients \cup {None}
  /\ age \in 0..Grace
  /\ subs \in [Clients -> Nat]
  /\ bound \subseteq Streams
  /\ mode \in [Streams -> BOOLEAN]
  /\ attaching \subseteq Clients
  /\ asked \subseteq Clients
  /\ open \subseteq Clients
  /\ feed \in [Clients -> Slots \cup {None}]
  /\ view \in [Clients -> BOOLEAN]

Init ==
  /\ holder = None
  /\ age = Grace
  /\ subs = [c \in Clients |-> 0]
  /\ bound = {}
  /\ mode = [s \in Streams |-> FALSE]
  /\ attaching = {} /\ asked = {} /\ open = {}
  /\ feed = [c \in Clients |-> None]
  /\ view = [c \in Clients |-> FALSE]

-----------------------------------------------------------------------------
(* WriterLeaseRegistry *)

HolderIsLive == holder # None /\ (subs[holder] > 0 \/ age < Grace)

IsReadOnly(c) == holder # c /\ HolderIsLive

\* Mutant: nobody is told.
Notify_Nobody(listeners) == mode' = mode

\* Every listener emits its client's mode as it is after the change.
Notify(listeners) ==
  mode' = [s \in Streams |-> IF s \in listeners THEN IsReadOnly(s[1])' ELSE mode[s]]

Grant(c) ==
  /\ holder' = c
  /\ age' = 0
  /\ subs' = subs
  /\ IF holder = c THEN mode' = mode ELSE Notify(bound)

\* Mutant: the grace window is forgotten, only live streams count.
Acquire_NoGrace(c) ==
  /\ IF holder = c \/ holder = None \/ subs[holder] = 0 THEN Grant(c)
     ELSE UNCHANGED <<holder, age, subs, mode>>
  /\ UNCHANGED bound

\* attach and allowWrite decide alike: the holder renews, a free or stale lease
\* is granted, anyone else gets nothing.
Acquire(c) ==
  /\ IF holder = c \/ ~HolderIsLive THEN Grant(c)
     ELSE UNCHANGED <<holder, age, subs, mode>>
  /\ UNCHANGED bound

\* release of the lease by whom it belongs to, and clear by a kill.
GiveUp ==
  /\ holder' = None
  /\ UNCHANGED <<age, subs, bound>>
  /\ Notify(bound)

-----------------------------------------------------------------------------
(* Procedures *)

\* A page that mounts the terminal calls createOrAttach.
AttachCall(c) ==
  /\ c \in open /\ c \notin attaching
  /\ attaching' = attaching \cup {c}
  /\ UNCHANGED <<leaseVars, asked, pageVars>>

\* The daemon has answered.  The page may be gone by now.
AttachDone(c) ==
  /\ c \in attaching
  /\ attaching' = attaching \ {c}
  /\ Acquire(c)
  /\ UNCHANGED <<asked, pageVars>>

\* The daemon has failed the call: no lease decision.
AttachFails(c) ==
  /\ c \in attaching
  /\ attaching' = attaching \ {c}
  /\ UNCHANGED <<leaseVars, asked, pageVars>>

\* write and signal.  The page holds back its own input while view-only.  (One
\* that was buffered over a reconnect does to the lease what AttachDone does.)
Write(c) ==
  /\ feed[c] # None
  /\ ~view[c]
  /\ Acquire(c)
  /\ UNCHANGED <<attaching, asked, pageVars>>

\* resize renews the lease of the holder and never acquires it.
Resize(c) ==
  /\ feed[c] # None
  /\ holder = c
  /\ age' = 0
  /\ UNCHANGED <<holder, subs, bound, mode, attaching, asked, pageVars>>

\* "Take control": the button is there while the page is view-only.
PressTakeControl(c) ==
  /\ c \in open /\ view[c]
  /\ asked' = asked \cup {c}
  /\ UNCHANGED <<leaseVars, attaching, pageVars>>

\* takeWriter arrives.
TakeOver(c) ==
  /\ c \in asked
  /\ asked' = asked \ {c}
  /\ Grant(c)
  /\ UNCHANGED <<bound, attaching, pageVars>>

\* detach, sent once the terminal is unmounted.
Detach(c) ==
  /\ c \in open /\ feed[c] = None
  /\ holder = c
  /\ GiveUp
  /\ UNCHANGED <<attaching, asked, pageVars>>

\* The end of kill, from any page: the lease is cleared.
KillDone ==
  /\ holder # None
  /\ GiveUp
  /\ UNCHANGED <<attaching, asked, pageVars>>

\* stream: the subscription is bound and its mode emitted right away.
Bind(c, i) ==
  /\ c \in open /\ feed[c] = None
  /\ <<c, i>> \notin bound
  /\ subs' = [subs EXCEPT ![c] = @ + 1]
  /\ bound' = bound \cup {<<c, i>>}
  /\ UNCHANGED <<holder, age>>
  /\ mode' = [mode EXCEPT ![<<c, i>>] = IsReadOnly(c)']
  /\ feed' = [feed EXCEPT ![c] = i]
  /\ UNCHANGED <<attaching, asked, open, view>>

\* Mutants: any subscription that ends frees the lease; the closure may run
\* again; a count is never taken back.
Unbind_AnySub(c, i) ==
  /\ <<c, i>> \in bound /\ feed[c] # i
  /\ bound' = bound \ {<<c, i>>}
  /\ subs' = [subs EXCEPT ![c] = @ - 1]
  /\ age' = age
  /\ holder' = IF holder = c THEN None ELSE holder
  /\ IF holder = c THEN Notify(bound') ELSE mode' = mode
  /\ UNCHANGED <<attaching, asked, pageVars>>

Unbind_Again(c, i) ==
  LET freed == holder = c /\ subs[c] <= 1 IN
  /\ feed[c] # i
  /\ bound' = bound \ {<<c, i>>}
  /\ subs' = [subs EXCEPT ![c] = @ - 1]
  /\ age' = age
  /\ holder' = IF freed THEN None ELSE holder
  /\ IF freed THEN Notify(bound') ELSE mode' = mode
  /\ UNCHANGED <<attaching, asked, pageVars>>

Unbind_KeepsCount(c, i) ==
  /\ <<c, i>> \in bound /\ feed[c] # i
  /\ bound' = bound \ {<<c, i>>}
  /\ UNCHANGED <<holder, age, subs, mode, attaching, asked, pageVars>>

\* A subscription is torn down: the page has stopped it, or the server has seen
\* its socket close.  The holder's last one takes the lease with it.
Unbind(c, i) ==
  LET freed == holder = c /\ subs[c] <= 1 IN
  /\ <<c, i>> \in bound /\ feed[c] # i
  /\ bound' = bound \ {<<c, i>>}
  /\ subs' = [subs EXCEPT ![c] = IF @ > 0 THEN @ - 1 ELSE 0]
  /\ age' = age
  /\ holder' = IF freed THEN None ELSE holder
  /\ IF freed THEN Notify(bound') ELSE mode' = mode
  /\ UNCHANGED <<attaching, asked, pageVars>>

-----------------------------------------------------------------------------
(* Pages and time *)

\* A page is loaded, under an id the server has never seen.
Open(c) ==
  /\ c \notin open \cup attaching
  /\ holder # c
  /\ \A i \in Slots : <<c, i>> \notin bound
  /\ open' = open \cup {c}
  /\ view' = [view EXCEPT ![c] = FALSE]
  /\ UNCHANGED <<leaseVars, attaching, asked, feed>>

\* The page loses its socket and will subscribe again; or its terminal is
\* unmounted, and starts from "writable" when it is mounted again.
Lose(c) ==
  /\ feed[c] # None
  /\ feed' = [feed EXCEPT ![c] = None]
  /\ view' \in {view, [view EXCEPT ![c] = FALSE]}
  /\ UNCHANGED <<leaseVars, attaching, asked, open>>

\* The tab is closed or reloaded.
Close(c) ==
  /\ c \in open
  /\ open' = open \ {c}
  /\ asked' = asked \ {c}
  /\ feed' = [feed EXCEPT ![c] = None]
  /\ UNCHANGED <<leaseVars, attaching, view>>

\* A mode event arrives (of several under way, the last one counts).
Deliver(c) ==
  /\ feed[c] # None
  /\ view[c] # mode[<<c, feed[c]>>]
  /\ view' = [view EXCEPT ![c] = ~@]
  /\ UNCHANGED <<leaseVars, attaching, asked, open, feed>>

Tick ==
  /\ age < Grace
  /\ age' = age + 1
  /\ UNCHANGED <<holder, subs, bound, mode, attaching, asked, pageVars>>

Next ==
  \/ \E c \in Clients :
       \/ AttachCall(c) \/ AttachDone(c) \/ AttachFails(c)
       \/ Write(c) \/ Resize(c) \/ PressTakeControl(c) \/ TakeOver(c) \/ Detach(c)
       \/ Open(c) \/ Lose(c) \/ Close(c) \/ Deliver(c)
  \/ \E c \in Clients, i \in Slots : Bind(c, i) \/ Unbind(c, i)
  \/ KillDone
  \/ Tick

(***************************************************************************)
(* Time passes, the daemon answers or fails, events reach a page that is   *)
(* connected, so does its takeWriter the server, and the server notices a  *)
(* socket that its page has closed.  No user has to type, press a button   *)
(* or come back.                                                           *)
(***************************************************************************)
Fairness ==
  /\ WF_vars(Tick)
  /\ \A c \in Clients :
       /\ WF_vars(AttachDone(c) \/ AttachFails(c))
       /\ WF_vars(Deliver(c))
       /\ WF_vars(feed[c] # None /\ TakeOver(c))
       /\ \A i \in Slots : WF_vars(c \notin open /\ Unbind(c, i))

Spec == Init /\ [][Next]_vars
FairSpec == Spec /\ Fairness

-----------------------------------------------------------------------------
(* Properties *)

SlotsOf(c) == {i \in Slots : <<c, i>> \in bound}

\* PaneLeaseState.subs: the count that keeps a lease alive is the number of
\* subscriptions the client really has, over reconnects that overlap the old
\* socket.
SubsMatchListeners == \A c \in Clients : subs[c] = Cardinality(SlotsOf(c))

\* A page that was last told it is view-only is so because of somebody: the
\* pane has a holder, and it is another page.  (That the holder may have gone
\* stale meanwhile is a different matter: see MirrorFreed.)
ViewOnlyHasWriter ==
  \A s \in bound : mode[s] => holder \notin {None, s[1]}

\* A live holder loses the lease to nobody, unless that page asked to take
\* control: not to a write, a createOrAttach or a stream of another page.
NeverStolen ==
  [][HolderIsLive /\ holder' \notin {holder, None} => holder' \in asked]_vars

\* A holder with a stream of its own keeps the lease through everything but a
\* kill and its own detach, takeovers aside: the end of one of several
\* subscriptions does not cost it the lease.
LeaseOutlivesOneStream ==
  [][\A c \in Clients :
       (holder = c /\ holder' = None /\ subs[c] > 0) =>
         \/ KillDone
         \/ Detach(c)
         \/ SlotsOf(c)' = {}]_vars

\* takeWriter: "the previous writer flips to view-only at the same moment", and
\* so does everyone else, whichever way a lease changes hands.
HandOverTellsAll ==
  [][holder' \notin {holder, None} =>
       \A s \in bound \cap bound' : mode'[s] = (s[1] # holder')]_vars

\* The lease is a token for the right to type.  Over NeverStolen and
\* HandOverTellsAll this says that the end of one of several subscriptions does not
\* cost the holder the lease and the end of the last one does, and that neither
\* the grace period nor the subscription count ends a lease that is in use.
Token == INSTANCE WriterToken WITH
  writer <- holder,
  live <- HolderIsLive,
  wanted <- asked,
  told <- [s \in bound |-> mode[s]]

ImplementsToken == Token!Spec

\* The lease of a page that is gone does not stay live: its streams are torn
\* down or its grace runs out, also when its createOrAttach ends after it left.
GoneWriterExpires ==
  \A c \in Clients : (holder = c /\ c \notin open) ~> (holder # c \/ ~HolderIsLive)

\* "Closing the writer's tab ... frees the pane.  The next device to type ...
\* becomes the writer": a page that stays while the writer's page is gone does
\* not stay view-only.
MirrorFreed ==
  \A w, c \in Clients :
    (holder = w /\ w \notin open /\ c \in open /\ view[c])
      ~> (w \in open \/ c \notin open \/ feed[c] = None \/ ~view[c])

=============================================================================
