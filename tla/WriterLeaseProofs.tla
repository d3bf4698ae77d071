-------------------------- MODULE WriterLeaseProofs --------------------------
(***************************************************************************)
(* Proofs about WriterLease for any set of pages, any finite number of     *)
(* overlapping subscriptions of a page and any grace period.               *)
(***************************************************************************)
EXTENDS WriterLease, FiniteSetTheorems, TLAPS

-----------------------------------------------------------------------------
(* Type correctness *)

\* A listener is told whether it is read-only: the modes stay Booleans.
LEMMA NotifyType ==
  ASSUME TypeOK, NEW listeners, Notify(listeners)
  PROVE  mode' \in [Streams -> BOOLEAN]
BY DEF Notify, TypeOK, IsReadOnly, HolderIsLive

LEMMA GrantType ==
  ASSUME TypeOK, NEW c \in Clients, Grant(c)
  PROVE  /\ holder' \in Clients \cup {None} /\ age' \in 0..Grace
         /\ subs' \in [Clients -> Nat] /\ mode' \in [Streams -> BOOLEAN]
BY NotifyType, GraceAssumption DEF Grant, TypeOK

LEMMA AcquireType ==
  ASSUME TypeOK, NEW c \in Clients, Acquire(c)
  PROVE  /\ holder' \in Clients \cup {None} /\ age' \in 0..Grace
         /\ subs' \in [Clients -> Nat] /\ mode' \in [Streams -> BOOLEAN]
         /\ bound' \subseteq Streams
BY GrantType DEF Acquire, TypeOK

LEMMA TypeInit == Init => TypeOK
BY GraceAssumption DEF Init, TypeOK

LEMMA TypeStep == TypeOK /\ [Next]_vars => TypeOK'
<1> SUFFICES ASSUME TypeOK, [Next]_vars PROVE TypeOK'
  OBVIOUS
<1> USE DEF leaseVars, pageVars
<1>1. ASSUME NEW c \in Clients, AttachCall(c) \/ AttachFails(c)
      PROVE  TypeOK'
  BY <1>1 DEF AttachCall, AttachFails, TypeOK
<1>2. ASSUME NEW c \in Clients, AttachDone(c)
      PROVE  TypeOK'
  BY <1>2, AcquireType DEF AttachDone, TypeOK
<1>3. ASSUME NEW c \in Clients, Write(c)
      PROVE  TypeOK'
  BY <1>3, AcquireType DEF Write, TypeOK
<1>4. ASSUME NEW c \in Clients, Resize(c) \/ PressTakeControl(c)
      PROVE  TypeOK'
  BY <1>4, GraceAssumption DEF Resize, PressTakeControl, TypeOK
<1>5. ASSUME NEW c \in Clients, TakeOver(c)
      PROVE  TypeOK'
  BY <1>5, GrantType DEF TakeOver, TypeOK
<1>6. ASSUME GiveUp, UNCHANGED <<attaching, asked, pageVars>>
      PROVE  TypeOK'
  BY <1>6, NotifyType DEF GiveUp, TypeOK
<1>7. ASSUME NEW c \in Clients, Open(c) \/ Close(c) \/ Lose(c) \/ Deliver(c)
      PROVE  TypeOK'
  BY <1>7 DEF Open, Close, Lose, Deliver, TypeOK
<1>8. ASSUME NEW c \in Clients, NEW i \in Slots, Bind(c, i)
      PROVE  TypeOK'
  <2>1. <<c, i>> \in Streams
    BY DEF Streams
  <2>2. IsReadOnly(c)' \in BOOLEAN
    BY DEF IsReadOnly, HolderIsLive
  <2>3. mode' \in [Streams -> BOOLEAN]
    BY <1>8, <2>1, <2>2 DEF Bind, TypeOK
  <2> QED BY <1>8, <2>1, <2>3 DEF Bind, TypeOK
<1>9. ASSUME NEW c \in Clients, NEW i \in Slots, Unbind(c, i)
      PROVE  TypeOK'
  <2>1. mode' \in [Streams -> BOOLEAN]
    BY <1>9, NotifyType DEF Unbind, TypeOK
  <2>2. subs' \in [Clients -> Nat]
    BY <1>9 DEF Unbind, TypeOK
  <2> QED BY <1>9, <2>1, <2>2 DEF Unbind, TypeOK
<1>10. CASE Tick
  BY <1>10, GraceAssumption DEF Tick, TypeOK
<1>11. CASE UNCHANGED vars
  BY <1>11 DEF vars, TypeOK
<1> QED
  BY <1>1, <1>2, <1>3, <1>4, <1>5, <1>6, <1>7, <1>8, <1>9, <1>10, <1>11
     DEF Next, Detach, KillDone

\* The lease, the subscription counts and the modes keep their types; the age
\* of the lease stays within the grace period.
THEOREM LeaseTypes == Spec => []TypeOK
BY TypeInit, TypeStep, PTL DEF Spec

-----------------------------------------------------------------------------
(* The subscription count *)

LEMMA SubsStep ==
  ASSUME TypeOK, SubsMatchListeners, [Next]_vars
  PROVE  SubsMatchListeners'
<1> USE DEF leaseVars, pageVars
<1>1. ASSUME UNCHANGED <<subs, bound>>
      PROVE  SubsMatchListeners'
  BY <1>1 DEF SubsMatchListeners, SlotsOf
<1>2. \A c \in Clients : IsFiniteSet(SlotsOf(c)) /\ Cardinality(SlotsOf(c)) \in Nat
  BY SlotsAssumption, FS_Subset, FS_CardinalityType DEF SlotsOf
<1>3. ASSUME NEW c \in Clients, NEW i \in Slots, Bind(c, i)
      PROVE  SubsMatchListeners'
  <2>1. SlotsOf(c)' = SlotsOf(c) \cup {i} /\ i \notin SlotsOf(c)
    BY <1>3 DEF Bind, SlotsOf
  <2>2. Cardinality(SlotsOf(c) \cup {i}) = Cardinality(SlotsOf(c)) + 1
    BY <1>2, <2>1, FS_AddElement
  <2>3. \A d \in Clients \ {c} : SlotsOf(d)' = SlotsOf(d)
    BY <1>3 DEF Bind, SlotsOf
  <2>4. subs' = [subs EXCEPT ![c] = @ + 1]
    BY <1>3 DEF Bind
  <2> QED BY <2>1, <2>2, <2>3, <2>4 DEF SubsMatchListeners, TypeOK
<1>4. ASSUME NEW c \in Clients, NEW i \in Slots, Unbind(c, i)
      PROVE  SubsMatchListeners'
  <2>1. SlotsOf(c)' = SlotsOf(c) \ {i} /\ i \in SlotsOf(c)
    BY <1>4 DEF Unbind, SlotsOf
  <2>2. /\ Cardinality(SlotsOf(c) \ {i}) = Cardinality(SlotsOf(c)) - 1
        /\ IsFiniteSet(SlotsOf(c) \ {i})
    BY <1>2, <2>1, FS_RemoveElement
  <2>3. Cardinality(SlotsOf(c) \ {i}) \in Nat
    BY <2>2, FS_CardinalityType
  <2>4. \A d \in Clients \ {c} : SlotsOf(d)' = SlotsOf(d)
    BY <1>4 DEF Unbind, SlotsOf
  <2>5. subs' = [subs EXCEPT ![c] = IF @ > 0 THEN @ - 1 ELSE 0]
    BY <1>4 DEF Unbind
  <2>6. subs[c] = Cardinality(SlotsOf(c)) /\ subs[c] > 0
    BY <1>2, <2>2, <2>3 DEF SubsMatchListeners
  <2> QED BY <2>1, <2>2, <2>4, <2>5, <2>6 DEF SubsMatchListeners, TypeOK
<1> QED
  BY <1>1, <1>3, <1>4
     DEF Next, vars, AttachCall, AttachDone, AttachFails, Write, Resize,
         PressTakeControl, TakeOver, Detach, KillDone, GiveUp, Acquire, Grant,
         Open, Lose, Close, Deliver, Tick

LEMMA SubsInvariant == Spec => [](TypeOK /\ SubsMatchListeners)
<1>1. Init => SubsMatchListeners
  <2> SUFFICES ASSUME Init, NEW c \in Clients PROVE subs[c] = Cardinality(SlotsOf(c))
    BY DEF SubsMatchListeners
  <2>1. SlotsOf(c) = {} /\ subs[c] = 0
    BY DEF Init, SlotsOf
  <2> QED BY <2>1, FS_EmptySet
<1> QED BY <1>1, SubsStep, LeaseTypes, PTL DEF Spec

\* PaneLeaseState.subs is the number of bound subscriptions of each client.
THEOREM SubsCounted == Spec => []SubsMatchListeners
BY SubsInvariant, PTL

-----------------------------------------------------------------------------
(* The lease and what the pages are told of it *)

LEMMA ViewOnlyStep ==
  ASSUME TypeOK, ViewOnlyHasWriter, [Next]_vars
  PROVE  ViewOnlyHasWriter'
<1> USE DEF leaseVars, pageVars
<1>1. ASSUME UNCHANGED <<holder, bound, mode>>
      PROVE  ViewOnlyHasWriter'
  BY <1>1 DEF ViewOnlyHasWriter
<1>2. ASSUME Notify(bound'), bound' \subseteq bound
      PROVE  ViewOnlyHasWriter'
  BY <1>2 DEF Notify, ViewOnlyHasWriter, IsReadOnly, HolderIsLive, TypeOK
<1>3. ASSUME NEW c \in Clients, Grant(c), UNCHANGED bound
      PROVE  ViewOnlyHasWriter'
  BY <1>1, <1>2, <1>3 DEF Grant
<1>4. ASSUME NEW c \in Clients, Acquire(c)
      PROVE  ViewOnlyHasWriter'
  BY <1>1, <1>3, <1>4 DEF Acquire
<1>5. ASSUME GiveUp
      PROVE  ViewOnlyHasWriter'
  BY <1>2, <1>5 DEF GiveUp
<1>6. ASSUME NEW c \in Clients, NEW i \in Slots, Bind(c, i)
      PROVE  ViewOnlyHasWriter'
  <2>1. <<c, i>> \in Streams
    BY DEF Streams
  <2>2. mode' = [mode EXCEPT ![<<c, i>>] = IsReadOnly(c)'] /\ holder' = holder
        /\ bound' = bound \cup {<<c, i>>}
    BY <1>6 DEF Bind
  <2>3. \A s \in Streams : mode'[s] = IF s = <<c, i>> THEN IsReadOnly(c)' ELSE mode[s]
    BY <2>1, <2>2 DEF TypeOK
  <2>4. IsReadOnly(c)' => holder' \notin {None, c}
    BY DEF IsReadOnly, HolderIsLive
  <2> QED BY <2>1, <2>2, <2>3, <2>4 DEF ViewOnlyHasWriter, TypeOK
<1>7. ASSUME NEW c \in Clients, NEW i \in Slots, Unbind(c, i)
      PROVE  ViewOnlyHasWriter'
  <2>1. CASE holder = c /\ subs[c] <= 1
    BY <1>2, <1>7, <2>1 DEF Unbind
  <2>2. CASE ~(holder = c /\ subs[c] <= 1)
    BY <1>7, <2>2 DEF Unbind, ViewOnlyHasWriter
  <2> QED BY <2>1, <2>2
<1> QED
  BY <1>1, <1>3, <1>4, <1>5, <1>6, <1>7
     DEF Next, vars, AttachCall, AttachDone, AttachFails, Write, Resize,
         PressTakeControl, TakeOver, Detach, KillDone, Open, Lose, Close,
         Deliver, Tick

\* A page last told that it is view-only always has somebody else to thank.
THEOREM ViewOnlyHolds == Spec => []ViewOnlyHasWriter
<1>1. Init => ViewOnlyHasWriter
  BY DEF Init, ViewOnlyHasWriter
<1> QED BY <1>1, ViewOnlyStep, LeaseTypes, PTL DEF Spec

\* How the lease can come to another holder.
LEMMA HandOver ==
  ASSUME [Next]_vars, holder' \notin {holder, None}
  PROVE  /\ Grant(holder') /\ UNCHANGED bound
         /\ HolderIsLive => holder' \in asked
<1> USE DEF leaseVars, pageVars
<1>1. ASSUME NEW c, Grant(c)
      PROVE  holder' = c
  BY <1>1 DEF Grant
<1>2. ASSUME NEW c, Acquire(c)
      PROVE  Grant(holder') /\ UNCHANGED bound /\ ~HolderIsLive
  BY <1>1, <1>2 DEF Acquire
<1> QED
  BY <1>1, <1>2
     DEF Next, vars, AttachCall, AttachDone, AttachFails, Write, Resize,
         PressTakeControl, TakeOver, Detach, KillDone, GiveUp, Bind, Unbind,
         Open, Lose, Close, Deliver, Tick

\* A live lease changes hands only to a page that asked to take control.
THEOREM NobodySteals == Spec => NeverStolen
<1>1. [Next]_vars =>
        (HolderIsLive /\ holder' \notin {holder, None} => holder' \in asked)
  BY HandOver
<1> QED BY <1>1, PTL DEF Spec, NeverStolen

\* Whenever the lease changes hands every stream is told in the same step.
THEOREM HandOverTold == Spec => HandOverTellsAll
<1>1. TypeOK /\ [Next]_vars =>
        (holder' \notin {holder, None} =>
           \A s \in bound \cap bound' : mode'[s] = (s[1] # holder'))
  <2> SUFFICES ASSUME TypeOK, [Next]_vars, holder' \notin {holder, None},
                      NEW s \in bound
               PROVE  mode'[s] = (s[1] # holder')
    OBVIOUS
  <2>1. Grant(holder')
    BY HandOver
  <2>2. Notify(bound) /\ age' = 0
    BY <2>1 DEF Grant
  <2>3. mode'[s] = IsReadOnly(s[1])'
    BY <2>2 DEF Notify, TypeOK
  <2>4. HolderIsLive'
    BY <2>2, GraceAssumption DEF HolderIsLive
  <2> QED BY <2>3, <2>4 DEF IsReadOnly
<1> QED BY <1>1, LeaseTypes, PTL DEF Spec, HandOverTellsAll

\* The holder loses the lease by the end of its last subscription, its own
\* detach or a kill, never by the end of one of several.
THEOREM OneStreamIsEnough == Spec => LeaseOutlivesOneStream
<1>1. TypeOK /\ SubsMatchListeners /\ [Next]_vars =>
        \A c \in Clients :
          (holder = c /\ holder' = None /\ subs[c] > 0) =>
            \/ KillDone
            \/ Detach(c)
            \/ SlotsOf(c)' = {}
  <2> SUFFICES ASSUME TypeOK, SubsMatchListeners, [Next]_vars, NEW c \in Clients,
                      holder = c, holder' = None, subs[c] > 0, ~KillDone, ~Detach(c)
               PROVE  SlotsOf(c)' = {}
    OBVIOUS
  <2>1. \A d \in Clients : ~Detach(d)
    BY DEF Detach
  <2>2. PICK d \in Clients, i \in Slots : Unbind(d, i)
    BY <2>1, NoneAssumption
       DEF Next, vars, leaseVars, pageVars, AttachCall, AttachDone, AttachFails,
           Write, Resize, PressTakeControl, TakeOver, Acquire, Grant, Bind, Open,
           Lose, Close, Deliver, Tick
  <2>3. d = c /\ subs[c] = 1
    BY <2>2, NoneAssumption DEF Unbind, TypeOK
  <2>4. SlotsOf(c)' = SlotsOf(c) \ {i} /\ i \in SlotsOf(c)
    BY <2>2, <2>3 DEF Unbind, SlotsOf
  <2>5. IsFiniteSet(SlotsOf(c)) /\ Cardinality(SlotsOf(c)) = 1
    BY <2>3, SlotsAssumption, FS_Subset DEF SlotsOf, SubsMatchListeners
  <2>6. Cardinality(SlotsOf(c) \ {i}) = 0 /\ IsFiniteSet(SlotsOf(c) \ {i})
    BY <2>4, <2>5, FS_RemoveElement
  <2> QED BY <2>4, <2>6, FS_EmptySet
<1> QED BY <1>1, SubsInvariant, PTL DEF Spec, LeaseOutlivesOneStream

-----------------------------------------------------------------------------
(* The lease is a token *)

LEMMA CountFacts ==
  ASSUME TypeOK, SubsMatchListeners, NEW c \in Clients
  PROVE  /\ subs[c] \in Nat
         /\ subs[c] = 0 <=> \A i \in Slots : <<c, i>> \notin bound
         /\ \A i \in Slots : <<c, i>> \in bound =>
              (subs[c] <= 1 <=> \A j \in Slots \ {i} : <<c, j>> \notin bound)
<1>1. IsFiniteSet(SlotsOf(c)) /\ subs[c] = Cardinality(SlotsOf(c)) /\ subs[c] \in Nat
  BY SlotsAssumption, FS_Subset DEF SlotsOf, SubsMatchListeners, TypeOK
<1>2. subs[c] = 0 <=> SlotsOf(c) = {}
  BY <1>1, FS_EmptySet
<1>3. ASSUME NEW i \in Slots, <<c, i>> \in bound
      PROVE  subs[c] <= 1 <=> SlotsOf(c) \ {i} = {}
  <2>1. i \in SlotsOf(c)
    BY <1>3 DEF SlotsOf
  <2>2. /\ IsFiniteSet(SlotsOf(c) \ {i})
        /\ Cardinality(SlotsOf(c) \ {i}) = subs[c] - 1
    BY <1>1, <2>1, FS_RemoveElement
  <2>3. Cardinality(SlotsOf(c) \ {i}) \in Nat
    BY <2>2, FS_CardinalityType
  <2>4. Cardinality(SlotsOf(c) \ {i}) = 0 <=> SlotsOf(c) \ {i} = {}
    BY <2>2, FS_EmptySet
  <2> QED BY <1>1, <2>2, <2>3, <2>4
<1> QED BY <1>1, <1>2, <1>3 DEF SlotsOf

\* The screens of the token are the bound subscriptions.
LEMMA ScreensAre == Token!Screens = bound
BY DEF Token!Screens

LEMMA SameToken ==
  ASSUME UNCHANGED <<holder, bound, mode, asked>>, HolderIsLive' = HolderIsLive
  PROVE  UNCHANGED Token!vars
BY DEF Token!vars

\* A listener's mode after a change of the lease.
LEMMA ToldAfter ==
  ASSUME TypeOK, NEW listeners, listeners \subseteq bound, Notify(listeners)
  PROVE  \A s \in listeners : mode'[s] = (holder' # s[1] /\ HolderIsLive')
<1>1. \A s \in listeners : mode'[s] = IsReadOnly(s[1])'
  BY DEF Notify, TypeOK
<1> QED BY <1>1 DEF IsReadOnly

LEMMA GrantIsGrant ==
  ASSUME TypeOK, NEW c \in Clients, Grant(c), UNCHANGED bound
  PROVE  Token!Grant(c)
<1>1. holder' = c /\ HolderIsLive'
  BY NoneAssumption, GraceAssumption DEF Grant, HolderIsLive
<1>2. CASE holder = c
  BY <1>1, <1>2 DEF Grant, Token!Grant
<1>3. CASE holder # c
  <2>1. Notify(bound)
    BY <1>3 DEF Grant
  <2>2. \A s \in bound : mode'[s] = (s[1] # c)
    BY <1>1, <2>1, ToldAfter
  <2>3. [s \in bound |-> mode[s]]' = [s \in bound |-> s[1] # c]
    BY <2>2, Zenon
  <2> QED BY <1>1, <1>3, <2>3, ScreensAre DEF Token!Grant
<1> QED BY <1>2, <1>3

\* Using the terminal claims the token, or does nothing to it.
LEMMA AcquireIsClaim ==
  ASSUME TypeOK, NEW c \in Clients, Acquire(c), UNCHANGED asked
  PROVE  Token!Claim(c) \/ UNCHANGED Token!vars
<1>1. CASE holder = c \/ ~HolderIsLive
  BY <1>1, GrantIsGrant DEF Acquire, Token!Claim
<1>2. CASE ~(holder = c \/ ~HolderIsLive)
  BY <1>2, SameToken DEF Acquire, HolderIsLive
<1> QED BY <1>1, <1>2

LEMMA ResizeIsClaim ==
  ASSUME TypeOK, NEW c \in Clients, Resize(c)
  PROVE  Token!Claim(c)
<1>1. holder' = c /\ HolderIsLive'
  BY NoneAssumption, GraceAssumption DEF Resize, HolderIsLive
<1> QED BY <1>1 DEF Resize, Token!Claim, Token!Grant

LEMMA GiveUpIsFree ==
  ASSUME TypeOK, holder # None, GiveUp, UNCHANGED asked
  PROVE  Token!Free
<1>1. holder' = None /\ HolderIsLive' = FALSE
  BY DEF GiveUp, HolderIsLive
<1>2. \A s \in bound : mode'[s] = FALSE
  BY <1>1, ToldAfter DEF GiveUp
<1>3. [s \in bound |-> mode[s]]' = [s \in bound |-> FALSE]
  BY <1>2 DEF GiveUp
<1> QED BY <1>1, <1>3, ScreensAre DEF Token!Free

LEMMA BindIsJoin ==
  ASSUME TypeOK, NEW c \in Clients, NEW i \in Slots, Bind(c, i)
  PROVE  Token!Join(<<c, i>>)
<1> DEFINE s == <<c, i>>
<1>1. s \in Streams /\ s[1] = c /\ s \notin bound
  BY DEF Bind, Streams
<1>2. holder' = holder /\ age' = age /\ asked' = asked /\ bound' = bound \cup {s}
  BY DEF Bind, pageVars
<1>3. HolderIsLive' = (HolderIsLive \/ c = holder)
  <2>1. subs' = [subs EXCEPT ![c] = @ + 1] /\ subs[c] \in Nat
    BY DEF Bind, TypeOK
  <2>2. CASE holder = None
    BY <1>2, <2>2, NoneAssumption DEF HolderIsLive
  <2>3. CASE holder = c
    BY <1>2, <2>1, <2>3, NoneAssumption DEF HolderIsLive, TypeOK
  <2>4. CASE holder \notin {None, c}
    <3>1. subs'[holder] = subs[holder]
      BY <2>1, <2>4 DEF TypeOK
    <3> QED BY <1>2, <2>4, <3>1 DEF HolderIsLive
  <2> QED BY <2>2, <2>3, <2>4
<1>4. mode'[s] = (HolderIsLive /\ c # holder)
  <2>1. mode' = [mode EXCEPT ![s] = IsReadOnly(c)']
    BY DEF Bind
  <2>2. mode'[s] = IsReadOnly(c)'
    BY <1>1, <2>1 DEF TypeOK
  <2> QED BY <1>2, <1>3, <2>2 DEF IsReadOnly
<1>5. \A r \in bound : mode'[r] = mode[r]
  BY <1>1 DEF Bind, TypeOK
<1>6. [r \in bound |-> mode[r]]'
        = [r \in bound \cup {s} |-> IF r = s THEN HolderIsLive /\ s[1] # holder
                                    ELSE [q \in bound |-> mode[q]][r]]
  <2>1. \A r \in bound \cup {s} :
          mode'[r] = IF r = s THEN HolderIsLive /\ s[1] # holder
                     ELSE [q \in bound |-> mode[q]][r]
    BY <1>1, <1>4, <1>5
  <2> QED BY <1>2, <2>1
<1> HIDE DEF s
<1>7. Token!Join(s)
  BY <1>1, <1>2, <1>3, <1>6, ScreensAre DEF Token!Join
<1> QED BY <1>7 DEF s

\* The subscription count tells whether it was the last one.
LEMMA UnbindIsLeave ==
  ASSUME TypeOK, SubsMatchListeners, NEW c \in Clients, NEW i \in Slots, Unbind(c, i)
  PROVE  Token!Leave(<<c, i>>)
<1> DEFINE s == <<c, i>>
           freed == holder = c /\ subs[c] <= 1
<1>1. s \in bound /\ s[1] = c /\ bound' = bound \ {s} /\ age' = age /\ asked' = asked
  BY DEF Unbind
<1>2. freed <=> Token!IsLast(s)
  <2>1. subs[c] <= 1 <=> \A j \in Slots \ {i} : <<c, j>> \notin bound
    BY <1>1, CountFacts
  <2>2. (\A j \in Slots \ {i} : <<c, j>> \notin bound) <=> \A r \in bound \ {s} : r[1] # c
    BY DEF TypeOK, Streams
  <2> QED BY <1>1, <2>1, <2>2, ScreensAre DEF Token!IsLast
<1>3. holder' = (IF freed THEN None ELSE holder)
  BY DEF Unbind
<1>4. HolderIsLive' = (HolderIsLive /\ ~freed)
  <2>1. CASE freed
    BY <1>3, <2>1 DEF HolderIsLive
  <2>2. CASE ~freed /\ holder = c
    <3>1. subs[c] > 0 /\ subs'[c] > 0
      BY <2>2, CountFacts DEF Unbind, TypeOK
    <3>2. holder' = holder /\ holder # None
      BY <1>3, <2>2, NoneAssumption
    <3> QED BY <2>2, <3>1, <3>2 DEF HolderIsLive
  <2>3. CASE holder # c /\ holder # None
    <3>1. subs'[holder] = subs[holder]
      BY <2>3 DEF Unbind, TypeOK
    <3> QED BY <1>1, <1>3, <2>3, <3>1 DEF HolderIsLive
  <2>4. CASE holder # c /\ holder = None
    BY <1>3, <2>4 DEF HolderIsLive
  <2> QED BY <2>1, <2>2, <2>3, <2>4
<1>5. \A r \in bound \ {s} : mode'[r] = (mode[r] /\ ~freed)
  <2>1. CASE freed
    <3>1. Notify(bound')
      BY <2>1 DEF Unbind
    <3>2. \A r \in bound' : mode'[r] = (holder' # r[1] /\ HolderIsLive')
      BY <1>1, <3>1, ToldAfter
    <3> QED BY <1>1, <1>4, <2>1, <3>2
  <2>2. CASE ~freed
    <3>1. \A r \in bound : mode'[r] = mode[r] /\ mode[r] \in BOOLEAN
      BY <2>2 DEF Unbind, TypeOK
    <3> QED BY <2>2, <3>1
  <2> QED BY <2>1, <2>2
<1>6. [r \in bound |-> mode[r]]'
        = [r \in bound \ {s} |-> [q \in bound |-> mode[q]][r] /\ ~freed]
  <2>1. \A r \in bound \ {s} : mode'[r] = ([q \in bound |-> mode[q]][r] /\ ~freed)
    BY <1>5
  <2> QED BY <1>1, <2>1
<1> HIDE DEF s, freed
<1>7. Token!Leave(s)
  BY <1>1, <1>2, <1>3, <1>4, <1>6, ScreensAre DEF Token!Leave
<1> QED BY <1>7 DEF s

\* The grace period ends a lease in use only if its holder has no stream.
LEMMA TickIsLapse ==
  ASSUME TypeOK, SubsMatchListeners, Tick
  PROVE  Token!Lapse \/ UNCHANGED Token!vars
<1> USE DEF leaseVars, pageVars
<1>1. CASE HolderIsLive' = HolderIsLive
  BY <1>1, SameToken DEF Tick
<1>2. CASE HolderIsLive' # HolderIsLive
  <2>1. HolderIsLive /\ HolderIsLive' = FALSE
    BY <1>2, GraceAssumption DEF Tick, HolderIsLive, TypeOK
  <2>2. holder \in Clients /\ ~(subs[holder] > 0)
    BY <2>1 DEF Tick, HolderIsLive, TypeOK
  <2>3. \A i \in Slots : <<holder, i>> \notin bound
    BY <2>2, CountFacts
  <2>4. \A s \in bound : s[1] # holder
    BY <2>3 DEF TypeOK, Streams
  <2> QED BY <2>1, <2>4, ScreensAre DEF Tick, Token!Lapse
<1> QED BY <1>1, <1>2

LEMMA TokenStep ==
  ASSUME TypeOK, SubsMatchListeners, [Next]_vars
  PROVE  [Token!Next]_(Token!vars)
<1> USE DEF leaseVars, pageVars
<1>1. ASSUME UNCHANGED <<leaseVars, asked>>
      PROVE  UNCHANGED Token!vars
  BY <1>1, SameToken DEF HolderIsLive
<1>2. ASSUME NEW c \in Clients,
             \/ AttachCall(c) \/ AttachFails(c)
             \/ Open(c) \/ Lose(c) \/ Deliver(c)
      PROVE  UNCHANGED Token!vars
  BY <1>1, <1>2 DEF AttachCall, AttachFails, Open, Lose, Deliver
<1>3. ASSUME NEW c \in Clients, AttachDone(c) \/ Write(c)
      PROVE  Token!Claim(c) \/ UNCHANGED Token!vars
  BY <1>3, AcquireIsClaim DEF AttachDone, Write
<1>4. ASSUME NEW c \in Clients, PressTakeControl(c)
      PROVE  Token!Ask(c)
  BY <1>4 DEF PressTakeControl, Token!Ask, HolderIsLive
<1>5. ASSUME NEW c \in Clients, Close(c)
      PROVE  Token!Withdraw(c)
  BY <1>5 DEF Close, Token!Withdraw, HolderIsLive
<1>6. ASSUME NEW c \in Clients, TakeOver(c)
      PROVE  Token!TakeControl(c)
  BY <1>6, GrantIsGrant DEF TakeOver, Token!TakeControl
<1>7. ASSUME NEW c \in Clients, Detach(c)
      PROVE  Token!Free
  BY <1>7, GiveUpIsFree, NoneAssumption DEF Detach
<1>8. CASE KillDone
  BY <1>8, GiveUpIsFree DEF KillDone, Token!Next
<1>9. ASSUME NEW c \in Clients, NEW i \in Slots, Bind(c, i) \/ Unbind(c, i)
      PROVE  \E s \in Clients \X Slots : Token!Join(s) \/ Token!Leave(s)
  BY <1>9, BindIsJoin, UnbindIsLeave
<1>10. CASE Tick
  BY <1>10, TickIsLapse DEF Token!Next
<1>11. CASE UNCHANGED vars
  BY <1>1, <1>11 DEF vars
<1> QED
  BY <1>2, <1>3, <1>4, <1>5, <1>6, <1>7, <1>8, <1>9, <1>10, <1>11, ResizeIsClaim
     DEF Next, Token!Next

\* The writer lease is a token for the right to type, for any number of pages and
\* overlapping subscriptions and any grace period: a lease in use goes only to who
\* asked for it, lasts as long as its holder has a stream and ends with the last,
\* and every stream is told of each change in the same step.
THEOREM LeaseIsAToken == Spec => ImplementsToken
<1>1. Init => Token!Init
  BY DEF Init, Token!Init, HolderIsLive
<1> QED BY <1>1, TokenStep, SubsInvariant, PTL DEF Spec, ImplementsToken, Token!Spec

=============================================================================
