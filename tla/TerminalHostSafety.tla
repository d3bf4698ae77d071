------------------------- MODULE TerminalHostSafety -------------------------
(***************************************************************************)
(* Proofs about TerminalHost that depend on its surroundings: that no      *)
(* shell is lost, that no session counts a socket that is gone, that the   *)
(* fail-safe of kill stays armed, and that listSessions is a               *)
(* SessionDirectory.  Each theorem names the assumptions it needs.         *)
(*                                                                         *)
(* The argument.  With one createOrAttach in flight per id, the id of a    *)
(* call that is still spawning maps to nothing (Pending).  So registering  *)
(* what it spawned overwrites no session, and a session whose child is     *)
(* alive is always within reach.  A session that exits is then either the  *)
(* one its id maps to, or still held by such a call, or disposed; with     *)
(* killed children reaped before their id is registered again, its exit    *)
(* callback cannot meet another session under its id (ExitsAlone).         *)
(***************************************************************************)
EXTENDS TerminalHostProofs

\* What the theorems about the registry alone have established.
HostInv == LimiterInv /\ RegistryInv

LEMMA HostStep == HostInv /\ [Next]_vars => HostInv'
BY LimiterInvStep, RegistryInvStep DEF HostInv

LEMMA HostInvariant == Spec => []HostInv
BY RegistryInvariant, PTL DEF HostInv

-----------------------------------------------------------------------------
(* What a step may do, whatever the surroundings *)

\* Sessions leave the map and are disposed; no other field of a session that
\* the invariants read changes, and no call.
Removal(D) ==
  /\ disposed' = disposed \cup D
  /\ sessions' = [id \in Ids |-> IF sessions[id] \in D THEN None ELSE sessions[id]]
  /\ UNCHANGED <<sid, proc, exited, terminating, call>>

\* A timer is lost only where it is not needed.
KeepsTimers ==
  \A id \in killTimers \ killTimers' : sessions'[id] \notin terminating

Removing ==
  \/ \E id \in Ids : KillTimerFires(id) \/ CleanupFires(id)
  \/ \E k \in Clients, id \in Ids : Detach(k, id)
  \/ \E k \in Clients, s \in Socks : Hello(k, s)
  \/ \E s \in Socks : Disconnect(s)
  \/ HostDispose

LEMMA RemovalStep ==
  ASSUME HostInv, Removing
  PROVE  \E D \in SUBSET Registered : Removal(D) /\ KeepsTimers
<1> USE DEF HostInv, LimiterInv
<1>0. sessions = [id \in Ids |-> IF sessions[id] \in {} THEN None ELSE sessions[id]]
      /\ disposed = disposed \cup {} /\ {} \in SUBSET Registered
      /\ sessions \in [Ids -> Handles \cup {None}] /\ None \notin terminating
      /\ killTimers \subseteq Ids
  BY NoneAssumption DEF TypeOK
<1>1. ASSUME NEW id \in Ids, KillTimerFires(id)
      PROVE  \E D \in SUBSET Registered : Removal(D) /\ KeepsTimers
  <2> DEFINE D == {sessions[id]} \cap terminating
  <2>1. D \in SUBSET Registered
    BY <1>0 DEF Registered
  <2>2. Removal(D)
    BY <1>1 DEF KillTimerFires, Discard, Removal
  <2>3. KeepsTimers
    BY <1>0, <1>1, <2>2 DEF KillTimerFires, Removal, KeepsTimers
  <2> QED BY <2>1, <2>2, <2>3
<1>2. ASSUME NEW id \in Ids, CleanupFires(id)
      PROVE  \E D \in SUBSET Registered : Removal(D) /\ KeepsTimers
  <2> DEFINE D == IF sessions[id] # None /\ ~Alive(sessions[id]) THEN {sessions[id]} ELSE {}
  <2>1. D \in SUBSET Registered
    BY DEF Registered
  <2>2. Removal(D) /\ KeepsTimers
    BY <1>2 DEF CleanupFires, Discard, Removal, KeepsTimers
  <2> QED BY <2>1, <2>2
<1>3. ASSUME NEW k \in Clients, NEW id \in Ids, Detach(k, id)
      PROVE  \E D \in SUBSET Registered : Removal(D) /\ KeepsTimers
  <2>1. CASE sessions[id] \in LeftDead(stream[k])
    <3>1. {sessions[id]} \in SUBSET Registered
      BY <1>3 DEF Detach, Registered
    <3>2. Removal({sessions[id]}) /\ KeepsTimers
      BY <1>3, <2>1 DEF Detach, Discard, Removal, KeepsTimers
    <3> QED BY <3>1, <3>2
  <2>2. CASE sessions[id] \notin LeftDead(stream[k])
    <3>1. Removal({}) /\ KeepsTimers
      BY <1>0, <1>3, <2>2 DEF Detach, Removal, KeepsTimers
    <3> QED BY <1>0, <3>1
  <2> QED BY <2>1, <2>2
<1>4. ASSUME NEW s, DetachFromAll(s), UNCHANGED <<sid, proc, exited, terminating, call>>,
             killTimers' = killTimers
      PROVE  \E D \in SUBSET Registered : Removal(D) /\ KeepsTimers
  <2>1. LeftDead(s) \in SUBSET Registered
    BY DEF LeftDead
  <2>2. Removal(LeftDead(s)) /\ KeepsTimers
    BY <1>4 DEF DetachFromAll, Removal, KeepsTimers
  <2> QED BY <2>1, <2>2
<1>5. ASSUME NEW k \in Clients, NEW s \in Socks, Hello(k, s)
      PROVE  \E D \in SUBSET Registered : Removal(D) /\ KeepsTimers
  <2>1. CASE stream[k] = None
    <3>1. Removal({}) /\ KeepsTimers
      BY <1>0, <1>5, <2>1 DEF Hello, Removal, KeepsTimers
    <3> QED BY <1>0, <3>1
  <2>2. CASE stream[k] # None
    BY <1>4, <1>5, <2>2 DEF Hello
  <2> QED BY <2>1, <2>2
<1>6. ASSUME NEW s \in Socks, Disconnect(s)
      PROVE  \E D \in SUBSET Registered : Removal(D) /\ KeepsTimers
  BY <1>4, <1>6 DEF Disconnect
<1>7. CASE HostDispose
  <2>1. Removal(Registered)
    BY <1>7 DEF HostDispose, Discard, Removal
  <2>2. KeepsTimers
    BY <1>0, <2>1 DEF Removal, KeepsTimers, Registered
  <2> QED BY <2>1, <2>2
<1> QED BY <1>1, <1>2, <1>3, <1>5, <1>6, <1>7 DEF Removing

\* What the end of a spawn changes of the calls: the ending one forgets what it
\* held or keeps it, a waiting one may be resumed, nothing else.
LEMMA EndSpawnCalls ==
  ASSUME HostInv, NEW c \in Calls,
         SpawnThrows(c) \/ RegisterSpawned(c) \/ SpawnFailed(c)
  PROVE  /\ \A d \in Calls : call'[d].id \in {None, call[d].id}
                             /\ call'[d].sock \in {None, call[d].sock}
         /\ call'[c].pc \in {"idle", "flushing"}
         /\ \A d \in Calls \ {c} :
              /\ call'[d].h = call[d].h /\ call'[d].id = call[d].id
              /\ call'[d].pc = call[d].pc
                 \/ (call[d].pc = "queued" /\ call'[d].pc = "granted")
<1> USE DEF HostInv, LimiterInv
<1>1. [call EXCEPT ![c].pc = "flushing"]
        = [call EXCEPT ![c] = [call[c] EXCEPT !.pc = "flushing"]]
  BY DEF TypeOK
<1>2. PICK rec \in {NoCall, [call[c] EXCEPT !.pc = "flushing"]} :
        Release([call EXCEPT ![c] = rec])
  BY <1>1 DEF SpawnThrows, RegisterSpawned, SpawnFailed
<1>3. call[c].pc \in {"granted", "spawning"}
  BY DEF SpawnThrows, RegisterSpawned, SpawnFailed
<1>4. /\ call'[c].pc \in {"idle", "flushing"}
      /\ \A d \in Calls \ {c} :
           /\ call'[d].h = call[d].h /\ call'[d].id = call[d].id
           /\ call'[d].pc = call[d].pc
              \/ (call[d].pc = "queued" /\ call'[d].pc = "granted")
  BY <1>2, <1>3, ReleaseHeld
<1> DEFINE after == [call EXCEPT ![c] = rec]
<1>5. \A d \in Calls : after[d].id \in {None, call[d].id}
                       /\ after[d].sock \in {None, call[d].sock}
  <2>1. call[c] \in CallRec
    BY DEF TypeOK
  <2>2. rec.id \in {None, call[c].id} /\ rec.sock \in {None, call[c].sock}
    BY <2>1 DEF NoCall, CallRec
  <2> QED BY <2>2 DEF TypeOK
<1>6. \A d \in Calls : call'[d].id = after[d].id /\ call'[d].sock = after[d].sock
  <2>1. CASE queue = << >>
    BY <1>2, <2>1 DEF Release
  <2>2. CASE queue # << >>
    <3>1. Head(queue) \in Calls
      BY <2>2 DEF TypeOK
    <3>2. call' = [after EXCEPT ![Head(queue)].pc = "granted"]
      BY <1>2, <2>2 DEF Release
    <3>3. after \in [Calls -> CallRec]
      <4>1. NoCall \in CallRec /\ call[c] \in CallRec
        BY DEF TypeOK, NoCall, CallRec, Stage
      <4>2. [call[c] EXCEPT !.pc = "flushing"] \in CallRec
        BY <4>1 DEF CallRec, Stage
      <4>3. rec \in CallRec
        BY <4>1, <4>2, Zenon
      <4> QED BY <4>3 DEF TypeOK
    <3> HIDE DEF after
    <3>4. \A d \in Calls : call'[d] = IF d = Head(queue) THEN [after[d] EXCEPT !.pc = "granted"]
                                      ELSE after[d]
      BY <3>1, <3>2, <3>3
    <3>5. \A d \in Calls : after[d] \in CallRec
      BY <3>3
    <3> QED BY <3>4, <3>5 DEF CallRec
  <2> QED BY <2>1, <2>2
<1> QED BY <1>4, <1>5, <1>6

-----------------------------------------------------------------------------
(* One createOrAttach in flight per id *)

OnePerId ==
  \A c, d \in Calls : call[c].id = call[d].id /\ call[c].id # None => c = d

\* The id of a call that has not registered its session yet maps to nothing.
Pending == \A c \in Calls : Held(c) => sessions[call[c].id] = None

\* The session such a call holds has not been asked to terminate, and its child
\* is started by that call alone.
HeldFresh ==
  \A c \in Calls : Held(c) =>
    /\ call[c].h \notin terminating
    /\ call[c].pc # "spawning" => proc[call[c].h] = "none"

\* Nothing has happened yet to a session that was never constructed.
Unmade == \A h \in Handles : sid[h] = None => proc[h] = "none" /\ h \notin terminating

FlightInv == OnePerId /\ Pending /\ HeldFresh /\ Unmade /\ NoOrphan

\* Steps that start no call: what is held was held before, for the same id.
Quiet ==
  \A c \in Calls :
    /\ call'[c].id \in {None, call[c].id}
    /\ Held(c)' => /\ Held(c)
                   /\ call'[c].id = call[c].id
                   /\ call'[c].h = call[c].h
                   /\ call'[c].pc # "spawning" => call[c].pc # "spawning"

LEMMA QuietSame == call' = call => Quiet
BY DEF Quiet, Held

LEMMA QuietEndSpawn ==
  ASSUME HostInv, NEW c \in Calls,
         SpawnThrows(c) \/ RegisterSpawned(c) \/ SpawnFailed(c)
  PROVE  Quiet /\ ~Held(c)' /\ Spawning \ {c} \subseteq Spawning'
         /\ \A d \in Spawning \ {c} : call'[d].h = call[d].h
<1>1. /\ \A d \in Calls : call'[d].id \in {None, call[d].id}
      /\ call'[c].pc \in {"idle", "flushing"}
      /\ \A d \in Calls \ {c} :
           /\ call'[d].h = call[d].h /\ call'[d].id = call[d].id
           /\ call'[d].pc = call[d].pc
              \/ (call[d].pc = "queued" /\ call'[d].pc = "granted")
  BY EndSpawnCalls
<1>2. ~Held(c)'
  BY <1>1 DEF Held
<1>3. Quiet
  BY <1>1, <1>2 DEF Quiet, Held
<1> QED BY <1>1, <1>2, <1>3 DEF Spawning

\* Calls, under a step that starts none and registers nothing under a held id.
LEMMA FlightQuiet ==
  ASSUME HostInv, FlightInv, Quiet, sid' = sid,
         \A c \in Calls : Held(c) /\ Held(c)' => sessions'[call[c].id] = None,
         \A c \in Calls : Held(c)' => call[c].h \notin terminating',
         \A h \in Handles : sid[h] = None => h \notin terminating',
         \A h \in Handles : proc[h] = "none" => proc'[h] = "none" \/
           \E c \in Calls : Held(c) /\ call[c].h = h /\ call'[c].pc = "spawning"
  PROVE  OnePerId' /\ Pending' /\ HeldFresh' /\ Unmade'
<1> USE DEF FlightInv, HostInv
<1>1. OnePerId'
  BY DEF OnePerId, Quiet
<1>2. Pending'
  BY DEF Pending, Quiet
<1>3. ASSUME NEW c \in Calls, Held(c)', call'[c].pc # "spawning"
      PROVE  proc'[call[c].h] = "none"
  <2>1. Held(c) /\ call[c].pc # "spawning" /\ call[c].h \in Handles
    BY <1>3 DEF Quiet, LimiterInv, CallsFilled, Held
  <2>2. proc[call[c].h] = "none"
    BY <2>1 DEF HeldFresh
  <2>3. \A d \in Calls : Held(d) /\ call[d].h = call[c].h => d = c
    BY <2>1 DEF RegistryInv, HeldSound
  <2> QED BY <1>3, <2>1, <2>2, <2>3
<1>4. HeldFresh'
  BY <1>3 DEF HeldFresh, Quiet
<1>5. ASSUME NEW h \in Handles, sid[h] = None
      PROVE  proc'[h] = "none"
  <2>1. proc[h] = "none"
    BY <1>5 DEF Unmade
  <2>2. \A c \in Calls : Held(c) => sid[call[c].h] = call[c].id /\ call[c].id # None
    BY NoneAssumption DEF RegistryInv, HeldSound, LimiterInv, CallsFilled, Held
  <2> QED BY <1>5, <2>1, <2>2
<1>6. Unmade'
  BY <1>5 DEF Unmade
<1> QED BY <1>1, <1>2, <1>4, <1>6

LEMMA FlightRemoval ==
  ASSUME HostInv, FlightInv, NEW D \in SUBSET Registered, Removal(D)
  PROVE  FlightInv'
<1> USE DEF FlightInv, HostInv
<1>1. \A c \in Calls : Held(c) => sessions'[call[c].id] = None
  <2>1. \A c \in Calls : Held(c) => call[c].id \in Ids
    BY DEF LimiterInv, CallsFilled, Held
  <2> QED BY <2>1 DEF Removal, Pending
<1>2. OnePerId' /\ Pending' /\ HeldFresh' /\ Unmade'
  <2>1. UNCHANGED <<call, sid, terminating, proc>> /\ Quiet
    BY QuietSame DEF Removal
  <2>2. \A c \in Calls : Held(c)' => call[c].h \notin terminating'
    BY <2>1 DEF HeldFresh, Quiet
  <2>3. \A h \in Handles : sid[h] = None => h \notin terminating'
    BY <2>1 DEF Unmade
  <2> QED BY <1>1, <2>1, <2>2, <2>3, FlightQuiet
<1>3. ASSUME NEW h \in Handles, Alive(h)'
      PROVE  h \in Registered' \/ \E c \in Spawning' : call'[c].h = h
  <2>1. Alive(h) /\ h \notin D
    BY <1>3 DEF Removal, Alive, HasSubprocess, Running
  <2>2. CASE h \in Registered
    <3>1. PICK id \in Ids : sessions[id] = h /\ h # None
      BY <2>2 DEF Registered
    <3>2. sessions'[id] = h
      BY <2>1, <3>1 DEF Removal
    <3> QED BY <3>1, <3>2 DEF Registered
  <2>3. CASE \E c \in Spawning : call[c].h = h
    BY <2>3 DEF Removal, Spawning
  <2> QED BY <2>1, <2>2, <2>3 DEF NoOrphan
<1> QED BY <1>2, <1>3 DEF NoOrphan

\* kill and killAll mark registered sessions; children go on or exit.
LEMMA FlightMarks ==
  ASSUME HostInv, FlightInv, UNCHANGED <<sessions, sid, disposed, call>>,
         terminating' \subseteq terminating \cup Registered,
         exited \subseteq exited',
         \A h \in Handles : Running(h)' => Running(h),
         \A h \in Handles : proc[h] = "none" => proc'[h] = "none"
  PROVE  FlightInv'
<1> USE DEF FlightInv, HostInv
<1>1. Quiet
  BY QuietSame
<1>2. \A c \in Calls : Held(c) => sessions'[call[c].id] = None
  BY DEF Pending
<1>3. \A c \in Calls : Held(c) => call[c].h \notin terminating /\ call[c].h \notin Registered
  BY DEF HeldFresh, RegistryInv, HeldSound, Registered
<1>4. \A h \in Registered : sid[h] # None
  BY NoneAssumption DEF Registered, RegistryInv, RegistrySound
<1>5. OnePerId' /\ Pending' /\ HeldFresh' /\ Unmade'
  <2>1. \A c \in Calls : Held(c)' => call[c].h \notin terminating'
    BY <1>1, <1>3 DEF Quiet
  <2>2. \A h \in Handles : sid[h] = None => h \notin terminating'
    BY <1>4 DEF Unmade
  <2> QED BY <1>1, <1>2, <2>1, <2>2, FlightQuiet
<1>6. \A h \in Handles : Alive(h)' => Alive(h)
  BY DEF Alive, HasSubprocess
<1>7. Registered' = Registered /\ Spawning' = Spawning
  BY DEF Registered, Spawning
<1> QED BY <1>5, <1>6, <1>7 DEF NoOrphan

LEMMA FlightAttach ==
  ASSUME SingleFlight, HostInv, FlightInv, NEW c \in Calls, NEW k \in Clients,
         NEW id \in Ids, AttachExisting(c, k, id)
  PROVE  FlightInv'
<1> USE DEF FlightInv, HostInv
<1>1. /\ call'[c].pc = "flushing" /\ call'[c].id = id
      /\ \A d \in Calls \ {c} : call'[d] = call[d]
      /\ call[c].pc = "idle" /\ \A d \in Calls : call[d].id # id
  BY DEF AttachExisting, LimiterInv, TypeOK
<1>2. UNCHANGED <<sessions, sid, proc, exited, terminating, disposed>>
  BY DEF AttachExisting, hostVars
<1>3. OnePerId'
  BY <1>1 DEF OnePerId
<1>4. \A d \in Calls : Held(d)' => d # c /\ Held(d)
  BY <1>1 DEF Held
<1>5. Pending' /\ HeldFresh' /\ Unmade'
  BY <1>1, <1>2, <1>4 DEF Pending, HeldFresh, Unmade
<1>6. Registered' = Registered /\ \A h \in Handles : Alive(h)' = Alive(h)
  BY <1>2 DEF Registered, Alive, HasSubprocess, Running
<1>7. \A d \in Spawning : d \in Spawning' /\ call'[d].h = call[d].h
  BY <1>1 DEF Spawning
<1>8. NoOrphan'
  BY <1>6, <1>7 DEF NoOrphan
<1> QED BY <1>3, <1>5, <1>8

LEMMA FlightRequest ==
  ASSUME SingleFlight, HostInv, FlightInv, NEW c \in Calls, NEW k \in Clients,
         NEW id \in Ids, NEW h \in Handles, RequestSpawn(c, k, id, h)
  PROVE  FlightInv'
<1> USE DEF FlightInv, HostInv
<1> DEFINE old == sessions[id]
<1>1. /\ call'[c].pc \in {"granted", "queued"} /\ call'[c].id = id /\ call'[c].h = h
      /\ \A d \in Calls \ {c} : call'[d] = call[d]
      /\ call[c].pc = "idle" /\ \A d \in Calls : call[d].id # id
  BY DEF RequestSpawn, LimiterInv, TypeOK
<1>2. /\ sid[h] = None
      /\ sid' = [sid EXCEPT ![h] = id]
      /\ sessions' = [sessions EXCEPT ![id] = None]
      /\ disposed' = disposed \cup ({old} \ {None})
      /\ UNCHANGED <<proc, exited, terminating>>
  BY DEF RequestSpawn, DropUnusable
<1>3. OnePerId'
  BY <1>1 DEF OnePerId
<1>4. \A d \in Calls : Held(d)' => d = c \/ (d # c /\ Held(d))
  BY <1>1 DEF Held
<1>5. Pending'
  <2>1. \A x \in Ids : sessions'[x] = IF x = id THEN None ELSE sessions[x]
    BY <1>2 DEF LimiterInv, TypeOK
  <2>2. \A d \in Calls : Held(d) => call[d].id \in Ids
    BY DEF LimiterInv, CallsFilled, Held
  <2> QED BY <1>1, <1>4, <2>1, <2>2 DEF Pending
<1>6. HeldFresh'
  <2>1. proc[h] = "none" /\ h \notin terminating
    BY <1>2 DEF Unmade
  <2>2. ASSUME NEW d \in Calls, Held(d)'
        PROVE  /\ call'[d].h \notin terminating'
               /\ call'[d].pc # "spawning" => proc'[call'[d].h] = "none"
    <3>1. CASE d = c
      BY <1>1, <1>2, <2>1, <3>1
    <3>2. CASE d # c
      BY <1>1, <1>2, <1>4, <2>2, <3>2 DEF HeldFresh
    <3> QED BY <3>1, <3>2
  <2> QED BY <2>2 DEF HeldFresh
<1>7. Unmade'
  BY <1>2, NoneAssumption DEF Unmade, LimiterInv, TypeOK
<1>8. ASSUME NEW x \in Handles, Alive(x)'
      PROVE  x \in Registered' \/ \E d \in Spawning' : call'[d].h = x
  <2>1. Alive(x) /\ x # old
    BY <1>2, <1>8, NoneAssumption DEF Alive, HasSubprocess, Running
  <2>2. CASE x \in Registered
    <3>1. PICK y \in Ids : sessions[y] = x /\ x # None
      BY <2>2 DEF Registered
    <3>2. sessions'[y] = x
      BY <1>2, <2>1, <3>1 DEF LimiterInv, TypeOK
    <3> QED BY <3>1, <3>2 DEF Registered
  <2>3. CASE \E d \in Spawning : call[d].h = x
    BY <1>1, <2>3 DEF Spawning
  <2> QED BY <2>1, <2>2, <2>3 DEF NoOrphan
<1>9. NoOrphan'
  BY <1>8 DEF NoOrphan
<1> QED BY <1>3, <1>5, <1>6, <1>7, <1>9

LEMMA FlightSpawnChild ==
  ASSUME HostInv, FlightInv, NEW c \in Calls, SpawnChild(c)
  PROVE  FlightInv'
<1> USE DEF FlightInv, HostInv
<1>1. /\ call[c].pc = "granted" /\ call'[c].pc = "spawning"
      /\ call'[c].id = call[c].id /\ call'[c].h = call[c].h
      /\ \A d \in Calls \ {c} : call'[d] = call[d]
  BY DEF SpawnChild, LimiterInv, TypeOK, CallRec
<1>2. /\ proc' = [proc EXCEPT ![call[c].h] = "starting"]
      /\ UNCHANGED <<sessions, sid, exited, terminating, disposed>>
  BY DEF SpawnChild, hostVars
<1>3. Quiet /\ Held(c)
  BY <1>1 DEF Quiet, Held
<1>4. \A x \in Handles : x # call[c].h => proc'[x] = proc[x]
  BY <1>2 DEF LimiterInv, TypeOK
<1>5. OnePerId' /\ Pending' /\ HeldFresh' /\ Unmade'
  <2>1. \A d \in Calls : Held(d) => sessions'[call[d].id] = None
    BY <1>2 DEF Pending
  <2>2. \A d \in Calls : Held(d)' => call[d].h \notin terminating'
    BY <1>2, <1>3 DEF HeldFresh, Quiet
  <2>3. \A x \in Handles : sid[x] = None => x \notin terminating'
    BY <1>2 DEF Unmade
  <2>4. \A x \in Handles : proc[x] = "none" => proc'[x] = "none" \/
          \E d \in Calls : Held(d) /\ call[d].h = x /\ call'[d].pc = "spawning"
    BY <1>1, <1>3, <1>4
  <2> QED BY <1>2, <1>3, <2>1, <2>2, <2>3, <2>4, FlightQuiet
<1>6. Registered' = Registered
  BY <1>2 DEF Registered
<1>7. c \in Spawning' /\ \A d \in Spawning : d \in Spawning' /\ call'[d].h = call[d].h
  BY <1>1 DEF Spawning
<1>8. ASSUME NEW x \in Handles, Alive(x)', x # call[c].h
      PROVE  Alive(x)
  BY <1>2, <1>4, <1>8 DEF Alive, HasSubprocess, Running
<1>9. NoOrphan'
  BY <1>1, <1>6, <1>7, <1>8 DEF NoOrphan
<1> QED BY <1>5, <1>9

LEMMA FlightEndSpawn ==
  ASSUME HostInv, FlightInv, NEW c \in Calls,
         SpawnThrows(c) \/ RegisterSpawned(c) \/ SpawnFailed(c)
  PROVE  FlightInv'
<1> USE DEF FlightInv, HostInv
<1> DEFINE id == call[c].id
<1>0. PICK h \in Handles : h = call[c].h
  BY DEF SpawnThrows, RegisterSpawned, SpawnFailed, LimiterInv, CallsFilled
<1>1. /\ Quiet /\ ~Held(c)' /\ Spawning \ {c} \subseteq Spawning'
      /\ \A d \in Spawning \ {c} : call'[d].h = call[d].h
  BY QuietEndSpawn
<1>2. UNCHANGED <<sid, proc, exited, terminating>>
  BY DEF SpawnThrows, RegisterSpawned, SpawnFailed, sessionVars
<1>3. Held(c) /\ id \in Ids
  BY DEF SpawnThrows, RegisterSpawned, SpawnFailed, Held, LimiterInv, CallsFilled
<1>4. /\ \A x \in Ids : sessions'[x] = sessions[x] \/ (x = id /\ sessions'[x] = h)
      /\ disposed \subseteq disposed'
  BY <1>0 DEF SpawnThrows, RegisterSpawned, SpawnFailed, hostVars, sessionVars, LimiterInv, TypeOK
<1>5. OnePerId' /\ Pending' /\ HeldFresh' /\ Unmade'
  <2>1. ASSUME NEW d \in Calls, Held(d), Held(d)'
        PROVE  sessions'[call[d].id] = None
    <3>1. d # c /\ call[d].id \in Ids /\ sessions[call[d].id] = None
      BY <1>1, <2>1 DEF Pending, LimiterInv, CallsFilled, Held
    <3>2. call[d].id # id
      BY <1>3, <3>1, NoneAssumption DEF OnePerId
    <3> QED BY <1>4, <3>1, <3>2
  <2>2. \A d \in Calls : Held(d)' => call[d].h \notin terminating'
    BY <1>1, <1>2 DEF HeldFresh, Quiet
  <2>3. \A x \in Handles : sid[x] = None => x \notin terminating'
    BY <1>2 DEF Unmade
  <2> QED BY <1>1, <1>2, <2>1, <2>2, <2>3, FlightQuiet
<1>6. ASSUME NEW x \in Handles, Alive(x)'
      PROVE  Alive(x)
  BY <1>2, <1>4, <1>6 DEF Alive, HasSubprocess, Running
<1>7. \A x \in Registered : x \in Registered'
  <2>1. ASSUME NEW y \in Ids, sessions[y] # None
        PROVE  sessions'[y] = sessions[y]
    BY <1>3, <1>4, <2>1 DEF Pending
  <2> QED BY <2>1 DEF Registered
<1>8. ASSUME Alive(h)' PROVE  h \in Registered'
  <2>1. CASE SpawnThrows(c)
    <3>1. proc[h] = "none"
      BY <1>0, <1>3, <2>1 DEF SpawnThrows, HeldFresh
    <3> QED BY <1>2, <1>8, <3>1 DEF Alive, HasSubprocess, Running
  <2>2. CASE RegisterSpawned(c)
    <3>1. sessions'[id] = h
      BY <1>0, <1>3, <2>2 DEF RegisterSpawned, LimiterInv, TypeOK
    <3> QED BY <1>3, <3>1, NoneAssumption DEF Registered
  <2>3. CASE SpawnFailed(c)
    BY <1>0, <1>6, <1>8, <2>3 DEF SpawnFailed
  <2> QED BY <2>1, <2>2, <2>3
<1>9. NoOrphan'
  BY <1>0, <1>1, <1>6, <1>7, <1>8 DEF NoOrphan
<1> QED BY <1>5, <1>9

LEMMA FlightRespond ==
  ASSUME HostInv, FlightInv, NEW c \in Calls, Respond(c)
  PROVE  FlightInv'
<1> USE DEF FlightInv, HostInv
<1>1. /\ call[c].pc = "flushing" /\ call'[c] = NoCall
      /\ \A d \in Calls \ {c} : call'[d] = call[d]
      /\ UNCHANGED <<sessions, sid, proc, exited, terminating, disposed>>
  BY DEF Respond, LimiterInv, TypeOK, hostVars, sessionVars
<1>2. Quiet
  BY <1>1 DEF Quiet, Held, NoCall
<1>3. OnePerId' /\ Pending' /\ HeldFresh' /\ Unmade'
  <2>1. \A d \in Calls : Held(d) => sessions'[call[d].id] = None
    BY <1>1 DEF Pending
  <2>2. \A d \in Calls : Held(d)' => call[d].h \notin terminating'
    BY <1>1, <1>2 DEF HeldFresh, Quiet
  <2>3. \A x \in Handles : sid[x] = None => x \notin terminating'
    BY <1>1 DEF Unmade
  <2> QED BY <1>1, <1>2, <2>1, <2>2, <2>3, FlightQuiet
<1>4. \A d \in Spawning : d \in Spawning' /\ call'[d].h = call[d].h
  BY <1>1 DEF Spawning
<1>5. Registered' = Registered /\ \A x \in Handles : Alive(x)' = Alive(x)
  BY <1>1 DEF Registered, Alive, HasSubprocess, Running
<1> QED BY <1>3, <1>4, <1>5 DEF NoOrphan

LEMMA ChildSteps ==
  ASSUME HostInv, NEW h \in Handles, SpawnedFrame(h) \/ ExitFrame(h) \/ ChildExit(h)
  PROVE  /\ UNCHANGED <<sessions, sid, disposed, call, terminating, clients>>
         /\ exited \subseteq exited'
         /\ \A x \in Handles : Running(x)' => Running(x)
         /\ \A x \in Handles : proc[x] = "none" => proc'[x] = "none"
<1> USE DEF HostInv, LimiterInv
<1>1. /\ UNCHANGED <<sessions, sid, disposed, call, terminating, clients>>
      /\ exited \subseteq exited'
  BY DEF SpawnedFrame, ExitFrame, ChildExit, hostVars
<1>2. Running(h) /\ \A x \in Handles : proc'[x] = proc[x] \/ (x = h /\ proc'[h] # "none")
  BY DEF SpawnedFrame, ExitFrame, ChildExit, HasSubprocess, TypeOK
<1> QED BY <1>1, <1>2 DEF Running

LEMMA KillSteps ==
  ASSUME KillAll \/ \E id \in Ids : Kill(id)
  PROVE  /\ UNCHANGED <<sessions, sid, disposed, call, proc, exited, clients>>
         /\ terminating \subseteq terminating'
         /\ terminating' \subseteq terminating \cup Registered
BY DEF KillAll, Kill, Registered

LEMMA FlightStep ==
  ASSUME SingleFlight, HostInv, FlightInv, [Next]_vars
  PROVE  FlightInv'
<1>1. CASE Removing
  BY <1>1, RemovalStep, FlightRemoval
<1>2. ASSUME NEW h \in Handles, SpawnedFrame(h) \/ ExitFrame(h) \/ ChildExit(h)
      PROVE  FlightInv'
  BY <1>2, ChildSteps, FlightMarks
<1>3. CASE KillAll \/ \E id \in Ids : Kill(id)
  <2>1. /\ UNCHANGED <<sessions, sid, disposed, call, proc, exited>>
        /\ terminating' \subseteq terminating \cup Registered
    BY <1>3, KillSteps
  <2>2. \A h \in Handles : Running(h)' => Running(h)
    BY <2>1 DEF Running
  <2> QED BY <2>1, <2>2, FlightMarks
<1>4. CASE UNCHANGED vars
  <2>1. UNCHANGED <<sessions, sid, disposed, call, proc, exited, terminating>>
    BY <1>4 DEF vars, hostVars, sessionVars
  <2>2. \A h \in Handles : Running(h)' => Running(h)
    BY <2>1 DEF Running
  <2> QED BY <2>1, <2>2, FlightMarks
<1> QED
  BY <1>1, <1>2, <1>3, <1>4, FlightAttach, FlightRequest, FlightSpawnChild,
     FlightEndSpawn, FlightRespond DEF Next, Removing

LEMMA FlightInvariant ==
  ASSUME SingleFlight PROVE Spec => []FlightInv
<1>1. Init => FlightInv
  BY NoneAssumption DEF Init, FlightInv, OnePerId, Pending, HeldFresh, Unmade, NoOrphan, Held,
     Alive, HasSubprocess, Running, NoCall
<1>2. HostInv /\ FlightInv /\ [Next]_vars => FlightInv'
  BY FlightStep
<1> QED BY <1>1, <1>2, HostInvariant, PTL DEF Spec

\* createOrAttach, one call in flight per id: every session whose child is alive
\* is in the map or held by the call that is spawning it, so no shell is lost.
THEOREM NoShellLost == SingleFlight => (Spec => []NoOrphan)
<1>1. SUFFICES ASSUME SingleFlight PROVE Spec => []NoOrphan
  OBVIOUS
<1> QED BY <1>1, FlightInvariant, PTL DEF FlightInv

-----------------------------------------------------------------------------
(* Killed children are reaped before their id is registered again *)

\* Under an id that maps to a session, no disposed session's child is running.
Reaped ==
  \A x \in Handles : x \in disposed /\ Running(x) /\ sid[x] \in Ids =>
    sessions[sid[x]] = None

\* A session that exits finds itself under its id, or nothing.
ExitsAlone ==
  \A x \in Handles : Running(x) /\ x \notin exited /\ sid[x] \in Ids =>
    sessions[sid[x]] \in {x, None}

LEMMA ExitsAloneHolds ==
  ASSUME HostInv, FlightInv, Reaped
  PROVE  ExitsAlone
<1> USE DEF HostInv, FlightInv
<1>1. ASSUME NEW x \in Handles, Running(x), x \notin exited, sid[x] \in Ids,
             x \notin disposed
      PROVE  sessions[sid[x]] \in {x, None}
  <2>1. Alive(x)
    BY <1>1 DEF Alive, HasSubprocess
  <2>2. CASE x \in Registered
    <3>1. PICK id \in Ids : sessions[id] = x /\ x # None
      BY <2>2 DEF Registered
    <3>2. sid[x] = id
      BY <3>1 DEF RegistryInv, RegistrySound
    <3> QED BY <3>1, <3>2
  <2>3. CASE \E c \in Spawning : call[c].h = x
    <3>1. PICK c \in Calls : Held(c) /\ call[c].h = x
      BY <2>3 DEF Spawning, Held
    <3>2. sid[x] = call[c].id
      BY <3>1 DEF RegistryInv, HeldSound
    <3> QED BY <3>1, <3>2 DEF Pending
  <2> QED BY <2>1, <2>2, <2>3 DEF NoOrphan
<1> QED BY <1>1 DEF ExitsAlone, Reaped

\* Steps that register nothing, dispose at most what they take out of the map and
\* start no child of a disposed session.
LEMMA ReapedFrame ==
  ASSUME HostInv, Reaped, sid' = sid,
         \A id \in Ids : sessions[id] = None => sessions'[id] = None,
         \A x \in Handles : x \in disposed' => x \in disposed \/ sessions'[sid[x]] = None,
         \A x \in Handles : Running(x)' => Running(x) \/ x \notin disposed
  PROVE  Reaped'
BY DEF Reaped

LEMMA ReapedRemoval ==
  ASSUME HostInv, Reaped, NEW D \in SUBSET Registered, Removal(D)
  PROVE  Reaped'
<1> USE DEF HostInv
<1>1. sid' = sid /\ disposed' = disposed \cup D
      /\ \A x \in Handles : Running(x)' <=> Running(x)
  BY DEF Removal, Running
<1>2. \A id \in Ids : sessions[id] = None => sessions'[id] = None
  BY DEF Removal
<1>3. ASSUME NEW x \in Handles, x \in D
      PROVE  sessions'[sid[x]] = None
  <2>1. PICK id \in Ids : sessions[id] = x /\ x # None
    BY <1>3 DEF Registered
  <2>2. sid[x] = id
    BY <2>1 DEF RegistryInv, RegistrySound
  <2> QED BY <1>3, <2>1, <2>2 DEF Removal
<1> QED BY <1>1, <1>2, <1>3, ReapedFrame

LEMMA ReapedRequest ==
  ASSUME HostInv, FlightInv, Reaped, NEW c \in Calls, NEW k \in Clients,
         NEW id \in Ids, NEW h \in Handles, RequestSpawn(c, k, id, h)
  PROVE  Reaped'
<1> USE DEF HostInv, FlightInv
<1> DEFINE old == sessions[id]
<1>1. /\ sid[h] = None
      /\ sid' = [sid EXCEPT ![h] = id]
      /\ sessions' = [sessions EXCEPT ![id] = None]
      /\ disposed' = disposed \cup ({old} \ {None})
      /\ proc' = proc
  BY DEF RequestSpawn, DropUnusable
<1>2. \A y \in Ids : sessions'[y] = IF y = id THEN None ELSE sessions[y]
  BY <1>1 DEF LimiterInv, TypeOK
<1>3. ~Running(h)
  BY <1>1 DEF Unmade, Running
<1>4. ASSUME NEW x \in Handles, x \in disposed', Running(x)', sid'[x] \in Ids
      PROVE  sessions'[sid'[x]] = None
  <2>1. Running(x) /\ x # h
    BY <1>1, <1>3, <1>4 DEF Running
  <2>2. sid'[x] = sid[x]
    BY <1>1, <2>1 DEF LimiterInv, TypeOK
  <2>3. CASE x \in disposed
    BY <1>2, <1>4, <2>1, <2>2, <2>3 DEF Reaped
  <2>4. CASE x = old /\ old # None
    <3>1. sid[x] = id
      BY <2>4 DEF RegistryInv, RegistrySound
    <3> QED BY <1>2, <2>2, <3>1
  <2> QED BY <1>1, <1>4, <2>3, <2>4
<1> QED BY <1>4 DEF Reaped

LEMMA ReapedStep ==
  ASSUME PromptDeath, HostInv, FlightInv, Reaped, [Next]_vars
  PROVE  Reaped'
<1> USE DEF HostInv, FlightInv
<1>1. CASE Removing
  BY <1>1, RemovalStep, ReapedRemoval
<1>2. ASSUME UNCHANGED <<sessions, sid, disposed>>,
             \A x \in Handles : Running(x)' => Running(x) \/ x \notin disposed
      PROVE  Reaped'
  BY <1>2, ReapedFrame
<1>3. ASSUME UNCHANGED <<sessions, sid, disposed, proc>>
      PROVE  Reaped'
  BY <1>2, <1>3 DEF Running
<1>4. ASSUME NEW h \in Handles, SpawnedFrame(h) \/ ExitFrame(h) \/ ChildExit(h)
      PROVE  Reaped'
  BY <1>2, <1>4, ChildSteps
<1>5. CASE KillAll \/ \E id \in Ids : Kill(id)
  BY <1>3, <1>5, KillSteps
<1>6. ASSUME NEW c \in Calls, NEW k \in Clients, NEW id \in Ids, AttachExisting(c, k, id)
      PROVE  Reaped'
  BY <1>3, <1>6 DEF AttachExisting, hostVars
<1>7. ASSUME NEW c \in Calls, SpawnChild(c)
      PROVE  Reaped'
  <2>1. call[c].h \notin disposed
    BY <1>7 DEF SpawnChild, RegistryInv, HeldSound, Held
  <2>2. proc' = [proc EXCEPT ![call[c].h] = "starting"]
        /\ UNCHANGED <<sessions, sid, disposed>>
    BY <1>7 DEF SpawnChild, hostVars
  <2>3. \A x \in Handles : Running(x)' => Running(x) \/ x = call[c].h
    BY <2>2 DEF Running, LimiterInv, TypeOK
  <2> QED BY <1>2, <2>1, <2>2, <2>3
<1>8. ASSUME NEW c \in Calls, SpawnThrows(c)
      PROVE  Reaped'
  BY <1>3, <1>8 DEF SpawnThrows, hostVars, sessionVars
<1>9. ASSUME NEW c \in Calls, RegisterSpawned(c)
      PROVE  Reaped'
  <2>1. /\ sessions' = [sessions EXCEPT ![call[c].id] = call[c].h]
        /\ UNCHANGED <<sid, proc, disposed>>
        /\ \A x \in Handles : sid[x] = call[c].id /\ x \in disposed => ~Running(x)
    BY <1>9 DEF RegisterSpawned
  <2>2. ASSUME NEW x \in Handles, x \in disposed, Running(x), sid[x] \in Ids
        PROVE  sessions'[sid[x]] = None
    BY <2>1, <2>2 DEF Reaped, LimiterInv, TypeOK
  <2> QED BY <2>1, <2>2 DEF Reaped, Running
<1>10. ASSUME NEW c \in Calls, SpawnFailed(c)
       PROVE  Reaped'
  <2>1. /\ Held(c) /\ disposed' = disposed \cup {call[c].h}
        /\ UNCHANGED <<sessions, sid, proc>>
    BY <1>10 DEF SpawnFailed, Held, hostVars
  <2>2. sessions[sid[call[c].h]] = None
    BY <2>1 DEF Pending, RegistryInv, HeldSound
  <2>3. \A x \in Handles : Running(x)' <=> Running(x)
    BY <2>1 DEF Running
  <2> QED BY <2>1, <2>2, <2>3, ReapedFrame
<1>11. ASSUME NEW c \in Calls, Respond(c)
       PROVE  Reaped'
  BY <1>3, <1>11 DEF Respond, hostVars, sessionVars
<1>12. CASE UNCHANGED vars
  BY <1>3, <1>12 DEF vars, hostVars, sessionVars
<1> QED
  BY <1>1, <1>4, <1>5, <1>6, <1>7, <1>8, <1>9, <1>10, <1>11, <1>12, ReapedRequest
     DEF Next, Removing

LEMMA ReapedInvariant ==
  ASSUME SingleFlight, PromptDeath
  PROVE  Spec => [](HostInv /\ FlightInv /\ Reaped)
<1>1. Init => Reaped
  BY DEF Init, Reaped
<1>2. HostInv /\ FlightInv /\ Reaped /\ [Next]_vars => Reaped'
  BY ReapedStep
<1> QED BY <1>1, <1>2, HostInvariant, FlightInvariant, PTL DEF Spec

-----------------------------------------------------------------------------
(* The fail-safe of kill *)

LEMMA FailSafeExit ==
  ASSUME HostInv, FlightInv, Reaped, KillFailSafe, NEW h \in Handles,
         ExitFrame(h) \/ ChildExit(h)
  PROVE  KillFailSafe'
<1> USE DEF HostInv, FlightInv
<1>1. Running(h) /\ sid[h] \in Ids
  <2>1. Running(h)
    BY DEF ExitFrame, ChildExit, HasSubprocess
  <2>2. sid[h] # None
    BY <2>1 DEF Unmade, Running
  <2> QED BY <2>1, <2>2 DEF LimiterInv, TypeOK
<1>2. UNCHANGED <<sessions, terminating>> /\ h \in exited'
      /\ \A x \in Handles : Alive(x)' => Alive(x)
  <2>1. UNCHANGED <<sessions, terminating>> /\ h \in exited'
    BY DEF ExitFrame, ChildExit
  <2> QED BY <2>1, ChildSteps DEF Alive, HasSubprocess
<1>3. ASSUME NEW id \in Ids, sessions[id] \in terminating, Alive(sessions[id])'
      PROVE  id \in killTimers'
  <2>1. PICK x \in Handles : x = sessions[id]
    BY <1>3 DEF LimiterInv, TypeOK
  <2>2. Alive(x)' /\ x # h
    BY <1>2, <1>3, <2>1 DEF Alive
  <2>3. id \in killTimers
    BY <1>2, <1>3, <2>1, <2>2 DEF KillFailSafe
  <2>4. CASE killTimers' = killTimers
    BY <2>3, <2>4
  <2>5. CASE h \notin exited /\ killTimers' = killTimers \ {sid[h]}
    <3>1. sessions[sid[h]] \in {h, None}
      BY <1>1, <2>5, ExitsAloneHolds DEF ExitsAlone
    <3>2. x # None
      BY NoneAssumption
    <3>3. sid[h] # id
      BY <2>1, <2>2, <3>1, <3>2
    <3> QED BY <2>3, <2>5, <3>3
  <2> QED BY <2>4, <2>5 DEF ExitFrame, ChildExit, HandleSessionExit
<1> QED BY <1>2, <1>3 DEF KillFailSafe

\* Steps that register nothing, revive nobody, mark nobody and keep the timers
\* that are needed.
LEMMA FailSafeFrame ==
  ASSUME HostInv, KillFailSafe,
         \A id \in Ids : sessions'[id] \in {sessions[id], None},
         \A x \in Handles \ disposed : Alive(x)' /\ x \in Registered => Alive(x),
         disposed \subseteq disposed',
         terminating' = terminating,
         KeepsTimers
  PROVE  KillFailSafe'
<1> SUFFICES ASSUME NEW id \in Ids, sessions'[id] \in terminating', Alive(sessions[id])',
                    sessions'[id] = sessions[id]
             PROVE  id \in killTimers'
  BY NoneAssumption DEF KillFailSafe, HostInv, LimiterInv, TypeOK
<1>1. PICK x \in Handles : x = sessions[id]
  BY DEF HostInv, LimiterInv, TypeOK
<1>2. x \in Registered /\ Alive(x)' /\ x \in terminating
  BY <1>1, NoneAssumption DEF Registered
<1>3. Alive(x)
  BY <1>2 DEF Alive, HasSubprocess
<1> QED BY <1>1, <1>2, <1>3 DEF KillFailSafe, KeepsTimers

LEMMA FailSafeStep ==
  ASSUME HostInv, FlightInv, Reaped, KillFailSafe, [Next]_vars
  PROVE  KillFailSafe'
<1> USE DEF HostInv, FlightInv
<1>0. None \notin terminating /\ sessions \in [Ids -> Handles \cup {None}]
      /\ killTimers \subseteq Ids
  BY NoneAssumption DEF LimiterInv, TypeOK
<1>1. CASE Removing
  <2>1. PICK D \in SUBSET Registered : Removal(D) /\ KeepsTimers
    BY <1>1, RemovalStep
  <2>2. \A id \in Ids : sessions'[id] \in {sessions[id], None}
    BY <2>1 DEF Removal
  <2>3. /\ \A x \in Handles : Alive(x)' => Alive(x)
        /\ disposed \subseteq disposed' /\ terminating' = terminating
    BY <2>1 DEF Removal, Alive, HasSubprocess, Running
  <2> QED BY <2>1, <2>2, <2>3, FailSafeFrame
<1>2. ASSUME UNCHANGED <<sessions, killTimers, terminating, disposed, exited>>,
             \A x \in Handles : Running(x)' => Running(x) \/ x \notin Registered
      PROVE  KillFailSafe'
  <2>1. KeepsTimers
    BY <1>2 DEF KeepsTimers
  <2>2. \A x \in Handles \ disposed : Alive(x)' /\ x \in Registered => Alive(x)
    BY <1>2 DEF Alive, HasSubprocess
  <2>3. \A id \in Ids : sessions'[id] \in {sessions[id], None}
    BY <1>2
  <2> QED BY <1>2, <2>1, <2>2, <2>3, FailSafeFrame
<1>3. ASSUME NEW h \in Handles, SpawnedFrame(h)
      PROVE  KillFailSafe'
  BY <1>2, <1>3, ChildSteps DEF SpawnedFrame, hostVars
<1>4. ASSUME NEW id \in Ids, Kill(id)
      PROVE  KillFailSafe'
  <2>1. /\ terminating' = terminating \cup {sessions[id]}
        /\ killTimers' = killTimers \cup {id}
        /\ UNCHANGED <<sessions, disposed, exited, proc, sid>> /\ sessions[id] # None
    BY <1>4 DEF Kill
  <2>2. ASSUME NEW x \in Ids, sessions[x] \in terminating', Alive(sessions[x])'
        PROVE  x \in killTimers'
    <3>1. Alive(sessions[x])
      BY <2>1, <2>2 DEF Alive, HasSubprocess, Running
    <3>2. CASE sessions[x] \in terminating
      BY <2>1, <3>1, <3>2 DEF KillFailSafe
    <3>3. CASE sessions[x] = sessions[id]
      <4>1. x = id
        BY <2>1, <3>3 DEF RegistryInv, RegistrySound
      <4> QED BY <2>1, <4>1
    <3> QED BY <2>1, <2>2, <3>2, <3>3
  <2> QED BY <2>1, <2>2 DEF KillFailSafe
<1>5. CASE KillAll
  <2>1. /\ terminating' = terminating \cup Registered
        /\ killTimers' = killTimers \cup {id \in Ids : sessions[id] # None}
        /\ UNCHANGED <<sessions, disposed, exited, proc>>
    BY <1>5 DEF KillAll
  <2>2. None \notin Registered
    BY DEF Registered
  <2> QED BY <1>0, <2>1, <2>2 DEF KillFailSafe
<1>6. ASSUME NEW c \in Calls, NEW k \in Clients, NEW id \in Ids, AttachExisting(c, k, id)
      PROVE  KillFailSafe'
  <2>1. UNCHANGED <<sessions, killTimers, terminating, disposed, exited, proc>>
    BY <1>6 DEF AttachExisting, hostVars
  <2> QED BY <1>2, <2>1 DEF Running
<1>7. ASSUME NEW c \in Calls, NEW k \in Clients, NEW id \in Ids, NEW h \in Handles,
             RequestSpawn(c, k, id, h)
      PROVE  KillFailSafe'
  <2>1. /\ sessions' = [sessions EXCEPT ![id] = None]
        /\ disposed \subseteq disposed'
        /\ killTimers \ {id} \subseteq killTimers'
        /\ UNCHANGED <<proc, exited, terminating>>
    BY <1>7 DEF RequestSpawn, DropUnusable
  <2>2. \A x \in Ids : sessions'[x] \in {sessions[x], None} /\ sessions'[id] = None
    BY <1>0, <2>1
  <2>3. KeepsTimers
    BY <1>0, <2>1, <2>2 DEF KeepsTimers
  <2>4. \A x \in Handles : Alive(x)' => Alive(x)
    BY <2>1 DEF Alive, HasSubprocess, Running
  <2> QED BY <2>1, <2>2, <2>3, <2>4, FailSafeFrame
<1>8. ASSUME NEW c \in Calls, SpawnChild(c)
      PROVE  KillFailSafe'
  <2>1. call[c].h \notin Registered
    BY <1>8 DEF SpawnChild, RegistryInv, HeldSound, Held, Registered
  <2>2. proc' = [proc EXCEPT ![call[c].h] = "starting"]
        /\ UNCHANGED <<sessions, killTimers, terminating, disposed, exited>>
    BY <1>8 DEF SpawnChild, hostVars
  <2>3. \A x \in Handles : Running(x)' => Running(x) \/ x = call[c].h
    BY <2>2 DEF Running, LimiterInv, TypeOK
  <2> QED BY <1>2, <2>1, <2>2, <2>3
<1>9. ASSUME NEW c \in Calls, SpawnThrows(c) \/ Respond(c)
      PROVE  KillFailSafe'
  <2>1. UNCHANGED <<sessions, killTimers, terminating, disposed, exited, proc>>
    BY <1>9 DEF SpawnThrows, Respond, hostVars, sessionVars
  <2> QED BY <1>2, <2>1 DEF Running
<1>10. ASSUME NEW c \in Calls, RegisterSpawned(c)
       PROVE  KillFailSafe'
  <2>1. /\ sessions' = [sessions EXCEPT ![call[c].id] = call[c].h]
        /\ UNCHANGED <<killTimers, proc, exited, terminating, disposed>>
        /\ Held(c)
    BY <1>10 DEF RegisterSpawned, Held
  <2>2. call[c].h \notin terminating
    BY <2>1 DEF HeldFresh
  <2>3. \A x \in Ids : sessions'[x] \in terminating => sessions'[x] = sessions[x]
    BY <1>0, <2>1, <2>2
  <2>4. \A x \in Ids : sessions'[x] = sessions[x] /\ Alive(sessions[x])' => Alive(sessions[x])
    BY <2>1 DEF Alive, HasSubprocess, Running
  <2> QED BY <2>1, <2>3, <2>4 DEF KillFailSafe, Alive, HasSubprocess, Running
<1>11. ASSUME NEW c \in Calls, SpawnFailed(c)
       PROVE  KillFailSafe'
  <2>1. /\ disposed \subseteq disposed'
        /\ UNCHANGED <<sessions, killTimers, proc, exited, terminating>>
    BY <1>11 DEF SpawnFailed, hostVars
  <2>2. KeepsTimers /\ \A x \in Handles : Alive(x)' => Alive(x)
    BY <2>1 DEF KeepsTimers, Alive, HasSubprocess, Running
  <2>3. \A id \in Ids : sessions'[id] \in {sessions[id], None}
    BY <2>1
  <2> QED BY <2>1, <2>2, <2>3, FailSafeFrame
<1>12. CASE UNCHANGED vars
  <2>1. UNCHANGED <<sessions, killTimers, terminating, disposed, exited, proc>>
    BY <1>12 DEF vars, hostVars, sessionVars
  <2> QED BY <1>2, <2>1 DEF Running
<1> QED
  BY <1>1, <1>3, <1>4, <1>5, <1>6, <1>7, <1>8, <1>9, <1>10, <1>11, <1>12, FailSafeExit
     DEF Next, Removing

\* kill: a registered session that was asked to terminate and lives on has its
\* fail-safe timer armed, whichever exits, kills and spawns happen meanwhile.
THEOREM FailSafeArmed == SingleFlight /\ PromptDeath => (Spec => []KillFailSafe)
<1>1. SUFFICES ASSUME SingleFlight, PromptDeath PROVE Spec => []KillFailSafe
  OBVIOUS
<1>2. Init => KillFailSafe
  BY NoneAssumption DEF Init, KillFailSafe
<1>3. HostInv /\ FlightInv /\ Reaped /\ KillFailSafe /\ [Next]_vars => KillFailSafe'
  BY FailSafeStep
<1>4. Spec => [](HostInv /\ FlightInv /\ Reaped)
  BY <1>1, ReapedInvariant
<1> QED BY <1>2, <1>3, <1>4, PTL DEF Spec

\* onUnattachedExit: the exit that clients are told of is that of the session
\* they see under the id.
THEOREM ExitIsOwn == SingleFlight /\ PromptDeath => (Spec => AnnouncedExitIsOwn)
<1>1. SUFFICES ASSUME SingleFlight, PromptDeath PROVE Spec => AnnouncedExitIsOwn
  OBVIOUS
<1> DEFINE Own == \A h \in Handles :
             h \in exited' \ exited /\ AnnouncesExit(sid[h]) => sessions[sid[h]] = h
<1>2. HostInv /\ FlightInv /\ Reaped /\ [Next]_vars => [Own]_vars
  <2> SUFFICES ASSUME HostInv, FlightInv, Reaped, [Next]_vars, NEW h \in Handles,
                      h \in exited' \ exited, AnnouncesExit(sid[h])
               PROVE  sessions[sid[h]] = h
    OBVIOUS
  <2>1. Running(h)
    <3>1. ~UNCHANGED exited
      OBVIOUS
    <3>2. PICK x \in Handles : ExitFrame(x) \/ ChildExit(x)
      <4>1. CASE Removing
        BY <3>1, <4>1, RemovalStep DEF Removal
      <4>2. ~Removing => \E x \in Handles : ExitFrame(x) \/ ChildExit(x)
        BY <3>1 DEF Next, Removing, vars, sessionVars, AttachExisting, RequestSpawn,
             SpawnChild, SpawnThrows, RegisterSpawned, SpawnFailed, Respond,
             SpawnedFrame, Kill, KillAll
      <4> QED BY <4>1, <4>2
    <3> QED BY <3>2 DEF ExitFrame, ChildExit, HasSubprocess
  <2>2. sid[h] \in Ids
    BY <2>1 DEF HostInv, LimiterInv, TypeOK, FlightInv, Unmade, Running
  <2> QED BY <2>1, <2>2, ExitsAloneHolds DEF ExitsAlone, AnnouncesExit
<1>3. Spec => [](HostInv /\ FlightInv /\ Reaped)
  BY <1>1, ReapedInvariant
<1> QED BY <1>2, <1>3, PTL DEF Spec, AnnouncedExitIsOwn

-----------------------------------------------------------------------------
(***************************************************************************)
(* Sockets that are gone.  A socket detaches from the sessions in the map  *)
(* only, so only these may have clients; and no call in flight may hold a  *)
(* socket that has closed, for attach adds it whatever became of it.       *)
(***************************************************************************)

Attached == \A h \in Handles : clients[h] # {} => h \in Registered

OpenSocks ==
  /\ \A k \in Clients : stream[k] # None => sock[stream[k]] # "closed"
  /\ \A c \in Calls : call[c].sock # None => sock[call[c].sock] # "closed"

ClientInv == Attached /\ OpenSocks /\ NoGhostClient

\* Steps that attach nobody and take sessions out of the map only when they have
\* no clients any more.
LEMMA ClientFrame ==
  ASSUME HostInv, ClientInv,
         \A h \in Handles : clients'[h] \subseteq clients[h],
         \A h \in Handles : clients'[h] # {} /\ h \in Registered => h \in Registered',
         UNCHANGED socketVars,
         \A c \in Calls : call'[c].sock \in {None, call[c].sock}
                          \/ \E k \in Clients : call'[c].sock = stream[k]
  PROVE  ClientInv'
<1> USE DEF ClientInv
<1>1. Attached'
  BY DEF Attached
<1>2. OpenSocks'
  BY DEF OpenSocks, socketVars
<1>3. NoGhostClient'
  BY DEF NoGhostClient, socketVars
<1> QED BY <1>1, <1>2, <1>3

\* Discard clears the clients of what it takes out of the map.
LEMMA ClientDiscard ==
  ASSUME HostInv, ClientInv, NEW D, Discard(D), UNCHANGED <<call, socketVars>>
  PROVE  ClientInv'
<1>1. \A h \in Handles : clients'[h] \subseteq clients[h] /\ (clients'[h] # {} => h \notin D)
  BY DEF Discard
<1>2. ASSUME NEW h \in Handles, h \notin D, h \in Registered
      PROVE  h \in Registered'
  BY <1>2 DEF Registered, Discard
<1> QED BY <1>1, <1>2, ClientFrame

\* detachFromAllSessions reaches every session that has clients.
LEMMA ClientDetachAll ==
  ASSUME HostInv, ClientInv, NEW s \in Socks, DetachFromAll(s)
  PROVE  Attached' /\ \A h \in Handles : clients'[h] \subseteq clients[h] \ {s}
<1>1. \A h \in Handles : clients'[h] = IF h \in LeftDead(s) THEN {}
                                       ELSE IF h \in Registered THEN clients[h] \ {s}
                                       ELSE clients[h]
  BY DEF DetachFromAll
<1>2. \A h \in Handles : clients'[h] \subseteq clients[h] \ {s}
  BY <1>1 DEF ClientInv, Attached
<1>3. ASSUME NEW h \in Handles, clients'[h] # {}
      PROVE  h \in Registered'
  <2>1. h \in Registered /\ h \notin LeftDead(s)
    BY <1>1, <1>2, <1>3 DEF ClientInv, Attached
  <2> QED BY <2>1 DEF Registered, DetachFromAll
<1> QED BY <1>2, <1>3 DEF Attached

LEMMA ClientHello ==
  ASSUME HostInv, ClientInv, NEW k \in Clients, NEW s \in Socks, Hello(k, s)
  PROVE  ClientInv'
<1> USE DEF HostInv, LimiterInv
<1>1. /\ stream' = [stream EXCEPT ![k] = s]
      /\ sock' = [x \in Socks |-> IF x = s THEN "up"
                                  ELSE IF x = stream[k] THEN "closing" ELSE sock[x]]
      /\ call' = call
  BY DEF Hello
<1>2. \A x \in Socks : sock[x] # "closed" => sock'[x] # "closed"
  BY <1>1
<1>3. s # None /\ sock'[s] # "closed"
  BY <1>1, NoneAssumption
<1>4. OpenSocks'
  BY <1>1, <1>2, <1>3 DEF ClientInv, OpenSocks, TypeOK, CallRec
<1>5. Attached' /\ \A h \in Handles : clients'[h] \subseteq clients[h]
  <2>1. CASE stream[k] = None
    <3>1. UNCHANGED <<sessions, clients>>
      BY <2>1 DEF Hello
    <3> QED BY <3>1 DEF ClientInv, Attached, Registered
  <2>2. CASE stream[k] # None
    <3>1. stream[k] \in Socks /\ DetachFromAll(stream[k])
      BY <2>2 DEF Hello, TypeOK
    <3> QED BY <3>1, ClientDetachAll
  <2> QED BY <2>1, <2>2
<1>6. NoGhostClient'
  BY <1>2, <1>5 DEF ClientInv, NoGhostClient, TypeOK
<1> QED BY <1>4, <1>5, <1>6 DEF ClientInv

LEMMA ClientDisconnect ==
  ASSUME PatientClients, HostInv, ClientInv, NEW s \in Socks, Disconnect(s)
  PROVE  ClientInv'
<1> USE DEF HostInv, LimiterInv
<1>1. /\ sock' = [sock EXCEPT ![s] = "closed"]
      /\ stream' = [k \in Clients |-> IF stream[k] = s THEN None ELSE stream[k]]
      /\ call' = call /\ DetachFromAll(s)
      /\ \A c \in Calls : call[c].sock # s
  BY DEF Disconnect, Busy
<1>2. \A x \in Socks : x # s => sock'[x] = sock[x]
  BY <1>1 DEF TypeOK
<1>3. OpenSocks'
  BY <1>1, <1>2 DEF ClientInv, OpenSocks, TypeOK, CallRec
<1>4. Attached' /\ \A h \in Handles : clients'[h] \subseteq clients[h] \ {s}
  BY <1>1, ClientDetachAll
<1>5. NoGhostClient'
  BY <1>2, <1>4 DEF ClientInv, NoGhostClient, TypeOK
<1> QED BY <1>3, <1>4, <1>5 DEF ClientInv

LEMMA ClientAttach ==
  ASSUME HostInv, ClientInv, NEW c \in Calls, NEW k \in Clients, NEW id \in Ids,
         AttachExisting(c, k, id)
  PROVE  ClientInv'
<1> USE DEF HostInv, LimiterInv
<1>1. /\ clients' = [clients EXCEPT ![sessions[id]] = @ \cup {stream[k]}]
      /\ sessions[id] # None /\ stream[k] # None
      /\ UNCHANGED <<sessions, stream, sock>>
      /\ call'[c].sock = stream[k]
      /\ \A d \in Calls \ {c} : call'[d] = call[d]
  BY DEF AttachExisting, Attach, hostVars, socketVars, TypeOK
<1>2. sessions[id] \in Registered /\ Registered' = Registered
  BY <1>1 DEF Registered
<1>3. \A h \in Handles : clients'[h] = IF h = sessions[id] THEN clients[h] \cup {stream[k]}
                                       ELSE clients[h]
  BY <1>1 DEF TypeOK
<1>4. Attached'
  BY <1>2, <1>3 DEF ClientInv, Attached
<1>5. sock[stream[k]] # "closed"
  BY <1>1 DEF ClientInv, OpenSocks
<1>6. OpenSocks'
  BY <1>1, <1>5 DEF ClientInv, OpenSocks
<1>7. NoGhostClient'
  BY <1>1, <1>3, <1>5 DEF ClientInv, NoGhostClient
<1> QED BY <1>4, <1>6, <1>7 DEF ClientInv

LEMMA ClientRegister ==
  ASSUME HostInv, FlightInv, ClientInv, NEW c \in Calls, RegisterSpawned(c)
  PROVE  ClientInv'
<1> USE DEF HostInv, LimiterInv
<1> DEFINE id == call[c].id
           s == call[c].sock
<1>0. PICK h \in Handles : h = call[c].h
  BY DEF RegisterSpawned, CallsFilled
<1>1. /\ sessions' = [sessions EXCEPT ![id] = h]
      /\ clients' = [clients EXCEPT ![h] = @ \cup {s}]
      /\ UNCHANGED <<stream, sock>>
      /\ Held(c) /\ id \in Ids /\ s \in Socks
  BY <1>0 DEF RegisterSpawned, Attach, socketVars, Held, CallsFilled
<1>2. sessions[id] = None
  BY <1>1 DEF FlightInv, Pending
<1>3. h \in Registered' /\ \A x \in Registered : x \in Registered'
  <2>1. sessions'[id] = h /\ \A y \in Ids : sessions[y] # None => sessions'[y] = sessions[y]
    BY <1>1, <1>2 DEF TypeOK
  <2> QED BY <1>1, <2>1, NoneAssumption DEF Registered
<1>4. \A x \in Handles : clients'[x] = IF x = h THEN clients[x] \cup {s} ELSE clients[x]
  BY <1>1 DEF TypeOK
<1>5. Attached'
  BY <1>3, <1>4 DEF ClientInv, Attached
<1>6. sock[s] # "closed"
  BY <1>1, NoneAssumption DEF ClientInv, OpenSocks
<1>7. OpenSocks'
  <2>1. \A d \in Calls : call'[d].sock \in {None, call[d].sock}
    BY EndSpawnCalls DEF HostInv
  <2> QED BY <1>1, <2>1 DEF ClientInv, OpenSocks
<1>8. NoGhostClient'
  BY <1>1, <1>4, <1>6 DEF ClientInv, NoGhostClient
<1> QED BY <1>5, <1>7, <1>8 DEF ClientInv

LEMMA ClientStep ==
  ASSUME PatientClients, HostInv, FlightInv, ClientInv, [Next]_vars
  PROVE  ClientInv'
<1> USE DEF HostInv, LimiterInv
<1>1. ASSUME UNCHANGED <<sessions, clients, stream, sock>>,
             \A c \in Calls : call'[c].sock \in {None, call[c].sock}
      PROVE  ClientInv'
  <2>1. Registered' = Registered
    BY <1>1 DEF Registered
  <2> QED BY <1>1, <2>1, ClientFrame DEF socketVars
<1>2. ASSUME NEW id \in Ids, KillTimerFires(id)
      PROVE  ClientInv'
  BY <1>2, ClientDiscard DEF KillTimerFires
<1>3. ASSUME NEW id \in Ids, CleanupFires(id)
      PROVE  ClientInv'
  BY <1>3, ClientDiscard DEF CleanupFires
<1>4. ASSUME NEW k \in Clients, NEW id \in Ids, Detach(k, id)
      PROVE  ClientInv'
  <2>1. CASE sessions[id] \in LeftDead(stream[k])
    BY <1>4, <2>1, ClientDiscard DEF Detach
  <2>2. CASE sessions[id] \notin LeftDead(stream[k])
    <3>1. /\ clients' = [clients EXCEPT ![sessions[id]] = @ \ {stream[k]}]
          /\ UNCHANGED <<sessions, call, socketVars>>
      BY <1>4, <2>2 DEF Detach
    <3>2. \A h \in Handles : clients'[h] \subseteq clients[h]
      BY <3>1 DEF TypeOK
    <3>3. Registered' = Registered
      BY <3>1 DEF Registered
    <3> QED BY <3>1, <3>2, <3>3, ClientFrame
  <2> QED BY <2>1, <2>2
<1>5. CASE HostDispose
  BY <1>5, ClientDiscard DEF HostDispose
<1>6. ASSUME NEW h \in Handles, SpawnedFrame(h) \/ ExitFrame(h) \/ ChildExit(h)
      PROVE  ClientInv'
  <2>1. UNCHANGED <<sessions, clients, call>>
    BY <1>6, ChildSteps
  <2>2. UNCHANGED <<stream, sock>>
    BY <1>6 DEF SpawnedFrame, ExitFrame, ChildExit, socketVars
  <2> QED BY <1>1, <2>1, <2>2
<1>7. CASE KillAll \/ \E id \in Ids : Kill(id)
  BY <1>1, <1>7 DEF KillAll, Kill, hostVars, socketVars
<1>8. ASSUME NEW c \in Calls, NEW k \in Clients, NEW id \in Ids, NEW h \in Handles,
             RequestSpawn(c, k, id, h)
      PROVE  ClientInv'
  <2>1. /\ sessions' = [sessions EXCEPT ![id] = None]
        /\ clients' = [x \in Handles |-> IF x = sessions[id] THEN {} ELSE clients[x]]
        /\ UNCHANGED socketVars
    BY <1>8 DEF RequestSpawn, DropUnusable
  <2>2. \A x \in Handles : clients'[x] \subseteq clients[x]
                           /\ (clients'[x] # {} => x # sessions[id])
    BY <2>1
  <2>3. ASSUME NEW x \in Handles, x # sessions[id], x \in Registered
        PROVE  x \in Registered'
    BY <2>1, <2>3 DEF Registered, TypeOK
  <2>4. \A d \in Calls : call'[d].sock \in {None, call[d].sock}
                         \/ \E j \in Clients : call'[d].sock = stream[j]
    BY <1>8 DEF RequestSpawn, TypeOK
  <2> QED BY <2>1, <2>2, <2>3, <2>4, ClientFrame
<1>9. ASSUME NEW c \in Calls, SpawnChild(c)
      PROVE  ClientInv'
  <2>1. \A d \in Calls : call'[d].sock = call[d].sock
    BY <1>9 DEF SpawnChild, TypeOK, CallRec
  <2> QED BY <1>1, <1>9, <2>1 DEF SpawnChild, hostVars, socketVars
<1>10. ASSUME NEW c \in Calls, SpawnThrows(c)
       PROVE  ClientInv'
  BY <1>1, <1>10, EndSpawnCalls DEF SpawnThrows, hostVars, sessionVars, socketVars
<1>11. ASSUME NEW c \in Calls, SpawnFailed(c)
       PROVE  ClientInv'
  <2>1. /\ clients' = [clients EXCEPT ![call[c].h] = {}]
        /\ UNCHANGED <<sessions, socketVars>>
    BY <1>11 DEF SpawnFailed, hostVars
  <2>2. \A d \in Calls : call'[d].sock \in {None, call[d].sock}
    BY <1>11, EndSpawnCalls
  <2>3. \A h \in Handles : clients'[h] \subseteq clients[h]
    BY <2>1 DEF TypeOK
  <2>4. Registered' = Registered
    BY <2>1 DEF Registered
  <2> QED BY <2>1, <2>2, <2>3, <2>4, ClientFrame
<1>12. ASSUME NEW c \in Calls, Respond(c)
       PROVE  ClientInv'
  <2>1. \A d \in Calls : call'[d].sock \in {None, call[d].sock}
    BY <1>12 DEF Respond, TypeOK, NoCall
  <2> QED BY <1>1, <1>12, <2>1 DEF Respond, hostVars, sessionVars, socketVars
<1>13. CASE UNCHANGED vars
  BY <1>1, <1>13 DEF vars, hostVars, sessionVars, socketVars
<1> QED
  BY <1>2, <1>3, <1>4, <1>5, <1>6, <1>7, <1>8, <1>9, <1>10, <1>11, <1>12, <1>13,
     ClientAttach, ClientRegister, ClientHello, ClientDisconnect DEF Next

\* attach, detachFromAllSessions: as long as no socket goes away under a call of its
\* own, no session ever counts a socket that is closed among its clients.
THEOREM NoGhosts == SingleFlight /\ PatientClients => (Spec => []NoGhostClient)
<1>1. SUFFICES ASSUME SingleFlight, PatientClients PROVE Spec => []NoGhostClient
  OBVIOUS
<1>2. Init => ClientInv
  BY DEF Init, ClientInv, Attached, OpenSocks, NoGhostClient, NoCall
<1>3. HostInv /\ FlightInv /\ ClientInv /\ [Next]_vars => ClientInv'
  BY <1>1, ClientStep
<1>4. Spec => []FlightInv
  BY <1>1, FlightInvariant
<1>5. ClientInv => NoGhostClient
  BY DEF ClientInv
<1> QED BY <1>2, <1>3, <1>4, <1>5, HostInvariant, PTL DEF Spec

-----------------------------------------------------------------------------
(* listSessions is a SessionDirectory *)

\* How one entry of the map may change, and what becomes attachable.
LEMMA EntryStep ==
  ASSUME HostInv, FlightInv, [Next]_vars, NEW id \in Ids
  PROVE  \/ sessions'[id] = None
         \/ /\ sessions'[id] = sessions[id] /\ sessions[id] # None
            /\ Attachable(sessions[id])' => Attachable(sessions[id])
         \/ /\ sessions[id] = None /\ sessions'[id] # None
            /\ Attachable(sessions[id])'
<1> USE DEF HostInv, FlightInv
<1> SUFFICES ASSUME sessions'[id] # None
             PROVE  \/ /\ sessions'[id] = sessions[id] /\ sessions[id] # None
                       /\ Attachable(sessions[id])' => Attachable(sessions[id])
                    \/ /\ sessions[id] = None /\ Attachable(sessions[id])'
  OBVIOUS
<1> DEFINE Kept == /\ sessions'[id] = sessions[id] /\ sessions[id] # None
                   /\ Attachable(sessions[id])' => Attachable(sessions[id])
<1>1. ASSUME sessions'[id] = sessions[id], disposed \subseteq disposed', exited \subseteq exited',
             terminating \subseteq terminating',
             \A x \in Handles : Running(x)' => Running(x) \/ x \notin Registered
      PROVE  Kept
  <2>1. PICK x \in Handles : x = sessions[id]
    BY <1>1 DEF LimiterInv, TypeOK
  <2>2. x \in Registered
    BY <2>1, NoneAssumption DEF Registered
  <2>3. Attachable(x)' => Attachable(x)
    BY <1>1, <2>2 DEF Attachable, Alive, HasSubprocess
  <2>4. Attachable(sessions[id])' => Attachable(x)'
    BY <1>1, <2>1
  <2> QED BY <1>1, <2>1, <2>3, <2>4, NoneAssumption
<1>2. CASE Removing
  <2>1. PICK D \in SUBSET Registered : Removal(D)
    BY <1>2, RemovalStep
  <2>2. sessions'[id] = sessions[id] /\ disposed \subseteq disposed'
        /\ UNCHANGED <<proc, exited, terminating>>
    BY <2>1 DEF Removal
  <2> QED BY <1>1, <2>2 DEF Running
<1>3. ASSUME NEW h \in Handles, SpawnedFrame(h) \/ ExitFrame(h) \/ ChildExit(h)
      PROVE  Kept
  BY <1>1, <1>3, ChildSteps
<1>4. CASE KillAll \/ \E x \in Ids : Kill(x)
  BY <1>1, <1>4, KillSteps DEF Running
<1>5. ASSUME NEW c \in Calls, NEW k \in Clients, NEW x \in Ids, AttachExisting(c, k, x)
      PROVE  Kept
  BY <1>1, <1>5 DEF AttachExisting, hostVars, Running
<1>6. ASSUME NEW c \in Calls, NEW k \in Clients, NEW x \in Ids, NEW h \in Handles,
             RequestSpawn(c, k, x, h)
      PROVE  Kept
  <2>1. sessions'[id] = sessions[id] /\ disposed \subseteq disposed'
        /\ UNCHANGED <<proc, exited, terminating>>
    BY <1>6 DEF RequestSpawn, DropUnusable, LimiterInv, TypeOK
  <2> QED BY <1>1, <2>1 DEF Running
<1>7. ASSUME NEW c \in Calls, SpawnChild(c)
      PROVE  Kept
  <2>1. call[c].h \notin Registered
    BY <1>7 DEF SpawnChild, RegistryInv, HeldSound, Held, Registered
  <2>2. proc' = [proc EXCEPT ![call[c].h] = "starting"]
        /\ UNCHANGED <<sessions, terminating, disposed, exited>>
    BY <1>7 DEF SpawnChild, hostVars
  <2>3. \A x \in Handles : Running(x)' => Running(x) \/ x = call[c].h
    BY <2>2 DEF Running, LimiterInv, TypeOK
  <2> QED BY <1>1, <2>1, <2>2, <2>3
<1>8. ASSUME NEW c \in Calls, SpawnThrows(c) \/ SpawnFailed(c) \/ Respond(c)
      PROVE  Kept
  <2>1. disposed \subseteq disposed' /\ UNCHANGED <<sessions, proc, exited, terminating>>
    BY <1>8 DEF SpawnThrows, SpawnFailed, Respond, hostVars, sessionVars
  <2> QED BY <1>1, <2>1 DEF Running
<1>9. ASSUME NEW c \in Calls, RegisterSpawned(c)
      PROVE  Kept \/ (sessions[id] = None /\ Attachable(sessions[id])')
  <2>0. PICK h \in Handles : h = call[c].h
    BY <1>9 DEF RegisterSpawned, LimiterInv, CallsFilled
  <2>1. /\ sessions' = [sessions EXCEPT ![call[c].id] = h] /\ Alive(h)
        /\ UNCHANGED <<proc, exited, terminating, disposed>> /\ Held(c)
    BY <1>9, <2>0 DEF RegisterSpawned, Held
  <2>2. CASE id # call[c].id
    <3>1. sessions'[id] = sessions[id]
      BY <2>1, <2>2 DEF LimiterInv, TypeOK
    <3> QED BY <1>1, <2>1, <3>1 DEF Running
  <2>3. CASE id = call[c].id
    <3>1. sessions[id] = None /\ h \notin terminating
      BY <2>0, <2>1, <2>3 DEF Pending, HeldFresh
    <3>2. Attachable(h)'
      BY <2>1, <3>1 DEF Attachable, Alive, HasSubprocess, Running
    <3>3. sessions'[id] = h
      BY <2>1, <2>3 DEF LimiterInv, TypeOK
    <3>4. Attachable(sessions[id])'
      BY <2>1, <3>1, <3>3 DEF Attachable, Alive, HasSubprocess, Running
    <3> QED BY <3>1, <3>4
  <2> QED BY <2>2, <2>3
<1>10. CASE UNCHANGED vars
  BY <1>1, <1>10 DEF vars, hostVars, sessionVars, Running
<1> QED
  BY <1>2, <1>3, <1>4, <1>5, <1>6, <1>7, <1>8, <1>9, <1>10 DEF Next, Removing

\* An entry of listSessions changes as SessionDirectory allows.
LEMMA StatusStep ==
  ASSUME HostInv, FlightInv, [Next]_vars, NEW id \in Ids
  PROVE  Directory!May(Status[id], Status'[id])
<1>1. \/ sessions'[id] = None
      \/ /\ sessions'[id] = sessions[id] /\ sessions[id] # None
         /\ Attachable(sessions[id])' => Attachable(sessions[id])
      \/ /\ sessions[id] = None /\ sessions'[id] # None
         /\ Attachable(sessions[id])'
  BY EntryStep
<1>2. Status[id] = IF sessions[id] = None THEN "absent"
                   ELSE IF Attachable(sessions[id]) THEN "attachable" ELSE "dying"
  BY DEF Status
<1>3. Status'[id] = IF sessions'[id] = None THEN "absent"
                    ELSE IF Attachable(sessions[id])' THEN "attachable" ELSE "dying"
  BY DEF Status
<1>4. CASE sessions'[id] = None
  BY <1>2, <1>3, <1>4 DEF Directory!May
<1>5. CASE /\ sessions'[id] = sessions[id] /\ sessions[id] # None
           /\ Attachable(sessions[id])' => Attachable(sessions[id])
  <2>1. CASE Attachable(sessions[id])'
    <3>1. Status'[id] = "attachable"
      BY <1>3, <1>5, <2>1
    <3>2. Status[id] = "attachable"
      BY <1>2, <1>5, <2>1
    <3> QED BY <3>1, <3>2 DEF Directory!May
  <2>2. CASE ~Attachable(sessions[id])'
    <3>1. Status'[id] = "dying"
      BY <1>3, <1>5, <2>2
    <3>2. Status[id] \in {"attachable", "dying"}
      BY <1>2, <1>5
    <3> QED BY <3>1, <3>2 DEF Directory!May
  <2> QED BY <2>1, <2>2
<1>6. CASE sessions[id] = None /\ sessions'[id] # None /\ Attachable(sessions[id])'
  <2>1. Status'[id] = "attachable"
    BY <1>3, <1>6
  <2>2. Status[id] = "absent"
    BY <1>2, <1>6
  <2> QED BY <2>1, <2>2 DEF Directory!May
<1> QED BY <1>1, <1>4, <1>5, <1>6

\* listSessions: what a client sees of an id is a SessionDirectory.  A session that
\* killByWorkspaceId, which polls it, has seen dying never counts as alive again.
THEOREM ListIsDirectory == SingleFlight => (Spec => ImplementsDirectory)
<1>1. SUFFICES ASSUME SingleFlight PROVE Spec => ImplementsDirectory
  OBVIOUS
<1>2. Init => Directory!Init
  BY DEF Init, Directory!Init, Status
<1>3. HostInv /\ FlightInv /\ [Next]_vars => [Directory!Next]_Status
  <2> SUFFICES ASSUME HostInv, FlightInv, [Next]_vars PROVE Directory!Next
    OBVIOUS
  <2>1. Status' \in [Ids -> Directory!State]
    BY DEF Status, Directory!State
  <2>2. \A id \in Ids : Directory!May(Status[id], Status'[id])
    BY StatusStep
  <2> QED BY <2>1, <2>2 DEF Directory!Next
<1>4. Spec => []FlightInv
  BY <1>1, FlightInvariant
<1> QED BY <1>2, <1>3, <1>4, HostInvariant, PTL DEF Spec, ImplementsDirectory, Directory!Spec

=============================================================================
