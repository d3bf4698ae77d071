------------------------- MODULE TerminalHostProofs -------------------------
(***************************************************************************)
(* Proofs about TerminalHost for any set of ids, sessions, calls, clients  *)
(* and sockets and any number of spawn permits, with nothing assumed of    *)
(* the surroundings.                                                       *)
(***************************************************************************)
EXTENDS TerminalHost, FiniteSetTheorems, TLAPS

-----------------------------------------------------------------------------
(***************************************************************************)
(* Types and the spawn limiter.  The types alone are not inductive:        *)
(* Semaphore.release resumes whichever call heads the queue, so the queue  *)
(* must be known to hold waiting calls, each once, with their fields set.  *)
(***************************************************************************)

\* A call in progress knows its id, its socket and its session.
CallsFilled ==
  \A c \in Calls : call[c].pc # "idle" =>
    call[c].id \in Ids /\ call[c].sock \in Socks /\ call[c].h \in Handles

LimiterInv ==
  /\ TypeOK
  /\ CallsFilled
  /\ QueueConsistent
  /\ inUse <= MaxSpawns

\* The actions that end a spawn change one call c, not a waiting one, to an
\* idle or a flushing one, and then release its permit.
LEMMA ReleaseKeeps ==
  ASSUME LimiterInv, NEW c \in Calls, call[c].pc # "queued",
         NEW rec \in {NoCall, [call[c] EXCEPT !.pc = "flushing"]},
         rec # NoCall => call[c].pc # "idle",
         Release([call EXCEPT ![c] = rec])
  PROVE  /\ inUse' \in Nat /\ queue' \in Seq(Calls) /\ call' \in [Calls -> CallRec]
         /\ CallsFilled'
         /\ QueueConsistent'
         /\ inUse' <= MaxSpawns
<1> USE MaxSpawnsAssumption DEF LimiterInv
<1> DEFINE after == [call EXCEPT ![c] = rec]
<1>1. rec \in CallRec /\ rec.pc # "queued"
      /\ (rec.pc # "idle" => rec.id \in Ids /\ rec.sock \in Socks /\ rec.h \in Handles)
  <2>1. call[c] \in CallRec
    BY DEF TypeOK
  <2>2. CASE rec = NoCall
    BY <2>2 DEF NoCall, CallRec, Stage
  <2>3. CASE rec = [call[c] EXCEPT !.pc = "flushing"] /\ rec # NoCall
    <3>1. rec \in CallRec /\ rec.pc = "flushing" /\ rec.id = call[c].id
          /\ rec.sock = call[c].sock /\ rec.h = call[c].h
      BY <2>1, <2>3 DEF CallRec, Stage
    <3>2. call[c].pc # "idle"
      BY <2>3
    <3> QED BY <3>1, <3>2 DEF CallsFilled
  <2> QED BY <2>2, <2>3
<1>2. after \in [Calls -> CallRec]
  BY <1>1 DEF TypeOK
<1>3. \A d \in Calls : after[d].pc # "idle" =>
        after[d].id \in Ids /\ after[d].sock \in Socks /\ after[d].h \in Handles
  BY <1>1 DEF TypeOK, CallsFilled
<1>4. \A d \in Calls : after[d].pc = "queued" <=> call[d].pc = "queued"
  BY <1>1 DEF TypeOK
<1>5. CASE queue = << >>
  <2>1. call' = after /\ queue' = << >>
        /\ inUse' = IF inUse > 0 THEN inUse - 1 ELSE 0
    BY <1>5 DEF Release
  <2>2. inUse' \in Nat /\ inUse' <= MaxSpawns
    BY <2>1 DEF TypeOK
  <2>3. QueueConsistent'
    BY <1>4, <1>5, <2>1 DEF QueueConsistent
  <2> QED BY <1>2, <1>3, <2>1, <2>2, <2>3 DEF CallsFilled
<1>6. CASE queue # << >>
  <2> DEFINE next == Head(queue)
  <2>1. /\ queue' = Tail(queue)
        /\ call' = [after EXCEPT ![next].pc = "granted"]
        /\ inUse' = (IF inUse > 0 THEN inUse - 1 ELSE 0) + 1
    BY <1>6 DEF Release
  <2>2. inUse' = MaxSpawns
    BY <1>6, <2>1 DEF QueueConsistent, TypeOK
  <2>3. next \in Calls /\ Tail(queue) \in Seq(Calls)
    BY <1>6 DEF TypeOK
  <2>4. /\ Len(queue) \in Nat /\ Len(queue) > 0 /\ next = queue[1]
        /\ Len(Tail(queue)) = Len(queue) - 1
        /\ \A i \in 1..Len(Tail(queue)) : Tail(queue)[i] = queue[i + 1]
    BY <1>6 DEF TypeOK
  <2>5. call[next].pc = "queued" /\ after[next] = call[next]
    <3>1. 1 \in 1..Len(queue) /\ queue[1] = next
      BY <2>4
    <3>2. call[next].pc = "queued"
      BY <2>3, <3>1 DEF QueueConsistent
    <3> QED BY <2>3, <3>2 DEF TypeOK
  <2>6. call' \in [Calls -> CallRec]
    <3>1. [after[next] EXCEPT !.pc = "granted"] \in CallRec
      BY <1>2, <2>3 DEF CallRec, Stage
    <3> QED BY <1>2, <2>1, <2>3, <3>1
  <2>7. \A d \in Calls : /\ call'[d].id = after[d].id
                         /\ call'[d].sock = after[d].sock
                         /\ call'[d].h = after[d].h
                         /\ call'[d].pc = IF d = next THEN "granted" ELSE after[d].pc
    BY <1>2, <2>1, <2>3 DEF CallRec
  <2>8. CallsFilled'
    BY <1>3, <2>5, <2>7 DEF CallsFilled
  <2>10. \A i, j \in 1..Len(queue) : queue[i] = queue[j] => i = j
    BY DEF QueueConsistent
  <2>9. QueueConsistent'
    <3>1. \A i, j \in 1..Len(queue') : queue'[i] = queue'[j] => i = j
      <4>1. ASSUME NEW i \in 1..Len(queue'), NEW j \in 1..Len(queue'),
                   queue'[i] = queue'[j]
            PROVE  i = j
        <5>1. i + 1 \in 1..Len(queue) /\ j + 1 \in 1..Len(queue)
          BY <2>1, <2>4
        <5>2. queue[i + 1] = queue[j + 1]
          BY <2>1, <2>4, <4>1
        <5>3. i + 1 = j + 1
          BY <2>10, <5>1, <5>2
        <5> QED BY <2>1, <2>4, <5>3
      <4> QED BY <4>1
    <3>2. ASSUME NEW d \in Calls
          PROVE  call'[d].pc = "queued" <=> \E i \in 1..Len(queue') : queue'[i] = d
      <4>1. call'[d].pc = "queued" <=> call[d].pc = "queued" /\ d # next
        BY <1>4, <2>7
      <4>2. call[d].pc = "queued" <=> \E i \in 1..Len(queue) : queue[i] = d
        BY DEF QueueConsistent
      <4>3. ASSUME NEW i \in 1..Len(queue), queue[i] = d, d # next
            PROVE  i - 1 \in 1..Len(queue') /\ queue'[i - 1] = d
        BY <2>1, <2>4, <4>3
      <4>4. ASSUME NEW i \in 1..Len(queue'), queue'[i] = d
            PROVE  i + 1 \in 1..Len(queue) /\ queue[i + 1] = d /\ d # next
        <5>1. i + 1 \in 1..Len(queue) /\ 1 \in 1..Len(queue) /\ i + 1 # 1
          BY <2>1, <2>4
        <5>2. queue[i + 1] = d
          BY <2>1, <2>4, <4>4
        <5> QED BY <2>4, <2>10, <5>1, <5>2
      <4> QED BY <4>1, <4>2, <4>3, <4>4
    <3> QED BY <2>2, <3>1, <3>2 DEF QueueConsistent
  <2> QED BY <2>1, <2>2, <2>3, <2>6, <2>8, <2>9
<1> QED BY <1>5, <1>6

\* A step that leaves the limiter alone and queues or resumes nobody.
LEMMA LimiterFrame ==
  ASSUME LimiterInv, UNCHANGED limiterVars, TypeOK', CallsFilled',
         \A c \in Calls : call'[c].pc = "queued" <=> call[c].pc = "queued"
  PROVE  LimiterInv'
BY DEF LimiterInv, limiterVars, QueueConsistent

\* Removing sessions from the map keeps it well typed.
LEMMA DiscardType ==
  ASSUME TypeOK, NEW D \in SUBSET Handles, Discard(D)
  PROVE  /\ sessions' \in [Ids -> Handles \cup {None}]
         /\ disposed' \subseteq Handles
         /\ clients' \in [Handles -> SUBSET Socks]
BY DEF Discard, TypeOK

LEMMA DetachType ==
  ASSUME TypeOK, NEW s, DetachFromAll(s)
  PROVE  /\ sessions' \in [Ids -> Handles \cup {None}]
         /\ disposed' \subseteq Handles
         /\ clients' \in [Handles -> SUBSET Socks]
<1>1. LeftDead(s) \subseteq Handles
  BY DEF LeftDead, Registered, TypeOK
<1> QED BY <1>1 DEF DetachFromAll, TypeOK

\* An exit callback keeps the timers well typed, whatever id it is called with.
LEMMA ExitType ==
  ASSUME TypeOK, NEW id, HandleSessionExit(id)
  PROVE  killTimers' \subseteq Ids /\ cleanups' \in [Ids -> Nat]
<1>1. killTimers' \subseteq Ids /\ cleanups' = [cleanups EXCEPT ![id] = @ + 1]
  BY DEF HandleSessionExit, TypeOK
<1>2. \A x \in Ids : cleanups[x] \in Nat /\ cleanups[x] + 1 \in Nat
  BY DEF TypeOK
<1>3. DOMAIN cleanups = Ids
  BY DEF TypeOK
<1>4. cleanups' = [x \in Ids |-> IF x = id THEN cleanups[x] + 1 ELSE cleanups[x]]
  BY <1>1, <1>3, Zenon
<1> QED BY <1>1, <1>2, <1>4

LEMMA LimiterInvInit == Init => LimiterInv
<1> SUFFICES ASSUME Init PROVE LimiterInv
  OBVIOUS
<1>1. TypeOK
  BY DEF Init, TypeOK, NoCall, CallRec, Stage, Phase, SockState
<1>2. CallsFilled
  BY DEF Init, CallsFilled, NoCall
<1>3. queue = << >> /\ inUse = 0 /\ \A c \in Calls : call[c].pc # "queued"
  BY DEF Init, NoCall
<1> QED BY <1>1, <1>2, <1>3, MaxSpawnsAssumption DEF LimiterInv, QueueConsistent

\* createOrAttach on an attachable session.
LEMMA LimiterAttachExisting ==
  ASSUME LimiterInv, NEW c \in Calls, NEW k \in Clients, NEW id \in Ids,
         AttachExisting(c, k, id)
  PROVE  LimiterInv'
<1> USE DEF LimiterInv
<1> DEFINE rec == [pc |-> "flushing", id |-> id, sock |-> stream[k],
                   h |-> sessions[id]]
<1>1. stream[k] \in Socks /\ sessions[id] \in Handles
  BY DEF AttachExisting, TypeOK
<1>2. call' = [call EXCEPT ![c] = rec] /\ rec \in CallRec /\ call[c].pc = "idle"
  BY <1>1 DEF AttachExisting, CallRec, Stage
<1>3. call' \in [Calls -> CallRec]
  BY <1>2 DEF TypeOK
<1>4. clients' \in [Handles -> SUBSET Socks]
  BY <1>1 DEF AttachExisting, Attach, TypeOK
<1>5. TypeOK'
  BY <1>3, <1>4 DEF AttachExisting, hostVars, limiterVars, socketVars, TypeOK
<1>6. CallsFilled'
  BY <1>1, <1>2 DEF CallsFilled, TypeOK
<1>7. \A d \in Calls : call'[d].pc = "queued" <=> call[d].pc = "queued"
  BY <1>2 DEF TypeOK
<1> QED BY <1>5, <1>6, <1>7, LimiterFrame DEF AttachExisting

\* createOrAttach that needs a spawn: granted at once, or queued at the end.
LEMMA LimiterRequestSpawn ==
  ASSUME LimiterInv, NEW c \in Calls, NEW k \in Clients, NEW id \in Ids,
         NEW h \in Handles, RequestSpawn(c, k, id, h)
  PROVE  LimiterInv'
<1> USE MaxSpawnsAssumption DEF LimiterInv
<1> DEFINE free == inUse < MaxSpawns
           rec == [pc |-> IF free THEN "granted" ELSE "queued",
                   id |-> id, sock |-> stream[k], h |-> h]
<1>1. stream[k] \in Socks
  BY DEF RequestSpawn, TypeOK
<1>2. call' = [call EXCEPT ![c] = rec] /\ rec \in CallRec /\ call[c].pc = "idle"
  BY <1>1 DEF RequestSpawn, CallRec, Stage
<1>3. call' \in [Calls -> CallRec]
  BY <1>2 DEF TypeOK
<1>4. /\ inUse' = IF free THEN inUse + 1 ELSE inUse
      /\ queue' = IF free THEN queue ELSE Append(queue, c)
  BY DEF RequestSpawn
<1>5. inUse' \in Nat /\ inUse' <= MaxSpawns /\ queue' \in Seq(Calls)
  BY <1>4 DEF TypeOK
<1>6. /\ sessions' \in [Ids -> Handles \cup {None}] /\ killTimers' \subseteq Ids
      /\ disposed' \subseteq Handles /\ clients' \in [Handles -> SUBSET Socks]
  BY DEF RequestSpawn, DropUnusable, TypeOK
<1>7. sid' \in [Handles -> Ids \cup {None}]
  BY DEF RequestSpawn, TypeOK
<1>8. TypeOK'
  BY <1>3, <1>5, <1>6, <1>7 DEF RequestSpawn, socketVars, TypeOK
<1>9. CallsFilled'
  BY <1>1, <1>2 DEF CallsFilled, TypeOK
<1>10. QueueConsistent'
  <2>1. \A d \in Calls : call'[d].pc = "queued" <=>
          call[d].pc = "queued" \/ (d = c /\ ~free)
    BY <1>2 DEF TypeOK
  <2>2. CASE free
    BY <1>4, <2>1, <2>2 DEF QueueConsistent, TypeOK
  <2>3. CASE ~free
    <3>1. inUse' = MaxSpawns
      BY <1>4, <2>3 DEF TypeOK
    <3>2. /\ Len(queue) \in Nat /\ Len(queue') = Len(queue) + 1
          /\ queue'[Len(queue) + 1] = c
          /\ \A i \in 1..Len(queue) : queue'[i] = queue[i]
      BY <1>4, <2>3 DEF TypeOK
    <3>3. \A i \in 1..Len(queue) : queue[i] # c
      BY <1>2 DEF QueueConsistent
    <3>4. \A i \in 1..Len(queue') : i \in 1..Len(queue) \/ i = Len(queue) + 1
      BY <3>2
    <3>5. \A i, j \in 1..Len(queue') : queue'[i] = queue'[j] => i = j
      BY <3>2, <3>3, <3>4 DEF QueueConsistent
    <3>6. ASSUME NEW d \in Calls
          PROVE  (\E i \in 1..Len(queue') : queue'[i] = d) <=>
                   (d = c \/ \E i \in 1..Len(queue) : queue[i] = d)
      BY <3>2, <3>4
    <3> QED BY <2>1, <2>3, <3>1, <3>5, <3>6 DEF QueueConsistent
  <2> QED BY <2>2, <2>3
<1> QED BY <1>5, <1>8, <1>9, <1>10

\* The steps of a call that was granted a permit.
LEMMA LimiterSpawnSteps ==
  ASSUME LimiterInv, NEW c \in Calls,
         \/ SpawnChild(c) \/ SpawnThrows(c) \/ RegisterSpawned(c)
         \/ SpawnFailed(c) \/ Respond(c)
  PROVE  LimiterInv'
<1> USE DEF LimiterInv, hostVars, limiterVars, sessionVars, socketVars
<1>1. CASE SpawnChild(c)
  <2>1. call[c].h \in Handles
    BY <1>1 DEF SpawnChild, CallsFilled
  <2>2. call' \in [Calls -> CallRec] /\ proc' \in [Handles -> Phase]
    BY <1>1, <2>1 DEF SpawnChild, TypeOK, CallRec, Stage, Phase
  <2>3. TypeOK'
    BY <1>1, <2>2 DEF SpawnChild, TypeOK
  <2>4. CallsFilled' /\ \A d \in Calls : call'[d].pc = "queued" <=> call[d].pc = "queued"
    BY <1>1 DEF SpawnChild, CallsFilled, TypeOK, CallRec
  <2> QED BY <1>1, <2>3, <2>4, LimiterFrame DEF SpawnChild
<1>2. CASE SpawnThrows(c)
  BY <1>2, ReleaseKeeps DEF SpawnThrows, TypeOK
<1>3. CASE RegisterSpawned(c)
  <2>1. call[c].h \in Handles /\ call[c].sock \in Socks
    BY <1>3 DEF RegisterSpawned, CallsFilled
  <2>2. [call EXCEPT ![c].pc = "flushing"]
          = [call EXCEPT ![c] = [call[c] EXCEPT !.pc = "flushing"]]
    BY DEF TypeOK
  <2>3. /\ inUse' \in Nat /\ queue' \in Seq(Calls) /\ call' \in [Calls -> CallRec]
        /\ CallsFilled' /\ QueueConsistent' /\ inUse' <= MaxSpawns
    BY <1>3, <2>2, ReleaseKeeps DEF RegisterSpawned
  <2>4. sessions' \in [Ids -> Handles \cup {None}] /\ clients' \in [Handles -> SUBSET Socks]
    BY <1>3, <2>1 DEF RegisterSpawned, Attach, TypeOK
  <2>5. TypeOK'
    BY <1>3, <2>3, <2>4 DEF RegisterSpawned, TypeOK
  <2> QED BY <2>3, <2>5
<1>4. CASE SpawnFailed(c)
  <2>1. call[c].h \in Handles
    BY <1>4 DEF SpawnFailed, CallsFilled
  <2>2. /\ inUse' \in Nat /\ queue' \in Seq(Calls) /\ call' \in [Calls -> CallRec]
        /\ CallsFilled' /\ QueueConsistent' /\ inUse' <= MaxSpawns
    BY <1>4, ReleaseKeeps DEF SpawnFailed
  <2>3. disposed' \subseteq Handles /\ clients' \in [Handles -> SUBSET Socks]
    BY <1>4, <2>1 DEF SpawnFailed, TypeOK
  <2>4. TypeOK'
    BY <1>4, <2>2, <2>3 DEF SpawnFailed, TypeOK
  <2> QED BY <2>2, <2>4
<1>5. CASE Respond(c)
  <2>1. call' = [call EXCEPT ![c] = NoCall] /\ NoCall \in CallRec
        /\ call[c].pc = "flushing"
    BY <1>5 DEF Respond, NoCall, CallRec, Stage
  <2>2. TypeOK'
    BY <1>5, <2>1 DEF Respond, TypeOK
  <2>3. CallsFilled' /\ \A d \in Calls : call'[d].pc = "queued" <=> call[d].pc = "queued"
    BY <2>1 DEF CallsFilled, TypeOK, NoCall
  <2> QED BY <1>5, <2>2, <2>3, LimiterFrame DEF Respond
<1> QED BY <1>1, <1>2, <1>3, <1>4, <1>5

LEMMA LimiterInvStep == LimiterInv /\ [Next]_vars => LimiterInv'
<1> SUFFICES ASSUME LimiterInv, [Next]_vars PROVE LimiterInv'
  OBVIOUS
<1> USE DEF LimiterInv, hostVars, limiterVars, sessionVars, socketVars
<1>1. ASSUME TypeOK', UNCHANGED <<call, inUse, queue>>
      PROVE  LimiterInv'
  BY <1>1 DEF CallsFilled, QueueConsistent
<1>2. ASSUME NEW h \in Handles, SpawnedFrame(h)
      PROVE  LimiterInv'
  BY <1>1, <1>2 DEF SpawnedFrame, TypeOK, Phase
<1>3. ASSUME NEW h \in Handles, ExitFrame(h)
      PROVE  LimiterInv'
  <2>1. killTimers' \subseteq Ids /\ cleanups' \in [Ids -> Nat]
    BY <1>3, ExitType DEF ExitFrame
  <2> QED BY <1>1, <1>3, <2>1 DEF ExitFrame, TypeOK
<1>4. ASSUME NEW h \in Handles, ChildExit(h)
      PROVE  LimiterInv'
  <2>1. killTimers' \subseteq Ids /\ cleanups' \in [Ids -> Nat]
    BY <1>4, ExitType DEF ChildExit, TypeOK
  <2> QED BY <1>1, <1>4, <2>1 DEF ChildExit, TypeOK, Phase
<1>5. ASSUME NEW id \in Ids, Kill(id)
      PROVE  LimiterInv'
  BY <1>1, <1>5 DEF Kill, TypeOK
<1>6. CASE KillAll
  BY <1>1, <1>6 DEF KillAll, Registered, TypeOK
<1>7. ASSUME NEW id \in Ids, KillTimerFires(id)
      PROVE  LimiterInv'
  <2>1. {sessions[id]} \cap terminating \subseteq Handles
    BY DEF TypeOK
  <2> QED BY <1>1, <1>7, <2>1, DiscardType DEF KillTimerFires, TypeOK
<1>8. ASSUME NEW id \in Ids, CleanupFires(id)
      PROVE  LimiterInv'
  <2> DEFINE D == IF sessions[id] # None /\ ~Alive(sessions[id]) THEN {sessions[id]} ELSE {}
  <2>1. D \subseteq Handles /\ Discard(D)
    BY <1>8 DEF CleanupFires, TypeOK
  <2>2. cleanups' \in [Ids -> Nat]
    BY <1>8 DEF CleanupFires, TypeOK
  <2> QED BY <1>1, <1>8, <2>1, <2>2, DiscardType DEF CleanupFires, TypeOK
<1>9. ASSUME NEW k \in Clients, NEW id \in Ids, Detach(k, id)
      PROVE  LimiterInv'
  <2>1. CASE sessions[id] \in LeftDead(stream[k])
    BY <1>1, <1>9, <2>1, DiscardType DEF Detach, TypeOK
  <2>2. CASE sessions[id] \notin LeftDead(stream[k])
    BY <1>1, <1>9, <2>2 DEF Detach, TypeOK
  <2> QED BY <2>1, <2>2
<1>10. ASSUME NEW k \in Clients, NEW s \in Socks, Hello(k, s)
       PROVE  LimiterInv'
  BY <1>1, <1>10, DetachType DEF Hello, TypeOK, SockState
<1>11. ASSUME NEW s \in Socks, Disconnect(s)
       PROVE  LimiterInv'
  BY <1>1, <1>11, DetachType DEF Disconnect, TypeOK, SockState
<1>12. CASE HostDispose
  <2>1. Registered \subseteq Handles
    BY DEF Registered, TypeOK
  <2> QED BY <1>1, <1>12, <2>1, DiscardType DEF HostDispose, TypeOK
<1>13. CASE UNCHANGED vars
  BY <1>1, <1>13 DEF vars, TypeOK
<1> QED
  BY <1>2, <1>3, <1>4, <1>5, <1>6, <1>7, <1>8, <1>9, <1>10, <1>11, <1>12, <1>13,
     LimiterAttachExisting, LimiterRequestSpawn, LimiterSpawnSteps DEF Next

LEMMA LimiterInvariant == Spec => []LimiterInv
BY LimiterInvInit, LimiterInvStep, PTL DEF Spec

\* Every variable of the daemon keeps its type; no call, timer or callback runs
\* on an id or a session that does not exist.
THEOREM TypeCorrect == Spec => []TypeOK
BY LimiterInvariant, PTL DEF LimiterInv

\* Semaphore: calls wait only while all permits are in use, each once, and the
\* queue holds exactly the waiting calls: no wake-up is lost.
THEOREM LimiterQueue == Spec => []QueueConsistent
BY LimiterInvariant, PTL DEF LimiterInv

-----------------------------------------------------------------------------
(* Spawn permits *)

LEMMA SpawningFinite == IsFiniteSet(Spawning)
BY FiniteAssumption, FS_Subset DEF Spawning

\* A call that holds a permit gives it up: to the head of the queue or to nobody.
LEMMA PermitsRelease ==
  ASSUME LimiterInv, PermitsAccounted, NEW c \in Spawning,
         NEW rec \in {NoCall, [call[c] EXCEPT !.pc = "flushing"]},
         Release([call EXCEPT ![c] = rec])
  PROVE  PermitsAccounted'
<1> USE DEF LimiterInv
<1> DEFINE after == [call EXCEPT ![c] = rec]
<1>1. c \in Calls /\ call[c] \in CallRec /\ call[c].pc # "queued"
  BY DEF Spawning, TypeOK
<1>2. rec.pc \in {"idle", "flushing"}
  BY <1>1 DEF NoCall, CallRec
<1>3. Cardinality(Spawning \ {c}) = Cardinality(Spawning) - 1
      /\ IsFiniteSet(Spawning \ {c}) /\ Cardinality(Spawning) \in Nat
  BY SpawningFinite, FS_RemoveElement, FS_CardinalityType
<1>4. Cardinality(Spawning \ {c}) \in Nat
  BY <1>3, FS_CardinalityType
<1>5. inUse > 0 /\ inUse = Cardinality(Spawning)
  BY <1>3, <1>4 DEF PermitsAccounted
<1>6. CASE queue = << >>
  <2>1. call' = after /\ inUse' = inUse - 1
    BY <1>5, <1>6 DEF Release
  <2>2. Spawning' = Spawning \ {c}
    BY <1>1, <1>2, <2>1 DEF Spawning, TypeOK
  <2>3. inUse' <= MaxSpawns
    BY <1>5, <2>1, MaxSpawnsAssumption DEF TypeOK
  <2> QED BY <1>3, <1>5, <2>1, <2>2, <2>3 DEF PermitsAccounted
<1>7. CASE queue # << >>
  <2> DEFINE next == Head(queue)
  <2>1. call' = [after EXCEPT ![next].pc = "granted"] /\ inUse' = inUse - 1 + 1
    BY <1>5, <1>7 DEF Release
  <2>2. next \in Calls /\ call[next].pc = "queued"
    <3>1. next \in Calls /\ 1 \in 1..Len(queue) /\ queue[1] = next
      BY <1>7 DEF TypeOK
    <3> QED BY <3>1 DEF QueueConsistent
  <2>3. next \notin Spawning \ {c}
    BY <2>2 DEF Spawning
  <2>4. \A d \in Calls : after[d] = IF d = c THEN rec ELSE call[d]
    BY <1>1 DEF TypeOK
  <2>5. \A d \in Calls :
          call'[d].pc = IF d = next THEN "granted" ELSE after[d].pc
    <3>1. after[next] = call[next] /\ call[next] \in CallRec
      BY <1>1, <2>2, <2>4 DEF TypeOK
    <3>2. call' = [d \in Calls |-> IF d = next THEN [after[next] EXCEPT !.pc = "granted"]
                                   ELSE after[d]]
      BY <2>1, <2>2 DEF TypeOK
    <3> QED BY <3>1, <3>2 DEF CallRec
  <2>6. Spawning' = (Spawning \ {c}) \cup {next}
    BY <1>1, <1>2, <2>2, <2>4, <2>5 DEF Spawning
  <2>7. Cardinality(Spawning') = Cardinality(Spawning)
    <3>1. Cardinality((Spawning \ {c}) \cup {next}) = Cardinality(Spawning \ {c}) + 1
      BY <1>3, <2>3, FS_AddElement
    <3> QED BY <1>3, <2>6, <3>1
  <2> QED BY <1>5, <2>1, <2>7 DEF PermitsAccounted, TypeOK
<1> QED BY <1>6, <1>7

LEMMA PermitsStep ==
  ASSUME LimiterInv, PermitsAccounted, [Next]_vars
  PROVE  PermitsAccounted'
<1> USE DEF LimiterInv, hostVars, limiterVars, sessionVars, socketVars
<1>1. ASSUME inUse' = inUse,
             \A c \in Calls : call'[c].pc \in {"granted", "spawning"}
                                <=> call[c].pc \in {"granted", "spawning"}
      PROVE  PermitsAccounted'
  <2>1. Spawning' = Spawning
    BY <1>1 DEF Spawning
  <2> QED BY <1>1, <2>1 DEF PermitsAccounted
<1>2. ASSUME NEW c \in Calls, NEW k \in Clients, NEW id \in Ids,
             AttachExisting(c, k, id)
      PROVE  PermitsAccounted'
  BY <1>1, <1>2 DEF AttachExisting, TypeOK
<1>3. ASSUME NEW c \in Calls, NEW k \in Clients, NEW id \in Ids,
             NEW h \in Handles, RequestSpawn(c, k, id, h)
      PROVE  PermitsAccounted'
  <2>1. call[c].pc = "idle"
    BY <1>3 DEF RequestSpawn
  <2>2. CASE inUse < MaxSpawns
    <3>1. inUse' = inUse + 1 /\ \A d \in Calls :
            call'[d].pc = IF d = c THEN "granted" ELSE call[d].pc
      BY <1>3, <2>2 DEF RequestSpawn, TypeOK
    <3>2. Spawning' = Spawning \cup {c} /\ c \notin Spawning
      BY <2>1, <3>1 DEF Spawning
    <3>3. Cardinality(Spawning') = Cardinality(Spawning) + 1
      BY <3>2, SpawningFinite, FS_AddElement
    <3>4. inUse + 1 <= MaxSpawns
      BY <2>2, MaxSpawnsAssumption DEF TypeOK
    <3> QED BY <3>1, <3>3, <3>4 DEF PermitsAccounted
  <2>3. CASE ~(inUse < MaxSpawns)
    <3>1. inUse' = inUse /\ \A d \in Calls :
            call'[d].pc = IF d = c THEN "queued" ELSE call[d].pc
      BY <1>3, <2>3 DEF RequestSpawn, TypeOK
    <3> QED BY <1>1, <2>1, <3>1
  <2> QED BY <2>2, <2>3
<1>4. ASSUME NEW c \in Calls, SpawnChild(c)
      PROVE  PermitsAccounted'
  <2>1. \A d \in Calls : call'[d].pc = IF d = c THEN "spawning" ELSE call[d].pc
    BY <1>4 DEF SpawnChild, TypeOK, CallRec
  <2> QED BY <1>1, <1>4, <2>1 DEF SpawnChild
<1>5. ASSUME NEW c \in Calls, SpawnThrows(c)
      PROVE  PermitsAccounted'
  BY <1>5, PermitsRelease DEF SpawnThrows, Spawning
<1>6. ASSUME NEW c \in Calls, RegisterSpawned(c)
      PROVE  PermitsAccounted'
  <2>1. [call EXCEPT ![c].pc = "flushing"]
          = [call EXCEPT ![c] = [call[c] EXCEPT !.pc = "flushing"]]
    BY DEF TypeOK
  <2> QED BY <1>6, <2>1, PermitsRelease DEF RegisterSpawned, Spawning
<1>7. ASSUME NEW c \in Calls, SpawnFailed(c)
      PROVE  PermitsAccounted'
  BY <1>7, PermitsRelease DEF SpawnFailed, Spawning
<1>8. ASSUME NEW c \in Calls, Respond(c)
      PROVE  PermitsAccounted'
  BY <1>1, <1>8 DEF Respond, NoCall, TypeOK
<1>9. ASSUME UNCHANGED <<call, inUse>>
      PROVE  PermitsAccounted'
  BY <1>1, <1>9
<1> QED
  BY <1>2, <1>3, <1>4, <1>5, <1>6, <1>7, <1>8, <1>9
     DEF Next, vars, SpawnedFrame, ExitFrame, ChildExit, Kill, KillAll,
         KillTimerFires, CleanupFires, Detach, Hello, Disconnect, HostDispose

\* Semaphore: every permit in use is held by exactly one call that is spawning,
\* whichever way a spawn ends, and no more than MAX_CONCURRENT_SPAWNS are out.
THEOREM PermitsNeverLeak == Spec => []PermitsAccounted
<1>1. Init => PermitsAccounted
  <2> SUFFICES ASSUME Init PROVE PermitsAccounted
    OBVIOUS
  <2>1. Spawning = {} /\ inUse = 0
    BY DEF Init, Spawning, NoCall
  <2> QED BY <2>1, FS_EmptySet, MaxSpawnsAssumption DEF PermitsAccounted
<1> QED BY <1>1, PermitsStep, LimiterInvariant, PTL DEF Spec

-----------------------------------------------------------------------------
(***************************************************************************)
(* The registry.  That no entry is stale cannot be shown of the map alone: *)
(* what a spawning call will register must not be disposed meanwhile, so   *)
(* sessions not yet registered are held by one call and are in nobody's    *)
(* reach.                                                                  *)
(***************************************************************************)

Held(c) == call[c].pc \in {"queued", "granted", "spawning"}

\* The session a call is about to create or register is its own.
HeldSound ==
  \A c \in Calls : Held(c) =>
    /\ sid[call[c].h] = call[c].id
    /\ call[c].h \notin disposed
    /\ call[c].pc = "spawning" => proc[call[c].h] # "none"
    /\ \A id \in Ids : sessions[id] # call[c].h
    /\ \A d \in Calls : Held(d) /\ call[d].h = call[c].h => d = c

\* A session that was never constructed has never been disposed.
FreshSound == \A h \in disposed : sid[h] # None

RegistryInv == RegistrySound /\ HeldSound /\ FreshSound

\* What Release changes of the calls: nobody starts to hold a session.
LEMMA ReleaseHeld ==
  ASSUME LimiterInv, NEW c \in Calls, call[c].pc \in {"granted", "spawning"},
         NEW rec \in {NoCall, [call[c] EXCEPT !.pc = "flushing"]},
         Release([call EXCEPT ![c] = rec])
  PROVE  /\ call'[c].pc \in {"idle", "flushing"}
         /\ \A d \in Calls \ {c} :
              /\ call'[d].h = call[d].h /\ call'[d].id = call[d].id
              /\ call'[d].pc = call[d].pc
                 \/ (call[d].pc = "queued" /\ call'[d].pc = "granted")
<1> USE DEF LimiterInv
<1> DEFINE after == [call EXCEPT ![c] = rec]
<1>1. call[c] \in CallRec /\ rec.pc \in {"idle", "flushing"}
  BY DEF TypeOK, CallRec, NoCall
<1>2. \A d \in Calls : after[d] = IF d = c THEN rec ELSE call[d]
  BY DEF TypeOK
<1>3. CASE queue = << >>
  <2>1. call' = after
    BY <1>3 DEF Release
  <2>2. call'[c] = rec /\ \A d \in Calls \ {c} : call'[d] = call[d]
    BY <1>2, <2>1
  <2>3. call'[c].pc \in {"idle", "flushing"}
    BY <1>1, <2>2
  <2>4. \A d \in Calls \ {c} : /\ call'[d].h = call[d].h /\ call'[d].id = call[d].id
                               /\ call'[d].pc = call[d].pc
    BY <2>2
  <2> QED BY <2>3, <2>4
<1>4. CASE queue # << >>
  <2> DEFINE next == Head(queue)
  <2>1. next \in Calls /\ call[next].pc = "queued"
    <3>1. next \in Calls /\ 1 \in 1..Len(queue) /\ queue[1] = next
      BY <1>4 DEF TypeOK
    <3> QED BY <3>1 DEF QueueConsistent
  <2>2. call' = [after EXCEPT ![next].pc = "granted"]
    BY <1>4 DEF Release
  <2>3. call'[c] = rec /\ \A d \in Calls \ {c, next} : call'[d] = call[d]
    BY <1>2, <2>1, <2>2 DEF TypeOK
  <2>4. call'[next] = [call[next] EXCEPT !.pc = "granted"]
    BY <1>2, <2>1, <2>2 DEF TypeOK
  <2>5. /\ call'[next].h = call[next].h /\ call'[next].id = call[next].id
        /\ call'[next].pc = "granted"
    BY <2>1, <2>4 DEF TypeOK, CallRec
  <2>6. call'[c].pc \in {"idle", "flushing"}
    BY <1>1, <2>3
  <2>7. \A d \in Calls \ {c, next} :
          call'[d].h = call[d].h /\ call'[d].id = call[d].id /\ call'[d].pc = call[d].pc
    BY <2>3
  <2> QED BY <2>1, <2>5, <2>6, <2>7
<1> QED BY <1>3, <1>4

\* Steps that only remove entries from the map and dispose what they removed.
LEMMA RegistryDiscard ==
  ASSUME LimiterInv, RegistryInv, NEW D \in SUBSET Registered,
         disposed' = disposed \cup D,
         sessions' = [id \in Ids |-> IF sessions[id] \in D THEN None ELSE sessions[id]],
         UNCHANGED <<sid, proc, call>>
  PROVE  RegistryInv'
<1> USE DEF LimiterInv, RegistryInv
<1>1. \A id \in Ids : sessions'[id] # None =>
        sessions'[id] = sessions[id] /\ sessions[id] \notin D
  OBVIOUS
<1>2. RegistrySound'
  BY <1>1 DEF RegistrySound
<1>3. \A h \in D : h \in Handles /\ \E id \in Ids : sessions[id] = h /\ h # None
  BY DEF Registered, TypeOK
<1>4. HeldSound'
  <2>1. \A c \in Calls : Held(c)' <=> Held(c)
    BY DEF Held
  <2>2. \A c \in Calls : Held(c) => call[c].h # None /\ call[c].h \notin D
    BY <1>3, NoneAssumption DEF HeldSound, CallsFilled, Held
  <2> QED BY <1>1, <2>1, <2>2 DEF HeldSound
<1>5. FreshSound'
  BY <1>3, NoneAssumption DEF FreshSound, RegistrySound
<1> QED BY <1>2, <1>4, <1>5

\* Steps that keep the map, the disposed sessions and the sessions' ids; a
\* child process may start or go on.
LEMMA RegistryFrame ==
  ASSUME LimiterInv, RegistryInv, UNCHANGED <<sessions, disposed, sid>>,
         \A h \in Handles : proc[h] # "none" => proc'[h] # "none",
         \A c \in Calls : Held(c)' =>
           /\ Held(c) /\ call'[c].h = call[c].h /\ call'[c].id = call[c].id
           /\ call'[c].pc = "spawning" => proc'[call[c].h] # "none"
  PROVE  RegistryInv'
<1> USE DEF LimiterInv, RegistryInv
<1>1. RegistrySound'
  BY DEF RegistrySound, TypeOK
<1>2. HeldSound'
  BY DEF HeldSound
<1> QED BY <1>1, <1>2 DEF FreshSound

LEMMA RegistryRequestSpawn ==
  ASSUME LimiterInv, RegistryInv, NEW c \in Calls, NEW k \in Clients,
         NEW id \in Ids, NEW h \in Handles, RequestSpawn(c, k, id, h)
  PROVE  RegistryInv'
<1> USE DEF LimiterInv, RegistryInv
<1> DEFINE old == sessions[id]
<1>1. /\ sid[h] = None
      /\ sid' = [sid EXCEPT ![h] = id]
      /\ sessions' = [sessions EXCEPT ![id] = None]
      /\ disposed' = disposed \cup ({old} \ {None})
      /\ proc' = proc
      /\ call[c].pc = "idle"
  BY DEF RequestSpawn, DropUnusable
<1>2. /\ \A d \in Calls \ {c} : call'[d] = call[d]
      /\ call'[c].id = id /\ call'[c].h = h /\ call'[c].pc \in {"granted", "queued"}
  BY DEF RequestSpawn, TypeOK
<1>3. id # None /\ h # None
  BY NoneAssumption
<1>4. /\ \A x \in Ids : sessions'[x] = IF x = id THEN None ELSE sessions[x]
      /\ \A x \in Handles : sid'[x] = IF x = h THEN id ELSE sid[x]
  BY <1>1 DEF TypeOK
<1>5. \A x \in Ids : sessions[x] # None =>
        sessions[x] \in Handles /\ sid[sessions[x]] = x /\ sessions[x] # h
  BY <1>1, NoneAssumption DEF RegistrySound, TypeOK
<1>6. \A x \in Ids : x # id /\ sessions[x] # None => sessions[x] # old
  BY <1>5
<1>7. RegistrySound'
  BY <1>1, <1>4, <1>5, <1>6 DEF RegistrySound
<1>8. \A d \in Calls : Held(d) => call[d].h \in Handles /\ call[d].h # h
                                  /\ call[d].id \in Ids
  BY <1>1, NoneAssumption DEF HeldSound, CallsFilled, Held
<1>9. h \notin disposed /\ h # old
  BY <1>1, <1>3, <1>5 DEF FreshSound
<1>10. HeldSound'
  <2>1. \A d \in Calls : Held(d)' <=> Held(d) \/ d = c
    BY <1>2 DEF Held
  <2>2. \A d \in Calls : Held(d) => d # c /\ call[d].h \notin disposed'
                                    /\ sid'[call[d].h] = call[d].id
    BY <1>1, <1>4, <1>8 DEF HeldSound, Held
  <2>3. \A d \in Calls : Held(d) => \A x \in Ids : sessions'[x] # call[d].h
    BY <1>3, <1>4, <1>8, NoneAssumption DEF HeldSound
  <2>4. \A x \in Ids : sessions'[x] # h
    BY <1>3, <1>4, <1>5
  <2>5. h \notin disposed' /\ sid'[h] = id
    BY <1>1, <1>4, <1>9
  <2> QED BY <1>1, <1>2, <1>8, <2>1, <2>2, <2>3, <2>4, <2>5 DEF HeldSound
<1>11. FreshSound'
  <2> SUFFICES ASSUME NEW x \in disposed' PROVE sid'[x] # None
    BY DEF FreshSound
  <2>1. x \in Handles
    BY <1>1, <1>5 DEF TypeOK
  <2>2. x \in disposed \/ (x = old /\ old # None)
    BY <1>1
  <2>3. sid[x] # None
    BY <1>3, <1>5, <2>2, NoneAssumption DEF FreshSound
  <2> QED BY <1>3, <1>4, <2>1, <2>3
<1> QED BY <1>7, <1>10, <1>11

LEMMA RegistryEndSpawn ==
  ASSUME LimiterInv, RegistryInv, NEW c \in Calls,
         SpawnThrows(c) \/ RegisterSpawned(c) \/ SpawnFailed(c)
  PROVE  RegistryInv'
<1> USE DEF LimiterInv, RegistryInv
<1> DEFINE h == call[c].h
<1>1. /\ call'[c].pc \in {"idle", "flushing"}
      /\ \A d \in Calls \ {c} :
           /\ call'[d].h = call[d].h /\ call'[d].id = call[d].id
           /\ call'[d].pc = call[d].pc
              \/ (call[d].pc = "queued" /\ call'[d].pc = "granted")
  <2>1. [call EXCEPT ![c].pc = "flushing"]
          = [call EXCEPT ![c] = [call[c] EXCEPT !.pc = "flushing"]]
    BY DEF TypeOK
  <2> QED BY <2>1, ReleaseHeld DEF SpawnThrows, RegisterSpawned, SpawnFailed
<1>2. Held(c) /\ h \in Handles /\ call[c].id \in Ids
  BY DEF SpawnThrows, RegisterSpawned, SpawnFailed, Held, CallsFilled
<1>3. \A d \in Calls : Held(d)' =>
        d # c /\ Held(d) /\ (call'[d].pc = "spawning" => call[d].pc = "spawning")
  BY <1>1 DEF Held
<1>4. sid' = sid /\ proc' = proc
  BY DEF SpawnThrows, RegisterSpawned, SpawnFailed, sessionVars
<1>5. CASE SpawnThrows(c)
  <2>1. UNCHANGED <<sessions, disposed>>
    BY <1>5 DEF SpawnThrows, hostVars, sessionVars
  <2> QED BY <1>1, <1>3, <1>4, <2>1, RegistryFrame DEF HeldSound
<1>6. CASE RegisterSpawned(c)
  <2>1. /\ sessions' = [sessions EXCEPT ![call[c].id] = h]
        /\ disposed' = disposed
        /\ call[c].pc = "spawning"
    BY <1>6 DEF RegisterSpawned
  <2>2. \A x \in Ids : sessions'[x] = IF x = call[c].id THEN h ELSE sessions[x]
    BY <1>2, <2>1 DEF TypeOK
  <2>3. RegistrySound'
    BY <1>2, <1>4, <2>1, <2>2 DEF RegistrySound, HeldSound
  <2>4. \A d \in Calls : Held(d)' => call[d].h # h
    BY <1>2, <1>3 DEF HeldSound
  <2>5. HeldSound'
    BY <1>1, <1>3, <1>4, <2>1, <2>2, <2>4 DEF HeldSound
  <2> QED BY <1>4, <2>1, <2>3, <2>5 DEF FreshSound
<1>7. CASE SpawnFailed(c)
  <2>1. sessions' = sessions /\ disposed' = disposed \cup {h}
    BY <1>7 DEF SpawnFailed, hostVars
  <2>2. RegistrySound'
    BY <1>2, <1>4, <2>1 DEF RegistrySound, HeldSound
  <2>3. \A d \in Calls : Held(d)' => call[d].h # h
    BY <1>2, <1>3 DEF HeldSound
  <2>4. HeldSound'
    BY <1>1, <1>3, <1>4, <2>1, <2>3 DEF HeldSound
  <2>5. FreshSound'
    BY <1>2, <1>4, <2>1, NoneAssumption DEF FreshSound, HeldSound
  <2> QED BY <2>2, <2>4, <2>5
<1> QED BY <1>5, <1>6, <1>7

LEMMA RegistryInvStep ==
  ASSUME LimiterInv, RegistryInv, [Next]_vars
  PROVE  RegistryInv'
<1> USE DEF LimiterInv, hostVars, limiterVars, sessionVars, socketVars
<1>1. ASSUME NEW c \in Calls, NEW k \in Clients, NEW id \in Ids,
             AttachExisting(c, k, id)
      PROVE  RegistryInv'
  <2>1. \A d \in Calls : Held(d)' => d # c /\ call'[d] = call[d] /\ Held(d)
    BY <1>1 DEF AttachExisting, Held, TypeOK
  <2>2. \A d \in Calls : Held(d) /\ call[d].pc = "spawning" => proc[call[d].h] # "none"
    BY DEF RegistryInv, HeldSound
  <2> QED BY <1>1, <2>1, <2>2, RegistryFrame DEF AttachExisting
<1>2. ASSUME NEW c \in Calls, SpawnChild(c)
      PROVE  RegistryInv'
  <2>1. call[c].h \in Handles /\ call[c] \in CallRec
    BY <1>2 DEF SpawnChild, CallsFilled, TypeOK
  <2>2. proc' = [proc EXCEPT ![call[c].h] = "starting"]
    BY <1>2 DEF SpawnChild
  <2>3. \A x \in Handles : proc[x] # "none" => proc'[x] # "none"
    BY <2>2 DEF TypeOK
  <2>4. \A d \in Calls \ {c} : call'[d] = call[d]
    BY <1>2 DEF SpawnChild, TypeOK
  <2>5. call'[c].h = call[c].h /\ call'[c].id = call[c].id /\ call[c].pc = "granted"
    BY <1>2, <2>1 DEF SpawnChild, TypeOK, CallRec
  <2>6. proc'[call[c].h] # "none"
    BY <2>1, <2>2 DEF TypeOK
  <2>7. \A d \in Calls : Held(d)' => Held(d)
    BY <2>4, <2>5 DEF Held
  <2>8. \A d \in Calls : Held(d) /\ call[d].pc = "spawning" =>
          call[d].h \in Handles /\ proc'[call[d].h] # "none"
    BY <2>3 DEF RegistryInv, HeldSound, CallsFilled
  <2> QED BY <1>2, <2>3, <2>4, <2>5, <2>6, <2>7, <2>8, RegistryFrame DEF SpawnChild
<1>3. ASSUME NEW c \in Calls, Respond(c)
      PROVE  RegistryInv'
  <2>1. \A d \in Calls : Held(d)' => d # c /\ call'[d] = call[d] /\ Held(d)
    BY <1>3 DEF Respond, Held, NoCall, TypeOK
  <2>2. \A d \in Calls : Held(d) /\ call[d].pc = "spawning" => proc[call[d].h] # "none"
    BY DEF RegistryInv, HeldSound
  <2> QED BY <1>3, <2>1, <2>2, RegistryFrame DEF Respond
<1>4. ASSUME UNCHANGED <<sessions, disposed, sid, call>>,
             \A h \in Handles : proc[h] # "none" => proc'[h] # "none"
      PROVE  RegistryInv'
  <2>1. \A d \in Calls : Held(d)' <=> Held(d)
    BY <1>4 DEF Held
  <2>2. \A d \in Calls : Held(d) /\ call[d].pc = "spawning" =>
          call[d].h \in Handles /\ proc'[call[d].h] # "none"
    BY <1>4 DEF RegistryInv, HeldSound, CallsFilled
  <2> QED BY <1>4, <2>1, <2>2, RegistryFrame
<1>5. ASSUME NEW h \in Handles, SpawnedFrame(h) \/ ExitFrame(h) \/ ChildExit(h)
      PROVE  RegistryInv'
  <2>1. \A x \in Handles : proc[x] # "none" => proc'[x] # "none"
    BY <1>5 DEF SpawnedFrame, ExitFrame, ChildExit, TypeOK
  <2>2. UNCHANGED <<sessions, disposed, sid, call>>
    BY <1>5 DEF SpawnedFrame, ExitFrame, ChildExit
  <2> QED BY <1>4, <2>1, <2>2
<1>6. ASSUME NEW D \in SUBSET Registered, Discard(D), UNCHANGED <<sid, proc, call>>
      PROVE  RegistryInv'
  BY <1>6, RegistryDiscard DEF Discard
<1>7. ASSUME NEW s, DetachFromAll(s), UNCHANGED <<sid, proc, call>>
      PROVE  RegistryInv'
  <2>1. LeftDead(s) \subseteq Registered
    BY DEF LeftDead
  <2> QED BY <1>7, <2>1, RegistryDiscard DEF DetachFromAll
<1>8. ASSUME NEW id \in Ids, KillTimerFires(id)
      PROVE  RegistryInv'
  <2>1. {sessions[id]} \cap terminating \subseteq Registered
    BY NoneAssumption DEF Registered, TypeOK
  <2> QED BY <1>6, <1>8, <2>1 DEF KillTimerFires
<1>9. ASSUME NEW id \in Ids, CleanupFires(id)
      PROVE  RegistryInv'
  <2> DEFINE D == IF sessions[id] # None /\ ~Alive(sessions[id]) THEN {sessions[id]} ELSE {}
  <2>1. D \subseteq Registered /\ Discard(D)
    BY <1>9 DEF CleanupFires, Registered
  <2> QED BY <1>6, <1>9, <2>1 DEF CleanupFires
<1>10. ASSUME NEW k \in Clients, NEW id \in Ids, Detach(k, id)
       PROVE  RegistryInv'
  <2>1. {sessions[id]} \subseteq Registered
    BY <1>10 DEF Detach, Registered
  <2>2. CASE sessions[id] \in LeftDead(stream[k])
    BY <1>6, <1>10, <2>1, <2>2 DEF Detach
  <2>3. CASE sessions[id] \notin LeftDead(stream[k])
    BY <1>4, <1>10, <2>3 DEF Detach
  <2> QED BY <2>2, <2>3
<1>11. ASSUME NEW k \in Clients, NEW s \in Socks, Hello(k, s)
       PROVE  RegistryInv'
  <2>1. CASE stream[k] = None
    BY <1>4, <1>11, <2>1 DEF Hello
  <2>2. CASE stream[k] # None
    BY <1>7, <1>11, <2>2 DEF Hello
  <2> QED BY <2>1, <2>2
<1>12. ASSUME NEW s \in Socks, Disconnect(s)
       PROVE  RegistryInv'
  BY <1>7, <1>12 DEF Disconnect
<1>13. CASE HostDispose
  BY <1>6, <1>13 DEF HostDispose
<1>14. CASE KillAll \/ (\E id \in Ids : Kill(id)) \/ UNCHANGED vars
  BY <1>4, <1>14 DEF KillAll, Kill, vars
<1> QED
  BY <1>1, <1>2, <1>3, <1>5, <1>8, <1>9, <1>10, <1>11, <1>12, <1>13, <1>14,
     RegistryRequestSpawn, RegistryEndSpawn DEF Next

LEMMA RegistryInvariant == Spec => [](LimiterInv /\ RegistryInv)
<1>1. Init => RegistryInv
  BY DEF Init, RegistryInv, RegistrySound, HeldSound, FreshSound, Held, NoCall
<1> QED BY <1>1, RegistryInvStep, LimiterInvariant, PTL DEF Spec

\* TerminalHost.sessions: an id only ever maps to a session made for it whose
\* child was started and that nobody has disposed.
THEOREM RegistryHolds == Spec => []RegistrySound
BY RegistryInvariant, PTL DEF RegistryInv

-----------------------------------------------------------------------------
(* Dead sessions *)

\* A step that registers nothing, leaves the cleanup timers alone and makes no
\* registered session dead.
LEMMA CleanupFrame ==
  ASSUME LimiterInv, DeadHasCleanup, cleanups' = cleanups,
         \A id \in Ids : sessions'[id] # None =>
           sessions'[id] = sessions[id] /\ (~Alive(sessions[id])' => ~Alive(sessions[id]))
  PROVE  DeadHasCleanup'
BY DEF DeadHasCleanup

\* A step that disposes the sessions it takes out of the map, and no other
\* registered one.
LEMMA CleanupDiscard ==
  ASSUME LimiterInv, DeadHasCleanup, NEW D,
         disposed' = disposed \cup D,
         \A id \in Ids : sessions'[id] # None =>
           sessions'[id] = sessions[id] /\ sessions[id] \notin D,
         UNCHANGED <<proc, exited, cleanups>>
  PROVE  DeadHasCleanup'
<1>1. \A id \in Ids : sessions'[id] # None =>
        sessions'[id] = sessions[id] /\ (~Alive(sessions[id])' => ~Alive(sessions[id]))
  BY DEF Alive, HasSubprocess, Running
<1> QED BY <1>1, CleanupFrame

\* The exit of a session, by its frame or by the child's exit event.
LEMMA CleanupExit ==
  ASSUME LimiterInv, RegistryInv, DeadHasCleanup, NEW h \in Handles,
         ExitFrame(h) \/ ChildExit(h)
  PROVE  DeadHasCleanup'
<1> USE DEF LimiterInv, RegistryInv
<1>1. sessions' = sessions /\ disposed' = disposed
      /\ \A x \in Handles \ {h} : Alive(x)' = Alive(x)
  BY DEF ExitFrame, ChildExit, Alive, HasSubprocess, Running, TypeOK
<1>2. \A id \in Ids : cleanups[id] \in Nat /\ cleanups'[id] \in Nat
                      /\ cleanups'[id] >= cleanups[id]
  <2>1. CASE cleanups' = cleanups
    BY <2>1 DEF TypeOK
  <2>2. CASE HandleSessionExit(sid[h])
    BY <2>2 DEF HandleSessionExit, TypeOK
  <2> QED BY <2>1, <2>2 DEF ExitFrame, ChildExit
<1>3. ASSUME NEW id \in Ids, sessions'[id] # None, ~Alive(sessions[id])'
      PROVE  cleanups'[id] > 0
  <2>1. sessions[id] # None
    BY <1>1, <1>3
  <2>2. CASE ~Alive(sessions[id])
    BY <1>2, <2>1, <2>2 DEF DeadHasCleanup
  <2>3. CASE Alive(sessions[id])
    <3>1. sessions[id] = h /\ sid[h] = id
      BY <1>1, <1>3, <2>1, <2>3 DEF RegistrySound, TypeOK
    <3>2. HandleSessionExit(id)
      BY <2>3, <3>1 DEF ExitFrame, ChildExit, Alive
    <3> QED BY <3>2 DEF HandleSessionExit, TypeOK
  <2> QED BY <2>2, <2>3
<1> QED BY <1>1, <1>3 DEF DeadHasCleanup

\* A cleanup timer that goes off over a dead session takes it out of the map.
LEMMA CleanupTimer ==
  ASSUME LimiterInv, RegistryInv, DeadHasCleanup, NEW id \in Ids, CleanupFires(id)
  PROVE  DeadHasCleanup'
<1> USE DEF LimiterInv, RegistryInv
<1> DEFINE D == IF sessions[id] # None /\ ~Alive(sessions[id]) THEN {sessions[id]} ELSE {}
<1>1. /\ disposed' = disposed \cup D
      /\ sessions' = [x \in Ids |-> IF sessions[x] \in D THEN None ELSE sessions[x]]
      /\ proc' = proc /\ exited' = exited
      /\ cleanups' = [cleanups EXCEPT ![id] = @ - 1]
  BY DEF CleanupFires, Discard
<1>2. ASSUME NEW x \in Ids, sessions'[x] # None, ~Alive(sessions[x])'
      PROVE  cleanups'[x] > 0
  <2>1. sessions'[x] = sessions[x] /\ sessions[x] \notin D
    BY <1>1, <1>2
  <2>2. ~Alive(sessions[x])
    BY <1>1, <1>2, <2>1 DEF Alive, HasSubprocess, Running
  <2>3. x # id
    BY <1>2, <2>1, <2>2
  <2> QED BY <1>1, <1>2, <2>1, <2>2, <2>3 DEF DeadHasCleanup, TypeOK
<1> QED BY <1>2 DEF DeadHasCleanup

LEMMA CleanupStep ==
  ASSUME LimiterInv, RegistryInv, DeadHasCleanup, [Next]_vars
  PROVE  DeadHasCleanup'
<1> USE DEF LimiterInv, hostVars, limiterVars, sessionVars, socketVars
<1>1. ASSUME UNCHANGED <<sessions, cleanups, proc, exited, disposed>>
      PROVE  DeadHasCleanup'
  BY <1>1 DEF DeadHasCleanup, Alive, HasSubprocess, Running
<1>2. ASSUME NEW c \in Calls, NEW k \in Clients, NEW id \in Ids,
             NEW h \in Handles, RequestSpawn(c, k, id, h)
      PROVE  DeadHasCleanup'
  <2> DEFINE D == {sessions[id]} \ {None}
  <2>1. /\ disposed' = disposed \cup D
        /\ sessions' = [sessions EXCEPT ![id] = None]
        /\ UNCHANGED <<proc, exited, cleanups>>
    BY <1>2 DEF RequestSpawn, DropUnusable
  <2>2. \A x \in Ids : sessions'[x] # None =>
          sessions'[x] = sessions[x] /\ sessions[x] \notin D
    BY <2>1, NoneAssumption DEF RegistryInv, RegistrySound, TypeOK
  <2> QED BY <2>1, <2>2, CleanupDiscard
<1>3. ASSUME NEW c \in Calls, SpawnChild(c)
      PROVE  DeadHasCleanup'
  <2>1. call[c].h \in Handles /\ \A id \in Ids : sessions[id] # call[c].h
    BY <1>3 DEF SpawnChild, CallsFilled, RegistryInv, HeldSound, Held
  <2>2. proc' = [proc EXCEPT ![call[c].h] = "starting"]
        /\ UNCHANGED <<sessions, cleanups, exited, disposed>>
    BY <1>3 DEF SpawnChild
  <2>3. \A id \in Ids : proc'[sessions[id]] = proc[sessions[id]]
    BY <2>1, <2>2 DEF TypeOK
  <2> QED BY <2>2, <2>3 DEF DeadHasCleanup, Alive, HasSubprocess, Running
<1>4. ASSUME NEW c \in Calls, RegisterSpawned(c)
      PROVE  DeadHasCleanup'
  <2>1. /\ Alive(call[c].h)
        /\ sessions' = [sessions EXCEPT ![call[c].id] = call[c].h]
        /\ UNCHANGED <<proc, exited, disposed, cleanups>>
    BY <1>4 DEF RegisterSpawned
  <2>2. \A id \in Ids : sessions'[id] = sessions[id] \/ Alive(sessions'[id])
    BY <2>1 DEF TypeOK
  <2> QED BY <2>1, <2>2 DEF DeadHasCleanup, Alive, HasSubprocess, Running
<1>5. ASSUME NEW c \in Calls, SpawnFailed(c)
      PROVE  DeadHasCleanup'
  <2>1. \A id \in Ids : sessions[id] # call[c].h
    BY <1>5 DEF SpawnFailed, CallsFilled, RegistryInv, HeldSound, Held
  <2>2. disposed' = disposed \cup {call[c].h}
        /\ UNCHANGED <<sessions, proc, exited, cleanups>>
    BY <1>5 DEF SpawnFailed
  <2>3. \A id \in Ids : sessions'[id] # None =>
          sessions'[id] = sessions[id] /\ sessions[id] \notin {call[c].h}
    BY <2>1, <2>2
  <2> QED BY <2>2, <2>3, CleanupDiscard
<1>6. ASSUME NEW h \in Handles, SpawnedFrame(h)
      PROVE  DeadHasCleanup'
  <2>1. \A x : Alive(x) => Alive(x)'
    BY <1>6 DEF SpawnedFrame, Alive, HasSubprocess, Running, TypeOK
  <2> QED BY <1>6, <2>1, CleanupFrame DEF SpawnedFrame
<1>7. ASSUME NEW D, Discard(D), UNCHANGED <<proc, exited, cleanups>>
      PROVE  DeadHasCleanup'
  <2>1. \A id \in Ids : sessions'[id] # None =>
          sessions'[id] = sessions[id] /\ sessions[id] \notin D
    BY <1>7 DEF Discard
  <2> QED BY <1>7, <2>1, CleanupDiscard DEF Discard
<1>8. ASSUME NEW s, DetachFromAll(s), UNCHANGED <<proc, exited, cleanups>>
      PROVE  DeadHasCleanup'
  <2>1. \A id \in Ids : sessions'[id] # None =>
          sessions'[id] = sessions[id] /\ sessions[id] \notin LeftDead(s)
    BY <1>8 DEF DetachFromAll
  <2> QED BY <1>8, <2>1, CleanupDiscard DEF DetachFromAll
<1>9. ASSUME NEW k \in Clients, NEW id \in Ids, Detach(k, id)
      PROVE  DeadHasCleanup'
  BY <1>1, <1>7, <1>9 DEF Detach
<1>10. ASSUME NEW k \in Clients, NEW s \in Socks, Hello(k, s)
       PROVE  DeadHasCleanup'
  BY <1>1, <1>8, <1>10 DEF Hello
<1> QED
  BY <1>1, <1>2, <1>3, <1>4, <1>5, <1>6, <1>7, <1>8, <1>9, <1>10, CleanupExit, CleanupTimer
     DEF Next, vars, AttachExisting, SpawnThrows, Respond, Kill, KillAll,
         KillTimerFires, Disconnect, HostDispose

\* A dead session in the map always has a cleanup timer of its id pending, so it
\* is never left behind, whatever earlier timers of the id have done.
THEOREM DeadAlwaysHasCleanup == Spec => []DeadHasCleanup
<1>1. Init => DeadHasCleanup
  BY DEF Init, DeadHasCleanup
<1> QED BY <1>1, CleanupStep, RegistryInvariant, PTL DEF Spec

\* Only the shutdown of the host force-disposes a session that could still be
\* attached to.
THEOREM AttachableSurvives == Spec => NeverDisposesAttachable
<1> DEFINE Safe == \A h \in Handles :
             h \in disposed' \ disposed /\ Attachable(h) => HostDispose
<1>1. ASSUME [Next]_vars PROVE Safe \/ UNCHANGED vars
  <2> USE DEF hostVars, limiterVars, sessionVars, socketVars
  <2>1. ASSUME disposed' = disposed PROVE Safe
    BY <2>1
  <2>2. ASSUME NEW c \in Calls, NEW k \in Clients, NEW id \in Ids,
               NEW h \in Handles, RequestSpawn(c, k, id, h)
        PROVE  Safe
    BY <2>2 DEF RequestSpawn, DropUnusable
  <2>3. ASSUME NEW c \in Calls, SpawnFailed(c)
        PROVE  Safe
    BY <2>3 DEF SpawnFailed, Attachable
  <2>4. ASSUME NEW id \in Ids, KillTimerFires(id)
        PROVE  Safe
    BY <2>4 DEF KillTimerFires, Discard, Attachable
  <2>5. ASSUME NEW id \in Ids, CleanupFires(id)
        PROVE  Safe
    BY <2>5 DEF CleanupFires, Discard, Attachable
  <2>6. ASSUME NEW k \in Clients, NEW id \in Ids, Detach(k, id)
        PROVE  Safe
    BY <2>6 DEF Detach, Discard, LeftDead, Attachable
  <2>7. ASSUME NEW s, DetachFromAll(s)
        PROVE  Safe
    BY <2>7 DEF DetachFromAll, LeftDead, Attachable
  <2> QED
    BY <1>1, <2>1, <2>2, <2>3, <2>4, <2>5, <2>6, <2>7
       DEF Next, AttachExisting, SpawnChild, SpawnThrows, RegisterSpawned, Respond,
           SpawnedFrame, ExitFrame, ChildExit, Kill, KillAll, Hello, Disconnect
<1> QED BY <1>1, PTL DEF Spec, NeverDisposesAttachable

=============================================================================
