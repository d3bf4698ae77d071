---------------------------- MODULE TerminalHost ----------------------------
(***************************************************************************)
(* The session registry of the detached terminal-host daemon: the class    *)
(* TerminalHost, the lifecycle part of the class Session, and the socket   *)
(* bookkeeping of daemon.ts (hello, detach, close) that calls into them.   *)
(*                                                                         *)
(* The daemon is one Node process, so a handler runs without interruption  *)
(* up to its next await.  createOrAttach awaits three times: for a spawn   *)
(* permit, for the PTY to be ready (or 5 s), and for the emulator to reach *)
(* the snapshot boundary (or 500 ms).  Each stretch between two awaits is  *)
(* an action here; requests, timers, child-process events and socket       *)
(* events interleave between them.                                         *)
(*                                                                         *)
(* A session id names a pane and is reused; a Session object is not.  The  *)
(* model keeps the two apart: a handle is one Session object, the registry *)
(* maps an id to the handle it currently holds.  Timers, exit callbacks    *)
(* and requests address sessions by id, as the code does.                  *)
(*                                                                         *)
(* Left out: terminal data (write, resize, signal, scrollback, snapshots), *)
(* which changes nothing the registry reads.                               *)
(***************************************************************************)
EXTENDS Integers, Sequences, FiniteSets

CONSTANTS
  Ids,           \* session ids (one per pane)
  Handles,       \* Session objects; bounds how often sessions are created
  Calls,         \* slots for createOrAttach calls in flight
  Clients,       \* client ids that say hello
  Socks,         \* stream sockets; bounds how often clients connect
  MaxSpawns,     \* MAX_CONCURRENT_SPAWNS
  None,          \* undefined / null
  (* What is assumed of the daemon's surroundings; FALSE assumes nothing.  *)
  SingleFlight,  \* no two createOrAttach calls in flight for the same id
  PatientClients,\* no stream socket goes away under a createOrAttach of its own
  PromptDeath    \* a SIGKILLed child is reaped before its id is registered again

ASSUME MaxSpawnsAssumption == MaxSpawns \in Nat \ {0}
ASSUME FiniteAssumption == IsFiniteSet(Calls)
ASSUME NoneAssumption == None \notin Ids \cup Handles \cup Socks
ASSUME SwitchAssumption ==
  {SingleFlight, PatientClients, PromptDeath} \subseteq BOOLEAN

VARIABLES
  (* class TerminalHost *)
  sessions,      \* sessions: id -> handle, or None
  killTimers,    \* ids with a fail-safe timer armed
  cleanups,      \* number of pending scheduleSessionCleanup timers, per id
  inUse,         \* spawnLimiter.inUse
  queue,         \* spawnLimiter.queue: calls waiting for a permit
  (* class Session, per handle *)
  sid,           \* the id it was created for, or None: not constructed
  proc,          \* how far its child process got
  exited,        \* handles whose exitCode is set
  terminating,   \* handles whose terminatingAt is set
  disposed,      \* handles whose disposed flag is set
  clients,       \* attachedClients
  (* daemon.ts *)
  stream,        \* clientsById[client].stream
  sock,          \* state of each stream socket
  call           \* createOrAttach calls in flight

hostVars == <<sessions, killTimers, cleanups>>
limiterVars == <<inUse, queue>>
sessionVars == <<sid, proc, exited, terminating, disposed, clients>>
socketVars == <<stream, sock>>
vars == <<hostVars, limiterVars, sessionVars, socketVars, call>>

-----------------------------------------------------------------------------
(* Types *)

Phase == {"none", "starting", "up", "reaped"}
SockState == {"new", "up", "closing", "closed"}
Stage == {"idle", "queued", "granted", "spawning", "flushing"}
CallRec == [pc : Stage, id : Ids \cup {None}, sock : Socks \cup {None},
            h : Handles \cup {None}]
NoCall == [pc |-> "idle", id |-> None, sock |-> None, h |-> None]

TypeOK ==
  /\ sessions \in [Ids -> Handles \cup {None}]
  /\ killTimers \subseteq Ids
  /\ cleanups \in [Ids -> Nat]
  /\ inUse \in Nat
  /\ queue \in Seq(Calls)
  /\ sid \in [Handles -> Ids \cup {None}]
  /\ proc \in [Handles -> Phase]
  /\ exited \subseteq Handles
  /\ terminating \subseteq Handles
  /\ disposed \subseteq Handles
  /\ clients \in [Handles -> SUBSET Socks]
  /\ stream \in [Clients -> Socks \cup {None}]
  /\ sock \in [Socks -> SockState]
  /\ call \in [Calls -> CallRec]

-----------------------------------------------------------------------------
(* Session getters *)

Running(h) == proc[h] \in {"starting", "up"}

\* Session.subprocess is null before spawn, after the child's exit event and
\* after dispose.
HasSubprocess(h) == Running(h) /\ h \notin disposed
Alive(h) == HasSubprocess(h) /\ h \notin exited
Attachable(h) == Alive(h) /\ h \notin terminating

Registered == {sessions[id] : id \in Ids} \ {None}

\* Calls that hold a spawn permit.
Spawning == {c \in Calls : call[c].pc \in {"granted", "spawning"}}

Init ==
  /\ sessions = [id \in Ids |-> None]
  /\ killTimers = {}
  /\ cleanups = [id \in Ids |-> 0]
  /\ inUse = 0
  /\ queue = << >>
  /\ sid = [h \in Handles |-> None]
  /\ proc = [h \in Handles |-> "none"]
  /\ exited = {} /\ terminating = {} /\ disposed = {}
  /\ clients = [h \in Handles |-> {}]
  /\ stream = [k \in Clients |-> None]
  /\ sock = [s \in Socks |-> "new"]
  /\ call = [c \in Calls |-> NoCall]

-----------------------------------------------------------------------------
(* createOrAttach *)

\* Session.attach up to its await: the socket is a client from now on, whatever
\* became of it since the call captured it.  (A disposed session refuses, and
\* neither caller can have one: both have just seen it alive.)
Attach(h, s) == clients' = [clients EXCEPT ![h] = @ \cup {s}]

\* The session in the map can be attached to: no spawn.
AttachExisting(c, k, id) ==
  LET h == sessions[id] IN
  /\ call[c].pc = "idle"
  /\ stream[k] # None
  /\ SingleFlight => \A d \in Calls : call[d].id # id
  /\ h # None
  /\ Attachable(h)
  /\ Attach(h, stream[k])
  /\ call' = [call EXCEPT ![c] =
       [pc |-> "flushing", id |-> id, sock |-> stream[k], h |-> h]]
  /\ UNCHANGED <<hostVars, limiterVars, sid, proc, exited, terminating,
                 disposed, socketVars>>

\* createOrAttach finds a session it cannot attach to, if any: disposed and
\* removed; the kill timer is cleared for a terminating one only.
DropUnusable_NoDelete(id) ==
  LET old == sessions[id] IN
  /\ sessions' = sessions
  /\ disposed' = disposed \cup ({old} \ {None})
  /\ clients' = [h \in Handles |-> IF h = old THEN {} ELSE clients[h]]
  /\ killTimers' = IF old \in terminating THEN killTimers \ {id} ELSE killTimers

DropUnusable(id) ==
  LET old == sessions[id] IN
  /\ sessions' = [sessions EXCEPT ![id] = None]
  /\ disposed' = disposed \cup ({old} \ {None})
  /\ clients' = [h \in Handles |-> IF h = old THEN {} ELSE clients[h]]
  /\ killTimers' = IF old \in terminating THEN killTimers \ {id} ELSE killTimers

\* No usable session: a spawn permit is asked for.  The Session object to come
\* is the handle h.
RequestSpawn(c, k, id, h) ==
  /\ call[c].pc = "idle"
  /\ stream[k] # None
  /\ SingleFlight => \A d \in Calls : call[d].id # id
  /\ sid[h] = None
  /\ sessions[id] # None => ~Attachable(sessions[id])
  /\ DropUnusable(id)
  /\ sid' = [sid EXCEPT ![h] = id]
  /\ LET free == inUse < MaxSpawns IN
     /\ inUse' = IF free THEN inUse + 1 ELSE inUse
     /\ queue' = IF free THEN queue ELSE Append(queue, c)
     /\ call' = [call EXCEPT ![c] =
          [pc |-> IF free THEN "granted" ELSE "queued",
           id |-> id, sock |-> stream[k], h |-> h]]
  /\ UNCHANGED <<cleanups, proc, exited, terminating, socketVars>>

\* Mutants of Release: no floor at zero and once too often; no hand-over.
Release_Twice(callAfter) ==
  inUse' = inUse - 2 /\ queue' = queue /\ call' = callAfter

Release_NoHandover(callAfter) ==
  inUse' = inUse - 1 /\ queue' = queue /\ call' = callAfter

\* Semaphore.release: the permit goes to the head of the queue, if any.
Release(callAfter) ==
  LET left == IF inUse > 0 THEN inUse - 1 ELSE 0 IN
  IF queue = << >>
  THEN /\ inUse' = left
       /\ queue' = queue
       /\ call' = callAfter
  ELSE /\ inUse' = left + 1
       /\ queue' = Tail(queue)
       /\ call' = [callAfter EXCEPT ![Head(queue)].pc = "granted"]

\* createSession and Session.spawn: the child process is started.
SpawnChild(c) ==
  /\ call[c].pc = "granted"
  /\ proc' = [proc EXCEPT ![call[c].h] = "starting"]
  /\ call' = [call EXCEPT ![c].pc = "spawning"]
  /\ UNCHANGED <<hostVars, limiterVars, sid, exited, terminating, disposed,
                 clients, socketVars>>

\* Mutant: the permit is not returned when spawn throws.
SpawnThrows_Leaks(c) ==
  /\ call[c].pc = "granted"
  /\ call' = [call EXCEPT ![c] = NoCall]
  /\ UNCHANGED <<hostVars, limiterVars, sessionVars, socketVars>>

\* createSession or Session.spawn throws: the permit is returned, the call fails.
SpawnThrows(c) ==
  /\ call[c].pc = "granted"
  /\ Release([call EXCEPT ![c] = NoCall])
  /\ UNCHANGED <<hostVars, sessionVars, socketVars>>

\* waitForReady resolved, or its 5 s timeout went off: either way the permit is
\* returned, and a session that is alive is registered under its id, over
\* whatever the map holds by now, and attached to.
RegisterSpawned(c) ==
  LET h == call[c].h
      id == call[c].id IN
  /\ call[c].pc = "spawning"
  /\ Alive(h)
  /\ PromptDeath => \A x \in Handles : sid[x] = id /\ x \in disposed => ~Running(x)
  /\ sessions' = [sessions EXCEPT ![id] = h]
  /\ Attach(h, call[c].sock)
  /\ Release([call EXCEPT ![c].pc = "flushing"])
  /\ UNCHANGED <<killTimers, cleanups, sid, proc, exited, terminating, disposed,
                 socketVars>>

\* The child is already gone: "Session spawn failed".
SpawnFailed(c) ==
  LET h == call[c].h IN
  /\ call[c].pc = "spawning"
  /\ ~Alive(h)
  /\ disposed' = disposed \cup {h}
  /\ clients' = [clients EXCEPT ![h] = {}]
  /\ Release([call EXCEPT ![c] = NoCall])
  /\ UNCHANGED <<hostVars, sid, proc, exited, terminating, socketVars>>

\* flushToSnapshotBoundary resolved or timed out: the snapshot is sent.
Respond(c) ==
  /\ call[c].pc = "flushing"
  /\ call' = [call EXCEPT ![c] = NoCall]
  /\ UNCHANGED <<hostVars, limiterVars, sessionVars, socketVars>>

-----------------------------------------------------------------------------
(* The child process *)

\* Frames Ready (the spawn request is sent) and Spawned (the PTY is there).  A
\* child whose PTY cannot be spawned answers with an Error frame instead and
\* keeps running at "starting" for good.
SpawnedFrame(h) ==
  /\ HasSubprocess(h)
  /\ proc[h] = "starting"
  /\ proc' = [proc EXCEPT ![h] = "up"]
  /\ UNCHANGED <<hostVars, limiterVars, sid, exited, terminating, disposed,
                 clients, socketVars, call>>

\* Mutant: no cleanup is scheduled.
HandleSessionExit_NoCleanup(id) ==
  killTimers' = killTimers \ {id} /\ cleanups' = cleanups

\* handleSessionExit(id): whatever session the id names by now loses its kill
\* timer, and a cleanup timer is started.
HandleSessionExit(id) ==
  /\ killTimers' = killTimers \ {id}
  /\ cleanups' = [cleanups EXCEPT ![id] = @ + 1]

\* Mutant: a missing session counts as one without clients.
AnnouncesExit_Missing(id) ==
  sessions[id] = None \/ clients[sessions[id]] = {}

\* The same handler tells every client that the id has exited if the session
\* registered under it has nobody attached.
AnnouncesExit(id) == sessions[id] # None /\ clients[sessions[id]] = {}

\* Exit frame: the PTY has exited, the child goes on for another 100 ms.
ExitFrame(h) ==
  /\ HasSubprocess(h)
  /\ proc[h] = "up"
  /\ h \notin exited
  /\ exited' = exited \cup {h}
  /\ HandleSessionExit(sid[h])
  /\ UNCHANGED <<sessions, limiterVars, sid, proc, terminating, disposed,
                 clients, socketVars, call>>

\* The child's exit event: its callback is called once per session, also for a
\* session that was disposed while the child was still running.
ChildExit(h) ==
  /\ Running(h)
  /\ proc' = [proc EXCEPT ![h] = "reaped"]
  /\ exited' = exited \cup {h}
  /\ IF h \in exited THEN UNCHANGED <<killTimers, cleanups>>
                     ELSE HandleSessionExit(sid[h])
  /\ UNCHANGED <<sessions, limiterVars, sid, terminating, disposed, clients,
                 socketVars, call>>

-----------------------------------------------------------------------------
(* kill, killAll and the two timers *)

\* dispose() of a set D of registered sessions, each removed from the map.
Discard(D) ==
  /\ disposed' = disposed \cup D
  /\ sessions' = [id \in Ids |-> IF sessions[id] \in D THEN None ELSE sessions[id]]
  /\ clients' = [h \in Handles |-> IF h \in D THEN {} ELSE clients[h]]

Kill(id) ==
  /\ sessions[id] # None
  /\ terminating' = terminating \cup {sessions[id]}
  /\ killTimers' = killTimers \cup {id}
  /\ UNCHANGED <<sessions, cleanups, limiterVars, sid, proc, exited, disposed,
                 clients, socketVars, call>>

\* Mutant: killAll marks the sessions but arms no timer.
KillAll_NoTimers ==
  /\ terminating' = terminating \cup Registered
  /\ UNCHANGED <<hostVars, limiterVars, sid, proc, exited, disposed,
                 clients, socketVars, call>>

KillAll ==
  /\ terminating' = terminating \cup Registered
  /\ killTimers' = killTimers \cup {id \in Ids : sessions[id] # None}
  /\ UNCHANGED <<sessions, cleanups, limiterVars, sid, proc, exited, disposed,
                 clients, socketVars, call>>

\* Mutants: the timer removes the session without disposing it; it takes
\* isTerminating for already dealt with.
KillTimerFires_NoDispose(id) ==
  /\ id \in killTimers
  /\ killTimers' = killTimers \ {id}
  /\ sessions' = [sessions EXCEPT ![id] = None]
  /\ UNCHANGED <<cleanups, limiterVars, sessionVars, socketVars, call>>

KillTimerFires_Skips(id) ==
  /\ id \in killTimers
  /\ killTimers' = killTimers \ {id}
  /\ Discard(({sessions[id]} \ {None}) \ terminating)
  /\ UNCHANGED <<cleanups, limiterVars, sid, proc, exited, terminating,
                 socketVars, call>>

KillTimerFires(id) ==
  /\ id \in killTimers
  /\ killTimers' = killTimers \ {id}
  /\ Discard({sessions[id]} \cap terminating)
  /\ UNCHANGED <<cleanups, limiterVars, sid, proc, exited, terminating,
                 socketVars, call>>

\* Mutant: with clients attached the timer is not started again.
CleanupFires_NoReschedule(id) ==
  LET h == sessions[id] IN
  /\ cleanups[id] > 0
  /\ cleanups' = [cleanups EXCEPT ![id] = @ - 1]
  /\ Discard(IF h # None /\ ~Alive(h) /\ clients[h] = {} THEN {h} ELSE {})
  /\ UNCHANGED <<killTimers, limiterVars, sid, proc, exited, terminating,
                 socketVars, call>>

\* A cleanup timer goes off.  With clients attached to the dead session it is
\* started again, which changes nothing.
CleanupFires(id) ==
  LET h == sessions[id]
      dead == h # None /\ ~Alive(h) IN
  /\ cleanups[id] > 0
  /\ dead => clients[h] = {}
  /\ cleanups' = [cleanups EXCEPT ![id] = @ - 1]
  /\ Discard(IF dead THEN {h} ELSE {})
  /\ UNCHANGED <<killTimers, limiterVars, sid, proc, exited, terminating,
                 socketVars, call>>

-----------------------------------------------------------------------------
(* Sockets *)

\* Registered sessions that are dead once socket s has detached from them.
LeftDead(s) == {h \in Registered : ~Alive(h) /\ clients[h] \subseteq {s}}

\* Mutant: only the dead sessions are gone through.
DetachFromAll_OnlyDead(s) ==
  LET D == LeftDead(s) IN
  /\ disposed' = disposed \cup D
  /\ sessions' = [id \in Ids |-> IF sessions[id] \in D THEN None ELSE sessions[id]]
  /\ clients' = [h \in Handles |-> IF h \in D THEN {} ELSE clients[h]]

DetachFromAll(s) ==
  LET D == LeftDead(s) IN
  /\ disposed' = disposed \cup D
  /\ sessions' = [id \in Ids |-> IF sessions[id] \in D THEN None ELSE sessions[id]]
  /\ clients' = [h \in Handles |->
       IF h \in D THEN {}
       ELSE IF h \in Registered THEN clients[h] \ {s} ELSE clients[h]]

Busy(s) == \E c \in Calls : call[c].sock = s

\* detach request
Detach(k, id) ==
  LET s == stream[k]
      h == sessions[id] IN
  /\ s # None
  /\ h # None
  /\ IF h \in LeftDead(s)
     THEN Discard({h})
     ELSE /\ clients' = [clients EXCEPT ![h] = @ \ {s}]
          /\ UNCHANGED <<sessions, disposed>>
  /\ UNCHANGED <<killTimers, cleanups, limiterVars, sid, proc, exited,
                 terminating, socketVars, call>>

\* hello for the stream role: a socket the client had registered before is
\* detached from every session and destroyed.
Hello(k, s) ==
  LET previous == stream[k] IN
  /\ sock[s] = "new"
  /\ PatientClients => previous = None \/ ~Busy(previous)
  /\ stream' = [stream EXCEPT ![k] = s]
  /\ sock' = [x \in Socks |-> IF x = s THEN "up"
                              ELSE IF x = previous THEN "closing" ELSE sock[x]]
  /\ IF previous = None THEN UNCHANGED <<sessions, disposed, clients>>
                        ELSE DetachFromAll(previous)
  /\ UNCHANGED <<killTimers, cleanups, limiterVars, sid, proc, exited,
                 terminating, call>>

\* The socket's close event.
Disconnect(s) ==
  /\ sock[s] \in {"up", "closing"}
  /\ PatientClients => ~Busy(s)
  /\ sock' = [sock EXCEPT ![s] = "closed"]
  /\ stream' = [k \in Clients |-> IF stream[k] = s THEN None ELSE stream[k]]
  /\ DetachFromAll(s)
  /\ UNCHANGED <<killTimers, cleanups, limiterVars, sid, proc, exited,
                 terminating, call>>

\* TerminalHost.dispose, from shutdown or a signal.  Calls in flight go on.
HostDispose ==
  /\ Registered # {} \/ killTimers # {}
  /\ killTimers' = {}
  /\ Discard(Registered)
  /\ UNCHANGED <<cleanups, limiterVars, sid, proc, exited, terminating,
                 socketVars, call>>

-----------------------------------------------------------------------------
Next ==
  \/ \E c \in Calls, k \in Clients, id \in Ids : AttachExisting(c, k, id)
  \/ \E c \in Calls, k \in Clients, id \in Ids, h \in Handles :
       RequestSpawn(c, k, id, h)
  \/ \E c \in Calls : SpawnChild(c)
  \/ \E c \in Calls : SpawnThrows(c)
  \/ \E c \in Calls : RegisterSpawned(c)
  \/ \E c \in Calls : SpawnFailed(c)
  \/ \E c \in Calls : Respond(c)
  \/ \E h \in Handles : SpawnedFrame(h)
  \/ \E h \in Handles : ExitFrame(h)
  \/ \E h \in Handles : ChildExit(h)
  \/ \E id \in Ids : Kill(id)
  \/ KillAll
  \/ \E id \in Ids : KillTimerFires(id)
  \/ \E id \in Ids : CleanupFires(id)
  \/ \E k \in Clients, id \in Ids : Detach(k, id)
  \/ \E k \in Clients, s \in Socks : Hello(k, s)
  \/ \E s \in Socks : Disconnect(s)
  \/ HostDispose

(***************************************************************************)
(* Every await of createOrAttach ends: a permit holder is resumed, the     *)
(* wait for the PTY and for the snapshot boundary have timeouts.  Node     *)
(* timers fire.  A child that got SIGKILL from dispose dies.  Nothing else *)
(* is fair: no client ever has to send, detach or disconnect, and a child  *)
(* that was only asked to terminate may ignore it.                         *)
(***************************************************************************)
Fairness ==
  /\ \A c \in Calls : WF_vars(SpawnChild(c) \/ SpawnThrows(c))
  /\ \A c \in Calls : WF_vars(RegisterSpawned(c) \/ SpawnFailed(c))
  /\ \A c \in Calls : WF_vars(Respond(c))
  /\ \A id \in Ids : WF_vars(KillTimerFires(id))
  /\ \A id \in Ids : WF_vars(CleanupFires(id))
  /\ \A h \in Handles : WF_vars(h \in disposed /\ ChildExit(h))

Spec == Init /\ [][Next]_vars
FairSpec == Spec /\ Fairness

-----------------------------------------------------------------------------
(* Safety, whatever the surroundings do *)

\* Semaphore: every permit in use is held by exactly one call between its
\* grant and the end of its spawn, over every path out of createOrAttach
\* (ready, timeout, exit during spawn, throw).
PermitsAccounted == inUse = Cardinality(Spawning) /\ inUse <= MaxSpawns

\* Semaphore: calls wait only while every permit is in use, each waits once,
\* and exactly the waiting calls are in the queue (no lost wake-up).
QueueConsistent ==
  /\ queue # << >> => inUse = MaxSpawns
  /\ \A i, j \in 1..Len(queue) : queue[i] = queue[j] => i = j
  /\ \A c \in Calls :
       call[c].pc = "queued" <=> \E i \in 1..Len(queue) : queue[i] = c

\* TerminalHost.sessions: an id maps to a session created for that id and not
\* disposed, so attach through the map is never refused, and no timer or exit
\* callback of an earlier session with that id takes a live one apart.
RegistrySound ==
  \A id \in Ids : sessions[id] # None =>
    /\ sid[sessions[id]] = id
    /\ sessions[id] \notin disposed
    /\ proc[sessions[id]] # "none"

\* handleSessionExit, scheduleSessionCleanup: a dead session still in the map
\* always has a cleanup timer pending, also when a timer of an earlier session
\* with the same id has meanwhile gone off over a live one and expired.
DeadHasCleanup ==
  \A id \in Ids :
    sessions[id] # None /\ ~Alive(sessions[id]) => cleanups[id] > 0

\* A session that can be attached to is force-disposed only by the shutdown of
\* the host: not by the kill timer, a cleanup timer, a detach, a disconnect or
\* a createOrAttach that arrives at the wrong moment for its id.
NeverDisposesAttachable ==
  [][\A h \in Handles :
       h \in disposed' \ disposed /\ Attachable(h) => HostDispose]_vars

-----------------------------------------------------------------------------
(* Safety that depends on the surroundings *)

\* Every session whose child is alive can be found: it is in the map, or a
\* call that is still spawning it holds it, or it has been disposed.  Needs
\* SingleFlight: of two concurrent calls the second overwrites the first.
NoOrphan ==
  \A h \in Handles :
    Alive(h) => \/ h \in Registered
                \/ \E c \in Spawning : call[c].h = h

\* No session counts a socket that is closed for good among its clients.
\* Needs PatientClients: attach adds the socket captured before the awaits; and
\* SingleFlight: detachFromAllSessions does not reach an orphan.
NoGhostClient ==
  \A h \in Handles : \A s \in clients[h] : sock[s] # "closed"

\* kill: a registered session that was asked to terminate and has not exited
\* has the fail-safe timer armed.  Needs SingleFlight and PromptDeath: the exit
\* callback of another session with the same id clears the timer.
KillFailSafe ==
  \A id \in Ids :
    sessions[id] \in terminating /\ Alive(sessions[id]) => id \in killTimers

\* onUnattachedExit: when clients are told that an id has exited, the session
\* that exited is the one registered under the id.
AnnouncedExitIsOwn ==
  [][\A h \in Handles :
       h \in exited' \ exited /\ AnnouncesExit(sid[h]) => sessions[sid[h]] = h]_vars

-----------------------------------------------------------------------------
(* What listSessions shows, and liveness *)

\* listSessions: isAlive is isAttachable.
Status == [id \in Ids |->
  IF sessions[id] = None THEN "absent"
  ELSE IF Attachable(sessions[id]) THEN "attachable"
  ELSE "dying"]

\* The registry seen through listSessions is a SessionDirectory.
Directory == INSTANCE SessionDirectory WITH status <- Status
ImplementsDirectory == Directory!Spec

\* createOrAttach: every request is answered; no path keeps a spawn permit.
EveryCallAnswered == \A c \in Calls : call[c].pc # "idle" ~> call[c].pc = "idle"

\* kill: the session leaves the map or dies, also if its child ignores SIGTERM.
KillCompletes ==
  \A id \in Ids, h \in Handles :
    sessions[id] = h /\ h \in terminating ~> sessions[id] # h \/ ~Alive(h)

\* A dead session without clients leaves the map.
DeadReaped ==
  \A id \in Ids, h \in Handles :
    (sessions[id] = h /\ ~Alive(h) /\ clients[h] = {}) ~> sessions[id] # h

=============================================================================
