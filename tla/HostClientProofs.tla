-------------------------- MODULE HostClientProofs --------------------------
(***************************************************************************)
(* Proofs about HostClient for any number of calls and sockets.            *)
(***************************************************************************)
EXTENDS HostClient, TLAPS

-----------------------------------------------------------------------------
(* Type correctness, and that a call never waits for nothing.  An attempt  *)
(* ends in an action that sets the state; none leaves it connecting.       *)

\* A hello has been sent on a socket.
HelloInv ==
  \A c \in Calls : call[c].pc \in {"hello", "streamHello", "probeHello"} => call[c].on \in Socks

BaseInv == TypeOK /\ ConnectingIsFounded /\ HelloInv

LEMMA StageFacts ==
  /\ EnsureStage \cup ProbeStage \subseteq Stage
  /\ {"idle", "waiting", "request"} \subseteq Stage
BY DEF Stage

LEMMA CallFields ==
  ASSUME TypeOK, NEW c \in Calls
  PROVE  /\ call[c].pc \in Stage
         /\ call[c].on \in Socks \cup {None}
         /\ call[c].attempt \in 0 .. 1
BY DEF TypeOK, CallRec

LEMMA BeginType ==
  ASSUME NEW stage \in Stage
  PROVE  Begin(stage) \in CallRec /\ Begin(stage).pc = stage
BY DEF Begin, Idle, CallRec, Stage

LEMMA IdleType == Idle \in CallRec /\ Idle.pc = "idle"
BY DEF Idle, CallRec, Stage

LEMMA SendsType ==
  ASSUME TypeOK, NEW c \in Calls, NEW hello \in Stage, NEW s \in Socks \cup {None},
         Sends(c, hello, s)
  PROVE  /\ call' \in [Calls -> CallRec]
         /\ call'[c].pc = hello /\ call'[c].on = s /\ call'[c].attempt = call[c].attempt
         /\ \A d \in Calls \ {c} : call'[d] = call[d]
<1>1. call \in [Calls -> CallRec]
  BY DEF TypeOK
<1>2. call[c] \in CallRec
  BY <1>1
<1>3. call' = [call EXCEPT ![c] = [pc |-> hello, on |-> s, attempt |-> call[c].attempt]]
  BY <1>1, <1>2 DEF Sends
<1>4. [pc |-> hello, on |-> s, attempt |-> call[c].attempt] \in CallRec
  BY <1>2 DEF CallRec
<1>5. QED
  BY <1>1, <1>3, <1>4

LEMMA BaseInit == Init => BaseInv
BY IdleType DEF Init, BaseInv, TypeOK, ConnectingIsFounded, HelloInv

\* Any reset leaves the types alone, and an attempt may end by it.
LEMMA ResetBase ==
  ASSUME BaseInv, NEW c, NEW next \in CallRec, Reset(c, next)
  PROVE  /\ call' \in [Calls -> CallRec]
         /\ state' = "disconnected" /\ control' = None /\ stream' = None
         /\ controlAuth' = FALSE /\ streamAuth' = FALSE
         /\ next.pc \notin {"hello", "streamHello", "probeHello"} => HelloInv'
<1>1. ResetClient
      /\ call' = [d \in Calls |-> IF d = c THEN next ELSE IF d \in Pending THEN Idle ELSE call[d]]
  BY DEF Reset
<1>2. call \in [Calls -> CallRec]
  BY DEF BaseInv, TypeOK
<1>3. call' \in [Calls -> CallRec]
  BY <1>1, <1>2, IdleType
<1>4. ASSUME next.pc \notin {"hello", "streamHello", "probeHello"} PROVE HelloInv'
  BY <1>1, <1>4, IdleType DEF BaseInv, HelloInv
<1>5. QED
  BY <1>1, <1>3, <1>4 DEF ResetClient

LEMMA DestroyedType ==
  ASSUME TypeOK, NEW s \in Socks
  PROVE  Destroyed(s) \in {"open", "ended", "destroyed", "closed"}
BY DEF TypeOK, Destroyed

LEMMA QuietBase ==
  ASSUME BaseInv, NEW c, NEW next \in CallRec, QuietReset(c, next),
         next.pc \notin {"hello", "streamHello", "probeHello"}
  PROVE  BaseInv'
<1>1. Reset(c, next)
  BY DEF QuietReset
<1>2. sock' \in [Socks -> {"open", "ended", "destroyed", "closed"}]
  BY DestroyedType DEF QuietReset, BaseInv
<1>3. UNCHANGED <<armed, told, known, read, twice>>
  BY <1>1 DEF QuietReset, Reset
<1>4. HelloInv' /\ call' \in [Calls -> CallRec] /\ state' = "disconnected"
      /\ control' = None /\ stream' = None /\ controlAuth' = FALSE /\ streamAuth' = FALSE
  BY <1>1, ResetBase
<1>5. QED
  BY <1>2, <1>3, <1>4 DEF BaseInv, TypeOK, ConnectingIsFounded

LEMMA OpensType ==
  ASSUME TypeOK, NEW s \in Socks, Opens(s)
  PROVE  /\ sock' \in [Socks -> {"open", "ended", "destroyed", "closed"}]
         /\ known' \subseteq Socks /\ read' \subseteq Socks /\ twice' \subseteq Socks
BY DEF TypeOK, Opens

LEMMA BaseStep == BaseInv /\ [Next]_vars => BaseInv'
<1> SUFFICES ASSUME BaseInv, [Next]_vars PROVE BaseInv'
  OBVIOUS
<1> USE DEF BaseInv
<1>a. Idle \in CallRec /\ Idle.pc = "idle"
  BY IdleType
<1>1. ASSUME NEW c \in Calls, EnsureConnected(c) PROVE BaseInv'
  <2>1. /\ Begin("request") \in CallRec /\ Begin("request").pc = "request"
        /\ Begin("waiting") \in CallRec /\ Begin("waiting").pc = "waiting"
        /\ Begin("control") \in CallRec /\ Begin("control").pc = "control"
    BY BeginType, StageFacts DEF EnsureStage
  <2>2. TypeOK'
    BY <1>1, <2>1 DEF EnsureConnected, TypeOK, sockVars
  <2>3. ConnectingIsFounded'
    BY <1>1, <2>1 DEF EnsureConnected, TypeOK, ConnectingIsFounded, Attempting, EnsureStage,
      ProbeStage
  <2>4. HelloInv'
    BY <1>1, <2>1 DEF EnsureConnected, TypeOK, HelloInv
  <2>5. QED
    BY <2>2, <2>3, <2>4
<1>2. ASSUME NEW c \in Calls, Waited(c) \/ RequestEnds(c) PROVE BaseInv'
  <2>1. Begin("request") \in CallRec /\ Begin("request").pc = "request"
    BY BeginType, StageFacts
  <2>2. Attempting \subseteq Attempting'
    BY <1>2 DEF Waited, RequestEnds, TypeOK, Attempting, EnsureStage, ProbeStage
  <2>3. TypeOK'
    BY <1>2, <2>1, <1>a DEF Waited, RequestEnds, TypeOK, clientVars, sockVars
  <2>4. ConnectingIsFounded'
    BY <1>2, <2>2 DEF Waited, RequestEnds, ConnectingIsFounded, clientVars
  <2>5. HelloInv'
    BY <1>2, <2>1, <1>a DEF Waited, RequestEnds, TypeOK, HelloInv
  <2>6. QED
    BY <2>3, <2>4, <2>5
<1>3. ASSUME NEW c \in Calls,
             \/ ControlConnects(c) \/ StreamConnects(c) \/ ProbeConnects(c)
      PROVE  BaseInv'
  <2>1. PICK s \in Socks, hello \in {"hello", "streamHello", "probeHello"} :
          /\ Opens(s) /\ Sends(c, hello, s)
          /\ control' \in {control, s} /\ stream' \in {stream, s}
          /\ UNCHANGED <<state, armed, controlAuth, streamAuth, told>>
    BY <1>3 DEF ControlConnects, StreamConnects, ProbeConnects
  <2>2. hello \in Stage
    BY DEF Stage, EnsureStage, ProbeStage
  <2>3. /\ call' \in [Calls -> CallRec]
        /\ call'[c].pc = hello /\ call'[c].on = s
        /\ \A d \in Calls \ {c} : call'[d] = call[d]
    BY <2>1, <2>2, SendsType
  <2>4. Attempting \subseteq Attempting' /\ HelloInv'
    BY <2>3 DEF Attempting, EnsureStage, ProbeStage, HelloInv
  <2>5. TypeOK'
    BY <2>1, <2>3, OpensType DEF TypeOK
  <2>6. QED
    BY <2>1, <2>4, <2>5 DEF ConnectingIsFounded
<1>4. ASSUME NEW c \in Calls, ControlWelcomed(c) PROVE BaseInv'
  <2>1. "stream" \in Stage
    BY DEF Stage, EnsureStage
  <2>2. /\ call' \in [Calls -> CallRec]
        /\ call'[c].pc = "stream"
        /\ \A d \in Calls \ {c} : call'[d] = call[d]
    BY <1>4, <2>1, SendsType DEF ControlWelcomed
  <2>3. Attempting \subseteq Attempting' /\ HelloInv'
    BY <2>2 DEF Attempting, EnsureStage, HelloInv
  <2>4. TypeOK' /\ state' = state
    BY <1>4, <2>2 DEF ControlWelcomed, TypeOK, sockVars
  <2>5. QED
    BY <2>3, <2>4 DEF ConnectingIsFounded
<1>5. ASSUME NEW c \in Calls, ControlRefused(c) \/ Spawned(c) \/ Restarted(c) PROVE BaseInv'
  <2>1. PICK stage \in {"spawning", "respawned", "control"} : call' = [call EXCEPT ![c].pc = stage]
    BY <1>5 DEF ControlRefused, Spawned, Restarted
  <2>2. stage \in Stage
    BY DEF Stage, EnsureStage
  <2>3. call' \in [Calls -> CallRec]
    BY <2>1, <2>2 DEF TypeOK, CallRec
  <2>4. Attempting \subseteq Attempting' /\ HelloInv'
    BY <2>1 DEF TypeOK, CallRec, Attempting, EnsureStage, HelloInv
  <2>5. TypeOK' /\ state' = state
    BY <1>5, <2>3 DEF ControlRefused, Spawned, Restarted, TypeOK, clientVars, sockVars
  <2>6. QED
    BY <2>4, <2>5 DEF ConnectingIsFounded
<1>6. ASSUME NEW c \in Calls, DaemonAccepts(c) PROVE BaseInv'
  <2>1. call[c].on \in Socks
    BY <1>6 DEF DaemonAccepts, HelloInv
  <2>2. QED
    BY <1>6, <2>1 DEF DaemonAccepts, TypeOK, ConnectingIsFounded, Attempting, HelloInv, clientVars
<1>7. ASSUME NEW c \in Calls, RestartsDaemon(c) PROVE BaseInv'
  <2>1. [pc |-> "restarting", on |-> None, attempt |-> 1] \in CallRec
    BY DEF CallRec, Stage, EnsureStage
  <2>2. QED
    BY <1>7, <2>1, QuietBase DEF RestartsDaemon
<1>8. ASSUME NEW c \in Calls, AttemptFails(c) PROVE BaseInv'
  BY <1>8, <1>a, QuietBase DEF AttemptFails
<1>9. ASSUME NEW c \in Calls, StreamWelcomed(c) PROVE BaseInv'
  <2>1. Begin("request") \in CallRec /\ Begin("request").pc = "request"
    BY BeginType, StageFacts
  <2>2. HelloInv'
    BY <1>9, <2>1, <1>a DEF StreamWelcomed, TypeOK, HelloInv
  <2>3. QED
    BY <1>9, <2>1, <2>2, <1>a DEF StreamWelcomed, HandlesEvents, TypeOK, ConnectingIsFounded
<1>10. ASSUME NEW c \in Calls, Probe(c) PROVE BaseInv'
  <2>1. Begin("probing") \in CallRec /\ Begin("probing").pc = "probing"
    BY BeginType, StageFacts DEF ProbeStage
  <2>2. QED
    BY <1>10, <2>1 DEF Probe, TypeOK, ConnectingIsFounded, Attempting, ProbeStage, HelloInv,
      sockVars
<1>11. ASSUME NEW c \in Calls, ProbeWelcomed(c) PROVE BaseInv'
  BY <1>11, <1>a DEF ProbeWelcomed, TypeOK, ConnectingIsFounded, HelloInv, sockVars
<1>12. ASSUME NEW s \in Socks, SocketCloses(s) PROVE BaseInv'
  <2>1. CASE s \in {control, stream} /\ ~armed
    <3>1. Reset(None, Idle) /\ armed' = TRUE /\ told' = TRUE
          /\ sock' = [t \in Socks |-> IF t = s THEN "closed" ELSE Destroyed(t)]
      BY <1>12, <2>1 DEF SocketCloses
    <3>2. sock' \in [Socks -> {"open", "ended", "destroyed", "closed"}]
      BY <3>1, DestroyedType
    <3>3. HelloInv' /\ call' \in [Calls -> CallRec] /\ state' = "disconnected"
          /\ control' = None /\ stream' = None /\ controlAuth' = FALSE /\ streamAuth' = FALSE
      BY <3>1, <1>a, ResetBase
    <3>4. QED
      BY <3>1, <3>2, <3>3 DEF Reset, TypeOK, ConnectingIsFounded
  <2>2. CASE ~(s \in {control, stream} /\ ~armed)
    BY <1>12, <2>2 DEF SocketCloses, TypeOK, ConnectingIsFounded, Attempting, HelloInv, clientVars
  <2>3. QED
    BY <2>1, <2>2
<1>13. ASSUME NEW s \in Socks, PeerEnds(s) PROVE BaseInv'
  BY <1>13 DEF PeerEnds, TypeOK, ConnectingIsFounded, Attempting, HelloInv, clientVars
<1>14. CASE UNCHANGED vars
  BY <1>14 DEF vars, clientVars, sockVars, TypeOK, ConnectingIsFounded, Attempting, HelloInv
<1>15. QED
  BY <1>1, <1>2, <1>3, <1>4, <1>5, <1>6, <1>7, <1>8, <1>9, <1>10, <1>11, <1>12, <1>13, <1>14
  DEF Next

\* The types of the connection's state, whatever the daemon and the timeouts do.
THEOREM ClientTypes == Spec => []TypeOK
<1>1. BaseInv => TypeOK
  BY DEF BaseInv
<1>2. QED
  BY <1>1, BaseInit, BaseStep, PTL DEF Spec

\* ensureConnected's wait: it is for an attempt that is under way, with no
\* assumption about overlapping attempts or early closes.
THEOREM WaitIsForAnAttempt == Spec => []ConnectingIsFounded
<1>1. BaseInv => ConnectingIsFounded
  BY DEF BaseInv
<1>2. QED
  BY <1>1, BaseInit, BaseStep, PTL DEF Spec

-----------------------------------------------------------------------------
(* That a usable connection is one, and is not lost in silence.  The       *)
(* invariant says what each stage of the attempt may rely on: nothing of a *)
(* connection that has closed is taken for current, because the flag of    *)
(* handleDisconnect is down whenever a current socket matters.             *)

Assumed == OneAttempt /\ CleanStart

RealControl == ~armed /\ control \in known /\ sock[control] # "closed"
RealStream == ~armed /\ stream \in known /\ sock[stream] # "closed" /\ stream \in read \ twice

\* There is one attempt at most, and none once the client is connected.
AloneInv ==
  /\ \A c, d \in Attempting : c = d
  /\ state = "connected" => Attempting = {}

StartInv ==
  \A c \in Calls :
    /\ call[c].pc \in {"control", "spawning", "respawned"} => ~armed
    /\ call[c].pc = "restarting" => ~armed /\ control = None /\ stream = None

HelloesInv ==
  \A c \in Calls :
    /\ call[c].pc = "hello" =>
         ~armed /\ control = call[c].on /\ sock[control] # "closed"
    /\ call[c].pc = "probeHello" => control = call[c].on

\* The control socket may be lost while the stream socket is set up.
SecondInv ==
  \A c \in Calls :
    /\ call[c].pc = "stream" => control = None \/ RealControl
    /\ call[c].pc = "streamHello" =>
         /\ call[c].on \notin read
         /\ stream \in {call[c].on, None}
         /\ control = None \/ (RealControl /\ stream = call[c].on)

\* An authenticated stream socket that is current works, but while it is replaced.
StreamInv ==
  /\ twice \subseteq read
  /\ streamAuth /\ stream # None =>
       RealStream \/ \E c \in Calls : call[c].pc = "streamHello"

UsableInv == Usable => RealControl

ClientInv ==
  BaseInv /\ AloneInv /\ StartInv /\ HelloesInv /\ SecondInv /\ StreamInv /\ UsableInv

\* What Idle and Begin say of a call.
LEMMA StageOf ==
  /\ Idle.pc = "idle"
  /\ \A stage \in Stage : Begin(stage).pc = stage
  /\ \A stage \in {"idle", "waiting", "request", "control", "spawning", "respawned", "hello",
                   "restarting", "stream", "streamHello", "probing", "probeHello"} : stage \in Stage
BY BeginType, IdleType DEF Stage, EnsureStage, ProbeStage

\* A reset leaves no socket current, and ends what it rejects.
LEMMA ResetAfter ==
  ASSUME BaseInv, NEW c, NEW next, Reset(c, next)
  PROVE  /\ control' = None /\ stream' = None /\ streamAuth' = FALSE
         /\ state' = "disconnected" /\ ~Usable'
         /\ UNCHANGED <<known, read, twice>>
         /\ c \in Calls => call'[c] = next
         /\ \A d \in Calls \ {c} :
              \/ call'[d] = Idle
              \/ call'[d] = call[d] /\ call[d].pc \notin {"hello", "probeHello", "request"}
<1>1. ResetClient
      /\ call' = [d \in Calls |-> IF d = c THEN next ELSE IF d \in Pending THEN Idle ELSE call[d]]
      /\ UNCHANGED <<known, read, twice>>
  BY DEF Reset
<1>2. \A d \in Calls : d \notin Pending => call[d].pc \notin {"hello", "probeHello", "request"}
  BY DEF Pending
<1>3. \A d \in Calls \ {c} : call'[d] = Idle \/ (call'[d] = call[d] /\ d \notin Pending)
  BY <1>1
<1>4. ~Usable'
  BY <1>1 DEF ResetClient, Usable
<1>5. QED
  BY <1>1, <1>2, <1>3, <1>4 DEF ResetClient

\* The close of a socket that is current, while the flag is down.
LEMMA CloseAfter ==
  ASSUME BaseInv, NEW s \in Socks, SocketCloses(s)
  PROVE  \/ /\ s \in {control, stream} /\ ~armed
            /\ Reset(None, Idle) /\ armed' /\ told'
            /\ \A d \in Calls :
                 \/ call'[d] = Idle
                 \/ call'[d] = call[d] /\ call[d].pc \notin {"hello", "probeHello", "request"}
         \/ /\ ~(s \in {control, stream} /\ ~armed)
            /\ UNCHANGED <<clientVars, call, known, read, twice, told>>
            /\ \A t \in Socks \ {s} : sock'[t] = sock[t]
<1>1. CASE s \in {control, stream} /\ ~armed
  <2>1. Reset(None, Idle) /\ armed' /\ told'
    BY <1>1 DEF SocketCloses
  <2>2. \A d \in Calls :
          call'[d] = Idle
          \/ (call'[d] = call[d] /\ call[d].pc \notin {"hello", "probeHello", "request"})
    <3> TAKE d \in Calls
    <3>1. call'[d] = Idle \/ (call'[d] = call[d] /\ d \notin Pending)
      BY <2>1 DEF Reset
    <3>2. QED
      BY <3>1 DEF Pending
  <2>3. QED
    BY <1>1, <2>1, <2>2
<1>2. CASE ~(s \in {control, stream} /\ ~armed)
  BY <1>2 DEF SocketCloses, BaseInv, TypeOK
<1>3. QED
  BY <1>1, <1>2

\* What a call that sends a hello does to the other state.
LEMMA ConnectAfter ==
  ASSUME BaseInv, NEW c \in Calls,
         ControlConnects(c) \/ StreamConnects(c) \/ ProbeConnects(c)
  PROVE  \E s \in Socks :
           /\ Opens(s)
           /\ call'[c].on = s
           /\ \A d \in Calls \ {c} : call'[d] = call[d] /\ call[d].on # s
           /\ UNCHANGED <<state, armed, controlAuth, streamAuth, told>>
           /\ \/ /\ call[c].pc \in {"control", "respawned"} /\ call'[c].pc = "hello"
                 /\ control' = s /\ stream' = stream
              \/ /\ call[c].pc = "stream" /\ call'[c].pc = "streamHello"
                 /\ control' = control /\ stream' = s
              \/ /\ call[c].pc = "probing" /\ call'[c].pc = "probeHello"
                 /\ control' = s /\ stream' = stream
<1>1. PICK s \in Socks, hello \in {"hello", "streamHello", "probeHello"} :
        /\ Opens(s) /\ Sends(c, hello, s)
        /\ UNCHANGED <<state, armed, controlAuth, streamAuth, told>>
        /\ \/ /\ call[c].pc \in {"control", "respawned"} /\ hello = "hello"
              /\ control' = s /\ stream' = stream
           \/ /\ call[c].pc = "stream" /\ hello = "streamHello"
              /\ control' = control /\ stream' = s
           \/ /\ call[c].pc = "probing" /\ hello = "probeHello"
              /\ control' = s /\ stream' = stream
  BY DEF ControlConnects, StreamConnects, ProbeConnects
<1>2. call'[c].pc = hello /\ call'[c].on = s /\ \A d \in Calls \ {c} : call'[d] = call[d]
  BY <1>1, SendsType, StageOf DEF BaseInv
<1>3. \A d \in Calls : call[d].on # s
  BY <1>1 DEF Opens, Fresh
<1>4. QED
  BY <1>1, <1>2, <1>3

LEMMA OpensAfter ==
  ASSUME BaseInv, NEW s \in Socks, Opens(s)
  PROVE  /\ sock'[s] = "open" /\ s \notin {control, stream}
         /\ s \notin known' /\ s \notin read' /\ s \notin twice'
         /\ \A t \in Socks \ {s} :
              /\ sock'[t] = sock[t]
              /\ t \in known' <=> t \in known
              /\ t \in read' <=> t \in read
              /\ t \in twice' <=> t \in twice
BY DEF Opens, Fresh, BaseInv, TypeOK

\* The calls a step touches: one, or those a reset rejects.
LEMMA AloneStep ==
  ASSUME BaseInv, AloneInv, OneAttempt, [Next]_vars
  PROVE  AloneInv'
<1> USE DEF BaseInv, TypeOK
<1>1. ASSUME NEW c \in Calls, EnsureConnected(c) PROVE AloneInv'
  BY <1>1, StageOf DEF EnsureConnected, AloneInv, Attempting, MayAttempt, EnsureStage, ProbeStage
<1>2. ASSUME NEW c \in Calls, Waited(c) \/ RequestEnds(c) PROVE AloneInv'
  BY <1>2, StageOf DEF Waited, RequestEnds, clientVars, AloneInv, Attempting, EnsureStage,
    ProbeStage
<1>3. ASSUME NEW c \in Calls, ControlConnects(c) \/ StreamConnects(c) \/ ProbeConnects(c)
      PROVE  AloneInv'
  BY <1>3, ConnectAfter DEF AloneInv, Attempting, EnsureStage, ProbeStage
<1>4. ASSUME NEW c \in Calls, ControlWelcomed(c) PROVE AloneInv'
  BY <1>4, SendsType, StageOf DEF ControlWelcomed, AloneInv, Attempting, EnsureStage, ProbeStage
<1>5. ASSUME NEW c \in Calls, ControlRefused(c) \/ Spawned(c) \/ Restarted(c) PROVE AloneInv'
  BY <1>5 DEF ControlRefused, Spawned, Restarted, clientVars, CallRec, AloneInv, Attempting,
    EnsureStage, ProbeStage
<1>6. ASSUME NEW c \in Calls, DaemonAccepts(c) PROVE AloneInv'
  BY <1>6 DEF DaemonAccepts, clientVars, AloneInv, Attempting
<1>7. ASSUME NEW c \in Calls, RestartsDaemon(c) \/ AttemptFails(c) PROVE AloneInv'
  <2>1. PICK next : Reset(c, next) /\ c \in Attempting
    BY <1>7 DEF RestartsDaemon, AttemptFails, QuietReset, Attempting, EnsureStage
  <2>2. Attempting' \subseteq Attempting /\ state' = "disconnected"
    <3>1. state' = "disconnected" /\ \A d \in Calls \ {c} : call'[d] = Idle \/ call'[d] = call[d]
      BY <2>1, ResetAfter
    <3>2. QED
      BY <2>1, <3>1, StageOf DEF Attempting, EnsureStage, ProbeStage
  <2>3. QED
    BY <2>2 DEF AloneInv
<1>9. ASSUME NEW c \in Calls, StreamWelcomed(c) \/ ProbeWelcomed(c) PROVE AloneInv'
  BY <1>9, StageOf DEF StreamWelcomed, ProbeWelcomed, AloneInv, Attempting, EnsureStage, ProbeStage
<1>10. ASSUME NEW c \in Calls, Probe(c) PROVE AloneInv'
  BY <1>10, StageOf DEF Probe, AloneInv, Attempting, MayAttempt, EnsureStage, ProbeStage
<1>11. ASSUME NEW s \in Socks, SocketCloses(s) PROVE AloneInv'
  <2>1. CASE Reset(None, Idle) /\ \A d \in Calls : call'[d] = Idle \/ call'[d] = call[d]
    <3>1. Attempting' \subseteq Attempting
      BY <2>1, StageOf DEF Attempting, EnsureStage, ProbeStage
    <3>2. QED
      BY <2>1, <3>1, ResetAfter DEF AloneInv
  <2>2. CASE UNCHANGED clientVars /\ UNCHANGED call
    BY <2>2 DEF clientVars, AloneInv, Attempting
  <2>3. QED
    BY <1>11, <2>1, <2>2, CloseAfter
<1>12. ASSUME NEW s \in Socks, PeerEnds(s) PROVE AloneInv'
  BY <1>12 DEF PeerEnds, clientVars, AloneInv, Attempting
<1>13. CASE UNCHANGED vars
  BY <1>13 DEF vars, clientVars, AloneInv, Attempting
<1>14. QED
  BY <1>1, <1>2, <1>3, <1>4, <1>5, <1>6, <1>7, <1>9, <1>10, <1>11, <1>12, <1>13 DEF Next

\* What the actions that reset the connection without a word have in common.
LEMMA QuietAfter ==
  ASSUME BaseInv, NEW c \in Calls, RestartsDaemon(c) \/ AttemptFails(c)
  PROVE  /\ c \in Attempting
         /\ control' = None /\ stream' = None /\ streamAuth' = FALSE /\ ~Usable'
         /\ UNCHANGED <<armed, told, known, read, twice>>
         /\ call'[c].pc \in {"restarting", "idle"}
         /\ call'[c].pc = "restarting" => call[c].pc \in {"control", "respawned", "hello"}
         /\ \A d \in Calls \ {c} :
              \/ call'[d].pc = "idle"
              \/ call'[d] = call[d] /\ call[d].pc \notin {"hello", "probeHello", "request"}
<1>1. PICK next :
        /\ Reset(c, next) /\ UNCHANGED <<armed, told>> /\ c \in Attempting
        /\ \/ next = Idle
           \/ next.pc = "restarting" /\ call[c].pc \in {"control", "respawned", "hello"}
  BY DEF RestartsDaemon, AttemptFails, QuietReset, Attempting, EnsureStage
<1>2. QED
  BY <1>1, ResetAfter, StageOf

\* Calls that are at none of the stages the invariant speaks of.
LEMMA PlainAfter ==
  ASSUME BaseInv, NEW c \in Calls, EnsureConnected(c) \/ Waited(c) \/ RequestEnds(c) \/ Probe(c)
  PROVE  /\ \A d \in Calls \ {c} : call'[d] = call[d]
         /\ call[c].pc \in {"idle", "waiting", "request"}
         /\ call'[c].pc \in {"idle", "waiting", "request", "control", "probing"}
         /\ call'[c].pc = "control" => ~armed'
         /\ ~armed => ~armed'
         /\ UNCHANGED <<control, stream, controlAuth, streamAuth, sockVars, told>>
         /\ \/ ~Usable /\ ~Usable'
            \/ UNCHANGED <<state, armed>>
<1>1. CASE EnsureConnected(c)
  BY <1>1, StageOf DEF EnsureConnected, BaseInv, TypeOK, Usable
<1>2. CASE Waited(c) \/ RequestEnds(c)
  BY <1>2, StageOf DEF Waited, RequestEnds, BaseInv, TypeOK, clientVars
<1>3. CASE Probe(c)
  BY <1>3, StageOf DEF Probe, BaseInv, TypeOK, Usable
<1>4. QED
  BY <1>1, <1>2, <1>3

\* An attempt goes on, and nothing but its stage and the daemon's view changes.
LEMMA AdvanceAfter ==
  ASSUME BaseInv, NEW c \in Calls,
         \/ ControlRefused(c) \/ Spawned(c) \/ Restarted(c) \/ DaemonAccepts(c)
         \/ ControlWelcomed(c)
  PROVE  /\ \A d \in Calls \ {c} : call'[d] = call[d]
         /\ UNCHANGED <<state, armed, control, stream, streamAuth, sock, read, twice, told>>
         /\ known \subseteq known'
         /\ c \in Attempting
         /\ \/ /\ call[c].pc \in {"control", "spawning", "restarting"}
               /\ call'[c].pc \in {"control", "spawning", "respawned"}
            \/ call'[c] = call[c] /\ call[c].pc \in {"hello", "streamHello", "probeHello"}
            \/ /\ call[c].pc = "hello" /\ call'[c].pc = "stream"
               /\ call[c].on \in known'
               /\ sock[call[c].on] \in {"open", "ended"}
<1>1. CASE ControlRefused(c) \/ Spawned(c) \/ Restarted(c)
  BY <1>1 DEF ControlRefused, Spawned, Restarted, BaseInv, TypeOK, CallRec, clientVars, sockVars,
    Attempting, EnsureStage
<1>2. CASE DaemonAccepts(c)
  BY <1>2 DEF DaemonAccepts, clientVars, Attempting, EnsureStage, ProbeStage
<1>3. CASE ControlWelcomed(c)
  BY <1>3, SendsType, StageOf DEF ControlWelcomed, Welcomed, BaseInv, sockVars, Attempting,
    EnsureStage
<1>4. QED
  BY <1>1, <1>2, <1>3

\* An attempt ends well.
LEMMA WelcomeAfter ==
  ASSUME BaseInv, NEW c \in Calls, StreamWelcomed(c) \/ ProbeWelcomed(c)
  PROVE  /\ \A d \in Calls \ {c} : call'[d] = call[d]
         /\ c \in Attempting
         /\ call'[c].pc \in {"idle", "request"}
         /\ call[c].pc \in {"streamHello", "probeHello"}
         /\ call[c].on \in known /\ sock[call[c].on] \in {"open", "ended"}
         /\ ~armed => ~armed'
         /\ UNCHANGED <<control, stream, sock, known>>
BY StageOf DEF StreamWelcomed, ProbeWelcomed, Welcomed, BaseInv, TypeOK, Attempting, EnsureStage,
  ProbeStage, sockVars

\* The daemon ends a connection; the client has not noticed yet.
LEMMA PeerAfter ==
  ASSUME BaseInv, NEW s \in Socks, PeerEnds(s)
  PROVE  /\ UNCHANGED <<clientVars, call, known, read, twice, told>>
         /\ sock'[s] = "ended" /\ \A t \in Socks \ {s} : sock'[t] = sock[t]
BY DEF PeerEnds, BaseInv, TypeOK

LEMMA NextActions ==
  ASSUME [Next]_vars
  PROVE  \/ \E c \in Calls : EnsureConnected(c) \/ Waited(c) \/ RequestEnds(c) \/ Probe(c)
         \/ \E c \in Calls : ControlConnects(c) \/ StreamConnects(c) \/ ProbeConnects(c)
         \/ \E c \in Calls : \/ ControlRefused(c) \/ Spawned(c) \/ Restarted(c)
                             \/ DaemonAccepts(c) \/ ControlWelcomed(c)
         \/ \E c \in Calls : RestartsDaemon(c) \/ AttemptFails(c)
         \/ \E c \in Calls : StreamWelcomed(c) \/ ProbeWelcomed(c)
         \/ \E s \in Socks : SocketCloses(s)
         \/ \E s \in Socks : PeerEnds(s)
         \/ UNCHANGED vars
BY DEF Next

\* What a stage of an attempt says of the other calls: they are at none.
LEMMA OnlyOne ==
  ASSUME AloneInv, NEW c \in Attempting
  PROVE  /\ \A d \in Calls \ {c} :
              call[d].pc \notin {"control", "spawning", "respawned", "hello", "restarting",
                                 "stream", "streamHello", "probing", "probeHello"}
         /\ ~Usable
BY DEF AloneInv, Attempting, EnsureStage, ProbeStage, Usable

LEMMA AttemptingStages ==
  ASSUME NEW c \in Calls,
         call[c].pc \in {"control", "spawning", "respawned", "hello", "restarting", "stream",
                         "streamHello", "probing", "probeHello"}
  PROVE  c \in Attempting
BY DEF Attempting, EnsureStage, ProbeStage

-----------------------------------------------------------------------------
(* The loss of a usable connection is told: whatever resets it in silence is *)
(* an attempt, and while one is under way there is no usable connection.     *)

LEMMA ToldStep ==
  ASSUME BaseInv, AloneInv, NoSilentLoss, OneAttempt, [Next]_vars
  PROVE  NoSilentLoss'
<1>1. ASSUME NEW c \in Calls,
             EnsureConnected(c) \/ Waited(c) \/ RequestEnds(c) \/ Probe(c)
      PROVE  NoSilentLoss'
  BY <1>1, PlainAfter DEF NoSilentLoss, Usable
<1>2. ASSUME NEW c \in Calls,
             \/ ControlConnects(c) \/ StreamConnects(c) \/ ProbeConnects(c)
             \/ ControlRefused(c) \/ Spawned(c) \/ Restarted(c) \/ DaemonAccepts(c)
             \/ ControlWelcomed(c) \/ RestartsDaemon(c) \/ AttemptFails(c)
      PROVE  NoSilentLoss'
  <2>1. c \in Attempting /\ told' = told
    BY <1>2, ConnectAfter, AdvanceAfter, QuietAfter, AttemptingStages
  <2>2. told
    BY <2>1, OnlyOne DEF NoSilentLoss
  <2>3. QED
    BY <2>1, <2>2 DEF NoSilentLoss
<1>3. ASSUME NEW c \in Calls, StreamWelcomed(c) \/ ProbeWelcomed(c) PROVE NoSilentLoss'
  <2>1. told
    BY <1>3, WelcomeAfter, OnlyOne DEF NoSilentLoss
  <2>2. CASE ProbeWelcomed(c)
    BY <2>1, <2>2 DEF ProbeWelcomed, NoSilentLoss
  <2>3. CASE StreamWelcomed(c)
    <3>1. /\ state' = "connected" /\ streamAuth'
          /\ control' = control /\ stream' = stream /\ controlAuth' = controlAuth
          /\ told' = (told /\ ~(control # None /\ stream # None /\ controlAuth))
      BY <2>3 DEF StreamWelcomed
    <3>2. CASE control # None /\ stream # None /\ controlAuth
      BY <3>1, <3>2 DEF NoSilentLoss, Usable
    <3>3. CASE ~(control # None /\ stream # None /\ controlAuth)
      BY <2>1, <3>1, <3>3 DEF NoSilentLoss
    <3>4. QED
      BY <3>2, <3>3
  <2>4. QED
    BY <1>3, <2>2, <2>3
<1>4. ASSUME NEW s \in Socks, SocketCloses(s) PROVE NoSilentLoss'
  BY <1>4, CloseAfter DEF NoSilentLoss, Usable, clientVars
<1>5. ASSUME NEW s \in Socks, PeerEnds(s) PROVE NoSilentLoss'
  BY <1>5, PeerAfter DEF NoSilentLoss, Usable, clientVars
<1>6. CASE UNCHANGED vars
  BY <1>6 DEF vars, clientVars, NoSilentLoss, Usable
<1>7. QED
  BY <1>1, <1>2, <1>3, <1>4, <1>5, <1>6, NextActions

\* "Reset without emitting disconnected (connection never became usable)" is so as
\* long as no attempt begins while another is under way; sockets may close at any
\* time, those of an earlier connection too.
THEOREM LossIsTold == OneAttempt => (Spec => []NoSilentLoss)
<1> SUFFICES ASSUME OneAttempt PROVE Spec => []NoSilentLoss
  OBVIOUS
<1>1. Init => AloneInv /\ NoSilentLoss
  <2>1. Init => \A c \in Calls : call[c].pc = "idle"
    BY StageOf DEF Init
  <2>2. QED
    BY <2>1 DEF Init, AloneInv, Attempting, EnsureStage, ProbeStage, NoSilentLoss
<1>2. BaseInv /\ AloneInv /\ NoSilentLoss /\ [Next]_vars
        => BaseInv' /\ AloneInv' /\ NoSilentLoss'
  BY BaseStep, AloneStep, ToldStep
<1>3. QED
  BY <1>1, <1>2, BaseInit, PTL DEF Spec

-----------------------------------------------------------------------------
(* That what is taken for usable is a connection *)

\* The flag is down while the control socket is being connected.
LEMMA StartStep ==
  ASSUME ClientInv, Assumed, [Next]_vars
  PROVE  StartInv'
<1>0. BaseInv /\ AloneInv /\ StartInv /\ HelloesInv /\ SecondInv /\ StreamInv /\ UsableInv
  BY DEF ClientInv
<1>1. ASSUME NEW c \in Calls,
             EnsureConnected(c) \/ Waited(c) \/ RequestEnds(c) \/ Probe(c) PROVE StartInv'
  BY <1>0, <1>1, PlainAfter DEF StartInv
<1>2. ASSUME NEW c \in Calls,
             ControlConnects(c) \/ StreamConnects(c) \/ ProbeConnects(c) PROVE StartInv'
  <2>1. c \in Attempting
    BY <1>0, <1>2, ConnectAfter, AttemptingStages
  <2>2. QED
    BY <1>0, <1>2, <2>1, ConnectAfter, OnlyOne DEF StartInv
<1>3. ASSUME NEW c \in Calls,
             \/ ControlRefused(c) \/ Spawned(c) \/ Restarted(c) \/ DaemonAccepts(c)
             \/ ControlWelcomed(c)
      PROVE  StartInv'
  BY <1>0, <1>3, AdvanceAfter DEF StartInv
<1>4. ASSUME NEW c \in Calls, RestartsDaemon(c) \/ AttemptFails(c) PROVE StartInv'
  BY <1>0, <1>4, QuietAfter DEF StartInv, HelloesInv
<1>5. ASSUME NEW c \in Calls, StreamWelcomed(c) \/ ProbeWelcomed(c) PROVE StartInv'
  BY <1>0, <1>5, WelcomeAfter DEF StartInv
<1>6. ASSUME NEW s \in Socks, SocketCloses(s) PROVE StartInv'
  <2>1. CASE s \in {control, stream} /\ ~armed
    <3>1. Starting = {}
      BY <1>6, <2>1 DEF SocketCloses, MayClose, Assumed
    <3>2. \A d \in Calls : call'[d] = Idle \/ call'[d] = call[d]
      BY <1>0, <1>6, <2>1, CloseAfter
    <3>3. ASSUME NEW d \in Calls, call'[d].pc # "idle"
          PROVE  call'[d].pc \notin {"control", "spawning", "respawned", "restarting"}
      BY <1>0, <2>1, <3>1, <3>2, <3>3, NoneAssumption, StageOf DEF Starting, StartInv
    <3>4. QED
      BY <3>3 DEF StartInv
  <2>2. CASE ~(s \in {control, stream} /\ ~armed)
    BY <1>0, <1>6, <2>2, CloseAfter DEF clientVars, StartInv
  <2>3. QED
    BY <2>1, <2>2
<1>7. ASSUME NEW s \in Socks, PeerEnds(s) PROVE StartInv'
  BY <1>0, <1>7, PeerAfter DEF clientVars, StartInv
<1>8. CASE UNCHANGED vars
  BY <1>0, <1>8 DEF vars, clientVars, sockVars, StartInv
<1>9. QED
  BY <1>1, <1>2, <1>3, <1>4, <1>5, <1>6, <1>7, <1>8, NextActions

\* The control socket a hello was sent on is current, and open as far as is known.
LEMMA HelloesStep ==
  ASSUME ClientInv, Assumed, [Next]_vars
  PROVE  HelloesInv'
<1>0. BaseInv /\ AloneInv /\ StartInv /\ HelloesInv /\ SecondInv /\ StreamInv /\ UsableInv
  BY DEF ClientInv
<1>1. ASSUME NEW c \in Calls,
             EnsureConnected(c) \/ Waited(c) \/ RequestEnds(c) \/ Probe(c) PROVE HelloesInv'
  BY <1>0, <1>1, PlainAfter DEF HelloesInv, sockVars
<1>2. ASSUME NEW c \in Calls,
             ControlConnects(c) \/ StreamConnects(c) \/ ProbeConnects(c) PROVE HelloesInv'
  <2>1. c \in Attempting
    BY <1>0, <1>2, ConnectAfter, AttemptingStages
  <2>2. PICK s \in Socks :
          /\ Opens(s) /\ call'[c].on = s
          /\ \A d \in Calls \ {c} : call'[d] = call[d]
          /\ armed' = armed
          /\ \/ /\ call[c].pc \in {"control", "respawned"} /\ call'[c].pc = "hello"
                /\ control' = s
             \/ call'[c].pc = "streamHello"
             \/ call'[c].pc = "probeHello" /\ control' = s
    BY <1>0, <1>2, ConnectAfter
  <2>3. sock'[s] = "open"
    BY <1>0, <2>2, OpensAfter
  <2>4. QED
    BY <1>0, <2>1, <2>2, <2>3, OnlyOne DEF StartInv, HelloesInv
<1>3. ASSUME NEW c \in Calls,
             \/ ControlRefused(c) \/ Spawned(c) \/ Restarted(c) \/ DaemonAccepts(c)
             \/ ControlWelcomed(c)
      PROVE  HelloesInv'
  BY <1>0, <1>3, AdvanceAfter DEF HelloesInv
<1>4. ASSUME NEW c \in Calls, RestartsDaemon(c) \/ AttemptFails(c) PROVE HelloesInv'
  BY <1>0, <1>4, QuietAfter DEF HelloesInv
<1>5. ASSUME NEW c \in Calls, StreamWelcomed(c) \/ ProbeWelcomed(c) PROVE HelloesInv'
  BY <1>0, <1>5, WelcomeAfter DEF HelloesInv
<1>6. ASSUME NEW s \in Socks, SocketCloses(s) PROVE HelloesInv'
  <2>1. CASE s \in {control, stream} /\ ~armed
    BY <1>0, <1>6, <2>1, CloseAfter, ResetAfter, StageOf DEF HelloesInv, BaseInv, HelloInv
  <2>2. CASE ~(s \in {control, stream} /\ ~armed)
    BY <1>0, <1>6, <2>2, CloseAfter DEF clientVars, HelloesInv, BaseInv, HelloInv
  <2>3. QED
    BY <2>1, <2>2
<1>7. ASSUME NEW s \in Socks, PeerEnds(s) PROVE HelloesInv'
  BY <1>0, <1>7, PeerAfter DEF clientVars, HelloesInv, BaseInv, HelloInv
<1>8. CASE UNCHANGED vars
  BY <1>0, <1>8 DEF vars, clientVars, sockVars, HelloesInv
<1>9. QED
  BY <1>1, <1>2, <1>3, <1>4, <1>5, <1>6, <1>7, <1>8, NextActions

\* What is left of the connection while the stream socket is set up.
LEMMA SecondStep ==
  ASSUME ClientInv, Assumed, [Next]_vars
  PROVE  SecondInv'
<1>0. BaseInv /\ AloneInv /\ StartInv /\ HelloesInv /\ SecondInv /\ StreamInv /\ UsableInv
  BY DEF ClientInv
<1>1. ASSUME NEW c \in Calls,
             EnsureConnected(c) \/ Waited(c) \/ RequestEnds(c) \/ Probe(c) PROVE SecondInv'
  <2>1. RealControl => RealControl'
    BY <1>0, <1>1, PlainAfter DEF RealControl, sockVars
  <2>2. QED
    BY <1>0, <1>1, <2>1, PlainAfter DEF SecondInv, sockVars
<1>2. ASSUME NEW c \in Calls,
             ControlConnects(c) \/ StreamConnects(c) \/ ProbeConnects(c) PROVE SecondInv'
  <2>1. c \in Attempting
    BY <1>0, <1>2, ConnectAfter, AttemptingStages
  <2>2. PICK s \in Socks :
          /\ Opens(s) /\ call'[c].on = s
          /\ \A d \in Calls \ {c} : call'[d] = call[d]
          /\ armed' = armed
          /\ \/ call'[c].pc \in {"hello", "probeHello"}
             \/ /\ call[c].pc = "stream" /\ call'[c].pc = "streamHello"
                /\ control' = control /\ stream' = s
    BY <1>0, <1>2, ConnectAfter
  <2>3. control = None \/ RealControl => control' = None \/ RealControl' \/ control' # control
    BY <1>0, <2>2, OpensAfter DEF RealControl, BaseInv, TypeOK
  <2>4. QED
    BY <1>0, <2>1, <2>2, <2>3, OnlyOne, OpensAfter DEF SecondInv
<1>3. ASSUME NEW c \in Calls,
             \/ ControlRefused(c) \/ Spawned(c) \/ Restarted(c) \/ DaemonAccepts(c)
             \/ ControlWelcomed(c)
      PROVE  SecondInv'
  <2>1. RealControl => RealControl'
    BY <1>0, <1>3, AdvanceAfter DEF RealControl
  <2>2. call[c].pc = "hello" /\ call'[c].pc = "stream" => RealControl'
    BY <1>0, <1>3, AdvanceAfter DEF RealControl, HelloesInv
  <2>3. QED
    BY <1>0, <1>3, <2>1, <2>2, AdvanceAfter DEF SecondInv
<1>4. ASSUME NEW c \in Calls, RestartsDaemon(c) \/ AttemptFails(c) PROVE SecondInv'
  BY <1>0, <1>4, QuietAfter DEF SecondInv
<1>5. ASSUME NEW c \in Calls, StreamWelcomed(c) \/ ProbeWelcomed(c) PROVE SecondInv'
  <2>1. c \in Attempting
    BY <1>0, <1>5, WelcomeAfter
  <2>2. \A d \in Calls : call'[d].pc \notin {"stream", "streamHello"}
    BY <1>0, <1>5, <2>1, WelcomeAfter, OnlyOne
  <2>3. QED
    BY <2>2 DEF SecondInv
<1>6. ASSUME NEW s \in Socks, SocketCloses(s) PROVE SecondInv'
  <2>1. CASE s \in {control, stream} /\ ~armed
    BY <1>0, <1>6, <2>1, CloseAfter, ResetAfter, StageOf DEF SecondInv, RealControl, BaseInv, TypeOK
  <2>2. CASE ~(s \in {control, stream} /\ ~armed)
    BY <1>0, <1>6, <2>2, CloseAfter DEF clientVars, SecondInv, RealControl, BaseInv, TypeOK
  <2>3. QED
    BY <2>1, <2>2
<1>7. ASSUME NEW s \in Socks, PeerEnds(s) PROVE SecondInv'
  <2>1. RealControl => RealControl'
    BY <1>0, <1>7, PeerAfter DEF clientVars, RealControl, BaseInv, TypeOK
  <2>2. QED
    BY <1>0, <1>7, <2>1, PeerAfter DEF clientVars, SecondInv
<1>8. CASE UNCHANGED vars
  BY <1>0, <1>8 DEF vars, clientVars, sockVars, SecondInv, RealControl
<1>9. QED
  BY <1>1, <1>2, <1>3, <1>4, <1>5, <1>6, <1>7, <1>8, NextActions

\* An authenticated stream socket that is current works, but while it is replaced.
LEMMA StreamStep ==
  ASSUME ClientInv, Assumed, [Next]_vars
  PROVE  StreamInv'
<1>0. BaseInv /\ AloneInv /\ StartInv /\ HelloesInv /\ SecondInv /\ StreamInv /\ UsableInv
  BY DEF ClientInv
<1>1. ASSUME NEW c \in Calls,
             EnsureConnected(c) \/ Waited(c) \/ RequestEnds(c) \/ Probe(c) PROVE StreamInv'
  <2>1. RealStream => RealStream'
    BY <1>0, <1>1, PlainAfter DEF RealStream, sockVars
  <2>2. QED
    BY <1>0, <1>1, <2>1, PlainAfter DEF StreamInv, sockVars
<1>2. ASSUME NEW c \in Calls,
             ControlConnects(c) \/ StreamConnects(c) \/ ProbeConnects(c) PROVE StreamInv'
  <2>1. PICK s \in Socks :
          /\ Opens(s)
          /\ \A d \in Calls \ {c} : call'[d] = call[d]
          /\ armed' = armed /\ streamAuth' = streamAuth
          /\ \/ call[c].pc # "streamHello" /\ stream' = stream
             \/ call'[c].pc = "streamHello" /\ stream' = s
    BY <1>0, <1>2, ConnectAfter
  <2>2. twice' \subseteq read'
    BY <1>0, <2>1, OpensAfter DEF StreamInv, Opens
  <2>3. stream' = stream /\ RealStream => RealStream'
    BY <1>0, <2>1, OpensAfter DEF RealStream, BaseInv, TypeOK
  <2>4. QED
    BY <1>0, <2>1, <2>2, <2>3 DEF StreamInv
<1>3. ASSUME NEW c \in Calls,
             \/ ControlRefused(c) \/ Spawned(c) \/ Restarted(c) \/ DaemonAccepts(c)
             \/ ControlWelcomed(c)
      PROVE  StreamInv'
  BY <1>0, <1>3, AdvanceAfter DEF StreamInv, RealStream
<1>4. ASSUME NEW c \in Calls, RestartsDaemon(c) \/ AttemptFails(c) PROVE StreamInv'
  BY <1>0, <1>4, QuietAfter DEF StreamInv
<1>5. ASSUME NEW c \in Calls, StreamWelcomed(c) \/ ProbeWelcomed(c) PROVE StreamInv'
  <2>1. CASE StreamWelcomed(c)
    <3>1. stream = None \/ stream = call[c].on
      BY <1>0, <2>1 DEF SecondInv, StreamWelcomed
    <3>2. stream # None => RealStream'
      BY <1>0, <2>1, <3>1 DEF StreamWelcomed, HandlesEvents, Welcomed, SecondInv, StreamInv,
        RealStream
    <3>3. twice' \subseteq read' /\ stream' = stream
      BY <1>0, <2>1 DEF StreamWelcomed, HandlesEvents, StreamInv
    <3>4. QED
      BY <3>2, <3>3 DEF StreamInv
  <2>2. CASE ProbeWelcomed(c)
    <3>1. \A d \in Calls : call[d].pc = "streamHello" => call'[d] = call[d]
      BY <1>0, <2>2 DEF ProbeWelcomed, BaseInv, TypeOK
    <3>2. QED
      BY <1>0, <2>2, <3>1 DEF ProbeWelcomed, StreamInv, RealStream, sockVars
  <2>3. QED
    BY <1>5, <2>1, <2>2
<1>6. ASSUME NEW s \in Socks, SocketCloses(s) PROVE StreamInv'
  <2>1. CASE s \in {control, stream} /\ ~armed
    BY <1>0, <1>6, <2>1, CloseAfter, ResetAfter, StageOf DEF StreamInv, RealStream, BaseInv, TypeOK
  <2>2. CASE ~(s \in {control, stream} /\ ~armed)
    BY <1>0, <1>6, <2>2, CloseAfter DEF clientVars, StreamInv, RealStream, BaseInv, TypeOK
  <2>3. QED
    BY <2>1, <2>2
<1>7. ASSUME NEW s \in Socks, PeerEnds(s) PROVE StreamInv'
  <2>1. RealStream => RealStream'
    BY <1>0, <1>7, PeerAfter DEF clientVars, RealStream, BaseInv, TypeOK
  <2>2. QED
    BY <1>0, <1>7, <2>1, PeerAfter DEF clientVars, StreamInv
<1>8. CASE UNCHANGED vars
  BY <1>0, <1>8 DEF vars, clientVars, sockVars, StreamInv, RealStream
<1>9. QED
  BY <1>1, <1>2, <1>3, <1>4, <1>5, <1>6, <1>7, <1>8, NextActions

\* A usable connection has a control socket that works.
LEMMA UsableStep ==
  ASSUME ClientInv, Assumed, [Next]_vars
  PROVE  UsableInv'
<1>0. BaseInv /\ AloneInv /\ StartInv /\ HelloesInv /\ SecondInv /\ StreamInv /\ UsableInv
  BY DEF ClientInv
<1>1. ASSUME NEW c \in Calls,
             EnsureConnected(c) \/ Waited(c) \/ RequestEnds(c) \/ Probe(c) PROVE UsableInv'
  <2>1. RealControl => RealControl'
    BY <1>0, <1>1, PlainAfter DEF RealControl, sockVars
  <2>2. QED
    BY <1>0, <1>1, <2>1, PlainAfter DEF UsableInv, Usable, sockVars
<1>2. ASSUME NEW c \in Calls,
             ControlConnects(c) \/ StreamConnects(c) \/ ProbeConnects(c) PROVE UsableInv'
  <2>1. c \in Attempting
    BY <1>0, <1>2, ConnectAfter, AttemptingStages
  <2>2. state # "connected"
    BY <1>0, <2>1 DEF AloneInv
  <2>3. UNCHANGED state
    BY <1>0, <1>2, ConnectAfter
  <2>4. QED
    BY <1>0, <2>2, <2>3 DEF UsableInv, Usable
<1>3. ASSUME NEW c \in Calls,
             \/ ControlRefused(c) \/ Spawned(c) \/ Restarted(c) \/ DaemonAccepts(c)
             \/ ControlWelcomed(c)
      PROVE  UsableInv'
  <2>1. c \in Attempting /\ UNCHANGED state
    BY <1>0, <1>3, AdvanceAfter
  <2>2. state # "connected"
    BY <1>0, <2>1 DEF AloneInv
  <2>3. QED
    BY <1>0, <2>1, <2>2 DEF UsableInv, Usable
<1>4. ASSUME NEW c \in Calls, RestartsDaemon(c) \/ AttemptFails(c) PROVE UsableInv'
  BY <1>0, <1>4, QuietAfter DEF UsableInv
<1>5. ASSUME NEW c \in Calls, StreamWelcomed(c) \/ ProbeWelcomed(c) PROVE UsableInv'
  <2>1. c \in Attempting
    BY <1>0, <1>5, WelcomeAfter
  <2>3. CASE StreamWelcomed(c)
    <3>1. control = None \/ RealControl
      BY <1>0, <2>3 DEF SecondInv, StreamWelcomed
    <3>2. QED
      BY <2>3, <3>1 DEF StreamWelcomed, UsableInv, RealControl, Usable
  <2>4. CASE ProbeWelcomed(c)
    <3>1. control = call[c].on /\ control \in known /\ sock[control] # "closed"
      BY <1>0, <2>4 DEF ProbeWelcomed, Welcomed, HelloesInv
    <3>2. \A d \in Calls : call[d].pc # "streamHello"
      BY <1>0, <2>1, <2>4, OnlyOne DEF ProbeWelcomed
    <3>3. Usable' => ~armed
      BY <1>0, <2>4, <3>2 DEF ProbeWelcomed, StreamInv, RealStream, Usable
    <3>4. QED
      BY <2>4, <3>1, <3>3 DEF ProbeWelcomed, UsableInv, RealControl, sockVars
  <2>5. QED
    BY <1>5, <2>3, <2>4
<1>6. ASSUME NEW s \in Socks, SocketCloses(s) PROVE UsableInv'
  <2>1. CASE s \in {control, stream} /\ ~armed
    BY <1>0, <1>6, <2>1, CloseAfter, ResetAfter, StageOf DEF UsableInv, RealControl, Usable,
      BaseInv, TypeOK
  <2>2. CASE ~(s \in {control, stream} /\ ~armed)
    <3>1. UNCHANGED <<clientVars, known>> /\ \A t \in Socks \ {s} : sock'[t] = sock[t]
      BY <1>0, <1>6, <2>2, CloseAfter
    <3>2. Usable' => Usable /\ RealControl
      BY <1>0, <3>1 DEF clientVars, UsableInv, Usable
    <3>3. Usable /\ RealControl => RealControl'
      BY <1>0, <2>2, <3>1 DEF clientVars, RealControl, Usable, BaseInv, TypeOK
    <3>4. QED
      BY <3>2, <3>3 DEF UsableInv
  <2>3. QED
    BY <2>1, <2>2
<1>7. ASSUME NEW s \in Socks, PeerEnds(s) PROVE UsableInv'
  <2>1. RealControl => RealControl'
    BY <1>0, <1>7, PeerAfter DEF clientVars, RealControl, BaseInv, TypeOK
  <2>2. QED
    BY <1>0, <1>7, <2>1, PeerAfter DEF clientVars, UsableInv, Usable
<1>8. CASE UNCHANGED vars
  BY <1>0, <1>8 DEF vars, clientVars, sockVars, UsableInv, RealControl, Usable
<1>9. QED
  BY <1>1, <1>2, <1>3, <1>4, <1>5, <1>6, <1>7, <1>8, NextActions

LEMMA ClientInit == Init => ClientInv
<1> SUFFICES ASSUME Init PROVE ClientInv
  OBVIOUS
<1>1. \A c \in Calls : call[c].pc = "idle"
  BY StageOf DEF Init
<1>2. QED
  BY <1>1, BaseInit DEF Init, ClientInv, AloneInv, Attempting, EnsureStage, ProbeStage, StartInv,
    HelloesInv, SecondInv, StreamInv, UsableInv, Usable

LEMMA ClientStep == Assumed /\ ClientInv /\ [Next]_vars => ClientInv'
BY BaseStep, AloneStep, StartStep, HelloesStep, SecondStep, StreamStep, UsableStep
  DEF ClientInv, Assumed

LEMMA ClientInvariant == Assumed => (Spec => []ClientInv)
<1> SUFFICES ASSUME Assumed PROVE Spec => []ClientInv
  OBVIOUS
<1>1. ClientInv /\ [Next]_vars => ClientInv'
  BY ClientStep
<1>2. QED
  BY <1>1, ClientInit, PTL DEF Spec

\* The fast path of ensureConnected, where attempts do not overlap and no socket
\* of an earlier connection closes while the next one is being connected: both
\* sockets are the daemon's, neither has closed unnoticed, and events are handled
\* once.
THEOREM UsableConnection == Assumed => (Spec => []UsableIsReal)
<1> SUFFICES ASSUME Assumed PROVE Spec => []UsableIsReal
  OBVIOUS
<1>1. ASSUME ClientInv PROVE UsableIsReal
  <2>1. Usable => \A c \in Calls : call[c].pc # "streamHello"
    BY <1>1 DEF ClientInv, AloneInv, Usable, Attempting, EnsureStage
  <2>2. Usable => RealControl /\ RealStream
    BY <1>1, <2>1 DEF ClientInv, UsableInv, StreamInv, Usable
  <2>3. QED
    BY <2>2 DEF UsableIsReal, RealControl, RealStream
<1>2. QED
  BY <1>1, ClientInvariant, PTL

=============================================================================
