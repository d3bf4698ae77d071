----------------------------- MODULE HostClient -----------------------------
(***************************************************************************)
(* The connection of class TerminalHostClient with the daemon: the control *)
(* socket for requests and the stream socket for events, which any number  *)
(* of calls of the public API set up on demand (ensureConnected), and      *)
(* tryConnectAndAuthenticate, which sets up the first one only.            *)
(*                                                                         *)
(* A call runs up to its next await; what a settled promise leads to at    *)
(* once belongs to the step that settles it.  Callbacks of a socket go by  *)
(* its identity, state and flags are shared by all calls: a connection     *)
(* attempt resets whatever connection it finds when it fails.              *)
(*                                                                         *)
(* The daemon may close any socket at any time, and every await may also   *)
(* end in its timeout.  Left out: what the messages say, notifications and *)
(* their queue, how spawnDaemon starts a daemon, the check of development  *)
(* builds for a stale script, and shutdownIfRunning and dispose, after     *)
(* which the object is not used any more.                                  *)
(***************************************************************************)
EXTENDS Naturals

CONSTANTS
  Calls,      \* calls of the API in flight
  Socks,      \* socket objects in use at a time
  None,       \* null
  (* What is assumed of the surroundings; FALSE assumes nothing.           *)
  OneAttempt, \* no attempt begins while an earlier one is under way
  CleanStart  \* no socket of an earlier connection closes between the start of
              \* an attempt and the connection of its first socket

ASSUME NoneAssumption == None \notin Socks
ASSUME SwitchAssumption == OneAttempt \in BOOLEAN /\ CleanStart \in BOOLEAN

VARIABLES
  (* TerminalHostClient *)
  state,        \* connectionState
  armed,        \* disconnectArmed
  control,      \* controlSocket
  stream,       \* streamSocket
  controlAuth,  \* controlAuthenticated
  streamAuth,   \* streamAuthenticated
  call,         \* the await each call has reached, and the socket it is about
  (* the sockets *)
  sock,         \* open; ended by the daemon or destroyed by the client, with the
                \* close event to come; closed
  known,        \* sockets whose hello the daemon has accepted
  read,         \* sockets that have the data handler of the event stream
  twice,        \* sockets that have it more than once
  (* history *)
  told          \* "disconnected" was emitted since an attempt last ended with a
                \* usable connection

clientVars == <<state, armed, control, stream, controlAuth, streamAuth>>
sockVars == <<sock, known, read, twice>>
vars == <<clientVars, call, sockVars, told>>

-----------------------------------------------------------------------------

\* The awaits of connectAndAuthenticate, and of tryConnectAndAuthenticate.
EnsureStage == {"control", "spawning", "respawned", "hello", "restarting", "stream",
                "streamHello"}
ProbeStage == {"probing", "probeHello"}
Stage == {"idle", "waiting", "request"} \cup EnsureStage \cup ProbeStage
CallRec == [pc : Stage, on : Socks \cup {None}, attempt : 0 .. 1]

TypeOK ==
  /\ state \in {"disconnected", "connecting", "connected"}
  /\ armed \in BOOLEAN /\ controlAuth \in BOOLEAN /\ streamAuth \in BOOLEAN
  /\ control \in Socks \cup {None} /\ stream \in Socks \cup {None}
  /\ call \in [Calls -> CallRec]
  /\ sock \in [Socks -> {"open", "ended", "destroyed", "closed"}]
  /\ known \subseteq Socks /\ read \subseteq Socks /\ twice \subseteq Socks
  /\ told \in BOOLEAN

Idle == [pc |-> "idle", on |-> None, attempt |-> 0]
Begin(stage) == [Idle EXCEPT !.pc = stage]

Init ==
  /\ state = "disconnected" /\ armed = FALSE
  /\ control = None /\ stream = None
  /\ controlAuth = FALSE /\ streamAuth = FALSE
  /\ call = [c \in Calls |-> Idle]
  /\ sock = [s \in Socks |-> "closed"]
  /\ known = {} /\ read = {} /\ twice = {}
  /\ told = TRUE

Attempting == {c \in Calls : call[c].pc \in EnsureStage \cup ProbeStage}
MayAttempt == OneAttempt => Attempting = {}
Starting == {c \in Calls : call[c].pc \in {"control", "spawning", "respawned", "probing"}}
MayClose == CleanStart => Starting = {}

\* The condition of ensureConnected's fast path.
Usable ==
  /\ state = "connected"
  /\ control # None /\ stream # None
  /\ controlAuth /\ streamAuth

\* pendingRequests; the hello on the stream socket is not among them.
Pending == {c \in Calls : call[c].pc \in {"hello", "probeHello", "request"}}

-----------------------------------------------------------------------------
(* resetConnectionState *)

\* Mutant: connectionState stays as it is.
ResetClient_KeepsState ==
  /\ UNCHANGED state
  /\ control' = None /\ stream' = None
  /\ controlAuth' = FALSE /\ streamAuth' = FALSE

ResetClient ==
  /\ state' = "disconnected"
  /\ control' = None /\ stream' = None
  /\ controlAuth' = FALSE /\ streamAuth' = FALSE

\* Every pending request is rejected, and so is the attempt that has made it.
Reset(c, next) ==
  /\ ResetClient
  /\ call' = [d \in Calls |-> IF d = c THEN next
                              ELSE IF d \in Pending THEN Idle ELSE call[d]]
  /\ UNCHANGED <<known, read, twice>>

Destroyed(s) ==
  IF s \in {control, stream} /\ sock[s] # "closed" THEN "destroyed" ELSE sock[s]

\* The reset of an attempt that fails, or starts over: nothing is emitted.
QuietReset(c, next) ==
  /\ Reset(c, next)
  /\ sock' = [s \in Socks |-> Destroyed(s)]
  /\ UNCHANGED <<armed, told>>

\* The close event of a socket.  One that is not current any more is ignored;
\* handleDisconnect runs once for each connection.
SocketCloses(s) ==
  /\ sock[s] \in {"ended", "destroyed"}
  /\ s \in {control, stream} => MayClose
  /\ IF s \in {control, stream} /\ ~armed
     THEN /\ Reset(None, Idle)
          /\ sock' = [t \in Socks |-> IF t = s THEN "closed" ELSE Destroyed(t)]
          /\ armed' = TRUE /\ told' = TRUE
     ELSE /\ sock' = [sock EXCEPT ![s] = "closed"]
          /\ UNCHANGED <<clientVars, call, known, read, twice, told>>

\* The daemon exits, or closes the socket.
PeerEnds(s) ==
  /\ sock[s] = "open"
  /\ sock' = [sock EXCEPT ![s] = "ended"]
  /\ UNCHANGED <<clientVars, call, known, read, twice, told>>

-----------------------------------------------------------------------------
(* ensureConnected *)

\* Mutant: a call does not look whether an attempt is in progress.
EnsureConnected_Eager(c) ==
  /\ call[c].pc = "idle"
  /\ \/ /\ Usable
        /\ call' = [call EXCEPT ![c] = Begin("request")]
        /\ UNCHANGED <<state, armed>>
     \/ /\ ~Usable
        /\ state' = "connecting" /\ armed' = FALSE
        /\ call' = [call EXCEPT ![c] = Begin("control")]
  /\ UNCHANGED <<control, stream, controlAuth, streamAuth, sockVars, told>>

EnsureConnected(c) ==
  /\ call[c].pc = "idle"
  /\ \/ /\ Usable
        /\ call' = [call EXCEPT ![c] = Begin("request")]
        /\ UNCHANGED <<state, armed>>
     \/ /\ ~Usable /\ state = "connecting"
        /\ call' = [call EXCEPT ![c] = Begin("waiting")]
        /\ UNCHANGED <<state, armed>>
     \/ /\ ~Usable /\ state # "connecting" /\ MayAttempt
        /\ state' = "connecting" /\ armed' = FALSE
        /\ call' = [call EXCEPT ![c] = Begin("control")]
  /\ UNCHANGED <<control, stream, controlAuth, streamAuth, sockVars, told>>

\* checkConnection finds the connection usable and the request is sent, or it
\* finds the attempt failed, or 10 s are over.
Waited(c) ==
  /\ call[c].pc = "waiting"
  /\ \/ Usable /\ call' = [call EXCEPT ![c] = Begin("request")]
     \/ call' = [call EXCEPT ![c] = Idle]
  /\ UNCHANGED <<clientVars, sockVars, told>>

\* The response to a request, or its timeout.
RequestEnds(c) ==
  /\ call[c].pc = "request"
  /\ call' = [call EXCEPT ![c] = Idle]
  /\ UNCHANGED <<clientVars, sockVars, told>>

-----------------------------------------------------------------------------
(* connectAndAuthenticate *)

\* A socket object nobody refers to.
Fresh(s) ==
  /\ sock[s] = "closed" /\ s \notin {control, stream}
  /\ \A c \in Calls : call[c].on # s

Opens(s) ==
  /\ Fresh(s)
  /\ sock' = [sock EXCEPT ![s] = "open"]
  /\ known' = known \ {s} /\ read' = read \ {s} /\ twice' = twice \ {s}

Sends(c, hello, s) ==
  call' = [call EXCEPT ![c] = [pc |-> hello, on |-> s, attempt |-> @.attempt]]

\* tryConnectControl succeeds and the hello is sent.
ControlConnects(c) ==
  /\ call[c].pc \in {"control", "respawned"}
  /\ \E s \in Socks : Opens(s) /\ control' = s /\ Sends(c, "hello", s)
  /\ UNCHANGED <<state, armed, stream, controlAuth, streamAuth, told>>

\* No daemon: spawnDaemon is called, and the next attempt follows in any case.
ControlRefused(c) ==
  /\ call[c].pc = "control"
  /\ call' = [call EXCEPT ![c].pc = "spawning"]
  /\ UNCHANGED <<clientVars, sockVars, told>>

Spawned(c) ==
  /\ call[c].pc = "spawning"
  /\ call' = [call EXCEPT ![c].pc = "respawned"]
  /\ UNCHANGED <<clientVars, sockVars, told>>

\* The daemon has read a hello.
DaemonAccepts(c) ==
  /\ call[c].pc \in {"hello", "streamHello", "probeHello"}
  /\ sock[call[c].on] = "open"
  /\ known' = known \cup {call[c].on}
  /\ UNCHANGED <<clientVars, call, sock, read, twice, told>>

\* Its response arrives.
Welcomed(c) ==
  /\ call[c].on \in known
  /\ sock[call[c].on] \in {"open", "ended"}

ControlWelcomed(c) ==
  /\ call[c].pc = "hello" /\ Welcomed(c)
  /\ controlAuth' = TRUE
  /\ Sends(c, "stream", None)
  /\ UNCHANGED <<state, armed, control, stream, streamAuth, sockVars, told>>

\* Mutant: a restart of the daemon may follow another.
RestartsDaemon_Again(c) ==
  /\ call[c].pc \in {"control", "respawned", "hello"}
  /\ QuietReset(c, [pc |-> "restarting", on |-> None, attempt |-> call[c].attempt + 1])

\* The first time round, no token or a daemon of another version: the daemon is
\* shut down and a new one is waited for.
RestartsDaemon(c) ==
  /\ call[c].pc \in {"control", "respawned", "hello"} /\ call[c].attempt = 0
  /\ QuietReset(c, [pc |-> "restarting", on |-> None, attempt |-> 1])

Restarted(c) ==
  /\ call[c].pc = "restarting"
  /\ call' = [call EXCEPT ![c].pc = "control"]
  /\ UNCHANGED <<clientVars, sockVars, told>>

StreamConnects(c) ==
  /\ call[c].pc = "stream"
  /\ \E s \in Socks : Opens(s) /\ stream' = s /\ Sends(c, "streamHello", s)
  /\ UNCHANGED <<state, armed, control, controlAuth, streamAuth, told>>

\* setupStreamSocketHandlers, on the socket that is current by now.
HandlesEvents ==
  /\ read' = read \cup ({stream} \ {None})
  /\ twice' = twice \cup ({stream} \cap read)

\* The attempt is over: "connected", and the request that was to be made.
StreamWelcomed(c) ==
  /\ call[c].pc = "streamHello" /\ Welcomed(c)
  /\ streamAuth' = TRUE /\ state' = "connected" /\ armed' = FALSE
  /\ HandlesEvents
  /\ told' = (told /\ ~(control # None /\ stream # None /\ controlAuth))
  /\ call' = [call EXCEPT ![c] = IF control = None THEN Idle ELSE Begin("request")]
  /\ UNCHANGED <<control, stream, controlAuth, sock, known>>

\* Whatever an attempt awaits fails or times out: the connection is reset.
AttemptFails(c) ==
  /\ c \in Attempting
  /\ call[c].pc = "control" => call[c].attempt = 1
  /\ QuietReset(c, Idle)

-----------------------------------------------------------------------------
(* tryConnectAndAuthenticate *)

\* Mutant: an attempt in progress is interfered with.
Probe_Interferes(c) ==
  /\ call[c].pc = "idle"
  /\ ~(control # None /\ controlAuth)
  /\ state' = "connecting"
  /\ call' = [call EXCEPT ![c] = Begin("probing")]
  /\ UNCHANGED <<armed, control, stream, controlAuth, streamAuth, sockVars, told>>

Probe(c) ==
  /\ call[c].pc = "idle"
  /\ ~(control # None /\ controlAuth)
  /\ state # "connecting" /\ MayAttempt
  /\ state' = "connecting"
  /\ call' = [call EXCEPT ![c] = Begin("probing")]
  /\ UNCHANGED <<armed, control, stream, controlAuth, streamAuth, sockVars, told>>

ProbeConnects(c) ==
  /\ call[c].pc = "probing"
  /\ \E s \in Socks : Opens(s) /\ control' = s /\ Sends(c, "probeHello", s)
  /\ UNCHANGED <<state, armed, stream, controlAuth, streamAuth, told>>

ProbeWelcomed(c) ==
  /\ call[c].pc = "probeHello" /\ Welcomed(c)
  /\ controlAuth' = TRUE /\ state' = "connected"
  /\ call' = [call EXCEPT ![c] = Idle]
  /\ UNCHANGED <<armed, control, stream, streamAuth, sockVars, told>>

-----------------------------------------------------------------------------
Next ==
  \/ \E c \in Calls :
       \/ EnsureConnected(c) \/ Waited(c) \/ RequestEnds(c)
       \/ ControlConnects(c) \/ ControlRefused(c) \/ Spawned(c)
       \/ DaemonAccepts(c) \/ ControlWelcomed(c) \/ RestartsDaemon(c) \/ Restarted(c)
       \/ StreamConnects(c) \/ StreamWelcomed(c) \/ AttemptFails(c)
       \/ Probe(c) \/ ProbeConnects(c) \/ ProbeWelcomed(c)
  \/ \E s \in Socks : SocketCloses(s) \/ PeerEnds(s)

Spec == Init /\ [][Next]_vars

-----------------------------------------------------------------------------
(* Properties *)

\* ensureConnected: "Another connection in progress - wait".  Calls are made to
\* wait only while an attempt is under way: none ends with the state connecting.
ConnectingIsFounded == state = "connecting" => Attempting # {}

\* The fast path of ensureConnected: what it takes for a connection is one.  Both
\* sockets have been accepted by the daemon, neither has closed unnoticed, and
\* each event is handled, and once.
UsableIsReal ==
  Usable =>
    /\ {control, stream} \subseteq known
    /\ sock[control] # "closed" /\ sock[stream] # "closed"
    /\ stream \in read \ twice

\* "Reset without emitting disconnected (connection never became usable)": a
\* usable connection does not go away without its listeners being told, which go
\* by what they know of the daemon's sessions until then.
NoSilentLoss == told \/ Usable

=============================================================================
