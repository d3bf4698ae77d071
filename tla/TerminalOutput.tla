--------------------------- MODULE TerminalOutput ---------------------------
(***************************************************************************)
(* The way of a terminal's output from its PTY to the attached clients:    *)
(* the coalescer of the PTY subprocess, the framed stdout pipe, and in the *)
(* daemon the part of the class Session that feeds the headless emulator,  *)
(* broadcasts to the attached sockets, takes snapshots for new clients and *)
(* passes backpressure back up the chain.                                  *)
(*                                                                         *)
(* Output is a stream of units, numbered from 1; a unit stands for the     *)
(* MAX_CHUNK_CHARS that one emulator.write takes at most, and a chunk read *)
(* from the PTY is one unit.  A Data frame carries the set of units the    *)
(* coalescer joined.                                                       *)
(*                                                                         *)
(* The subprocess and the daemon are two processes.  Within the daemon a   *)
(* handler runs to its next await; a chunk read from the pipe may hold     *)
(* several frames, which are handled in one go (frames), so that a pause   *)
(* takes effect only at the next chunk.  processEmulatorWriteQueue yields  *)
(* to the event loop when its time budget is spent, which may be after any *)
(* write: one action is one write.                                         *)
(*                                                                         *)
(* Left out: Ready, Spawned and Error frames, which carry no output.       *)
(***************************************************************************)
EXTENDS Integers, Sequences

CONSTANTS
  Socks,          \* stream sockets
  MaxOut,         \* bound: units the PTY produces
  MaxBatch,       \* maxBatchBytes of the coalescer, in units
  PipeRoom,       \* frames the pipe takes before writeFrame returns false
  PatientClients  \* no socket is attached after it has closed

ASSUME BoundsAssumption ==
  /\ MaxOut \in Nat
  /\ MaxBatch \in Nat \ {0}
  /\ PipeRoom \in Nat \ {0}
ASSUME PatienceAssumption == PatientClients \in BOOLEAN

VARIABLES
  (* pty-subprocess.ts, output-coalescer.ts *)
  produced,      \* units pushed into the coalescer so far
  flushed,       \* units the coalescer has emitted: the rest is in its chunks
  timer,         \* the coalescing timer is armed
  child,         \* "running", "exiting" (ptyProcess = null, exit timer), "gone"
  ptyPaused,     \* ptyPaused
  draining,      \* stdoutDraining
  pipe,          \* frames written to stdout that the session has not handled
  (* class Session *)
  frames,        \* frames of the chunk being handled that are still to handle
  connected,     \* subprocess and subprocessDecoder are set
  exited,        \* exitCode is set
  disposed,      \* disposed
  stdoutPaused,  \* subprocessStdoutPaused
  writes,        \* emulatorWriteQueue
  scheduled,     \* emulatorWriteScheduled
  processed,     \* emulatorWriteProcessedItems
  emulator,      \* units given to emulator.write
  attached,      \* attachedClients
  waiting,       \* clientSocketsWaitingForDrain
  boundary,      \* per socket, targetProcessedItems of its waiter
  (* sockets, and what the attached ones have got since they attached *)
  sock,          \* "open", "full" (a write returned false), "closed"
  call,          \* attach call: "none", "waiting", "flushing", "done"
  outcome,       \* how its wait ended: "flushed", "timeout", "reset"
  due,           \* units the emulator had when getSnapshotAsync was called
  snapshot,      \* units in the snapshot of the answer
  got,           \* units received as data events
  told,          \* an exit event was received
  taken          \* history: units of every Data frame the session handled

childVars == <<produced, flushed, timer, child, ptyPaused, draining>>
emulatorVars == <<writes, scheduled, processed, emulator>>
attachVars == <<boundary, call, outcome, due, snapshot>>
clientVars == <<attached, waiting, stdoutPaused, sock>>
eventVars == <<got, told>>
stateVars == <<connected, exited, disposed>>
vars == <<childVars, pipe, frames, stateVars, emulatorVars, clientVars,
          attachVars, eventVars, taken>>

-----------------------------------------------------------------------------
(* Types *)

Unit == Nat \ {0}
Frame == [type : {"Data", "Exit"}, units : SUBSET Unit]
ChildState == {"running", "exiting", "gone"}
SockState == {"open", "full", "closed"}
CallState == {"none", "waiting", "flushing", "done"}
Outcome == {"none", "flushed", "timeout", "reset"}

TypeOK ==
  /\ produced \in Nat /\ flushed \in 0 .. produced
  /\ timer \in BOOLEAN /\ ptyPaused \in BOOLEAN /\ draining \in BOOLEAN
  /\ child \in ChildState
  /\ pipe \in Seq(Frame)
  /\ frames \in 0 .. Len(pipe)
  /\ connected \in BOOLEAN /\ exited \in BOOLEAN /\ disposed \in BOOLEAN
  /\ writes \in Seq(SUBSET Unit)
  /\ scheduled \in BOOLEAN
  /\ processed \in Nat
  /\ emulator \subseteq Unit
  /\ attached \subseteq Socks /\ waiting \subseteq Socks
  /\ stdoutPaused \in BOOLEAN
  /\ sock \in [Socks -> SockState]
  /\ boundary \in [Socks -> Nat]
  /\ call \in [Socks -> CallState]
  /\ outcome \in [Socks -> Outcome]
  /\ due \in [Socks -> SUBSET Unit]
  /\ snapshot \in [Socks -> SUBSET Unit]
  /\ got \in [Socks -> SUBSET Unit]
  /\ told \in [Socks -> BOOLEAN]
  /\ taken \subseteq Unit

Init ==
  /\ produced = 0 /\ flushed = 0 /\ timer = FALSE
  /\ child = "running" /\ ptyPaused = FALSE /\ draining = TRUE
  /\ pipe = << >> /\ frames = 0
  /\ connected = TRUE /\ exited = FALSE /\ disposed = FALSE
  /\ writes = << >> /\ scheduled = FALSE /\ processed = 0 /\ emulator = {}
  /\ attached = {} /\ waiting = {} /\ stdoutPaused = FALSE
  /\ sock = [s \in Socks |-> "open"]
  /\ boundary = [s \in Socks |-> 0]
  /\ call = [s \in Socks |-> "none"]
  /\ outcome = [s \in Socks |-> "none"]
  /\ due = [s \in Socks |-> {}]
  /\ snapshot = [s \in Socks |-> {}]
  /\ got = [s \in Socks |-> {}]
  /\ told = [s \in Socks |-> FALSE]
  /\ taken = {}

-----------------------------------------------------------------------------
(* The subprocess *)

\* What the coalescer has queued when n units were pushed, as frames to send.
Batch(n) ==
  IF flushed = n THEN << >>
  ELSE << [type |-> "Data", units |-> flushed + 1 .. n] >>

ExitFrame == [type |-> "Exit", units |-> {}]

\* send: the frames go to stdout whatever write returns; false pauses the PTY.
Send(new) ==
  /\ pipe' = pipe \o new
  /\ draining' = (Len(pipe') < PipeRoom)
  /\ ptyPaused' = (ptyPaused \/ ~draining')

Quiet == UNCHANGED <<pipe, draining, ptyPaused>>

\* ptyProcess.onData: the first chunk arms the timer, a full batch is sent at
\* once and disarms it.
PtyData ==
  /\ child = "running" /\ ~ptyPaused
  /\ produced < MaxOut
  /\ produced' = produced + 1
  /\ IF produced' - flushed >= MaxBatch
     THEN /\ timer' = FALSE
          /\ flushed' = produced'
          /\ Send(Batch(produced'))
     ELSE /\ timer' = TRUE
          /\ UNCHANGED flushed
          /\ Quiet
  /\ UNCHANGED <<child, frames, stateVars, emulatorVars, clientVars,
                 attachVars, eventVars, taken>>

\* The coalescing timer fires.
TimerFires ==
  /\ timer
  /\ child # "gone"
  /\ timer' = FALSE
  /\ flushed' = produced
  /\ IF flushed = produced THEN Quiet ELSE Send(Batch(produced))
  /\ UNCHANGED <<produced, child, frames, stateVars, emulatorVars, clientVars,
                 attachVars, eventVars, taken>>

\* What onExit sends: first whatever is queued, then the Exit frame.
\* Mutant: the other way round.
LastFrames_ExitFirst == << ExitFrame >> \o Batch(produced)
LastFrames == Batch(produced) \o << ExitFrame >>

\* ptyProcess.onExit; the process itself ends 100 ms later.
PtyExit ==
  /\ child = "running"
  /\ child' = "exiting"
  /\ timer' = FALSE
  /\ flushed' = produced
  /\ Send(LastFrames)
  /\ UNCHANGED <<produced, frames, stateVars, emulatorVars, clientVars,
                 attachVars, eventVars, taken>>

\* The last resort of handleKill, three seconds after the signal: an Exit frame
\* is made up and the process ends at once, whatever the coalescer holds.
ForceExit ==
  /\ child = "running"
  /\ child' = "gone"
  /\ Send(<< ExitFrame >>)
  /\ UNCHANGED <<produced, flushed, timer, frames, stateVars, emulatorVars,
                 clientVars, attachVars, eventVars, taken>>

ChildEnds ==
  /\ child = "exiting"
  /\ child' = "gone"
  /\ UNCHANGED <<produced, flushed, timer, ptyPaused, draining, pipe, frames,
                 stateVars, emulatorVars, clientVars, attachVars, eventVars,
                 taken>>

\* Mutant: the drain of stdout does not resume the PTY.
ResumePty_Never == ptyPaused' = ptyPaused
ResumePty == ptyPaused' = (ptyPaused /\ child # "running")

\* process.stdout emits "drain".
StdoutDrain ==
  /\ ~draining /\ child # "gone"
  /\ Len(pipe) < PipeRoom
  /\ draining' = TRUE
  /\ ResumePty
  /\ UNCHANGED <<produced, flushed, timer, child, pipe, frames, stateVars,
                 emulatorVars, clientVars, attachVars, eventVars, taken>>

-----------------------------------------------------------------------------
(* The session: frames from the subprocess *)

\* No handler of the daemon is in the middle of a chunk.
\* Mutant: the frames of a chunk are handled in turns of their own.
Idle_Always == TRUE
Idle == frames = 0

\* The stdout stream emits "data": some whole frames, decoded at once.
ReadChunk ==
  /\ Idle /\ connected /\ ~stdoutPaused
  /\ \E n \in 1 .. Len(pipe) : frames' = n
  /\ UNCHANGED <<childVars, pipe, stateVars, emulatorVars, clientVars,
                 attachVars, eventVars, taken>>

\* broadcastEvent, with handleClientBackpressure for the sockets whose write
\* returns false: any that is slow, and every one that is closed.
Broadcast ==
  \E full \in SUBSET attached :
    /\ \A s \in attached : sock[s] = "closed" => s \in full
    /\ sock' = [s \in Socks |-> IF s \in full /\ sock[s] = "open"
                                THEN "full" ELSE sock[s]]
    /\ waiting' = waiting \cup full
    /\ stdoutPaused' = (stdoutPaused \/ full # {})
    /\ UNCHANGED attached

TellExit == told' = [s \in Socks |-> told[s] \/ s \in attached]

\* A Data frame: queued for the emulator, sent to the clients.
HandleData ==
  /\ frames > 0
  /\ Head(pipe).type = "Data"
  /\ pipe' = Tail(pipe) /\ frames' = frames - 1
  /\ writes' = Append(writes, Head(pipe).units)
  /\ scheduled' = TRUE
  /\ Broadcast
  /\ got' = [s \in Socks |-> IF s \in attached
                             THEN got[s] \cup Head(pipe).units ELSE got[s]]
  /\ taken' = taken \cup Head(pipe).units
  /\ UNCHANGED <<childVars, stateVars, processed, emulator, attachVars, told>>

\* The Exit frame.
HandleExit ==
  /\ frames > 0
  /\ Head(pipe).type = "Exit"
  /\ pipe' = Tail(pipe) /\ frames' = frames - 1
  /\ exited' = TRUE
  /\ Broadcast
  /\ TellExit
  /\ UNCHANGED <<childVars, connected, disposed, emulatorVars, attachVars, got,
                 taken>>

\* resetProcessState: the decoder goes, and with it whatever is still in the
\* pipe; so does the emulator's queue, and every waiter is resolved.
Reset ==
  /\ connected' = FALSE
  /\ pipe' = << >>
  /\ writes' = << >> /\ scheduled' = FALSE /\ processed' = 0
  /\ call' = [s \in Socks |-> IF call[s] = "waiting" THEN "flushing" ELSE call[s]]
  /\ outcome' = [s \in Socks |-> IF call[s] = "waiting" THEN "reset" ELSE outcome[s]]
  /\ due' = [s \in Socks |-> IF call[s] = "waiting" THEN emulator ELSE due[s]]
  /\ UNCHANGED <<emulator, boundary, snapshot>>

\* The child's "exit" event, which does not wait for its stdout to be read.
\* (After dispose it changes nothing here: see ChildExit in TerminalHost.)
HandleChildExit ==
  /\ Idle /\ connected
  /\ child = "gone"
  /\ exited' = TRUE
  /\ IF exited THEN UNCHANGED told ELSE TellExit
  /\ Reset
  /\ stdoutPaused' = FALSE
  /\ UNCHANGED <<childVars, frames, disposed, attached, waiting, sock, got,
                 taken>>

-----------------------------------------------------------------------------
(* The session: feeding the emulator *)

\* resolveReachedSnapshotBoundaryWaiters, with the waiters going on to
\* getSnapshotAsync.
ResolveReached(n, written) ==
  LET reached == {s \in Socks : call[s] = "waiting" /\ n >= boundary[s]} IN
  /\ call' = [s \in Socks |-> IF s \in reached THEN "flushing" ELSE call[s]]
  /\ outcome' = [s \in Socks |-> IF s \in reached THEN "flushed" ELSE outcome[s]]
  /\ due' = [s \in Socks |-> IF s \in reached THEN written ELSE due[s]]

\* processEmulatorWriteQueue, one write of an item that fits.
WriteItem ==
  /\ Idle /\ scheduled
  /\ writes # << >>
  /\ \A u, v \in Head(writes) : u = v
  /\ writes' = Tail(writes)
  /\ processed' = processed + 1
  /\ emulator' = emulator \cup Head(writes)
  /\ ResolveReached(processed', emulator')
  /\ scheduled' = (writes' # << >>)
  /\ UNCHANGED <<childVars, pipe, frames, stateVars, clientVars, boundary,
                 snapshot, eventVars, taken>>

\* The same of an item that is too long: its first part is written, the rest
\* stays at the head of the queue.
WriteSlice ==
  /\ Idle /\ scheduled
  /\ writes # << >>
  /\ \E first \in Head(writes) :
       /\ \A u \in Head(writes) : first <= u
       /\ Head(writes) # {first}
       /\ writes' = [writes EXCEPT ![1] = @ \ {first}]
       /\ emulator' = emulator \cup {first}
  /\ UNCHANGED <<childVars, pipe, frames, stateVars, clientVars, scheduled,
                 processed, attachVars, eventVars, taken>>

-----------------------------------------------------------------------------
(* The session: clients *)

\* The items a new client's snapshot has to wait for (flushToSnapshotBoundary).
\* Mutant: one too few.
Target_OneShort == processed + Len(writes) - 1
Target == processed + Len(writes)

\* attach: the socket gets events from now on; its snapshot waits for the items
\* that are in the emulator's queue.  (TerminalHost attaches to sessions that
\* are alive only.)
Attach(s) ==
  /\ Idle /\ connected /\ ~exited
  /\ PatientClients => sock[s] # "closed"
  /\ call[s] \in {"none", "done"}
  /\ attached' = attached \cup {s}
  /\ got' = [got EXCEPT ![s] = {}]
  /\ told' = [told EXCEPT ![s] = FALSE]
  /\ snapshot' = [snapshot EXCEPT ![s] = {}]
  /\ IF writes = << >>
     THEN /\ call' = [call EXCEPT ![s] = "flushing"]
          /\ outcome' = [outcome EXCEPT ![s] = "flushed"]
          /\ due' = [due EXCEPT ![s] = emulator]
          /\ UNCHANGED <<boundary, scheduled>>
     ELSE /\ call' = [call EXCEPT ![s] = "waiting"]
          /\ boundary' = [boundary EXCEPT ![s] = Target]
          /\ scheduled' = TRUE
          /\ UNCHANGED <<outcome, due>>
  /\ UNCHANGED <<childVars, pipe, frames, stateVars, writes, processed,
                 emulator, waiting, stdoutPaused, sock, taken>>

\* ATTACH_FLUSH_TIMEOUT_MS have passed: the snapshot is taken without waiting on.
AttachTimeout(s) ==
  /\ Idle
  /\ call[s] = "waiting"
  /\ call' = [call EXCEPT ![s] = "flushing"]
  /\ outcome' = [outcome EXCEPT ![s] = "timeout"]
  /\ due' = [due EXCEPT ![s] = emulator]
  /\ UNCHANGED <<childVars, pipe, frames, stateVars, emulatorVars, clientVars,
                 boundary, snapshot, eventVars, taken>>

\* getSnapshotAsync: everything written before it was called, and as much of
\* what was written since as the emulator has parsed.
TakeSnapshot(s) ==
  /\ Idle
  /\ call[s] = "flushing"
  /\ call' = [call EXCEPT ![s] = "done"]
  /\ \E last \in 0 .. MaxOut :
       snapshot' = [snapshot EXCEPT ![s] =
                      IF s \in attached THEN due[s] \cup {u \in emulator : u <= last}
                      ELSE {}]
  /\ due' = [due EXCEPT ![s] = {}]
  /\ boundary' = [boundary EXCEPT ![s] = 0]
  /\ UNCHANGED <<childVars, pipe, frames, stateVars, emulatorVars, clientVars,
                 outcome, eventVars, taken>>

\* maybeResumeSubprocessStdout, when the sockets in owing owe a drain.
\* Mutant: a detach does not resume.
MaybeResume_Never(owing) == stdoutPaused' = stdoutPaused
MaybeResume(owing) ==
  stdoutPaused' = (stdoutPaused /\ owing # {})

Forget(s) ==
  /\ attached' = attached \ {s}
  /\ waiting' = waiting \ {s}
  /\ MaybeResume(waiting')
  /\ got' = [got EXCEPT ![s] = {}]
  /\ told' = [told EXCEPT ![s] = FALSE]
  /\ snapshot' = [snapshot EXCEPT ![s] = {}]

\* detach.
Detach(s) ==
  /\ Idle
  /\ s \in attached
  /\ Forget(s)
  /\ UNCHANGED <<childVars, pipe, frames, stateVars, emulatorVars, sock,
                 boundary, call, outcome, due, taken>>

\* The socket goes away and the daemon detaches it.
SockClose(s) ==
  /\ Idle
  /\ sock[s] # "closed"
  /\ sock' = [sock EXCEPT ![s] = "closed"]
  /\ Forget(s)
  /\ UNCHANGED <<childVars, pipe, frames, stateVars, emulatorVars, boundary,
                 call, outcome, due, taken>>

\* The client has read on and the socket emits "drain".
SockDrain(s) ==
  /\ Idle
  /\ sock[s] = "full"
  /\ sock' = [sock EXCEPT ![s] = "open"]
  /\ waiting' = waiting \ {s}
  /\ MaybeResume(waiting')
  /\ UNCHANGED <<childVars, pipe, frames, stateVars, emulatorVars, attached,
                 attachVars, eventVars, taken>>

\* dispose: the clients are forgotten and the child is killed.
Dispose ==
  /\ Idle /\ ~disposed
  /\ disposed' = TRUE
  /\ child' = "gone"
  /\ Reset
  /\ attached' = {} /\ waiting' = {} /\ stdoutPaused' = FALSE
  /\ UNCHANGED <<produced, flushed, timer, ptyPaused, draining, frames, exited,
                 sock, eventVars, taken>>

-----------------------------------------------------------------------------

Next ==
  \/ PtyData \/ TimerFires \/ PtyExit \/ ForceExit \/ ChildEnds \/ StdoutDrain
  \/ ReadChunk \/ HandleData \/ HandleExit \/ HandleChildExit
  \/ WriteItem \/ WriteSlice \/ Dispose
  \/ \E s \in Socks : \/ Attach(s) \/ AttachTimeout(s) \/ TakeSnapshot(s)
                      \/ Detach(s) \/ SockClose(s) \/ SockDrain(s)

Spec == Init /\ [][Next]_vars

(* Timers fire, stream and child events are delivered, setImmediate callbacks  *)
(* run, and a client whose buffer is full goes on reading or closes.           *)
Fairness ==
  /\ WF_vars(TimerFires) /\ WF_vars(ChildEnds) /\ WF_vars(StdoutDrain)
  /\ WF_vars(ReadChunk) /\ WF_vars(HandleData \/ HandleExit)
  /\ WF_vars(HandleChildExit)
  /\ WF_vars(WriteItem \/ WriteSlice)
  /\ \A s \in Socks : WF_vars(SockDrain(s) \/ SockClose(s))

FairSpec == Spec /\ Fairness

-----------------------------------------------------------------------------
(* Properties *)

\* The snapshot and the events that follow it leave nothing out: whatever the
\* session has taken from the subprocess is in one of them, for every client
\* whose attach waited for the boundary (flushToSnapshotBoundary) and was
\* neither timed out nor cut short by the end of the process.
NoGap ==
  \A s \in attached :
    call[s] = "done" /\ outcome[s] = "flushed" => taken \subseteq snapshot[s] \cup got[s]

\* When stdout is paused some client still owes a drain, so that a drain or a
\* detach is still to come that resumes it (handleClientBackpressure,
\* maybeResumeSubprocessStdout).
PausedMeansOwed == stdoutPaused => \E s \in waiting : sock[s] = "full"

\* Events come in the order of the output and the exit event comes last: a new
\* unit is newer than all the session took before, and goes to no client that
\* was told of the exit (the coalescer, the pipe, broadcastEvent).
EventsInOrder ==
  [][\A s \in Socks : \A u \in got'[s] \ got[s] :
       ~told[s] /\ \A v \in taken : v < u]_vars

\* The session is a feed of the output: its events come without a hole in what was
\* taken from the subprocess, every attached client gets each of them, and all are
\* told of the exit, after which there is no output and nobody attaches.
Feed == INSTANCE OutputFeed WITH
  Clients <- Socks,
  log <- taken,
  over <- exited,
  members <- attached,
  heard <- [s \in Socks |-> IF s \in attached THEN got[s] ELSE {}],
  told <- {s \in attached : told[s]}

ImplementsFeed == Feed!Spec

\* Output never gets stuck: what the PTY produces reaches the emulator unless
\* the subprocess ends, through the coalescing timer, the pause of stdout and the
\* yielding of the emulator's queue; and a paused PTY is resumed.
OutputFlows ==
  /\ \A n \in 1 .. MaxOut : produced >= n ~> n \in emulator \/ child = "gone"
  /\ ptyPaused ~> ~ptyPaused \/ child = "gone"

\* docs/TERMINAL_HOST_EVENTS.md, "Data vs Exit Race": clients receive all
\* terminal output, as far as the subprocess sent it, before the exit event.
AllOutputBeforeExit ==
  \A s \in attached :
    told[s] /\ call[s] = "done" /\ outcome[s] = "flushed"
      => 1 .. flushed \subseteq snapshot[s] \cup got[s]

=============================================================================
