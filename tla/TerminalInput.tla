---------------------------- MODULE TerminalInput ----------------------------
(***************************************************************************)
(* The way of a terminal's input from the daemon to its PTY, and the ways  *)
(* in which the process behind it is ended: in the daemon the stdin queue  *)
(* of the class Session, then the stdin pipe of the PTY subprocess, its    *)
(* frame decoder, its write queue with the asynchronous writes to the PTY, *)
(* its handling of Kill with the escalation timers, and the end of stdin.  *)
(*                                                                         *)
(* Input is a stream of units, numbered in the order in which the session  *)
(* accepts them.  A frame is two buffers, its header and its payload, that *)
(* are queued, written and read apart.  Every buffer carries the interval  *)
(* from .. to of the units it holds: only the payload of a Write has any,  *)
(* any other buffer holds the empty interval at its place in the input.    *)
(*                                                                         *)
(* The handlers of a process run to their end.  A chunk that the           *)
(* subprocess reads may hold several frames, which are handled in one go   *)
(* (chunk); a pause of stdin takes effect at the next chunk.               *)
(*                                                                         *)
(* Left out: Resize and Signal frames, which go the same way and change    *)
(* nothing here, and the synchronous write of platforms whose PTY has no   *)
(* file descriptor.                                                        *)
(***************************************************************************)
EXTENDS Integers, Sequences, FiniteSetsExt

CONSTANTS
  MaxIn,       \* bound: units the session accepts
  Part,        \* MAX_CHUNK_CHARS, in units
  PipeRoom,    \* buffers stdin takes before write returns false
  StdinLimit,  \* MAX_SUBPROCESS_STDIN_QUEUE_BYTES, in the weights of Weight
  MaxChunk,    \* buffers in one chunk of the subprocess's stdin
  HighWater, LowWater, HardLimit  \* INPUT_QUEUE_..._BYTES, in units

ASSUME BoundsAssumption ==
  /\ MaxIn \in Nat /\ StdinLimit \in Nat
  /\ Part \in Nat \ {0} /\ PipeRoom \in Nat \ {0} /\ MaxChunk \in Nat \ {0}
\* A chunk is small against the distance of the hard limit (64 KB and 56 MB).
ASSUME WaterAssumption ==
  /\ LowWater \in Nat /\ HighWater \in Nat /\ HardLimit \in Nat
  /\ LowWater < HighWater
  /\ HighWater + MaxChunk * Part <= HardLimit

VARIABLES
  (* class Session *)
  daemonUp,     \* the daemon runs
  alive,        \* subprocess is set
  ready,        \* subprocessReady
  terminating,  \* terminatingAt is set
  disposed,     \* disposed
  stdinQueue,   \* subprocessStdinQueue
  armed,        \* subprocessStdinDrainArmed
  accepted,     \* units accepted so far
  (* the pipe, and the subprocess *)
  pipe,         \* buffers written to stdin that the subprocess has not taken
  chunk,        \* buffers of the chunk being handled that are still to take
  decoder,      \* frameType of a header whose payload is to come, or "none"
  child,        \* "boot", "running" (a PTY), "unspawned" (no PTY after Spawn),
                \* "exiting" (its PTY has ended), "gone"
  queue,        \* writeQueue
  queued,       \* queuedBytes, in units
  flush,        \* "idle", "scheduled" (timer or immediate), "writing"
  stdinPaused,  \* stdinPaused
  killStage,    \* "none", "term", "kill": signals sent by handleKill
  failed,       \* history: a write failed for good and the queue was emptied
  received      \* history: units the PTY has received, in order

sessionVars == <<alive, ready, terminating, disposed, stdinQueue, armed, accepted>>
inputVars == <<queue, queued, flush, stdinPaused, failed, received>>
vars == <<daemonUp, sessionVars, pipe, chunk, decoder, child, killStage, inputVars>>

-----------------------------------------------------------------------------

FrameType == {"Spawn", "Write", "Kill"}
Buffer == [part : {"header", "payload"}, type : FrameType, from : Nat, to : Nat]
Interval == [from : Nat, to : Nat]
ChildState == {"boot", "running", "unspawned", "exiting", "gone"}

TypeOK ==
  /\ daemonUp \in BOOLEAN /\ alive \in BOOLEAN /\ ready \in BOOLEAN
  /\ terminating \in BOOLEAN /\ disposed \in BOOLEAN
  /\ stdinQueue \in Seq(Buffer) /\ armed \in BOOLEAN
  /\ accepted \in Nat
  /\ pipe \in Seq(Buffer)
  /\ chunk \in 0 .. Len(pipe)
  /\ decoder \in FrameType \cup {"none"}
  /\ child \in ChildState
  /\ queue \in Seq(Interval)
  /\ queued \in Nat
  /\ flush \in {"idle", "scheduled", "writing"}
  /\ stdinPaused \in BOOLEAN
  /\ killStage \in {"none", "term", "kill"}
  /\ failed \in BOOLEAN
  /\ received \in Seq(Nat)

Init ==
  /\ daemonUp = TRUE /\ alive = TRUE /\ ready = FALSE
  /\ terminating = FALSE /\ disposed = FALSE
  /\ stdinQueue = << >> /\ armed = FALSE /\ accepted = 0
  /\ pipe = << >> /\ chunk = 0 /\ decoder = "none"
  /\ child = "boot"
  /\ queue = << >> /\ queued = 0 /\ flush = "idle" /\ stdinPaused = FALSE
  /\ killStage = "none" /\ failed = FALSE
  /\ received = << >>

-----------------------------------------------------------------------------
(* The stdin queue of the session, as a state st of its variables *)

Now == [queue |-> stdinQueue, pipe |-> pipe, armed |-> armed, accepted |-> accepted]

Becomes(st) ==
  /\ stdinQueue' = st.queue /\ pipe' = st.pipe
  /\ armed' = st.armed /\ accepted' = st.accepted

\* flushSubprocessStdinQueue: buffers are dequeued and written until a write
\* returns false, which arms the drain.
\* Mutant: the buffer whose write returned false stays at the head.
Flushed_KeepsHead(st) ==
  LET room == IF Len(st.pipe) < PipeRoom THEN PipeRoom - Len(st.pipe) ELSE 1
      moved == IF Len(st.queue) < room THEN Len(st.queue) ELSE room IN
  IF st.armed THEN st
  ELSE [st EXCEPT !.pipe = @ \o SubSeq(st.queue, 1, moved),
                  !.queue = SubSeq(@, IF moved = room THEN moved ELSE moved + 1, Len(@)),
                  !.armed = moved = room]
Flushed(st) ==
  LET room == IF Len(st.pipe) < PipeRoom THEN PipeRoom - Len(st.pipe) ELSE 1
      moved == IF Len(st.queue) < room THEN Len(st.queue) ELSE room IN
  IF st.armed THEN st
  ELSE [st EXCEPT !.pipe = @ \o SubSeq(st.queue, 1, moved),
                  !.queue = SubSeq(@, moved + 1, Len(@)),
                  !.armed = moved = room]

\* What counts for the limit of the queue: headers and small payloads as one.
Weight(buffers) ==
  MapThenSumSet(LAMBDA i : IF buffers[i].to < buffers[i].from THEN 1
                           ELSE buffers[i].to - buffers[i].from + 1,
                DOMAIN buffers)

\* The two buffers of a frame with n units.
FrameOf(type, at, n) ==
  << [part |-> "header", type |-> type, from |-> at + 1, to |-> at],
     [part |-> "payload", type |-> type, from |-> at + 1, to |-> at + n] >>

\* sendFrameToSubprocess: a frame that does not fit is dropped as a whole.
Sent(st, type, n) ==
  LET frame == FrameOf(type, st.accepted, n) IN
  IF Weight(st.queue) + Weight(frame) > StdinLimit THEN st
  ELSE Flushed([st EXCEPT !.queue = @ \o frame, !.accepted = @ + n])

-----------------------------------------------------------------------------
(* The session *)

\* The Ready frame of the subprocess: the session answers with Spawn.
Ready ==
  /\ daemonUp /\ alive /\ ~ready
  /\ child = "boot"
  /\ ready' = TRUE
  /\ Becomes(Sent(Now, "Spawn", 0))
  /\ UNCHANGED <<daemonUp, alive, terminating, disposed, chunk, decoder, child,
                 killStage, inputVars>>

\* write, from a client or from the emulator that answers a query: longer data
\* is sent in parts, each of which may be dropped.
Write(n) ==
  /\ daemonUp /\ alive /\ ready
  /\ ~terminating
  /\ accepted + n <= MaxIn
  /\ Becomes(IF n <= Part THEN Sent(Now, "Write", n)
             ELSE Sent(Sent(Now, "Write", Part), "Write", n - Part))
  /\ UNCHANGED <<daemonUp, alive, ready, terminating, disposed, chunk, decoder,
                 child, killStage, inputVars>>

\* stdin emits "drain".
\* Mutant: the queue is left until the next frame is sent.
Drained_NoFlush(st) == st
Drained(st) == Flushed(st)

Drain ==
  /\ daemonUp /\ alive /\ armed
  /\ Len(pipe) < PipeRoom
  /\ Becomes(Drained([Now EXCEPT !.armed = FALSE]))
  /\ UNCHANGED <<daemonUp, alive, ready, terminating, disposed, chunk, decoder,
                 child, killStage, inputVars>>

\* kill: through the subprocess if it is ready, else the subprocess itself.
Kill ==
  /\ daemonUp /\ alive /\ ~terminating
  /\ terminating' = TRUE
  /\ IF ready THEN Becomes(Sent(Now, "Kill", 0)) /\ UNCHANGED <<child, chunk>>
     ELSE child' = "gone" /\ UNCHANGED <<stdinQueue, pipe, armed, accepted, chunk>>
  /\ UNCHANGED <<daemonUp, alive, ready, disposed, decoder, killStage, inputVars>>

\* resetProcessState.
Reset ==
  /\ alive' = FALSE /\ ready' = FALSE
  /\ stdinQueue' = << >> /\ armed' = FALSE

\* dispose: disposed is set first, so that no Dispose frame is ever sent, and the
\* subprocess is killed from outside.
Dispose ==
  /\ daemonUp /\ ~disposed
  /\ disposed' = TRUE
  /\ Reset
  /\ child' = IF alive THEN "gone" ELSE child
  /\ UNCHANGED <<daemonUp, terminating, accepted, pipe, chunk, decoder, killStage,
                 inputVars>>

\* The fail-safe timer of TerminalHost.kill.
FailSafe == terminating /\ Dispose

\* handleSubprocessExit.
SessionExit ==
  /\ daemonUp /\ alive
  /\ child = "gone"
  /\ Reset
  /\ UNCHANGED <<daemonUp, terminating, disposed, accepted, pipe, chunk, decoder,
                 child, killStage, inputVars>>

\* The daemon ends, and with it what its stream had not yet given to the pipe.
DaemonDies ==
  /\ daemonUp
  /\ daemonUp' = FALSE
  /\ Reset
  /\ \E n \in chunk .. Len(pipe) : pipe' = SubSeq(pipe, 1, n)
  /\ UNCHANGED <<terminating, disposed, accepted, chunk, decoder, child, killStage,
                 inputVars>>

-----------------------------------------------------------------------------
(* The subprocess: frames *)

Runs == child \notin {"gone"} /\ chunk = 0

\* stdin emits "data".
ReadChunk ==
  /\ Runs /\ ~stdinPaused
  /\ \E n \in 1 .. MaxChunk : n <= Len(pipe) /\ chunk' = n
  /\ UNCHANGED <<daemonUp, sessionVars, pipe, decoder, child, killStage, inputVars>>

TakeBuffer ==
  /\ child # "gone" /\ chunk > 0
  /\ pipe' = Tail(pipe) /\ chunk' = chunk - 1

TakeHeader ==
  /\ TakeBuffer
  /\ decoder = "none"
  /\ decoder' = Head(pipe).type
  /\ UNCHANGED <<daemonUp, sessionVars, child, killStage, inputVars>>

TakePayload(type) ==
  /\ TakeBuffer
  /\ decoder = type
  /\ decoder' = "none"

\* handleSpawn: the PTY is spawned, or the subprocess stays without one.
TakeSpawn ==
  /\ TakePayload("Spawn")
  /\ IF child = "boot" THEN child' \in {"running", "unspawned"} ELSE UNCHANGED child
  /\ UNCHANGED <<daemonUp, sessionVars, killStage, inputVars>>

\* maybePauseStdin, maybeResumeStdin, when n units are queued.
PausedAt(n) == stdinPaused \/ n >= HighWater
\* Mutant: nothing resumes stdin.
ResumedAt_Never(n) == stdinPaused
ResumedAt(n) == stdinPaused /\ n > LowWater

\* handleWrite and queueWriteBuffer.
TakeWrite ==
  /\ TakePayload("Write")
  /\ LET new == [from |-> Head(pipe).from, to |-> Head(pipe).to]
         n == queued + (new.to - new.from + 1) IN
     IF child # "running" \/ n > HardLimit THEN UNCHANGED inputVars
     ELSE /\ queue' = Append(queue, new)
          /\ queued' = n
          /\ stdinPaused' = PausedAt(n)
          /\ flush' = IF flush = "idle" THEN "scheduled" ELSE flush
          /\ UNCHANGED <<failed, received>>
  /\ UNCHANGED <<daemonUp, sessionVars, child, killStage>>

\* handleKill, its first signal.
TakeKill ==
  /\ TakePayload("Kill")
  /\ killStage' = IF child = "running" THEN "term" ELSE killStage
  /\ UNCHANGED <<daemonUp, sessionVars, child, inputVars>>

-----------------------------------------------------------------------------
(* The subprocess: writing to the PTY *)

Flush ==
  /\ Runs
  /\ flush = "scheduled"
  /\ flush' = IF child # "running" \/ queue = << >> THEN "idle" ELSE "writing"
  /\ UNCHANGED <<daemonUp, sessionVars, pipe, chunk, decoder, child, killStage,
                 queue, queued, stdinPaused, failed, received>>

\* A write has taken n of the units of the first buffer.
\* Mutant: the buffer is not cut, what was written of it is written again.
Rest_Whole(n) ==
  IF n = Head(queue).to - Head(queue).from + 1 THEN Tail(queue) ELSE queue
Rest(n) ==
  LET first == Head(queue) IN
  IF n = first.to - first.from + 1 THEN Tail(queue)
  ELSE << [first EXCEPT !.from = @ + n] >> \o Tail(queue)

WriteOk ==
  /\ Runs
  /\ flush = "writing"
  /\ \E n \in 1 .. Head(queue).to - Head(queue).from + 1 :
       /\ received' = received \o [i \in 1 .. n |-> Head(queue).from + i - 1]
       /\ queue' = Rest(n)
       /\ queued' = queued - n
       /\ stdinPaused' = ResumedAt(queued')
  /\ flush' = IF queue' = << >> THEN "idle" ELSE "scheduled"
  /\ UNCHANGED <<daemonUp, sessionVars, pipe, chunk, decoder, child, killStage,
                 failed>>

\* EAGAIN: the program behind the PTY does not read; tried again after a while.
WriteAgain ==
  /\ Runs
  /\ flush = "writing"
  /\ flush' = "scheduled"
  /\ UNCHANGED <<daemonUp, sessionVars, pipe, chunk, decoder, child, killStage,
                 queue, queued, stdinPaused, failed, received>>

\* Any other error: the queue is emptied, and stdin left as it is.
WriteFails ==
  /\ Runs
  /\ flush = "writing"
  /\ queue' = << >> /\ queued' = 0 /\ flush' = "idle"
  /\ failed' = TRUE
  /\ UNCHANGED <<daemonUp, sessionVars, pipe, chunk, decoder, child, killStage,
                 stdinPaused, received>>

-----------------------------------------------------------------------------
(* The subprocess: its end *)

\* onExit; the process ends 100 ms later.
PtyExit ==
  /\ Runs
  /\ child = "running"
  /\ child' = "exiting"
  /\ UNCHANGED <<daemonUp, sessionVars, pipe, chunk, decoder, killStage, inputVars>>

ChildEnds ==
  /\ Runs
  /\ child = "exiting"
  /\ child' = "gone"
  /\ UNCHANGED <<daemonUp, sessionVars, pipe, chunk, decoder, killStage, inputVars>>

\* Two seconds after the first signal, the second.
Escalate ==
  /\ Runs
  /\ child = "running" /\ killStage = "term"
  /\ killStage' = "kill"
  /\ UNCHANGED <<daemonUp, sessionVars, pipe, chunk, decoder, child, inputVars>>

\* One second later the process ends, with or without its PTY's exit.
ForceExit ==
  /\ Runs
  /\ child = "running" /\ killStage = "kill"
  /\ child' = "gone"
  /\ UNCHANGED <<daemonUp, sessionVars, pipe, chunk, decoder, killStage, inputVars>>

\* stdin emits "end", when all of it was read: handleDispose.
StdinEnd ==
  /\ Runs /\ ~daemonUp
  /\ pipe = << >> /\ ~stdinPaused
  /\ child' = "gone"
  /\ queue' = << >> /\ queued' = 0 /\ flush' = "idle"
  /\ UNCHANGED <<daemonUp, sessionVars, pipe, chunk, decoder, killStage, stdinPaused,
                 failed, received>>

-----------------------------------------------------------------------------

Next ==
  \/ Ready \/ Drain \/ Kill \/ Dispose \/ SessionExit \/ DaemonDies
  \/ \E n \in 1 .. 2 * Part : Write(n)
  \/ ReadChunk \/ TakeHeader \/ TakeSpawn \/ TakeWrite \/ TakeKill
  \/ Flush \/ WriteOk \/ WriteAgain \/ WriteFails
  \/ PtyExit \/ ChildEnds \/ Escalate \/ ForceExit \/ StdinEnd

Spec == Init /\ [][Next]_vars

(* Timers fire, stream and child events are delivered, and the program behind  *)
(* the PTY goes on reading its input now and then.                             *)
Fairness ==
  /\ WF_vars(Ready) /\ WF_vars(Drain) /\ WF_vars(FailSafe)
  /\ WF_vars(ReadChunk)
  /\ WF_vars(TakeHeader \/ TakeSpawn \/ TakeWrite \/ TakeKill)
  /\ WF_vars(Flush) /\ WF_vars(WriteOk \/ WriteAgain \/ WriteFails)
  /\ SF_vars(WriteOk \/ WriteFails)
  /\ WF_vars(ChildEnds) /\ WF_vars(Escalate) /\ WF_vars(ForceExit)
  /\ WF_vars(StdinEnd)

FairSpec == Spec /\ Fairness

-----------------------------------------------------------------------------
(* Properties *)

\* The PTY receives the input in order, each unit once; and without a hole, unless
\* a write to it failed (the buffers dequeued before they are written, the drain,
\* the decoder, partial writes and retries; session.test.ts "never duplicates
\* bytes when every write reports backpressure").
InputInOrder ==
  /\ \A i \in 2 .. Len(received) : received[i - 1] < received[i]
  /\ ~failed => \A i \in 1 .. Len(received) : received[i] = i

\* The path of the input is a channel: the session accepts nothing once it is being
\* ended, and the PTY gets the units that were accepted, in order, each once, and
\* without a hole, unless a write to it failed (the two clauses of InputInOrder, as
\* a promise about every step).
Channel == INSTANCE InputChannel WITH open <- alive /\ ~terminating, broken <- failed

ImplementsChannel == Channel!Spec

\* What the session has accepted reaches the PTY, through the drain of stdin, the
\* pause and resumption at the water marks and the retries, as long as daemon and
\* PTY are there and no write has failed.
InputFlows ==
  \A n \in 1 .. MaxIn :
    accepted >= n ~> \/ \E i \in 1 .. Len(received) : received[i] = n
                     \/ failed \/ ~daemonUp
                     \/ child \in {"unspawned", "exiting", "gone"}

\* A killed terminal and one whose daemon has ended do not live on: by the Kill
\* frame and its timers, by the fail-safe timer when the frame was dropped or is
\* not read, or by the end of stdin.  The exception is a subprocess that paused
\* stdin and then dropped its queue after a failed write: it never reads the end.
NothingLeftRunning ==
  terminating \/ ~daemonUp ~> child = "gone" \/ (~daemonUp /\ failed /\ stdinPaused)

=============================================================================
