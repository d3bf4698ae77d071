------------------------ MODULE TerminalOutputProofs ------------------------
(***************************************************************************)
(* Proofs about TerminalOutput for any set of sockets, any amount of       *)
(* output and any size of batches and of the pipe: types, order, what a    *)
(* pause owes, no gap, and the refinement of OutputFeed.                   *)
(***************************************************************************)
EXTENDS TerminalOutput, SequenceTheorems, TLAPS

-----------------------------------------------------------------------------
(* Type correctness *)

\* Whatever the coalescer has queued becomes at most one Data frame.
LEMMA BatchType ==
  ASSUME TypeOK, NEW n \in Nat, n >= flushed
  PROVE  /\ Batch(n) \in Seq(Frame)
         /\ Batch(n) = << >> \/ Batch(n) = << [type |-> "Data", units |-> flushed + 1 .. n] >>
<1>1. flushed + 1 .. n \in SUBSET Unit
  BY DEF TypeOK, Unit
<1>2. [type |-> "Data", units |-> flushed + 1 .. n] \in Frame
  BY <1>1 DEF Frame
<1> QED BY <1>2 DEF Batch

LEMMA ExitFrameType == ExitFrame \in Frame
BY DEF ExitFrame, Frame

LEMMA LastFramesType ==
  ASSUME TypeOK
  PROVE  LastFrames \in Seq(Frame)
<1>1. Batch(produced) \in Seq(Frame)
  BY BatchType DEF TypeOK
<1>2. << ExitFrame >> \in Seq(Frame)
  BY ExitFrameType
<1> QED BY <1>1, <1>2, ConcatProperties DEF LastFrames

\* Sending keeps the types; what was in the pipe stays there.
LEMMA SendType ==
  ASSUME TypeOK, NEW new \in Seq(Frame), Send(new)
  PROVE  /\ pipe' \in Seq(Frame) /\ Len(pipe') = Len(pipe) + Len(new)
         /\ draining' \in BOOLEAN /\ ptyPaused' \in BOOLEAN
<1>1. pipe \in Seq(Frame)
  BY DEF TypeOK
<1>2. pipe \o new \in Seq(Frame) /\ Len(pipe \o new) = Len(pipe) + Len(new)
  BY <1>1, ConcatProperties
<1> QED BY <1>2 DEF Send, TypeOK

\* The subprocess changes its own state and the pipe only.
ChildTypeOK ==
  /\ produced \in Nat /\ flushed \in 0 .. produced
  /\ timer \in BOOLEAN /\ ptyPaused \in BOOLEAN /\ draining \in BOOLEAN
  /\ child \in ChildState
  /\ pipe \in Seq(Frame)
  /\ frames \in 0 .. Len(pipe)

LEMMA ChildTypeStep ==
  ASSUME TypeOK, PtyData \/ TimerFires \/ PtyExit \/ ForceExit \/ ChildEnds \/ StdoutDrain
  PROVE  ChildTypeOK'
<1> USE DEF ChildTypeOK, ChildState
<1>0. ASSUME NEW new \in Seq(Frame), Send(new), frames' = frames
      PROVE  pipe' \in Seq(Frame) /\ frames' \in 0 .. Len(pipe')
             /\ draining' \in BOOLEAN /\ ptyPaused' \in BOOLEAN
  <2>1. Len(new) \in Nat
    BY LenProperties
  <2> QED BY <1>0, <2>1, SendType DEF TypeOK
<1>1. CASE PtyData
  <2>1. CASE produced + 1 - flushed >= MaxBatch
    <3>0. produced' = produced + 1 /\ produced' \in Nat /\ produced' >= flushed
          /\ produced' - flushed >= MaxBatch
      BY <1>1, <2>1 DEF PtyData, TypeOK
    <3>1. Batch(produced') \in Seq(Frame)
      BY <3>0, BatchType
    <3>2. Send(Batch(produced')) /\ frames' = frames
      BY <1>1, <3>0 DEF PtyData
    <3>3. pipe' \in Seq(Frame) /\ frames' \in 0 .. Len(pipe')
             /\ draining' \in BOOLEAN /\ ptyPaused' \in BOOLEAN
      BY <1>0, <3>1, <3>2
    <3>4. produced' \in Nat /\ flushed' \in 0 .. produced'
      BY <1>1, <3>0 DEF PtyData
    <3>5. timer' \in BOOLEAN /\ child' \in {"running", "exiting", "gone"}
      BY <1>1, <3>0 DEF PtyData
    <3> QED BY <3>3, <3>4, <3>5
  <2>2. CASE ~(produced + 1 - flushed >= MaxBatch)
    BY <1>1, <2>2 DEF PtyData, Quiet, TypeOK
  <2> QED BY <2>1, <2>2
<1>2. CASE TimerFires
  <2>1. CASE flushed = produced
    BY <1>2, <2>1 DEF TimerFires, Quiet, TypeOK
  <2>2. CASE flushed # produced
    <3>1. Batch(produced) \in Seq(Frame)
      BY BatchType DEF TypeOK
    <3>2. Send(Batch(produced)) /\ frames' = frames
      BY <1>2, <2>2 DEF TimerFires
    <3>3. pipe' \in Seq(Frame) /\ frames' \in 0 .. Len(pipe')
             /\ draining' \in BOOLEAN /\ ptyPaused' \in BOOLEAN
      BY <1>0, <3>1, <3>2
    <3>4. produced' \in Nat /\ flushed' \in 0 .. produced'
      BY <1>2 DEF TimerFires, TypeOK
    <3>5. timer' \in BOOLEAN /\ child' \in {"running", "exiting", "gone"}
      BY <1>2 DEF TimerFires, TypeOK
    <3> QED BY <3>3, <3>4, <3>5
  <2> QED BY <2>1, <2>2
<1>3. CASE PtyExit
  <2>1. Send(LastFrames) /\ frames' = frames
    BY <1>3 DEF PtyExit
  <2>2. pipe' \in Seq(Frame) /\ frames' \in 0 .. Len(pipe')
             /\ draining' \in BOOLEAN /\ ptyPaused' \in BOOLEAN
    BY <1>0, <2>1, LastFramesType
  <2>3. produced' \in Nat /\ flushed' \in 0 .. produced'
    BY <1>3 DEF PtyExit, TypeOK
  <2>4. timer' \in BOOLEAN /\ child' \in {"running", "exiting", "gone"}
    BY <1>3 DEF PtyExit
  <2> QED BY <2>2, <2>3, <2>4
<1>4. CASE ForceExit
  <2>1. << ExitFrame >> \in Seq(Frame)
    BY ExitFrameType
  <2>2. Send(<< ExitFrame >>) /\ frames' = frames
    BY <1>4 DEF ForceExit
  <2>3. pipe' \in Seq(Frame) /\ frames' \in 0 .. Len(pipe')
             /\ draining' \in BOOLEAN /\ ptyPaused' \in BOOLEAN
    BY <1>0, <2>1, <2>2
  <2> QED BY <1>4, <2>3 DEF ForceExit, TypeOK
<1>5. CASE ChildEnds
  BY <1>5 DEF ChildEnds, TypeOK
<1>6. CASE StdoutDrain
  BY <1>6 DEF StdoutDrain, ResumePty, TypeOK
<1> QED BY <1>1, <1>2, <1>3, <1>4, <1>5, <1>6

LEMMA BroadcastType ==
  ASSUME TypeOK, Broadcast
  PROVE  /\ sock' \in [Socks -> SockState] /\ waiting' \subseteq Socks
         /\ stdoutPaused' \in BOOLEAN /\ attached' = attached
BY DEF Broadcast, TypeOK, SockState

LEMMA ResetType ==
  ASSUME TypeOK, Reset
  PROVE  /\ connected' \in BOOLEAN /\ pipe' = << >>
         /\ writes' \in Seq(SUBSET Unit) /\ scheduled' \in BOOLEAN
         /\ processed' \in Nat /\ emulator' \subseteq Unit
         /\ boundary' \in [Socks -> Nat] /\ call' \in [Socks -> CallState]
         /\ outcome' \in [Socks -> Outcome] /\ due' \in [Socks -> SUBSET Unit]
         /\ snapshot' \in [Socks -> SUBSET Unit]
<1>1. connected' \in BOOLEAN /\ scheduled' \in BOOLEAN
  BY DEF Reset
<1>2. /\ pipe' = << >> /\ writes' \in Seq(SUBSET Unit) /\ processed' \in Nat
      /\ emulator' \subseteq Unit /\ boundary' \in [Socks -> Nat]
      /\ snapshot' \in [Socks -> SUBSET Unit]
  BY DEF Reset, TypeOK
<1>3. /\ call' \in [Socks -> CallState] /\ outcome' \in [Socks -> Outcome]
      /\ due' \in [Socks -> SUBSET Unit]
  BY DEF Reset, TypeOK, CallState, Outcome
<1> QED BY <1>1, <1>2, <1>3

LEMMA TypeInit == Init => TypeOK
<1> SUFFICES ASSUME Init PROVE TypeOK
  OBVIOUS
<1>1. /\ produced \in Nat /\ flushed \in 0 .. produced
      /\ pipe \in Seq(Frame) /\ frames \in 0 .. Len(pipe)
      /\ writes \in Seq(SUBSET Unit) /\ processed \in Nat
      /\ boundary \in [Socks -> Nat]
  BY DEF Init
<1>2. /\ timer \in BOOLEAN /\ ptyPaused \in BOOLEAN /\ draining \in BOOLEAN
      /\ connected \in BOOLEAN /\ exited \in BOOLEAN /\ disposed \in BOOLEAN
      /\ scheduled \in BOOLEAN /\ stdoutPaused \in BOOLEAN
      /\ told \in [Socks -> BOOLEAN]
  BY DEF Init
<1>3. /\ child \in ChildState /\ sock \in [Socks -> SockState]
      /\ call \in [Socks -> CallState] /\ outcome \in [Socks -> Outcome]
  BY DEF Init, ChildState, SockState, CallState, Outcome
<1>4. /\ emulator \subseteq Unit /\ attached \subseteq Socks /\ waiting \subseteq Socks
      /\ taken \subseteq Unit /\ due \in [Socks -> SUBSET Unit]
      /\ snapshot \in [Socks -> SUBSET Unit] /\ got \in [Socks -> SUBSET Unit]
  BY DEF Init
<1> QED BY <1>1, <1>2, <1>3, <1>4 DEF TypeOK

LEMMA TypeStep == TypeOK /\ [Next]_vars => TypeOK'
<1> SUFFICES ASSUME TypeOK, [Next]_vars PROVE TypeOK'
  OBVIOUS
<1> USE DEF childVars, emulatorVars, attachVars, clientVars, eventVars, stateVars
<1>1. ASSUME PtyData \/ TimerFires \/ PtyExit \/ ForceExit \/ ChildEnds \/ StdoutDrain
      PROVE  TypeOK'
  <2>1. ChildTypeOK'
    BY <1>1, ChildTypeStep
  <2>2. UNCHANGED <<stateVars, emulatorVars, clientVars, attachVars, eventVars, taken>>
    BY <1>1 DEF PtyData, TimerFires, PtyExit, ForceExit, ChildEnds, StdoutDrain
  <2> QED BY <2>1, <2>2 DEF TypeOK, ChildTypeOK
<1>2. CASE ReadChunk
  BY <1>2 DEF ReadChunk, Idle, TypeOK
<1>3. ASSUME frames > 0, pipe' = Tail(pipe), frames' = frames - 1
      PROVE  pipe' \in Seq(Frame) /\ frames' \in 0 .. Len(pipe') /\ Head(pipe) \in Frame
             /\ Head(pipe).units \in SUBSET Unit
  <2>1. pipe # << >> /\ pipe \in Seq(Frame)
    BY <1>3 DEF TypeOK
  <2>2. /\ Tail(pipe) \in Seq(Frame) /\ Len(Tail(pipe)) = Len(pipe) - 1
        /\ Head(pipe) \in Frame
    BY <2>1, HeadTailProperties
  <2> QED BY <1>3, <2>2 DEF TypeOK, Frame
<1>4. CASE HandleData
  <2>1. /\ pipe' \in Seq(Frame) /\ frames' \in 0 .. Len(pipe')
        /\ Head(pipe).units \in SUBSET Unit
    BY <1>3, <1>4 DEF HandleData
  <2>2. writes' \in Seq(SUBSET Unit)
    BY <1>4, <2>1 DEF HandleData, TypeOK
  <2>3. got' \in [Socks -> SUBSET Unit]
    BY <1>4, <2>1 DEF HandleData, TypeOK
  <2> QED BY <1>4, <2>1, <2>2, <2>3, BroadcastType DEF HandleData, TypeOK
<1>5. CASE HandleExit
  <2>1. pipe' \in Seq(Frame) /\ frames' \in 0 .. Len(pipe')
    BY <1>3, <1>5 DEF HandleExit
  <2> QED BY <1>5, <2>1, BroadcastType DEF HandleExit, TellExit, TypeOK
<1>6. CASE HandleChildExit
  <2>1. told' \in [Socks -> BOOLEAN]
    BY <1>6 DEF HandleChildExit, TellExit, TypeOK
  <2>2. pipe' \in Seq(Frame) /\ frames' \in 0 .. Len(pipe')
    BY <1>6, ResetType DEF HandleChildExit, Idle
  <2>3. exited' \in BOOLEAN /\ stdoutPaused' \in BOOLEAN
    BY <1>6 DEF HandleChildExit
  <2>4. UNCHANGED <<childVars, disposed, attached, waiting, sock, got, taken>>
    BY <1>6 DEF HandleChildExit
  <2> HIDE DEF ChildState, CallState, SockState, Outcome
  <2> QED BY <1>6, <2>1, <2>2, <2>3, <2>4, ResetType DEF HandleChildExit, TypeOK
<1>7. CASE WriteItem
  <2>1. Head(writes) \in SUBSET Unit /\ Tail(writes) \in Seq(SUBSET Unit)
    BY <1>7, HeadTailProperties DEF WriteItem, TypeOK
  <2>2. emulator' \subseteq Unit
    BY <1>7, <2>1 DEF WriteItem, TypeOK
  <2>3. /\ call' \in [Socks -> CallState] /\ outcome' \in [Socks -> Outcome]
        /\ due' \in [Socks -> SUBSET Unit]
    BY <1>7, <2>2 DEF WriteItem, ResolveReached, TypeOK, CallState, Outcome
  <2> QED BY <1>7, <2>1, <2>2, <2>3 DEF WriteItem, TypeOK
<1>8. CASE WriteSlice
  <2>1. PICK first \in Head(writes) :
          /\ writes' = [writes EXCEPT ![1] = @ \ {first}]
          /\ emulator' = emulator \cup {first}
    BY <1>8 DEF WriteSlice
  <2>2. writes \in Seq(SUBSET Unit) /\ writes # << >>
    BY <1>8 DEF WriteSlice, TypeOK
  <2>3. Head(writes) \in SUBSET Unit /\ Head(writes) = writes[1]
    BY <2>2, HeadTailProperties
  <2>4. writes' \in Seq(SUBSET Unit)
    BY <2>1, <2>2, <2>3, ExceptSeq
  <2> QED BY <1>8, <2>1, <2>3, <2>4 DEF WriteSlice, TypeOK
<1>9. ASSUME NEW s \in Socks, Attach(s)
      PROVE  TypeOK'
  <2>1. /\ snapshot' \in [Socks -> SUBSET Unit] /\ got' \in [Socks -> SUBSET Unit]
        /\ attached' \subseteq Socks
    BY <1>9 DEF Attach, TypeOK
  <2>2. /\ call' \in [Socks -> CallState] /\ outcome' \in [Socks -> Outcome]
        /\ due' \in [Socks -> SUBSET Unit] /\ boundary' \in [Socks -> Nat]
    <3>1. CASE writes = << >>
      <4>1. /\ call' = [call EXCEPT ![s] = "flushing"]
            /\ outcome' = [outcome EXCEPT ![s] = "flushed"]
            /\ due' = [due EXCEPT ![s] = emulator]
            /\ boundary' = boundary
        BY <1>9, <3>1 DEF Attach
      <4> QED BY <4>1 DEF TypeOK, CallState, Outcome
    <3>2. CASE writes # << >>
      <4>1. Target \in Nat
        BY LenProperties DEF Target, TypeOK
      <4> QED BY <1>9, <3>2, <4>1 DEF Attach, TypeOK, CallState, Outcome
    <3> QED BY <3>1, <3>2
  <2>3. told' \in [Socks -> BOOLEAN] /\ scheduled' \in BOOLEAN
    BY <1>9 DEF Attach, TypeOK
  <2>4. UNCHANGED <<childVars, pipe, frames, stateVars, writes, processed,
                    emulator, waiting, stdoutPaused, sock, taken>>
    BY <1>9 DEF Attach
  <2> QED BY <2>1, <2>2, <2>3, <2>4 DEF TypeOK
<1>10. ASSUME NEW s \in Socks, AttachTimeout(s)
      PROVE  TypeOK'
  BY <1>10 DEF AttachTimeout, TypeOK, CallState, Outcome
<1>11. ASSUME NEW s \in Socks, TakeSnapshot(s)
      PROVE  TypeOK'
  <2>1. snapshot' \in [Socks -> SUBSET Unit]
    BY <1>11 DEF TakeSnapshot, TypeOK
  <2> QED BY <1>11, <2>1 DEF TakeSnapshot, TypeOK, CallState, Outcome
<1>12. ASSUME NEW s \in Socks, Detach(s) \/ SockClose(s) \/ SockDrain(s)
      PROVE  TypeOK'
  BY <1>12 DEF Detach, SockClose, SockDrain, Forget, MaybeResume, TypeOK, SockState
<1>13. CASE Dispose
  <2>1. pipe' \in Seq(Frame) /\ frames' \in 0 .. Len(pipe')
    BY <1>13, ResetType DEF Dispose, Idle
  <2>2. disposed' \in BOOLEAN /\ stdoutPaused' \in BOOLEAN
    BY <1>13 DEF Dispose
  <2>3. child' \in ChildState /\ attached' \subseteq Socks /\ waiting' \subseteq Socks
    BY <1>13 DEF Dispose, ChildState
  <2>4. UNCHANGED <<produced, flushed, timer, ptyPaused, draining, exited, sock,
                    eventVars, taken>>
    BY <1>13 DEF Dispose
  <2> QED BY <1>13, <2>1, <2>2, <2>3, <2>4, ResetType DEF Dispose, TypeOK
<1>14. CASE UNCHANGED vars
  BY <1>14 DEF vars, TypeOK
<1> QED BY <1>1, <1>2, <1>4, <1>5, <1>6, <1>7, <1>8, <1>9, <1>10, <1>11, <1>12,
           <1>13, <1>14 DEF Next

\* Every variable of the output path keeps its type; a chunk being handled never
\* has more frames than the pipe.
THEOREM OutputTypes == Spec => []TypeOK
BY TypeInit, TypeStep, PTL DEF Spec

-----------------------------------------------------------------------------
(* Backpressure *)

\* Sockets that owe a drain are attached, full, and there is one as long as
\* stdout is paused; no attached socket is closed.
OwedInv ==
  /\ waiting \subseteq attached
  /\ \A s \in waiting : sock[s] = "full"
  /\ \A s \in attached : sock[s] # "closed"
  /\ stdoutPaused => waiting # {}

LEMMA OwedStep ==
  ASSUME PatientClients, TypeOK, OwedInv, [Next]_vars
  PROVE  OwedInv'
<1> USE DEF clientVars
<1>1. ASSUME UNCHANGED clientVars
      PROVE  OwedInv'
  BY <1>1 DEF OwedInv
<1>2. ASSUME Broadcast
      PROVE  OwedInv'
  <2>1. PICK full \in SUBSET attached :
          /\ sock' = [s \in Socks |-> IF s \in full /\ sock[s] = "open"
                                      THEN "full" ELSE sock[s]]
          /\ waiting' = waiting \cup full
          /\ stdoutPaused' = (stdoutPaused \/ full # {})
          /\ UNCHANGED attached
    BY <1>2 DEF Broadcast
  <2>2. \A s \in full : sock[s] \in {"open", "full"}
    BY DEF OwedInv, TypeOK, SockState
  <2>3. waiting' \subseteq attached' /\ \A s \in waiting' : sock'[s] = "full"
    BY <2>1, <2>2 DEF OwedInv, TypeOK
  <2>4. \A s \in attached' : sock'[s] # "closed"
    BY <2>1 DEF OwedInv, TypeOK
  <2>5. stdoutPaused' => waiting' # {}
    BY <2>1 DEF OwedInv
  <2> QED BY <2>3, <2>4, <2>5 DEF OwedInv
<1>3. ASSUME NEW s \in Socks, Attach(s)
      PROVE  OwedInv'
  BY <1>3 DEF Attach, OwedInv
<1>4. ASSUME NEW s \in Socks, Detach(s) \/ SockClose(s) \/ SockDrain(s)
      PROVE  OwedInv'
  <2>1. waiting' \subseteq attached'
    BY <1>4 DEF OwedInv, Detach, SockClose, SockDrain, Forget
  <2>2. /\ \A x \in waiting' : sock'[x] = "full"
        /\ \A x \in attached' : sock'[x] # "closed"
    BY <1>4 DEF OwedInv, TypeOK, Detach, SockClose, SockDrain, Forget
  <2>3. stdoutPaused' => waiting' # {}
    BY <1>4 DEF Detach, SockClose, SockDrain, Forget, MaybeResume
  <2> QED BY <2>1, <2>2, <2>3 DEF OwedInv
<1>5. CASE HandleChildExit
  BY <1>5 DEF HandleChildExit, OwedInv
<1>6. CASE Dispose
  BY <1>6 DEF Dispose, OwedInv
<1>7. CASE HandleData \/ HandleExit
  BY <1>2, <1>7 DEF HandleData, HandleExit
<1> QED
  BY <1>1, <1>3, <1>4, <1>5, <1>6, <1>7
     DEF Next, vars, PtyData, TimerFires, PtyExit, ForceExit, ChildEnds,
         StdoutDrain, ReadChunk, WriteItem, WriteSlice, AttachTimeout, TakeSnapshot

\* A paused stdout has a client whose drain, detach or end will resume it, if no
\* client is attached with a socket that is closed already.
THEOREM OutputPausedOwed == PatientClients => (Spec => []PausedMeansOwed)
<1> SUFFICES ASSUME PatientClients PROVE Spec => []PausedMeansOwed
  OBVIOUS
<1>1. Init => OwedInv
  BY DEF Init, OwedInv
<1>2. OwedInv => PausedMeansOwed
  BY DEF OwedInv, PausedMeansOwed
<1> QED BY <1>1, <1>2, OwedStep, OutputTypes, PTL DEF Spec

-----------------------------------------------------------------------------
(* The order of the output *)

IsData(f) == f.type = "Data"

\* What is in the pipe is newer than what was taken and in order, and no output
\* follows an Exit frame.
PipeOrder ==
  /\ \A v \in taken : v <= flushed
  /\ \A i \in 1 .. Len(pipe) : IsData(pipe[i]) =>
       \A u \in pipe[i].units : u <= flushed /\ \A v \in taken : v < u
  /\ \A i, j \in 1 .. Len(pipe) : i < j /\ IsData(pipe[j]) =>
       IsData(pipe[i]) /\ \A u \in pipe[i].units, v \in pipe[j].units : u < v

\* The end of the output: an Exit frame is sent by a subprocess that sends no
\* output any more, and clients are told once the pipe has none either.
ExitOrder ==
  /\ \A i \in 1 .. Len(pipe) : ~IsData(pipe[i]) => child # "running"
  /\ exited => child # "running" /\ \A i \in 1 .. Len(pipe) : ~IsData(pipe[i])
  /\ child = "exiting" => ~timer
  /\ \A s \in Socks : told[s] => exited

LEMMA ExitIsNoData == ~IsData(ExitFrame)
BY DEF IsData, ExitFrame

\* The frame of a batch, as the only element of a sequence.
LEMMA OneFrame ==
  ASSUME NEW units \in SUBSET Unit
  PROVE  /\ Len(<< [type |-> "Data", units |-> units] >>) = 1
         /\ << [type |-> "Data", units |-> units] >>[1].units = units
BY Z3

LEMMA TwoFrames ==
  ASSUME NEW a \in Frame, NEW b \in Frame
  PROVE  /\ Len(<< a >> \o << b >>) = 2
         /\ (<< a >> \o << b >>)[1] = a /\ (<< a >> \o << b >>)[2] = b
<1>1. << a >> \in Seq(Frame) /\ << b >> \in Seq(Frame) /\ Len(<< a >>) = 1 /\ Len(<< b >>) = 1
      /\ << a >>[1] = a /\ << b >>[1] = b
  OBVIOUS
<1> QED BY <1>1, ConcatProperties

\* Frames with new output at their head keep the order.
LEMMA SendOrder ==
  ASSUME TypeOK, PipeOrder, ExitOrder, NEW new \in Seq(Frame), Send(new),
         flushed' \in Nat, flushed' >= flushed, taken' = taken,
         \A i \in 1 .. Len(new) : IsData(new[i]) =>
            /\ i = 1 /\ child = "running"
            /\ new[i].units \subseteq flushed + 1 .. flushed'
  PROVE  /\ PipeOrder'
         /\ Len(pipe') = Len(pipe) + Len(new)
         /\ \A i \in 1 .. Len(pipe') : pipe'[i] = IF i <= Len(pipe) THEN pipe[i]
                                                  ELSE new[i - Len(pipe)]
<1>1. pipe \in Seq(Frame) /\ taken \subseteq Nat /\ flushed \in Nat
      /\ Len(pipe) \in Nat /\ Len(new) \in Nat
  BY LenProperties DEF TypeOK, Unit
<1>2. pipe' = pipe \o new
  BY DEF Send
<1>3. Len(pipe') = Len(pipe) + Len(new)
  BY <1>1, <1>2, ConcatProperties
<1>4. \A i \in 1 .. Len(pipe') : pipe'[i] = IF i <= Len(pipe) THEN pipe[i]
                                                ELSE new[i - Len(pipe)]
  BY <1>1, <1>2, <1>3, ConcatProperties
<1>5. \A i \in 1 .. Len(pipe') : i > Len(pipe) =>
        i - Len(pipe) \in 1 .. Len(new) /\ pipe'[i] = new[i - Len(pipe)]
  BY <1>1, <1>3, <1>4
<1>6. \A i \in 1 .. Len(pipe) : pipe[i].units \subseteq Nat
  <2>1. \A i \in 1 .. Len(pipe) : pipe[i] \in Frame
    BY <1>1, ElementOfSeq
  <2> QED BY <2>1 DEF Frame, Unit
<1>7. \A v \in taken' : v <= flushed'
  BY <1>1 DEF PipeOrder
<1>8. \A i \in 1 .. Len(pipe') : IsData(pipe'[i]) =>
        \A u \in pipe'[i].units : u <= flushed' /\ \A v \in taken' : v < u
  <2> SUFFICES ASSUME NEW i \in 1 .. Len(pipe'), IsData(pipe'[i]),
                      NEW u \in pipe'[i].units
               PROVE  u <= flushed' /\ \A v \in taken : v < u
    OBVIOUS
  <2>1. CASE i <= Len(pipe)
    <3>1. i \in 1 .. Len(pipe) /\ pipe'[i] = pipe[i]
      BY <1>1, <1>3, <1>4, <2>1
    <3> QED BY <1>1, <1>6, <3>1 DEF PipeOrder
  <2>2. CASE i > Len(pipe)
    <3>1. u \in flushed + 1 .. flushed'
      BY <1>5, <2>2
    <3> QED BY <1>1, <3>1 DEF PipeOrder
  <2> QED BY <1>1, <1>3, <2>1, <2>2
<1>9. \A i, j \in 1 .. Len(pipe') : i < j /\ IsData(pipe'[j]) =>
        IsData(pipe'[i]) /\ \A u \in pipe'[i].units, v \in pipe'[j].units : u < v
  <2> SUFFICES ASSUME NEW i \in 1 .. Len(pipe'), NEW j \in 1 .. Len(pipe'),
                      i < j, IsData(pipe'[j])
               PROVE  IsData(pipe'[i])
                      /\ \A u \in pipe'[i].units, v \in pipe'[j].units : u < v
    OBVIOUS
  <2>1. CASE j <= Len(pipe)
    <3>1. /\ i \in 1 .. Len(pipe) /\ j \in 1 .. Len(pipe)
          /\ pipe'[i] = pipe[i] /\ pipe'[j] = pipe[j]
      BY <1>1, <1>3, <1>4, <2>1
    <3> QED BY <2>1, <3>1 DEF PipeOrder
  <2>2. CASE j > Len(pipe)
    <3>1. /\ j = Len(pipe) + 1 /\ child = "running"
          /\ pipe'[j].units \subseteq flushed + 1 .. flushed'
      BY <1>1, <1>3, <1>5, <2>2
    <3>2. i \in 1 .. Len(pipe) /\ pipe'[i] = pipe[i]
      BY <1>1, <1>3, <1>4, <3>1
    <3>3. IsData(pipe[i]) /\ \A u \in pipe[i].units : u \in Nat /\ u <= flushed
      BY <1>6, <3>1, <3>2 DEF ExitOrder, PipeOrder
    <3> QED BY <1>1, <3>1, <3>2, <3>3
  <2> QED BY <1>1, <1>3, <2>1, <2>2
<1> QED BY <1>3, <1>4, <1>7, <1>8, <1>9 DEF PipeOrder

OrderInv == PipeOrder /\ ExitOrder

\* The subprocess keeps the order: it sends the batch it holds, then its Exit
\* frame, and nothing once its PTY has ended.
LEMMA ChildOrderStep ==
  ASSUME TypeOK, OrderInv,
         PtyData \/ TimerFires \/ PtyExit \/ ForceExit \/ ChildEnds \/ StdoutDrain
  PROVE  OrderInv'
<1> USE DEF eventVars, stateVars
<1>0. /\ produced \in Nat /\ flushed \in Nat /\ flushed <= produced /\ child \in ChildState
      /\ Len(pipe) \in Nat
  BY LenProperties DEF TypeOK
<1>1. UNCHANGED <<exited, told, taken>>
  BY DEF PtyData, TimerFires, PtyExit, ForceExit, ChildEnds, StdoutDrain
<1>2. ASSUME NEW n \in Nat, n >= flushed, flushed' = n,
             child = "running", Send(Batch(n)), child' = child, timer' = FALSE
      PROVE  OrderInv'
  <2>1. Batch(n) \in Seq(Frame)
    BY <1>2, BatchType
  <2>2. \A i \in 1 .. Len(Batch(n)) : IsData(Batch(n)[i]) =>
          /\ i = 1 /\ child = "running" /\ Batch(n)[i].units \subseteq flushed + 1 .. flushed'
    <3>1. CASE Batch(n) = << >>
      BY <3>1
    <3>2. CASE Batch(n) = << [type |-> "Data", units |-> flushed + 1 .. n] >>
      <4>1. flushed + 1 .. n \in SUBSET Unit
        BY <1>0 DEF Unit
      <4>2. Len(Batch(n)) = 1 /\ Batch(n)[1].units = flushed + 1 .. n
        BY <3>2, <4>1, OneFrame
      <4>3. flushed' = n /\ child = "running"
        BY <1>2
      <4>4. \A i \in 1 .. 1 : i = 1
        OBVIOUS
      <4> QED BY <4>2, <4>3, <4>4
    <3> QED BY <1>2, <3>1, <3>2, BatchType
  <2>3. PipeOrder'
    BY <1>0, <1>1, <1>2, <2>1, <2>2, SendOrder DEF OrderInv
  <2>4. ExitOrder'
    <3>1. /\ Len(pipe') = Len(pipe) + Len(Batch(n)) /\ Len(Batch(n)) \in Nat
          /\ \A i \in 1 .. Len(pipe') : pipe'[i] = IF i <= Len(pipe) THEN pipe[i]
                                                    ELSE Batch(n)[i - Len(pipe)]
      BY <1>0, <1>1, <1>2, <2>1, <2>2, SendOrder, LenProperties DEF OrderInv
    <3>2. \A i \in 1 .. Len(Batch(n)) : IsData(Batch(n)[i])
      <4>1. CASE Batch(n) = << >>
        BY <4>1
      <4>2. CASE Batch(n) = << [type |-> "Data", units |-> flushed + 1 .. n] >>
        BY <4>2 DEF IsData
      <4> QED BY <1>2, <4>1, <4>2, BatchType
    <3>3. \A i \in 1 .. Len(pipe') : IsData(pipe'[i])
      <4> TAKE i \in 1 .. Len(pipe')
      <4>1. CASE i <= Len(pipe)
        BY <1>0, <1>2, <3>1, <4>1 DEF OrderInv, ExitOrder
      <4>2. CASE i > Len(pipe)
        <5>1. i - Len(pipe) \in 1 .. Len(Batch(n)) /\ pipe'[i] = Batch(n)[i - Len(pipe)]
          BY <1>0, <3>1, <4>2
        <5> QED BY <3>2, <5>1
      <4> QED BY <1>0, <3>1, <4>1, <4>2
    <3> QED BY <1>1, <1>2, <3>3 DEF OrderInv, ExitOrder
  <2> QED BY <2>3, <2>4 DEF OrderInv
<1>3. ASSUME UNCHANGED <<pipe, child, flushed>>, child = "exiting" => ~timer'
      PROVE  OrderInv'
  BY <1>1, <1>3 DEF OrderInv, PipeOrder, ExitOrder
<1>4. CASE PtyData
  <2>1. CASE produced' - flushed >= MaxBatch
    <3>1. produced' \in Nat /\ produced' >= flushed
      BY <1>0, <1>4 DEF PtyData
    <3> QED BY <1>2, <1>4, <2>1, <3>1 DEF PtyData
  <2>2. CASE ~(produced' - flushed >= MaxBatch)
    BY <1>3, <1>4, <2>2 DEF PtyData, Quiet
  <2> QED BY <2>1, <2>2
<1>5. CASE TimerFires
  <2>1. child = "running"
    BY <1>0, <1>5 DEF TimerFires, OrderInv, ExitOrder, ChildState
  <2>2. CASE flushed = produced
    BY <1>3, <1>5, <2>2 DEF TimerFires, Quiet
  <2>3. CASE flushed # produced
    BY <1>0, <1>2, <1>5, <2>1, <2>3 DEF TimerFires
  <2> QED BY <2>2, <2>3
<1>6. CASE PtyExit
  <2>1. Send(LastFrames) /\ flushed' = produced /\ child = "running"
        /\ child' = "exiting" /\ timer' = FALSE
    BY <1>6 DEF PtyExit
  <2>2. \A i \in 1 .. Len(LastFrames) : IsData(LastFrames[i]) =>
          /\ i = 1 /\ child = "running" /\ LastFrames[i].units \subseteq flushed + 1 .. flushed'
    <3>1. CASE Batch(produced) = << >>
      <4>1. LastFrames = << ExitFrame >>
        BY <3>1 DEF LastFrames
      <4> QED BY <4>1, ExitIsNoData
    <3>2. CASE Batch(produced) = << [type |-> "Data", units |-> flushed + 1 .. produced] >>
      <4> DEFINE d == [type |-> "Data", units |-> flushed + 1 .. produced]
      <4>1. d.units = flushed + 1 .. produced
        OBVIOUS
      <4>2. d \in Frame
        <5>1. flushed + 1 .. produced \in SUBSET Unit
          BY <1>0 DEF Unit
        <5> QED BY <5>1 DEF Frame
      <4>5. Batch(produced) = << d >>
        BY <3>2
      <4> HIDE DEF d
      <4>3. /\ Len(LastFrames) = 2
            /\ LastFrames[1] = d /\ LastFrames[2] = ExitFrame
        BY <4>2, <4>5, ExitFrameType, TwoFrames DEF LastFrames
      <4>4. ASSUME NEW i \in 1 .. 2, IsData(LastFrames[i])
            PROVE  i = 1
        <5>1. i # 2
          BY <4>3, <4>4, ExitIsNoData
        <5> QED BY <5>1
      <4> QED BY <2>1, <4>1, <4>3, <4>4
    <3> QED BY <1>0, <3>1, <3>2, BatchType
  <2>3. PipeOrder'
    BY <1>0, <1>1, <2>1, <2>2, LastFramesType, SendOrder DEF OrderInv
  <2>4. ExitOrder'
    BY <1>1, <2>1 DEF OrderInv, ExitOrder
  <2> QED BY <2>3, <2>4 DEF OrderInv
<1>7. CASE ForceExit
  <2>1. Send(<< ExitFrame >>) /\ flushed' = flushed /\ child = "running" /\ child' = "gone"
    BY <1>7 DEF ForceExit
  <2>2. << ExitFrame >> \in Seq(Frame)
    BY ExitFrameType
  <2>3. \A i \in 1 .. Len(<< ExitFrame >>) : ~IsData(<< ExitFrame >>[i])
    BY ExitIsNoData
  <2> DEFINE new == << ExitFrame >>
  <2> HIDE DEF new
  <2>4. /\ new \in Seq(Frame) /\ Send(new)
        /\ \A i \in 1 .. Len(new) : ~IsData(new[i])
    BY <2>1, <2>2, <2>3 DEF new
  <2>6. flushed' \in Nat /\ flushed' >= flushed /\ taken' = taken
    BY <1>0, <1>1, <2>1
  <2>7. PipeOrder'
    BY <2>4, <2>6, SendOrder DEF OrderInv
  <2>5. ExitOrder'
    BY <1>1, <2>1 DEF OrderInv, ExitOrder
  <2> QED BY <2>5, <2>7 DEF OrderInv
<1>8. CASE ChildEnds
  BY <1>1, <1>8 DEF ChildEnds, OrderInv, PipeOrder, ExitOrder
<1>9. CASE StdoutDrain
  BY <1>3, <1>9 DEF StdoutDrain, OrderInv, ExitOrder
<1> QED BY <1>4, <1>5, <1>6, <1>7, <1>8, <1>9

\* Taking the head off the pipe keeps the order.
LEMMA TakeOrder ==
  ASSUME TypeOK, OrderInv, pipe # << >>, pipe' = Tail(pipe),
         UNCHANGED <<child, timer, flushed>>,
         IF IsData(Head(pipe)) THEN taken' = taken \cup Head(pipe).units /\ UNCHANGED exited
         ELSE UNCHANGED taken,
         exited' => exited \/ ~IsData(Head(pipe)),
         \A s \in Socks : told'[s] => exited'
  PROVE  OrderInv'
<1>1. /\ Len(pipe) \in Nat \ {0} /\ Len(pipe') = Len(pipe) - 1 /\ Head(pipe) = pipe[1]
      /\ \A i \in 1 .. Len(pipe') : i + 1 \in 1 .. Len(pipe) /\ pipe'[i] = pipe[i + 1]
  <2>1. pipe \in Seq(Frame) /\ Len(pipe) \in Nat
    BY LenProperties DEF TypeOK
  <2> QED BY <2>1, HeadTailProperties
<1>2. 1 \in 1 .. Len(pipe)
  BY <1>1
<1>3. \A v \in taken' : v <= flushed'
  BY <1>1, <1>2 DEF OrderInv, PipeOrder
<1>4. \A i \in 1 .. Len(pipe') : IsData(pipe'[i]) =>
        \A u \in pipe'[i].units : u <= flushed' /\ \A v \in taken' : v < u
  <2> SUFFICES ASSUME NEW i \in 1 .. Len(pipe'), IsData(pipe'[i]),
                      NEW u \in pipe'[i].units
               PROVE  u <= flushed /\ \A v \in taken' : v < u
    OBVIOUS
  <2>1. /\ i + 1 \in 1 .. Len(pipe) /\ pipe'[i] = pipe[i + 1] /\ 1 < i + 1
        /\ IsData(pipe[i + 1]) /\ u \in pipe[i + 1].units
    BY <1>1
  <2>2. u <= flushed /\ \A v \in taken : v < u
    BY <2>1 DEF OrderInv, PipeOrder
  <2>3. \A v \in Head(pipe).units : v < u
    BY <1>1, <1>2, <2>1 DEF OrderInv, PipeOrder
  <2> QED BY <2>2, <2>3
<1>5. \A i, j \in 1 .. Len(pipe') : i < j /\ IsData(pipe'[j]) =>
        IsData(pipe'[i]) /\ \A u \in pipe'[i].units, v \in pipe'[j].units : u < v
  <2> SUFFICES ASSUME NEW i \in 1 .. Len(pipe'), NEW j \in 1 .. Len(pipe'),
                      i < j, IsData(pipe'[j])
               PROVE  IsData(pipe'[i])
                      /\ \A u \in pipe'[i].units, v \in pipe'[j].units : u < v
    OBVIOUS
  <2>1. /\ i + 1 \in 1 .. Len(pipe) /\ pipe'[i] = pipe[i + 1]
        /\ j + 1 \in 1 .. Len(pipe) /\ pipe'[j] = pipe[j + 1]
        /\ i + 1 < j + 1
    BY <1>1
  <2> QED BY <2>1 DEF OrderInv, PipeOrder
<1>6. PipeOrder'
  BY <1>3, <1>4, <1>5 DEF PipeOrder
<1>7. \A i \in 1 .. Len(pipe') : ~IsData(pipe'[i]) => child' # "running"
  BY <1>1 DEF OrderInv, ExitOrder
<1>8. exited' => child' # "running" /\ \A i \in 1 .. Len(pipe') : ~IsData(pipe'[i])
  <2>1. CASE exited
    BY <1>1, <2>1 DEF OrderInv, ExitOrder
  <2>2. CASE ~IsData(Head(pipe))
    <3>1. \A j \in 1 .. Len(pipe) : 1 < j => ~IsData(pipe[j])
      BY <1>1, <1>2, <2>2 DEF OrderInv, PipeOrder
    <3>2. \A i \in 1 .. Len(pipe') : 1 < i + 1
      BY <1>1
    <3>3. child' # "running"
      BY <1>1, <1>2, <2>2 DEF OrderInv, ExitOrder
    <3> QED BY <1>1, <3>1, <3>2, <3>3
  <2> QED BY <2>1, <2>2
<1> QED BY <1>6, <1>7, <1>8 DEF OrderInv, ExitOrder

\* The session takes the frames in order.
LEMMA OrderStep == TypeOK /\ OrderInv /\ [Next]_vars => OrderInv'
<1> SUFFICES ASSUME TypeOK, OrderInv, [Next]_vars PROVE OrderInv'
  OBVIOUS
<1> USE DEF childVars, eventVars, stateVars
<1>1. CASE PtyData \/ TimerFires \/ PtyExit \/ ForceExit \/ ChildEnds \/ StdoutDrain
  BY <1>1, ChildOrderStep
<1>2. ASSUME UNCHANGED <<pipe, child, timer, flushed, taken, exited>>,
             \A s \in Socks : told'[s] => told[s]
      PROVE  OrderInv'
  BY <1>2 DEF OrderInv, PipeOrder, ExitOrder
<1>3. CASE ReadChunk \/ WriteItem \/ WriteSlice \/ UNCHANGED vars
  BY <1>2, <1>3 DEF ReadChunk, WriteItem, WriteSlice, vars
<1>4. ASSUME NEW s \in Socks,
             Attach(s) \/ AttachTimeout(s) \/ TakeSnapshot(s) \/ Detach(s)
               \/ SockClose(s) \/ SockDrain(s)
      PROVE  OrderInv'
  <2>1. UNCHANGED <<pipe, child, timer, flushed, taken, exited>>
    BY <1>4 DEF Attach, AttachTimeout, TakeSnapshot, Detach, SockClose, SockDrain
  <2>2. told' = told \/ told' = [told EXCEPT ![s] = FALSE]
    BY <1>4 DEF Attach, AttachTimeout, TakeSnapshot, Detach, SockClose, SockDrain, Forget
  <2>3. \A x \in Socks : told'[x] => told[x]
    BY <2>2 DEF TypeOK
  <2> QED BY <1>2, <2>1, <2>3
<1>5. CASE HandleData
  <2>1. pipe # << >> /\ IsData(Head(pipe))
    BY <1>5 DEF HandleData, IsData, TypeOK
  <2> QED BY <1>5, <2>1, TakeOrder DEF HandleData, OrderInv, ExitOrder
<1>6. CASE HandleExit
  <2>1. pipe # << >> /\ ~IsData(Head(pipe))
    BY <1>6 DEF HandleExit, IsData, TypeOK
  <2>2. exited'
    BY <1>6 DEF HandleExit
  <2> QED BY <1>6, <2>1, <2>2, TakeOrder DEF HandleExit
<1>7. ASSUME pipe' = << >>, child' = "gone", UNCHANGED <<flushed, taken>>,
             \A s \in Socks : told'[s] => exited'
      PROVE  OrderInv'
  BY <1>7 DEF OrderInv, PipeOrder, ExitOrder
<1>8. CASE HandleChildExit
  BY <1>7, <1>8 DEF HandleChildExit, Reset
<1>9. CASE Dispose
  BY <1>7, <1>9 DEF Dispose, Reset, OrderInv, ExitOrder
<1> QED BY <1>1, <1>3, <1>4, <1>5, <1>6, <1>8, <1>9 DEF Next

\* New output goes to clients that were not told of the exit, and is newer than
\* all the session took before.
LEMMA GotStep ==
  ASSUME TypeOK, OrderInv, [Next]_vars, NEW s \in Socks, NEW u \in got'[s] \ got[s]
  PROVE  ~told[s] /\ \A v \in taken : v < u
<1> USE DEF childVars, eventVars
<1>1. CASE HandleData
  <2>1. pipe # << >> /\ IsData(Head(pipe)) /\ u \in Head(pipe).units
    BY <1>1 DEF HandleData, IsData, TypeOK
  <2>2. pipe # << >> /\ pipe \in Seq(Frame)
    BY <2>1 DEF TypeOK
  <2>3. 1 \in 1 .. Len(pipe) /\ Head(pipe) = pipe[1]
    BY <2>2, LenProperties, HeadTailProperties
  <2>4. \A v \in taken : v < u
    BY <2>1, <2>3 DEF OrderInv, PipeOrder
  <2>5. ~exited
    BY <2>1, <2>3 DEF OrderInv, ExitOrder
  <2> QED BY <2>4, <2>5 DEF OrderInv, ExitOrder
<1>2. ASSUME NEW x \in Socks,
             Attach(x) \/ AttachTimeout(x) \/ TakeSnapshot(x) \/ Detach(x)
               \/ SockClose(x) \/ SockDrain(x)
      PROVE  FALSE
  <2>1. got' = got \/ got' = [got EXCEPT ![x] = {}]
    BY <1>2 DEF Attach, AttachTimeout, TakeSnapshot, Detach, SockClose, SockDrain, Forget
  <2> QED BY <2>1 DEF TypeOK
<1>3. CASE UNCHANGED got
  BY <1>3
<1> QED
  BY <1>1, <1>2, <1>3
     DEF Next, vars, PtyData, TimerFires, PtyExit, ForceExit, ChildEnds, StdoutDrain,
         ReadChunk, HandleExit, HandleChildExit, WriteItem, WriteSlice, Dispose

\* Clients get the output in the order of the PTY, each unit at most once, and
\* none after the exit event: at no time do the pipe and the session hold output
\* behind an exit.
THEOREM OutputInOrder == Spec => EventsInOrder
<1>1. Init => OrderInv
  BY DEF Init, OrderInv, PipeOrder, ExitOrder
<1>2. TypeOK /\ OrderInv /\ [Next]_vars =>
        [\A s \in Socks : \A u \in got'[s] \ got[s] :
           ~told[s] /\ \A v \in taken : v < u]_vars
  BY GotStep
<1>3. Spec => []OrderInv
  BY <1>1, OrderStep, OutputTypes, PTL DEF Spec
<1> QED BY <1>2, <1>3, OutputTypes, PTL DEF Spec, EventsInOrder

-----------------------------------------------------------------------------
(* No output between a snapshot and the events *)

InWrites(u, n) == \E i \in 1 .. n : u \in writes[i]

\* All that was taken is in the emulator or on its way there.
QueueHolds ==
  connected => \A u \in taken : u \in emulator \/ InWrites(u, Len(writes))

\* A waiter's boundary lies in the queue, and what it has not got as events is in
\* the emulator or in the queue before the boundary.
WaiterHolds(s) ==
  call[s] = "waiting" =>
    /\ connected
    /\ processed < boundary[s] /\ boundary[s] <= processed + Len(writes)
    /\ \A u \in taken : u \in emulator \/ u \in got[s] \/ InWrites(u, boundary[s] - processed)

\* Once the boundary is reached the emulator has it, and then the snapshot.
FlushedHolds(s) ==
  /\ call[s] = "flushing" /\ outcome[s] = "flushed" => taken \subseteq due[s] \cup got[s]
  /\ call[s] = "done" /\ outcome[s] = "flushed" => taken \subseteq snapshot[s] \cup got[s]

GapInv ==
  /\ QueueHolds
  /\ \A s \in attached : WaiterHolds(s) /\ FlushedHolds(s)

LEMMA LenWrites == ASSUME TypeOK PROVE Len(writes) \in Nat /\ processed \in Nat
BY LenProperties DEF TypeOK

\* A Data frame: every attached client gets what the queue gets.
LEMMA GapData ==
  ASSUME TypeOK, GapInv, HandleData
  PROVE  GapInv'
<1> USE DEF attachVars, stateVars
<1> DEFINE new == Head(pipe).units
<1>1. /\ UNCHANGED <<connected, processed, emulator, boundary, call, outcome, due, snapshot, attached>>
      /\ writes' = Append(writes, new) /\ taken' = taken \cup new
      /\ \A s \in attached : got'[s] = got[s] \cup new
  BY DEF HandleData, Broadcast, TypeOK
<1>2. new \in SUBSET Unit
  <2>1. pipe # << >> /\ pipe \in Seq(Frame)
    BY DEF HandleData, TypeOK
  <2>2. Head(pipe) \in Frame
    BY <2>1, HeadTailProperties
  <2> QED BY <2>2 DEF Frame
<1> HIDE DEF new
<1>3. /\ Len(writes) \in Nat /\ Len(writes') = Len(writes) + 1
      /\ \A i \in 1 .. Len(writes) : writes'[i] = writes[i]
      /\ writes'[Len(writes) + 1] = new
  BY <1>1, <1>2, AppendProperties, LenProperties DEF TypeOK
<1>4. \A u : \A n \in 0 .. Len(writes) : InWrites(u, n) => InWrites(u, n)'
  <2> SUFFICES ASSUME NEW u, NEW n \in 0 .. Len(writes), InWrites(u, n)
               PROVE  \E i \in 1 .. n : u \in writes'[i]
    BY DEF InWrites
  <2>1. PICK i \in 1 .. n : u \in writes[i]
    BY DEF InWrites
  <2>2. i \in 1 .. Len(writes)
    BY <1>3, <2>1
  <2> QED BY <1>3, <2>1, <2>2
<1>5. QueueHolds'
  <2> SUFFICES ASSUME connected, NEW u \in taken \cup new
               PROVE  u \in emulator \/ \E i \in 1 .. Len(writes) + 1 : u \in writes'[i]
    BY <1>1, <1>3 DEF QueueHolds, InWrites
  <2>1. CASE u \in new
    <3>1. Len(writes) + 1 \in 1 .. Len(writes) + 1
      BY <1>3
    <3> QED BY <1>3, <2>1, <3>1
  <2>2. CASE u \in taken /\ u \notin emulator
    <3>1. PICK i \in 1 .. Len(writes) : u \in writes[i]
      BY <2>2 DEF GapInv, QueueHolds, InWrites
    <3>2. i \in 1 .. Len(writes) + 1
      BY <1>3
    <3> QED BY <1>3, <3>1, <3>2
  <2> QED BY <2>1, <2>2
<1>6. ASSUME NEW s \in attached
      PROVE  (WaiterHolds(s) /\ FlushedHolds(s))'
  <2>1. WaiterHolds(s)'
    <3> SUFFICES ASSUME call[s] = "waiting"
                 PROVE  /\ connected
                        /\ processed < boundary[s] /\ boundary[s] <= processed + Len(writes')
                        /\ \A u \in taken \cup new :
                              u \in emulator \/ u \in got[s] \cup new
                                \/ InWrites(u, boundary[s] - processed)'
      BY <1>1 DEF WaiterHolds
    <3>1. /\ connected /\ processed < boundary[s] /\ boundary[s] <= processed + Len(writes)
          /\ \A u \in taken : u \in emulator \/ u \in got[s] \/ InWrites(u, boundary[s] - processed)
      BY DEF GapInv, WaiterHolds
    <3>2. boundary[s] \in Nat /\ processed \in Nat
      BY DEF TypeOK
    <3>3. boundary[s] - processed \in 0 .. Len(writes) /\ boundary[s] <= processed + Len(writes')
      BY <1>3, <3>1, <3>2
    <3>4. \A u : InWrites(u, boundary[s] - processed) => InWrites(u, boundary[s] - processed)'
      BY <1>1, <1>4, <3>3 DEF InWrites
    <3> QED BY <3>1, <3>3, <3>4
  <2>2. FlushedHolds(s)'
    BY <1>1 DEF GapInv, FlushedHolds
  <2> QED BY <2>1, <2>2
<1> QED BY <1>1, <1>5, <1>6 DEF GapInv

\* One write: the first item moves to the emulator, and a waiter whose boundary
\* that is has all it waited for.
LEMMA GapWrite ==
  ASSUME TypeOK, GapInv, WriteItem
  PROVE  GapInv'
<1> USE DEF clientVars, stateVars, eventVars
<1>1. /\ UNCHANGED <<connected, boundary, snapshot, attached, got, taken>>
      /\ writes # << >> /\ writes' = Tail(writes) /\ processed' = processed + 1
      /\ emulator' = emulator \cup Head(writes)
      /\ ResolveReached(processed + 1, emulator')
  BY DEF WriteItem
<1>2. /\ Len(writes) \in Nat \ {0} /\ Len(writes') = Len(writes) - 1
      /\ Head(writes) = writes[1]
      /\ \A i \in 1 .. Len(writes') : writes'[i] = writes[i + 1]
  <2>1. writes \in Seq(SUBSET Unit) /\ Len(writes) \in Nat
    BY LenProperties DEF TypeOK
  <2> QED BY <1>1, <2>1, HeadTailProperties
<1>3. ASSUME NEW u, NEW n \in 1 .. Len(writes), InWrites(u, n)
      PROVE  u \in emulator' \/ \E i \in 1 .. n - 1 : u \in writes'[i]
  <2>1. PICK i \in 1 .. n : u \in writes[i]
    BY <1>3 DEF InWrites
  <2>2. CASE i = 1
    BY <1>1, <1>2, <2>1, <2>2
  <2>3. CASE i # 1
    <3>1. i - 1 \in 1 .. n - 1 /\ i - 1 \in 1 .. Len(writes') /\ (i - 1) + 1 = i
      BY <1>2, <2>3
    <3>2. writes'[i - 1] = writes[i]
      BY <1>2, <3>1
    <3> QED BY <2>1, <3>1, <3>2
  <2> QED BY <2>2, <2>3
<1>4. QueueHolds'
  <2> SUFFICES ASSUME connected, NEW u \in taken, u \notin emulator'
               PROVE  \E i \in 1 .. Len(writes') : u \in writes'[i]
    BY <1>1 DEF QueueHolds, InWrites
  <2>1. InWrites(u, Len(writes))
    BY <1>1 DEF GapInv, QueueHolds
  <2>2. Len(writes) \in 1 .. Len(writes)
    BY <1>2
  <2> QED BY <1>2, <1>3, <2>1, <2>2
<1>5. ASSUME NEW s \in attached
      PROVE  (WaiterHolds(s) /\ FlushedHolds(s))'
  <2>0. s \in Socks /\ boundary[s] \in Nat /\ processed \in Nat
    BY DEF TypeOK
  <2>1. CASE call[s] # "waiting"
    <3>1. call'[s] = call[s] /\ outcome'[s] = outcome[s] /\ due'[s] = due[s]
      BY <1>1, <2>0, <2>1 DEF ResolveReached
    <3> QED BY <1>1, <2>1, <3>1 DEF GapInv, WaiterHolds, FlushedHolds
  <2>2. CASE call[s] = "waiting" /\ processed + 1 >= boundary[s]
    <3>1. call'[s] = "flushing" /\ due'[s] = emulator'
      BY <1>1, <2>0, <2>2 DEF ResolveReached, TypeOK
    <3>2. boundary[s] - processed = 1
      BY <2>0, <2>2 DEF GapInv, WaiterHolds
    <3>3. \A u \in taken : u \in emulator' \/ u \in got[s]
      <4> TAKE u \in taken
      <4>1. u \in emulator \/ u \in got[s] \/ InWrites(u, 1)
        BY <2>2, <3>2 DEF GapInv, WaiterHolds
      <4>2. InWrites(u, 1) => u \in emulator'
        <5> HAVE InWrites(u, 1)
        <5>1. 1 \in 1 .. Len(writes)
          BY <1>2
        <5> QED BY <1>3, <5>1
      <4> QED BY <1>1, <4>1, <4>2
    <3> QED BY <1>1, <3>1, <3>3 DEF WaiterHolds, FlushedHolds
  <2>3. CASE call[s] = "waiting" /\ ~(processed + 1 >= boundary[s])
    <3>1. call'[s] = "waiting" /\ outcome'[s] = outcome[s]
      BY <1>1, <2>0, <2>3 DEF ResolveReached, TypeOK
    <3>2. /\ connected /\ processed < boundary[s] /\ boundary[s] <= processed + Len(writes)
          /\ \A u \in taken : u \in emulator \/ u \in got[s] \/ InWrites(u, boundary[s] - processed)
      BY <2>3 DEF GapInv, WaiterHolds
    <3>3. processed + 1 < boundary[s] /\ boundary[s] <= processed + 1 + Len(writes')
      BY <1>2, <2>0, <2>3, <3>2
    <3>4. \A u \in taken : u \in emulator' \/ u \in got[s]
             \/ \E i \in 1 .. boundary[s] - (processed + 1) : u \in writes'[i]
      <4> TAKE u \in taken
      <4>1. boundary[s] - processed \in 1 .. Len(writes)
            /\ (boundary[s] - processed) - 1 = boundary[s] - (processed + 1)
        BY <1>2, <2>0, <3>2
      <4>2. InWrites(u, boundary[s] - processed) =>
              u \in emulator' \/ \E i \in 1 .. boundary[s] - (processed + 1) : u \in writes'[i]
        BY <1>3, <4>1
      <4> QED BY <1>1, <3>2, <4>2
    <3> QED BY <1>1, <3>1, <3>2, <3>3, <3>4 DEF WaiterHolds, FlushedHolds, InWrites
  <2> QED BY <2>1, <2>2, <2>3
<1> QED BY <1>1, <1>4, <1>5 DEF GapInv

\* Writing the first part of an item moves it, and only it.
LEMMA GapSlice ==
  ASSUME TypeOK, GapInv, WriteSlice
  PROVE  GapInv'
<1> USE DEF clientVars, stateVars, eventVars, attachVars
<1>1. /\ UNCHANGED <<connected, boundary, snapshot, attached, got, taken, processed,
                     call, outcome, due>>
      /\ writes # << >>
  BY DEF WriteSlice
<1>2. PICK first \in Head(writes) : /\ writes' = [writes EXCEPT ![1] = @ \ {first}]
                                    /\ emulator' = emulator \cup {first}
  BY DEF WriteSlice
<1>3. /\ Len(writes') = Len(writes)
      /\ \A i \in 1 .. Len(writes) : writes[i] \subseteq writes'[i] \cup {first}
  <2>1. writes \in Seq(SUBSET Unit) /\ Len(writes) \in Nat \ {0}
    BY <1>1, LenProperties, EmptySeq DEF TypeOK
  <2>2. 1 \in 1 .. Len(writes) /\ Head(writes) = writes[1]
    BY <2>1
  <2> QED BY <1>2, <2>1, <2>2
<1>4. ASSUME NEW u, NEW n \in 0 .. Len(writes), InWrites(u, n)
      PROVE  u \in emulator' \/ \E i \in 1 .. n : u \in writes'[i]
  <2>1. PICK i \in 1 .. n : u \in writes[i]
    BY <1>4 DEF InWrites
  <2>2. i \in 1 .. Len(writes)
    BY <1>4, LenWrites
  <2> QED BY <1>2, <1>3, <2>1, <2>2
<1>5. QueueHolds'
  <2> SUFFICES ASSUME connected, NEW u \in taken, u \notin emulator'
               PROVE  \E i \in 1 .. Len(writes) : u \in writes'[i]
    BY <1>1, <1>3 DEF QueueHolds, InWrites
  <2>1. InWrites(u, Len(writes)) /\ Len(writes) \in 0 .. Len(writes)
    BY <1>2, LenWrites DEF GapInv, QueueHolds
  <2> QED BY <1>4, <2>1
<1>6. ASSUME NEW s \in attached
      PROVE  (WaiterHolds(s) /\ FlushedHolds(s))'
  <2>1. WaiterHolds(s)'
    <3> SUFFICES ASSUME call[s] = "waiting"
                 PROVE  /\ connected
                        /\ processed < boundary[s] /\ boundary[s] <= processed + Len(writes)
                        /\ \A u \in taken : u \in emulator' \/ u \in got[s]
                             \/ \E i \in 1 .. boundary[s] - processed : u \in writes'[i]
      BY <1>1, <1>3 DEF WaiterHolds, InWrites
    <3>1. /\ connected /\ processed < boundary[s] /\ boundary[s] <= processed + Len(writes)
          /\ \A u \in taken : u \in emulator \/ u \in got[s] \/ InWrites(u, boundary[s] - processed)
      BY DEF GapInv, WaiterHolds
    <3>2. boundary[s] - processed \in 0 .. Len(writes)
      BY <3>1, LenWrites DEF TypeOK
    <3> QED BY <1>2, <1>4, <3>1, <3>2
  <2>2. FlushedHolds(s)'
    BY <1>1 DEF GapInv, FlushedHolds
  <2> QED BY <2>1, <2>2
<1> QED BY <1>1, <1>5, <1>6 DEF GapInv

\* A new client: its boundary is the end of the queue.
LEMMA GapAttach ==
  ASSUME TypeOK, GapInv, NEW s \in Socks, Attach(s)
  PROVE  GapInv'
<1> USE DEF clientVars, stateVars
<1>1. /\ UNCHANGED <<connected, writes, processed, emulator, taken>>
      /\ connected /\ attached' = attached \cup {s}
      /\ got'[s] = {}
  BY DEF Attach, TypeOK
<1>2. QueueHolds'
  BY <1>1 DEF GapInv, QueueHolds, InWrites
<1>3. ASSUME NEW x \in attached, x # s
      PROVE  (WaiterHolds(x) /\ FlushedHolds(x))'
  <2>1. /\ call'[x] = call[x] /\ outcome'[x] = outcome[x] /\ due'[x] = due[x]
        /\ boundary'[x] = boundary[x] /\ got'[x] = got[x] /\ snapshot'[x] = snapshot[x]
    BY <1>3 DEF Attach, TypeOK
  <2> QED BY <1>1, <1>3, <2>1 DEF GapInv, WaiterHolds, FlushedHolds, InWrites
<1>4. (WaiterHolds(s) /\ FlushedHolds(s))'
  <2>1. CASE writes = << >>
    <3>1. call'[s] = "flushing" /\ due'[s] = emulator
      BY <2>1 DEF Attach, TypeOK
    <3>2. taken \subseteq emulator
      <4>1. \A u : ~InWrites(u, Len(writes))
        BY <2>1 DEF InWrites
      <4> QED BY <1>1, <4>1 DEF GapInv, QueueHolds
    <3> QED BY <1>1, <3>1, <3>2 DEF WaiterHolds, FlushedHolds
  <2>2. CASE writes # << >>
    <3>1. call'[s] = "waiting" /\ boundary'[s] = processed + Len(writes)
      BY <2>2 DEF Attach, Target, TypeOK
    <3>2. Len(writes) \in Nat \ {0} /\ processed \in Nat
      BY <2>2, LenWrites, EmptySeq DEF TypeOK
    <3>3. /\ processed < boundary'[s] /\ boundary'[s] <= processed + Len(writes)
          /\ boundary'[s] - processed = Len(writes)
      BY <3>1, <3>2
    <3> QED BY <1>1, <3>1, <3>3 DEF WaiterHolds, FlushedHolds, GapInv, QueueHolds, InWrites
  <2> QED BY <2>1, <2>2
<1> QED BY <1>1, <1>2, <1>3, <1>4 DEF GapInv

\* The end of a wait and the taking of the snapshot.
LEMMA GapCall ==
  ASSUME TypeOK, GapInv, NEW s \in Socks,
         AttachTimeout(s) \/ TakeSnapshot(s) \/ Detach(s) \/ SockClose(s) \/ SockDrain(s)
  PROVE  GapInv'
<1> USE DEF clientVars, stateVars, emulatorVars, eventVars, attachVars
<1>1. UNCHANGED <<connected, writes, processed, emulator, taken>> /\ attached' \subseteq attached
  BY DEF AttachTimeout, TakeSnapshot, Detach, SockClose, SockDrain, Forget
<1>2. QueueHolds'
  BY <1>1 DEF GapInv, QueueHolds, InWrites
<1>3. ASSUME NEW x \in attached', x # s
      PROVE  (WaiterHolds(x) /\ FlushedHolds(x))'
  <2>1. /\ call'[x] = call[x] /\ outcome'[x] = outcome[x] /\ due'[x] = due[x]
        /\ boundary'[x] = boundary[x] /\ got'[x] = got[x] /\ snapshot'[x] = snapshot[x]
    BY <1>3 DEF AttachTimeout, TakeSnapshot, Detach, SockClose, SockDrain, Forget, TypeOK
  <2> QED BY <1>1, <1>3, <2>1 DEF GapInv, WaiterHolds, FlushedHolds, InWrites
<1>4. ASSUME s \in attached'
      PROVE  (WaiterHolds(s) /\ FlushedHolds(s))'
  <2>1. CASE AttachTimeout(s)
    <3>1. call'[s] = "flushing" /\ outcome'[s] = "timeout"
      BY <2>1 DEF AttachTimeout, TypeOK
    <3> QED BY <3>1 DEF WaiterHolds, FlushedHolds
  <2>2. CASE TakeSnapshot(s)
    <3>1. /\ call'[s] = "done" /\ outcome'[s] = outcome[s] /\ got' = got
          /\ call[s] = "flushing" /\ s \in attached
      BY <1>4, <2>2 DEF TakeSnapshot, TypeOK
    <3>2. due[s] \subseteq snapshot'[s]
      BY <2>2, <3>1 DEF TakeSnapshot, TypeOK
    <3> QED BY <1>1, <3>1, <3>2 DEF GapInv, WaiterHolds, FlushedHolds
  <2>3. CASE Detach(s) \/ SockClose(s)
    BY <1>4, <2>3 DEF Detach, SockClose, Forget
  <2>4. CASE SockDrain(s)
    <3>1. UNCHANGED <<connected, writes, processed, emulator, taken, attached, boundary,
                      call, outcome, due, snapshot, got>>
      BY <2>4 DEF SockDrain
    <3>2. WaiterHolds(s) /\ FlushedHolds(s)
      BY <1>4, <3>1 DEF GapInv
    <3> QED BY <3>1, <3>2 DEF WaiterHolds, FlushedHolds, InWrites
  <2> QED BY <2>1, <2>2, <2>3, <2>4
<1> QED BY <1>1, <1>2, <1>3, <1>4 DEF GapInv

LEMMA GapStep == TypeOK /\ GapInv /\ [Next]_vars => GapInv'
<1> SUFFICES ASSUME TypeOK, GapInv, [Next]_vars PROVE GapInv'
  OBVIOUS
<1> USE DEF childVars, clientVars, stateVars, emulatorVars, eventVars, attachVars
<1>1. ASSUME UNCHANGED <<connected, writes, processed, emulator, attached, boundary,
                         call, outcome, due, snapshot, got, taken>>
      PROVE  GapInv'
  BY <1>1 DEF GapInv, QueueHolds, WaiterHolds, FlushedHolds, InWrites
<1>2. CASE HandleExit
  BY <1>1, <1>2 DEF HandleExit, Broadcast
<1>3. CASE HandleChildExit
  <2>1. ~connected' /\ UNCHANGED <<attached, snapshot, got, taken>>
    BY <1>3 DEF HandleChildExit, Reset
  <2>2. ASSUME NEW s \in attached
        PROVE  (WaiterHolds(s) /\ FlushedHolds(s))'
    <3>0. s \in Socks
      BY DEF TypeOK
    <3>1. CASE call[s] = "waiting"
      <4>1. call'[s] = "flushing" /\ outcome'[s] = "reset"
        BY <1>3, <3>0, <3>1 DEF HandleChildExit, Reset
      <4> QED BY <4>1 DEF WaiterHolds, FlushedHolds
    <3>2. CASE call[s] # "waiting"
      <4>1. call'[s] = call[s] /\ outcome'[s] = outcome[s] /\ due'[s] = due[s]
        BY <1>3, <3>0, <3>2 DEF HandleChildExit, Reset
      <4> QED BY <2>1, <3>2, <4>1 DEF GapInv, WaiterHolds, FlushedHolds
    <3> QED BY <3>1, <3>2
  <2> QED BY <2>1, <2>2 DEF GapInv, QueueHolds
<1>4. CASE Dispose
  BY <1>4 DEF Dispose, Reset, GapInv, QueueHolds
<1>5. CASE \/ PtyData \/ TimerFires \/ PtyExit \/ ForceExit \/ ChildEnds \/ StdoutDrain
           \/ ReadChunk \/ UNCHANGED vars
  BY <1>1, <1>5 DEF PtyData, TimerFires, PtyExit, ForceExit, ChildEnds, StdoutDrain,
                    ReadChunk, vars
<1> QED BY <1>2, <1>3, <1>4, <1>5, GapData, GapWrite, GapSlice, GapAttach, GapCall DEF Next

\* A client that attaches in the middle of the output and whose wait was not cut
\* short has all of it: what its snapshot does not hold came as events.
THEOREM OutputNoGap == Spec => []NoGap
<1>1. Init => GapInv
  BY DEF Init, GapInv, QueueHolds
<1>2. GapInv => NoGap
  BY DEF GapInv, FlushedHolds, NoGap
<1> QED BY <1>1, <1>2, GapStep, OutputTypes, PTL DEF Spec

-----------------------------------------------------------------------------
(* The session is a feed *)

InPipe(u) == \E i \in 1 .. Len(pipe) : IsData(pipe[i]) /\ u \in pipe[i].units

\* What was taken has no hole, and while the session listens nothing is missing
\* between that and what the coalescer still holds.
StreamInv ==
  /\ Feed!WithoutHole(taken)
  /\ connected => \A u \in 1 .. flushed : u \in taken \/ InPipe(u)

\* A chunk is handled by a session that listens; and who is attached to a session
\* that has exited was told.
ToldInv ==
  /\ frames > 0 => connected
  /\ exited => \A s \in attached : told[s]

FeedInv == StreamInv /\ ToldInv

\* What is sent goes behind what is in the pipe.
LEMMA SendHolds ==
  ASSUME TypeOK, NEW new \in Seq(Frame), Send(new)
  PROVE  /\ \A u : InPipe(u) => InPipe(u)'
         /\ Len(new) >= 1 /\ IsData(new[1]) => \A u \in new[1].units : InPipe(u)'
<1>1. /\ pipe \in Seq(Frame) /\ Len(pipe) \in Nat /\ Len(new) \in Nat
  BY LenProperties DEF TypeOK
<1> DEFINE p == pipe'
<1>2. /\ Len(p) = Len(pipe) + Len(new)
      /\ \A i \in 1 .. Len(pipe) + Len(new) :
           p[i] = IF i <= Len(pipe) THEN pipe[i] ELSE new[i - Len(pipe)]
  BY <1>1, ConcatProperties DEF Send
<1> HIDE DEF p
<1>3. ASSUME NEW i \in 1 .. Len(pipe)
      PROVE  i \in 1 .. Len(p) /\ p[i] = pipe[i]
  BY <1>1, <1>2
<1>4. Len(new) >= 1 => Len(pipe) + 1 \in 1 .. Len(p) /\ p[Len(pipe) + 1] = new[1]
  <2>1. ~(Len(pipe) + 1 <= Len(pipe)) /\ Len(pipe) + 1 - Len(pipe) = 1
    BY <1>1
  <2>2. Len(new) >= 1 => Len(pipe) + 1 \in 1 .. Len(pipe) + Len(new)
    BY <1>1
  <2> QED BY <1>2, <2>1, <2>2
<1> QED BY <1>3, <1>4 DEF InPipe, p

\* The subprocess sends all that it counts as flushed.
LEMMA StreamChild ==
  ASSUME TypeOK, StreamInv,
         PtyData \/ TimerFires \/ PtyExit \/ ForceExit \/ ChildEnds \/ StdoutDrain
  PROVE  StreamInv'
<1> USE DEF stateVars
<1>0. /\ produced \in Nat /\ flushed \in Nat /\ flushed <= produced
      /\ taken' = taken /\ connected' = connected
  BY DEF TypeOK, PtyData, TimerFires, PtyExit, ForceExit, ChildEnds, StdoutDrain
<1>1. ASSUME UNCHANGED <<pipe, flushed>>
      PROVE  StreamInv'
  BY <1>0, <1>1 DEF StreamInv, InPipe, Feed!WithoutHole
<1>2. ASSUME NEW new \in Seq(Frame), Send(new), NEW n \in Nat, flushed' = n, n >= flushed,
             n = flushed \/ (Len(new) >= 1 /\ IsData(new[1]) /\ new[1].units = flushed + 1 .. n)
      PROVE  StreamInv'
  <2>1. ASSUME connected, NEW u \in 1 .. n
        PROVE  u \in taken \/ InPipe(u)'
    <3>1. CASE u \in 1 .. flushed
      BY <1>2, <2>1, <3>1, SendHolds DEF StreamInv
    <3>2. CASE u \notin 1 .. flushed
      <4>1. n # flushed /\ u \in flushed + 1 .. n
        BY <1>0, <1>2, <3>2
      <4> QED BY <1>2, <4>1, SendHolds
    <3> QED BY <3>1, <3>2
  <2>2. Feed!WithoutHole(taken)'
    BY <1>0 DEF StreamInv, Feed!WithoutHole
  <2> QED BY <1>0, <1>2, <2>1, <2>2 DEF StreamInv
\* The frame of a batch.
<1>3. ASSUME NEW n \in Nat, n >= flushed
      PROVE  /\ Batch(n) \in Seq(Frame)
             /\ n = flushed => Batch(n) = << >>
             /\ n # flushed => /\ Len(Batch(n)) = 1 /\ IsData(Batch(n)[1])
                               /\ Batch(n)[1].units = flushed + 1 .. n
                               /\ Batch(n)[1] \in Frame /\ Batch(n) = << Batch(n)[1] >>
  <2>1. Batch(n) \in Seq(Frame)
    BY <1>3, BatchType
  <2>2. ASSUME n # flushed
        PROVE  /\ Len(Batch(n)) = 1 /\ IsData(Batch(n)[1])
               /\ Batch(n)[1].units = flushed + 1 .. n
               /\ Batch(n)[1] \in Frame /\ Batch(n) = << Batch(n)[1] >>
    <3> DEFINE d == [type |-> "Data", units |-> flushed + 1 .. n]
    <3>1. Batch(n) = << d >>
      BY <2>2 DEF Batch
    <3>2. d.units = flushed + 1 .. n /\ IsData(d)
      BY DEF IsData
    <3>3. d \in Frame
      <4>1. flushed + 1 .. n \in SUBSET Unit
        BY <1>0 DEF Unit
      <4> QED BY <4>1 DEF Frame
    <3> HIDE DEF d
    <3>4. Len(<< d >>) = 1 /\ << d >>[1] = d
      BY <3>3
    <3> QED BY <3>1, <3>2, <3>3, <3>4
  <2> QED BY <2>1, <2>2 DEF Batch
<1>4. CASE PtyData
  <2>1. CASE produced' - flushed >= MaxBatch
    <3>1. produced' \in Nat /\ produced' >= flushed
      BY <1>0, <1>4 DEF PtyData
    <3>2. Send(Batch(produced')) /\ flushed' = produced'
      BY <1>4, <2>1 DEF PtyData
    <3> QED BY <1>2, <1>3, <3>1, <3>2
  <2>2. CASE ~(produced' - flushed >= MaxBatch)
    BY <1>1, <1>4, <2>2 DEF PtyData, Quiet
  <2> QED BY <2>1, <2>2
<1>5. CASE TimerFires
  <2>1. CASE flushed = produced
    BY <1>1, <1>5, <2>1 DEF TimerFires, Quiet
  <2>2. CASE flushed # produced
    <3>1. Send(Batch(produced)) /\ flushed' = produced
      BY <1>5, <2>2 DEF TimerFires
    <3> QED BY <1>0, <1>2, <1>3, <3>1
  <2> QED BY <2>1, <2>2
<1>6. CASE PtyExit
  <2>1. Send(LastFrames) /\ flushed' = produced
    BY <1>6 DEF PtyExit
  <2>2. LastFrames \in Seq(Frame)
    BY LastFramesType
  <2>3. produced # flushed =>
          /\ Len(LastFrames) >= 1 /\ IsData(LastFrames[1])
          /\ LastFrames[1].units = flushed + 1 .. produced
    <3>1. ASSUME produced # flushed
          PROVE  Len(LastFrames) = 2 /\ LastFrames[1] = Batch(produced)[1]
      <4> DEFINE d == Batch(produced)[1]
      <4>1. d \in Frame /\ Batch(produced) = << d >>
        BY <1>0, <1>3, <3>1
      <4> HIDE DEF d
      <4>2. LastFrames = << d >> \o << ExitFrame >>
        BY <4>1 DEF LastFrames
      <4> QED BY <4>1, <4>2, ExitFrameType, TwoFrames DEF d
    <3> QED BY <1>0, <1>3, <3>1
  <2> QED BY <1>0, <1>2, <2>1, <2>2, <2>3
<1>7. CASE ForceExit
  <2> DEFINE new == << ExitFrame >>
  <2>1. new \in Seq(Frame)
    BY ExitFrameType
  <2>2. Send(new) /\ flushed' = flushed
    BY <1>7 DEF ForceExit
  <2> HIDE DEF new
  <2> QED BY <1>0, <1>2, <2>1, <2>2
<1>8. CASE ChildEnds \/ StdoutDrain
  BY <1>1, <1>8 DEF ChildEnds, StdoutDrain
<1> QED BY <1>4, <1>5, <1>6, <1>7, <1>8

\* A Data frame that is handled holds the units that come next.
LEMMA StreamData ==
  ASSUME TypeOK, OrderInv, FeedInv, HandleData
  PROVE  StreamInv' /\ ~exited
<1>1. /\ pipe # << >> /\ IsData(Head(pipe)) /\ pipe' = Tail(pipe) /\ flushed' = flushed
      /\ taken' = taken \cup Head(pipe).units /\ connected' = connected
  BY DEF HandleData, IsData, TypeOK, childVars, stateVars
<1>2. connected
  BY DEF HandleData, FeedInv, ToldInv
<1> DEFINE units == Head(pipe).units
<1>3. /\ pipe \in Seq(Frame) /\ Len(pipe) \in Nat /\ Len(pipe) > 0 /\ Head(pipe) = pipe[1]
      /\ Len(pipe') = Len(pipe) - 1
      /\ \A i \in 1 .. Len(pipe) - 1 : pipe'[i] = pipe[i + 1]
      /\ 1 \in 1 .. Len(pipe) /\ flushed \in Nat
  <2>1. pipe \in Seq(Frame) /\ Len(pipe) \in Nat /\ Len(pipe) > 0
    BY <1>1, LenProperties, EmptySeq DEF TypeOK
  <2> QED BY <1>1, <2>1, HeadTailProperties DEF TypeOK
<1>4. units \subseteq Unit /\ \A u \in units : u <= flushed
  <2>1. pipe[1] \in Frame
    BY <1>3, ElementOfSeq
  <2> QED BY <1>1, <1>3, <2>1 DEF Frame, OrderInv, PipeOrder
<1>5. ASSUME NEW i \in 1 .. Len(pipe), IsData(pipe[i]), NEW v \in pipe[i].units,
             v \notin units
      PROVE  InPipe(v)' /\ \A u \in units : u < v
  <2>1. i # 1
    BY <1>3, <1>5
  <2>2. i - 1 \in 1 .. Len(pipe) - 1 /\ i - 1 + 1 = i /\ 1 < i
    BY <1>3, <2>1
  <2>3. i - 1 \in 1 .. Len(pipe') /\ pipe'[i - 1] = pipe[i]
    BY <1>3, <2>2
  <2>4. InPipe(v)'
    BY <1>5, <2>3 DEF InPipe
  <2>5. \A u \in units : u < v
    BY <1>3, <1>5, <2>2 DEF OrderInv, PipeOrder
  <2> QED BY <2>4, <2>5
<1> HIDE DEF units
<1>6. ASSUME NEW u \in 1 .. flushed
      PROVE  u \in taken' \/ InPipe(u)'
  <2>1. u \in taken \/ InPipe(u)
    BY <1>2 DEF FeedInv, StreamInv
  <2> QED BY <1>1, <1>5, <2>1 DEF InPipe, units
<1>7. ASSUME NEW u \in taken'
      PROVE  u \in Nat \ {0} /\ 1 .. u \subseteq taken'
  <2>1. CASE u \in taken
    BY <1>1, <2>1 DEF FeedInv, StreamInv, Feed!WithoutHole
  <2>2. CASE u \in units
    <3>1. u \in Nat \ {0} /\ u <= flushed
      BY <1>4, <2>2 DEF Unit
    <3>2. ASSUME NEW v \in 1 .. u
          PROVE  v \in taken'
      <4>1. v \in 1 .. flushed
        BY <1>3, <3>1
      <4>2. v \in taken \/ InPipe(v)
        BY <1>2, <4>1 DEF FeedInv, StreamInv
      <4>3. ASSUME InPipe(v), v \notin units
            PROVE  FALSE
        <5>1. u < v
          BY <1>5, <2>2, <4>3 DEF InPipe
        <5> QED BY <3>1, <5>1
      <4> QED BY <1>1, <4>2, <4>3 DEF units
    <3> QED BY <3>1, <3>2
  <2> QED BY <1>1, <2>1, <2>2 DEF units
<1>8. ~exited
  BY <1>1, <1>3 DEF OrderInv, ExitOrder
<1> QED BY <1>1, <1>6, <1>7, <1>8 DEF StreamInv, Feed!WithoutHole

\* An Exit frame takes no output from the pipe.
LEMMA StreamExit ==
  ASSUME TypeOK, StreamInv, HandleExit
  PROVE  StreamInv'
<1>1. /\ pipe # << >> /\ ~IsData(Head(pipe)) /\ pipe' = Tail(pipe) /\ flushed' = flushed
      /\ taken' = taken /\ connected' = connected
  BY DEF HandleExit, IsData, TypeOK, childVars
<1>2. /\ pipe \in Seq(Frame) /\ Len(pipe) \in Nat /\ Len(pipe) > 0 /\ Head(pipe) = pipe[1]
      /\ Len(pipe') = Len(pipe) - 1
      /\ \A i \in 1 .. Len(pipe) - 1 : pipe'[i] = pipe[i + 1]
  <2>1. pipe \in Seq(Frame) /\ Len(pipe) \in Nat /\ Len(pipe) > 0
    BY <1>1, LenProperties, EmptySeq DEF TypeOK
  <2> QED BY <1>1, <2>1, HeadTailProperties
<1>3. ASSUME NEW u, InPipe(u)
      PROVE  InPipe(u)'
  <2>1. PICK i \in 1 .. Len(pipe) : IsData(pipe[i]) /\ u \in pipe[i].units
    BY <1>3 DEF InPipe
  <2>2. i - 1 \in 1 .. Len(pipe) - 1 /\ i - 1 + 1 = i
    BY <1>1, <1>2, <2>1
  <2>3. i - 1 \in 1 .. Len(pipe') /\ pipe'[i - 1] = pipe[i]
    BY <1>2, <2>2
  <2> QED BY <2>1, <2>3 DEF InPipe
<1> QED BY <1>1, <1>3 DEF StreamInv, Feed!WithoutHole

LEMMA FeedInvStep == TypeOK /\ OrderInv /\ FeedInv /\ [Next]_vars => FeedInv'
<1> SUFFICES ASSUME TypeOK, OrderInv, FeedInv, [Next]_vars
             PROVE  FeedInv'
  OBVIOUS
<1> USE DEF stateVars, eventVars
<1>1. CASE PtyData \/ TimerFires \/ PtyExit \/ ForceExit \/ ChildEnds \/ StdoutDrain
  <2>1. StreamInv'
    BY <1>1, StreamChild DEF FeedInv
  <2>2. UNCHANGED <<frames, connected, exited, attached, told>>
    BY <1>1 DEF PtyData, TimerFires, PtyExit, ForceExit, ChildEnds, StdoutDrain, clientVars
  <2> QED BY <2>1, <2>2 DEF FeedInv, ToldInv
<1>2. ASSUME UNCHANGED <<pipe, flushed, taken, connected>>
      PROVE  StreamInv'
  BY <1>2 DEF FeedInv, StreamInv, InPipe, Feed!WithoutHole
<1>3. CASE HandleData
  <2>1. StreamInv'
    BY <1>3, StreamData
  <2>2. frames > 0 /\ UNCHANGED <<connected, exited, attached, told>>
    BY <1>3 DEF HandleData, Broadcast
  <2> QED BY <2>1, <2>2 DEF FeedInv, ToldInv
<1>4. CASE HandleExit
  <2>1. StreamInv'
    BY <1>4, StreamExit DEF FeedInv
  <2>2. frames > 0 /\ UNCHANGED <<connected, attached>>
    BY <1>4 DEF HandleExit, Broadcast
  <2>3. \A s \in attached' : told'[s]
    BY <1>4, <2>2 DEF HandleExit, TellExit, TypeOK
  <2> QED BY <2>1, <2>2, <2>3 DEF FeedInv, ToldInv
<1>5. ASSUME connected' = FALSE, taken' = taken
      PROVE  StreamInv'
  BY <1>5 DEF FeedInv, StreamInv, Feed!WithoutHole
<1>6. CASE HandleChildExit
  <2>1. ~(frames' > 0) /\ connected' = FALSE /\ taken' = taken /\ attached' = attached
    BY <1>6 DEF HandleChildExit, Reset, Idle
  <2>2. \A s \in attached' : told'[s]
    <3>1. CASE exited
      BY <1>6, <2>1, <3>1 DEF HandleChildExit, FeedInv, ToldInv
    <3>2. CASE ~exited
      BY <1>6, <2>1, <3>2 DEF HandleChildExit, TellExit, TypeOK
    <3> QED BY <3>1, <3>2
  <2> QED BY <1>5, <2>1, <2>2 DEF FeedInv, ToldInv
<1>7. CASE Dispose
  <2>1. ~(frames' > 0) /\ connected' = FALSE /\ taken' = taken /\ attached' = {}
    BY <1>7 DEF Dispose, Reset, Idle
  <2> QED BY <1>5, <2>1 DEF FeedInv, ToldInv
<1>8. CASE ReadChunk
  <2>1. connected /\ UNCHANGED <<pipe, flushed, taken, connected, exited, attached, told>>
    BY <1>8 DEF ReadChunk, childVars, clientVars
  <2> QED BY <1>2, <2>1 DEF FeedInv, ToldInv
<1>9. CASE WriteItem \/ WriteSlice \/ UNCHANGED vars
  <2>1. UNCHANGED <<frames, pipe, flushed, taken, connected, exited, attached, told>>
    BY <1>9 DEF WriteItem, WriteSlice, vars, childVars, clientVars
  <2> QED BY <1>2, <2>1 DEF FeedInv, ToldInv
<1>10. ASSUME NEW s \in Socks,
              Attach(s) \/ AttachTimeout(s) \/ TakeSnapshot(s) \/ Detach(s)
                \/ SockClose(s) \/ SockDrain(s)
       PROVE  FeedInv'
  <2>1. UNCHANGED <<frames, pipe, flushed, taken, connected, exited>>
    BY <1>10 DEF Attach, AttachTimeout, TakeSnapshot, Detach, SockClose, SockDrain, childVars
  <2>2. exited => \A c \in attached' : told'[c]
    <3>1. CASE Attach(s)
      BY <3>1 DEF Attach
    <3>2. CASE AttachTimeout(s) \/ TakeSnapshot(s) \/ SockDrain(s)
      BY <3>2 DEF AttachTimeout, TakeSnapshot, SockDrain, clientVars, FeedInv, ToldInv
    <3>3. CASE Detach(s) \/ SockClose(s)
      <4>1. attached' = attached \ {s} /\ told' = [told EXCEPT ![s] = FALSE]
        BY <3>3 DEF Detach, SockClose, Forget
      <4> QED BY <4>1 DEF FeedInv, ToldInv, TypeOK
    <3> QED BY <1>10, <3>1, <3>2, <3>3
  <2> QED BY <1>2, <2>1, <2>2 DEF FeedInv, ToldInv
<1> QED BY <1>1, <1>3, <1>4, <1>6, <1>7, <1>8, <1>9, <1>10 DEF Next

\* The state of the feed as the session's state gives it.
Heard == [s \in Socks |-> IF s \in attached THEN got[s] ELSE {}]
Told == {s \in attached : told[s]}

\* A step that the feed does not see.
LEMMA FeedSame ==
  ASSUME UNCHANGED <<taken, exited, attached, got, told>>
  PROVE  UNCHANGED Feed!vars
BY DEF Feed!vars

\* A client that goes: its events so far are forgotten.
LEMMA FeedLeaves ==
  ASSUME TypeOK, NEW gone \in SUBSET attached, attached' = attached \ gone,
         UNCHANGED <<taken, exited>>,
         \A s \in attached' : got'[s] = got[s] /\ told'[s] = told[s]
  PROVE  Feed!Leave(gone)
<1>1. Heard' = [s \in Socks |-> IF s \in gone THEN {} ELSE Heard[s]]
  BY DEF Heard
<1>2. Told' = Told \ gone
  BY DEF Told
<1> QED BY <1>1, <1>2 DEF Heard, Told, Feed!Leave

LEMMA FeedStep ==
  ASSUME TypeOK, OrderInv, FeedInv, [Next]_vars
  PROVE  [Feed!Next]_(Feed!vars)
<1> USE DEF stateVars, eventVars, Feed!Next
<1>1. CASE \/ PtyData \/ TimerFires \/ PtyExit \/ ForceExit \/ ChildEnds \/ StdoutDrain
           \/ ReadChunk \/ WriteItem \/ WriteSlice \/ UNCHANGED vars
  <2>1. UNCHANGED <<taken, exited, attached, got, told>>
    BY <1>1 DEF PtyData, TimerFires, PtyExit, ForceExit, ChildEnds, StdoutDrain, ReadChunk,
                WriteItem, WriteSlice, vars, clientVars
  <2> QED BY <2>1, FeedSame
\* The members hear the batch together; a batch without units is not seen.
<1>2. CASE HandleData
  <2>1. /\ taken' = taken \cup Head(pipe).units /\ UNCHANGED <<exited, attached, told>>
        /\ got' = [s \in Socks |-> IF s \in attached THEN got[s] \cup Head(pipe).units
                                   ELSE got[s]]
    BY <1>2 DEF HandleData, Broadcast
  <2>2. StreamInv' /\ ~exited
    BY <1>2, StreamData
  <2>3. taken' \ taken = Head(pipe).units
    <3>1. pipe # << >> /\ pipe \in Seq(Frame) /\ IsData(Head(pipe))
      BY <1>2 DEF HandleData, IsData, TypeOK
    <3>2. 1 \in 1 .. Len(pipe) /\ Head(pipe) = pipe[1]
      BY <3>1, LenProperties, HeadTailProperties, EmptySeq
    <3>3. \A u \in Head(pipe).units : \A v \in taken : v < u
      BY <3>1, <3>2 DEF OrderInv, PipeOrder
    <3>4. \A v \in taken : ~(v < v)
      BY DEF TypeOK, Unit
    <3> QED BY <2>1, <3>3, <3>4
  <2>4. Heard' = [s \in Socks |-> IF s \in attached THEN Heard[s] \cup (taken' \ taken) ELSE {}]
    BY <2>1, <2>3 DEF Heard
  <2>5. Told' = Told
    BY <2>1 DEF Told
  <2>6. CASE taken' # taken
    <3>1. Feed!WithoutHole(taken')
      BY <2>2 DEF StreamInv, Feed!WithoutHole
    <3>2. Feed!Publish
      BY <2>1, <2>2, <2>4, <2>5, <2>6, <3>1 DEF Heard, Told, Feed!Publish
    <3> QED BY <3>2
  <2>7. CASE taken' = taken
    <3>1. Heard' = Heard
      BY <2>4, <2>7 DEF Heard
    <3> QED BY <2>1, <2>5, <2>7, <3>1 DEF Heard, Told, Feed!vars
  <2> QED BY <2>6, <2>7
\* Whoever is attached when the session exits is told, and once only.
<1>3. ASSUME UNCHANGED <<taken, attached, got>>, exited' = TRUE, \A s \in attached : told'[s]
      PROVE  Feed!End \/ UNCHANGED Feed!vars
  <2>1. Heard' = Heard /\ Told' = attached
    BY <1>3 DEF Heard, Told
  <2>2. CASE ~exited
    <3>1. Feed!End
      BY <1>3, <2>1, <2>2 DEF Heard, Told, Feed!End
    <3> QED BY <3>1
  <2>3. CASE exited
    <3>1. Told = attached
      BY <2>3 DEF Told, FeedInv, ToldInv
    <3> QED BY <1>3, <2>1, <2>3, <3>1 DEF Heard, Told, Feed!vars, TypeOK
  <2> QED BY <2>2, <2>3
<1>4. CASE HandleExit \/ HandleChildExit
  <2>1. FeedInv'
    BY FeedInvStep
  <2>2. UNCHANGED <<taken, attached, got>> /\ exited' = TRUE
    BY <1>4 DEF HandleExit, HandleChildExit, Broadcast
  <2>3. \A s \in attached : told'[s]
    BY <2>1, <2>2 DEF FeedInv, ToldInv
  <2> QED BY <1>3, <2>2, <2>3
<1>5. CASE Dispose
  <2>1. attached' = {} /\ UNCHANGED <<taken, exited, got, told>>
    BY <1>5 DEF Dispose
  <2>2. PICK gone \in SUBSET attached : gone = attached
    OBVIOUS
  <2>3. Feed!Leave(gone)
    <3>1. attached' = attached \ gone /\ \A s \in attached' : got'[s] = got[s] /\ told'[s] = told[s]
      BY <2>1, <2>2
    <3> QED BY <2>1, <3>1, FeedLeaves
  <2> QED BY <2>3
<1>6. ASSUME NEW s \in Socks, Attach(s)
      PROVE  Feed!Join(s)
  <2>1. /\ ~exited /\ attached' = attached \cup {s} /\ UNCHANGED <<taken, exited>>
        /\ got' = [got EXCEPT ![s] = {}] /\ told' = [told EXCEPT ![s] = FALSE]
    BY <1>6 DEF Attach
  <2>2. Heard' = [Heard EXCEPT ![s] = {}]
    BY <2>1 DEF Heard, TypeOK
  <2>3. Told' = {} /\ Told = {}
    BY <2>1 DEF Told, TypeOK, OrderInv, ExitOrder
  <2> QED BY <2>1, <2>2, <2>3 DEF Heard, Told, Feed!Join
<1>7. ASSUME NEW s \in Socks, Detach(s) \/ SockClose(s)
      PROVE  \E gone \in SUBSET attached : Feed!Leave(gone)
  <2>1. /\ attached' = attached \ {s} /\ UNCHANGED <<taken, exited>>
        /\ got' = [got EXCEPT ![s] = {}] /\ told' = [told EXCEPT ![s] = FALSE]
    BY <1>7 DEF Detach, SockClose, Forget
  <2>2. \A c \in attached' : got'[c] = got[c] /\ told'[c] = told[c]
    BY <2>1 DEF TypeOK
  <2>3. PICK gone \in SUBSET attached : attached' = attached \ gone
    <3>1. attached' = attached \ (attached \cap {s}) /\ attached \cap {s} \in SUBSET attached
      BY <2>1
    <3> QED BY <3>1
  <2>4. Feed!Leave(gone)
    BY <2>1, <2>2, <2>3, FeedLeaves
  <2> QED BY <2>4
<1>8. ASSUME NEW s \in Socks, AttachTimeout(s) \/ TakeSnapshot(s) \/ SockDrain(s)
      PROVE  UNCHANGED Feed!vars
  <2>1. UNCHANGED <<taken, exited, attached, got, told>>
    BY <1>8 DEF AttachTimeout, TakeSnapshot, SockDrain, clientVars
  <2> QED BY <2>1, FeedSame
<1> QED BY <1>1, <1>2, <1>4, <1>5, <1>6, <1>7, <1>8 DEF Next

\* The session is a feed of the terminal's output: no hole and no repetition in what
\* it takes from the subprocess, every attached client gets every event, and all are
\* told of the exit, once, after the last output; whatever the batches, the pipe, the
\* pauses and the ways in which process, clients and session end.
THEOREM OutputIsAFeed == Spec => ImplementsFeed
<1>1. Init => OrderInv /\ FeedInv
  BY DEF Init, OrderInv, PipeOrder, ExitOrder, FeedInv, StreamInv, ToldInv, Feed!WithoutHole
<1>2. Init => Feed!Init
  BY DEF Init, Feed!Init
<1>3. TypeOK /\ OrderInv /\ FeedInv /\ [Next]_vars => [Feed!Next]_(Feed!vars)
  BY FeedStep
<1> QED BY <1>1, <1>2, <1>3, OrderStep, FeedInvStep, OutputTypes, PTL
           DEF Spec, ImplementsFeed, Feed!Spec

=============================================================================
