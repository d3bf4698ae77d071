------------------------ MODULE TerminalInputProofs -------------------------
(***************************************************************************)
(* Proofs about TerminalInput for any amount of input and any size of      *)
(* frames, chunks, pipe and queues.                                        *)
(*                                                                         *)
(* TypeOK, InputInOrder and the refinement of InputChannel.  The invariant *)
(* behind them speaks of Line, all buffers on their way to the decoder:    *)
(* moving buffers from the session's queue to the pipe leaves it as it is. *)
(***************************************************************************)
EXTENDS TerminalInput, SequenceTheorems, TLAPS

Line == pipe \o stdinQueue

\* A buffer holds units only if it is the payload of a Write, Spawn comes first
\* of all, and no buffer holds more than one part.
Sound(b) ==
  /\ b.to - b.from < Part
  /\ b.from <= b.to + 1
  /\ b.part = "header" \/ b.type # "Write" => b.to + 1 = b.from
  /\ b.part = "payload" /\ b.type = "Write" => b.from <= b.to
  /\ b.type = "Spawn" => b.to = 0 /\ b.from = 1

\* Buffer c comes after buffer b.
Follows(b, c) ==
  /\ c.from = b.to + 1
  /\ b.part = "header" => c.part = "payload" /\ c.type = b.type
  /\ b.part = "payload" => c.part = "header"

WellFormed(seq) ==
  /\ \A i \in 1 .. Len(seq) : Sound(seq[i])
  /\ \A i \in 1 .. Len(seq) - 1 : Follows(seq[i], seq[i + 1])

\* The decoder is where the line begins.
Aligned(seq, d) ==
  seq # << >> => IF d = "none" THEN seq[1].part = "header"
                 ELSE seq[1].part = "payload" /\ seq[1].type = d

\* While the session runs, the line ends with all that was accepted.
Complete(seq, d, a) ==
  IF seq = << >> THEN d = "none"
  ELSE seq[Len(seq)].part = "payload" /\ seq[Len(seq)].to = a

LineInv ==
  /\ WellFormed(Line)
  /\ Aligned(Line, decoder)
  /\ alive => Complete(Line, decoder, accepted)

SessionInv ==
  /\ alive => daemonUp
  /\ daemonUp /\ ~alive => child = "gone"
  /\ alive /\ ~ready => accepted = 0

QueueInv ==
  /\ \A i \in 1 .. Len(queue) : queue[i].from <= queue[i].to
  /\ \A i \in 1 .. Len(queue) - 1 : queue[i + 1].from = queue[i].to + 1
  /\ \A i \in 1 .. Len(queue) : queue[i].to <= queue[Len(queue)].to
  /\ queued = IF queue = << >> THEN 0
              ELSE queue[Len(queue)].to - queue[1].from + 1
  /\ queue = << >> => flush # "writing"
  /\ child = "boot" => queue = << >> /\ received = << >> /\ ~failed

WaterInv ==
  /\ ~stdinPaused => queued < HighWater
  /\ queued + chunk * Part <= HighWater + MaxChunk * Part

\* The units that have left the line.
FrontOf(seq, a) == IF seq # << >> THEN seq[1].from - 1 ELSE a
Front == FrontOf(Line, accepted)

\* Up to n all units are accounted for: received, or lost in a failed write.
Reached(n) ==
  /\ \A i \in 1 .. Len(received) : received[i] <= n
  /\ ~failed => Len(received) = n

FlowInv ==
  /\ InputInOrder
  /\ queue # << >> => Reached(queue[1].from - 1)
  /\ child = "running" /\ (Line # << >> \/ daemonUp) =>
       IF queue # << >> THEN queue[Len(queue)].to = Front ELSE Reached(Front)

Inv == TypeOK /\ LineInv /\ SessionInv /\ QueueInv /\ WaterInv /\ FlowInv

-----------------------------------------------------------------------------
(* Sequences of buffers *)

\* A well-formed line keeps its form when its end is cut off...
LEMMA PrefixWellFormed ==
  ASSUME NEW s \in Seq(Buffer), NEW m \in 0 .. Len(s), WellFormed(s)
  PROVE  /\ SubSeq(s, 1, m) \in Seq(Buffer) /\ Len(SubSeq(s, 1, m)) = m
         /\ WellFormed(SubSeq(s, 1, m))
         /\ SubSeq(s, 1, m) # << >> => s # << >> /\ SubSeq(s, 1, m)[1] = s[1]
<1>0. Len(s) \in Nat /\ \A i \in 1 .. m : s[i] \in Buffer
  BY LenProperties, ElementOfSeq
<1> DEFINE t == SubSeq(s, 1, m)
<1>1. t \in Seq(Buffer) /\ Len(t) = m /\ \A i \in 1 .. m : t[i] = s[i]
  BY <1>0, SubSeqProperties
<1>2. WellFormed(t)
  BY <1>0, <1>1 DEF WellFormed
<1>3. t # << >> => m > 0
  BY <1>0, <1>1, EmptySeq
<1>4. m > 0 => s # << >>
  BY <1>0, EmptySeq
<1> QED BY <1>0, <1>1, <1>2, <1>3, <1>4

\* ... and when its first buffer is taken.
LEMMA TailWellFormed ==
  ASSUME NEW s \in Seq(Buffer), s # << >>, WellFormed(s)
  PROVE  /\ Tail(s) \in Seq(Buffer) /\ Len(Tail(s)) = Len(s) - 1
         /\ WellFormed(Tail(s)) /\ Sound(s[1]) /\ s[1] \in Buffer
         /\ Head(s) = s[1]
         /\ Tail(s) # << >> => /\ Tail(s)[1] = s[2] /\ Follows(s[1], s[2])
                              /\ Tail(s)[Len(Tail(s))] = s[Len(s)]
         /\ Tail(s) = << >> => s[Len(s)] = s[1]
<1>0. Len(s) \in Nat /\ Len(s) > 0
  BY LenProperties, EmptySeq
<1>1. /\ Tail(s) \in Seq(Buffer) /\ Len(Tail(s)) = Len(s) - 1
      /\ \A i \in 1 .. Len(s) - 1 : Tail(s)[i] = s[i + 1]
  BY HeadTailProperties
<1> DEFINE t == Tail(s)
<1> HIDE DEF t
<1>2. /\ t \in Seq(Buffer) /\ Len(t) = Len(s) - 1
      /\ \A i \in 1 .. Len(s) - 1 : t[i] = s[i + 1]
  BY <1>1 DEF t
<1>3. WellFormed(t)
  BY <1>0, <1>2 DEF WellFormed
<1>4. t = << >> => Len(s) = 1
  BY <1>0, <1>2, EmptySeq
<1>5. t # << >> => Len(s) > 1 /\ Len(t) > 0
  BY <1>0, <1>2, EmptySeq, LenProperties
<1>6. Sound(s[1]) /\ s[1] \in Buffer /\ Head(s) = s[1]
  BY <1>0, ElementOfSeq DEF WellFormed
<1>7. Len(s) > 1 => Follows(s[1], s[2])
  BY <1>0 DEF WellFormed
<1>8. Len(s) > 1 => t[1] = s[2] /\ t[Len(t)] = s[Len(s)]
  BY <1>0, <1>2
<1> QED BY <1>2, <1>3, <1>4, <1>5, <1>6, <1>7, <1>8 DEF t

\* Taking the head of the first of two sequences takes it of both.
LEMMA TailConcat ==
  ASSUME NEW s \in Seq(Buffer), NEW t \in Seq(Buffer), s # << >>
  PROVE  /\ Tail(s) \o t = Tail(s \o t) /\ s \o t \in Seq(Buffer)
         /\ s \o t # << >> /\ (s \o t)[1] = Head(s)
<1>0. Len(s) \in Nat /\ Len(s) > 0 /\ Len(t) \in Nat
  BY LenProperties, EmptySeq
<1> DEFINE c == s \o t
           h == Tail(s)
           g == Tail(s) \o t
           e == Tail(s \o t)
<1>1. /\ h \in Seq(Buffer) /\ Len(h) = Len(s) - 1
      /\ \A i \in 1 .. Len(s) - 1 : h[i] = s[i + 1]
  BY HeadTailProperties
<1>2. /\ c \in Seq(Buffer) /\ Len(c) = Len(s) + Len(t)
      /\ \A i \in 1 .. Len(s) + Len(t) : c[i] = IF i <= Len(s) THEN s[i] ELSE t[i - Len(s)]
  BY ConcatProperties
<1>3. c # << >> /\ c[1] = Head(s)
  BY <1>0, <1>2, EmptySeq
<1>4. /\ e \in Seq(Buffer) /\ Len(e) = Len(c) - 1
      /\ \A i \in 1 .. Len(e) : e[i] = c[i + 1]
  BY <1>2, <1>3, HeadTailProperties
<1>5. /\ g \in Seq(Buffer) /\ Len(g) = Len(h) + Len(t)
      /\ \A i \in 1 .. Len(h) + Len(t) : g[i] = IF i <= Len(h) THEN h[i] ELSE t[i - Len(h)]
  BY <1>1, ConcatProperties
<1> HIDE DEF c, h, g, e
<1>6. Len(g) = Len(e) /\ \A i \in 1 .. Len(g) : g[i] = e[i]
  <2>1. Len(g) = Len(e)
    BY <1>0, <1>1, <1>2, <1>4, <1>5
  <2>2. ASSUME NEW i \in 1 .. Len(g)
        PROVE  g[i] = e[i]
    <3>0. i \in Nat /\ i >= 1 /\ i <= Len(s) + Len(t) - 1
      BY <1>0, <1>1, <1>5
    <3>1. e[i] = c[i + 1]
      BY <1>4, <2>1
    <3>2. c[i + 1] = IF i + 1 <= Len(s) THEN s[i + 1] ELSE t[i + 1 - Len(s)]
      BY <1>0, <1>2, <3>0
    <3>3. g[i] = IF i <= Len(h) THEN h[i] ELSE t[i - Len(h)]
      BY <1>5
    <3>4. CASE i + 1 <= Len(s)
      BY <1>0, <1>1, <3>0, <3>1, <3>2, <3>3, <3>4
    <3>5. CASE ~(i + 1 <= Len(s))
      <4>1. i - Len(h) = i + 1 - Len(s) /\ ~(i <= Len(h))
        BY <1>0, <1>1, <3>0, <3>5
      <4> QED BY <3>1, <3>2, <3>3, <3>5, <4>1
    <3> QED BY <3>4, <3>5
  <2> QED BY <2>1, <2>2
<1>7. g = e
  BY <1>4, <1>5, <1>6, SeqEqual
<1> QED BY <1>2, <1>3, <1>7 DEF c, g, e

\* Cutting both sequences of a line to a prefix of the first.
LEMMA PrefixConcat ==
  ASSUME NEW s \in Seq(Buffer), NEW t \in Seq(Buffer), NEW m \in 0 .. Len(s)
  PROVE  /\ SubSeq(s, 1, m) \o << >> = SubSeq(s \o t, 1, m)
         /\ SubSeq(s, 1, m) \in Seq(Buffer) /\ Len(SubSeq(s, 1, m)) = m
         /\ s \o t \in Seq(Buffer) /\ m \in 0 .. Len(s \o t)
<1>0. Len(s) \in Nat /\ Len(t) \in Nat
  BY LenProperties
<1>1. /\ s \o t \in Seq(Buffer) /\ Len(s \o t) = Len(s) + Len(t)
  BY ConcatProperties
<1>2. SubSeq(s, 1, m) \in Seq(Buffer) /\ Len(SubSeq(s, 1, m)) = m
  <2>1. \A i \in 1 .. m : s[i] \in Buffer
    BY <1>0, ElementOfSeq
  <2> QED BY <1>0, <2>1, SubSeqProperties
<1>3. SubSeq(s, 1, m) \o << >> = SubSeq(s, 1, m)
  BY <1>2, ConcatEmptySeq
<1>4. SubSeq(s, 1, m) = SubSeq(s \o t, 1, m)
  <2>1. CASE m = 0
    BY <2>1, SubSeqEmpty
  <2>2. CASE m # 0
    BY <1>0, <2>2, SubSeqOfConcat1
  <2> QED BY <2>1, <2>2
<1> QED BY <1>0, <1>1, <1>2, <1>3, <1>4

-----------------------------------------------------------------------------
(* The stdin queue of the session *)

State == [queue : Seq(Buffer), pipe : Seq(Buffer), armed : BOOLEAN, accepted : Nat]

LineOf(st) == st.pipe \o st.queue

\* Flushing moves buffers from the queue to the pipe and keeps their order.
LEMMA FlushedLine ==
  ASSUME NEW st \in State
  PROVE  /\ Flushed(st) \in State /\ LineOf(Flushed(st)) = LineOf(st)
         /\ Flushed(st).accepted = st.accepted
         /\ Len(Flushed(st).pipe) >= Len(st.pipe)
<1> DEFINE q == st.queue
           p == st.pipe
           room == IF Len(p) < PipeRoom THEN PipeRoom - Len(p) ELSE 1
           moved == IF Len(q) < room THEN Len(q) ELSE room
           new == [st EXCEPT !.pipe = @ \o SubSeq(q, 1, moved),
                             !.queue = SubSeq(@, moved + 1, Len(@)),
                             !.armed = moved = room]
<1>1. /\ q \in Seq(Buffer) /\ p \in Seq(Buffer) /\ st.accepted \in Nat
      /\ Len(q) \in Nat /\ Len(p) \in Nat /\ st.armed \in BOOLEAN
  BY LenProperties DEF State
<1>2. CASE st.armed
  BY <1>1, <1>2 DEF Flushed, State
<1>3. CASE ~st.armed
  <2>1. Flushed(st) = new
    BY <1>3 DEF Flushed
  <2>2. moved \in 0 .. Len(q)
    BY <1>1, BoundsAssumption
  <2> HIDE DEF moved, room
  <2>3. \A i \in 1 .. moved : q[i] \in Buffer
    BY <1>1, <2>2, ElementOfSeq
  <2>4. \A i \in moved + 1 .. Len(q) : q[i] \in Buffer
    BY <1>1, <2>2, ElementOfSeq
  <2>5. SubSeq(q, 1, moved) \in Seq(Buffer) /\ Len(SubSeq(q, 1, moved)) = moved
    BY <1>1, <2>2, <2>3, SubSeqProperties
  <2>6. SubSeq(q, moved + 1, Len(q)) \in Seq(Buffer)
    BY <1>1, <2>2, <2>4, SubSeqProperties
  <2>7. SubSeq(q, 1, moved) \o SubSeq(q, moved + 1, Len(q)) = q
    <3>1. 1 \in 1 .. Len(q) + 1 /\ moved \in 1 - 1 .. Len(q) /\ Len(q) \in moved .. Len(q)
      BY <1>1, <2>2
    <3>2. q \in Seq(Buffer)
      BY <1>1
    <3> HIDE DEF q
    <3>3. SubSeq(q, 1, moved) \o SubSeq(q, moved + 1, Len(q)) = SubSeq(q, 1, Len(q))
      BY <3>1, <3>2, ConcatAdjacentSubSeq
    <3> QED BY <3>2, <3>3, SubSeqFull
  <2>8. p \o SubSeq(q, 1, moved) \in Seq(Buffer)
        /\ Len(p \o SubSeq(q, 1, moved)) = Len(p) + moved
    BY <1>1, <2>5, ConcatProperties
  <2>9. (p \o SubSeq(q, 1, moved)) \o SubSeq(q, moved + 1, Len(q)) = p \o q
    <3> DEFINE a == SubSeq(q, 1, moved)
               b == SubSeq(q, moved + 1, Len(q))
    <3>1. p \in Seq(Buffer) /\ a \in Seq(Buffer) /\ b \in Seq(Buffer)
      BY <1>1, <2>5, <2>6
    <3>4. a \o b = q
      BY <2>7
    <3> HIDE DEF a, b, p, q, new
    <3>2. (p \o a) \o b = p \o (a \o b)
      BY <3>1, ConcatAssociative
    <3>3. (p \o a) \o b = p \o q
      BY <3>2, <3>4
    <3> QED BY <3>3 DEF a, b
  <2>10. /\ new.pipe = p \o SubSeq(q, 1, moved) /\ new.queue = SubSeq(q, moved + 1, Len(q))
         /\ new.accepted = st.accepted /\ new.armed \in BOOLEAN
         /\ new \in State
    BY <1>1, <2>6, <2>8 DEF State
  <2> HIDE DEF new, q, p
  <2>11. LineOf(new) = p \o q
    BY <2>9, <2>10 DEF LineOf
  <2>12. Len(new.pipe) >= Len(p)
    BY <1>1, <2>2, <2>8, <2>10
  <2> QED BY <2>1, <2>10, <2>11, <2>12 DEF LineOf, q, p
<1> QED BY <1>1, <1>2, <1>3

\* A frame that the session may send where it has accepted a units.
Sendable(type, a, n) ==
  /\ type \in FrameType /\ n \in Nat /\ n <= Part
  /\ type = "Write" <=> n > 0
  /\ type = "Spawn" => a = 0

LEMMA FrameBuffers ==
  ASSUME NEW a \in Nat, NEW type, NEW n, Sendable(type, a, n)
  PROVE  /\ FrameOf(type, a, n) \in Seq(Buffer) /\ Len(FrameOf(type, a, n)) = 2
         /\ LET f == FrameOf(type, a, n) IN
            /\ Sound(f[1]) /\ Sound(f[2]) /\ Follows(f[1], f[2])
            /\ f[1].part = "header" /\ f[1].from = a + 1
            /\ f[2].part = "payload" /\ f[2].to = a + n
<1> DEFINE h == [part |-> "header", type |-> type, from |-> a + 1, to |-> a]
           d == [part |-> "payload", type |-> type, from |-> a + 1, to |-> a + n]
<1>1. h \in Buffer /\ d \in Buffer
  BY DEF Buffer, Sendable
<1>2. FrameOf(type, a, n) = <<h, d>>
  BY DEF FrameOf
<1>3. Sound(h)
  BY BoundsAssumption DEF Sound, Sendable
<1>4. Sound(d)
  BY BoundsAssumption DEF Sound, Sendable
<1>5. Follows(h, d)
  BY DEF Follows
<1>6. h.part = "header" /\ h.from = a + 1 /\ d.part = "payload" /\ d.to = a + n
  OBVIOUS
<1> HIDE DEF h, d
<1>7. <<h, d>> \in Seq(Buffer) /\ Len(<<h, d>>) = 2 /\ <<h, d>>[1] = h /\ <<h, d>>[2] = d
  BY <1>1
<1> QED BY <1>2, <1>3, <1>4, <1>5, <1>6, <1>7

\* A frame is dropped as a whole or comes at the end of the line as a whole.
LEMMA SentLine ==
  ASSUME NEW st \in State, NEW type, NEW n, Sendable(type, st.accepted, n)
  PROVE  /\ Sent(st, type, n) \in State /\ Len(Sent(st, type, n).pipe) >= Len(st.pipe)
         /\ \/ /\ LineOf(Sent(st, type, n)) = LineOf(st)
               /\ Sent(st, type, n).accepted = st.accepted
            \/ /\ LineOf(Sent(st, type, n)) = LineOf(st) \o FrameOf(type, st.accepted, n)
               /\ Sent(st, type, n).accepted = st.accepted + n
<1> DEFINE frame == FrameOf(type, st.accepted, n)
           new == [st EXCEPT !.queue = @ \o frame, !.accepted = @ + n]
           drop == Weight(st.queue) + Weight(frame) > StdinLimit
<1>1. /\ st.queue \in Seq(Buffer) /\ st.pipe \in Seq(Buffer) /\ st.accepted \in Nat
      /\ st.armed \in BOOLEAN /\ Len(st.pipe) \in Nat /\ n \in Nat
  BY LenProperties DEF State, Sendable
<1>2. frame \in Seq(Buffer)
  BY <1>1, FrameBuffers
<1>3. Sent(st, type, n) = IF drop THEN st ELSE Flushed(new)
  BY DEF Sent
<1> HIDE DEF frame, drop
<1>4. st.queue \o frame \in Seq(Buffer)
  BY <1>1, <1>2, ConcatProperties
<1>5. /\ new \in State /\ new.queue = st.queue \o frame /\ new.pipe = st.pipe
      /\ new.accepted = st.accepted + n
  <2>0. st \in [queue : Seq(Buffer), pipe : Seq(Buffer), armed : BOOLEAN, accepted : Nat]
    BY DEF State
  <2>1. new.queue = st.queue \o frame
    BY <2>0
  <2>2. new.pipe = st.pipe /\ new.armed = st.armed
    BY <2>0
  <2>3. new.accepted = st.accepted + n
    BY <2>0
  <2>4. st.accepted + n \in Nat
    BY <1>1
  <2>5. new \in State
    BY <1>1, <1>4, <2>0, <2>4 DEF State
  <2> QED BY <2>1, <2>2, <2>3, <2>5
<1> HIDE DEF new
<1>6. LineOf(new) = LineOf(st) \o frame
  <2> DEFINE p == st.pipe
             q == st.queue
  <2>1. p \in Seq(Buffer) /\ q \in Seq(Buffer)
    BY <1>1
  <2>2. LineOf(new) = p \o (q \o frame) /\ LineOf(st) = p \o q
    BY <1>5 DEF LineOf
  <2> HIDE DEF p, q
  <2>3. p \o (q \o frame) = (p \o q) \o frame
    BY <1>2, <2>1, ConcatAssociative
  <2> QED BY <2>2, <2>3
<1>7. CASE drop
  BY <1>1, <1>3, <1>7
<1>8. CASE ~drop
  <2>1. /\ Flushed(new) \in State /\ LineOf(Flushed(new)) = LineOf(new)
        /\ Flushed(new).accepted = new.accepted /\ Len(Flushed(new).pipe) >= Len(new.pipe)
    BY <1>5, FlushedLine
  <2> QED BY <1>3, <1>5, <1>6, <1>8, <2>1 DEF frame
<1> QED BY <1>7, <1>8

\* The session's state while it runs, its decoder being at d.
Feed(st, d) ==
  /\ st \in State
  /\ WellFormed(LineOf(st)) /\ Aligned(LineOf(st), d)
  /\ Complete(LineOf(st), d, st.accepted)

LEMMA FrameAppended ==
  ASSUME NEW s \in Seq(Buffer), NEW f \in Seq(Buffer), NEW a \in Nat, NEW d,
         WellFormed(s), Aligned(s, d), Complete(s, d, a),
         Len(f) = 2, Sound(f[1]), Sound(f[2]), Follows(f[1], f[2]),
         f[1].part = "header", f[2].part = "payload", f[1].from = a + 1
  PROVE  /\ WellFormed(s \o f) /\ Aligned(s \o f, d) /\ Complete(s \o f, d, f[2].to)
         /\ FrontOf(s \o f, f[2].to) = FrontOf(s, a)
<1> DEFINE c == s \o f
<1>0. Len(s) \in Nat /\ (s = << >> <=> Len(s) = 0)
  BY LenProperties, EmptySeq
<1>1. /\ c \in Seq(Buffer) /\ Len(c) = Len(s) + 2
      /\ \A i \in 1 .. Len(s) + 2 : c[i] = IF i <= Len(s) THEN s[i] ELSE f[i - Len(s)]
  <2>1. /\ c \in Seq(Buffer) /\ Len(c) = Len(s) + Len(f)
        /\ \A i \in 1 .. Len(s) + Len(f) :
              c[i] = IF i <= Len(s) THEN s[i] ELSE f[i - Len(s)]
    BY ConcatProperties
  <2> HIDE DEF c
  <2> QED BY <2>1
<1> HIDE DEF c
<1>2. c # << >>
  BY <1>0, <1>1, EmptySeq
<1>3. \A i \in 1 .. Len(s) : c[i] = s[i]
  BY <1>0, <1>1
<1>4. c[Len(s) + 1] = f[1] /\ c[Len(s) + 2] = f[2]
  <2>1. Len(s) + 1 \in 1 .. Len(s) + 2 /\ Len(s) + 2 \in 1 .. Len(s) + 2
        /\ ~(Len(s) + 1 <= Len(s)) /\ ~(Len(s) + 2 <= Len(s))
        /\ Len(s) + 1 - Len(s) = 1 /\ Len(s) + 2 - Len(s) = 2
    BY <1>0
  <2>2. c[Len(s) + 1] = f[Len(s) + 1 - Len(s)] /\ c[Len(s) + 2] = f[Len(s) + 2 - Len(s)]
    BY <1>1, <2>1
  <2> QED BY <2>1, <2>2
<1>5. ASSUME NEW i \in 1 .. Len(c)
      PROVE  Sound(c[i])
  <2>1. i \in 1 .. Len(s) \/ i = Len(s) + 1 \/ i = Len(s) + 2
    BY <1>0, <1>1
  <2>2. \A k \in 1 .. Len(s) : Sound(s[k])
    BY DEF WellFormed
  <2> QED BY <1>3, <1>4, <2>1, <2>2
<1>6. s # << >> => Follows(s[Len(s)], f[1])
  BY DEF Complete, Follows
<1>7. ASSUME NEW i \in 1 .. Len(c) - 1
      PROVE  Follows(c[i], c[i + 1])
  <2>1. CASE i \in 1 .. Len(s) - 1
    <3>1. i \in 1 .. Len(s) /\ i + 1 \in 1 .. Len(s)
      BY <1>0, <2>1
    <3>2. Follows(s[i], s[i + 1])
      BY <2>1 DEF WellFormed
    <3> QED BY <1>3, <3>1, <3>2
  <2>2. CASE i = Len(s)
    <3>1. s # << >> /\ i \in 1 .. Len(s)
      BY <1>0, <2>2
    <3>2. c[i] = s[Len(s)] /\ c[i + 1] = f[1]
      BY <1>3, <1>4, <2>2, <3>1
    <3> QED BY <1>6, <3>1, <3>2
  <2>3. CASE i = Len(s) + 1
    <3>1. i + 1 = Len(s) + 2
      BY <1>0, <2>3
    <3> QED BY <1>4, <2>3, <3>1
  <2> QED BY <1>0, <1>1, <2>1, <2>2, <2>3
<1>8. WellFormed(c)
  BY <1>5, <1>7 DEF WellFormed
<1>9. Complete(c, d, f[2].to)
  BY <1>1, <1>2, <1>4 DEF Complete
<1>10. CASE s = << >>
  <2>1. c[1] = f[1] /\ d = "none"
    BY <1>0, <1>4, <1>10 DEF Complete
  <2>2. Aligned(c, d)
    BY <2>1 DEF Aligned
  <2>3. FrontOf(c, f[2].to) = f[1].from - 1 /\ FrontOf(s, a) = a
    BY <1>2, <1>10, <2>1 DEF FrontOf
  <2> QED BY <1>8, <1>9, <2>2, <2>3 DEF c
<1>11. CASE s # << >>
  <2>1. c[1] = s[1]
    BY <1>0, <1>3, <1>11
  <2>2. Aligned(c, d)
    BY <1>11, <2>1 DEF Aligned
  <2>3. FrontOf(c, f[2].to) = FrontOf(s, a)
    BY <1>2, <1>11, <2>1 DEF FrontOf
  <2> QED BY <1>8, <1>9, <2>2, <2>3 DEF c
<1> QED BY <1>10, <1>11

\* Sending keeps the line in order, whether the frame is dropped or not.
LEMMA SentFeed ==
  ASSUME NEW st, NEW d, Feed(st, d), NEW type, NEW n, Sendable(type, st.accepted, n)
  PROVE  LET new == Sent(st, type, n) IN
         /\ Feed(new, d) /\ Len(new.pipe) >= Len(st.pipe)
         /\ FrontOf(LineOf(new), new.accepted) = FrontOf(LineOf(st), st.accepted)
<1> DEFINE new == Sent(st, type, n)
           f == FrameOf(type, st.accepted, n)
           l == LineOf(st)
<1>0. /\ st \in State /\ st.accepted \in Nat /\ st.queue \in Seq(Buffer)
      /\ st.pipe \in Seq(Buffer)
  BY DEF Feed, State
<1>1. /\ new \in State /\ Len(new.pipe) >= Len(st.pipe)
      /\ \/ LineOf(new) = l /\ new.accepted = st.accepted
         \/ LineOf(new) = l \o f /\ new.accepted = st.accepted + n
  BY <1>0, SentLine
<1>2. /\ f \in Seq(Buffer) /\ Len(f) = 2 /\ Sound(f[1]) /\ Sound(f[2])
      /\ Follows(f[1], f[2]) /\ f[1].part = "header" /\ f[1].from = st.accepted + 1
      /\ f[2].part = "payload" /\ f[2].to = st.accepted + n
  BY <1>0, FrameBuffers
<1>3. l \in Seq(Buffer)
  BY <1>0, ConcatProperties DEF LineOf
<1>4. WellFormed(l) /\ Aligned(l, d) /\ Complete(l, d, st.accepted)
  BY DEF Feed
<1> HIDE DEF new, f, l
<1>5. CASE LineOf(new) = l /\ new.accepted = st.accepted
  BY <1>1, <1>4, <1>5 DEF Feed, new, l
<1>6. CASE LineOf(new) = l \o f /\ new.accepted = st.accepted + n
  <2>1. /\ WellFormed(l \o f) /\ Aligned(l \o f, d) /\ Complete(l \o f, d, f[2].to)
        /\ FrontOf(l \o f, f[2].to) = FrontOf(l, st.accepted)
    BY <1>0, <1>2, <1>3, <1>4, FrameAppended
  <2>2. Feed(new, d)
    BY <1>1, <1>2, <1>6, <2>1 DEF Feed
  <2>3. FrontOf(LineOf(new), new.accepted) = FrontOf(l, st.accepted)
    BY <1>2, <1>6, <2>1
  <2> QED BY <1>1, <2>2, <2>3 DEF new, l
<1> QED BY <1>1, <1>5, <1>6

-----------------------------------------------------------------------------
(* The invariant: the initial state and the steps of the session *)

LEMMA InitInv == Init => Inv
<1> SUFFICES ASSUME Init
             PROVE  Inv
  OBVIOUS
<1> USE DEF Init
<1>1. << >> \in Seq(Buffer) /\ << >> \in Seq(Interval) /\ << >> \in Seq(Nat)
  BY EmptySeq
<1>2. TypeOK
  <2>1. chunk \in 0 .. Len(pipe)
    BY <1>1
  <2>2. /\ child \in ChildState /\ decoder \in FrameType \cup {"none"}
        /\ flush \in {"idle", "scheduled", "writing"} /\ killStage \in {"none", "term", "kill"}
    BY DEF ChildState
  <2>3. accepted \in Nat /\ queued \in Nat
    OBVIOUS
  <2> QED BY <1>1, <2>1, <2>2, <2>3 DEF TypeOK
<1>3. Line = << >>
  BY <1>1, ConcatEmptySeq DEF Line
<1>4. LineInv
  BY <1>3 DEF LineInv, WellFormed, Aligned, Complete
<1>5. SessionInv /\ QueueInv
  BY DEF SessionInv, QueueInv
<1>6. WaterInv
  <2>1. 0 * Part = 0 /\ MaxChunk * Part \in Nat
    BY BoundsAssumption
  <2> QED BY <2>1, WaterAssumption DEF WaterInv
<1>7. FlowInv
  BY <1>3 DEF FlowInv, InputInOrder, Reached, Front, FrontOf
<1> QED BY <1>2, <1>4, <1>5, <1>6, <1>7 DEF Inv

\* The input side of the subprocess: what a step of the session leaves alone.
LEMMA InputUnchanged ==
  ASSUME Inv, UNCHANGED inputVars, child' \in {child, "gone"}, UNCHANGED chunk
  PROVE  /\ QueueInv' /\ WaterInv' /\ InputInOrder'
         /\ queue' # << >> => Reached(queue[1].from - 1)'
<1>1. /\ queue' = queue /\ queued' = queued /\ flush' = flush /\ stdinPaused' = stdinPaused
      /\ failed' = failed /\ received' = received
  BY DEF inputVars
<1>2. QueueInv'
  BY <1>1 DEF Inv, QueueInv
<1>3. WaterInv'
  BY <1>1 DEF Inv, WaterInv
<1>4. InputInOrder'
  BY <1>1 DEF Inv, FlowInv, InputInOrder
<1>5. queue' # << >> => Reached(queue[1].from - 1)'
  BY <1>1 DEF Inv, FlowInv, Reached
<1> QED BY <1>2, <1>3, <1>4, <1>5

\* A step that sends or flushes.
LEMMA FeedStep ==
  ASSUME Inv, alive, NEW st, Feed(st, decoder), Becomes(st),
         Len(st.pipe) >= Len(pipe), FrontOf(LineOf(st), st.accepted) = Front,
         UNCHANGED <<daemonUp, alive, chunk, decoder, child, killStage, inputVars>>,
         terminating' \in BOOLEAN, disposed' \in BOOLEAN, ready' \in BOOLEAN,
         ready' \/ st.accepted = 0
  PROVE  Inv'
<1>1. /\ stdinQueue' = st.queue /\ pipe' = st.pipe /\ armed' = st.armed
      /\ accepted' = st.accepted
  BY DEF Becomes
<1>2. /\ st.queue \in Seq(Buffer) /\ st.pipe \in Seq(Buffer) /\ st.armed \in BOOLEAN
      /\ st.accepted \in Nat
  BY DEF Feed, State
<1>3. Line' = LineOf(st)
  BY <1>1 DEF Line, LineOf
<1>4. TypeOK'
  <2>1. chunk' \in 0 .. Len(pipe')
    <3>1. Len(pipe) \in Nat /\ Len(st.pipe) \in Nat /\ chunk \in 0 .. Len(pipe)
      BY <1>2, LenProperties DEF Inv, TypeOK
    <3> QED BY <1>1, <3>1
  <2>2. /\ stdinQueue' \in Seq(Buffer) /\ pipe' \in Seq(Buffer) /\ armed' \in BOOLEAN
        /\ accepted' \in Nat
    BY <1>1, <1>2
  <2> QED BY <2>1, <2>2 DEF Inv, TypeOK, inputVars
<1>5. LineInv'
  <2>1. WellFormed(Line') /\ Aligned(Line', decoder) /\ Complete(Line', decoder, st.accepted)
    BY <1>3 DEF Feed
  <2> HIDE DEF Line
  <2>2. WellFormed(Line)' /\ Aligned(Line, decoder)' /\ Complete(Line, decoder, accepted)'
    BY <1>1, <2>1 DEF WellFormed, Aligned, Complete
  <2> QED BY <2>2 DEF LineInv
<1>6. SessionInv'
  BY <1>1 DEF Inv, SessionInv
<1>7. /\ QueueInv' /\ WaterInv' /\ InputInOrder'
      /\ queue' # << >> => Reached(queue[1].from - 1)'
  BY InputUnchanged
<1>8. FlowInv'
  <2>1. Front' = Front
    BY <1>1, <1>3 DEF Front, FrontOf
  <2>2. child = "running" =>
           IF queue # << >> THEN queue[Len(queue)].to = Front ELSE Reached(Front)
    BY DEF Inv, FlowInv, SessionInv
  <2>3. queue' = queue /\ child' = child /\ received' = received /\ failed' = failed
    BY DEF inputVars
  <2> HIDE DEF Front
  <2>4. child' = "running" =>
           IF queue' # << >> THEN (queue[Len(queue)])'.to = Front' ELSE Reached(Front)'
    BY <2>1, <2>2, <2>3 DEF Reached
  <2> QED BY <1>7, <2>4 DEF FlowInv
<1> QED BY <1>4, <1>5, <1>6, <1>7, <1>8 DEF Inv

\* The session's own state is such a state.
LEMMA NowFeed ==
  ASSUME Inv, alive
  PROVE  /\ Feed(Now, decoder) /\ Now.accepted = accepted /\ Now.pipe = pipe
         /\ FrontOf(LineOf(Now), Now.accepted) = Front
         /\ Feed([Now EXCEPT !.armed = FALSE], decoder)
         /\ [Now EXCEPT !.armed = FALSE].pipe = pipe
         /\ LineOf([Now EXCEPT !.armed = FALSE]) = Line
         /\ [Now EXCEPT !.armed = FALSE].accepted = accepted
<1> DEFINE new == [Now EXCEPT !.armed = FALSE]
<1>0. Now \in [queue : Seq(Buffer), pipe : Seq(Buffer), armed : BOOLEAN, accepted : Nat]
      /\ Now.queue = stdinQueue /\ Now.pipe = pipe /\ Now.accepted = accepted
  BY DEF Now, Inv, TypeOK
<1>1. /\ new \in [queue : Seq(Buffer), pipe : Seq(Buffer), armed : BOOLEAN, accepted : Nat]
      /\ new.queue = stdinQueue /\ new.pipe = pipe /\ new.accepted = accepted
  BY <1>0
<1> HIDE DEF new
<1>2. LineOf(Now) = Line /\ LineOf(new) = Line
  BY <1>0, <1>1 DEF LineOf, Line
<1>3. Now \in State /\ new \in State
  BY <1>0, <1>1 DEF State
<1>4. WellFormed(Line) /\ Aligned(Line, decoder) /\ Complete(Line, decoder, accepted)
  BY DEF Inv, LineInv
<1>5. Feed(Now, decoder) /\ Feed(new, decoder)
  BY <1>0, <1>1, <1>2, <1>3, <1>4 DEF Feed
<1>6. FrontOf(LineOf(Now), Now.accepted) = Front
  BY <1>0, <1>2 DEF Front
<1> QED BY <1>0, <1>1, <1>2, <1>5, <1>6 DEF new

LEMMA ReadyInv ==
  ASSUME Inv, Ready
  PROVE  Inv'
<1>1. alive /\ accepted = 0 /\ decoder \in FrameType \cup {"none"}
  BY DEF Ready, Inv, SessionInv, TypeOK
<1>2. Sendable("Spawn", Now.accepted, 0)
  BY <1>1, NowFeed, BoundsAssumption DEF Sendable, FrameType
<1> DEFINE st == Sent(Now, "Spawn", 0)
<1>3. /\ Feed(st, decoder) /\ Len(st.pipe) >= Len(pipe)
      /\ FrontOf(LineOf(st), st.accepted) = Front
  BY <1>1, <1>2, NowFeed, SentFeed
<1>4. /\ Becomes(st) /\ ready' = TRUE
      /\ UNCHANGED <<daemonUp, alive, chunk, decoder, child, killStage, inputVars>>
      /\ terminating' \in BOOLEAN /\ disposed' \in BOOLEAN
  BY DEF Ready, Inv, TypeOK
<1> HIDE DEF st
<1> QED BY <1>1, <1>3, <1>4, FeedStep

LEMMA WriteInv ==
  ASSUME Inv, NEW n \in 1 .. 2 * Part, Write(n)
  PROVE  Inv'
<1>0. alive /\ ready /\ Part \in Nat /\ n \in Nat /\ n > 0 /\ n <= 2 * Part
  BY BoundsAssumption DEF Write
<1> DEFINE one == Sent(Now, "Write", n)
           part == Sent(Now, "Write", Part)
           two == Sent(part, "Write", n - Part)
           st == IF n <= Part THEN one ELSE two
<1>1. /\ Becomes(st) /\ ready' = ready
      /\ UNCHANGED <<daemonUp, alive, chunk, decoder, child, killStage, inputVars>>
      /\ terminating' \in BOOLEAN /\ disposed' \in BOOLEAN
  BY DEF Write, Inv, TypeOK
<1>2. /\ Feed(st, decoder) /\ Len(st.pipe) >= Len(pipe)
      /\ FrontOf(LineOf(st), st.accepted) = Front
  <2>1. CASE n <= Part
    <3>1. Sendable("Write", Now.accepted, n)
      BY <1>0, <2>1 DEF Sendable, FrameType
    <3> QED BY <1>0, <2>1, <3>1, NowFeed, SentFeed
  <2>2. CASE ~(n <= Part)
    <3>1. Sendable("Write", Now.accepted, Part)
      BY <1>0, BoundsAssumption DEF Sendable, FrameType
    <3>2. /\ Feed(part, decoder) /\ Len(part.pipe) >= Len(pipe)
          /\ FrontOf(LineOf(part), part.accepted) = Front
      BY <1>0, <3>1, NowFeed, SentFeed
    <3>3. Sendable("Write", part.accepted, n - Part)
      BY <1>0, <2>2 DEF Sendable, FrameType
    <3> HIDE DEF part
    <3>4. /\ Feed(two, decoder) /\ Len(two.pipe) >= Len(part.pipe)
          /\ FrontOf(LineOf(two), two.accepted) = FrontOf(LineOf(part), part.accepted)
      BY <3>2, <3>3, SentFeed
    <3>5. Len(pipe) \in Nat /\ Len(part.pipe) \in Nat /\ Len(two.pipe) \in Nat
      BY <3>2, <3>4, LenProperties DEF Inv, TypeOK, Feed, State
    <3>6. st = two
      BY <2>2
    <3> HIDE DEF two, st
    <3> QED BY <3>2, <3>4, <3>5, <3>6
  <2> QED BY <2>1, <2>2
<1> HIDE DEF st
<1> QED BY <1>0, <1>1, <1>2, FeedStep DEF Inv, TypeOK

LEMMA DrainInv ==
  ASSUME Inv, Drain
  PROVE  Inv'
<1> DEFINE old == [Now EXCEPT !.armed = FALSE]
           st == Flushed(old)
<1>0. alive /\ Becomes(st) /\ UNCHANGED <<daemonUp, alive, chunk, decoder, child, killStage, inputVars>>
      /\ ready' = ready /\ terminating' \in BOOLEAN /\ disposed' \in BOOLEAN
  BY DEF Drain, Drained, Inv, TypeOK
<1>1. Feed(old, decoder) /\ old.pipe = pipe /\ LineOf(old) = Line /\ old.accepted = accepted
  BY <1>0, NowFeed
<1> HIDE DEF old
<1>2. /\ st \in State /\ LineOf(st) = Line /\ st.accepted = accepted
      /\ Len(st.pipe) >= Len(pipe)
  BY <1>1, FlushedLine DEF Feed
<1> HIDE DEF st
<1>3. Feed(st, decoder)
  BY <1>1, <1>2 DEF Feed
<1>4. FrontOf(LineOf(st), st.accepted) = Front
  BY <1>2 DEF Front
<1>5. ready' \in BOOLEAN /\ (ready' \/ st.accepted = 0)
  BY <1>0, <1>2 DEF Inv, TypeOK, SessionInv
<1> QED BY <1>0, <1>2, <1>3, <1>4, <1>5, FeedStep

\* A kill before the subprocess is ready ends it from outside.
LEMMA KillInv ==
  ASSUME Inv, Kill
  PROVE  Inv'
<1>0. alive /\ terminating' = TRUE
      /\ UNCHANGED <<daemonUp, alive, ready, disposed, decoder, killStage, inputVars>>
  BY DEF Kill
<1>1. CASE ready
  <2> DEFINE st == Sent(Now, "Kill", 0)
  <2>1. Sendable("Kill", Now.accepted, 0)
    BY BoundsAssumption DEF Sendable, FrameType
  <2>2. /\ Feed(st, decoder) /\ Len(st.pipe) >= Len(pipe)
        /\ FrontOf(LineOf(st), st.accepted) = Front
    BY <1>0, <2>1, NowFeed, SentFeed
  <2>3. Becomes(st) /\ UNCHANGED <<child, chunk>>
    BY <1>1 DEF Kill
  <2> HIDE DEF st
  <2> QED BY <1>0, <1>1, <2>2, <2>3, FeedStep DEF Inv, TypeOK
<1>2. CASE ~ready
  <2>1. child' = "gone" /\ UNCHANGED <<stdinQueue, pipe, armed, accepted, chunk>>
    BY <1>2 DEF Kill
  <2>2. TypeOK'
    BY <1>0, <2>1 DEF Inv, TypeOK, inputVars, ChildState
  <2>3. Line' = Line
    BY <2>1 DEF Line
  <2>4. LineInv'
    BY <1>0, <2>1, <2>3 DEF Inv, LineInv, WellFormed, Aligned, Complete
  <2>5. SessionInv'
    BY <1>0, <2>1 DEF Inv, SessionInv
  <2>6. /\ QueueInv' /\ WaterInv' /\ InputInOrder'
        /\ queue' # << >> => Reached(queue[1].from - 1)'
    BY <1>0, <2>1, InputUnchanged
  <2>7. FlowInv'
    BY <2>1, <2>6 DEF FlowInv
  <2> QED BY <2>2, <2>4, <2>5, <2>6, <2>7 DEF Inv
<1> QED BY <1>1, <1>2

\* The session gives up its subprocess: what it had not written is lost, and of
\* the pipe no more than its end.
LEMMA ResetInv ==
  ASSUME Inv, Reset, NEW m \in chunk .. Len(pipe), pipe' = SubSeq(pipe, 1, m),
         daemonUp' \in BOOLEAN, daemonUp' => child' = "gone",
         child' \in {child, "gone"}, disposed' \in BOOLEAN,
         UNCHANGED <<terminating, accepted, chunk, decoder, killStage, inputVars>>
  PROVE  Inv'
<1>0. /\ pipe \in Seq(Buffer) /\ stdinQueue \in Seq(Buffer) /\ chunk \in 0 .. Len(pipe)
      /\ Len(pipe) \in Nat /\ child \in ChildState
  BY LenProperties DEF Inv, TypeOK
<1>1. m \in 0 .. Len(pipe) /\ chunk <= m
  BY <1>0
<1>2. alive' = FALSE /\ ready' = FALSE /\ stdinQueue' = << >> /\ armed' = FALSE
  BY DEF Reset
<1>3. /\ SubSeq(pipe, 1, m) \o << >> = SubSeq(Line, 1, m)
      /\ pipe' \in Seq(Buffer) /\ Len(pipe') = m
      /\ Line \in Seq(Buffer) /\ m \in 0 .. Len(Line)
  BY <1>0, <1>1, PrefixConcat DEF Line
<1>4. Line' = SubSeq(Line, 1, m)
  BY <1>2, <1>3 DEF Line
<1>5. /\ WellFormed(Line') /\ (Line' # << >> => Line # << >> /\ Line'[1] = Line[1])
  BY <1>3, <1>4, PrefixWellFormed DEF Inv, LineInv
<1>6. TypeOK'
  <2>1. chunk' \in 0 .. Len(pipe')
    BY <1>0, <1>1, <1>3
  <2>2. stdinQueue' \in Seq(Buffer)
    BY <1>2, EmptySeq
  <2>3. child' \in ChildState
    BY <1>0 DEF ChildState
  <2>4. /\ alive' \in BOOLEAN /\ ready' \in BOOLEAN /\ armed' \in BOOLEAN
    BY <1>2
  <2> QED BY <1>3, <2>1, <2>2, <2>3, <2>4 DEF Inv, TypeOK, inputVars
<1>7. LineInv'
  <2>1. Aligned(Line, decoder)
    BY DEF Inv, LineInv
  <2>2. Aligned(Line', decoder)
    BY <1>5, <2>1 DEF Aligned
  <2>3. WellFormed(Line)' /\ Aligned(Line, decoder)'
    BY <1>5, <2>2 DEF WellFormed, Aligned
  <2> QED BY <1>2, <2>3 DEF LineInv
<1>8. SessionInv'
  BY <1>2 DEF SessionInv
<1>9. /\ QueueInv' /\ WaterInv' /\ InputInOrder'
      /\ queue' # << >> => Reached(queue[1].from - 1)'
  BY InputUnchanged
<1>10. FlowInv'
  <2>1. ASSUME child' = "running", Line' # << >> \/ daemonUp'
        PROVE  IF queue' # << >> THEN (queue[Len(queue)])'.to = Front' ELSE Reached(Front)'
    <3>1. Line' # << >> /\ child = "running"
      BY <2>1
    <3>2. Front' = Front
      BY <1>5, <3>1 DEF Front, FrontOf
    <3>3. IF queue # << >> THEN queue[Len(queue)].to = Front ELSE Reached(Front)
      BY <1>5, <3>1 DEF Inv, FlowInv
    <3>4. queue' = queue /\ received' = received /\ failed' = failed
      BY DEF inputVars
    <3> HIDE DEF Front
    <3> QED BY <3>2, <3>3, <3>4 DEF Reached
  <2> QED BY <1>9, <2>1 DEF FlowInv
<1> QED BY <1>6, <1>7, <1>8, <1>9, <1>10 DEF Inv

LEMMA EndsInv ==
  ASSUME Inv, Dispose \/ SessionExit \/ DaemonDies
  PROVE  Inv'
<1>0. pipe \in Seq(Buffer) /\ Len(pipe) \in Nat /\ chunk \in 0 .. Len(pipe)
      /\ daemonUp \in BOOLEAN /\ disposed \in BOOLEAN
  BY LenProperties DEF Inv, TypeOK
<1>1. SubSeq(pipe, 1, Len(pipe)) = pipe /\ Len(pipe) \in chunk .. Len(pipe)
  BY <1>0, SubSeqFull
<1>2. CASE Dispose
  <2>1. /\ Reset /\ pipe' = pipe /\ daemonUp' = daemonUp /\ disposed' \in BOOLEAN
        /\ UNCHANGED <<terminating, accepted, chunk, decoder, killStage, inputVars>>
    BY <1>2 DEF Dispose
  <2>2. child' = "gone" /\ daemonUp
    BY <1>2 DEF Dispose, Inv, SessionInv
  <2> QED BY <1>0, <1>1, <2>1, <2>2, ResetInv
<1>3. CASE SessionExit
  <2>1. /\ Reset /\ pipe' = pipe /\ daemonUp' = daemonUp /\ disposed' = disposed
        /\ UNCHANGED <<terminating, accepted, chunk, decoder, killStage, inputVars>>
        /\ child' = child /\ child = "gone"
    BY <1>3 DEF SessionExit
  <2> QED BY <1>0, <1>1, <2>1, ResetInv
<1>4. CASE DaemonDies
  <2>1. PICK m \in chunk .. Len(pipe) : pipe' = SubSeq(pipe, 1, m)
    BY <1>4 DEF DaemonDies
  <2>2. /\ Reset /\ daemonUp' = FALSE /\ disposed' = disposed
        /\ UNCHANGED <<terminating, accepted, chunk, decoder, child, killStage, inputVars>>
    BY <1>4 DEF DaemonDies
  <2> QED BY <1>0, <2>1, <2>2, ResetInv
<1> QED BY <1>2, <1>3, <1>4

-----------------------------------------------------------------------------
(* The invariant: the subprocess reads *)

\* While the subprocess is there, so is its session, unless the daemon has ended.
LEMMA LineUnchanged ==
  ASSUME Inv, child # "gone", UNCHANGED <<daemonUp, sessionVars, pipe, decoder>>
  PROVE  LineInv' /\ SessionInv' /\ Line' = Line /\ Front' = Front
<1>0. /\ alive' = alive /\ ready' = ready /\ accepted' = accepted /\ daemonUp' = daemonUp
      /\ stdinQueue' = stdinQueue /\ pipe' = pipe /\ decoder' = decoder
  BY DEF sessionVars
<1>1. Line' = Line
  BY <1>0 DEF Line
<1>2. Front' = Front
  BY <1>0, <1>1 DEF Front, FrontOf
<1>3. LineInv'
  BY <1>0, <1>1 DEF Inv, LineInv, WellFormed, Aligned, Complete
<1>4. SessionInv'
  BY <1>0 DEF Inv, SessionInv
<1> QED BY <1>1, <1>2, <1>3, <1>4

LEMMA ReadChunkInv ==
  ASSUME Inv, ReadChunk
  PROVE  Inv'
<1>0. /\ child # "gone" /\ chunk = 0 /\ ~stdinPaused
      /\ UNCHANGED <<daemonUp, sessionVars, pipe, decoder, child, killStage, inputVars>>
  BY DEF ReadChunk, Runs
<1>1. PICK n \in 1 .. MaxChunk : n <= Len(pipe) /\ chunk' = n
  BY DEF ReadChunk
<1>2. /\ queue' = queue /\ queued' = queued /\ flush' = flush /\ stdinPaused' = stdinPaused
      /\ failed' = failed /\ received' = received /\ child' = child /\ pipe' = pipe
      /\ daemonUp' = daemonUp
  BY <1>0 DEF inputVars
<1>3. TypeOK'
  <2>1. chunk' \in 0 .. Len(pipe')
    BY <1>1, <1>2, LenProperties, BoundsAssumption DEF Inv, TypeOK
  <2> QED BY <1>0, <1>2, <2>1 DEF Inv, TypeOK, sessionVars
<1>4. LineInv' /\ SessionInv' /\ Line' = Line /\ Front' = Front
  BY <1>0, LineUnchanged
<1>5. QueueInv'
  BY <1>2 DEF Inv, QueueInv
<1>6. WaterInv'
  <2>1. queued < HighWater /\ queued \in Nat
    BY <1>0 DEF Inv, WaterInv, TypeOK
  <2>2. n * Part <= MaxChunk * Part /\ n * Part \in Nat /\ MaxChunk * Part \in Nat
    <3>1. n \in Nat /\ MaxChunk \in Nat /\ n <= MaxChunk /\ Part \in Nat
      BY BoundsAssumption
    <3>2. MaxChunk * Part = n * Part + (MaxChunk - n) * Part /\ (MaxChunk - n) * Part \in Nat
      BY <3>1
    <3> QED BY <3>1, <3>2
  <2>3. queued + n * Part <= HighWater + MaxChunk * Part
    BY <2>1, <2>2, WaterAssumption
  <2> QED BY <1>0, <1>1, <1>2, <2>1, <2>3 DEF WaterInv
<1>7. FlowInv'
  BY <1>2, <1>4 DEF Inv, FlowInv, InputInOrder, Reached
<1> QED BY <1>3, <1>4, <1>5, <1>6, <1>7 DEF Inv

\* A buffer leaves the line.
LEMMA TakeLine ==
  ASSUME Inv, TakeBuffer, UNCHANGED <<daemonUp, sessionVars>>
  PROVE  /\ pipe' \in Seq(Buffer) /\ chunk' \in 0 .. Len(pipe')
         /\ Head(pipe) \in Buffer /\ Sound(Head(pipe))
         /\ WellFormed(Line)' /\ SessionInv
         /\ Line # << >> /\ Line[1] = Head(pipe) /\ Front = Head(pipe).from - 1
         /\ Line' # << >> => Follows(Head(pipe), Line'[1])
         /\ alive => IF Line' = << >>
                     THEN Head(pipe).part = "payload" /\ Head(pipe).to = accepted
                     ELSE Complete(Line, "none", accepted)'
         /\ Line' # << >> \/ daemonUp => Front' = Head(pipe).to
<1>0. /\ pipe \in Seq(Buffer) /\ stdinQueue \in Seq(Buffer) /\ chunk \in 0 .. Len(pipe)
      /\ chunk > 0 /\ child # "gone" /\ Len(pipe) \in Nat
      /\ pipe' = Tail(pipe) /\ chunk' = chunk - 1
      /\ stdinQueue' = stdinQueue /\ accepted' = accepted /\ alive' = alive
      /\ daemonUp' = daemonUp
  BY LenProperties DEF Inv, TypeOK, TakeBuffer, sessionVars
<1>1. pipe # << >>
  BY <1>0, EmptySeq
<1>2. pipe' \in Seq(Buffer) /\ chunk' \in 0 .. Len(pipe')
  BY <1>0, <1>1, HeadTailProperties
<1>3. /\ Line' = Tail(Line) /\ Line \in Seq(Buffer) /\ Line # << >> /\ Line[1] = Head(pipe)
  BY <1>0, <1>1, TailConcat DEF Line
<1>4. WellFormed(Line)
  BY DEF Inv, LineInv
<1> DEFINE l == Line
           t == Tail(Line)
<1>5. /\ t \in Seq(Buffer) /\ Len(t) = Len(l) - 1
      /\ WellFormed(t) /\ Sound(l[1]) /\ l[1] \in Buffer
      /\ t # << >> => /\ t[1] = l[2] /\ Follows(l[1], l[2])
                     /\ t[Len(t)] = l[Len(l)]
      /\ t = << >> => l[Len(l)] = l[1]
  BY <1>3, <1>4, TailWellFormed
<1>6. alive => l[Len(l)].part = "payload" /\ l[Len(l)].to = accepted
  BY <1>3 DEF Inv, LineInv, Complete
<1>7. daemonUp => alive
  BY <1>0 DEF Inv, SessionInv
<1>8. Front = Head(pipe).from - 1
  BY <1>3 DEF Front, FrontOf
<1>9. Head(pipe) \in Buffer /\ Sound(Head(pipe))
  BY <1>3, <1>5
<1> HIDE DEF l, t
<1>10. Line' = t /\ l[1] = Head(pipe)
  BY <1>3 DEF t, l
<1>11. WellFormed(Line)'
  BY <1>5, <1>10 DEF WellFormed
<1>12. Line' # << >> => Follows(Head(pipe), Line'[1])
  BY <1>5, <1>10
<1>13. alive => IF Line' = << >>
                THEN Head(pipe).part = "payload" /\ Head(pipe).to = accepted
                ELSE Complete(Line, "none", accepted)'
  BY <1>0, <1>5, <1>6, <1>10 DEF Complete
<1>14. Line' # << >> \/ daemonUp => Front' = Head(pipe).to
  <2>1. CASE Line' # << >>
    <3>1. Line'[1].from = Head(pipe).to + 1
      BY <1>12, <2>1 DEF Follows
    <3>2. Front' = Line'[1].from - 1
      BY <2>1 DEF Front, FrontOf
    <3>3. Head(pipe).to \in Nat
      BY <1>9 DEF Buffer
    <3> QED BY <3>1, <3>2, <3>3
  <2>2. CASE Line' = << >> /\ daemonUp
    BY <1>0, <1>7, <1>13, <2>2 DEF Front, FrontOf
  <2> QED BY <2>1, <2>2
<1> QED BY <1>2, <1>3, <1>8, <1>9, <1>11, <1>12, <1>13, <1>14 DEF Inv

\* The decoder waits for the payload after a header, and for a header after a
\* payload.
LEMMA DecoderStep ==
  ASSUME Inv, TakeBuffer, UNCHANGED <<daemonUp, sessionVars>>,
         \/ decoder = "none" /\ decoder' = Head(pipe).type
         \/ decoder # "none" /\ decoder' = "none"
  PROVE  /\ LineInv' /\ SessionInv' /\ decoder' \in FrameType \cup {"none"}
         /\ decoder = "none" => Head(pipe).part = "header"
         /\ decoder # "none" => Head(pipe).part = "payload" /\ Head(pipe).type = decoder
<1> DEFINE b == Head(pipe)
<1>0. /\ alive' = alive /\ daemonUp' = daemonUp /\ ready' = ready /\ accepted' = accepted
      /\ child # "gone"
  BY DEF sessionVars, TakeBuffer
<1>1. /\ b \in Buffer /\ WellFormed(Line)' /\ SessionInv
      /\ Line # << >> /\ Line[1] = b
      /\ Line' # << >> => Follows(b, Line'[1])
      /\ alive => IF Line' = << >> THEN b.part = "payload" /\ b.to = accepted
                 ELSE Complete(Line, "none", accepted)'
  BY TakeLine
<1> HIDE DEF b
<1>2. Aligned(Line, decoder)
  BY DEF Inv, LineInv
<1>3. b.type \in FrameType /\ "none" \notin FrameType
  BY <1>1 DEF Buffer, FrameType
<1>4. /\ decoder = "none" => b.part = "header"
      /\ decoder # "none" => b.part = "payload" /\ b.type = decoder
  BY <1>1, <1>2 DEF Aligned
<1>5. Aligned(Line, decoder)'
  BY <1>1, <1>3, <1>4 DEF Aligned, Follows, b
<1>6. alive => Complete(Line, decoder, accepted)'
  <2>1. ASSUME alive, Line' = << >>
        PROVE  decoder' = "none"
    <3>1. b.part = "payload"
      BY <1>1, <2>1
    <3> QED BY <1>4, <3>1
  <2> QED BY <1>1, <2>1 DEF Complete
<1>7. SessionInv'
  BY <1>0, <1>1 DEF SessionInv
<1>8. LineInv'
  BY <1>0, <1>1, <1>5, <1>6 DEF LineInv
<1> QED BY <1>3, <1>4, <1>7, <1>8 DEF b

\* A frame that brings no input.
LEMMA NoInputStep ==
  ASSUME Inv, TakeBuffer, UNCHANGED <<daemonUp, sessionVars, inputVars>>,
         \/ decoder = "none" /\ decoder' = Head(pipe).type
         \/ decoder # "none" /\ decoder # "Write" /\ decoder' = "none",
         \/ child' = child
         \/ child = "boot" /\ decoder = "Spawn" /\ child' \in {"running", "unspawned"},
         killStage' \in {"none", "term", "kill"}
  PROVE  Inv'
<1> DEFINE b == Head(pipe)
<1>0. /\ queue' = queue /\ queued' = queued /\ flush' = flush /\ stdinPaused' = stdinPaused
      /\ failed' = failed /\ received' = received /\ chunk' = chunk - 1 /\ chunk > 0
      /\ daemonUp' = daemonUp
  BY DEF inputVars, TakeBuffer
<1>1. /\ pipe' \in Seq(Buffer) /\ chunk' \in 0 .. Len(pipe')
      /\ b \in Buffer /\ Sound(b) /\ Line # << >> /\ Front = b.from - 1
      /\ Line' # << >> \/ daemonUp => Front' = b.to
  BY TakeLine
<1>2. /\ LineInv' /\ SessionInv' /\ decoder' \in FrameType \cup {"none"}
      /\ decoder = "none" => b.part = "header"
      /\ decoder # "none" => b.part = "payload" /\ b.type = decoder
  BY DecoderStep
<1> HIDE DEF b
<1>3. b.to = b.from - 1 /\ (decoder = "Spawn" => b.to = 0)
  <2>1. b.to \in Nat /\ b.from \in Nat
    BY <1>1 DEF Buffer
  <2>2. b.part = "header" \/ b.type # "Write"
    BY <1>2
  <2>3. b.to + 1 = b.from /\ (b.type = "Spawn" => b.to = 0)
    BY <1>1, <2>2 DEF Sound
  <2>4. decoder = "Spawn" => b.type = "Spawn"
    BY <1>2
  <2> QED BY <2>1, <2>3, <2>4
<1>4. child' \in ChildState
  BY DEF Inv, TypeOK, ChildState
<1>5. TypeOK'
  BY <1>0, <1>1, <1>2, <1>4 DEF Inv, TypeOK, sessionVars
<1>6. QueueInv'
  BY <1>0 DEF Inv, QueueInv
<1>7. WaterInv'
  <2>1. chunk \in Nat /\ Part \in Nat /\ MaxChunk * Part \in Nat
    BY BoundsAssumption DEF Inv, TypeOK
  <2>2. (chunk - 1) * Part = chunk * Part - Part
    BY <2>1
  <2>3. queued \in Nat /\ chunk * Part \in Nat /\ HighWater \in Nat
    BY <2>1, WaterAssumption DEF Inv, TypeOK
  <2> QED BY <1>0, <2>1, <2>2, <2>3 DEF Inv, WaterInv
<1>8. InputInOrder' /\ (queue' # << >> => Reached(queue[1].from - 1)')
  BY <1>0 DEF Inv, FlowInv, InputInOrder, Reached
<1>9. ASSUME child' = "running", Line' # << >> \/ daemonUp'
      PROVE  IF queue' # << >> THEN (queue[Len(queue)])'.to = Front' ELSE Reached(Front)'
  <2>1. Front' = b.to
    BY <1>0, <1>1, <1>9
  <2>2. CASE child = "running"
    <3>1. Front' = Front
      BY <1>1, <1>3, <2>1
    <3>2. IF queue # << >> THEN queue[Len(queue)].to = Front ELSE Reached(Front)
      BY <1>1, <2>2 DEF Inv, FlowInv
    <3> HIDE DEF Front
    <3> QED BY <1>0, <3>1, <3>2 DEF Reached
  <2>3. CASE child # "running"
    <3>1. child = "boot" /\ decoder = "Spawn"
      BY <1>9, <2>3
    <3>2. queue = << >> /\ received = << >> /\ Front' = 0
      BY <1>3, <2>1, <3>1 DEF Inv, QueueInv
    <3>3. Len(received') = 0 /\ queue' = << >>
      BY <1>0, <3>2
    <3>4. Reached(Front)'
      BY <3>2, <3>3 DEF Reached
    <3> QED BY <3>3, <3>4
  <2> QED BY <2>2, <2>3
<1>10. FlowInv'
  BY <1>8, <1>9 DEF FlowInv
<1> QED BY <1>2, <1>5, <1>6, <1>7, <1>10 DEF Inv

\* The payload of a Write is queued, since the hard limit is out of reach, or
\* dropped because there is no PTY, which then never comes.
LEMMA TakeWriteInv ==
  ASSUME Inv, TakeWrite
  PROVE  Inv'
<1> DEFINE b == Head(pipe)
           new == [from |-> b.from, to |-> b.to]
           n == queued + (b.to - b.from + 1)
<1>0. /\ TakeBuffer /\ decoder = "Write" /\ decoder' = "none"
      /\ UNCHANGED <<daemonUp, sessionVars, child, killStage>>
      /\ chunk' = chunk - 1 /\ chunk > 0 /\ daemonUp' = daemonUp /\ child' = child
  BY DEF TakeWrite, TakePayload, TakeBuffer
<1>1. /\ pipe' \in Seq(Buffer) /\ chunk' \in 0 .. Len(pipe')
      /\ b \in Buffer /\ Sound(b) /\ Line # << >> /\ Front = b.from - 1
      /\ Line' # << >> \/ daemonUp => Front' = b.to
  BY <1>0, TakeLine
<1>2. /\ LineInv' /\ SessionInv' /\ decoder' \in FrameType \cup {"none"}
      /\ b.part = "payload" /\ b.type = "Write"
  BY <1>0, DecoderStep
<1>3. /\ b.from \in Nat /\ b.to \in Nat /\ b.from <= b.to /\ b.to - b.from < Part
  BY <1>1, <1>2 DEF Buffer, Sound
<1>4. /\ queue \in Seq(Interval) /\ queued \in Nat /\ Len(queue) \in Nat
      /\ chunk \in Nat /\ Part \in Nat /\ MaxChunk * Part \in Nat /\ chunk * Part \in Nat
      /\ HighWater \in Nat /\ HardLimit \in Nat /\ stdinPaused \in BOOLEAN
  BY LenProperties, BoundsAssumption, WaterAssumption DEF Inv, TypeOK
<1>5. /\ (chunk - 1) * Part = chunk * Part - Part
      /\ (chunk - 1) * Part \in Nat
      /\ queued + chunk * Part <= HighWater + MaxChunk * Part
  BY <1>0, <1>4 DEF Inv, WaterInv
<1>6. n \in Nat /\ n <= queued + Part /\ n <= HardLimit
  <2>1. n \in Nat /\ n <= queued + Part
    BY <1>3, <1>4
  <2>2. queued + Part <= queued + chunk * Part
    BY <1>4, <1>5
  <2>3. HighWater + MaxChunk * Part <= HardLimit
    BY WaterAssumption
  <2> HIDE DEF n
  <2> QED BY <1>4, <1>5, <2>1, <2>2, <2>3
<1>7. CASE child # "running"
  <2>1. UNCHANGED inputVars
    BY <1>7 DEF TakeWrite
  <2>2. /\ queue' = queue /\ queued' = queued /\ flush' = flush /\ stdinPaused' = stdinPaused
        /\ failed' = failed /\ received' = received
    BY <2>1 DEF inputVars
  <2>3. TypeOK'
    BY <1>0, <1>1, <1>2, <2>2 DEF Inv, TypeOK, sessionVars
  <2>4. QueueInv'
    BY <1>0, <2>2 DEF Inv, QueueInv
  <2>5. WaterInv'
    BY <1>0, <1>4, <1>5, <2>2 DEF Inv, WaterInv
  <2>6. FlowInv'
    BY <1>0, <1>7, <2>2 DEF Inv, FlowInv, InputInOrder, Reached
  <2> QED BY <1>2, <2>3, <2>4, <2>5, <2>6 DEF Inv
<1>8. CASE child = "running"
  <2>1. /\ queue' = Append(queue, new) /\ queued' = n /\ stdinPaused' = PausedAt(n)
        /\ flush' = IF flush = "idle" THEN "scheduled" ELSE flush
        /\ failed' = failed /\ received' = received
    <3>1. ~(child # "running" \/ n > HardLimit)
      BY <1>4, <1>6, <1>8
    <3> QED BY <3>1 DEF TakeWrite
  <2>2. new \in Interval /\ new.from = b.from /\ new.to = b.to
    BY <1>3 DEF Interval
  <2> DEFINE q == queue'
  <2> HIDE DEF new, n, b
  <2>3. /\ q \in Seq(Interval) /\ q # << >> /\ Len(q) = Len(queue) + 1
        /\ \A i \in 1 .. Len(queue) : q[i] = queue[i]
        /\ q[Len(queue) + 1] = new
    BY <1>4, <2>1, <2>2, AppendProperties
  <2>4. queue = << >> <=> Len(queue) = 0
    BY <1>4, EmptySeq
  <2>5. IF queue # << >> THEN queue[Len(queue)].to = b.from - 1 ELSE Reached(b.from - 1)
    BY <1>1, <1>8 DEF Inv, FlowInv
  <2>6. TypeOK'
    <3>1. flush' \in {"idle", "scheduled", "writing"}
      BY <2>1 DEF Inv, TypeOK
    <3>2. stdinPaused' \in BOOLEAN
      BY <2>1, <1>4 DEF PausedAt
    <3>3. queued' \in Nat
      BY <1>6, <2>1 DEF n
    <3> QED BY <1>0, <1>1, <1>2, <2>1, <2>3, <3>1, <3>2, <3>3 DEF Inv, TypeOK, sessionVars
  <2>7. QueueInv'
    <3>1. \A i \in 1 .. Len(q) : q[i].from <= q[i].to
      <4>1. ASSUME NEW i \in 1 .. Len(q)
            PROVE  q[i].from <= q[i].to
        <5>1. i \in 1 .. Len(queue) \/ i = Len(queue) + 1
          BY <1>4, <2>3
        <5>2. \A j \in 1 .. Len(queue) : queue[j].from <= queue[j].to
          BY DEF Inv, QueueInv
        <5> QED BY <1>3, <2>2, <2>3, <5>1, <5>2
      <4> QED BY <4>1
    <3>2. \A i \in 1 .. Len(q) - 1 : q[i + 1].from = q[i].to + 1
      <4>1. ASSUME NEW i \in 1 .. Len(q) - 1
            PROVE  q[i + 1].from = q[i].to + 1
        <5>1. CASE i \in 1 .. Len(queue) - 1
          <6>1. i \in 1 .. Len(queue) /\ i + 1 \in 1 .. Len(queue)
            BY <1>4, <5>1
          <6>2. queue[i + 1].from = queue[i].to + 1
            BY <5>1 DEF Inv, QueueInv
          <6> QED BY <2>3, <6>1, <6>2
        <5>2. CASE i = Len(queue)
          <6>1. queue # << >> /\ i \in 1 .. Len(queue)
            BY <1>4, <2>4, <5>2
          <6>2. q[i] = queue[Len(queue)] /\ q[i + 1] = new
            BY <2>3, <5>2, <6>1
          <6>3. queue[Len(queue)].to = b.from - 1
            BY <2>5, <6>1
          <6> QED BY <1>3, <2>2, <6>2, <6>3
        <5> QED BY <1>4, <2>3, <5>1, <5>2
      <4> QED BY <4>1
    <3>3. queued' = q[Len(q)].to - q[1].from + 1
      <4>1. q[Len(q)].to = b.to
        BY <2>2, <2>3
      <4>2. CASE queue = << >>
        <5>1. queued = 0 /\ q[1].from = b.from
          BY <2>2, <2>3, <2>4, <4>2 DEF Inv, QueueInv
        <5> QED BY <1>3, <2>1, <4>1, <5>1 DEF n
      <4>3. CASE queue # << >>
        <5>1. queued = queue[Len(queue)].to - queue[1].from + 1
          BY <4>3 DEF Inv, QueueInv
        <5>2. q[1] = queue[1] /\ queue[1] \in Interval
          BY <1>4, <2>3, <2>4, <4>3, ElementOfSeq
        <5>3. queue[1].from \in Nat
          BY <5>2 DEF Interval
        <5>4. queue[Len(queue)].to = b.from - 1
          BY <2>5, <4>3
        <5>5. q[Len(q)].to = b.to /\ q[1].from = queue[1].from
          BY <4>1, <5>2
        <5>6. queued' = queued + (b.to - b.from + 1)
          BY <2>1 DEF n
        <5> QED BY <1>3, <5>1, <5>3, <5>4, <5>5, <5>6
      <4> QED BY <4>2, <4>3
    <3>4. child' # "boot"
      BY <1>0, <1>8
    <3>5. ASSUME NEW i \in 1 .. Len(q)
          PROVE  q[i].to <= q[Len(q)].to
      <4>1. CASE i = Len(queue) + 1
        BY <1>3, <2>2, <2>3, <4>1
      <4>2. CASE i \in 1 .. Len(queue)
        <5>1. queue # << >> /\ q[i] = queue[i] /\ q[Len(q)].to = b.to
          BY <1>4, <2>2, <2>3, <2>4, <4>2
        <5>2. queue[i].to <= queue[Len(queue)].to
          BY <4>2 DEF Inv, QueueInv
        <5>3. queue[Len(queue)].to = b.from - 1
          BY <2>5, <5>1
        <5>4. queue[i] \in Interval
          BY <1>4, <4>2, ElementOfSeq
        <5>5. queue[i].to \in Nat
          BY <5>4 DEF Interval
        <5> QED BY <1>3, <5>1, <5>2, <5>3, <5>5
      <4> QED BY <1>4, <2>3, <4>1, <4>2
    <3> QED BY <2>3, <3>1, <3>2, <3>3, <3>4, <3>5 DEF QueueInv
  <2>8. WaterInv'
    <3>1. ~stdinPaused' => queued' < HighWater
      <4>1. CASE n >= HighWater
        BY <2>1, <4>1 DEF PausedAt
      <4>2. CASE ~(n >= HighWater)
        <5>1. n < HighWater
          BY <1>4, <1>6, <4>2
        <5> QED BY <2>1, <5>1
      <4> QED BY <4>1, <4>2
    <3>2. queued' + chunk' * Part <= HighWater + MaxChunk * Part
      BY <1>0, <1>4, <1>5, <1>6, <2>1 DEF n
    <3> QED BY <3>1, <3>2 DEF WaterInv
  <2>9. FlowInv'
    <3>1. InputInOrder'
      BY <2>1 DEF Inv, FlowInv, InputInOrder
    <3>2. Reached(queue[1].from - 1)'
      <4>1. CASE queue = << >>
        <5>1. q[1].from = b.from /\ Reached(b.from - 1)
          BY <2>2, <2>3, <2>4, <2>5, <4>1
        <5> QED BY <2>1, <5>1 DEF Reached
      <4>2. CASE queue # << >>
        <5>1. q[1] = queue[1] /\ Reached(queue[1].from - 1)
          BY <1>4, <2>3, <2>4, <4>2 DEF Inv, FlowInv
        <5> QED BY <2>1, <5>1 DEF Reached
      <4> QED BY <4>1, <4>2
    <3>3. Line' # << >> \/ daemonUp' => (queue[Len(queue)])'.to = Front'
      BY <1>0, <1>1, <2>2, <2>3
    <3> QED BY <2>3, <3>1, <3>2, <3>3 DEF FlowInv
  <2> QED BY <1>2, <2>6, <2>7, <2>8, <2>9 DEF Inv
<1> QED BY <1>7, <1>8

LEMMA TakeInv ==
  ASSUME Inv, TakeHeader \/ TakeSpawn \/ TakeWrite \/ TakeKill
  PROVE  Inv'
<1>1. CASE TakeHeader
  <2>1. UNCHANGED <<daemonUp, sessionVars, inputVars>> /\ TakeBuffer /\ child' = child
        /\ decoder = "none" /\ decoder' = Head(pipe).type /\ killStage' = killStage
    BY <1>1 DEF TakeHeader
  <2>2. killStage' \in {"none", "term", "kill"}
    BY <2>1 DEF Inv, TypeOK
  <2> QED BY <2>1, <2>2, NoInputStep
<1>2. CASE TakeSpawn
  <2>1. UNCHANGED <<daemonUp, sessionVars, inputVars>> /\ TakeBuffer
        /\ decoder = "Spawn" /\ decoder' = "none" /\ killStage' = killStage
    BY <1>2 DEF TakeSpawn, TakePayload
  <2>2. \/ child' = child
        \/ child = "boot" /\ child' \in {"running", "unspawned"}
    <3>1. CASE child = "boot"
      BY <1>2, <3>1 DEF TakeSpawn
    <3>2. CASE child # "boot"
      BY <1>2, <3>2 DEF TakeSpawn
    <3> QED BY <3>1, <3>2
  <2>3. killStage' \in {"none", "term", "kill"}
    BY <2>1 DEF Inv, TypeOK
  <2> QED BY <2>1, <2>2, <2>3, NoInputStep
<1>3. CASE TakeKill
  <2>1. UNCHANGED <<daemonUp, sessionVars, inputVars>> /\ TakeBuffer /\ child' = child
        /\ decoder = "Kill" /\ decoder' = "none"
    BY <1>3 DEF TakeKill, TakePayload
  <2>2. killStage' \in {"none", "term", "kill"}
    BY <1>3 DEF TakeKill, Inv, TypeOK
  <2> QED BY <2>1, <2>2, NoInputStep
<1> QED BY <1>1, <1>2, <1>3, TakeWriteInv

-----------------------------------------------------------------------------
(* The invariant: the subprocess writes *)

\* What a write of n units leaves of the queue.
LEMMA RestQueue ==
  ASSUME Inv, queue # << >>, NEW n \in 1 .. queue[1].to - queue[1].from + 1
  PROVE  /\ Rest(n) \in Seq(Interval) /\ queued - n \in Nat
         /\ \A i \in 1 .. Len(Rest(n)) : Rest(n)[i].from <= Rest(n)[i].to
         /\ \A i \in 1 .. Len(Rest(n)) - 1 : Rest(n)[i + 1].from = Rest(n)[i].to + 1
         /\ \A i \in 1 .. Len(Rest(n)) : Rest(n)[i].to <= Rest(n)[Len(Rest(n))].to
         /\ queued - n = IF Rest(n) = << >> THEN 0
                        ELSE Rest(n)[Len(Rest(n))].to - Rest(n)[1].from + 1
         /\ IF Rest(n) = << >> THEN queue[Len(queue)].to = queue[1].from + n - 1
            ELSE /\ Rest(n)[1].from = queue[1].from + n
                 /\ Rest(n)[Len(Rest(n))].to = queue[Len(queue)].to
<1> DEFINE f == queue[1]
           l == queue[Len(queue)]
           t == Tail(queue)
           r == Rest(n)
           k == Len(queue)
<1>0. /\ queue \in Seq(Interval) /\ k \in Nat /\ k > 0 /\ queued \in Nat
  BY LenProperties, EmptySeq DEF Inv, TypeOK
<1>1. \A i \in 1 .. k : /\ queue[i] \in Interval
                       /\ queue[i].from \in Nat /\ queue[i].to \in Nat
                       /\ queue[i].from <= queue[i].to /\ queue[i].to <= l.to
  <2>1. ASSUME NEW i \in 1 .. k
        PROVE  queue[i] \in Interval
    BY <1>0, ElementOfSeq
  <2>2. \A i \in 1 .. k : queue[i].from <= queue[i].to /\ queue[i].to <= l.to
    BY DEF Inv, QueueInv
  <2> QED BY <2>1, <2>2 DEF Interval
<1>2. \A i \in 1 .. k - 1 : queue[i + 1].from = queue[i].to + 1
  BY DEF Inv, QueueInv
<1>3. queued = l.to - f.from + 1
  BY DEF Inv, QueueInv
<1>4. /\ f.from \in Nat /\ f.to \in Nat /\ l.to \in Nat
      /\ f.from <= f.to /\ f.to <= l.to /\ f \in Interval
  BY <1>0, <1>1
<1>5. n \in Nat /\ n > 0 /\ n <= f.to - f.from + 1
  BY <1>4
<1>6. /\ t \in Seq(Interval) /\ Len(t) = k - 1 /\ Head(queue) = f
      /\ \A i \in 1 .. k - 1 : t[i] = queue[i + 1]
  <2>1. /\ t \in Seq(Interval) /\ Len(t) = k - 1
        /\ \A i \in 1 .. Len(t) : t[i] = queue[i + 1]
    BY <1>0, HeadTailProperties
  <2>2. Head(queue) = f
    BY <1>0
  <2> QED BY <2>1, <2>2
<1>7. t = << >> <=> k = 1
  <2>1. t = << >> <=> Len(t) = 0
    BY <1>6, EmptySeq
  <2> HIDE DEF t, k
  <2> QED BY <1>0, <1>6, <2>1
<1> DEFINE g == [f EXCEPT !.from = @ + n]
<1>8. r = IF n = f.to - f.from + 1 THEN t ELSE << g >> \o t
  BY <1>6 DEF Rest
<1> HIDE DEF f, l, t, r, k, g
<1>9. CASE n = f.to - f.from + 1
  <2>1. r = t
    BY <1>8, <1>9
  <2>2. \A i \in 1 .. k - 1 : t[i].from <= t[i].to /\ t[i].to <= l.to
    <3>1. ASSUME NEW i \in 1 .. k - 1
          PROVE  t[i].from <= t[i].to /\ t[i].to <= l.to
      <4>1. t[i] = queue[i + 1] /\ i + 1 \in 1 .. k
        BY <1>0, <1>6
      <4> QED BY <1>1, <4>1
    <3> QED BY <3>1
  <2>3. \A i \in 1 .. k - 2 : t[i + 1].from = t[i].to + 1
    <3>1. ASSUME NEW i \in 1 .. k - 2
          PROVE  t[i + 1].from = t[i].to + 1
      <4>1. /\ i \in 1 .. k - 1 /\ i + 1 \in 1 .. k - 1
        BY <1>0
      <4>2. t[i] = queue[i + 1] /\ t[i + 1] = queue[i + 1 + 1]
        BY <1>6, <4>1
      <4> QED BY <1>2, <4>1, <4>2
    <3> QED BY <3>1
  <2>4. CASE k = 1
    <3>1. l = f /\ t = << >>
      BY <1>7, <2>4 DEF l, f, k
    <3>2. queued - n = 0 /\ l.to = f.from + n - 1
      BY <1>3, <1>4, <1>9, <3>1
    <3>3. \A i \in 1 .. Len(t) : FALSE
      BY <1>6, <2>4
    <3> QED BY <1>6, <2>1, <3>1, <3>2, <3>3 DEF f, l, r, k
  <2>5. CASE k > 1
    <3>1. t # << >> /\ t[1] = queue[2] /\ t[k - 1] = l
      BY <1>0, <1>6, <1>7, <2>5 DEF l, k
    <3>2. queue[2].from = f.to + 1
      <4>1. 1 \in 1 .. k - 1
        BY <1>0, <2>5
      <4> QED BY <1>2, <4>1 DEF f
    <3>4. queued - n = l.to - queue[2].from + 1 /\ queued - n \in Nat
      <4>1. n = f.to - f.from + 1
        BY <1>9
      <4>2. queued - n = l.to - f.to
        BY <1>3, <1>4, <4>1
      <4>3. l.to - queue[2].from + 1 = l.to - f.to
        BY <1>4, <3>2
      <4>4. l.to - f.to \in Nat
        BY <1>4
      <4> QED BY <4>2, <4>3, <4>4
    <3>5. queue[2].from = f.from + n
      BY <1>4, <1>5, <1>9, <3>2
    <3>6. /\ r \in Seq(Interval) /\ r # << >> /\ Len(r) = k - 1 /\ r[Len(r)] = l
          /\ r[1] = queue[2]
      BY <1>6, <2>1, <3>1
    <3> QED BY <2>1, <2>2, <2>3, <3>4, <3>5, <3>6 DEF f, l, r, k
  <2> QED BY <1>0, <2>4, <2>5
<1>10. CASE n # f.to - f.from + 1
  <2>1. r = << g >> \o t
    BY <1>8, <1>10
  <2>2. g \in Interval /\ g.from = f.from + n /\ g.to = f.to
    BY <1>4, <1>5 DEF g, Interval
  <2>3. << g >> \in Seq(Interval) /\ Len(<< g >>) = 1 /\ << g >>[1] = g
    BY <2>2
  <2>4. /\ r \in Seq(Interval) /\ Len(r) = 1 + Len(t)
        /\ \A i \in 1 .. 1 + Len(t) : r[i] = IF i <= 1 THEN << g >>[i] ELSE t[i - 1]
    BY <1>6, <2>1, <2>3, ConcatProperties
  <2>5. Len(r) = k /\ r[1] = g /\ \A i \in 2 .. k : r[i] = queue[i]
    <3>1. Len(r) = k /\ r[1] = g
      BY <1>0, <1>6, <2>3, <2>4
    <3>2. ASSUME NEW i \in 2 .. k
          PROVE  r[i] = queue[i]
      <4>1. i - 1 \in 1 .. k - 1 /\ ~(i <= 1) /\ i \in 1 .. 1 + Len(t) /\ i - 1 + 1 = i
        BY <1>0, <1>6
      <4>2. r[i] = t[i - 1]
        BY <2>4, <4>1
      <4>3. t[i - 1] = queue[i - 1 + 1]
        BY <1>6, <4>1
      <4> QED BY <4>1, <4>2, <4>3
    <3> QED BY <3>1, <3>2
  <2>6. r # << >>
    BY <1>0, <2>4, <2>5, EmptySeq
  <2>7. r[k].to = l.to
    <3>1. CASE k = 1
      BY <2>2, <2>5, <3>1 DEF l, f, k
    <3>2. CASE k # 1
      BY <1>0, <2>5, <3>2 DEF l, k
    <3> QED BY <3>1, <3>2
  <2>8. \A i \in 1 .. k : r[i].from <= r[i].to /\ r[i].to <= l.to
    <3>1. ASSUME NEW i \in 1 .. k
          PROVE  r[i].from <= r[i].to /\ r[i].to <= l.to
      <4>1. CASE i = 1
        BY <1>4, <1>5, <1>10, <2>2, <2>5, <4>1
      <4>2. CASE i # 1
        <5>1. i \in 2 .. k
          BY <1>0, <4>2
        <5> QED BY <1>1, <2>5, <5>1
      <4> QED BY <4>1, <4>2
    <3> QED BY <3>1
  <2>9. \A i \in 1 .. k - 1 : r[i + 1].from = r[i].to + 1
    <3>1. ASSUME NEW i \in 1 .. k - 1
          PROVE  r[i + 1].from = r[i].to + 1
      <4>1. i + 1 \in 2 .. k /\ queue[i + 1].from = queue[i].to + 1
        BY <1>0, <1>2
      <4>2. r[i + 1] = queue[i + 1]
        BY <2>5, <4>1
      <4>3. r[i].to = queue[i].to
        <5>1. CASE i = 1
          BY <2>2, <2>5, <5>1 DEF f
        <5>2. CASE i # 1
          <6>1. i \in 2 .. k
            BY <1>0, <5>2
          <6> QED BY <2>5, <6>1
        <5> QED BY <5>1, <5>2
      <4> QED BY <4>1, <4>2, <4>3
    <3> QED BY <3>1
  <2>10. queued - n = r[k].to - r[1].from + 1 /\ queued - n \in Nat
    <3>1. r[1].from = f.from + n /\ r[k].to = l.to
      BY <2>2, <2>5, <2>7
    <3>2. queued - n = l.to - (f.from + n) + 1
      BY <1>3, <1>4, <1>5
    <3>3. l.to - (f.from + n) + 1 \in Nat
      BY <1>4, <1>5
    <3> QED BY <3>1, <3>2, <3>3
  <2>11. r[1].from = f.from + n
    BY <2>2, <2>5
  <2>12. /\ \A i \in 1 .. Len(r) : r[i].from <= r[i].to /\ r[i].to <= r[Len(r)].to
         /\ \A i \in 1 .. Len(r) - 1 : r[i + 1].from = r[i].to + 1
         /\ queued - n = r[Len(r)].to - r[1].from + 1 /\ r[Len(r)].to = l.to
    BY <2>5, <2>7, <2>8, <2>9, <2>10
  <2> QED BY <2>4, <2>6, <2>10, <2>11, <2>12 DEF f, l, r, k
<1> QED BY <1>9, <1>10

\* The next n units are received.
LEMMA ReceiveNext ==
  ASSUME Inv, NEW a \in Nat, NEW n \in Nat, Reached(a - 1),
         received' = received \o [i \in 1 .. n |-> a + i - 1], failed' = failed
  PROVE  received' \in Seq(Nat) /\ InputInOrder' /\ Reached(a + n - 1)'
<1> DEFINE new == [i \in 1 .. n |-> a + i - 1]
           m == Len(received)
           r == received'
<1>0. received \in Seq(Nat) /\ m \in Nat
  BY LenProperties DEF Inv, TypeOK
<1>1. new \in Seq(Nat) /\ Len(new) = n /\ \A i \in 1 .. n : new[i] = a + i - 1
  <2>1. \A i \in 1 .. n : a + i - 1 \in Nat
    OBVIOUS
  <2> QED BY <2>1
<1>2. /\ r \in Seq(Nat) /\ Len(r) = m + n
      /\ \A i \in 1 .. m + n : r[i] = IF i <= m THEN received[i] ELSE new[i - m]
  <2> HIDE DEF new
  <2>1. received' = received \o new
    BY DEF new
  <2>2. /\ received \o new \in Seq(Nat) /\ Len(received \o new) = m + Len(new)
        /\ \A i \in 1 .. m + Len(new) :
              (received \o new)[i] = IF i <= m THEN received[i] ELSE new[i - m]
    BY <1>0, <1>1, ConcatProperties
  <2> QED BY <1>1, <2>1, <2>2
<1> HIDE DEF new, r, m
<1>3. /\ \A i \in 1 .. m : received[i] <= a - 1 /\ received[i] \in Nat
      /\ ~failed => m = a - 1
      /\ \A i \in 2 .. m : received[i - 1] < received[i]
      /\ ~failed => \A i \in 1 .. m : received[i] = i
  <2>1. \A i \in 1 .. m : received[i] \in Nat
    BY <1>0, ElementOfSeq DEF m
  <2> QED BY <2>1 DEF Reached, Inv, FlowInv, InputInOrder, m
<1>4. \A i \in 1 .. m : r[i] = received[i]
  BY <1>0, <1>2
<1>5. \A i \in m + 1 .. m + n : r[i] = a + (i - m) - 1
  <2>1. ASSUME NEW i \in m + 1 .. m + n
        PROVE  r[i] = a + (i - m) - 1
    <3>1. i \in 1 .. m + n /\ ~(i <= m) /\ i - m \in 1 .. n
      BY <1>0
    <3> QED BY <1>1, <1>2, <3>1
  <2> QED BY <2>1
<1>6. ASSUME NEW i \in 2 .. m + n
      PROVE  r[i - 1] < r[i]
  <2>1. CASE i <= m
    <3>1. i \in 2 .. m /\ i - 1 \in 1 .. m /\ i \in 1 .. m
      BY <1>0, <2>1
    <3> QED BY <1>3, <1>4, <3>1
  <2>2. CASE i = m + 1
    <3>1. i - 1 \in 1 .. m /\ i \in m + 1 .. m + n
      BY <1>0, <2>2
    <3>2. r[i] = a /\ r[i - 1] <= a - 1 /\ r[i - 1] \in Nat
      BY <1>0, <1>3, <1>4, <1>5, <2>2, <3>1
    <3> QED BY <3>2
  <2>3. CASE i > m + 1
    <3>1. i - 1 \in m + 1 .. m + n /\ i \in m + 1 .. m + n
      BY <1>0, <2>3
    <3>2. r[i] = a + (i - m) - 1 /\ r[i - 1] = a + (i - 1 - m) - 1
      BY <1>5, <3>1
    <3> QED BY <1>0, <3>1, <3>2
  <2> QED BY <1>0, <2>1, <2>2, <2>3
<1>7. ASSUME NEW i \in 1 .. m + n
      PROVE  r[i] <= a + n - 1 /\ (~failed => r[i] = i)
  <2>1. CASE i <= m
    <3>1. i \in 1 .. m
      BY <1>0, <2>1
    <3> QED BY <1>3, <1>4, <3>1
  <2>2. CASE i > m
    <3>1. i \in m + 1 .. m + n
      BY <1>0, <2>2
    <3>2. r[i] = a + (i - m) - 1
      BY <1>5, <3>1
    <3>3. r[i] <= a + n - 1
      BY <1>0, <3>1, <3>2
    <3>4. ~failed => r[i] = i
      BY <1>0, <1>3, <3>1, <3>2
    <3> QED BY <3>3, <3>4
  <2> QED BY <1>0, <2>1, <2>2
<1>8. ~failed => Len(r) = a + n - 1
  BY <1>0, <1>2, <1>3
<1>9. InputInOrder'
  BY <1>2, <1>6, <1>7 DEF InputInOrder, r
<1>10. Reached(a + n - 1)'
  BY <1>2, <1>7, <1>8 DEF Reached, r
<1> QED BY <1>2, <1>9, <1>10 DEF r

LEMMA WriteOkInv ==
  ASSUME Inv, WriteOk
  PROVE  Inv'
<1>0. /\ child # "gone" /\ chunk = 0 /\ flush = "writing" /\ daemonUp' = daemonUp
      /\ UNCHANGED <<daemonUp, sessionVars, pipe, chunk, decoder, child, killStage, failed>>
      /\ child' = child /\ failed' = failed /\ chunk' = chunk /\ queue \in Seq(Interval)
  BY DEF WriteOk, Runs, Inv, TypeOK
<1>1. queue # << >> /\ Head(queue) = queue[1] /\ queue[1] \in Interval
  <2>1. queue # << >>
    BY <1>0 DEF Inv, QueueInv
  <2>2. Len(queue) \in Nat /\ Len(queue) > 0
    BY <1>0, <2>1, EmptySeq
  <2> QED BY <1>0, <2>1, <2>2, ElementOfSeq
<1> DEFINE f == queue[1]
<1>2. PICK n \in 1 .. f.to - f.from + 1 :
         /\ received' = received \o [i \in 1 .. n |-> f.from + i - 1]
         /\ queue' = Rest(n)
         /\ queued' = queued - n
         /\ stdinPaused' = ResumedAt(queued')
  BY <1>1 DEF WriteOk
<1>3. flush' = IF queue' = << >> THEN "idle" ELSE "scheduled"
  BY DEF WriteOk
<1>4. f.from \in Nat /\ f.to \in Nat /\ n \in Nat
  BY <1>1 DEF Interval
<1> DEFINE q == queue'
<1> HIDE DEF q
<1>5. /\ q \in Seq(Interval) /\ queued' \in Nat /\ queued' <= queued
      /\ \A i \in 1 .. Len(q) : q[i].from <= q[i].to
      /\ \A i \in 1 .. Len(q) - 1 : q[i + 1].from = q[i].to + 1
      /\ \A i \in 1 .. Len(q) : q[i].to <= q[Len(q)].to
      /\ queued' = IF q = << >> THEN 0 ELSE q[Len(q)].to - q[1].from + 1
      /\ IF q = << >> THEN queue[Len(queue)].to = f.from + n - 1
         ELSE q[1].from = f.from + n /\ q[Len(q)].to = queue[Len(queue)].to
  <2>1. queued - n <= queued
    BY <1>4 DEF Inv, TypeOK
  <2> QED BY <1>1, <1>2, <2>1, RestQueue DEF q
<1>6. Reached(f.from - 1)
  BY <1>1 DEF Inv, FlowInv
<1>a. PICK a \in Nat : a = f.from
  BY <1>4
<1> DEFINE e == a + n - 1
<1>7. received' \in Seq(Nat) /\ InputInOrder'
      /\ (\A i \in 1 .. Len(received') : received'[i] <= e) /\ (~failed' => Len(received') = e)
  <2>1. a \in Nat /\ n \in Nat /\ Reached(a - 1) /\ failed' = failed
        /\ received' = received \o [i \in 1 .. n |-> a + i - 1]
    BY <1>a, <1>0, <1>2, <1>4, <1>6
  <2>2. received' \in Seq(Nat) /\ InputInOrder' /\ Reached(a + n - 1)'
    BY <2>1, ReceiveNext
  <2> QED BY <2>2 DEF Reached
<1>8. LineInv' /\ SessionInv' /\ Line' = Line /\ Front' = Front
  BY <1>0, LineUnchanged
<1>9. TypeOK'
  <2>1. flush' \in {"idle", "scheduled", "writing"}
    BY <1>3
  <2>2. stdinPaused' \in BOOLEAN
    BY <1>2 DEF ResumedAt, Inv, TypeOK
  <2> QED BY <1>0, <1>5, <1>7, <2>1, <2>2 DEF Inv, TypeOK, sessionVars, q
<1>10. QueueInv'
  <2>1. queue' = << >> => flush' # "writing"
    BY <1>3
  <2>2. child' # "boot"
    BY <1>0, <1>1 DEF Inv, QueueInv
  <2> QED BY <1>5, <2>1, <2>2 DEF QueueInv, q
<1>11. WaterInv'
  <2>1. ~stdinPaused' => queued' < HighWater
    <3>1. CASE stdinPaused
      <4>1. CASE queued' > LowWater
        BY <1>2, <3>1, <4>1 DEF ResumedAt
      <4>2. CASE ~(queued' > LowWater)
        BY <1>5, <4>2, WaterAssumption
      <4> QED BY <4>1, <4>2
    <3>2. CASE ~stdinPaused
      <4>1. queued < HighWater /\ queued \in Nat
        BY <3>2 DEF Inv, WaterInv, TypeOK
      <4> QED BY <1>5, <4>1, WaterAssumption
    <3> QED BY <3>1, <3>2
  <2>2. queued' + chunk' * Part <= HighWater + MaxChunk * Part
    <3>1. 0 * Part = 0 /\ MaxChunk * Part \in Nat /\ HighWater \in Nat /\ queued \in Nat
      BY BoundsAssumption, WaterAssumption DEF Inv, TypeOK
    <3>2. queued + 0 * Part <= HighWater + MaxChunk * Part
      BY <1>0 DEF Inv, WaterInv
    <3> QED BY <1>0, <1>5, <3>1, <3>2
  <2> QED BY <2>1, <2>2 DEF WaterInv
<1>12. FlowInv'
  <2>1. ASSUME q # << >>
        PROVE  Reached(queue[1].from - 1)'
    <3>1. (queue[1])'.from - 1 = e
      <4>1. q[1].from = f.from + n
        BY <1>5, <2>1
      <4>2. q[1].from - 1 = e
        BY <1>a, <1>4, <4>1
      <4> HIDE DEF e
      <4> QED BY <4>2 DEF q
    <3> HIDE DEF e
    <3> QED BY <1>7, <3>1 DEF Reached
  <2>2. ASSUME child' = "running", Line' # << >> \/ daemonUp'
        PROVE  IF q # << >> THEN q[Len(q)].to = Front' ELSE Reached(Front)'
    <3>1. queue[Len(queue)].to = Front
      BY <1>0, <1>1, <1>8, <2>2 DEF Inv, FlowInv
    <3>2. CASE q # << >>
      BY <1>5, <1>8, <3>1, <3>2
    <3>3. CASE q = << >>
      <4>1. Front' = f.from + n - 1
        BY <1>5, <1>8, <3>1, <3>3
      <4>2. Front' = e
        BY <1>a, <4>1
      <4> HIDE DEF e, Front
      <4> QED BY <1>7, <3>3, <4>2 DEF Reached
    <3> QED BY <3>2, <3>3
  <2> QED BY <1>7, <2>1, <2>2 DEF FlowInv, q
<1> QED BY <1>8, <1>9, <1>10, <1>11, <1>12 DEF Inv

\* A write that is tried again, or fails.
LEMMA FlushInv ==
  ASSUME Inv, Flush \/ WriteAgain \/ WriteFails
  PROVE  Inv'
<1>0. /\ child # "gone" /\ chunk = 0 /\ chunk' = chunk /\ child' = child
      /\ UNCHANGED <<daemonUp, sessionVars, pipe, chunk, decoder, child, killStage>>
      /\ daemonUp' = daemonUp /\ stdinPaused' = stdinPaused /\ received' = received
  BY DEF Flush, WriteAgain, WriteFails, Runs
<1>1. LineInv' /\ SessionInv' /\ Line' = Line /\ Front' = Front
  BY <1>0, LineUnchanged
<1>2. CASE Flush \/ WriteAgain
  <2>1. /\ queue' = queue /\ queued' = queued /\ failed' = failed
        /\ flush' \in {"idle", "scheduled", "writing"}
        /\ queue' = << >> => flush' # "writing"
    BY <1>2 DEF Flush, WriteAgain
  <2>2. TypeOK'
    BY <1>0, <2>1 DEF Inv, TypeOK, sessionVars
  <2>3. QueueInv'
    BY <1>0, <2>1 DEF Inv, QueueInv
  <2>4. WaterInv'
    BY <1>0, <2>1 DEF Inv, WaterInv
  <2>5. FlowInv'
    BY <1>0, <1>1, <2>1 DEF Inv, FlowInv, InputInOrder, Reached
  <2> QED BY <1>1, <2>2, <2>3, <2>4, <2>5 DEF Inv
<1>3. CASE WriteFails
  <2>1. queue' = << >> /\ queued' = 0 /\ flush' = "idle" /\ failed' = TRUE /\ flush = "writing"
    BY <1>3 DEF WriteFails
  <2>2. queue # << >>
    BY <2>1 DEF Inv, QueueInv
  <2>3. TypeOK'
    BY <1>0, <2>1, EmptySeq DEF Inv, TypeOK, sessionVars
  <2>4. QueueInv'
    BY <1>0, <2>1, <2>2 DEF Inv, QueueInv
  <2>5. WaterInv'
    BY <1>0, <2>1, BoundsAssumption, WaterAssumption DEF Inv, WaterInv
  <2>6. InputInOrder'
    BY <1>0, <2>1 DEF Inv, FlowInv, InputInOrder
  <2>7. ASSUME child = "running", Line # << >> \/ daemonUp
        PROVE  Reached(Front)'
    <3>1. queue[Len(queue)].to = Front /\ Reached(queue[1].from - 1)
      BY <2>2, <2>7 DEF Inv, FlowInv
    <3>2. queue[1].to <= queue[Len(queue)].to /\ queue[1].from <= queue[1].to
      <4>1. 1 \in 1 .. Len(queue)
        BY <2>2, EmptySeq DEF Inv, TypeOK
      <4> QED BY <4>1 DEF Inv, QueueInv
    <3>3. /\ queue[1].from \in Nat /\ queue[1].to \in Nat /\ queue[Len(queue)].to \in Nat
      <4>1. 1 \in 1 .. Len(queue) /\ Len(queue) \in 1 .. Len(queue) /\ queue \in Seq(Interval)
        BY <2>2, EmptySeq DEF Inv, TypeOK
      <4>2. queue[1] \in Interval /\ queue[Len(queue)] \in Interval
        BY <4>1, ElementOfSeq
      <4> QED BY <4>2 DEF Interval
    <3>4. \A i \in 1 .. Len(received) : received[i] \in Nat
      BY ElementOfSeq DEF Inv, TypeOK
    <3>5. \A i \in 1 .. Len(received) : received[i] <= Front
      BY <3>1, <3>2, <3>3, <3>4 DEF Reached
    <3> QED BY <1>0, <1>1, <2>1, <3>5 DEF Reached
  <2>8. FlowInv'
    BY <1>0, <1>1, <2>1, <2>6, <2>7 DEF FlowInv
  <2> QED BY <1>1, <2>3, <2>4, <2>5, <2>8 DEF Inv
<1> QED BY <1>2, <1>3

\* The ways in which the subprocess ends.
LEMMA ChildEndsInv ==
  ASSUME Inv, PtyExit \/ ChildEnds \/ Escalate \/ ForceExit \/ StdinEnd
  PROVE  Inv'
<1>0. /\ child # "gone" /\ chunk = 0 /\ chunk' = chunk
      /\ UNCHANGED <<daemonUp, sessionVars, pipe, chunk, decoder>>
      /\ daemonUp' = daemonUp /\ stdinPaused' = stdinPaused /\ received' = received
      /\ failed' = failed /\ killStage' \in {"none", "term", "kill"}
  BY DEF PtyExit, ChildEnds, Escalate, ForceExit, StdinEnd, Runs, inputVars, Inv, TypeOK
<1>1. LineInv' /\ SessionInv' /\ Line' = Line /\ Front' = Front
  BY <1>0, LineUnchanged
<1>2. CASE PtyExit \/ ChildEnds \/ Escalate \/ ForceExit
  <2>1. /\ queue' = queue /\ queued' = queued /\ flush' = flush
        /\ child' \in {"exiting", "gone"} \/ (child' = child /\ child = "running")
    BY <1>2 DEF PtyExit, ChildEnds, Escalate, ForceExit, inputVars
  <2>2. TypeOK'
    BY <1>0, <2>1 DEF Inv, TypeOK, sessionVars, ChildState
  <2>3. QueueInv'
    BY <1>0, <2>1 DEF Inv, QueueInv
  <2>4. WaterInv'
    BY <1>0, <2>1 DEF Inv, WaterInv
  <2>5. FlowInv'
    <3>1. InputInOrder' /\ (queue' # << >> => Reached(queue[1].from - 1)')
      BY <1>0, <2>1 DEF Inv, FlowInv, InputInOrder, Reached
    <3>2. ASSUME child' = "running", Line' # << >> \/ daemonUp'
          PROVE  IF queue' # << >> THEN (queue[Len(queue)])'.to = Front' ELSE Reached(Front)'
      BY <1>0, <1>1, <2>1, <3>2 DEF Inv, FlowInv, Reached
    <3> QED BY <3>1, <3>2 DEF FlowInv
  <2> QED BY <1>1, <2>2, <2>3, <2>4, <2>5 DEF Inv
<1>3. CASE StdinEnd
  <2>1. queue' = << >> /\ queued' = 0 /\ flush' = "idle" /\ child' = "gone"
    BY <1>3 DEF StdinEnd
  <2>2. TypeOK'
    BY <1>0, <2>1, EmptySeq DEF Inv, TypeOK, sessionVars, ChildState
  <2>3. QueueInv'
    BY <1>0, <2>1 DEF QueueInv
  <2>4. WaterInv'
    BY <1>0, <2>1, BoundsAssumption, WaterAssumption DEF Inv, WaterInv
  <2>5. FlowInv'
    BY <1>0, <2>1 DEF Inv, FlowInv, InputInOrder
  <2> QED BY <1>1, <2>2, <2>3, <2>4, <2>5 DEF Inv
<1> QED BY <1>2, <1>3

-----------------------------------------------------------------------------
(* The theorems *)

\* The inductive invariant holds: the buffers between the session and the PTY are in
\* order and without a hole wherever they are, a whole frame apart or a header taken.
THEOREM InputInvariant == Spec => []Inv
<1>1. Inv /\ [Next]_vars => Inv'
  <2> SUFFICES ASSUME Inv, [Next]_vars
               PROVE  Inv'
    OBVIOUS
  <2>1. CASE Ready \/ Drain \/ Kill \/ Dispose \/ SessionExit \/ DaemonDies
    BY <2>1, ReadyInv, DrainInv, KillInv, EndsInv
  <2>2. CASE \E n \in 1 .. 2 * Part : Write(n)
    BY <2>2, WriteInv
  <2>3. CASE ReadChunk \/ TakeHeader \/ TakeSpawn \/ TakeWrite \/ TakeKill
    BY <2>3, ReadChunkInv, TakeInv
  <2>4. CASE Flush \/ WriteOk \/ WriteAgain \/ WriteFails
    BY <2>4, FlushInv, WriteOkInv
  <2>5. CASE PtyExit \/ ChildEnds \/ Escalate \/ ForceExit \/ StdinEnd
    BY <2>5, ChildEndsInv
  <2>6. CASE UNCHANGED vars
    <3>1. /\ UNCHANGED <<daemonUp, sessionVars, pipe, chunk, decoder, child, killStage, inputVars>>
      BY <2>6 DEF vars
    <3>2. Line' = Line /\ Front' = Front
      BY <3>1 DEF sessionVars, Line, Front, FrontOf
    <3>3. TypeOK'
      BY <3>1 DEF Inv, TypeOK, sessionVars, inputVars
    <3>4. LineInv'
      BY <3>1, <3>2 DEF Inv, LineInv, WellFormed, Aligned, Complete, sessionVars
    <3>5. SessionInv'
      BY <3>1 DEF Inv, SessionInv, sessionVars
    <3>6. QueueInv' /\ WaterInv'
      BY <3>1 DEF Inv, QueueInv, WaterInv, inputVars
    <3>7. FlowInv'
      BY <3>1, <3>2 DEF Inv, FlowInv, InputInOrder, Reached, inputVars
    <3> QED BY <3>3, <3>4, <3>5, <3>6, <3>7 DEF Inv
  <2> QED BY <2>1, <2>2, <2>3, <2>4, <2>5, <2>6 DEF Next
<1> QED BY <1>1, InitInv, PTL DEF Spec

\* Every variable keeps its type: what is queued is never counted below zero, and
\* the subprocess never takes more than was written.
THEOREM InputTypes == Spec => []TypeOK
<1>1. Inv => TypeOK
  BY DEF Inv
<1> QED BY <1>1, InputInvariant, PTL

\* The PTY receives the input in order, each unit once, and without a hole unless
\* a write to it failed, whatever the sizes of frames, chunks, pipe and queues.
THEOREM InputOrdered == Spec => []InputInOrder
<1>1. Inv => InputInOrder
  BY DEF Inv, FlowInv
<1> QED BY <1>1, InputInvariant, PTL

-----------------------------------------------------------------------------
(* The path of the input is a channel *)

\* A sequence of buffers or intervals holds no units but the first a.
Within(seq, a) == \A i \in 1 .. Len(seq) : seq[i].from >= 1 /\ seq[i].to <= a

\* Nothing on its way is beyond what was accepted.
BoundInv ==
  /\ Within(Line, accepted)
  /\ queue # << >> => queue[1].from >= 1 /\ queue[Len(queue)].to <= accepted

\* What is sent, or dropped, lies within what is accepted afterwards.
LEMMA SentWithin ==
  ASSUME NEW st \in State, NEW type, NEW n, Sendable(type, st.accepted, n),
         Within(LineOf(st), st.accepted)
  PROVE  LET new == Sent(st, type, n) IN
         /\ new \in State /\ Within(LineOf(new), new.accepted)
         /\ new.accepted \in {st.accepted, st.accepted + n}
<1> DEFINE new == Sent(st, type, n)
           f == FrameOf(type, st.accepted, n)
           l == LineOf(st)
           a == st.accepted
<1>0. a \in Nat /\ l \in Seq(Buffer) /\ n \in Nat
  BY ConcatProperties DEF State, LineOf, Sendable
<1>1. /\ new \in State
      /\ \/ LineOf(new) = l /\ new.accepted = a
         \/ LineOf(new) = l \o f /\ new.accepted = a + n
  BY SentLine
<1>2. /\ f \in Seq(Buffer) /\ Len(f) = 2
      /\ f[1].from = a + 1 /\ f[1].to = a /\ f[2].from = a + 1 /\ f[2].to = a + n
  <2>1. f \in Seq(Buffer) /\ Len(f) = 2
    BY <1>0, FrameBuffers
  <2> QED BY <2>1 DEF FrameOf
<1>3. ASSUME NEW i \in 1 .. Len(l)
      PROVE  l[i].from >= 1 /\ l[i].to <= a /\ l[i].to <= a + n
  <2>1. l[i] \in Buffer
    BY <1>0, ElementOfSeq
  <2>2. l[i].to \in Nat
    BY <2>1 DEF Buffer
  <2>3. l[i].from >= 1 /\ l[i].to <= a
    BY DEF Within
  <2> QED BY <1>0, <2>2, <2>3
<1> HIDE DEF new, f, l, a
<1>4. CASE LineOf(new) = l /\ new.accepted = a
  BY <1>1, <1>3, <1>4 DEF Within, new, a
<1>5. CASE LineOf(new) = l \o f /\ new.accepted = a + n
  <2> DEFINE c == l \o f
  <2>0. /\ Len(c) = Len(l) + Len(f) /\ Len(l) \in Nat
        /\ \A i \in 1 .. Len(l) + Len(f) : c[i] = IF i <= Len(l) THEN l[i] ELSE f[i - Len(l)]
    BY <1>0, <1>2, ConcatProperties, LenProperties
  <2> HIDE DEF c
  <2>1. /\ Len(c) = Len(l) + 2 /\ Len(l) \in Nat
        /\ \A i \in 1 .. Len(l) + 2 : c[i] = IF i <= Len(l) THEN l[i] ELSE f[i - Len(l)]
    BY <1>2, <2>0
  <2>2. ASSUME NEW i \in 1 .. Len(c)
        PROVE  c[i].from >= 1 /\ c[i].to <= a + n
    <3>1. CASE i <= Len(l)
      <4>1. c[i] = l[i] /\ i \in 1 .. Len(l)
        BY <2>1, <3>1
      <4> QED BY <1>3, <4>1
    <3>2. CASE ~(i <= Len(l))
      <4>1. c[i] = f[i - Len(l)] /\ i - Len(l) \in {1, 2}
        BY <2>1, <3>2
      <4>2. c[i] = f[1] \/ c[i] = f[2]
        BY <4>1
      <4> QED BY <1>0, <1>2, <4>2
    <3> QED BY <3>1, <3>2
  <2>3. Within(LineOf(new), new.accepted)
    BY <1>5, <2>2 DEF Within, c
  <2> QED BY <1>1, <1>5, <2>3 DEF new, a
<1> QED BY <1>1, <1>4, <1>5

\* The state of the session before it sends, and after.
LEMMA NowWithin ==
  ASSUME Inv, BoundInv, alive
  PROVE  Now \in State /\ Now.accepted = accepted /\ Within(LineOf(Now), Now.accepted)
<1>1. Now.queue = stdinQueue /\ Now.pipe = pipe /\ Now.accepted = accepted
  BY DEF Now
<1>2. Now \in State
  BY NowFeed DEF Feed
<1> QED BY <1>1, <1>2 DEF BoundInv, LineOf, Line

\* A step of the session alone, which leaves what the subprocess has queued.
LEMMA SessionBound ==
  ASSUME Inv, BoundInv, accepted' \in Nat, accepted' >= accepted, queue' = queue,
         Within(Line', accepted')
  PROVE  BoundInv'
<1>1. ASSUME queue # << >>
      PROVE  queue[1].from >= 1 /\ queue[Len(queue)].to <= accepted'
  <2>1. queue \in Seq(Interval) /\ Len(queue) \in 1 .. Len(queue) /\ accepted \in Nat
    BY <1>1, LenProperties, EmptySeq DEF Inv, TypeOK
  <2>2. queue[Len(queue)] \in Interval
    BY <2>1, ElementOfSeq
  <2>3. queue[Len(queue)].to \in Nat
    BY <2>2 DEF Interval
  <2> QED BY <1>1, <2>1, <2>3 DEF BoundInv
<1>2. Within(Line, accepted)'
  BY DEF Within
<1> QED BY <1>1, <1>2 DEF BoundInv

\* Sending: what is accepted only grows, and only by a Write.
LEMMA SendBound ==
  ASSUME Inv, BoundInv, Ready \/ Drain \/ Kill \/ \E n \in 1 .. 2 * Part : Write(n)
  PROVE  /\ BoundInv' /\ accepted' \in Nat /\ accepted' >= accepted
         /\ ~(\E n \in 1 .. 2 * Part : Write(n)) => accepted' = accepted
<1>0. accepted \in Nat /\ queue' = queue /\ alive
  BY DEF Ready, Drain, Kill, Write, inputVars, Inv, TypeOK
<1>1. Now \in State /\ Now.accepted = accepted /\ Within(LineOf(Now), Now.accepted)
  BY <1>0, NowWithin
<1>2. ASSUME NEW st \in State, Within(LineOf(st), st.accepted), Becomes(st)
      PROVE  /\ Line' = LineOf(st) /\ accepted' = st.accepted /\ accepted' \in Nat
             /\ accepted' >= accepted => BoundInv'
  <2>1. stdinQueue' = st.queue /\ pipe' = st.pipe /\ accepted' = st.accepted
    BY <1>2 DEF Becomes
  <2>2. Line' = LineOf(st)
    BY <2>1 DEF Line, LineOf
  <2>3. accepted' \in Nat
    BY <2>1 DEF State
  <2> QED BY <1>0, <1>2, <2>1, <2>2, <2>3, SessionBound
<1>3. CASE Ready
  <2>1. Now.accepted = 0
    BY <1>1, <1>3 DEF Ready, Inv, SessionInv
  <2>2. Sendable("Spawn", Now.accepted, 0)
    BY <2>1, BoundsAssumption DEF Sendable, FrameType
  <2> DEFINE st == Sent(Now, "Spawn", 0)
  <2>3. st \in State /\ Within(LineOf(st), st.accepted) /\ st.accepted = accepted
    BY <1>0, <1>1, <2>2, SentWithin
  <2>4. Becomes(st)
    BY <1>3 DEF Ready
  <2> HIDE DEF st
  <2> QED BY <1>0, <1>2, <2>3, <2>4
<1>4. CASE Kill /\ ready
  <2>1. Sendable("Kill", Now.accepted, 0)
    BY <1>1, BoundsAssumption DEF Sendable, FrameType
  <2> DEFINE st == Sent(Now, "Kill", 0)
  <2>2. st \in State /\ Within(LineOf(st), st.accepted) /\ st.accepted = accepted
    BY <1>0, <1>1, <2>1, SentWithin
  <2>3. Becomes(st)
    BY <1>4 DEF Kill
  <2> HIDE DEF st
  <2> QED BY <1>0, <1>2, <2>2, <2>3
<1>5. CASE Kill /\ ~ready
  <2>1. Line' = Line /\ accepted' = accepted
    BY <1>5 DEF Kill, Line
  <2>2. Within(Line', accepted')
    BY <2>1 DEF BoundInv, Within
  <2> QED BY <1>0, <2>1, <2>2, SessionBound
<1>6. CASE Drain
  <2> DEFINE old == [Now EXCEPT !.armed = FALSE]
             st == Flushed(old)
  <2>1. Becomes(st)
    BY <1>6 DEF Drain, Drained
  <2>2. old \in State /\ LineOf(old) = Line /\ old.accepted = accepted
    BY <1>0, NowFeed DEF Feed
  <2> HIDE DEF old
  <2>3. st \in State /\ LineOf(st) = Line /\ st.accepted = accepted
    BY <2>2, FlushedLine
  <2> HIDE DEF st
  <2> QED BY <1>0, <1>2, <2>1, <2>3 DEF BoundInv
<1>7. ASSUME NEW n \in 1 .. 2 * Part, Write(n)
      PROVE  BoundInv' /\ accepted' \in Nat /\ accepted' >= accepted
  <2>0. Part \in Nat /\ Part > 0 /\ n \in Nat /\ n > 0 /\ n <= 2 * Part
    BY BoundsAssumption
  <2> DEFINE one == Sent(Now, "Write", n)
             part == Sent(Now, "Write", Part)
             two == Sent(part, "Write", n - Part)
  <2>1. CASE n <= Part
    <3>1. Sendable("Write", Now.accepted, n)
      BY <1>1, <2>0, <2>1 DEF Sendable, FrameType
    <3>2. /\ one \in State /\ Within(LineOf(one), one.accepted)
          /\ one.accepted \in {accepted, accepted + n}
      BY <1>1, <3>1, SentWithin
    <3>3. Becomes(one)
      BY <1>7, <2>1 DEF Write
    <3> HIDE DEF one
    <3> QED BY <1>0, <1>2, <2>0, <3>2, <3>3
  <2>2. CASE ~(n <= Part)
    <3>1. Sendable("Write", Now.accepted, Part)
      BY <1>1, <2>0 DEF Sendable, FrameType
    <3>2. /\ part \in State /\ Within(LineOf(part), part.accepted)
          /\ part.accepted \in {accepted, accepted + Part}
      BY <1>1, <3>1, SentWithin
    <3> HIDE DEF part
    <3>3. Sendable("Write", part.accepted, n - Part)
      BY <1>0, <2>0, <2>2, <3>2 DEF Sendable, FrameType
    <3>4. /\ two \in State /\ Within(LineOf(two), two.accepted)
          /\ two.accepted \in {part.accepted, part.accepted + (n - Part)}
      BY <3>2, <3>3, SentWithin
    <3>5. Becomes(two)
      BY <1>7, <2>2 DEF Write, part
    <3> HIDE DEF two
    <3>6. two.accepted >= accepted
      BY <1>0, <2>0, <2>2, <3>2, <3>4
    <3> QED BY <1>2, <3>4, <3>5, <3>6
  <2> QED BY <2>1, <2>2
<1> QED BY <1>3, <1>4, <1>5, <1>6, <1>7

\* Every step keeps what is on its way within what was accepted: the subprocess
\* takes buffers from the front of the line, the PTY units from the front of the queue.
LEMMA BoundStep ==
  ASSUME Inv, BoundInv, Next
  PROVE  BoundInv'
<1>0. /\ accepted \in Nat /\ queue \in Seq(Interval) /\ Len(queue) \in Nat
      /\ pipe \in Seq(Buffer) /\ stdinQueue \in Seq(Buffer) /\ Len(pipe) \in Nat
      /\ chunk \in 0 .. Len(pipe) /\ Line \in Seq(Buffer)
      /\ queue # << >> <=> Len(queue) > 0
  BY LenProperties, EmptySeq, ConcatProperties DEF Inv, TypeOK, Line
<1>1. CASE Ready \/ Drain \/ Kill \/ \E n \in 1 .. 2 * Part : Write(n)
  BY <1>1, SendBound
<1>2. CASE Dispose \/ SessionExit \/ DaemonDies
  <2>1. accepted' = accepted /\ queue' = queue /\ stdinQueue' = << >>
    BY <1>2 DEF Dispose, SessionExit, DaemonDies, Reset, inputVars
  <2>2. PICK m \in 0 .. Len(pipe) : pipe' = SubSeq(pipe, 1, m)
    <3>1. SubSeq(pipe, 1, Len(pipe)) = pipe /\ Len(pipe) \in 0 .. Len(pipe)
      BY <1>0, SubSeqFull
    <3>2. CASE Dispose \/ SessionExit
      BY <3>1, <3>2 DEF Dispose, SessionExit
    <3>3. CASE DaemonDies
      BY <1>0, <3>3 DEF DaemonDies
    <3> QED BY <1>2, <3>2, <3>3
  <2>3. Line' = SubSeq(Line, 1, m) /\ m \in 0 .. Len(Line)
    BY <1>0, <2>1, <2>2, PrefixConcat DEF Line
  <2>4. \A i \in 1 .. m : Line[i] \in Buffer
    BY <1>0, <2>3, ElementOfSeq
  <2>5. Len(SubSeq(Line, 1, m)) = m /\ \A i \in 1 .. m : SubSeq(Line, 1, m)[i] = Line[i]
    BY <1>0, <2>3, <2>4, SubSeqProperties
  <2>6. Within(Line, accepted)
    BY DEF BoundInv
  <2> HIDE DEF Line
  <2>7. Within(Line', accepted')
    BY <1>0, <2>1, <2>3, <2>5, <2>6 DEF Within
  <2> QED BY <1>0, <2>1, <2>7, SessionBound
<1>3. CASE ReadChunk \/ PtyExit \/ ChildEnds \/ Escalate \/ ForceExit \/ Flush \/ WriteAgain
  <2>1. queue' = queue /\ UNCHANGED <<accepted, pipe, stdinQueue>>
    BY <1>3 DEF ReadChunk, PtyExit, ChildEnds, Escalate, ForceExit, Flush, WriteAgain,
                sessionVars, inputVars
  <2>2. Line' = Line
    BY <2>1 DEF Line
  <2> QED BY <2>1, <2>2 DEF BoundInv, Within
<1>4. CASE WriteFails \/ StdinEnd
  <2>1. queue' = << >> /\ UNCHANGED <<accepted, pipe, stdinQueue>>
    BY <1>4 DEF WriteFails, StdinEnd, sessionVars
  <2>2. Line' = Line
    BY <2>1 DEF Line
  <2> QED BY <2>1, <2>2 DEF BoundInv, Within
<1>5. CASE TakeHeader \/ TakeSpawn \/ TakeWrite \/ TakeKill
  <2> DEFINE b == Head(pipe)
  <2>0. TakeBuffer /\ UNCHANGED <<daemonUp, sessionVars>> /\ accepted' = accepted
    BY <1>5 DEF TakeHeader, TakeSpawn, TakeWrite, TakeKill, TakePayload, sessionVars
  <2>1. pipe # << >> /\ pipe' = Tail(pipe) /\ stdinQueue' = stdinQueue
    BY <1>0, <2>0, EmptySeq DEF TakeBuffer, sessionVars
  <2>2. Line' = Tail(Line) /\ Line # << >> /\ Line[1] = b
    BY <1>0, <2>1, TailConcat DEF Line
  <2>3. /\ Len(Line) \in Nat /\ Len(Line) > 0 /\ Len(Tail(Line)) = Len(Line) - 1
        /\ \A i \in 1 .. Len(Tail(Line)) : Tail(Line)[i] = Line[i + 1]
    BY <1>0, <2>2, HeadTailProperties, LenProperties, EmptySeq
  <2>4. Within(Line, accepted)
    BY DEF BoundInv
  <2>5. b.from >= 1 /\ b.to <= accepted
    <3>1. 1 \in 1 .. Len(Line)
      BY <2>3
    <3> QED BY <2>2, <2>4, <3>1 DEF Within
  <2>6. Within(Line', accepted')
    <3> HIDE DEF Line
    <3>1. ASSUME NEW i \in 1 .. Len(Line) - 1
          PROVE  Line'[i].from >= 1 /\ Line'[i].to <= accepted
      <4>1. i + 1 \in 1 .. Len(Line) /\ Line'[i] = Line[i + 1]
        BY <2>2, <2>3
      <4> QED BY <2>4, <4>1 DEF Within
    <3> QED BY <2>0, <2>2, <2>3, <3>1 DEF Within
  <2>7. CASE queue' = queue
    BY <1>0, <2>0, <2>6, <2>7, SessionBound
  <2>8. CASE queue' # queue
    <3> DEFINE new == [from |-> b.from, to |-> b.to]
    <3>1. TakeWrite
      BY <1>5, <2>8 DEF TakeHeader, TakeSpawn, TakeKill, inputVars
    <3>2. queue' = Append(queue, new)
      BY <2>8, <3>1 DEF TakeWrite, inputVars
    <3>3. new \in Interval /\ new.from = b.from /\ new.to = b.to
      <4>1. b \in Buffer
        BY <2>0, TakeLine
      <4> QED BY <4>1 DEF Interval, Buffer
    <3> HIDE DEF new, b
    <3>4. /\ Len(queue') = Len(queue) + 1 /\ queue'[Len(queue) + 1] = new
          /\ Len(queue) > 0 => queue'[1] = queue[1]
      BY <1>0, <3>2, <3>3, AppendProperties
    <3>5. Len(queue) = 0 => queue'[1] = new
      BY <3>4
    <3>6. queue'[1].from >= 1
      BY <1>0, <2>5, <3>3, <3>4, <3>5 DEF BoundInv
    <3>7. queue'[Len(queue')].to <= accepted'
      BY <2>0, <2>5, <3>3, <3>4
    <3>8. Within(Line, accepted)'
      BY <2>6 DEF Within
    <3> QED BY <3>6, <3>7, <3>8 DEF BoundInv
  <2> QED BY <2>7, <2>8
<1>6. CASE WriteOk
  <2>1. flush = "writing" /\ UNCHANGED <<accepted, pipe, stdinQueue>>
    BY <1>6 DEF WriteOk, sessionVars
  <2>2. queue # << >>
    BY <2>1 DEF Inv, QueueInv
  <2>3. Head(queue) = queue[1] /\ queue[1] \in Interval
    BY <1>0, <2>2, ElementOfSeq
  <2>4. PICK n \in 1 .. queue[1].to - queue[1].from + 1 : queue' = Rest(n)
    BY <1>6, <2>3 DEF WriteOk
  <2>5. queue[1].from \in Nat /\ queue[1].to \in Nat
    BY <2>3 DEF Interval
  <2>6. queue' # << >> => /\ queue'[1].from = queue[1].from + n
                          /\ queue'[Len(queue')].to = queue[Len(queue)].to
    BY <2>2, <2>4, RestQueue
  <2>7. Line' = Line
    BY <2>1 DEF Line
  <2>8. queue' # << >> => queue'[1].from >= 1 /\ queue'[Len(queue')].to <= accepted'
    BY <2>1, <2>2, <2>5, <2>6 DEF BoundInv
  <2>9. Within(Line, accepted)'
    BY <2>1, <2>7 DEF BoundInv, Within
  <2> QED BY <2>8, <2>9 DEF BoundInv
<1> QED BY <1>1, <1>2, <1>3, <1>4, <1>5, <1>6 DEF Next

\* A successful write delivers the next units, none beyond what was accepted.
LEMMA ChannelDelivers ==
  ASSUME Inv, BoundInv, WriteOk
  PROVE  Channel!Deliver
<1>1. /\ flush = "writing" /\ failed' = failed /\ accepted' = accepted
      /\ alive' = alive /\ terminating' = terminating
  BY DEF WriteOk, sessionVars
<1>2. queue # << >> /\ queue \in Seq(Interval) /\ accepted \in Nat
      /\ \A i \in 1 .. Len(received) : received[i] \in Nat
  BY <1>1, ElementOfSeq DEF Inv, QueueInv, TypeOK
<1>3. Len(queue) \in Nat /\ Len(queue) > 0
  BY <1>2, LenProperties, EmptySeq
<1>4. /\ Head(queue) = queue[1] /\ queue[1] \in Interval
      /\ queue[Len(queue)] \in Interval
  BY <1>2, <1>3, ElementOfSeq
<1> DEFINE from == queue[1].from
           last == queue[Len(queue)].to
<1>5. PICK n \in 1 .. queue[1].to - from + 1 :
         received' = received \o [i \in 1 .. n |-> from + i - 1]
  BY <1>4 DEF WriteOk
<1>6. /\ from \in Nat /\ queue[1].to \in Nat /\ last \in Nat
      /\ from >= 1 /\ queue[1].to <= last /\ last <= accepted
  <2>1. 1 \in 1 .. Len(queue)
    BY <1>3
  <2>2. queue[1].to <= last
    BY <2>1 DEF Inv, QueueInv
  <2> QED BY <1>2, <1>4, <2>2 DEF Interval, BoundInv
<1>7. Reached(from - 1)
  BY <1>2 DEF Inv, FlowInv
<1> HIDE DEF from, last
<1> DEFINE to == from + n - 1
<1>8. from \in 1 .. accepted /\ to \in 1 .. accepted /\ from <= to /\ to - from + 1 = n
  <2> DEFINE end == queue[1].to
  <2>1. n \in 1 .. end - from + 1 /\ from \in Nat /\ end \in Nat
    BY <1>6
  <2>2. end <= accepted
    BY <1>2, <1>6
  <2> HIDE DEF end
  <2>3. to \in Nat /\ from <= to /\ to <= end /\ to - from + 1 = n
    BY <2>1
  <2> QED BY <1>2, <1>6, <2>1, <2>2, <2>3
<1>9. /\ \A i \in 1 .. Len(received) : received[i] < from
      /\ failed \/ from = Len(received) + 1
  BY <1>2, <1>6, <1>7 DEF Reached
<1>10. received' = received \o [i \in 1 .. to - from + 1 |-> from + i - 1]
  BY <1>5, <1>8
<1> HIDE DEF to
<1> QED BY <1>1, <1>8, <1>9, <1>10 DEF Channel!Deliver

LEMMA ChannelStep ==
  ASSUME Inv, BoundInv, [Next]_vars
  PROVE  [Channel!Next]_(Channel!vars)
<1> USE DEF Channel!Next, Channel!vars
<1>0. /\ alive \in BOOLEAN /\ terminating \in BOOLEAN /\ failed \in BOOLEAN
      /\ accepted \in Nat
  BY DEF Inv, TypeOK
<1>1. ASSUME NEW n \in 1 .. 2 * Part, Write(n)
      PROVE  Channel!Accept \/ UNCHANGED Channel!vars
  <2>1. /\ alive /\ ~terminating /\ alive' = alive /\ terminating' = terminating
        /\ failed' = failed /\ received' = received
    BY <1>1 DEF Write, inputVars
  <2>2. accepted' \in Nat /\ accepted' >= accepted
    BY <1>1, SendBound
  <2>3. CASE accepted' > accepted
    BY <2>1, <2>2, <2>3 DEF Channel!Accept
  <2>4. CASE ~(accepted' > accepted)
    <3>1. accepted' = accepted
      BY <1>0, <2>2, <2>4
    <3> QED BY <2>1, <3>1
  <2> QED BY <2>3, <2>4
<1>2. CASE (Ready \/ Drain \/ Kill) /\ ~(\E n \in 1 .. 2 * Part : Write(n))
  <2>1. accepted' = accepted
    BY <1>2, SendBound
  <2>2. alive' = alive /\ failed' = failed /\ received' = received
    BY <1>2 DEF Ready, Drain, Kill, inputVars
  <2>3. CASE Ready \/ Drain
    <3>1. terminating' = terminating
      BY <2>3 DEF Ready, Drain
    <3> QED BY <2>1, <2>2, <3>1
  <2>4. CASE Kill
    <3>1. alive /\ ~terminating /\ terminating' = TRUE
      BY <2>4 DEF Kill
    <3>2. Channel!Close
      BY <2>1, <2>2, <3>1 DEF Channel!Close
    <3> QED BY <3>2
  <2> QED BY <1>2, <2>3, <2>4
<1>3. CASE Dispose \/ SessionExit \/ DaemonDies
  <2>1. /\ alive' = FALSE /\ terminating' = terminating
        /\ accepted' = accepted /\ failed' = failed /\ received' = received
    BY <1>3 DEF Dispose, SessionExit, DaemonDies, Reset, inputVars
  <2>2. CASE alive /\ ~terminating
    <3>1. Channel!Close
      BY <2>1, <2>2 DEF Channel!Close
    <3> QED BY <3>1
  <2>3. CASE ~(alive /\ ~terminating)
    BY <1>0, <2>1, <2>3
  <2> QED BY <2>2, <2>3
<1>4. CASE WriteOk
  BY <1>4, ChannelDelivers
<1>5. CASE WriteFails
  <2>1. /\ UNCHANGED <<alive, terminating, accepted, received>> /\ failed' = TRUE
    BY <1>5 DEF WriteFails, sessionVars
  <2>2. CASE ~failed
    <3>1. Channel!Break
      BY <2>1, <2>2 DEF Channel!Break
    <3> QED BY <3>1
  <2>3. CASE failed
    BY <1>0, <2>1, <2>3
  <2> QED BY <2>2, <2>3
<1>6. CASE ReadChunk \/ Flush \/ WriteAgain \/ PtyExit \/ ChildEnds \/ Escalate
           \/ ForceExit \/ StdinEnd
  BY <1>6 DEF ReadChunk, Flush, WriteAgain, PtyExit, ChildEnds, Escalate, ForceExit,
              StdinEnd, sessionVars, inputVars
<1>7. CASE TakeHeader \/ TakeSpawn \/ TakeKill \/ TakeWrite
  <2>1. UNCHANGED <<alive, terminating, accepted>> /\ failed' = failed /\ received' = received
    BY <1>7 DEF TakeHeader, TakeSpawn, TakeKill, TakeWrite, sessionVars, inputVars
  <2> QED BY <2>1
<1>8. CASE UNCHANGED vars
  BY <1>8 DEF vars, sessionVars, inputVars
<1> QED BY <1>1, <1>2, <1>3, <1>4, <1>5, <1>6, <1>7, <1>8 DEF Next

\* The whole way of the input, with its two queues, its pipe, its chunks, its partial
\* writes and retries, is a channel: what the PTY receives is what was accepted, in
\* order, each unit once, nothing that was not accepted, and without a hole until a
\* write fails; and nothing is accepted once the session is being ended.
THEOREM InputIsAChannel == Spec => ImplementsChannel
<1>1. Init => BoundInv
  <2> SUFFICES ASSUME Init
               PROVE  BoundInv
    OBVIOUS
  <2>1. Line = << >> /\ queue = << >>
    BY EmptySeq, ConcatEmptySeq DEF Init, Line
  <2> QED BY <2>1 DEF BoundInv, Within
<1>2. Inv /\ BoundInv /\ [Next]_vars => BoundInv'
  <2> SUFFICES ASSUME Inv, BoundInv, [Next]_vars
               PROVE  BoundInv'
    OBVIOUS
  <2>1. CASE UNCHANGED vars
    <3>1. queue' = queue /\ accepted' = accepted /\ Line' = Line
      BY <2>1 DEF vars, sessionVars, inputVars, Line
    <3> QED BY <3>1 DEF BoundInv, Within
  <2> QED BY <2>1, BoundStep
<1>3. Init => Channel!Init
  BY DEF Init, Channel!Init
<1>4. Inv /\ BoundInv /\ [Next]_vars => [Channel!Next]_(Channel!vars)
  BY ChannelStep
<1> QED BY <1>1, <1>2, <1>3, <1>4, InputInvariant, PTL DEF Spec, ImplementsChannel, Channel!Spec

=============================================================================
