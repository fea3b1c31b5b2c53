----------------------------- MODULE VideoProofs -----------------------------
(***************************************************************************)
(* What a camera client gets can be decoded, for a queue of any capacity,   *)
(* any gate, any chunks and any number of frames.                           *)
(*                                                                          *)
(* The argument is a chain.  The frame the sender took last, and those in    *)
(* the queue, each follow the one before: as its successor, as a keyframe,   *)
(* or excused by the ingest thread.  A drop breaks the chain only where the *)
(* flag is set that makes the sender look for a keyframe.                    *)
(***************************************************************************)
EXTENDS VideoSession, SequenceTheorems, TLAPS

\* Frame f can be decoded by who has got frame n.
Follows(f, n) == f.key \/ f.seq = n + 1 \/ f.excuse # "none"

Chained(q) ==
  /\ \A i \in 1 .. Len(q) : \A j \in i + 1 .. Len(q) : q[i].seq < q[j].seq
  /\ \A i \in 1 .. Len(q) - 1 : Follows(q[i + 1], q[i].seq)

\* Queued frames are the encoder's.
IsFrame(f) == f.seq \in 1 .. pushed /\ (f.key <=> kind[f.seq] = "key")

\* The last frame the sender took and has not given up.
Popped == IF spc = "idle" THEN received ELSE sending.seq

\* What a started stream lacks is excused.
IngestInv ==
  gate.started => read >= 1 /\ (omitted = "none" => read = pushed)

QueueInv ==
  /\ Chained(queue)
  /\ \A i \in 1 .. Len(queue) : IsFrame(queue[i])
  /\ queue # <<>> => queue[1].seq > Popped /\ queue[Len(queue)].seq = pushed
  /\ Popped <= pushed

ChainInv ==
  running /\ ~ waiting_for_keyframe =>
    IF queue = <<>> THEN pushed = Popped ELSE Follows(queue[1], Popped)

SendInv ==
  spc # "idle" => IsFrame(sending) /\ received < sending.seq /\ Follows(sending, received)

VideoInv == TypeOK /\ IngestInv /\ QueueInv /\ ChainInv /\ SendInv

LEMMA VideoStarts == Init => VideoInv
<1> SUFFICES ASSUME Init PROVE VideoInv
  OBVIOUS
<1>1. TypeOK
  <2>1. NewGate \in [started : BOOLEAN, skipped : 0 .. MaxSkipped] /\ NoFrame \in Frame
    BY SessionAssumption DEF NewGate, NoFrame, Frame, Excuse
  <2>2. Len(queue) = 0 /\ Len(kind) = 0 /\ queue \in Seq(Frame) /\ kind \in Seq({"key", "delta"})
    BY DEF Init
  <2>3. /\ read = 0 /\ pushed = 0 /\ gate = NewGate /\ suppress = FALSE /\ omitted = "none"
        /\ waiting_for_keyframe = FALSE /\ spc = "idle" /\ sending = NoFrame /\ left = 0
        /\ received = 0 /\ abandoned = 0 /\ running = TRUE
    BY DEF Init
  <2>4. left \in 0 .. MaxChunks /\ Len(queue) <= Capacity
    BY <2>2, <2>3, SessionAssumption
  <2>5. read \in 0 .. Len(kind) /\ pushed \in 0 .. read /\ received \in Nat /\ abandoned \in Nat
    BY <2>2, <2>3
  <2>6. /\ omitted \in Excuse /\ suppress \in BOOLEAN /\ running \in BOOLEAN
        /\ waiting_for_keyframe \in BOOLEAN /\ spc \in {"idle", "sending", "abandoning"}
        /\ spc # "sending" /\ gate \in [started : BOOLEAN, skipped : 0 .. MaxSkipped]
        /\ sending \in Frame
    BY <2>1, <2>3 DEF Excuse
  <2> QED BY ONLY <2>2, <2>4, <2>5, <2>6 DEF TypeOK
<1>2. IngestInv /\ QueueInv /\ ChainInv /\ SendInv
  BY DEF Init, IngestInv, QueueInv, ChainInv, SendInv, Chained, Popped, NewGate
<1> QED BY <1>1, <1>2 DEF VideoInv

-----------------------------------------------------------------------------
(* Queues. *)

\* A frame that follows the last one can be appended.
LEMMA ChainGrows ==
  ASSUME NEW q \in Seq(Frame), Chained(q), NEW f \in Frame,
         q # <<>> => q[Len(q)].seq < f.seq /\ Follows(f, q[Len(q)].seq)
  PROVE  Append(q, f) \in Seq(Frame) /\ Chained(Append(q, f))
<1> DEFINE a == Append(q, f)
<1>1. /\ a \in Seq(Frame) /\ Len(a) = Len(q) + 1 /\ a[Len(q) + 1] = f
      /\ \A i \in 1 .. Len(q) : a[i] = q[i]
  BY AppendProperties
<1>2. ASSUME NEW i \in 1 .. Len(a) - 1
      PROVE  Follows(a[i + 1], a[i].seq)
  <2>1. CASE i = Len(q)
    <3>1. q # <<>> /\ a[i + 1] = f /\ a[i] = q[Len(q)]
      BY <1>1, <2>1, EmptySeq
    <3> QED BY <2>1, <3>1
  <2>2. CASE i # Len(q)
    <3>1. i \in 1 .. Len(q) - 1 /\ i + 1 \in 1 .. Len(q)
      BY <1>1, <2>2
    <3> QED BY <1>1, <3>1 DEF Chained
  <2> QED BY <2>1, <2>2
<1>3. ASSUME NEW i \in 1 .. Len(a), NEW j \in i + 1 .. Len(a)
      PROVE  a[i].seq < a[j].seq
  <2>1. i \in 1 .. Len(q) /\ a[i] = q[i] /\ q # <<>> /\ q[i] \in Frame /\ q[Len(q)] \in Frame
    BY <1>1, EmptySeq
  <2>2. CASE j \in 1 .. Len(q)
    BY <1>1, <2>1, <2>2 DEF Chained
  <2>3. CASE j = Len(q) + 1
    <3>1. q[i].seq <= q[Len(q)].seq
      BY <2>1 DEF Chained, Frame
    <3> QED BY <1>1, <2>1, <2>3, <3>1 DEF Frame
  <2> QED BY <1>1, <2>2, <2>3
<1> HIDE DEF a
<1>4. Chained(a)
  BY <1>2, <1>3 DEF Chained
<1> QED BY <1>1, <1>4 DEF a

\* What is left of a queue behind frame i is a queue, and follows frame i.
LEMMA ChainShortens ==
  ASSUME NEW q \in Seq(Frame), Chained(q), NEW i \in 1 .. Len(q)
  PROVE  LET r == SubSeq(q, i + 1, Len(q))
         IN  /\ r \in Seq(Frame) /\ Len(r) = Len(q) - i /\ Chained(r)
             /\ \A j \in 1 .. Len(r) : r[j] = q[i + j]
             /\ r # <<>> => /\ q[i].seq < r[1].seq /\ Follows(r[1], q[i].seq)
                            /\ r[Len(r)] = q[Len(q)]
<1> DEFINE r == SubSeq(q, i + 1, Len(q))
<1>1. Len(q) \in Nat /\ \A j \in i + 1 .. Len(q) : q[j] \in Frame
  OBVIOUS
<1>2. r \in Seq(Frame) /\ Len(r) = Len(q) - i /\ \A j \in 1 .. Len(q) - i : r[j] = q[i + j]
  <2>1. /\ r \in Seq(Frame) /\ Len(r) = IF i + 1 <= Len(q) THEN Len(q) - (i + 1) + 1 ELSE 0
        /\ \A j \in 1 .. Len(q) - (i + 1) + 1 : r[j] = q[i + 1 + j - 1]
    BY <1>1, SubSeqProperties
  <2> HIDE DEF r
  <2>2. Len(q) - (i + 1) + 1 = Len(q) - i /\ \A j \in 1 .. Len(q) - i : i + 1 + j - 1 = i + j
    BY <1>1
  <2>3. ASSUME NEW j \in 1 .. Len(q) - i PROVE r[j] = q[i + j]
    <3>1. r[j] = q[i + 1 + j - 1]
      BY <2>1, <2>2
    <3> QED BY <3>1, <2>2
  <2>4. Len(r) = Len(q) - i
    <3>1. i \in Int /\ 1 <= i /\ i <= Len(q) /\ Len(q) \in Int
      BY <1>1
    <3>2. CASE i = Len(q)
      <4>1. ~ (i + 1 <= Len(q)) /\ Len(q) - i = 0
        BY <3>1, <3>2
      <4> QED BY <2>1, <4>1
    <3>3. CASE i # Len(q)
      <4>1. i + 1 <= Len(q)
        BY <3>1, <3>3
      <4> QED BY <2>1, <2>2, <4>1
    <3> QED BY <3>2, <3>3
  <2> QED BY <2>1, <2>3, <2>4
<1> HIDE DEF r
<1>3. Chained(r)
  <2>0. ASSUME NEW j \in 1 .. Len(r), NEW k \in j + 1 .. Len(r)
        PROVE  r[j].seq < r[k].seq
    <3>1. /\ j \in 1 .. Len(q) - i /\ k \in 1 .. Len(q) - i
          /\ i + j \in 1 .. Len(q) /\ i + k \in (i + j) + 1 .. Len(q)
      BY <1>1, <1>2
    <3> QED BY <1>2, <3>1 DEF Chained
  <2> SUFFICES ASSUME NEW j \in 1 .. Len(r) - 1
               PROVE  Follows(r[j + 1], r[j].seq)
    BY <2>0 DEF Chained
  <2>1. /\ j \in 1 .. Len(q) - i /\ j + 1 \in 1 .. Len(q) - i
        /\ i + (j + 1) = (i + j) + 1 /\ i + j \in 1 .. Len(q) - 1
    BY <1>1, <1>2
  <2>2. r[j] = q[i + j] /\ r[j + 1] = q[(i + j) + 1]
    BY <1>2, <2>1
  <2> QED BY <2>1, <2>2 DEF Chained
<1>4. ASSUME r # <<>>
      PROVE  /\ q[i].seq < r[1].seq /\ Follows(r[1], q[i].seq)
             /\ r[Len(r)] = q[Len(q)]
  <2>1. Len(r) >= 1
    BY <1>2, <1>4, EmptySeq
  <2>2. i \in 1 .. Len(q) - 1 /\ r[1] = q[i + 1] /\ r[Len(r)] = q[i + (Len(q) - i)]
    BY <1>1, <1>2, <2>1
  <2>3. i + (Len(q) - i) = Len(q)
    BY <1>1
  <2>4. i \in 1 .. Len(q) /\ i + 1 \in i + 1 .. Len(q)
    BY <1>1, <2>2
  <2> QED BY <2>2, <2>3, <2>4 DEF Chained
<1> QED BY <1>2, <1>3, <1>4 DEF r

-----------------------------------------------------------------------------
(* The encoder, the policy and the disconnect. *)

LEMMA EncodeKeeps ==
  ASSUME VideoInv, NEW k \in {"key", "delta"}, Encode(k)
  PROVE  VideoInv'
<1> USE DEF VideoInv
<1>1. /\ kind' = Append(kind, k)
      /\ UNCHANGED <<suppress, queue, waiting_for_keyframe, running, read, gate, omitted, pushed,
                    spc, sending, left, received, abandoned>>
  BY DEF Encode, ingestVars, senderVars
<1>2. kind' \in Seq({"key", "delta"}) /\ Len(kind') = Len(kind) + 1
      /\ \A i \in 1 .. Len(kind) : kind'[i] = kind[i]
  BY <1>1, AppendProperties DEF TypeOK
<1>3. pushed \in 0 .. Len(kind) /\ Len(kind) \in Nat
  BY DEF TypeOK
<1>4. TypeOK'
  BY <1>1, <1>2, <1>3 DEF TypeOK
<1>5. \A i \in 1 .. pushed : kind'[i] = kind[i]
  BY <1>2, <1>3
<1>6. QueueInv'
  BY <1>1, <1>5 DEF QueueInv, IsFrame, Popped, Chained, Follows
<1>7. IngestInv' /\ ChainInv' /\ SendInv'
  BY <1>1, <1>5 DEF IngestInv, ChainInv, SendInv, IsFrame, Popped, Follows
<1> QED BY <1>4, <1>6, <1>7

LEMMA QuietKeeps ==
  ASSUME VideoInv, Stop \/ \E v \in BOOLEAN : SetPolicy(v)
  PROVE  VideoInv'
<1> USE DEF VideoInv
<1>1. /\ UNCHANGED <<kind, queue, waiting_for_keyframe, read, gate, omitted, pushed,
                    spc, sending, left, received, abandoned>>
      /\ suppress' \in BOOLEAN /\ running' \in BOOLEAN /\ (running' => running)
  BY DEF Stop, SetPolicy, ingestVars, senderVars, TypeOK
<1>2. TypeOK'
  BY <1>1 DEF TypeOK
<1>3. IngestInv' /\ QueueInv' /\ ChainInv' /\ SendInv'
  BY <1>1 DEF IngestInv, QueueInv, ChainInv, SendInv, IsFrame, Popped, Chained, Follows
<1> QED BY <1>2, <1>3

-----------------------------------------------------------------------------
(* The ingest thread. *)

\* What taking a message says of the gate: a started one has seen no gap.
LEMMA Taken ==
  ASSUME VideoInv, NEW k \in 1 .. Len(kind), NEW gap \in BOOLEAN, Take(k, gap)
  PROVE  /\ read' = k /\ k > read /\ read \in Nat /\ pushed \in 0 .. read /\ running
         /\ UNCHANGED <<kind, suppress, running, spc, sending, left, received, abandoned>>
         /\ GateAfter(gap) \in [started : BOOLEAN, skipped : 0 .. MaxSkipped]
         /\ GateAfter(gap).started => gate.started /\ k = read + 1
<1> USE SessionAssumption DEF VideoInv
<1>1. /\ read' = k /\ k > read /\ read \in Nat /\ pushed \in 0 .. read /\ running
      /\ UNCHANGED <<kind, suppress, running, spc, sending, left, received, abandoned>>
      /\ (k # read + 1 /\ read # 0 => gap)
  BY DEF Take, senderVars, TypeOK
<1>2. NewGate \in [started : BOOLEAN, skipped : 0 .. MaxSkipped] /\ ~ NewGate.started
  BY DEF NewGate
<1>3. GateAfter(gap) \in [started : BOOLEAN, skipped : 0 .. MaxSkipped]
  BY <1>2 DEF GateAfter, TypeOK
<1>4. GateAfter(gap).started => gate.started /\ ~ gap
  BY <1>2 DEF GateAfter
<1> QED BY <1>1, <1>3, <1>4 DEF IngestInv

\* A message is left out, for a reason if the stream has started.
LEMMA OmittedKeeps ==
  ASSUME VideoInv, NEW k \in 1 .. Len(kind), NEW gap \in BOOLEAN,
         IngestUnparsed(k, gap) \/ IngestSuppressed(k, gap) \/ IngestSkipped(k, gap)
  PROVE  VideoInv'
<1> USE SessionAssumption DEF VideoInv
<1>1. /\ read' = k /\ k > read /\ read \in Nat /\ pushed \in 0 .. read /\ running
      /\ UNCHANGED <<kind, suppress, running, spc, sending, left, received, abandoned>>
      /\ GateAfter(gap) \in [started : BOOLEAN, skipped : 0 .. MaxSkipped]
  BY Taken DEF IngestUnparsed, IngestSuppressed, IngestSkipped
<1>2. UNCHANGED <<queue, waiting_for_keyframe, pushed>>
  BY DEF IngestUnparsed, IngestSuppressed, IngestSkipped, Omit
<1>3. /\ gate' \in [started : BOOLEAN, skipped : 0 .. MaxSkipped] /\ omitted' \in Excuse
      /\ gate'.started => omitted' # "none"
  <2>1. CASE IngestUnparsed(k, gap) \/ IngestSuppressed(k, gap)
    BY <1>1, <2>1 DEF IngestUnparsed, IngestSuppressed, Omit, Excuse
  <2>2. CASE IngestSkipped(k, gap)
    <3> DEFINE g == GateAfter(gap)
    <3>1. ~ g.started /\ ~ (g.skipped >= MaxSkipped) /\ omitted' = "none"
          /\ gate' = [g EXCEPT !.skipped = g.skipped + 1]
      BY <2>2 DEF IngestSkipped, Admits
    <3> HIDE DEF g
    <3>2. g \in [started : BOOLEAN, skipped : 0 .. MaxSkipped]
      BY <1>1 DEF g
    <3>3. g.skipped + 1 \in 0 .. MaxSkipped
      BY <3>1, <3>2
    <3> QED BY <3>1, <3>2, <3>3 DEF Excuse
  <2> QED BY <2>1, <2>2
<1>4. TypeOK'
  BY <1>1, <1>2, <1>3 DEF TypeOK
<1>5. IngestInv'
  BY <1>1, <1>3 DEF IngestInv
<1>6. QueueInv' /\ ChainInv' /\ SendInv'
  BY <1>1, <1>2 DEF QueueInv, ChainInv, SendInv, IsFrame, Popped, Chained, Follows
<1> QED BY <1>4, <1>5, <1>6

\* A frame is queued, perhaps in the place of the oldest.
LEMMA QueuedKeeps ==
  ASSUME VideoInv, NEW k \in 1 .. Len(kind), NEW gap \in BOOLEAN, IngestQueued(k, gap)
  PROVE  VideoInv'
<1> USE SessionAssumption DEF VideoInv
<1> DEFINE f == [seq |-> k, key |-> kind[k] = "key",
                 excuse |-> IF kind[k] = "key" THEN "none"
                            ELSE IF GateAfter(gap).started THEN omitted ELSE "start"]
           q == IF Len(queue) >= Capacity THEN Tail(queue) ELSE queue
<1>1. /\ read' = k /\ k > read /\ read \in Nat /\ pushed \in 0 .. read /\ running
      /\ UNCHANGED <<kind, suppress, running, spc, sending, left, received, abandoned>>
      /\ GateAfter(gap) \in [started : BOOLEAN, skipped : 0 .. MaxSkipped]
      /\ GateAfter(gap).started => gate.started /\ k = read + 1
  BY Taken DEF IngestQueued
<1>2. /\ pushed' = k /\ omitted' = "none" /\ queue' = Append(q, f)
      /\ gate' = [GateAfter(gap) EXCEPT !.started = TRUE]
      /\ waiting_for_keyframe' = (waiting_for_keyframe \/ Len(queue) >= Capacity)
  BY DEF IngestQueued, Push
<1>3. f \in Frame /\ f.seq = k /\ (f.key <=> kind[k] = "key") /\ Follows(f, pushed)
  <2>1. f \in Frame
    BY <1>1 DEF Frame, Excuse, TypeOK
  <2>2. CASE kind[k] = "key"
    BY <2>1, <2>2 DEF Follows
  <2>3. CASE kind[k] # "key" /\ ~ GateAfter(gap).started
    BY <2>1, <2>3 DEF Follows
  <2>4. CASE kind[k] # "key" /\ GateAfter(gap).started
    BY <1>1, <2>1, <2>4 DEF Follows, IngestInv
  <2> QED BY <2>1, <2>2, <2>3, <2>4
<1> HIDE DEF f
<1>4. /\ q \in Seq(Frame) /\ Len(q) < Capacity /\ Chained(q)
      /\ \A i \in 1 .. Len(q) : IsFrame(q[i])
      /\ q # <<>> => /\ q[1].seq > Popped /\ q[Len(q)].seq = pushed
                     /\ (Len(queue) < Capacity => queue # <<>> /\ q[1] = queue[1])
      /\ q = <<>> /\ Len(queue) < Capacity => queue = <<>>
  <2>0. queue \in Seq(Frame) /\ Len(queue) \in Nat /\ Len(queue) <= Capacity
    BY DEF TypeOK
  <2>1. CASE Len(queue) < Capacity
    <3>1. q = queue
      BY <2>0, <2>1
    <3> QED BY <2>0, <2>1, <3>1 DEF QueueInv
  <2>2. CASE ~ (Len(queue) < Capacity)
    <3>1. q = Tail(queue) /\ Len(queue) = Capacity /\ queue # <<>> /\ 1 \in 1 .. Len(queue)
      BY <2>0, <2>2, EmptySeq
    <3>2. Tail(queue) = SubSeq(queue, 1 + 1, Len(queue))
      BY <2>0, <3>1, TailIsSubSeq
    <3> HIDE DEF q
    <3>3. /\ q \in Seq(Frame) /\ Len(q) = Len(queue) - 1 /\ Chained(q)
          /\ \A j \in 1 .. Len(q) : q[j] = queue[1 + j]
          /\ q # <<>> => queue[1].seq < q[1].seq /\ q[Len(q)] = queue[Len(queue)]
      BY <2>0, <3>1, <3>2, ChainShortens DEF QueueInv
    <3>4. \A i \in 1 .. Len(q) : IsFrame(q[i])
      <4>1. \A i \in 1 .. Len(q) : 1 + i \in 1 .. Len(queue)
        BY <2>0, <3>3
      <4> QED BY <3>3, <4>1 DEF QueueInv
    <3>5. q # <<>> => q[1].seq > Popped /\ q[Len(q)].seq = pushed
      <4>1. SUFFICES ASSUME q # <<>> PROVE q[1].seq > Popped /\ q[Len(q)].seq = pushed
        OBVIOUS
      <4>2. Len(q) >= 1 /\ 1 \in 1 .. Len(q) /\ q[1] \in Frame /\ queue[1] \in Frame
        BY <2>0, <3>1, <3>3, <4>1, EmptySeq
      <4>3. Popped \in Nat
        BY DEF Popped, TypeOK, Frame
      <4> QED BY <3>1, <3>3, <4>1, <4>2, <4>3 DEF QueueInv, Frame
    <3> QED BY <2>0, <2>2, <3>1, <3>3, <3>4, <3>5
  <2> QED BY <2>1, <2>2
<1> HIDE DEF q
<1>5. /\ queue' \in Seq(Frame) /\ Chained(queue')
      /\ Len(queue') = Len(q) + 1 /\ queue'[Len(q) + 1] = f
      /\ \A i \in 1 .. Len(q) : queue'[i] = q[i]
  <2>1. q # <<>> => q[Len(q)].seq < f.seq /\ Follows(f, q[Len(q)].seq)
    BY <1>1, <1>3, <1>4
  <2> QED BY <1>2, <1>3, <1>4, <2>1, ChainGrows, AppendProperties
<1>6. Len(q) \in Nat /\ Popped \in Nat /\ Popped' = Popped /\ (q # <<>> => Len(q) >= 1)
  BY <1>1, <1>4, EmptySeq DEF Popped, TypeOK, Frame
<1>7. TypeOK'
  <2>1. gate' \in [started : BOOLEAN, skipped : 0 .. MaxSkipped] /\ "none" \in Excuse
    BY <1>1, <1>2 DEF Excuse
  <2>2. Len(queue') <= Capacity
    BY <1>4, <1>5, <1>6
  <2>3. read' \in 0 .. Len(kind') /\ pushed' \in 0 .. read' /\ waiting_for_keyframe' \in BOOLEAN
    BY <1>1, <1>2 DEF TypeOK
  <2> QED BY <1>1, <1>2, <1>5, <2>1, <2>2, <2>3 DEF TypeOK
<1>8. IngestInv'
  BY <1>1, <1>2 DEF IngestInv
<1>9. QueueInv'
  <2>1. ASSUME NEW i \in 1 .. Len(queue')
        PROVE  queue'[i].seq \in 1 .. pushed' /\ (queue'[i].key <=> kind'[queue'[i].seq] = "key")
    <3>1. CASE i = Len(q) + 1
      BY <1>1, <1>2, <1>3, <1>5, <3>1
    <3>2. CASE i # Len(q) + 1
      <4>1. i \in 1 .. Len(q)
        BY <1>5, <1>6, <3>2
      <4>2. IsFrame(q[i]) /\ queue'[i] = q[i]
        BY <1>4, <1>5, <4>1
      <4> QED BY <1>1, <1>2, <4>2 DEF IsFrame
    <3> QED BY <3>1, <3>2
  <2>2. queue'[Len(queue')].seq = pushed'
    BY <1>2, <1>3, <1>5
  <2>3. queue'[1].seq > Popped'
    <3>1. CASE q = <<>>
      <4>1. Len(q) = 0
        BY <3>1, EmptySeq
      <4> QED BY <1>1, <1>3, <1>5, <1>6, <4>1 DEF QueueInv
    <3>2. CASE q # <<>>
      BY <1>4, <1>5, <1>6, <3>2
    <3> QED BY <3>1, <3>2
  <2>4. Popped' <= pushed'
    BY <1>1, <1>2, <1>6 DEF QueueInv
  <2> QED BY <1>5, <2>1, <2>2, <2>3, <2>4 DEF QueueInv, IsFrame
<1>10. ChainInv'
  <2> SUFFICES ASSUME ~ waiting_for_keyframe, Len(queue) < Capacity
               PROVE  queue' # <<>> /\ Follows(queue'[1], Popped)
    <3>1. Len(queue) \in Nat /\ Len(queue) <= Capacity
      BY DEF TypeOK
    <3>2. ~ waiting_for_keyframe' => ~ waiting_for_keyframe /\ Len(queue) < Capacity
      <4>1. Len(queue) >= Capacity \/ Len(queue) < Capacity
        BY <3>1
      <4> QED BY ONLY <1>2, <4>1, Zenon
    <3> QED BY <1>6, <3>2 DEF ChainInv
  <2>1. queue' # <<>>
    BY <1>5, <1>6, EmptySeq
  <2>2. CASE q = <<>>
    <3>1. Len(q) = 0 /\ queue = <<>>
      BY <1>4, <2>2, EmptySeq
    <3> QED BY <1>1, <1>3, <1>5, <2>1, <3>1 DEF ChainInv
  <2>3. CASE q # <<>>
    BY <1>1, <1>4, <1>5, <1>6, <2>1, <2>3 DEF ChainInv
  <2> QED BY <2>2, <2>3
<1>11. SendInv'
  BY <1>1, <1>2 DEF SendInv, IsFrame, Follows
<1> QED BY <1>7, <1>8, <1>9, <1>10, <1>11

-----------------------------------------------------------------------------
(* The sender. *)

\* What is taken follows what the client has: it is the next, or a keyframe was looked for.
LEMMA PopKeeps ==
  ASSUME VideoInv, NEW chunks \in 1 .. MaxChunks, PopNext(chunks)
  PROVE  VideoInv'
<1> USE SessionAssumption DEF VideoInv
<1>1. /\ running /\ spc = "idle" /\ queue # <<>>
      /\ UNCHANGED <<kind, suppress, running, read, gate, omitted, pushed, received, abandoned>>
  BY DEF PopNext, ingestVars
<1>2. queue \in Seq(Frame) /\ Len(queue) \in Nat /\ Len(queue) <= Capacity /\ Popped = received
      /\ received \in Nat /\ pushed \in Nat /\ Len(queue) >= 1
  BY <1>1, EmptySeq DEF TypeOK, Popped
<1>3. IngestInv'
  BY <1>1 DEF IngestInv
<1>4. ASSUME NEW i \in DOMAIN queue, Sendable(i), sending' = queue[i],
             queue' = SubSeq(queue, i + 1, Len(queue)), waiting_for_keyframe' = FALSE,
             spc' = "sending", left' = chunks
      PROVE  VideoInv'
  <2>1. i \in 1 .. Len(queue) /\ 1 \in 1 .. Len(queue)
    BY <1>2, <1>4
  <2>2. /\ queue' \in Seq(Frame) /\ Len(queue') = Len(queue) - i /\ Chained(queue')
        /\ \A j \in 1 .. Len(queue') : queue'[j] = queue[i + j]
        /\ queue' # <<>> => /\ queue[i].seq < queue'[1].seq /\ Follows(queue'[1], queue[i].seq)
                            /\ queue'[Len(queue')] = queue[Len(queue)]
    BY <1>2, <1>4, <2>1, ChainShortens DEF QueueInv
  <2>3. IsFrame(queue[i]) /\ queue[i] \in Frame /\ queue[1] \in Frame
    BY <1>2, <2>1 DEF QueueInv
  <2>4. Popped' = queue[i].seq
    BY <1>4 DEF Popped
  <2>5. Follows(queue[i], received)
    <3>1. CASE waiting_for_keyframe
      BY <1>4, <3>1 DEF Sendable, Follows
    <3>2. CASE ~ waiting_for_keyframe
      BY <1>1, <1>2, <1>4, <3>2 DEF Sendable, ChainInv
    <3> QED BY <3>1, <3>2
  <2>6. received < queue[i].seq
    BY <1>1, <1>2, <2>1, <2>3 DEF QueueInv, Chained, Frame
  <2>7. TypeOK'
    <3>1. chunks \in 0 .. MaxChunks /\ chunks >= 1
      OBVIOUS
    <3>2. Len(queue') <= Capacity
      BY <1>2, <2>1, <2>2
    <3> QED BY <1>1, <1>4, <2>2, <2>3, <3>1, <3>2 DEF TypeOK
  <2>8. QueueInv'
    <3>1. ASSUME NEW j \in 1 .. Len(queue')
          PROVE  queue'[j].seq \in 1 .. pushed /\ (queue'[j].key <=> kind[queue'[j].seq] = "key")
      <4>1. i + j \in 1 .. Len(queue)
        <5>1. Len(queue') = Len(queue) - i
          BY <2>2
        <5> QED BY <1>2, <2>1, <5>1
      <4> QED BY <2>2, <4>1 DEF QueueInv, IsFrame
    <3>2. queue' # <<>> => queue'[1].seq > queue[i].seq /\ queue'[Len(queue')].seq = pushed
      <4> SUFFICES ASSUME queue' # <<>>
                   PROVE  queue'[1].seq > queue[i].seq /\ queue'[Len(queue')].seq = pushed
        OBVIOUS
      <4>1. queue'[1] \in Frame
        BY <2>2, EmptySeq
      <4> QED BY <1>1, <2>2, <2>3, <4>1 DEF QueueInv, Frame
    <3>3. Popped' <= pushed'
      BY <1>1, <1>2, <2>3, <2>4 DEF IsFrame
    <3> QED BY <1>1, <2>2, <2>4, <3>1, <3>2, <3>3 DEF QueueInv, IsFrame
  <2>9. ChainInv'
    <3>1. queue' = <<>> => queue[i].seq = pushed
      <4> SUFFICES ASSUME queue' = <<>> PROVE queue[i].seq = pushed
        OBVIOUS
      <4>1. Len(queue') = 0
        BY EmptySeq
      <4>2. i = Len(queue)
        BY <1>2, <2>1, <2>2, <4>1
      <4> QED BY <1>1, <4>2 DEF QueueInv
    <3> QED BY <1>1, <2>2, <2>4, <3>1 DEF ChainInv, Follows
  <2>10. SendInv'
    BY <1>1, <1>4, <2>3, <2>5, <2>6 DEF SendInv, IsFrame, Follows
  <2> QED BY <1>3, <2>7, <2>8, <2>9, <2>10
<1>5. ASSUME queue' = <<>>, UNCHANGED <<waiting_for_keyframe, spc, sending, left>>,
             ~ \E i \in DOMAIN queue : Sendable(i)
      PROVE  VideoInv'
  <2>1. queue' \in Seq(Frame) /\ Len(queue') = 0 /\ Popped' = Popped
    BY <1>1, <1>5, EmptySeq DEF Popped
  <2>2. waiting_for_keyframe
    BY <1>2, <1>5 DEF Sendable
  <2>3. TypeOK'
    BY <1>1, <1>5, <2>1 DEF TypeOK
  <2>4. QueueInv' /\ ChainInv' /\ SendInv'
    BY <1>1, <1>5, <2>1, <2>2 DEF QueueInv, Chained, ChainInv, SendInv
  <2> QED BY <1>3, <2>3, <2>4
<1> QED BY <1>4, <1>5 DEF PopNext

\* A frame is sent, given up, or lost with the client.
LEMMA SendingKeeps ==
  ASSUME VideoInv, ChunkSent \/ ChunkTakesNothing \/ Abandon \/ ChunkFails
  PROVE  VideoInv'
<1> USE SessionAssumption DEF VideoInv
<1>1. /\ spc \in {"sending", "abandoning"} /\ sending \in Frame /\ received \in Nat
      /\ IsFrame(sending) /\ received < sending.seq /\ Popped = sending.seq
      /\ NoFrame \in Frame /\ pushed \in Nat
      /\ UNCHANGED <<kind, suppress, queue, read, gate, omitted, pushed>>
  BY DEF ChunkSent, ChunkTakesNothing, Abandon, ChunkFails, TypeOK, SendInv, Popped, NoFrame, Frame,
         Excuse, ingestVars
<1>2. IngestInv'
  BY <1>1 DEF IngestInv
<1>3. CASE ChunkSent
  <2>1. /\ spc = "sending" /\ left \in 1 .. MaxChunks /\ left' = left - 1
        /\ UNCHANGED <<waiting_for_keyframe, running, abandoned>>
    BY <1>3 DEF ChunkSent, TypeOK
  <2>2. CASE left = 1
    <3>1. spc' = "idle" /\ sending' = NoFrame /\ received' = sending.seq
      BY <1>3, <2>2 DEF ChunkSent
    <3>2. Popped' = Popped
      BY <1>1, <3>1 DEF Popped
    <3>3. TypeOK'
      BY <1>1, <2>1, <3>1 DEF TypeOK, Frame
    <3>4. QueueInv' /\ ChainInv' /\ SendInv'
      BY <1>1, <2>1, <3>1, <3>2 DEF QueueInv, ChainInv, SendInv, IsFrame, Chained, Follows
    <3> QED BY <1>2, <3>3, <3>4
  <2>3. CASE left # 1
    <3>1. UNCHANGED <<spc, sending, received>>
      BY <1>3, <2>3 DEF ChunkSent
    <3>2. TypeOK'
      BY <1>1, <2>1, <2>3, <3>1 DEF TypeOK
    <3>3. QueueInv' /\ ChainInv' /\ SendInv'
      BY <1>1, <2>1, <3>1 DEF QueueInv, ChainInv, SendInv, IsFrame, Popped, Chained, Follows
    <3> QED BY <1>2, <3>2, <3>3
  <2> QED BY <2>2, <2>3
<1>4. CASE ChunkTakesNothing
  <2>1. /\ spc' = "abandoning"
        /\ UNCHANGED <<waiting_for_keyframe, running, sending, left, received, abandoned>>
    BY <1>4 DEF ChunkTakesNothing
  <2>2. Popped' = Popped
    BY <1>1, <2>1 DEF Popped
  <2>3. TypeOK'
    BY <1>1, <2>1 DEF TypeOK
  <2>4. QueueInv' /\ ChainInv' /\ SendInv'
    BY <1>1, <2>1, <2>2 DEF QueueInv, ChainInv, SendInv, IsFrame, Chained, Follows
  <2> QED BY <1>2, <2>3, <2>4
<1>5. CASE Abandon \/ ChunkFails
  <2>1. /\ spc' = "idle" /\ sending' = NoFrame /\ left' = 0 /\ received' = received
        /\ abandoned' \in Nat /\ running' \in BOOLEAN /\ waiting_for_keyframe' \in BOOLEAN
        /\ waiting_for_keyframe' \/ ~ running'
    BY <1>1, <1>5 DEF Abandon, ChunkFails, TypeOK, Frame
  <2>2. Popped' = received /\ received < Popped
    BY <1>1, <2>1 DEF Popped
  <2>3. TypeOK'
    BY <1>1, <2>1 DEF TypeOK
  <2>4. QueueInv'
    <3>1. Chained(queue)' /\ (\A i \in 1 .. Len(queue) : IsFrame(queue[i]))'
      BY <1>1 DEF QueueInv, IsFrame, Chained, Follows
    <3>2. queue # <<>> => /\ queue[1].seq \in Nat /\ queue[1].seq > Popped
                          /\ queue[Len(queue)].seq = pushed
      <4>1. queue # <<>> => queue[1] \in Frame
        BY EmptySeq DEF TypeOK
      <4> QED BY ONLY QueueInv, <4>1 DEF QueueInv, Frame
    <3>3. Popped \in Nat /\ Popped <= pushed
      BY <1>1 DEF QueueInv, Frame
    <3>4. /\ queue' # <<>> => queue'[1].seq > Popped' /\ queue'[Len(queue')].seq = pushed'
          /\ Popped' <= pushed'
      BY ONLY <1>1, <2>2, <3>2, <3>3
    <3> QED BY ONLY <3>1, <3>4 DEF QueueInv
  <2>5. ChainInv' /\ SendInv'
    BY <2>1 DEF ChainInv, SendInv
  <2> QED BY <1>2, <2>3, <2>4, <2>5
<1> QED BY <1>3, <1>4, <1>5

-----------------------------------------------------------------------------
(* The invariant, and what it gives. *)

LEMMA VideoStep == VideoInv /\ [Next]_vars => VideoInv'
<1> SUFFICES ASSUME VideoInv, [Next]_vars PROVE VideoInv'
  OBVIOUS
<1>1. CASE \E k \in {"key", "delta"} : Encode(k)
  BY <1>1, EncodeKeeps
<1>2. CASE Stop \/ \E v \in BOOLEAN : SetPolicy(v)
  BY <1>2, QuietKeeps
<1>3. CASE \E k \in 1 .. Len(kind), gap \in BOOLEAN : Ingest(k, gap)
  BY <1>3, OmittedKeeps, QueuedKeeps DEF Ingest
<1>4. CASE Sender
  BY <1>4, PopKeeps, SendingKeeps DEF Sender
<1>5. CASE UNCHANGED vars
  <2>1. UNCHANGED <<kind, suppress, queue, waiting_for_keyframe, running, read, gate, omitted, pushed,
                    spc, sending, left, received, abandoned>>
    BY <1>5 DEF vars, ingestVars, senderVars
  <2>2. TypeOK'
    BY <2>1 DEF VideoInv, TypeOK
  <2>3. IngestInv' /\ QueueInv' /\ ChainInv' /\ SendInv'
    BY <2>1 DEF VideoInv, IngestInv, QueueInv, ChainInv, SendInv, IsFrame, Popped, Chained, Follows
  <2> QED BY <2>2, <2>3 DEF VideoInv
<1> QED BY <1>1, <1>2, <1>3, <1>4, <1>5 DEF Next

\* The queue, the gate and the sender's state keep their types and the queue its capacity.
THEOREM VideoTypeCorrect == Spec => []TypeOK
<1>1. VideoInv => TypeOK
  BY DEF VideoInv
<1> QED BY <1>1, VideoStarts, VideoStep, PTL DEF Spec

\* Whatever the ring, the gate, the queue and the socket drop, and in whatever order the two
\* threads notice: the frame a client has just got whole is newer than the one before, and is
\* a keyframe, its successor, or behind a frame that was left out on purpose.
THEOREM StreamDecodes == Spec => Decodable
<1>1. ASSUME VideoInv, [Next]_vars
      PROVE  [received' # received =>
                /\ received' > received
                /\ \/ kind[received'] = "key"
                   \/ received' = received + 1
                   \/ sending.excuse # "none"]_vars
  <2>1. CASE received' = received
    BY <2>1
  <2>2. CASE ChunkSent
    <3>1. spc = "sending" /\ (received' # received => received' = sending.seq)
      BY <2>2 DEF ChunkSent
    <3> QED BY <1>1, <3>1 DEF VideoInv, SendInv, IsFrame, Follows, TypeOK, Frame
  <2>3. received' = received \/ ChunkSent
    BY <1>1 DEF Next, Encode, SetPolicy, Ingest, IngestUnparsed, IngestSuppressed, IngestSkipped,
                IngestQueued, Take, Stop, Sender, PopNext, ChunkSent, ChunkTakesNothing, Abandon,
                ChunkFails, vars, senderVars
  <2> QED BY <2>1, <2>2, <2>3
<1> QED BY <1>1, VideoStarts, VideoStep, PTL DEF Spec, Decodable
=============================================================================
