---------------------------- MODULE VideoSession ----------------------------
(***************************************************************************)
(* One camera client of the bridge (handle_video_client): a thread that     *)
(* takes encoder messages off the msgq ring and queues their frames, and a  *)
(* thread that sends the queued frames in chunks.  The ring hands over what *)
(* FrameFeed promises: messages in order, a gap flagged.                    *)
(*                                                                          *)
(* A frame that is no keyframe can be decoded only after its predecessor.   *)
(* Frames are lost in five places: in the ring, at the start gate, when the *)
(* client has video suppressed, in the full queue and when the socket takes *)
(* no bytes.  What reaches the client must still be a stream it can decode. *)
(*                                                                          *)
(* Frames are their numbers; kind says which are keyframes.  The counters   *)
(* of the runtime's statistics are left out.                                *)
(***************************************************************************)
EXTENDS Integers, Sequences

CONSTANTS
  Capacity,   \* VIDEO_FRAME_QUEUE_CAPACITY
  MaxSkipped, \* VIDEO_START_MAX_SKIPPED_FRAMES
  MaxChunks,  \* bound: chunks of a frame
  MaxFrames   \* bound: frames the encoder makes

ASSUME SessionAssumption ==
  /\ Capacity \in Nat /\ Capacity >= 1
  /\ MaxSkipped \in Nat
  /\ MaxChunks \in Nat /\ MaxChunks >= 1
  /\ MaxFrames \in Nat

VARIABLES
  kind,      \* the encoder's frames so far: "key" or "delta"
  read,      \* the last message taken off the ring
  gate,      \* KeyframeStartGate
  suppress,  \* the session policy: the client wants no video for now
  omitted,   \* history: why the started stream lacks frame read, or "none"
  queue,     \* VideoFrameQueue's frames_
  waiting_for_keyframe,
  pushed,    \* history: the last frame queued
  spc,       \* the sender: "idle", "sending" or "abandoning"
  sending,   \* the frame it sends
  left,      \* the chunks of it still to send
  received,  \* the last frame the client has all chunks of
  abandoned, \* history: the last frame given up because no byte got through
  running    \* no thread has asked for the disconnect

ingestVars == <<read, gate, omitted, pushed>>
senderVars == <<spc, sending, left, received, abandoned>>
vars == <<kind, suppress, queue, waiting_for_keyframe, running, ingestVars, senderVars>>

-----------------------------------------------------------------------------
(* The start gate and the frame queue. *)

\* excuse (history): why the frame need not follow its predecessor.
Excuse == {"none", "start", "suppressed", "unparsed"}
Frame == [seq : Nat, key : BOOLEAN, excuse : Excuse]
NoFrame == [seq |-> 0, key |-> FALSE, excuse |-> "none"]

NewGate == [started |-> FALSE, skipped |-> 0]

\* Mutant: a gap in the ring does not close the gate.
GateAfter_ignores_gap(gap) == gate

\* The stream starts over behind a gap, as a new client's does.
GateAfter(gap) == IF gap THEN NewGate ELSE gate

Admits(g, key) == g.started \/ key \/ g.skipped >= MaxSkipped

\* Mutant: what is left of the queue is sent although a frame of it was dropped.
Push_silently(f) ==
  /\ queue' = Append(IF Len(queue) >= Capacity THEN Tail(queue) ELSE queue, f)
  /\ UNCHANGED waiting_for_keyframe

\* Mutant: the queue makes room for one frame too many.
Push_off_by_one(f) ==
  /\ queue' = Append(IF Len(queue) > Capacity THEN Tail(queue) ELSE queue, f)
  /\ waiting_for_keyframe' = (waiting_for_keyframe \/ Len(queue) > Capacity)

\* The queue never holds more than Capacity frames, so one makes room.
Push(f) ==
  /\ queue' = Append(IF Len(queue) >= Capacity THEN Tail(queue) ELSE queue, f)
  /\ waiting_for_keyframe' = (waiting_for_keyframe \/ Len(queue) >= Capacity)

\* Where pop_next finds the frame to send.
Sendable(i) ==
  /\ i \in DOMAIN queue
  /\ IF waiting_for_keyframe
       THEN queue[i].key /\ \A j \in 1 .. i - 1 : ~ queue[j].key
       ELSE i = 1

-----------------------------------------------------------------------------
(* The encoder and the client's session policy. *)

Encode(k) ==
  /\ Len(kind) < MaxFrames
  /\ kind' = Append(kind, k)
  /\ UNCHANGED <<suppress, queue, waiting_for_keyframe, running, ingestVars, senderVars>>

\* A set_policy control frame, on this connection or another of the same session.
SetPolicy(v) ==
  /\ suppress # v
  /\ suppress' = v
  /\ UNCHANGED <<kind, queue, waiting_for_keyframe, running, ingestVars, senderVars>>

-----------------------------------------------------------------------------
(* The ingest thread. *)

Take(k, gap) ==
  /\ running
  /\ k \in read + 1 .. Len(kind)
  /\ k # read + 1 /\ read # 0 => gap
  /\ read' = k
  /\ UNCHANGED <<kind, suppress, running, senderVars>>

\* The frame is dropped and the gate left as it is.
Omit(gap, why) ==
  /\ gate' = GateAfter(gap)
  /\ omitted' = IF GateAfter(gap).started THEN why ELSE "none"
  /\ UNCHANGED <<queue, waiting_for_keyframe, pushed>>

\* The message does not parse.
IngestUnparsed(k, gap) == Take(k, gap) /\ Omit(gap, "unparsed")

IngestSuppressed(k, gap) == Take(k, gap) /\ suppress /\ Omit(gap, "suppressed")

IngestSkipped(k, gap) ==
  /\ Take(k, gap)
  /\ ~ suppress
  /\ ~ Admits(GateAfter(gap), kind[k] = "key")
  /\ gate' = [GateAfter(gap) EXCEPT !.skipped = @ + 1]
  /\ omitted' = "none"
  /\ UNCHANGED <<queue, waiting_for_keyframe, pushed>>

IngestQueued(k, gap) ==
  /\ Take(k, gap)
  /\ ~ suppress
  /\ Admits(GateAfter(gap), kind[k] = "key")
  /\ gate' = [GateAfter(gap) EXCEPT !.started = TRUE]
  /\ omitted' = "none"
  /\ pushed' = k
  /\ Push([seq |-> k, key |-> kind[k] = "key",
           excuse |-> IF kind[k] = "key" THEN "none"
                      ELSE IF GateAfter(gap).started THEN omitted ELSE "start"])

\* The socket is found dead, the telemetry thread gave up, or the bridge stops.
Stop ==
  /\ running
  /\ running' = FALSE
  /\ UNCHANGED <<kind, suppress, queue, waiting_for_keyframe, ingestVars, senderVars>>

-----------------------------------------------------------------------------
(* The sender thread. *)

\* Mutant: a delta frame at the front is left there.
PopNext_stuck(chunks) ==
  /\ running /\ spc = "idle" /\ queue # <<>>
  /\ waiting_for_keyframe => Head(queue).key
  /\ sending' = Head(queue) /\ queue' = Tail(queue)
  /\ waiting_for_keyframe' = FALSE
  /\ spc' = "sending" /\ left' = chunks
  /\ UNCHANGED <<kind, suppress, running, ingestVars, received, abandoned>>

PopNext(chunks) ==
  /\ running /\ spc = "idle" /\ queue # <<>>
  /\ IF \E i \in DOMAIN queue : Sendable(i)
       THEN \E i \in DOMAIN queue :
              /\ Sendable(i)
              /\ sending' = queue[i]
              /\ queue' = SubSeq(queue, i + 1, Len(queue))
              /\ waiting_for_keyframe' = FALSE
              /\ spc' = "sending" /\ left' = chunks
       ELSE queue' = <<>> /\ UNCHANGED <<waiting_for_keyframe, spc, sending, left>>
  /\ UNCHANGED <<kind, suppress, running, ingestVars, received, abandoned>>

\* The thread looks at the flags between frames only.
ChunkSent ==
  /\ spc = "sending"
  /\ left' = left - 1
  /\ IF left = 1
       THEN spc' = "idle" /\ sending' = NoFrame /\ received' = sending.seq
       ELSE UNCHANGED <<spc, sending, received>>
  /\ UNCHANGED <<kind, suppress, queue, waiting_for_keyframe, running, ingestVars, abandoned>>

\* Backpressure before the first byte of a chunk.
ChunkTakesNothing ==
  /\ spc = "sending"
  /\ spc' = "abandoning"
  /\ UNCHANGED <<kind, suppress, queue, waiting_for_keyframe, running, ingestVars,
                 sending, left, received, abandoned>>

\* Under the queue's lock, which the ingest thread may have taken first.
Abandon ==
  /\ spc = "abandoning"
  /\ waiting_for_keyframe' = TRUE
  /\ spc' = "idle" /\ sending' = NoFrame /\ left' = 0
  /\ abandoned' = sending.seq
  /\ UNCHANGED <<kind, suppress, queue, running, ingestVars, received>>

\* Part of a chunk, or an error: the wire is lost and so is the client.
ChunkFails ==
  /\ spc = "sending"
  /\ running' = FALSE
  /\ spc' = "idle" /\ sending' = NoFrame /\ left' = 0
  /\ UNCHANGED <<kind, suppress, queue, waiting_for_keyframe, ingestVars, received, abandoned>>

Sender ==
  \/ \E chunks \in 1 .. MaxChunks : PopNext(chunks)
  \/ ChunkSent
  \/ ChunkTakesNothing
  \/ Abandon
  \/ ChunkFails

-----------------------------------------------------------------------------
Init ==
  /\ kind = <<>> /\ read = 0 /\ gate = NewGate
  /\ suppress = FALSE /\ omitted = "none"
  /\ queue = <<>> /\ waiting_for_keyframe = FALSE /\ pushed = 0
  /\ spc = "idle" /\ sending = NoFrame /\ left = 0 /\ received = 0 /\ abandoned = 0
  /\ running = TRUE

Ingest(k, gap) ==
  \/ IngestUnparsed(k, gap)
  \/ IngestSuppressed(k, gap)
  \/ IngestSkipped(k, gap)
  \/ IngestQueued(k, gap)

Next ==
  \/ \E k \in {"key", "delta"} : Encode(k)
  \/ \E v \in BOOLEAN : SetPolicy(v)
  \/ \E k \in 1 .. Len(kind), gap \in BOOLEAN : Ingest(k, gap)
  \/ Stop
  \/ Sender

Spec == Init /\ [][Next]_vars

\* The sender loops until the disconnect, and every send ends at its deadline.
FairSpec == Spec /\ WF_vars(Sender)

-----------------------------------------------------------------------------
(* Properties. *)

TypeOK ==
  /\ kind \in Seq({"key", "delta"})
  /\ read \in 0 .. Len(kind) /\ pushed \in 0 .. read
  /\ gate \in [started : BOOLEAN, skipped : 0 .. MaxSkipped]
  /\ suppress \in BOOLEAN /\ omitted \in Excuse
  /\ queue \in Seq(Frame) /\ Len(queue) <= Capacity
  /\ waiting_for_keyframe \in BOOLEAN
  /\ spc \in {"idle", "sending", "abandoning"}
  /\ sending \in Frame /\ left \in 0 .. MaxChunks
  /\ spc = "sending" => left >= 1
  /\ received \in Nat /\ abandoned \in Nat
  /\ running \in BOOLEAN

\* The frame the client has just got whole is newer than the last one, and it is a
\* keyframe, the successor of the last one, or a frame whose predecessor the ingest
\* thread left out on purpose: whatever the ring, the queue and the socket dropped
\* before, in whatever order the two threads noticed (KeyframeStartGate,
\* VideoFrameQueue, note_backpressure_without_partial_send).
Decodable ==
  [][received' # received =>
       /\ received' > received
       /\ \/ kind[received'] = "key"
          \/ received' = received + 1
          \/ sending.excuse # "none"]_vars

\* A keyframe that was queued reaches the client, unless a newer frame is queued, the
\* socket takes nothing or the client goes: no state of the queue holds it back.
KeyframeGetsThrough ==
  \A k \in 1 .. MaxFrames :
    (pushed = k /\ kind[k] = "key")
      ~> (received >= k \/ abandoned >= k \/ pushed > k \/ ~ running)

\* What bridge_runtime.cc:93 says of the session's queue, "resumes on a keyframe after
\* drops", for the drops it counts as "suppress-video drop" as well.
ResumesOnKeyframe ==
  [][received' # received =>
       \/ kind[received'] = "key"
       \/ received' = received + 1
       \/ sending.excuse \in {"start", "unparsed"}]_vars
=============================================================================
