----------------------------- MODULE ClientWire -----------------------------
(***************************************************************************)
(* The socket of one camera client and the threads of the bridge that use   *)
(* it: the handler (handle_video_client), the video sender it starts and,   *)
(* on the road and wide ports, telemetry_loop.  Both senders write          *)
(* length-prefixed frames; send_mutex is held for one frame at a time.  A   *)
(* frame that stops half way makes the connection useless, so the sender it *)
(* happens to asks for the disconnect, shuts the socket down and ends.      *)
(*                                                                          *)
(* A frame is a few pieces, the bytes one send takes.  Which frames are     *)
(* sent is VideoSession's business, and the deadlines expire at any time.   *)
(***************************************************************************)
EXTENDS Integers

CONSTANTS
  Threads,  \* {"video"} on the driver port, {"video", "telemetry"} on the others
  MaxRound, \* bound: chunks of a video frame, services of a telemetry round
  MaxPieces \* bound: pieces of a frame

ASSUME WireAssumption ==
  /\ "video" \in Threads /\ Threads \subseteq {"video", "telemetry"}
  /\ MaxRound \in Nat /\ MaxRound >= 1
  /\ MaxPieces \in Nat /\ MaxPieces >= 1

VARIABLES
  g_running,
  peer,       \* the client has not closed its end
  telemetry_enabled,
  send_mutex, \* who holds it, or "free"
  pc,         \* per sender: "idle", "waiting", "sending", "recovering", "failed",
              \* "flagged" or "ended"
  rest,       \* per sender: frames left of its round
  togo,       \* per sender: pieces of its frame not yet sent
  begun,      \* per sender: some of its frame is sent
  disconnect, \* per sender: its disconnect_requested flag
  handler,    \* handle_video_client: "loop", "stop", "shut", "join" or "done"
  shut,       \* the socket is shut down
  closed,     \* the descriptor is closed
  cut,        \* history: a frame ended half way
  mixed       \* history: bytes of another frame came behind it

worldVars == <<g_running, peer, telemetry_enabled>>
frameVars == <<send_mutex, rest, togo, begun>>
endVars   == <<disconnect, handler, shut, closed>>
wireVars  == <<cut, mixed>>
vars == <<pc, worldVars, frameVars, endVars, wireVars>>

-----------------------------------------------------------------------------
(* The senders. *)

Goes(t, where) == pc' = [pc EXCEPT ![t] = where]

Release(t) ==
  /\ send_mutex' = "free"
  /\ begun' = [begun EXCEPT ![t] = FALSE] /\ togo' = [togo EXCEPT ![t] = 0]

\* The flags are looked at between frames of video and between rounds of telemetry.
BeginRound(t) ==
  /\ pc[t] = "idle"
  /\ g_running /\ ~ disconnect[t]
  /\ t = "telemetry" => telemetry_enabled
  /\ Goes(t, "waiting")
  /\ \E n \in 1 .. MaxRound : rest' = [rest EXCEPT ![t] = n]
  /\ UNCHANGED <<worldVars, send_mutex, togo, begun, endVars, wireVars>>

EndLoop(t) ==
  /\ pc[t] = "idle"
  /\ ~ g_running \/ disconnect[t]
  /\ Goes(t, "ended")
  /\ UNCHANGED <<worldVars, frameVars, endVars, wireVars>>

\* telemetry_loop finds the client gone.
TelemetryFindsPeerGone ==
  /\ "telemetry" \in Threads /\ pc["telemetry"] = "idle"
  /\ g_running /\ ~ disconnect["telemetry"]
  /\ ~ peer \/ shut
  /\ disconnect' = [disconnect EXCEPT !["telemetry"] = TRUE]
  /\ Goes("telemetry", "ended")
  /\ UNCHANGED <<worldVars, frameVars, handler, shut, closed, wireVars>>

\* Mutant: telemetry sends beside the mutex.
Acquire_unlocked(t) ==
  /\ pc[t] = "waiting"
  /\ t = "video" => send_mutex = "free"
  /\ send_mutex' = t
  /\ \E n \in 1 .. MaxPieces : togo' = [togo EXCEPT ![t] = n]
  /\ Goes(t, "sending")
  /\ UNCHANGED <<worldVars, rest, begun, endVars, wireVars>>

\* The deadline starts once the lock is held.
Acquire(t) ==
  /\ pc[t] = "waiting"
  /\ send_mutex = "free"
  /\ send_mutex' = t
  /\ \E n \in 1 .. MaxPieces : togo' = [togo EXCEPT ![t] = n]
  /\ Goes(t, "sending")
  /\ UNCHANGED <<worldVars, rest, begun, endVars, wireVars>>

MidFrame(t) == pc[t] \in {"sending", "recovering"}

\* Mutant: a round never ends.
GoesOn_for_ever(t) ==
  /\ rest' = [rest EXCEPT ![t] = IF @ = 0 THEN 0 ELSE @ - 1]
  /\ Goes(t, "waiting")

\* The next chunk of the frame, the next service of the round, or back to the loop.
GoesOn(t) ==
  /\ rest' = [rest EXCEPT ![t] = @ - 1]
  /\ Goes(t, IF rest[t] = 1 THEN "idle" ELSE "waiting")

GivesUpRound(t) == rest' = [rest EXCEPT ![t] = 0] /\ Goes(t, "idle")

SendPiece(t) ==
  /\ MidFrame(t) /\ ~ shut
  /\ mixed' = (mixed \/ cut)
  /\ IF togo[t] = 1
       THEN Release(t) /\ GoesOn(t)
       ELSE /\ togo' = [togo EXCEPT ![t] = @ - 1]
            /\ begun' = [begun EXCEPT ![t] = TRUE]
            /\ UNCHANGED <<send_mutex, pc, rest>>
  /\ UNCHANGED <<worldVars, endVars, cut>>

\* The budget is used up before the first byte: video abandons the frame, telemetry
\* drops this service's update.
TakesNothing(t) ==
  /\ pc[t] = "sending" /\ ~ begun[t]
  /\ Release(t)
  /\ IF t = "video" THEN GivesUpRound(t) ELSE GoesOn(t)
  /\ UNCHANGED <<worldVars, endVars, wireVars>>

\* The budget is used up in the middle of the frame: a second one starts.
StartRecovery(t) ==
  /\ pc[t] = "sending" /\ begun[t]
  /\ Goes(t, "recovering")
  /\ UNCHANGED <<worldVars, frameVars, endVars, wireVars>>

\* Mutant: a frame that stops half way is dropped like one that never started.
SendFails_droppable(t) ==
  /\ \/ pc[t] = "recovering"
     \/ MidFrame(t) /\ (shut \/ ~ peer)
  /\ cut' = (cut \/ begun[t])
  /\ Release(t)
  /\ IF begun[t] THEN GoesOn(t) ELSE Goes(t, "failed") /\ UNCHANGED rest
  /\ UNCHANGED <<worldVars, endVars, mixed>>

\* The recovery budget is used up too, or the socket reports an error.  The mutex is
\* free before anything is done about it.
SendFails(t) ==
  /\ \/ pc[t] = "recovering"
     \/ MidFrame(t) /\ (shut \/ ~ peer)
  /\ cut' = (cut \/ begun[t])
  /\ Release(t)
  /\ Goes(t, "failed")
  /\ UNCHANGED <<worldVars, rest, endVars, mixed>>

\* After the statistics are written: video asks telemetry to stop too.
RequestDisconnect(t) ==
  /\ pc[t] = "failed"
  /\ disconnect' = [u \in Threads |-> disconnect[u] \/ u = t \/ t = "video"]
  /\ Goes(t, "flagged")
  /\ UNCHANGED <<worldVars, frameVars, handler, shut, closed, wireVars>>

\* shutdown(client_fd), out of the sending loop, and the flag ends the thread.
ShutDown(t) ==
  /\ pc[t] = "flagged"
  /\ shut' = TRUE
  /\ Goes(t, "ended")
  /\ UNCHANGED <<worldVars, frameVars, disconnect, handler, closed, wireVars>>

Sender(t) ==
  \/ BeginRound(t) \/ EndLoop(t)
  \/ (t = "telemetry" /\ TelemetryFindsPeerGone)
  \/ Acquire(t) \/ SendPiece(t) \/ TakesNothing(t) \/ StartRecovery(t) \/ SendFails(t)
  \/ RequestDisconnect(t) \/ ShutDown(t)

-----------------------------------------------------------------------------
(* The handler, the client and the bridge. *)

\* A control frame turns telemetry on this socket on or off.
SetTelemetry(v) ==
  /\ handler = "loop"
  /\ telemetry_enabled' = v
  /\ UNCHANGED <<pc, g_running, peer, frameVars, endVars, wireVars>>

LeaveLoop ==
  /\ handler = "loop"
  /\ ~ g_running \/ ~ peer \/ shut \/ \E t \in Threads : disconnect[t]
  /\ handler' = "stop"
  /\ UNCHANGED <<pc, worldVars, frameVars, disconnect, shut, closed, wireVars>>

\* Mutant: the video sender is not told.
StopSenders_forgets_video ==
  /\ handler = "stop"
  /\ disconnect' = [t \in Threads |-> disconnect[t] \/ t = "telemetry"]
  /\ handler' = "shut"
  /\ UNCHANGED <<pc, worldVars, frameVars, shut, closed, wireVars>>

StopSenders ==
  /\ handler = "stop"
  /\ disconnect' = [t \in Threads |-> TRUE]
  /\ handler' = "shut"
  /\ UNCHANGED <<pc, worldVars, frameVars, shut, closed, wireVars>>

HandlerShutsDown ==
  /\ handler = "shut"
  /\ shut' = TRUE
  /\ handler' = "join"
  /\ UNCHANGED <<pc, worldVars, frameVars, disconnect, closed, wireVars>>

\* Both threads are joined, the port's slot is given back, the descriptor closed.
CloseClient ==
  /\ handler = "join"
  /\ \A t \in Threads : pc[t] = "ended"
  /\ closed' = TRUE
  /\ handler' = "done"
  /\ UNCHANGED <<pc, worldVars, frameVars, disconnect, shut, wireVars>>

Handler == LeaveLoop \/ StopSenders \/ HandlerShutsDown \/ CloseClient

PeerCloses ==
  /\ peer
  /\ peer' = FALSE
  /\ UNCHANGED <<pc, g_running, telemetry_enabled, frameVars, endVars, wireVars>>

BridgeStops ==
  /\ g_running
  /\ g_running' = FALSE
  /\ UNCHANGED <<pc, peer, telemetry_enabled, frameVars, endVars, wireVars>>

Init ==
  /\ g_running = TRUE /\ peer = TRUE /\ telemetry_enabled = TRUE
  /\ send_mutex = "free"
  /\ pc = [t \in Threads |-> "idle"]
  /\ rest = [t \in Threads |-> 0] /\ togo = [t \in Threads |-> 0]
  /\ begun = [t \in Threads |-> FALSE] /\ disconnect = [t \in Threads |-> FALSE]
  /\ handler = "loop" /\ shut = FALSE /\ closed = FALSE
  /\ cut = FALSE /\ mixed = FALSE

Next ==
  \/ \E t \in Threads : Sender(t)
  \/ \E v \in BOOLEAN : SetTelemetry(v)
  \/ Handler
  \/ PeerCloses
  \/ BridgeStops

Spec == Init /\ [][Next]_vars

\* Threads are scheduled and every deadline expires.  The mutex owes nobody a turn.
Fairness == WF_vars(Handler) /\ \A t \in Threads : WF_vars(Sender(t))

FairSpec == Spec /\ Fairness

-----------------------------------------------------------------------------
(* Properties. *)

Stages == {"idle", "waiting", "sending", "recovering", "failed", "flagged", "ended"}

TypeOK ==
  /\ g_running \in BOOLEAN /\ peer \in BOOLEAN /\ telemetry_enabled \in BOOLEAN
  /\ send_mutex \in Threads \cup {"free"}
  /\ pc \in [Threads -> Stages] /\ rest \in [Threads -> 0 .. MaxRound]
  /\ \A t \in Threads : pc[t] = "waiting" \/ MidFrame(t) => rest[t] >= 1
  /\ togo \in [Threads -> 0 .. MaxPieces]
  /\ begun \in [Threads -> BOOLEAN] /\ disconnect \in [Threads -> BOOLEAN]
  /\ handler \in {"loop", "stop", "shut", "join", "done"}
  /\ shut \in BOOLEAN /\ closed \in BOOLEAN /\ cut \in BOOLEAN /\ mixed \in BOOLEAN

\* No two frames are on the wire at once: a sender that has begun a frame is the only
\* one between the first and the last byte of one (send_mutex).  And no way out of a frame
\* keeps the mutex: who holds it is inside a frame, where deadlines run.
FramesDoNotInterleave ==
  /\ \A t, u \in Threads : MidFrame(t) /\ MidFrame(u) => t = u
  /\ send_mutex # "free" => MidFrame(send_mutex)

\* Once a frame was cut short the session is over: some thread is on its way to shut
\* the socket down, or it is shut down, whatever the other sender does meanwhile.
CutIsFatal ==
  cut => shut \/ \E t \in Threads : pc[t] \in {"failed", "flagged"}

\* Whoever notices the end first, the handler, a sender or the peer, every thread ends
\* and the descriptor is closed: nobody waits for a join, a flag or the mutex for ever.
SessionEnds ==
  (~ g_running \/ ~ peer \/ \E t \in Threads : pc[t] = "failed") ~> closed

\* What bridge_runtime.cc:92 promises of a frame whose bytes have entered TCP: no other
\* bytes come behind a frame that was cut short.
NoBytesBehindCutFrame == ~ mixed
=============================================================================
