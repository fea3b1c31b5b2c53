---------------------------- MODULE DaemonProofs ----------------------------
(***************************************************************************)
(* The parts of bridge mode and of control mode that MCDaemon puts side by  *)
(* side, for every value of their constants, and that side by side they do  *)
(* what each does alone.                                                    *)
(*                                                                          *)
(* Two senders of a client: who is inside a frame holds send_mutex.         *)
(*                                                                          *)
(* A port serves one client: the counter is the number of connections that  *)
(* have taken it and not given it back, so who finds it zero finds nobody    *)
(* inside.                                                                  *)
(*                                                                          *)
(* Updates of a service never arrive twice or out of order, for any window  *)
(* and sample rate and a wall clock that is set at will.  "Newer" is decided *)
(* by times that may lie; what keeps the order is that SocketServer holds   *)
(* one frame of a service, and that the mark is that frame's own time.      *)
(*                                                                          *)
(* No signal to reload the config is lost, and no telemetry loop takes its  *)
(* copy of the policies for the ones in force when it is not.  The invariant *)
(* says, of every point of the reload, what has been read: at least what    *)
(* the last apply promised, or a signal is pending that will have it read   *)
(* again.                                                                   *)
(*                                                                          *)
(* A drive that was noticed is in one place: being driven, queued for its   *)
(* run, or over with; queueing, delaying, dropping and picking runs moves   *)
(* it, and neither loses nor doubles it.                                    *)
(*                                                                          *)
(* The API's thread and the program it runs never wait for each other in a  *)
(* circle: what is in the stderr pipe and what the program has still to     *)
(* print there fit the pipe together, so it is stopped by stdout alone,     *)
(* which is being read.                                                     *)
(***************************************************************************)
EXTENDS MCDaemon, PickingProofs, FiniteSetTheorems

-----------------------------------------------------------------------------
(* The client's socket. *)

\* A sender inside a frame, and nobody else, holds the mutex; it has pieces left.
MutexInv ==
  /\ \A t \in Threads : MidFrame(t) => send_mutex = t /\ togo[t] >= 1
  /\ send_mutex # "free" => MidFrame(send_mutex)

WireInv == TypeOK /\ MutexInv /\ CutIsFatal

\* The initial state.
LEMMA WireStarts == Init => WireInv
<1> SUFFICES ASSUME Init PROVE WireInv
  OBVIOUS
<1> USE WireAssumption DEF Init
<1>1. TypeOK
  <2>1. pc \in [Threads -> Stages] /\ rest \in [Threads -> 0 .. MaxRound]
    BY DEF Stages
  <2>2. togo \in [Threads -> 0 .. MaxPieces]
    OBVIOUS
  <2>3. begun \in [Threads -> BOOLEAN] /\ disconnect \in [Threads -> BOOLEAN]
    OBVIOUS
  <2>4. \A t \in Threads : pc[t] = "waiting" \/ MidFrame(t) => rest[t] >= 1
    BY DEF MidFrame
  <2> QED BY <2>1, <2>2, <2>3, <2>4 DEF TypeOK
<1>2. MutexInv
  BY DEF MutexInv, MidFrame
<1>3. CutIsFatal
  BY DEF CutIsFatal
<1> QED BY <1>1, <1>2, <1>3 DEF WireInv

\* Every step of a sender keeps the types: rounds and frames are counted down from
\* bounds, and not beyond zero.
LEMMA SenderTypes ==
  ASSUME WireInv, NEW t \in Threads, Sender(t)
  PROVE  TypeOK'
<1> USE WireAssumption DEF WireInv, TypeOK, Stages, MidFrame, Goes, Release, endVars, wireVars,
        worldVars, frameVars
<1>1. CASE BeginRound(t)
  BY <1>1 DEF BeginRound
<1>2. CASE EndLoop(t)
  BY <1>2 DEF EndLoop
<1>3. CASE t = "telemetry" /\ TelemetryFindsPeerGone
  BY <1>3 DEF TelemetryFindsPeerGone
<1>4. CASE Acquire(t)
  BY <1>4 DEF Acquire
<1>5. CASE SendPiece(t)
  <2>1. rest[t] \in 1 .. MaxRound /\ togo[t] \in 1 .. MaxPieces
    BY <1>5 DEF SendPiece, MutexInv
  <2>2. UNCHANGED <<g_running, peer, telemetry_enabled, disconnect, handler, shut, closed, cut>>
        /\ mixed' \in BOOLEAN
    BY <1>5 DEF SendPiece
  <2>3. CASE togo[t] = 1
    <3>1. /\ send_mutex' = "free"
          /\ begun' \in [Threads -> BOOLEAN] /\ togo' \in [Threads -> 0 .. MaxPieces]
      <4>1. /\ send_mutex' = "free"
            /\ begun' = [begun EXCEPT ![t] = FALSE] /\ togo' = [togo EXCEPT ![t] = 0]
        BY <1>5, <2>3 DEF SendPiece
      <4> QED BY <4>1
    <3>2. /\ rest' = [rest EXCEPT ![t] = @ - 1]
          /\ pc' = [pc EXCEPT ![t] = IF rest[t] = 1 THEN "idle" ELSE "waiting"]
      BY <1>5, <2>3 DEF SendPiece, GoesOn
    <3>3. pc' \in [Threads -> Stages] /\ rest' \in [Threads -> 0 .. MaxRound]
      BY <2>1, <3>2
    <3>4. \A u \in Threads : (pc[u] = "waiting" \/ MidFrame(u))' => rest'[u] >= 1
      BY <2>1, <3>2
    <3> QED BY <2>2, <3>1, <3>3, <3>4
  <2>4. CASE togo[t] # 1
    <3>1. /\ togo' = [togo EXCEPT ![t] = @ - 1] /\ begun' = [begun EXCEPT ![t] = TRUE]
          /\ UNCHANGED <<send_mutex, pc, rest>>
      BY <1>5, <2>4 DEF SendPiece
    <3>2. togo' \in [Threads -> 0 .. MaxPieces] /\ begun' \in [Threads -> BOOLEAN]
      BY <2>1, <3>1
    <3> QED BY <2>2, <3>1, <3>2
  <2> QED BY <2>3, <2>4
<1>6. CASE TakesNothing(t)
  BY <1>6 DEF TakesNothing, GoesOn, GivesUpRound
<1>7. CASE StartRecovery(t)
  BY <1>7 DEF StartRecovery
<1>8. CASE SendFails(t)
  BY <1>8 DEF SendFails
<1>9. CASE RequestDisconnect(t)
  BY <1>9 DEF RequestDisconnect
<1>10. CASE ShutDown(t)
  BY <1>10 DEF ShutDown
<1> QED
  BY <1>1, <1>2, <1>3, <1>4, <1>5, <1>6, <1>7, <1>8, <1>9, <1>10 DEF Sender

\* Only Acquire enters a frame, with the mutex free; who leaves one gives it back.
LEMMA SenderMutex ==
  ASSUME WireInv, NEW t \in Threads, Sender(t)
  PROVE  MutexInv'
<1> SUFFICES /\ \A u \in Threads : MidFrame(u)' => send_mutex' = u /\ togo'[u] >= 1
             /\ send_mutex' # "free" => pc'[send_mutex'] \in {"sending", "recovering"}
  BY DEF MutexInv, MidFrame
<1>0. "free" \notin Threads
  BY WireAssumption
<1> USE WireAssumption DEF WireInv, TypeOK, MutexInv, MidFrame, Goes, Release, frameVars
<1>1. CASE BeginRound(t)
  BY <1>1 DEF BeginRound
<1>2. CASE EndLoop(t)
  BY <1>2 DEF EndLoop
<1>3. CASE t = "telemetry" /\ TelemetryFindsPeerGone
  BY <1>3 DEF TelemetryFindsPeerGone
<1>4. CASE Acquire(t)
  <2>1. /\ pc'[t] = "sending" /\ send_mutex' = t
        /\ \E n \in 1 .. MaxPieces : togo'[t] = n
    BY <1>4 DEF Acquire, Stages
  <2>2. \A u \in Threads : MidFrame(u)' => u = t
    BY <1>0, <1>4 DEF Acquire, Stages
  <2> QED BY <2>1, <2>2
<1>5. CASE SendPiece(t)
  <2>1. CASE togo[t] = 1
    BY <1>5, <2>1 DEF SendPiece, GoesOn
  <2>2. CASE togo[t] # 1
    BY <1>5, <2>2 DEF SendPiece
  <2> QED BY <2>1, <2>2
<1>6. CASE TakesNothing(t)
  BY <1>6 DEF TakesNothing, GoesOn, GivesUpRound
<1>7. CASE StartRecovery(t)
  BY <1>7 DEF StartRecovery
<1>8. CASE SendFails(t)
  BY <1>8 DEF SendFails
<1>9. CASE RequestDisconnect(t)
  BY <1>9 DEF RequestDisconnect
<1>10. CASE ShutDown(t)
  BY <1>10 DEF ShutDown
<1> QED
  BY <1>1, <1>2, <1>3, <1>4, <1>5, <1>6, <1>7, <1>8, <1>9, <1>10 DEF Sender

\* Whoever cuts a frame fails, is flagged and shuts the socket down, in steps of its
\* own that nobody else can take back.
LEMMA SenderEnds ==
  ASSUME WireInv, NEW t \in Threads, Sender(t)
  PROVE  CutIsFatal'
<1> USE DEF WireInv, TypeOK, CutIsFatal, MidFrame, Goes, Release,
        endVars, wireVars, worldVars, frameVars
<1>1. CASE BeginRound(t)
  BY <1>1 DEF BeginRound
<1>2. CASE EndLoop(t)
  BY <1>2 DEF EndLoop
<1>3. CASE t = "telemetry" /\ TelemetryFindsPeerGone
  BY <1>3 DEF TelemetryFindsPeerGone
<1>4. CASE Acquire(t)
  BY <1>4 DEF Acquire
<1>5. CASE SendPiece(t)
  BY <1>5 DEF SendPiece, GoesOn
<1>6. CASE TakesNothing(t)
  BY <1>6 DEF TakesNothing, GoesOn, GivesUpRound
<1>7. CASE StartRecovery(t)
  BY <1>7 DEF StartRecovery
<1>8. CASE SendFails(t)
  BY <1>8 DEF SendFails
<1>9. CASE RequestDisconnect(t)
  BY <1>9 DEF RequestDisconnect
<1>10. CASE ShutDown(t)
  BY <1>10 DEF ShutDown
<1> QED
  BY <1>1, <1>2, <1>3, <1>4, <1>5, <1>6, <1>7, <1>8, <1>9, <1>10 DEF Sender

\* The handler, the client and the bridge touch no sender's frame.
LEMMA OthersKeepWire ==
  ASSUME WireInv,
         (\E v \in BOOLEAN : SetTelemetry(v)) \/ Handler \/ PeerCloses \/ BridgeStops
  PROVE  WireInv'
<1> USE DEF WireInv, TypeOK, MutexInv, CutIsFatal, MidFrame,
        endVars, wireVars, worldVars, frameVars
<1>1. ASSUME NEW v \in BOOLEAN, SetTelemetry(v)
      PROVE  WireInv'
  BY <1>1 DEF SetTelemetry
<1>2. CASE LeaveLoop
  BY <1>2 DEF LeaveLoop
<1>3. CASE StopSenders
  BY <1>3 DEF StopSenders
<1>4. CASE HandlerShutsDown
  BY <1>4 DEF HandlerShutsDown
<1>5. CASE CloseClient
  BY <1>5 DEF CloseClient
<1>6. CASE PeerCloses
  BY <1>6 DEF PeerCloses
<1>7. CASE BridgeStops
  BY <1>7 DEF BridgeStops
<1> QED
  BY <1>1, <1>2, <1>3, <1>4, <1>5, <1>6, <1>7 DEF Handler

LEMMA WireStep == WireInv /\ [Next]_vars => WireInv'
<1> SUFFICES ASSUME WireInv, [Next]_vars
             PROVE  WireInv'
  OBVIOUS
<1>1. ASSUME NEW t \in Threads, Sender(t)
      PROVE  WireInv'
  BY <1>1, SenderTypes, SenderMutex, SenderEnds DEF WireInv
<1>2. CASE UNCHANGED vars
  BY <1>2 DEF WireInv, TypeOK, MutexInv, CutIsFatal, MidFrame, vars,
     endVars, wireVars, worldVars, frameVars
<1> QED
  BY <1>1, <1>2, OthersKeepWire DEF Next

LEMMA WireIsInvariant == Spec => []WireInv
  BY WireStarts, WireStep, PTL DEF Spec

\* Every reachable state of the threads, the handler and the socket is well typed: the
\* rounds of a sender and the pieces of a frame stay within their bounds.
THEOREM WireTypeCorrect == Spec => []TypeOK
<1>1. WireInv => TypeOK
  BY DEF WireInv
<1> QED BY <1>1, WireIsInvariant, PTL

\* send_mutex keeps the frames of any number of senders apart on the wire.
THEOREM OneFrameAtATime == Spec => []FramesDoNotInterleave
<1>1. WireInv => FramesDoNotInterleave
  BY DEF WireInv, MutexInv, FramesDoNotInterleave
<1> QED BY <1>1, WireIsInvariant, PTL

\* A frame cut short always leaves somebody on the way to shut the socket down.
THEOREM CutEndsTheSession == Spec => []CutIsFatal
<1>1. WireInv => CutIsFatal
  BY DEF WireInv
<1> QED BY <1>1, WireIsInvariant, PTL

-----------------------------------------------------------------------------
(* The slot. *)

SlotInv ==
  /\ SlotTypeOK
  /\ active = Cardinality(Holding)
  /\ OneSession

\* A connection that takes the counter is one more, one that gives it back one less.
LEMMA Counted ==
  /\ IsFiniteSet(Holding) /\ Cardinality(Holding) \in Nat
  /\ Cardinality(Holding) = 0 <=> Holding = {}
  /\ \A c \in Connections \ Holding : Cardinality(Holding \cup {c}) = Cardinality(Holding) + 1
  /\ \A c \in Holding : Cardinality(Holding \ {c}) = Cardinality(Holding) - 1
                        /\ Cardinality(Holding) >= 1
<1>1. IsFiniteSet(Holding)
  BY SlotAssumption, FS_Subset DEF Holding
<1>2. Cardinality(Holding) \in Nat
  BY <1>1, FS_CardinalityType
<1>3. Cardinality(Holding) = 0 <=> Holding = {}
  BY <1>1, FS_EmptySet
<1>4. \A c \in Connections \ Holding : Cardinality(Holding \cup {c}) = Cardinality(Holding) + 1
  BY <1>1, FS_AddElement
<1>5. \A c \in Holding : Cardinality(Holding \ {c}) = Cardinality(Holding) - 1
  BY <1>1, FS_RemoveElement
<1>6. \A c \in Holding : Cardinality(Holding) >= 1
  BY <1>2, <1>3
<1> QED BY <1>1, <1>2, <1>3, <1>4, <1>5, <1>6

LEMMA SlotStarts == SlotInit => SlotInv
<1> SUFFICES ASSUME SlotInit PROVE SlotInv
  OBVIOUS
<1>1. Holding = {} /\ Sessions = {}
  BY DEF SlotInit, Holding, Sessions
<1>2. SlotTypeOK
  BY DEF SlotInit, SlotTypeOK
<1> QED BY <1>1, <1>2, FS_EmptySet DEF SlotInv, SlotInit, OneSession

\* Who comes and goes outside the slot does not move the counter.
LEMMA OutsideSlot ==
  ASSUME SlotInv, SlotTypeOK', active' = active, Holding' = Holding,
         Sessions' \subseteq Sessions
  PROVE  SlotInv'
BY DEF SlotInv, OneSession

LEMMA SlotStep == SlotInv /\ [SlotNext]_slotVars => SlotInv'
<1> SUFFICES ASSUME SlotInv, [SlotNext]_slotVars
             PROVE  SlotInv'
  OBVIOUS
<1> USE DEF SlotTypeOK
<1>0. SlotTypeOK
  BY DEF SlotInv
<1>1. ASSUME NEW c \in Connections, ClientArrives(c) \/ Connect(c) \/ HangUp(c)
      PROVE  SlotInv'
  <2>1. SlotTypeOK' /\ active' = active
    BY <1>0, <1>1 DEF ClientArrives, Connect, HangUp, Becomes
  <2>2. Holding' = Holding /\ Sessions' = Sessions
    BY <1>0, <1>1 DEF ClientArrives, Connect, HangUp, Becomes, Holding, Sessions
  <2> QED BY <2>1, <2>2, OutsideSlot
<1>2. CASE CheckRunning \/ StopServing
  <2>1. SlotTypeOK' /\ UNCHANGED <<active, visit>>
    BY <1>0, <1>2 DEF CheckRunning, StopServing
  <2> QED BY <2>1, OutsideSlot DEF Holding, Sessions
<1>3. ASSUME NEW c \in Connections, Accept(c)
      PROVE  SlotInv'
  <2>1. SlotTypeOK' /\ active' = active
    BY <1>0, <1>3 DEF Accept, Becomes
  <2>2. Holding' = Holding /\ Sessions' = Sessions
    BY <1>0, <1>3 DEF Accept, Becomes, Holding, Sessions
  <2> QED BY <2>1, <2>2, OutsideSlot
<1>4. ASSUME NEW c \in Connections, FetchAdd(c)
      PROVE  SlotInv'
  <2>1. SlotTypeOK' /\ active' = active + 1
    BY <1>0, <1>4 DEF FetchAdd, Becomes
  <2>2. c \notin Holding /\ Holding' = Holding \cup {c}
    BY <1>0, <1>4 DEF FetchAdd, Becomes, Holding
  <2>3. active' = Cardinality(Holding')
    BY <2>1, <2>2, Counted DEF SlotInv
  <2>4. CASE active > 0
    <3>1. Sessions' = Sessions
      BY <1>0, <1>4, <2>4 DEF FetchAdd, Becomes, Sessions
    <3> QED BY <2>1, <2>3, <3>1 DEF SlotInv, OneSession
  <2>5. CASE ~ active > 0
    <3>1. Holding = {}
      BY <1>0, <2>5, Counted DEF SlotInv
    <3>2. Sessions' \subseteq {c}
      BY <2>2, <3>1 DEF Sessions, Holding
    <3> QED BY <2>1, <2>3, <3>2 DEF SlotInv, OneSession
  <2> QED BY <2>4, <2>5
<1>5. ASSUME NEW c \in Connections, Reject(c) \/ GiveBack(c)
      PROVE  SlotInv'
  <2>1. c \in Holding /\ Holding' = Holding \ {c} /\ Sessions' \subseteq Sessions
    BY <1>0, <1>5 DEF Reject, GiveBack, Becomes, Holding, Sessions
  <2>2. active' = active - 1 /\ active >= 1
    BY <1>5, <2>1, Counted DEF Reject, GiveBack, SlotInv
  <2>3. SlotTypeOK'
    BY <1>0, <1>5, <2>2 DEF Reject, GiveBack, Becomes
  <2>4. active' = Cardinality(Holding')
    BY <2>1, <2>2, Counted DEF SlotInv
  <2> QED BY <2>1, <2>3, <2>4 DEF SlotInv, OneSession
<1>6. ASSUME NEW c \in Connections, LeaveSession(c)
      PROVE  SlotInv'
  <2>1. SlotTypeOK' /\ active' = active
    BY <1>0, <1>6 DEF LeaveSession, Becomes
  <2>2. Holding' = Holding /\ Sessions' = Sessions
    BY <1>0, <1>6 DEF LeaveSession, Becomes, Holding, Sessions
  <2> QED BY <2>1, <2>2, OutsideSlot
<1>7. CASE UNCHANGED slotVars
  BY <1>0, <1>7, OutsideSlot DEF slotVars, Holding, Sessions
<1> QED
  BY <1>1, <1>2, <1>3, <1>4, <1>5, <1>6, <1>7 DEF SlotNext, VideoHandler

\* Every reachable state is well typed, and active_counter_for_port counts exactly the
\* connections between their fetch_add and their fetch_sub: none is lost, none stays.
THEOREM CounterIsExact == SlotSpec => [](SlotTypeOK /\ active = Cardinality(Holding))
<1>1. SlotInv => SlotTypeOK /\ active = Cardinality(Holding)
  BY DEF SlotInv
<1> QED BY <1>1, SlotStarts, SlotStep, PTL DEF SlotSpec

\* handle_video_client lets one connection of a port in, for any number that try.
THEOREM PortServesOne == SlotSpec => []OneSession
<1>1. SlotInv => OneSession
  BY DEF SlotInv
<1> QED BY <1>1, SlotStarts, SlotStep, PTL DEF SlotSpec

-----------------------------------------------------------------------------
(* Telemetry. *)

\* The client has nothing newer than the latest frame; has it that one, its time is marked.
MarksKnow ==
  \A s \in Services :
    /\ received[s] <= latest[s].number
    /\ received[s] > 0 /\ latest[s].number = received[s] => latest[s].at <= last_emit[s]

\* The frame being sent was the latest when it was fetched, and is if no other came.
FetchedInv ==
  \A s \in Services : looping = s =>
    /\ received[s] < fetched.frame.number
    /\ fetched.frame.number <= latest[s].number
    /\ fetched.frame.number = latest[s].number => fetched.frame = latest[s]

EmitInv == TelemetryTypeOK /\ MarksKnow /\ FetchedInv

\* No frame, no send and no mark yet are values of their types.
LEMMA NothingYet ==
  /\ None \in Frames /\ NoSend \in [frame : Frames, now : 0 .. MaxClock]
  /\ Zeros \in [Services -> 0 .. MaxClock] /\ Zeros \in [Services -> 0 .. MaxOffers]
  /\ \A s \in Services : Zeros[s] = 0
<1>1. MaxClock \in Nat /\ MaxOffers \in Nat
  BY TelemetryAssumption
<1>2. 0 \in 0 .. MaxClock /\ 0 \in 0 .. MaxOffers
  BY <1>1
<1>3. None \in Frames
  BY <1>2 DEF None, Frames
<1> QED BY <1>2, <1>3 DEF NoSend, Zeros

LEMMA TelemetryTypeStarts == TelemetryInit => TelemetryTypeOK
<1> SUFFICES ASSUME TelemetryInit PROVE TelemetryTypeOK
  OBVIOUS
<1>1. wall_clock \in 1 .. MaxClock
  BY TelemetryAssumption DEF TelemetryInit
<1>2. latest \in [Services -> Frames]
  BY NothingYet DEF TelemetryInit
<1> QED BY <1>1, <1>2, NothingYet DEF TelemetryInit, TelemetryTypeOK, Modes

LEMMA TelemetryStarts == TelemetryInit => EmitInv
<1> SUFFICES ASSUME TelemetryInit PROVE EmitInv
  OBVIOUS
<1>1. \A s \in Services : received[s] = 0 /\ latest[s].number = 0 /\ looping # s
  BY TelemetryAssumption DEF TelemetryInit, Zeros, None
<1> QED BY <1>1, TelemetryTypeStarts DEF EmitInv, MarksKnow, FetchedInv

\* A new frame of s is newer than all that was sent or is being sent.
LEMMA OfferKeepsOrder ==
  ASSUME EmitInv, NEW s \in Services, Offer(s)
  PROVE  EmitInv'
<1> USE TelemetryAssumption DEF EmitInv, TelemetryTypeOK, linkVars, markVars, clientVars
<1> DEFINE frame == [number |-> latest[s].number + 1, at |-> wall_clock]
<1>1. /\ latest' = [latest EXCEPT ![s] = frame] /\ latest[s].number < MaxOffers
      /\ UNCHANGED <<wall_clock, policy, linkVars, looping, fetched, markVars, clientVars>>
  BY DEF Offer
<1>2. frame \in Frames
  BY <1>1 DEF Frames
<1>3. latest' \in [Services -> Frames] /\ latest'[s] = frame
      /\ \A t \in Services \ {s} : latest'[t] = latest[t]
  BY <1>1, <1>2
<1>4. TelemetryTypeOK'
  BY <1>1, <1>3
<1>5. latest[s].number \in Nat /\ \A t \in Services : received[t] \in Nat
  BY DEF Frames
<1>6. MarksKnow'
  BY <1>1, <1>3, <1>5 DEF MarksKnow
<1>7. ASSUME looping = s
      PROVE  fetched.frame.number < latest'[s].number /\ received[s] < fetched.frame.number
  BY <1>3, <1>5, <1>7 DEF FetchedInv, Frames
<1>8. FetchedInv'
  BY <1>1, <1>3, <1>7 DEF FetchedInv, Frames
<1> QED BY <1>4, <1>6, <1>8

\* AllowsEmit refuses the frame the client has, by its mark.
LEMMA FetchKeepsOrder ==
  ASSUME EmitInv, NEW s \in Services, FetchLatest(s)
  PROVE  EmitInv'
<1> USE TelemetryAssumption DEF EmitInv, TelemetryTypeOK, sourceVars, linkVars, markVars, clientVars
<1>1. /\ fetched' = [frame |-> latest[s], now |-> wall_clock] /\ looping' = s
      /\ latest[s].number # 0 /\ latest[s].at > last_emit[s]
      /\ UNCHANGED <<wall_clock, latest, policy, link, hung_up, flagged, last_emit, last_wall,
                     received, refused>>
  BY DEF FetchLatest, LatestFrame, AllowsEmit
<1>2. latest[s] \in Frames /\ received[s] \in Nat /\ last_emit[s] \in Nat
  OBVIOUS
<1>3. received[s] < latest[s].number
  <2>1. latest[s].number \in Nat /\ latest[s].at \in Nat
    BY <1>2 DEF Frames
  <2>2. received[s] <= latest[s].number
        /\ (received[s] > 0 /\ latest[s].number = received[s] => latest[s].at <= last_emit[s])
    BY DEF MarksKnow
  <2> QED BY ONLY <1>1, <1>2, <2>1, <2>2
<1>4. TelemetryTypeOK'
  BY <1>1, <1>2
<1>5. FetchedInv'
  BY <1>1, <1>2, <1>3 DEF FetchedInv, Frames
<1> QED BY <1>1, <1>4, <1>5 DEF MarksKnow

\* The mark is the time of the frame that was sent; sent or dropped, none is owed again.
LEMMA SendKeepsOrder ==
  ASSUME EmitInv, SendUpdate
  PROVE  EmitInv'
<1> USE TelemetryAssumption DEF EmitInv, TelemetryTypeOK, sourceVars, linkVars
<1>1. PICK s \in Services :
        /\ looping = s
        /\ last_emit' = [last_emit EXCEPT ![s] = fetched.frame.at]
        /\ last_wall' = [last_wall EXCEPT ![s] = fetched.now]
        /\ received' = [received EXCEPT ![s] = fetched.frame.number] \/ received' = received
        /\ refused' \in {refused, refused \cup {s}}
  BY DEF SendUpdate
<1>2. /\ looping' = "idle" /\ fetched' = NoSend
      /\ UNCHANGED <<wall_clock, latest, policy, link, hung_up, flagged>>
  BY DEF SendUpdate
<1>3. fetched.frame \in Frames /\ latest[s] \in Frames /\ received[s] \in Nat
      /\ fetched.now \in 0 .. MaxClock
  OBVIOUS
<1>4. /\ received[s] < fetched.frame.number /\ fetched.frame.number <= latest[s].number
      /\ fetched.frame.number = latest[s].number => fetched.frame = latest[s]
  BY <1>1 DEF FetchedInv
<1>5. /\ last_emit' \in [Services -> 0 .. MaxClock] /\ last_emit'[s] = fetched.frame.at
      /\ \A t \in Services \ {s} : last_emit'[t] = last_emit[t]
  BY <1>1, <1>3 DEF Frames
<1>6. /\ received' \in [Services -> 0 .. MaxOffers]
      /\ received'[s] = fetched.frame.number \/ received'[s] = received[s]
      /\ \A t \in Services \ {s} : received'[t] = received[t]
  BY <1>1, <1>3 DEF Frames
<1>7. last_wall' \in [Services -> 0 .. MaxClock]
  BY <1>1, <1>3
<1>8. TelemetryTypeOK'
  <2>1. refused' \subseteq Services
    BY <1>1
  <2> QED BY <1>2, <1>5, <1>6, <1>7, <2>1, NothingYet
<1>9. FetchedInv'
  BY <1>2 DEF FetchedInv
<1>10. received'[s] <= latest[s].number
       /\ (latest[s].number = received'[s] => latest[s].at <= last_emit'[s])
  BY <1>3, <1>4, <1>5, <1>6 DEF Frames
<1>11. MarksKnow'
  BY <1>2, <1>5, <1>6, <1>10 DEF MarksKnow
<1> QED BY <1>8, <1>9, <1>11

\* The next client starts with nothing received and nothing marked.
LEMMA CloseKeepsOrder ==
  ASSUME EmitInv, CloseTelemetry
  PROVE  EmitInv'
<1> USE TelemetryAssumption DEF EmitInv, TelemetryTypeOK, sourceVars
<1>1. /\ looping = "ended" /\ link' = "none" /\ hung_up' = FALSE /\ flagged' = FALSE
      /\ last_emit' = Zeros /\ last_wall' = Zeros /\ received' = Zeros /\ refused' = {}
      /\ UNCHANGED <<wall_clock, latest, policy, looping, fetched>>
  BY DEF CloseTelemetry
<1>2. TelemetryTypeOK'
  BY <1>1, NothingYet
<1>3. \A s \in Services : received'[s] = 0 /\ looping' # s /\ latest[s].number \in Nat
  BY <1>1, NothingYet DEF Frames
<1> QED BY <1>1, <1>2, <1>3 DEF MarksKnow, FetchedInv

\* Whatever else happens touches neither frames nor marks.
LEMMA OthersKeepOrder ==
  ASSUME EmitInv,
         SetClock \/ SetPolicy \/ SendUpdateFails \/ LoopLeaves \/ ConnectTelemetry
           \/ HangUpTelemetry \/ HandlerLeaves \/ UNCHANGED telemetryVars
  PROVE  EmitInv'
<1> USE TelemetryAssumption
    DEF EmitInv, TelemetryTypeOK, MarksKnow, FetchedInv, sourceVars, linkVars, markVars, clientVars
<1>1. CASE SetClock
  BY <1>1 DEF SetClock
<1>2. CASE SetPolicy
  BY <1>2 DEF SetPolicy
<1>3. CASE SendUpdateFails
  BY <1>3, NothingYet DEF SendUpdateFails
<1>4. CASE LoopLeaves
  BY <1>4 DEF LoopLeaves
<1>5. CASE ConnectTelemetry
  BY <1>5 DEF ConnectTelemetry
<1>6. CASE HangUpTelemetry
  BY <1>6 DEF HangUpTelemetry
<1>7. CASE HandlerLeaves
  BY <1>7 DEF HandlerLeaves
<1>8. CASE UNCHANGED telemetryVars
  BY <1>8 DEF telemetryVars
<1> QED BY <1>1, <1>2, <1>3, <1>4, <1>5, <1>6, <1>7, <1>8

LEMMA TelemetryStep == EmitInv /\ [TelemetryNext]_telemetryVars => EmitInv'
BY OfferKeepsOrder, FetchKeepsOrder, SendKeepsOrder, CloseKeepsOrder, OthersKeepOrder
   DEF TelemetryNext, TelemetryLoop, TelemetryHandler

\* Every reachable state of loop, handler and marks is well typed, and a mark never falls
\* behind a frame the client has.
THEOREM MarksAreInvariant == TelemetrySpec => []EmitInv
BY TelemetryStarts, TelemetryStep, PTL DEF TelemetrySpec

\* telemetry_loop sends a client no update twice and none after a later one, although it
\* compares wall-clock times and the clock may be set back.
THEOREM UpdatesArriveInOrder == TelemetrySpec => []EmitsInOrder
<1>1. EmitInv => EmitsInOrder
  <2> SUFFICES ASSUME EmitInv, NEW s \in Services, looping = s
               PROVE  fetched.frame.number > received[s]
    BY DEF EmitsInOrder
  <2>1. fetched.frame.number \in Nat /\ received[s] \in Nat
    BY TelemetryAssumption DEF EmitInv, TelemetryTypeOK, Frames
  <2> QED BY <2>1 DEF EmitInv, FetchedInv
<1> QED BY <1>1, MarksAreInvariant, PTL

-----------------------------------------------------------------------------
(* The runtime config. *)

\* Where the reload thread can be at each point of the bridge's life.
BridgeInv ==
  /\ bridge \in {"dead", "exec"} => reloader = "wait"
  /\ bridge = "masked" => reloader \in {"wait", "flush"}
  /\ bridge \notin {"up", "stopping"} => loop_generation = -1
  /\ rendered["reload"] # -1 => reloader = "flush"

\* What was read is never older than what was promised, unless a signal is pending; the
\* next bridge is promised no less than this one.
PromiseInv ==
  /\ promised <= promised_next /\ promised_next <= config_file.written
  /\ reloader = "install" => sighup \/ read_config.seen >= promised
  /\ reloader = "flush" => sighup \/ effective.seen >= promised
  /\ bridge \in {"up", "stopping"} /\ reloader = "wait" => sighup \/ effective.seen >= promised

\* A loop is never ahead of the generation.
CopyInv ==
  /\ loop_generation <= generation
  /\ SnapshotMatches

ConfigInv == ConfigTypeOK /\ BridgeInv /\ PromiseInv /\ CopyInv

\* What a reload reads is well typed, and as new as the file.
LEMMA LoadedTypes ==
  ASSUME ConfigTypeOK
  PROVE  Loaded \in Configs /\ Loaded.seen = config_file.written /\ Defaults \in Configs
<1>1. MaxWrites \in Nat /\ config_file.holds \in 0 .. MaxWrites
      /\ config_file.written \in 0 .. MaxWrites
  BY ConfigAssumption DEF ConfigTypeOK
<1>2. 0 \in 0 .. MaxWrites
  BY <1>1
<1>3. Loaded.holds \in 0 .. MaxWrites
  BY <1>1, <1>2 DEF Loaded, PolicyRead
<1> QED BY <1>1, <1>2, <1>3 DEF Loaded, Configs, Defaults

LEMMA ConfigStarts == ConfigInit => ConfigInv
<1> SUFFICES ASSUME ConfigInit PROVE ConfigInv
  OBVIOUS
<1>1. MaxWrites \in Nat /\ MaxStarts \in Nat /\ MaxApplies \in Nat
  BY ConfigAssumption
<1>2. Defaults \in Configs
  BY <1>1 DEF Defaults, Configs
<1>3. ConfigTypeOK
  <2>1. config_file \in [written : 0 .. MaxWrites, holds : 0 .. MaxWrites,
                         is : {"missing", "empty", "cut", "whole"}]
    BY <1>1 DEF ConfigInit
  <2>2. rendered \in [Flushers -> Nat \cup {-1}]
    BY DEF ConfigInit
  <2>3. promised \in 0 .. MaxWrites /\ promised_next \in 0 .. MaxWrites /\ starts \in 0 .. MaxStarts /\ applies \in 0 .. MaxApplies
    BY <1>1 DEF ConfigInit
  <2> QED BY <1>2, <2>1, <2>2, <2>3 DEF ConfigInit, ConfigTypeOK
<1>4. BridgeInv /\ PromiseInv /\ CopyInv
  BY DEF ConfigInit, BridgeInv, PromiseInv, CopyInv, SnapshotMatches, Flushers
<1> QED BY <1>3, <1>4 DEF ConfigInv

\* Control mode writes the file, promises what it has written, and signals the bridge it
\* finds, if it finds one.
LEMMA ControlKeepsConfig ==
  ASSUME ConfigInv, ConfigControl
  PROVE  ConfigInv'
<1> USE ConfigAssumption
    DEF ConfigInv, ConfigTypeOK, BridgeInv, PromiseInv, CopyInv, SnapshotMatches,
        fileVars, controlVars, processVars, reloadVars, loopVars, flushVars
<1>0. MaxWrites \in Nat /\ MaxApplies \in Nat
  OBVIOUS
<1>1. ASSUME NEW policies \in 0 .. config_file.written + 1, WriteConfig(policies)
      PROVE  ConfigInv'
  <2>1. config_file' = [written |-> config_file.written + 1, holds |-> policies, is |-> "empty"]
        /\ config_file.written < MaxWrites
        /\ control' = "writing"
        /\ UNCHANGED <<disk_full, promised, promised_next, applies, bridge, bridge_pid, sighup,
                       starts, reloader, read_config, effective, reloads, generation, loop_config, loop_generation, rendered,
                       stats>>
    BY <1>1 DEF WriteConfig
  <2>2. config_file.written + 1 \in 0 .. MaxWrites /\ policies \in 0 .. MaxWrites
        /\ config_file.written \in Nat /\ promised_next \in Nat /\ promised \in Nat
    BY <1>0, <1>1, <2>1
  <2>3. ConfigTypeOK'
    BY <2>1, <2>2
  <2>4. promised' <= promised_next' /\ promised_next' <= config_file'.written
    BY <2>1, <2>2
  <2> QED BY <2>1, <2>3, <2>4
<1>2. CASE PostConfig \/ RestoreDefaults
  <2>1. config_file.written + 1 \in 0 .. config_file.written + 1 /\ 0 \in 0 .. config_file.written + 1
    BY <1>0
  <2> QED BY <1>1, <1>2, <2>1 DEF PostConfig, RestoreDefaults
<1>3. CASE EndWrite
  <2>1. PICK is \in {"empty", "cut", "whole"} : config_file' = [config_file EXCEPT !.is = is]
    BY <1>3 DEF EndWrite
  <2>2. config_file'.written = config_file.written
        /\ config_file' \in [written : 0 .. MaxWrites, holds : 0 .. MaxWrites,
                             is : {"missing", "empty", "cut", "whole"}]
    BY <2>1
  <2> QED BY <1>3, <2>2 DEF EndWrite
<1>4. CASE BeginApply
  BY <1>0, <1>4 DEF BeginApply
<1>5. CASE SignalBridge
  <2>1. /\ bridge # "dead"
        /\ promised' = config_file.written /\ promised_next' = config_file.written
        /\ control' = "polling"
        /\ sighup' = (bridge # "exec")
        /\ UNCHANGED <<config_file, disk_full, applies, bridge, bridge_pid, starts, reloader,
                       read_config, effective, reloads, generation, loop_config,
                       loop_generation, rendered, stats>>
    BY <1>5 DEF SignalBridge, MayBeFound, Alive
  <2>2. ConfigTypeOK'
    BY <2>1
  <2>3. promised' <= promised_next' /\ promised_next' <= config_file.written
    BY <2>1
  <2>4. reloader # "wait" \/ bridge \in {"up", "stopping"} => sighup'
    BY <2>1
  <2> QED BY <2>1, <2>2, <2>3, <2>4
<1>6. CASE EndApply
  BY <1>6 DEF EndApply
<1>7. CASE FindNoBridge
  <2>1. /\ promised_next' = config_file.written /\ control' = "ready"
        /\ UNCHANGED <<config_file, disk_full, promised, applies, bridge, bridge_pid, sighup,
                       starts, reloader, read_config, effective, reloads, generation,
                       loop_config, loop_generation, rendered, stats>>
    BY <1>7 DEF FindNoBridge
  <2>2. promised' <= promised_next' /\ promised_next' <= config_file.written
    BY <1>0, <2>1
  <2>3. ConfigTypeOK'
    BY <2>1
  <2> QED BY <2>1, <2>2, <2>3
<1> QED BY <1>2, <1>3, <1>4, <1>5, <1>6, <1>7 DEF ConfigControl

\* The bridge starts with nothing loaded and dies with everything forgotten.
LEMMA BridgeKeepsConfig ==
  ASSUME ConfigInv,
         DiskFills \/ BridgeStarts \/ RecordPid \/ StopRemovesPid
           \/ BlockSighup \/ BridgeIsToldToStop \/ BridgeDies
  PROVE  ConfigInv'
<1> USE ConfigAssumption
    DEF ConfigInv, ConfigTypeOK, BridgeInv, PromiseInv, CopyInv, SnapshotMatches,
        fileVars, controlVars, processVars, reloadVars, loopVars, flushVars
<1>1. CASE DiskFills
  BY <1>1 DEF DiskFills
<1>2. CASE BridgeStarts
  BY <1>2 DEF BridgeStarts
<1>3. CASE BlockSighup
  BY <1>3 DEF BlockSighup
<1>4. CASE BridgeIsToldToStop
  BY <1>4 DEF BridgeIsToldToStop
<1>5. CASE BridgeDies
  <2>1. /\ bridge' = "dead" /\ sighup' = FALSE /\ reloader' = "wait"
        /\ read_config' = Defaults /\ effective' = Defaults
        /\ reloads' = 0 /\ generation' = 0 /\ loop_config' = Defaults /\ loop_generation' = -1
        /\ rendered' = [f \in Flushers |-> -1]
        /\ bridge_pid' = "unwritten"
        /\ UNCHANGED <<config_file, disk_full, control, promised, promised_next, applies,
                       starts, stats>>
    BY <1>5 DEF BridgeDies
  <2>2. rendered' \in [Flushers -> Nat \cup {-1}] /\ rendered'["reload"] = -1
    BY <2>1 DEF Flushers
  <2>3. ConfigTypeOK'
    BY <2>1, <2>2, LoadedTypes
  <2>4. BridgeInv'
    BY <2>1, <2>2
  <2> QED BY <2>1, <2>3, <2>4
<1>6. CASE RecordPid
  BY <1>6 DEF RecordPid
<1>7. CASE StopRemovesPid
  BY <1>7 DEF StopRemovesPid
<1> QED BY <1>1, <1>2, <1>3, <1>4, <1>5, <1>6, <1>7

\* Every reload reads the file as it is after the signal it took.
LEMMA ReloadKeepsConfig ==
  ASSUME ConfigInv, InitialLoad \/ TakeSignal \/ ReadConfig \/ InstallConfig
  PROVE  ConfigInv'
<1> USE ConfigAssumption
    DEF ConfigInv, ConfigTypeOK, BridgeInv, PromiseInv, CopyInv, SnapshotMatches,
        fileVars, controlVars, processVars, loopVars, flushVars
<1>0. promised \in Int /\ promised_next \in Int /\ config_file.written \in Int /\ generation \in Nat /\ reloads \in Nat
  OBVIOUS
<1>1. CASE InitialLoad
  <2>1. /\ bridge = "masked" /\ reloader = "wait"
        /\ effective' = Loaded /\ reloader' = "flush"
        /\ rendered' = [rendered EXCEPT !["reload"] = reloads]
        /\ UNCHANGED <<fileVars, controlVars, processVars, sighup, starts, read_config, reloads,
                       generation, loopVars, stats>>
    BY <1>1 DEF InitialLoad, StatsNow
  <2>2. effective'.seen >= promised
    <3>1. Loaded.seen = config_file.written
      BY LoadedTypes
    <3> QED BY <1>0, <2>1, <3>1
  <2>3. ConfigTypeOK'
    BY <2>1, LoadedTypes
  <2> QED BY <1>0, <2>1, <2>2, <2>3
<1>2. CASE TakeSignal
  BY <1>2 DEF TakeSignal
<1>3. CASE ReadConfig
  BY <1>0, <1>3, LoadedTypes DEF ReadConfig
<1>4. CASE InstallConfig
  <2>1. /\ reloader = "install"
        /\ effective' = read_config /\ read_config' = Defaults
        /\ reloads' = reloads + 1 /\ generation' = generation + 1
        /\ reloader' = "flush"
        /\ rendered' = [rendered EXCEPT !["reload"] = reloads + 1]
        /\ UNCHANGED <<fileVars, controlVars, processVars, sighup, starts, loopVars, stats>>
    BY <1>4 DEF InstallConfig, StatsNow
  <2>2. ConfigTypeOK'
    <3>1. rendered' \in [Flushers -> Nat \cup {-1}]
      <4>1. reloads + 1 \in Nat \cup {-1} /\ rendered \in [Flushers -> Nat \cup {-1}]
        BY <1>0
      <4> QED BY ONLY <2>1, <4>1
    <3>2. reloads' \in Nat /\ generation' \in Nat
      BY <1>0, <2>1
    <3>3. read_config' \in Configs /\ effective' \in Configs
      BY <2>1, LoadedTypes
    <3> QED BY <2>1, <3>1, <3>2, <3>3
  <2>3. loop_generation' < generation'
    BY <1>0, <2>1
  <2>4. CopyInv'
    BY <1>0, <2>1, <2>3
  <2> QED BY <2>1, <2>2, <2>4
<1> QED BY <1>1, <1>2, <1>3, <1>4

\* A flush writes statistics and ends a reload, or the start.
LEMMA FlushKeepsConfig ==
  ASSUME ConfigInv, NEW f \in Flushers, WriteStats(f)
  PROVE  ConfigInv'
<1> USE ConfigAssumption
    DEF ConfigInv, ConfigTypeOK, BridgeInv, PromiseInv, CopyInv, SnapshotMatches,
        fileVars, controlVars, processVars, loopVars
<1>1. /\ rendered[f] # -1 /\ rendered[f] \in Nat
      /\ stats' \in {stats, rendered[f]}
      /\ rendered' = [rendered EXCEPT ![f] = -1]
      /\ UNCHANGED <<config_file, disk_full, control, promised, promised_next, applies,
                     bridge_pid, sighup, starts, read_config, effective, reloads, generation, loop_config, loop_generation>>
  BY DEF WriteStats
<1>2. CASE f = "reload"
  <2>1. reloader = "flush" /\ reloader' = "wait"
        /\ bridge' = (IF bridge = "masked" THEN "up" ELSE bridge)
    BY <1>1, <1>2 DEF WriteStats
  <2>2. ConfigTypeOK'
    BY <1>1, <2>1
  <2>3. BridgeInv'
    BY <1>1, <1>2, <2>1
  <2> QED BY <1>1, <2>1, <2>2, <2>3
<1>3. CASE f # "reload"
  <2>1. UNCHANGED <<reloader, bridge>> /\ rendered'["reload"] = rendered["reload"]
    BY <1>1, <1>3 DEF WriteStats, Flushers
  <2>2. ConfigTypeOK'
    BY <1>1, <2>1
  <2> QED BY <1>1, <2>1, <2>2
<1> QED BY <1>2, <1>3

\* A loop renders, refreshes its copy, or ends.
LEMMA LoopKeepsConfig ==
  ASSUME ConfigInv, LoopRenders \/ RefreshSnapshot \/ LoopEnds
  PROVE  ConfigInv'
<1> USE ConfigAssumption
    DEF ConfigInv, ConfigTypeOK, BridgeInv, PromiseInv, CopyInv, SnapshotMatches,
        fileVars, controlVars, processVars, reloadVars, flushVars, loopVars
<1>1. CASE LoopRenders
  <2>1. rendered' \in [Flushers -> Nat \cup {-1}] /\ rendered'["reload"] = rendered["reload"]
    BY <1>1 DEF LoopRenders, StatsNow, Flushers
  <2> QED BY <1>1, <2>1 DEF LoopRenders
<1>2. CASE RefreshSnapshot
  BY <1>2 DEF RefreshSnapshot
<1>3. CASE LoopEnds
  BY <1>3, LoadedTypes DEF LoopEnds
<1> QED BY <1>1, <1>2, <1>3

LEMMA ConfigStep == ConfigInv /\ [ConfigNext]_configVars => ConfigInv'
<1> SUFFICES ASSUME ConfigInv, [ConfigNext]_configVars
             PROVE  ConfigInv'
  OBVIOUS
<1>1. CASE UNCHANGED configVars
  BY <1>1 DEF ConfigInv, ConfigTypeOK, BridgeInv, PromiseInv, CopyInv, SnapshotMatches,
              configVars, fileVars, controlVars, processVars, reloadVars, loopVars, flushVars
<1>2. CASE WriteStats("reload") \/ WriteStats("loop")
  BY <1>2, FlushKeepsConfig DEF Flushers
<1> QED
  BY <1>1, <1>2, ControlKeepsConfig, BridgeKeepsConfig, ReloadKeepsConfig, LoopKeepsConfig
     DEF ConfigNext, ConfigReload, ConfigLoop

\* Every reachable state of control mode, bridge and their files is well typed, and every
\* point of a reload has read what was promised, or will.
THEOREM ConfigIsInvariant == ConfigSpec => []ConfigInv
BY ConfigStarts, ConfigStep, PTL DEF ConfigSpec

\* A bridge with no reload to do has loaded the config of the last apply that signalled it,
\* whenever the SIGHUP met it, before it blocked the signal, during its start or during a
\* reload; and that of every apply answered before it started.
THEOREM PromiseIsKept == ConfigSpec => []QuietMeansLoaded
<1>1. ConfigInv => QuietMeansLoaded
  BY DEF ConfigInv, ConfigTypeOK, PromiseInv, QuietMeansLoaded
<1> QED BY <1>1, ConfigIsInvariant, PTL

\* refresh_config_snapshot may compare generations outside the lock: an equal generation
\* means equal policies.
THEOREM SameGenerationSamePolicies == ConfigSpec => []SnapshotMatches
<1>1. ConfigInv => SnapshotMatches
  BY DEF ConfigInv, CopyInv
<1> QED BY <1>1, ConfigIsInvariant, PTL

-----------------------------------------------------------------------------
(* The drive watcher. *)

RunRecord ==
  [what : {"after-drive", "totals", "position"}, drive : 0 .. MaxDrives, due : BOOLEAN]
ScriptRecord ==
  [what : {"none", "after-drive", "totals", "position"}, drive : 0 .. MaxDrives,
   at : {"begun", "saving", "cleaning", "done"}, overdue : BOOLEAN]

\* The runs of q for drive d.
RunsFor(q, d) == {i \in 1 .. Len(q) : q[i].what = "after-drive" /\ q[i].drive = d}

\* None is for a drive still to come.
RunsKnown(q, n) == \A i \in 1 .. Len(q) : q[i].what = "after-drive" => q[i].drive \in 1 .. n

\* Each of n drives is in one place; now: the last of them is being driven.
OnePlaceEach(q, n, now, done) ==
  \A d \in 1 .. n :
    IF d \in done \/ (now /\ d = n)
      THEN RunsFor(q, d) = {} /\ ~ (d \in done /\ now /\ d = n)
      ELSE \E i \in 1 .. Len(q) : RunsFor(q, d) = {i}

LocationTypes ==
  /\ car \in {"on", "off", "unknown"} /\ watcher \in {"idle", "saving"}
  /\ driving \in BOOLEAN /\ drives \in 0 .. MaxDrives /\ last_fix \in BOOLEAN
  /\ queued \in Seq(RunRecord) /\ script \in ScriptRecord
  /\ ran \subseteq 1 .. drives
  /\ enabled \in BOOLEAN /\ setter \in {"idle", "live", "last"}
  /\ live_file \in BOOLEAN /\ last_file \in BOOLEAN

DrivesInv ==
  /\ RunsKnown(queued, drives)
  /\ driving => drives >= 1
  /\ watcher = "saving" => driving
  /\ OnePlaceEach(queued, drives, driving, ran)

LocationInv == LocationTypes /\ DrivesInv

LEMMA LocationStarts == LocationInit => LocationInv
<1> SUFFICES ASSUME LocationInit PROVE LocationInv
  OBVIOUS
<1>1. /\ car = "off" /\ watcher = "idle" /\ driving = FALSE /\ drives = 0 /\ last_fix = FALSE
      /\ queued = << >> /\ script = NoScript /\ ran = {}
      /\ enabled = FALSE /\ setter = "idle" /\ live_file = FALSE /\ last_file = FALSE
  BY DEF LocationInit
<1>2. queued \in Seq(RunRecord) /\ Len(queued) = 0 /\ script \in ScriptRecord
  BY <1>1, EmptySeq, LocationAssumption DEF NoScript, ScriptRecord
<1>3. LocationTypes
  <2>1. 0 \in 0 .. MaxDrives /\ ran \subseteq 1 .. drives
    BY <1>1, LocationAssumption
  <2> QED BY <1>1, <1>2, <2>1 DEF LocationTypes
<1> QED BY <1>1, <1>2, <1>3 DEF LocationInv, DrivesInv, RunsKnown, OnePlaceEach

-----------------------------------------------------------------------------
(* The queue of runs. *)

\* q loses only the positions in used and positions of other runs: what is left of it is
\* what p points at.
Shrinks(q, new, used, p) ==
  /\ p \in [1 .. Len(new) -> 1 .. Len(q)]
  /\ \A k \in 1 .. Len(new) : new[k] = q[p[k]] /\ p[k] \notin used
  /\ \A j, k \in 1 .. Len(new) : j # k => p[j] # p[k]
  /\ \A i \in 1 .. Len(q) : q[i].what = "after-drive" /\ i \notin used =>
       \E k \in 1 .. Len(new) : p[k] = i

\* The drives whose run is started by taking the positions in used.
Started(q, used) == {q[i].drive : i \in {j \in used : q[j].what = "after-drive"}}

\* Dropping position runs takes no other.
LEMMA DroppingShrinks ==
  ASSUME NEW s \in Seq(RunRecord), NEW road
  PROVE  LET kept == Picked(s, {i \in DOMAIN s : ~ Dropped(s[i], road)}) IN
           /\ kept \in Seq(RunRecord)
           /\ \E p : Shrinks(s, kept, {}, p)
<1> DEFINE I == {i \in DOMAIN s : ~ Dropped(s[i], road)}
           kept == Picked(s, I)
<1>1. kept \in Seq(RunRecord) /\ \E p : PicksAre(kept, s, I, Len(s), p)
  BY PickedPicks
<1>2. PICK p : PicksAre(kept, s, I, Len(s), p)
  BY <1>1
<1>3. Len(kept) \in Nat /\ DOMAIN s = 1 .. Len(s)
  BY <1>1, LenProperties
<1>4. \A i \in 1 .. Len(s) : s[i].what = "after-drive" => i \in I
  BY <1>3 DEF Dropped
<1> HIDE DEF kept, I
<1>5. \A j, k \in 1 .. Len(kept) : j # k => p[j] # p[k]
  <2> SUFFICES ASSUME NEW j \in 1 .. Len(kept), NEW k \in 1 .. Len(kept), j # k
               PROVE  p[j] # p[k]
    OBVIOUS
  <2>1. j < k \/ k < j
    BY <1>3
  <2>2. p[j] \in 1 .. Len(s) /\ p[k] \in 1 .. Len(s)
    BY <1>2 DEF PicksAre
  <2> QED BY <1>2, <2>1, <2>2 DEF PicksAre
<1>6. Shrinks(s, kept, {}, p)
  BY <1>2, <1>4, <1>5 DEF PicksAre, Shrinks
<1> QED BY <1>1, <1>6 DEF kept, I

\* So does starting one that may run; a run in progress leaves the queue alone.
LEMMA SpawnShrinks ==
  ASSUME NEW q \in Seq(RunRecord), NEW road, NEW over, script \in ScriptRecord,
         SpawnNext(q, road, over)
  PROVE  /\ queued' \in Seq(RunRecord) /\ script' \in ScriptRecord
         /\ \E p : \E used \in SUBSET (1 .. Len(q)) :
              /\ Shrinks(q, queued', used, p)
              /\ ran' = ran \cup over \cup Started(q, used)
<1> DEFINE may == {i \in DOMAIN q : MayRun(q[i], road)}
           keep(s) == Picked(s, {i \in DOMAIN s : ~ Dropped(s[i], road)})
<1>0. Len(q) \in Nat /\ DOMAIN q = 1 .. Len(q)
  BY LenProperties
<1>1. Reaped \in ScriptRecord /\ NoScript \in ScriptRecord
  BY LocationAssumption DEF Reaped, NoScript, ScriptRecord
<1>2. CASE Reaped # NoScript
  <2>1. queued' = q /\ script' = Reaped /\ ran' = ran \cup over
    BY <1>2 DEF SpawnNext
  <2>2. Shrinks(q, queued', {}, [k \in 1 .. Len(q) |-> k])
    BY <2>1 DEF Shrinks
  <2>3. Started(q, {}) = {}
    BY DEF Started
  <2> QED BY <1>1, <2>1, <2>2, <2>3
<1>3. CASE ~ (Reaped # NoScript) /\ may = {}
  <2>1. queued' = keep(q) /\ script' = NoScript /\ ran' = ran \cup over
    BY <1>3 DEF SpawnNext
  <2>2. queued' \in Seq(RunRecord) /\ \E p : Shrinks(q, queued', {}, p)
    BY <2>1, DroppingShrinks
  <2>3. Started(q, {}) = {}
    BY DEF Started
  <2> QED BY <1>1, <2>1, <2>2, <2>3
<1>4. CASE ~ (Reaped # NoScript) /\ may # {}
  <2> DEFINE i == CHOOSE k \in may : \A l \in may : k <= l
             before == SubSeq(q, 1, i - 1)
             after  == SubSeq(q, i + 1, Len(q))
  <2>1. /\ queued' = keep(before) \o after
        /\ script' = Spawned(q[i])
        /\ ran' = ran \cup over \cup (IF q[i].what = "after-drive" THEN {q[i].drive} ELSE {})
    BY <1>4 DEF SpawnNext
  <2>2. i \in may
    <3>1. may \in SUBSET Nat
      BY <1>0
    <3>2. \E k \in may : \A l \in may : k <= l
      <4> HIDE DEF may
      <4> QED BY <1>4, <3>1, LeastOf
    <3> HIDE DEF may
    <3> QED BY <3>2
  <2>3. i \in 1 .. Len(q)
    BY <1>0, <2>2
  <2> HIDE DEF i, may
  <2>4. /\ before \in Seq(RunRecord) /\ Len(before) = i - 1
        /\ \A k \in 1 .. i - 1 : before[k] = q[k]
    <3>1. 1 \in 1 .. Len(q) + 1 /\ i - 1 \in 1 - 1 .. Len(q)
      BY <1>0, <2>3
    <3> QED BY <1>0, <2>3, <3>1, SubSeqProperties
  <2>5. /\ after \in Seq(RunRecord) /\ Len(after) = Len(q) - i
        /\ \A k \in 1 .. Len(q) - i : after[k] = q[i + k]
    <3>1. i + 1 \in Int /\ Len(q) \in Int /\ \A k \in i + 1 .. Len(q) : q[k] \in RunRecord
      BY <1>0, <2>3
    <3>2. /\ after \in Seq(RunRecord)
          /\ Len(after) = IF i + 1 <= Len(q) THEN Len(q) - (i + 1) + 1 ELSE 0
          /\ \A k \in 1 .. Len(q) - (i + 1) + 1 : after[k] = q[(i + 1) + k - 1]
      BY <3>1, SubSeqProperties
    <3> HIDE DEF after
    <3>3. i \in Nat /\ Len(q) \in Nat /\ i <= Len(q)
      BY <1>0, <2>3
    <3>4. Len(q) - (i + 1) + 1 = Len(q) - i /\ \A k \in 1 .. Len(q) - i : (i + 1) + k - 1 = i + k
      BY ONLY <3>3
    <3>5. Len(after) = Len(q) - i
      BY ONLY <3>2, <3>3
    <3> QED BY ONLY <3>2, <3>4, <3>5
  <2> DEFINE kept == keep(before)
  <2>6. kept \in Seq(RunRecord) /\ \E p : Shrinks(before, kept, {}, p)
    BY <2>4, DroppingShrinks
  <2>7. PICK p : Shrinks(before, kept, {}, p)
    BY <2>6
  <2> HIDE DEF before, after, kept
  <2>8. /\ queued' \in Seq(RunRecord) /\ Len(queued') = Len(kept) + (Len(q) - i)
        /\ Len(kept) \in Nat
        /\ \A k \in 1 .. Len(kept) : queued'[k] = kept[k]
        /\ \A k \in 1 .. Len(q) - i : queued'[Len(kept) + k] = after[k]
    <3>1. queued' = kept \o after
      BY <2>1 DEF kept, before, after
    <3>2. kept \in Seq(RunRecord) /\ after \in Seq(RunRecord)
      BY <2>5, <2>6
    <3>3. /\ kept \o after \in Seq(RunRecord) /\ Len(kept \o after) = Len(kept) + Len(after)
          /\ \A k \in 1 .. Len(kept) : (kept \o after)[k] = kept[k]
          /\ \A k \in 1 .. Len(after) : (kept \o after)[Len(kept) + k] = after[k]
      BY ONLY <3>2, ConcatProperties
    <3> QED BY <2>5, <3>1, <3>2, <3>3, LenProperties
  <2> DEFINE g == [k \in 1 .. Len(queued') |-> IF k <= Len(kept) THEN p[k] ELSE (k - Len(kept)) + i]
  <2>9. \A k \in 1 .. Len(kept) : p[k] \in 1 .. i - 1 /\ kept[k] = q[p[k]]
    BY <2>4, <2>7 DEF Shrinks
  <2>10. ASSUME NEW k \in 1 .. Len(queued')
         PROVE  /\ g[k] \in 1 .. Len(q) /\ queued'[k] = q[g[k]] /\ g[k] # i
                /\ k <= Len(kept) => g[k] = p[k] /\ g[k] < i
                /\ k > Len(kept) => g[k] = (k - Len(kept)) + i /\ g[k] > i
    <3>1. CASE k <= Len(kept)
      <4>1. k \in 1 .. Len(kept) /\ g[k] = p[k]
        BY <2>8, <3>1
      <4> HIDE DEF g
      <4> QED BY <1>0, <2>3, <2>8, <2>9, <3>1, <4>1
    <3>2. CASE ~ (k <= Len(kept))
      <4>1. /\ g[k] = (k - Len(kept)) + i /\ k - Len(kept) \in 1 .. Len(q) - i
            /\ Len(kept) + (k - Len(kept)) = k /\ i + (k - Len(kept)) = (k - Len(kept)) + i
        BY <1>0, <2>3, <2>8, <3>2
      <4>2. queued'[k] = q[(k - Len(kept)) + i]
        BY <2>5, <2>8, <4>1
      <4> HIDE DEF g
      <4> QED BY <1>0, <2>3, <2>8, <3>2, <4>1, <4>2
    <3> QED BY <3>1, <3>2
  <2>11. g \in [1 .. Len(queued') -> 1 .. Len(q)]
    BY <2>10
  <2> HIDE DEF g
  <2>12. \A j, k \in 1 .. Len(queued') : j # k => g[j] # g[k]
    <3> SUFFICES ASSUME NEW j \in 1 .. Len(queued'), NEW k \in 1 .. Len(queued'), j # k
                 PROVE  g[j] # g[k]
      OBVIOUS
    <3>0. /\ g[j] \in Nat /\ g[k] \in Nat /\ Len(kept) \in Nat /\ i \in Nat /\ j \in Nat /\ k \in Nat
          /\ j <= Len(kept) => g[j] < i
          /\ k <= Len(kept) => g[k] < i
          /\ j > Len(kept) => g[j] = (j - Len(kept)) + i /\ g[j] > i
          /\ k > Len(kept) => g[k] = (k - Len(kept)) + i /\ g[k] > i
      BY <2>3, <2>8, <2>10
    <3>1. CASE j <= Len(kept) /\ k <= Len(kept)
      <4>1. j \in 1 .. Len(kept) /\ k \in 1 .. Len(kept)
        BY <2>8, <3>1
      <4>2. p[j] # p[k]
        BY <2>7, <4>1 DEF Shrinks
      <4> QED BY <2>10, <3>1, <4>2
    <3>2. CASE ~ (j <= Len(kept)) /\ ~ (k <= Len(kept))
      BY ONLY <3>0, <3>2, j # k
    <3>3. CASE (j <= Len(kept)) # (k <= Len(kept))
      BY ONLY <3>0, <3>3
    <3> QED BY <3>1, <3>2, <3>3
  <2>13. ASSUME NEW l \in 1 .. Len(q), q[l].what = "after-drive", l \notin {i}
         PROVE  \E k \in 1 .. Len(queued') : g[k] = l
    <3>1. CASE l < i
      <4>1. l \in 1 .. Len(before) /\ before[l] = q[l]
        BY <1>0, <2>3, <2>4, <3>1
      <4>2. PICK k \in 1 .. Len(kept) : p[k] = l
        BY <2>7, <2>13, <4>1 DEF Shrinks
      <4>3. k \in 1 .. Len(queued') /\ k <= Len(kept)
        BY <1>0, <2>3, <2>8
      <4> QED BY <2>10, <4>2, <4>3
    <3>2. CASE l > i
      <4>1. /\ Len(kept) + (l - i) \in 1 .. Len(queued') /\ Len(kept) + (l - i) > Len(kept)
            /\ ((Len(kept) + (l - i)) - Len(kept)) + i = l
        BY <1>0, <2>3, <2>8, <3>2
      <4> QED BY <2>10, <4>1
    <3> QED BY <1>0, <2>3, <2>13, <3>1, <3>2
  <2>14. Shrinks(q, queued', {i}, g)
    BY <2>10, <2>11, <2>12, <2>13 DEF Shrinks
  <2>15. Started(q, {i}) = IF q[i].what = "after-drive" THEN {q[i].drive} ELSE {}
    BY DEF Started
  <2>16. script' \in ScriptRecord
    <3>1. q[i] \in RunRecord
      BY <2>3, ElementOfSeq
    <3> QED BY <2>1, <3>1 DEF Spawned, RunRecord, ScriptRecord
  <2>17. {i} \subseteq 1 .. Len(q)
    BY <2>3
  <2> QED BY <2>1, <2>8, <2>14, <2>15, <2>16, <2>17
<1> QED BY <1>2, <1>3, <1>4

\* A drive whose run was not started keeps its one run; one whose run was has none left.
LEMMA ShrinkingKeepsPlaces ==
  ASSUME NEW q \in Seq(RunRecord), NEW new \in Seq(RunRecord), NEW p, NEW used \in SUBSET (1 .. Len(q)),
         Shrinks(q, new, used, p),
         NEW n \in Nat, NEW now \in BOOLEAN, NEW done \in SUBSET (1 .. n),
         RunsKnown(q, n), OnePlaceEach(q, n, now, done)
  PROVE  /\ done \cup Started(q, used) \in SUBSET (1 .. n)
         /\ RunsKnown(new, n) /\ OnePlaceEach(new, n, now, done \cup Started(q, used))
<1>1. \A k \in 1 .. Len(new) : p[k] \in 1 .. Len(q) /\ new[k] = q[p[k]] /\ p[k] \notin used
  BY DEF Shrinks
<1>2. Started(q, used) \in SUBSET (1 .. n)
  BY DEF Started, RunsKnown
<1>3. RunsKnown(new, n)
  BY <1>1 DEF RunsKnown
<1>4. ASSUME NEW d \in 1 .. n
      PROVE  IF d \in done \cup Started(q, used) \/ (now /\ d = n)
               THEN /\ RunsFor(new, d) = {}
                    /\ ~ (d \in done \cup Started(q, used) /\ now /\ d = n)
               ELSE \E k \in 1 .. Len(new) : RunsFor(new, d) = {k}
  <2>1. \A k \in RunsFor(new, d) : k \in 1 .. Len(new) /\ p[k] \in RunsFor(q, d) /\ p[k] \notin used
    BY <1>1 DEF RunsFor
  <2>2. d \in Started(q, used) => \E j \in used : j \in RunsFor(q, d)
    BY DEF Started, RunsFor
  <2>3. \A j \in used : j \in RunsFor(q, d) => d \in Started(q, used)
    BY DEF Started, RunsFor
  <2>4. CASE d \in done \/ (now /\ d = n)
    <3>1. RunsFor(q, d) = {} /\ ~ (d \in done /\ now /\ d = n)
      BY <2>4 DEF OnePlaceEach
    <3>2. RunsFor(new, d) = {} /\ d \notin Started(q, used)
      BY <2>1, <2>2, <3>1
    <3> QED BY <2>4, <3>1, <3>2
  <2>5. CASE ~ (d \in done \/ (now /\ d = n))
    <3>1. PICK j \in 1 .. Len(q) : RunsFor(q, d) = {j}
      BY <2>5 DEF OnePlaceEach
    <3>2. CASE j \in used
      <4>1. d \in Started(q, used)
        BY <2>3, <3>1, <3>2
      <4>2. RunsFor(new, d) = {}
        BY <2>1, <3>1, <3>2
      <4> QED BY <2>5, <4>1, <4>2
    <3>3. CASE j \notin used
      <4>1. d \notin Started(q, used)
        BY <2>2, <3>1, <3>3
      <4>2. PICK k \in 1 .. Len(new) : p[k] = j
        BY <3>1, <3>3 DEF Shrinks, RunsFor
      <4>3. k \in RunsFor(new, d)
        <5>1. new[k] = q[j] /\ q[j].what = "after-drive" /\ q[j].drive = d
          BY <1>1, <3>1, <4>2 DEF RunsFor
        <5> QED BY <5>1 DEF RunsFor
      <4>4. ASSUME NEW l \in RunsFor(new, d) PROVE l = k
        <5>1. l \in 1 .. Len(new) /\ p[l] = j
          BY <2>1, <3>1
        <5> QED BY <4>2, <5>1 DEF Shrinks
      <4>5. RunsFor(new, d) = {k}
        BY <4>3, <4>4
      <4> QED BY <2>5, <4>1, <4>5
    <3> QED BY <3>2, <3>3
  <2> QED BY <2>4, <2>5
<1>5. OnePlaceEach(new, n, now, done \cup Started(q, used))
  BY ONLY <1>4 DEF OnePlaceEach
<1> QED BY <1>2, <1>3, <1>5

\* What the end of a tick does to the queue keeps every drive in its place.
LEMMA SpawnKeeps ==
  ASSUME NEW q \in Seq(RunRecord), NEW road, NEW over, script \in ScriptRecord,
         NEW n \in Nat, NEW now \in BOOLEAN, ran \cup over \in SUBSET (1 .. n),
         RunsKnown(q, n), OnePlaceEach(q, n, now, ran \cup over),
         SpawnNext(q, road, over)
  PROVE  /\ queued' \in Seq(RunRecord) /\ script' \in ScriptRecord /\ ran' \in SUBSET (1 .. n)
         /\ RunsKnown(queued', n) /\ OnePlaceEach(queued', n, now, ran')
<1> DEFINE done == ran \cup over
<1>1. queued' \in Seq(RunRecord) /\ script' \in ScriptRecord
  BY SpawnShrinks
<1>2. PICK p : \E used \in SUBSET (1 .. Len(q)) :
                    /\ Shrinks(q, queued', used, p)
                    /\ ran' = ran \cup over \cup Started(q, used)
  BY SpawnShrinks
<1>3. PICK used \in SUBSET (1 .. Len(q)) :
        Shrinks(q, queued', used, p) /\ ran' = done \cup Started(q, used)
  BY <1>2
<1>4. done \in SUBSET (1 .. n) /\ OnePlaceEach(q, n, now, done)
  OBVIOUS
<1> HIDE DEF done
<1>5. /\ done \cup Started(q, used) \in SUBSET (1 .. n)
      /\ RunsKnown(queued', n) /\ OnePlaceEach(queued', n, now, done \cup Started(q, used))
  BY <1>1, <1>3, <1>4, ShrinkingKeepsPlaces, Zenon
<1> QED BY <1>1, <1>3, <1>5

\* Queueing a run that is not for a drive changes no drive's place.
LEMMA OtherRunAdded ==
  ASSUME NEW q \in Seq(RunRecord), NEW run \in RunRecord, run.what # "after-drive"
  PROVE  LET new == WithRun(q, run) IN
           /\ new \in Seq(RunRecord)
           /\ \A n : RunsKnown(q, n) => RunsKnown(new, n)
           /\ \A n, now, done : OnePlaceEach(q, n, now, done) => OnePlaceEach(new, n, now, done)
<1> DEFINE new == WithRun(q, run)
<1>1. CASE new = q
  BY <1>1
<1>2. CASE new = Append(q, run)
  <2>1. /\ new \in Seq(RunRecord) /\ Len(new) = Len(q) + 1 /\ Len(q) \in Nat
        /\ new[Len(q) + 1] = run /\ \A i \in 1 .. Len(q) : new[i] = q[i]
    BY <1>2, AppendProperties, LenProperties
  <2> HIDE DEF new
  <2>2. 1 .. Len(new) = 1 .. Len(q) \cup {Len(q) + 1}
    BY <2>1
  <2>3. \A d : RunsFor(new, d) = RunsFor(q, d)
    BY <2>1, <2>2 DEF RunsFor
  <2>4. \A n : RunsKnown(q, n) => RunsKnown(new, n)
    BY <2>1, <2>2 DEF RunsKnown
  <2>5. ASSUME NEW n, NEW now, NEW done, OnePlaceEach(q, n, now, done)
        PROVE  OnePlaceEach(new, n, now, done)
    BY <2>2, <2>3, <2>5 DEF OnePlaceEach
  <2> QED BY <2>1, <2>4, <2>5 DEF new
<1> QED BY <1>1, <1>2 DEF WithRun

\* Queueing the run of the drive that has just ended gives that drive its place.
LEMMA DriveRunAdded ==
  ASSUME NEW q \in Seq(RunRecord), NEW n \in 1 .. MaxDrives, NEW done,
         RunsKnown(q, n), OnePlaceEach(q, n, TRUE, done)
  PROVE  LET new == WithRun(q, Run("after-drive", n)) IN
           /\ new \in Seq(RunRecord)
           /\ RunsKnown(new, n) /\ OnePlaceEach(new, n, FALSE, done)
<1> DEFINE run == Run("after-drive", n)
           new == Append(q, run)
<1>0. n \in Nat /\ n \in 1 .. n /\ MaxDrives \in Nat
  BY LocationAssumption
<1>1. run \in RunRecord /\ run.what = "after-drive" /\ run.drive = n
  BY <1>0 DEF Run, RunRecord
<1>2. RunsFor(q, n) = {} /\ n \notin done
  BY <1>0 DEF OnePlaceEach
<1>3. WithRun(q, run) = new
  BY <1>1, <1>2, LenProperties DEF WithRun, RunsFor
<1> HIDE DEF run
<1>4. /\ new \in Seq(RunRecord) /\ Len(new) = Len(q) + 1 /\ Len(q) \in Nat
      /\ new[Len(q) + 1] = run /\ \A i \in 1 .. Len(q) : new[i] = q[i]
  BY <1>1, AppendProperties, LenProperties
<1> HIDE DEF new
<1>5. 1 .. Len(new) = 1 .. Len(q) \cup {Len(q) + 1} /\ Len(q) + 1 \notin 1 .. Len(q)
  BY <1>4
<1>6. /\ \A d : d # n => RunsFor(new, d) = RunsFor(q, d)
      /\ RunsFor(new, n) = {Len(q) + 1}
  BY <1>1, <1>2, <1>4, <1>5 DEF RunsFor
<1>7. RunsKnown(new, n)
  BY <1>0, <1>1, <1>4, <1>5 DEF RunsKnown
<1>8. ASSUME NEW d \in 1 .. n
      PROVE  IF d \in done THEN RunsFor(new, d) = {} ELSE \E i \in 1 .. Len(new) : RunsFor(new, d) = {i}
  <2>1. CASE d = n
    BY <1>2, <1>5, <1>6, <2>1
  <2>2. CASE d # n
    BY <1>5, <1>6, <2>2 DEF OnePlaceEach
  <2> QED BY <2>1, <2>2
<1>9. OnePlaceEach(new, n, FALSE, done)
  BY <1>8 DEF OnePlaceEach
<1> QED BY <1>3, <1>4, <1>7, <1>9 DEF run

\* A drive too short for a run, and one that begins.
LEMMA ShortDrive ==
  ASSUME NEW q, NEW n \in Nat, n >= 1, NEW done, OnePlaceEach(q, n, TRUE, done)
  PROVE  OnePlaceEach(q, n, FALSE, done \cup {n})
BY DEF OnePlaceEach

LEMMA DriveBegins ==
  ASSUME NEW q, NEW n \in Nat, NEW done \in SUBSET (1 .. n), RunsKnown(q, n), OnePlaceEach(q, n, FALSE, done)
  PROVE  RunsKnown(q, n + 1) /\ OnePlaceEach(q, n + 1, TRUE, done)
<1>1. RunsKnown(q, n + 1) /\ RunsFor(q, n + 1) = {}
  BY DEF RunsKnown, RunsFor
<1>2. ASSUME NEW d \in 1 .. n + 1
      PROVE  (d \in 1 .. n /\ d # n + 1) \/ (d = n + 1 /\ d \notin done)
  <2>1. CASE d = n + 1
    <3>1. n + 1 \notin 1 .. n
      OBVIOUS
    <3> QED BY <2>1, <3>1
  <2>2. CASE d # n + 1
    BY <2>2
  <2> QED BY <2>1, <2>2
<1> QED BY <1>1, <1>2 DEF OnePlaceEach

-----------------------------------------------------------------------------
(* The watcher. *)

LEMMA LocationNumbers ==
  ASSUME LocationInv
  PROVE  /\ drives \in Nat /\ drives <= MaxDrives /\ MaxDrives \in Nat
         /\ queued \in Seq(RunRecord) /\ script \in ScriptRecord
         /\ ran \in SUBSET (1 .. drives) /\ ran \cup {} = ran /\ driving \in BOOLEAN
         /\ RunsKnown(queued, drives) /\ OnePlaceEach(queued, drives, driving, ran)
BY LocationAssumption DEF LocationInv, LocationTypes, DrivesInv

LEMMA TotalsRun == Run("totals", 0) \in RunRecord /\ Run("totals", 0).what # "after-drive"
BY LocationAssumption DEF Run, RunRecord

LEMMA TickOnKeeps ==
  ASSUME LocationInv, TickOn
  PROVE  LocationInv'
<1>0. LocationTypes /\ watcher = "idle"
  BY DEF LocationInv, TickOn
<1>1. /\ driving \/ drives < MaxDrives
      /\ driving' = TRUE /\ drives' = (IF driving THEN drives ELSE drives + 1)
      /\ last_fix' \in BOOLEAN /\ SpawnNext(queued, "on", {})
      /\ UNCHANGED <<car, watcher, enabled, setter, live_file, last_file>>
  BY <1>0 DEF TickOn, settingVars, storedVars, LocationTypes
<1> DEFINE n == IF driving THEN drives ELSE drives + 1
<1>2. n \in Nat /\ n >= 1 /\ n <= MaxDrives /\ ran \in SUBSET (1 .. n)
  BY <1>1, LocationNumbers DEF LocationInv, DrivesInv
<1>3. RunsKnown(queued, n) /\ OnePlaceEach(queued, n, TRUE, ran)
  <2>1. CASE driving
    <3>1. driving = TRUE /\ n = drives
      BY <2>1, LocationNumbers
    <3> QED BY <3>1, LocationNumbers
  <2>2. CASE ~ driving
    <3>1. driving = FALSE /\ n = drives + 1
      BY <2>2, LocationNumbers
    <3> QED BY <3>1, LocationNumbers, DriveBegins
  <2> QED BY <2>1, <2>2
<1> HIDE DEF n
<1>4. /\ queued' \in Seq(RunRecord) /\ script' \in ScriptRecord /\ ran' \in SUBSET (1 .. n)
      /\ RunsKnown(queued', n) /\ OnePlaceEach(queued', n, TRUE, ran')
  BY <1>1, <1>2, <1>3, LocationNumbers, SpawnKeeps
<1>5. drives' = n /\ n \in 0 .. MaxDrives
  BY <1>1, <1>2 DEF n
<1>6. LocationTypes'
  BY <1>0, <1>1, <1>4, <1>5 DEF LocationTypes, RunRecord, ScriptRecord
<1>7. DrivesInv'
  BY <1>0, <1>1, <1>2, <1>4, <1>5 DEF DrivesInv, RunsKnown, OnePlaceEach, RunsFor
<1> QED BY <1>6, <1>7 DEF LocationInv

LEMMA EndDriveKeeps ==
  ASSUME LocationInv, driving, EndDrive, live_file' \in BOOLEAN, last_file' \in BOOLEAN
  PROVE  LocationInv'
<1>0. LocationTypes /\ drives \in 1 .. MaxDrives /\ driving = TRUE
  BY LocationNumbers DEF LocationInv, DrivesInv
<1>1. /\ driving' = FALSE /\ last_fix' = FALSE /\ watcher' = "idle"
      /\ UNCHANGED <<car, drives, enabled, setter>>
  BY DEF EndDrive, settingVars
<1>2. PICK long \in BOOLEAN, totals \in BOOLEAN :
        LET q == IF long THEN WithRun(queued, Run("after-drive", drives)) ELSE queued IN
          SpawnNext(IF totals /\ ~ long THEN WithRun(q, Run("totals", 0)) ELSE q,
                    "off", IF long THEN {} ELSE {drives})
  BY DEF EndDrive
<1> DEFINE over == IF long THEN {} ELSE {drives}
           q == IF long THEN WithRun(queued, Run("after-drive", drives)) ELSE queued
           all == IF totals /\ ~ long THEN WithRun(q, Run("totals", 0)) ELSE q
<1>3. /\ q \in Seq(RunRecord) /\ ran \cup over \in SUBSET (1 .. drives)
      /\ RunsKnown(q, drives) /\ OnePlaceEach(q, drives, FALSE, ran \cup over)
  <2>1. CASE long
    <3>1. ran \cup over = ran /\ q = WithRun(queued, Run("after-drive", drives))
      BY <2>1
    <3> QED BY <1>0, <3>1, LocationNumbers, DriveRunAdded
  <2>2. CASE ~ long
    <3>1. ran \cup over = ran \cup {drives} /\ q = queued /\ drives >= 1
      BY <1>0, <2>2
    <3>2. ran \cup {drives} \in SUBSET (1 .. drives)
      BY <1>0, LocationNumbers
    <3>3. OnePlaceEach(queued, drives, FALSE, ran \cup {drives})
      BY <1>0, <3>1, LocationNumbers, ShortDrive
    <3> HIDE DEF over, q
    <3> QED BY <3>1, <3>2, <3>3, LocationNumbers
  <2> QED BY <2>1, <2>2
<1>4. SpawnNext(all, "off", over)
  BY <1>2
<1> HIDE DEF over, q
<1>5. /\ all \in Seq(RunRecord)
      /\ RunsKnown(all, drives) /\ OnePlaceEach(all, drives, FALSE, ran \cup over)
  <2>1. CASE totals /\ ~ long
    <3>1. all = WithRun(q, Run("totals", 0))
      BY <2>1
    <3> QED BY <1>3, <3>1, TotalsRun, OtherRunAdded
  <2>2. CASE ~ (totals /\ ~ long)
    BY <1>3, <2>2
  <2> QED BY <2>1, <2>2
<1> HIDE DEF all
<1>6. /\ queued' \in Seq(RunRecord) /\ script' \in ScriptRecord /\ ran' \in SUBSET (1 .. drives)
      /\ RunsKnown(queued', drives) /\ OnePlaceEach(queued', drives, FALSE, ran')
  <2>1. FALSE \in BOOLEAN /\ drives \in Nat /\ script \in ScriptRecord
    BY LocationNumbers
  <2> QED BY <1>3, <1>4, <1>5, <2>1, SpawnKeeps
<1>7. LocationTypes'
  BY <1>0, <1>1, <1>6 DEF LocationTypes, RunRecord, ScriptRecord
<1>8. DrivesInv'
  BY <1>1, <1>6 DEF DrivesInv, RunsKnown, OnePlaceEach, RunsFor
<1> QED BY <1>7, <1>8 DEF LocationInv

\* A tick while parked, or while nobody knows whether the car is.
LEMMA IdleTickKeeps ==
  ASSUME LocationInv, TickParked \/ TickUnknown
  PROVE  LocationInv'
<1>0. LocationTypes
  BY DEF LocationInv
<1>1. UNCHANGED <<car, watcher, driving, drives, last_fix, enabled, setter, live_file, last_file>>
  BY DEF TickParked, TickUnknown, driveVars, settingVars, storedVars
<1>2. \E q, road : SpawnNext(q, road, {}) /\ (q = queued \/ q = WithRun(queued, Run("totals", 0)))
  <2>1. CASE TickParked
    BY <2>1 DEF TickParked
  <2>2. CASE TickUnknown
    BY <2>2 DEF TickUnknown
  <2> QED BY <2>1, <2>2
<1>3. PICK q, road : SpawnNext(q, road, {}) /\ (q = queued \/ q = WithRun(queued, Run("totals", 0)))
  BY <1>2
<1>4. /\ q \in Seq(RunRecord)
      /\ RunsKnown(q, drives) /\ OnePlaceEach(q, drives, driving, ran)
  BY <1>3, LocationNumbers, TotalsRun, OtherRunAdded
<1>5. /\ queued' \in Seq(RunRecord) /\ script' \in ScriptRecord /\ ran' \in SUBSET (1 .. drives)
      /\ RunsKnown(queued', drives) /\ OnePlaceEach(queued', drives, driving, ran')
  BY <1>3, <1>4, LocationNumbers, SpawnKeeps
<1>6. LocationTypes'
  BY <1>0, <1>1, <1>5 DEF LocationTypes, RunRecord, ScriptRecord
<1>7. DrivesInv'
  BY <1>1, <1>5 DEF LocationInv, DrivesInv, RunsKnown, OnePlaceEach, RunsFor
<1> QED BY <1>6, <1>7 DEF LocationInv

-----------------------------------------------------------------------------
(* The others. *)

\* Nothing else moves a drive.
LEMMA PlacesStay ==
  ASSUME LocationInv, UNCHANGED <<queued, ran, drives, driving>>, LocationTypes',
         watcher' = "saving" => driving
  PROVE  LocationInv'
BY DEF LocationInv, DrivesInv, RunsKnown, OnePlaceEach, RunsFor

LEMMA AskingKeeps ==
  ASSUME LocationInv, AskPosition \/ AskTotals
  PROVE  LocationInv'
<1>0. LocationTypes
  BY DEF LocationInv
<1>1. UNCHANGED <<car, watcher, driving, drives, last_fix, script, ran, enabled, setter,
                  live_file, last_file>>
  BY DEF AskPosition, AskTotals, driveVars, settingVars, storedVars
<1>2. \E run \in RunRecord : run.what # "after-drive" /\ queued' = WithRun(queued, run)
  <2>1. CASE AskPosition
    <3>1. Run("position", drives) \in RunRecord /\ Run("position", drives).what # "after-drive"
      BY LocationNumbers DEF Run, RunRecord
    <3> QED BY <2>1, <3>1 DEF AskPosition
  <2>2. CASE AskTotals
    BY <2>2, TotalsRun DEF AskTotals
  <2> QED BY <2>1, <2>2
<1>3. /\ queued' \in Seq(RunRecord)
      /\ RunsKnown(queued', drives) /\ OnePlaceEach(queued', drives, driving, ran)
  BY <1>2, LocationNumbers, OtherRunAdded
<1>4. LocationTypes'
  BY <1>0, <1>1, <1>3 DEF LocationTypes, RunRecord, ScriptRecord
<1>5. DrivesInv'
  BY <1>1, <1>3 DEF LocationInv, DrivesInv, RunsKnown, OnePlaceEach, RunsFor
<1> QED BY <1>4, <1>5 DEF LocationInv

LEMMA DelayKeeps ==
  ASSUME LocationInv, DelayPasses
  PROVE  LocationInv'
<1>0. LocationTypes /\ Len(queued) \in Nat
  BY LocationNumbers, LenProperties DEF LocationInv
<1>1. /\ queued' = [i \in 1 .. Len(queued) |-> [queued[i] EXCEPT !.due = TRUE]]
      /\ UNCHANGED <<car, watcher, driving, drives, last_fix, script, ran, enabled, setter,
                     live_file, last_file>>
  BY LocationNumbers, LenProperties DEF DelayPasses, driveVars, settingVars, storedVars
<1>2. ASSUME NEW i \in 1 .. Len(queued)
      PROVE  /\ [queued[i] EXCEPT !.due = TRUE] \in RunRecord
             /\ [queued[i] EXCEPT !.due = TRUE].what = queued[i].what
             /\ [queued[i] EXCEPT !.due = TRUE].drive = queued[i].drive
  <2>1. queued[i] \in RunRecord
    BY LocationNumbers, ElementOfSeq
  <2> QED BY <2>1 DEF RunRecord
<1>3. queued' \in Seq(RunRecord) /\ Len(queued') = Len(queued)
  BY <1>0, <1>1, <1>2, IsASeq
<1>4. \A i \in 1 .. Len(queued) : queued'[i].what = queued[i].what /\ queued'[i].drive = queued[i].drive
  BY <1>1, <1>2
<1>5. LocationTypes'
  BY <1>0, <1>1, <1>3 DEF LocationTypes, RunRecord, ScriptRecord
<1>6. DrivesInv'
  <2>1. \A d : RunsFor(queued', d) = RunsFor(queued, d)
    BY <1>3, <1>4 DEF RunsFor
  <2>2. OnePlaceEach(queued', drives, driving, ran)
    BY <1>3, <2>1, LocationNumbers DEF OnePlaceEach
  <2>3. RunsKnown(queued', drives)
    BY <1>3, <1>4, LocationNumbers DEF RunsKnown
  <2> QED BY <1>1, <2>2, <2>3 DEF LocationInv, DrivesInv, RunsKnown, OnePlaceEach, RunsFor
<1> QED BY <1>5, <1>6 DEF LocationInv

LEMMA ScriptKeeps ==
  ASSUME LocationInv,
         \/ RunGetsOld \/ ScriptLooks \/ ScriptHasNone
         \/ SavePosition \/ SaveLogPosition \/ RemoveLogPosition
  PROVE  LocationInv'
<1>0. LocationTypes /\ script \in ScriptRecord
  BY DEF LocationInv, LocationTypes
<1>1. UNCHANGED <<car, watcher, driving, drives, last_fix, queued, ran, enabled, setter>>
  BY DEF RunGetsOld, ScriptLooks, ScriptHasNone, SavePosition, SaveLogPosition, RemoveLogPosition,
         driveVars, settingVars
<1>2. live_file' \in BOOLEAN /\ last_file' \in BOOLEAN
  BY <1>0 DEF RunGetsOld, ScriptLooks, ScriptHasNone, SavePosition, SaveLogPosition,
              RemoveLogPosition, storedVars, LocationTypes
<1>3. \/ \E at \in {"begun", "saving", "cleaning", "done"} : script' = [script EXCEPT !.at = at]
      \/ script' = [script EXCEPT !.overdue = TRUE]
  BY DEF RunGetsOld, ScriptLooks, ScriptHasNone, SavePosition, SaveLogPosition, RemoveLogPosition,
         ScriptGoes
<1>4. script' \in ScriptRecord
  BY <1>0, <1>3 DEF ScriptRecord
<1>5. LocationTypes'
  BY <1>0, <1>1, <1>2, <1>4 DEF LocationTypes, RunRecord, ScriptRecord
<1> QED BY <1>1, <1>5, PlacesStay DEF LocationInv, DrivesInv

LEMMA SettingKeeps ==
  ASSUME LocationInv, CarChanges \/ SetLocation \/ DeleteLive \/ DeleteLast
  PROVE  LocationInv'
<1>0. LocationTypes
  BY DEF LocationInv
<1>1. UNCHANGED <<watcher, driving, drives, last_fix, queued, script, ran>>
  BY DEF CarChanges, SetLocation, DeleteLive, DeleteLast, driveVars, runVars
<1>2. /\ car' \in {"on", "off", "unknown"} /\ enabled' \in BOOLEAN /\ setter' \in {"idle", "live", "last"}
      /\ live_file' \in BOOLEAN /\ last_file' \in BOOLEAN
  BY <1>0 DEF CarChanges, SetLocation, DeleteLive, DeleteLast, settingVars, storedVars, LocationTypes
<1>3. LocationTypes'
  BY <1>0, <1>1, <1>2 DEF LocationTypes, RunRecord, ScriptRecord
<1> QED BY <1>1, <1>3, PlacesStay DEF LocationInv, DrivesInv

LEMMA TickEndsDriveKeeps ==
  ASSUME LocationInv, TickEndsDrive
  PROVE  LocationInv'
<1>0. LocationTypes /\ driving
  BY DEF LocationInv, TickEndsDrive
<1>1. UNCHANGED <<live_file, last_file>>
  BY DEF TickEndsDrive, storedVars
<1>2. CASE last_fix /\ enabled
  <2>1. /\ watcher' = "saving"
        /\ UNCHANGED <<car, driving, drives, last_fix, queued, script, ran, enabled, setter>>
    BY <1>2 DEF TickEndsDrive, runVars, settingVars
  <2>2. LocationTypes'
    BY <1>0, <1>1, <2>1 DEF LocationTypes, RunRecord, ScriptRecord
  <2> QED BY <1>0, <2>1, <2>2, PlacesStay
<1>3. CASE ~ (last_fix /\ enabled)
  <2>1. EndDrive /\ live_file' \in BOOLEAN /\ last_file' \in BOOLEAN
    BY <1>0, <1>1, <1>3 DEF TickEndsDrive, LocationTypes
  <2> QED BY <1>0, <2>1, EndDriveKeeps
<1> QED BY <1>2, <1>3

LEMMA SaveLastKeeps ==
  ASSUME LocationInv, SaveLastPosition
  PROVE  LocationInv'
<1>1. driving /\ EndDrive /\ live_file' \in BOOLEAN /\ last_file' \in BOOLEAN
  BY DEF SaveLastPosition, LocationInv, LocationTypes, DrivesInv
<1> QED BY <1>1, EndDriveKeeps

LEMMA LocationStep == LocationInv /\ [LocationNext]_locationVars => LocationInv'
<1> SUFFICES ASSUME LocationInv, [LocationNext]_locationVars PROVE LocationInv'
  OBVIOUS
<1>1. CASE UNCHANGED locationVars
  <2>1. UNCHANGED <<car, watcher, driving, drives, last_fix, queued, script, ran, enabled, setter,
                    live_file, last_file>>
    BY <1>1 DEF locationVars, driveVars, runVars, settingVars, storedVars
  <2>2. LocationTypes'
    BY <2>1 DEF LocationInv, LocationTypes, RunRecord, ScriptRecord
  <2> QED BY <2>1, <2>2, PlacesStay DEF LocationInv, DrivesInv
<1>2. CASE Tick
  BY <1>2, TickOnKeeps, TickEndsDriveKeeps, SaveLastKeeps, IdleTickKeeps DEF Tick
<1>3. CASE CarChanges \/ SetLocation \/ DeleteLive \/ DeleteLast
  BY <1>3, SettingKeeps
<1>4. CASE DelayPasses
  BY <1>4, DelayKeeps
<1>5. CASE AskPosition \/ AskTotals
  BY <1>5, AskingKeeps
<1>6. CASE \/ RunGetsOld \/ ScriptLooks \/ ScriptHasNone
           \/ SavePosition \/ SaveLogPosition \/ RemoveLogPosition
  BY <1>6, ScriptKeeps
<1> QED BY <1>1, <1>2, <1>3, <1>4, <1>5, <1>6 DEF LocationNext

LEMMA LocationTyped == LocationInv => LocationTypeOK
<1> SUFFICES ASSUME LocationInv PROVE LocationTypeOK
  OBVIOUS
<1>1. LocationTypes /\ drives <= MaxDrives /\ drives \in Nat
  BY LocationNumbers DEF LocationInv
<1>2. \A i \in DOMAIN queued : queued[i] \in RunRecord
  BY LocationNumbers, LenProperties, ElementOfSeq
<1>3. ran \subseteq 1 .. MaxDrives
  BY <1>1, LocationNumbers
<1> QED BY <1>1, <1>2, <1>3 DEF LocationTypes, LocationTypeOK, RunRecord, ScriptRecord

LEMMA PlacesKnown == LocationInv => EachDriveOnce
<1> SUFFICES ASSUME LocationInv PROVE EachDriveOnce
  OBVIOUS
<1>1. DOMAIN queued = 1 .. Len(queued)
  BY LocationNumbers, LenProperties
<1> QED BY <1>1, LocationNumbers DEF OnePlaceEach, RunsFor, EachDriveOnce

\* The watcher, the setting and the script stay within their types.
THEOREM LocationTypeCorrect == LocationSpec => []LocationTypeOK
BY LocationStarts, LocationStep, LocationTyped, PTL DEF LocationSpec

\* However the car, the runs and the app's questions come, every drive that was noticed is being
\* driven, waits in exactly one queued run, or has had its run.
THEOREM EveryDriveHasOnePlace == LocationSpec => []EachDriveOnce
BY LocationStarts, LocationStep, PlacesKnown, PTL DEF LocationSpec

-----------------------------------------------------------------------------
(* The control API's server. *)

ChildRecord == [out : 0 .. MaxPrint, err : 0 .. PipeBlocks, alive : BOOLEAN]
PipeRecord  == [out : 0 .. PipeBlocks, err : 0 .. PipeBlocks]

RequestTypes ==
  /\ backlog \in Seq(Callers) /\ gone \subseteq Callers
  /\ caller \subseteq Callers /\ Cardinality(caller) <= 1
  /\ blocks \in 0 .. MaxBlocks

ChildTypes ==
  /\ thread \in ServerStages /\ commands \in 0 .. 3
  /\ child \in ChildRecord /\ pipe \in PipeRecord
  /\ held \in BOOLEAN /\ late \in BOOLEAN

\* Where the thread is, and what it then knows of the program and its pipes.
StageInv ==
  /\ thread \in {"fork", "stdout", "stderr", "wait"} => commands >= 1
  /\ ~ child.alive => child = NoChild
  /\ thread \in {"stderr", "wait"} => ~ child.alive /\ pipe.out = 0
  /\ thread = "wait" => pipe.err = 0
  /\ thread \in {"stdout", "stderr"} => child.err + pipe.err <= PipeBlocks
  /\ thread \notin {"script", "reap"} => ~ late
  /\ NothingLeftOver

ServerInv == RequestTypes /\ ChildTypes /\ StageInv

LEMMA ServerNumbers ==
  ASSUME ChildTypes
  PROVE  /\ MaxBlocks \in Nat /\ PipeBlocks \in Nat /\ PipeBlocks >= 1 /\ MaxPrint \in Nat
         /\ commands \in Nat /\ commands <= 3 /\ thread \in ServerStages
         /\ child = [out |-> child.out, err |-> child.err, alive |-> child.alive]
         /\ child.out \in Nat /\ child.out <= MaxPrint
         /\ child.err \in Nat /\ child.err <= PipeBlocks /\ child.alive \in BOOLEAN
         /\ pipe = [out |-> pipe.out, err |-> pipe.err]
         /\ pipe.out \in Nat /\ pipe.out <= PipeBlocks /\ pipe.err \in Nat /\ pipe.err <= PipeBlocks
BY ServerAssumption DEF ChildTypes, ChildRecord, PipeRecord

LEMMA NoProgram ==
  /\ NoChild \in ChildRecord /\ Empty \in PipeRecord
  /\ NoChild.out = 0 /\ NoChild.err = 0 /\ NoChild.alive = FALSE /\ Empty.out = 0 /\ Empty.err = 0
BY ServerAssumption DEF NoChild, Empty, ChildRecord, PipeRecord

LEMMA ServerStarts == ServerInit => ServerInv
<1> SUFFICES ASSUME ServerInit PROVE ServerInv
  OBVIOUS
<1>1. /\ backlog = << >> /\ gone = {} /\ thread = "accept" /\ caller = {} /\ blocks = 0
      /\ commands = 0 /\ child = NoChild /\ pipe = Empty /\ held = FALSE /\ late = FALSE
  BY DEF ServerInit
<1>2. RequestTypes
  BY <1>1, EmptySeq, FS_EmptySet, ServerAssumption DEF RequestTypes
<1>3. ChildTypes
  <2>1. 0 \in 0 .. 3 /\ thread \in ServerStages
    BY <1>1 DEF ServerStages
  <2> QED BY <1>1, <2>1, NoProgram DEF ChildTypes
<1>4. StageInv
  BY <1>1, NoProgram DEF StageInv, NothingLeftOver
<1> QED BY <1>2, <1>3, <1>4 DEF ServerInv

-----------------------------------------------------------------------------
(* A request. *)

LEMMA CallersKept ==
  ASSUME RequestTypes, caller' = caller \/ caller' = {}, gone' \subseteq gone \cup caller,
         backlog' = backlog, blocks' \in 0 .. MaxBlocks
  PROVE  RequestTypes'
<1>1. Cardinality({}) <= 1
  <2>1. 0 <= 1
    OBVIOUS
  <2> QED BY <2>1, FS_EmptySet
<1>2. caller' \subseteq Callers /\ Cardinality(caller') <= 1
  <2>1. CASE caller' = caller
    BY <2>1 DEF RequestTypes
  <2>2. CASE caller' = {}
    BY <1>1, <2>2
  <2> QED BY <2>1, <2>2
<1>3. gone' \subseteq Callers
  BY DEF RequestTypes
<1> QED BY <1>2, <1>3 DEF RequestTypes

\* Between programs, the stages of the request differ in nothing that concerns them.
LEMMA BetweenPrograms ==
  ASSUME ServerInv, thread \in {"accept", "head", "body", "handle", "send"},
         thread' \in {"accept", "head", "body", "handle", "send"}, UNCHANGED childVars
  PROVE  ChildTypes' /\ StageInv'
<1>1. UNCHANGED <<commands, child, pipe, held, late>> /\ thread' \in ServerStages
  BY DEF childVars, ServerStages
<1> QED BY <1>1 DEF ServerInv, ChildTypes, StageInv, NothingLeftOver, ChildRecord, PipeRecord, NoChild, Empty

LEMMA RequestSteps ==
  ASSUME ServerInv, AcceptCaller \/ ReadHead \/ ReadBody \/ SendAnswer
  PROVE  ServerInv'
<1>1. /\ thread \in {"accept", "head", "body", "handle", "send"}
      /\ thread' \in {"accept", "head", "body", "handle", "send"} /\ UNCHANGED childVars
  BY DEF AcceptCaller, ReadHead, ReadBody, SendAnswer, CloseCaller, Parsed
<1>2. ChildTypes' /\ StageInv'
  BY <1>1, BetweenPrograms
<1>3. RequestTypes
  BY DEF ServerInv
<1>4. CASE AcceptCaller
  <2>1. /\ backlog # << >> /\ caller' = {Head(backlog)} /\ backlog' = Tail(backlog)
        /\ blocks' = 0 /\ gone' = gone
    BY <1>4 DEF AcceptCaller
  <2>2. Head(backlog) \in Callers /\ backlog' \in Seq(Callers)
    BY <1>3, <2>1, HeadTailProperties DEF RequestTypes
  <2>3. Cardinality(caller') = 1
    BY <2>1, FS_Singleton
  <2>4. 0 \in 0 .. MaxBlocks /\ 1 <= 1
    BY ServerAssumption
  <2>5. RequestTypes'
    BY <1>3, <2>1, <2>2, <2>3, <2>4 DEF RequestTypes
  <2> QED BY <1>2, <2>5 DEF ServerInv
<1>5. CASE ReadHead \/ ReadBody \/ SendAnswer
  <2>1. /\ caller' = caller \/ caller' = {}
        /\ gone' \subseteq gone \cup caller /\ backlog' = backlog
    BY <1>5 DEF ReadHead, ReadBody, SendAnswer, CloseCaller
  <2>2. blocks' \in 0 .. MaxBlocks
    <3>1. MaxBlocks \in Nat /\ blocks \in 0 .. MaxBlocks
      BY <1>3, ServerAssumption DEF RequestTypes
    <3> QED BY <1>5, <3>1 DEF ReadHead, ReadBody, SendAnswer
  <2> QED BY <1>2, <1>3, <2>1, <2>2, CallersKept DEF ServerInv
<1> QED BY <1>4, <1>5

LEMMA ConnectKeeps ==
  ASSUME ServerInv, NEW c \in Callers, CallerConnects(c)
  PROVE  ServerInv'
<1>1. backlog' = Append(backlog, c) /\ UNCHANGED <<thread, gone, caller, blocks, childVars>>
  BY DEF CallerConnects
<1>2. UNCHANGED <<thread, commands, child, pipe, held, late>>
  BY <1>1 DEF childVars
<1>3. RequestTypes'
  BY <1>1, AppendProperties DEF ServerInv, RequestTypes
<1> QED BY <1>2, <1>3 DEF ServerInv, ChildTypes, StageInv, NothingLeftOver, ChildRecord, PipeRecord,
                          NoChild, Empty

-----------------------------------------------------------------------------
(* A handler and its programs. *)

LEMMA RequestRests ==
  ASSUME RequestTypes, UNCHANGED requestVars
  PROVE  RequestTypes'
BY DEF RequestTypes, requestVars

LEMMA HandleKeeps ==
  ASSUME ServerInv, Handle
  PROVE  ServerInv'
<1>1. thread = "handle" /\ RequestTypes' /\ ChildTypes /\ child = NoChild /\ pipe = Empty /\ late = FALSE
  BY RequestRests DEF Handle, ServerInv, StageInv, NothingLeftOver, ChildTypes
<1>2. CASE HandleAtOnce
  <2>1. thread' = "send" /\ UNCHANGED childVars
    BY <1>2 DEF HandleAtOnce
  <2> QED BY <1>1, <2>1, BetweenPrograms DEF ServerInv
<1>3. ASSUME NEW n \in 0 .. 3, n > 0, HandleWithPrograms(n)
      PROVE  ServerInv'
  <2>1. thread' = "fork" /\ commands' = n /\ UNCHANGED <<child, pipe, held, late>>
    BY <1>3 DEF HandleWithPrograms
  <2>2. ChildTypes'
    BY <1>1, <2>1 DEF ChildTypes, ServerStages, ChildRecord, PipeRecord
  <2>3. StageInv'
    BY <1>1, <1>3, <2>1, NoProgram DEF StageInv, NothingLeftOver, NoChild, Empty
  <2> QED BY <1>1, <2>2, <2>3 DEF ServerInv
<1>4. CASE HandleWithScript
  <2>1. /\ thread' = "script" /\ child' \in Program /\ UNCHANGED <<commands, pipe, held, late>>
    BY <1>4 DEF HandleWithScript
  <2>2. child' \in ChildRecord /\ child'.alive = TRUE
    BY <2>1 DEF Program, ChildRecord
  <2>3. ChildTypes'
    BY <1>1, <2>1, <2>2 DEF ChildTypes, ServerStages, ChildRecord, PipeRecord
  <2>4. StageInv'
    BY <1>1, <2>1, <2>2 DEF StageInv, NothingLeftOver
  <2> QED BY <1>1, <2>3, <2>4 DEF ServerInv
<1> QED BY <1>2, <1>3, <1>4 DEF Handle

\* A program is over, or could not be started.
LEMMA CommandDoneKeeps ==
  ASSUME ServerInv, CommandDone, thread \in {"fork", "wait"}, child = NoChild, pipe = Empty,
         UNCHANGED <<requestVars, child, pipe, held, late>>
  PROVE  ServerInv'
<1>1. /\ commands >= 1 /\ commands \in 0 .. 3 /\ late = FALSE /\ ChildTypes
  BY DEF ServerInv, StageInv, ChildTypes
<1>2. /\ commands' = commands - 1 /\ commands' \in 0 .. 3
      /\ thread' \in {"send", "fork"} /\ (thread' = "fork" => commands' >= 1)
      /\ UNCHANGED <<child, pipe, held, late>>
  BY <1>1 DEF CommandDone
<1>3. ChildTypes'
  BY <1>1, <1>2 DEF ChildTypes, ServerStages, ChildRecord, PipeRecord
<1>4. StageInv'
  BY <1>1, <1>2, NoProgram DEF StageInv, NothingLeftOver, NoChild, Empty
<1> QED BY <1>3, <1>4, RequestRests DEF ServerInv

LEMMA CommandSteps ==
  ASSUME ServerInv, ForkCommand \/ ForkFails \/ ReadStdout \/ ReadStderr \/ WaitCommand
  PROVE  ServerInv'
<1>0. ChildTypes /\ StageInv /\ RequestTypes
  BY DEF ServerInv
<1>1. CASE ForkCommand
  <2>1. /\ thread = "fork" /\ child' \in Program /\ thread' = "stdout"
        /\ UNCHANGED <<requestVars, commands, pipe, held, late>>
    BY <1>1 DEF ForkCommand
  <2>2. child' \in ChildRecord /\ child'.alive = TRUE /\ child'.err \in 0 .. PipeBlocks
    BY <2>1 DEF Program, ChildRecord
  <2>3. pipe = Empty /\ late = FALSE /\ commands >= 1
    BY <1>0, <2>1 DEF StageInv, NothingLeftOver, ChildTypes
  <2>4. ChildTypes'
    BY <1>0, <2>1, <2>2 DEF ChildTypes, ServerStages, PipeRecord, ChildRecord
  <2>5. child'.err + pipe'.err <= PipeBlocks
    BY <2>1, <2>2, <2>3, NoProgram, ServerAssumption
  <2>6. StageInv'
    BY <2>1, <2>2, <2>3, <2>5 DEF StageInv, NothingLeftOver
  <2> QED BY <2>1, <1>0, <2>4, <2>6, RequestRests DEF ServerInv
<1>2. CASE ForkFails
  <2>1. /\ thread = "fork" /\ CommandDone /\ UNCHANGED <<requestVars, child, pipe, held, late>>
    BY <1>2 DEF ForkFails
  <2>2. child = NoChild /\ pipe = Empty
    BY <1>0, <2>1 DEF StageInv, NothingLeftOver
  <2> QED BY <2>1, <2>2, CommandDoneKeeps
<1>3. CASE WaitCommand
  <2>1. /\ thread = "wait" /\ CommandDone /\ UNCHANGED <<requestVars, child, pipe, held, late>>
    BY <1>3 DEF WaitCommand
  <2>2. child = NoChild /\ pipe.out = 0 /\ pipe.err = 0
    BY <1>0, <2>1 DEF StageInv
  <2>3. pipe = Empty
    BY <1>0, <2>2, ServerNumbers DEF Empty
  <2> QED BY <2>1, <2>2, <2>3, CommandDoneKeeps
<1>4. CASE ReadStdout \/ ReadStderr
  <2>1. \E f \in {"out", "err"}, next \in {"stderr", "wait"} :
          /\ thread = (IF f = "out" THEN "stdout" ELSE "stderr")
          /\ next = (IF f = "out" THEN "stderr" ELSE "wait")
          /\ ReadPipe(f, next)
    BY <1>4 DEF ReadStdout, ReadStderr
  <2>2. PICK f \in {"out", "err"}, next \in {"stderr", "wait"} :
          /\ thread = (IF f = "out" THEN "stdout" ELSE "stderr")
          /\ next = (IF f = "out" THEN "stderr" ELSE "wait")
          /\ ReadPipe(f, next)
    BY <2>1
  <2>3. UNCHANGED <<requestVars, commands, child, held, late>>
    BY <2>2 DEF ReadPipe
  <2>4. CASE pipe[f] > 0
    <3>1. pipe' = [pipe EXCEPT ![f] = @ - 1] /\ thread' = thread
      BY <2>2, <2>4 DEF ReadPipe
    <3>2. /\ pipe' \in PipeRecord
          /\ f = "out" => pipe'.out = pipe.out - 1 /\ pipe'.err = pipe.err
          /\ f = "err" => pipe'.out = pipe.out /\ pipe'.err = pipe.err - 1
      <4>1. pipe \in [out : 0 .. PipeBlocks, err : 0 .. PipeBlocks] /\ PipeBlocks \in Nat
        BY <1>0, ServerNumbers DEF ChildTypes, PipeRecord
      <4> QED BY <2>4, <3>1, <4>1 DEF PipeRecord
    <3>3. ChildTypes'
      BY <1>0, <2>3, <3>1, <3>2 DEF ChildTypes, ChildRecord, PipeRecord
    <3>4. StageInv'
      <4>1. child.err + pipe.err <= PipeBlocks => child.err + pipe'.err <= PipeBlocks
        BY <1>0, <3>2, ServerNumbers
      <4> QED BY <1>0, <2>2, <2>3, <3>1, <3>2, <4>1 DEF StageInv, NothingLeftOver, NoChild
    <3> QED BY <1>0, <2>3, <3>3, <3>4, RequestRests DEF ServerInv
  <2>5. CASE ~ (pipe[f] > 0)
    <3>1. ~ child.alive /\ thread' = next /\ pipe' = pipe
      BY <2>2, <2>5 DEF ReadPipe
    <3>2. f = "out" => pipe.out = 0
      BY <1>0, <2>5, ServerNumbers
    <3>3. f = "err" => pipe.err = 0
      BY <1>0, <2>5, ServerNumbers
    <3>4. ChildTypes'
      BY <1>0, <2>2, <2>3, <3>1 DEF ChildTypes, ServerStages, ChildRecord, PipeRecord
    <3>5. StageInv'
      BY <1>0, <2>2, <2>3, <3>1, <3>2, <3>3 DEF StageInv, NothingLeftOver, NoChild
    <3> QED BY <1>0, <2>3, <3>4, <3>5, RequestRests DEF ServerInv
  <2> QED BY <2>4, <2>5
<1> QED BY <1>1, <1>2, <1>3, <1>4

\* The script is killed, or had ended.
LEMMA KillKeeps ==
  ASSUME ServerInv, KillScript, UNCHANGED <<requestVars, commands, held>>
  PROVE  ServerInv'
<1>1. child' = NoChild /\ pipe' = Empty /\ late' = FALSE /\ thread' = "send"
  BY DEF KillScript
<1>2. ChildTypes'
  BY <1>1, NoProgram DEF ServerInv, ChildTypes, ServerStages, ChildRecord, PipeRecord
<1>3. StageInv'
  BY <1>1, NoProgram DEF StageInv, NothingLeftOver, NoChild, Empty
<1> QED BY <1>2, <1>3, RequestRests DEF ServerInv

LEMMA ScriptSteps ==
  ASSUME ServerInv, ReadScript \/ ReapScript \/ DeadlinePasses
  PROVE  ServerInv'
<1>0. ChildTypes /\ StageInv /\ RequestTypes
  BY DEF ServerInv
<1>1. CASE KillScript
  <2>1. thread \in {"script", "reap"} /\ UNCHANGED <<requestVars, commands, held>>
    BY <1>1 DEF KillScript, ReadScript, ReapScript, DeadlinePasses
  <2> QED BY <1>1, <2>1, KillKeeps
<1>2. CASE ~ KillScript
  <2>1. /\ thread \in {"script", "reap"} /\ thread' \in {"script", "reap"}
        /\ UNCHANGED <<requestVars, commands, child, held>>
        /\ late' \in BOOLEAN /\ pipe' \in PipeRecord
    <3>1. CASE DeadlinePasses
      BY <1>0, <3>1 DEF DeadlinePasses, ChildTypes, PipeRecord
    <3>2. CASE ReadScript
      <4>1. pipe \in [out : 0 .. PipeBlocks, err : 0 .. PipeBlocks] /\ PipeBlocks \in Nat
        BY <1>0, ServerNumbers DEF ChildTypes, PipeRecord
      <4> QED BY <1>0, <1>2, <3>2, <4>1 DEF ReadScript, ChildTypes, PipeRecord
    <3>3. CASE ReapScript
      BY <1>2, <3>3 DEF ReapScript
    <3> QED BY <3>1, <3>2, <3>3
  <2>2. ChildTypes'
    BY <1>0, <2>1 DEF ChildTypes, ServerStages, ChildRecord, PipeRecord
  <2>3. StageInv'
    BY <1>0, <2>1 DEF StageInv, NothingLeftOver, NoChild
  <2> QED BY <1>0, <2>1, <2>2, <2>3, RequestRests DEF ServerInv
<1> QED BY <1>1, <1>2

-----------------------------------------------------------------------------
(* The program, and the watcher's. *)

LEMMA ProgramSteps ==
  ASSUME ServerInv, ChildPrints \/ ChildEnds \/ WatcherForks \/ WatchersProgramEnds
  PROVE  ServerInv'
<1>0. ChildTypes /\ StageInv /\ RequestTypes /\ RequestTypes'
  BY RequestRests DEF ServerInv, ChildPrints, ChildEnds, WatcherForks, WatchersProgramEnds
<1>1. CASE ChildPrints
  <2>1. PICK f \in {"out", "err"} :
          /\ child[f] > 0 /\ pipe[f] < PipeBlocks
          /\ child' = [child EXCEPT ![f] = @ - 1]
          /\ pipe' = [pipe EXCEPT ![f] = @ + 1]
    BY <1>1 DEF ChildPrints
  <2>2. child.alive /\ UNCHANGED <<thread, commands, held, late>>
    BY <1>1 DEF ChildPrints
  <2>3. /\ child \in [out : 0 .. MaxPrint, err : 0 .. PipeBlocks, alive : BOOLEAN]
        /\ pipe \in [out : 0 .. PipeBlocks, err : 0 .. PipeBlocks]
        /\ PipeBlocks \in Nat /\ MaxPrint \in Nat
    BY <1>0, ServerNumbers DEF ChildTypes, ChildRecord, PipeRecord
  <2>4. /\ child' \in ChildRecord /\ pipe' \in PipeRecord /\ child'.alive = child.alive
        /\ child'.err + pipe'.err = child.err + pipe.err
    <3>1. CASE f = "out"
      BY <2>1, <2>3, <3>1 DEF ChildRecord, PipeRecord
    <3>2. CASE f = "err"
      BY <2>1, <2>3, <3>2 DEF ChildRecord, PipeRecord
    <3> QED BY <3>1, <3>2
  <2>5. ChildTypes'
    BY <1>0, <2>2, <2>4 DEF ChildTypes, ChildRecord, PipeRecord
  <2>6. thread \in {"stdout", "script", "reap"}
    BY <1>0, <2>2, NoProgram DEF StageInv, NothingLeftOver, ServerStages, ChildTypes
  <2>7. StageInv'
    BY <1>0, <2>2, <2>4, <2>6 DEF StageInv, NothingLeftOver
  <2> QED BY <1>0, <2>5, <2>7 DEF ServerInv
<1>2. CASE ChildEnds
  <2>1. child.alive /\ child' = NoChild /\ UNCHANGED <<thread, commands, pipe, held, late>>
    BY <1>2 DEF ChildEnds
  <2>2. ChildTypes'
    BY <1>0, <2>1, NoProgram DEF ChildTypes, ChildRecord, PipeRecord
  <2>3. pipe.err \in Nat /\ pipe.err <= PipeBlocks /\ 0 + pipe.err <= PipeBlocks
    BY <1>0, ServerNumbers
  <2>4. StageInv'
    BY <1>0, <2>1, <2>3, NoProgram DEF StageInv, NothingLeftOver, NoChild, Empty
  <2> QED BY <1>0, <2>2, <2>4 DEF ServerInv
<1>3. CASE WatcherForks \/ WatchersProgramEnds
  <2>1. held' \in BOOLEAN /\ UNCHANGED <<thread, commands, child, pipe, late>>
    BY <1>3 DEF WatcherForks, WatchersProgramEnds
  <2> QED BY <1>0, <2>1 DEF ServerInv, ChildTypes, StageInv, NothingLeftOver, NoChild, Empty,
                            ChildRecord, PipeRecord
<1> QED BY <1>1, <1>2, <1>3

LEMMA ServerStep == ServerInv /\ [ServerNext]_serverVars => ServerInv'
<1> SUFFICES ASSUME ServerInv, [ServerNext]_serverVars PROVE ServerInv'
  OBVIOUS
<1>1. CASE UNCHANGED serverVars
  <2>1. /\ UNCHANGED <<backlog, gone, caller, blocks>>
        /\ UNCHANGED <<thread, commands, child, pipe, held, late>>
    BY <1>1 DEF serverVars, requestVars, childVars
  <2> QED BY <2>1 DEF ServerInv, RequestTypes, ChildTypes, StageInv, NothingLeftOver, NoChild, Empty,
                      ChildRecord, PipeRecord
<1>2. CASE \E c \in Callers : CallerConnects(c)
  BY <1>2, ConnectKeeps
<1>3. CASE ServerThread
  BY <1>3, RequestSteps, HandleKeeps, CommandSteps, ScriptSteps DEF ServerThread
<1>4. CASE WatcherForks \/ WatchersProgramEnds \/ ChildPrints \/ ChildEnds
  BY <1>4, ProgramSteps
<1>5. CASE DeadlinePasses
  BY <1>5, ScriptSteps
<1> QED BY <1>1, <1>2, <1>3, <1>4, <1>5 DEF ServerNext

LEMMA ServerTyped == ServerInv => ServerTypeOK
<1> SUFFICES ASSUME ServerInv PROVE ServerTypeOK
  OBVIOUS
<1>1. RequestTypes /\ ChildTypes
  BY DEF ServerInv
<1>2. \A i \in DOMAIN backlog : backlog[i] \in Callers
  BY <1>1, LenProperties, ElementOfSeq DEF RequestTypes
<1> QED BY <1>1, <1>2 DEF RequestTypes, ChildTypes, ServerTypeOK, ChildRecord, PipeRecord

LEMMA SomebodyMoves == ServerInv => NoCircularWait
<1> SUFFICES ASSUME ServerInv, CommandRuns, child.alive
             PROVE  /\ thread = "stdout"
                    /\ \/ child.out = 0 /\ child.err = 0
                       \/ \E f \in {"out", "err"} : child[f] > 0 /\ pipe[f] < PipeBlocks
                       \/ pipe.out > 0
  BY DEF NoCircularWait
<1>1. thread = "stdout" /\ child.err + pipe.err <= PipeBlocks
  BY DEF ServerInv, StageInv, CommandRuns
<1>2. /\ PipeBlocks \in Nat /\ PipeBlocks >= 1 /\ child.out \in Nat /\ child.err \in Nat
      /\ pipe.out \in Nat /\ pipe.err \in Nat
  BY ServerNumbers DEF ServerInv
<1>3. CASE child.err > 0
  <2>1. child["err"] > 0 /\ pipe["err"] < PipeBlocks
    BY <1>1, <1>2, <1>3
  <2> QED BY <1>1, <2>1
<1>4. CASE child.err = 0 /\ child.out > 0 /\ ~ (pipe.out > 0)
  <2>1. child["out"] > 0 /\ pipe["out"] < PipeBlocks
    BY <1>2, <1>4
  <2> QED BY <1>1, <2>1
<1> QED BY <1>1, <1>2, <1>3, <1>4

\* The server stays within its types.
THEOREM ServerTypeCorrect == ServerSpec => []ServerTypeOK
BY ServerStarts, ServerStep, ServerTyped, PTL DEF ServerSpec

\* run_command and the program it runs never wait for each other in a circle.
THEOREM NobodyWaitsInACircle == ServerSpec => []NoCircularWait
BY ServerStarts, ServerStep, SomebodyMoves, PTL DEF ServerSpec

\* A request finds no program and no output of the one before.
THEOREM ProgramsLeaveNothing == ServerSpec => []NothingLeftOver
<1>1. ServerInv => NothingLeftOver
  BY DEF ServerInv, StageInv
<1> QED BY <1>1, ServerStarts, ServerStep, PTL DEF ServerSpec

-----------------------------------------------------------------------------
(* Side by side. *)

\* Each part of a behaviour of commaviewd is a behaviour of that part alone: what is proved
\* of one holds of the whole.
THEOREM DaemonRunsItsParts ==
  DaemonSpec => /\ Spec /\ ConfigSpec /\ SlotSpec /\ TelemetrySpec
                /\ LocationSpec /\ ServerSpec
<1>1. DaemonInit => /\ Init /\ ConfigInit /\ SlotInit /\ TelemetryInit
                    /\ LocationInit /\ ServerInit
  BY DEF DaemonInit
<1>2. [DaemonNext]_daemonVars =>
        /\ [Next]_vars /\ [ConfigNext]_configVars /\ [SlotNext]_slotVars
        /\ [TelemetryNext]_telemetryVars /\ [LocationNext]_locationVars
        /\ [ServerNext]_serverVars
  BY DEF DaemonNext, daemonVars, bridgePartVars, controlPartVars
<1> QED BY <1>1, <1>2, PTL DEF DaemonSpec, Spec, ConfigSpec, SlotSpec, TelemetrySpec,
                              LocationSpec, ServerSpec

\* commaviewd stays within its types.
THEOREM DaemonTypeCorrect == DaemonSpec => []DaemonTypeOK
<1>1. EmitInv => TelemetryTypeOK
  BY DEF EmitInv
<1>2. ConfigInv => ConfigTypeOK
  BY DEF ConfigInv
<1> QED BY <1>1, <1>2, DaemonRunsItsParts, WireTypeCorrect, ConfigIsInvariant, CounterIsExact,
           MarksAreInvariant, LocationTypeCorrect, ServerTypeCorrect, PTL DEF DaemonTypeOK

\* Whichever part a behaviour of the composed model runs, it keeps what that part promises.
THEOREM DaemonIsSafe ==
  DaemonSpec => [](/\ FramesDoNotInterleave /\ CutIsFatal
                   /\ QuietMeansLoaded /\ SnapshotMatches /\ OneSession /\ EmitsInOrder
                   /\ EachDriveOnce /\ NoCircularWait /\ NothingLeftOver)
BY DaemonRunsItsParts, OneFrameAtATime, CutEndsTheSession, PromiseIsKept,
   SameGenerationSamePolicies, PortServesOne, UpdatesArriveInOrder, EveryDriveHasOnePlace,
   NobodyWaitsInACircle, ProgramsLeaveNothing, PTL
=============================================================================
