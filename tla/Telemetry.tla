------------------------------ MODULE Telemetry ------------------------------
(***************************************************************************)
(* telemetry_loop on the telemetry-only port: which of the updates the UI   *)
(* export socket keeps (the latest frame of each service) a client is sent, *)
(* under the policy of the service, the emission marks and the freshness    *)
(* window, all in wall-clock milliseconds; and handle_telemetry_client.     *)
(*                                                                          *)
(* A frame is its number among the service's updates and its time.  The     *)
(* wall clock may be set: it moves to any value.  How bytes are sent is     *)
(* ClientWire's business.                                                   *)
(***************************************************************************)
EXTENDS Integers

CONSTANTS
  Services, Latched, \* telemetry_service_is_latched: carParams
  MaxOffers,         \* bound: updates of a service
  MaxClock,          \* bound: values of the wall clock
  FreshWindow,       \* kFreshFrameWindowMs
  SampleInterval     \* 1000 / sampleHz

ASSUME TelemetryAssumption ==
  /\ Latched \subseteq Services
  /\ {MaxOffers, MaxClock, FreshWindow, SampleInterval} \subseteq Nat
  /\ MaxClock >= 1
  /\ Services \cap {"idle", "ended"} = {}

VARIABLES
  wall_clock,
  latest,    \* per service: the frame SocketServer keeps, number 0: none
  policy,    \* the loop's copy of the mode, the same for all services
  link,      \* the connection: "none", "up", "shut" or "left" (the handler is joining)
  hung_up,   \* the client has closed its end, or the bridge stops
  flagged,   \* disconnect_requested
  looping,   \* the loop: "idle", "ended" or the service it sends
  fetched,   \* the frame being sent and now_ms
  last_emit, \* per service: last_ui_emit_ms
  last_wall, \* per service: last_ui_emit_wall_ms
  received,  \* history, per service: the number of the last frame the client got
  refused    \* history: the services of which its socket took no byte of an update

sourceVars    == <<wall_clock, latest, policy>>
linkVars      == <<link, hung_up, flagged>>
markVars      == <<last_emit, last_wall>>
clientVars    == <<received, refused>>
telemetryVars == <<sourceVars, linkVars, looping, fetched, markVars, clientVars>>

None   == [number |-> 0, at |-> 0]
Zeros  == [s \in Services |-> 0]
Modes  == {"off", "sample", "pass"}
NoSend == [frame |-> None, now |-> 0]

-----------------------------------------------------------------------------
(* What the loop reads. *)

SetClock ==
  /\ \E t \in 1 .. MaxClock : wall_clock' = t
  /\ UNCHANGED <<latest, policy, linkVars, looping, fetched, markVars, clientVars>>

Offer(s) ==
  /\ latest[s].number < MaxOffers
  /\ latest' = [latest EXCEPT ![s] = [number |-> @.number + 1, at |-> wall_clock]]
  /\ UNCHANGED <<wall_clock, policy, linkVars, looping, fetched, markVars, clientVars>>

\* refresh_config_snapshot, at the start of a pass.
SetPolicy ==
  /\ looping = "idle"
  /\ \E m \in Modes : policy' = m
  /\ UNCHANGED <<wall_clock, latest, linkVars, looping, fetched, markVars, clientVars>>

-----------------------------------------------------------------------------
(* The loop.  The order of the services in a pass does not matter. *)

\* Mutant: every service has the freshness window.
LatestFrame_fresh(s) ==
  /\ latest[s].number # 0
  /\ wall_clock - latest[s].at \in 0 .. FreshWindow

\* SocketServer::latest_frame, with no window for a latched service.
LatestFrame(s) ==
  /\ latest[s].number # 0
  /\ s \in Latched \/ wall_clock - latest[s].at \in 0 .. FreshWindow

\* Mutant: a frame that is not newer than the last one is sent.
AllowsEmit_again(s) ==
  /\ policy # "off"
  /\ latest[s].at >= last_emit[s]
  /\ policy = "sample" => last_wall[s] = 0 \/ wall_clock >= last_wall[s] + SampleInterval

\* telemetry_policy_allows_emit.
AllowsEmit(s) ==
  /\ policy # "off"
  /\ latest[s].at > last_emit[s]
  /\ policy = "sample" => last_wall[s] = 0 \/ wall_clock >= last_wall[s] + SampleInterval

FetchLatest(s) ==
  /\ link # "none" /\ looping = "idle" /\ ~ flagged
  /\ LatestFrame(s) /\ AllowsEmit(s)
  /\ fetched' = [frame |-> latest[s], now |-> wall_clock]
  /\ looping' = s
  /\ UNCHANGED <<sourceVars, linkVars, markVars, clientVars>>

\* Sent whole, or dropped with no byte taken: the marks are set either way.
SendUpdate ==
  /\ \E s \in Services :
       /\ looping = s
       /\ last_emit' = [last_emit EXCEPT ![s] = fetched.frame.at]
       /\ last_wall' = [last_wall EXCEPT ![s] = fetched.now]
       /\ \/ link = "up" /\ received' = [received EXCEPT ![s] = fetched.frame.number]
             /\ UNCHANGED refused
          \/ refused' = refused \cup {s} /\ UNCHANGED received
  /\ looping' = "idle" /\ fetched' = NoSend
  /\ UNCHANGED <<sourceVars, linkVars>>

\* Cut short, or the socket failed.
SendUpdateFails ==
  /\ looping \in Services
  /\ flagged' = TRUE
  /\ link' = IF link = "up" THEN "shut" ELSE link
  /\ looping' = "ended" /\ fetched' = NoSend
  /\ UNCHANGED <<sourceVars, hung_up, markVars, clientVars>>

LoopLeaves ==
  /\ link # "none" /\ looping = "idle"
  /\ hung_up \/ flagged \/ link # "up"
  /\ flagged' = TRUE
  /\ looping' = "ended"
  /\ UNCHANGED <<sourceVars, link, hung_up, fetched, markVars, clientVars>>

TelemetryLoop == (\E s \in Services : FetchLatest(s)) \/ SendUpdate \/ LoopLeaves

-----------------------------------------------------------------------------
(* handle_telemetry_client. *)

ConnectTelemetry ==
  /\ link = "none"
  /\ link' = "up"
  /\ looping' = "idle"
  /\ UNCHANGED <<sourceVars, hung_up, flagged, fetched, markVars, clientVars>>

HangUpTelemetry ==
  /\ link # "none" /\ ~ hung_up
  /\ hung_up' = TRUE
  /\ UNCHANGED <<sourceVars, link, flagged, looping, fetched, markVars, clientVars>>

HandlerLeaves ==
  /\ link \in {"up", "shut"}
  /\ hung_up \/ flagged \/ link = "shut"
  /\ flagged' = TRUE /\ link' = "left"
  /\ UNCHANGED <<sourceVars, hung_up, looping, fetched, markVars, clientVars>>

\* The loop is joined, the descriptor closed; flag and marks were this client's.
CloseTelemetry ==
  /\ link = "left" /\ looping = "ended"
  /\ link' = "none" /\ hung_up' = FALSE /\ flagged' = FALSE
  /\ last_emit' = Zeros /\ last_wall' = Zeros /\ received' = Zeros /\ refused' = {}
  /\ UNCHANGED <<sourceVars, looping, fetched>>

TelemetryHandler == HandlerLeaves \/ CloseTelemetry

-----------------------------------------------------------------------------
TelemetryInit ==
  /\ wall_clock = 1
  /\ latest = [s \in Services |-> None] /\ policy = "pass"
  /\ link = "none" /\ hung_up = FALSE /\ flagged = FALSE /\ looping = "ended"
  /\ fetched = NoSend
  /\ last_emit = Zeros /\ last_wall = Zeros /\ received = Zeros /\ refused = {}

TelemetryNext ==
  \/ SetClock
  \/ \E s \in Services : Offer(s)
  \/ SetPolicy
  \/ TelemetryLoop \/ SendUpdateFails
  \/ ConnectTelemetry \/ HangUpTelemetry \/ TelemetryHandler

TelemetrySpec == TelemetryInit /\ [][TelemetryNext]_telemetryVars

-----------------------------------------------------------------------------
(* Properties. *)

Frames == [number : 0 .. MaxOffers, at : 0 .. MaxClock]

TelemetryTypeOK ==
  /\ wall_clock \in 1 .. MaxClock
  /\ latest \in [Services -> Frames] /\ policy \in Modes
  /\ link \in {"none", "up", "shut", "left"}
  /\ hung_up \in BOOLEAN /\ flagged \in BOOLEAN
  /\ looping \in {"idle", "ended"} \cup Services
  /\ fetched \in [frame : Frames, now : 0 .. MaxClock]
  /\ last_emit \in [Services -> 0 .. MaxClock] /\ last_wall \in [Services -> 0 .. MaxClock]
  /\ received \in [Services -> 0 .. MaxOffers] /\ refused \subseteq Services

\* On one connection the updates of a service arrive in order and none arrives twice,
\* although "newer" is decided by a wall clock that may be set back between two updates
\* or give both the same millisecond.
EmitsInOrder == \A s \in Services : looping = s => fetched.frame.number > received[s]

Listens == link = "up" /\ ~ hung_up /\ ~ flagged /\ policy # "off"

\* Once the car's identity has been offered, a client that stays gets it, however long before
\* it came that was and whatever the wall clock does: unless its socket is full when the
\* update's turn comes.  One that took no byte is marked as sent (bridge_runtime.cc:1183), so
\* "each new client is sent it once" (telemetry_policy.h:85) is tried once and not kept.
LatchedArrives ==
  \A s \in Latched :
    Listens /\ latest[s].number # 0 ~> ~ Listens \/ received[s] # 0 \/ s \in refused
=============================================================================
