------------------------------ MODULE RoadPhase ------------------------------
(***************************************************************************)
(* Whether the car is offroad, parked or driving, as the control API and    *)
(* "commaviewd road-phase" decide it: the onroad params, then the newest    *)
(* carState and selfdriveState messages, then the clock, each read at a     *)
(* moment of its own while the car does as it likes and a publisher may     *)
(* have stopped.  A peek that returns nothing is a free choice.             *)
(*                                                                          *)
(* Time is ages: of a message, and of the moment something was last so.     *)
(* One that is older than the window is Old.                                *)
(***************************************************************************)
EXTENDS Integers

CONSTANT FreshTicks \* kRoadPhaseFreshNs

ASSUME RoadPhaseAssumption == FreshTicks \in Nat

VARIABLES
  resting, engaged, \* the car: in a known gear that is Park and at a standstill; openpilot
  params,           \* IsOffroad, or else IsOnroad: "onroad", "offroad" or "unknown"
  car_message, selfdrive_message, \* the newest of each queue
  reader,           \* where the reading is
  onroad, car_read, selfdrive_read, \* what it has read
  reading,          \* the last answer
  rest_age, free_age, \* history: since the car last rested, since it was last not engaged
  checked           \* history: the two ages when the answer was parked

roadVars     == <<resting, engaged, params>>
queueVars     == <<car_message, selfdrive_message>>
copyVars      == <<onroad, car_read, selfdrive_read>>
answerVars    == <<reading, checked>>
ageVars       == <<rest_age, free_age>>
roadPhaseVars == <<roadVars, queueVars, reader, copyVars, answerVars, ageVars>>

Old  == FreshTicks + 1
Ages == 0 .. Old
Older(age) == IF age = Old THEN Old ELSE age + 1

NoCar       == [age |-> Old, resting |-> FALSE]
NoSelfdrive == [age |-> Old, enabled |-> TRUE]
Unchecked   == [rest |-> Old, free |-> Old]

-----------------------------------------------------------------------------
(* The car and openpilot. *)

CarMoves ==
  /\ resting' \in BOOLEAN /\ engaged' \in BOOLEAN
  /\ rest_age' = IF resting' THEN 0 ELSE rest_age
  /\ free_age' = IF engaged' THEN free_age ELSE 0
  /\ UNCHANGED <<params, queueVars, reader, copyVars, answerVars>>

TimePasses ==
  /\ rest_age' = IF resting THEN 0 ELSE Older(rest_age)
  /\ free_age' = IF engaged THEN Older(free_age) ELSE 0
  /\ car_message' = [car_message EXCEPT !.age = Older(@)]
  /\ selfdrive_message' = [selfdrive_message EXCEPT !.age = Older(@)]
  /\ car_read' = [car_read EXCEPT !.age = Older(@)]
  /\ selfdrive_read' = [selfdrive_read EXCEPT !.age = Older(@)]
  /\ UNCHANGED <<roadVars, reader, onroad, answerVars>>

ParamsChange ==
  /\ \E p \in {"onroad", "offroad", "unknown"} : params' = p
  /\ UNCHANGED <<resting, engaged, queueVars, reader, copyVars, answerVars, ageVars>>

PublishCarState ==
  /\ car_message' = [age |-> 0, resting |-> resting]
  /\ UNCHANGED <<roadVars, selfdrive_message, reader, copyVars, answerVars, ageVars>>

PublishSelfdriveState ==
  /\ selfdrive_message' = [age |-> 0, enabled |-> engaged]
  /\ UNCHANGED <<roadVars, car_message, reader, copyVars, answerVars, ageVars>>

-----------------------------------------------------------------------------
(* The reading. *)

\* An unknown state is onroad.
IsOnroad == params # "offroad"

ReadOnroad ==
  /\ reader = "idle"
  /\ onroad' = IsOnroad
  /\ reader' = IF IsOnroad THEN "car" ELSE "decide"
  /\ UNCHANGED <<roadVars, queueVars, car_read, selfdrive_read, answerVars, ageVars>>

\* peek and car_sample_from_event: no message, or the newest.
PeekCarState ==
  /\ reader = "car"
  /\ car_read' \in {NoCar, car_message}
  /\ reader' = "selfdrive"
  /\ UNCHANGED <<roadVars, queueVars, onroad, selfdrive_read, answerVars, ageVars>>

\* The same, with selfdrive_sample_from_event.
PeekSelfdriveState ==
  /\ reader = "selfdrive"
  /\ selfdrive_read' \in {NoSelfdrive, selfdrive_message}
  /\ reader' = "decide"
  /\ UNCHANGED <<roadVars, queueVars, onroad, car_read, answerVars, ageVars>>

\* Mutant: the age of a message is not looked at.
Fresh_at_any_age(age) == age \in Ages

\* The stamps and the reader's clock are the same clock, read last.
Fresh(age) == age <= FreshTicks

DecideRoadPhase ==
  IF ~ onroad THEN "offroad"
  ELSE IF /\ Fresh(car_read.age) /\ car_read.resting
          /\ Fresh(selfdrive_read.age) /\ ~ selfdrive_read.enabled
         THEN "parked"
  ELSE "driving"

Decide ==
  /\ reader = "decide"
  /\ reading' = DecideRoadPhase
  /\ checked' = IF reading' = "parked" THEN [rest |-> rest_age, free |-> free_age] ELSE Unchecked
  /\ reader' = "idle" /\ onroad' = TRUE /\ car_read' = NoCar /\ selfdrive_read' = NoSelfdrive
  /\ UNCHANGED <<roadVars, queueVars, ageVars>>

-----------------------------------------------------------------------------
RoadPhaseInit ==
  /\ resting = FALSE /\ engaged = TRUE /\ params = "onroad"
  /\ car_message = NoCar /\ selfdrive_message = NoSelfdrive
  /\ reader = "idle" /\ onroad = TRUE /\ car_read = NoCar /\ selfdrive_read = NoSelfdrive
  /\ reading = "driving" /\ checked = Unchecked
  /\ rest_age = Old /\ free_age = Old

RoadPhaseNext ==
  \/ CarMoves \/ TimePasses \/ ParamsChange \/ PublishCarState \/ PublishSelfdriveState
  \/ ReadOnroad \/ PeekCarState \/ PeekSelfdriveState \/ Decide

RoadPhaseSpec == RoadPhaseInit /\ [][RoadPhaseNext]_roadPhaseVars

-----------------------------------------------------------------------------
(* Properties. *)

CarSample       == [age : Ages, resting : BOOLEAN]
SelfdriveSample == [age : Ages, enabled : BOOLEAN]

RoadPhaseTypeOK ==
  /\ resting \in BOOLEAN /\ engaged \in BOOLEAN /\ params \in {"onroad", "offroad", "unknown"}
  /\ car_message \in CarSample /\ car_read \in CarSample
  /\ selfdrive_message \in SelfdriveSample /\ selfdrive_read \in SelfdriveSample
  /\ reader \in {"idle", "car", "selfdrive", "decide"} /\ onroad \in BOOLEAN
  /\ reading \in {"offroad", "parked", "driving"}
  /\ rest_age \in Ages /\ free_age \in Ages
  /\ checked \in [rest : Ages, free : Ages]

\* "Parked" is never an echo: within the last second before the answer the car was in Park
\* at a standstill, and within that second openpilot was not engaged, whichever publisher
\* had stopped and whatever the car did between the reads.
ParkedWasParked ==
  reading = "parked" => checked.rest <= FreshTicks /\ checked.free <= FreshTicks
=============================================================================
