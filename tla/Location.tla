------------------------------- MODULE Location -------------------------------
(***************************************************************************)
(* Control mode's drive watcher, the location setting and the drive stats   *)
(* script: a thread that notices drives by polling the road state and runs  *)
(* the script after each, one run at a time; the HTTP thread that switches  *)
(* location sharing and asks for positions; and the script, another         *)
(* process.  The thread and the HTTP thread share g_drive under a mutex;    *)
(* the setting and the two stored positions are files under no lock.        *)
(*                                                                          *)
(* Times are flags that waiting sets: a delayed run is due, a run is        *)
(* overdue.  A position is its being there.                                 *)
(***************************************************************************)
EXTENDS Integers, Sequences, Picking

CONSTANT MaxDrives \* bound: drives noticed

ASSUME LocationAssumption == MaxDrives \in Nat

VARIABLES
  car,        \* road_state: "on", "off" or "unknown"
  watcher,    \* drive_watch_tick: "idle", or "saving" (it holds g_drive_mutex)
  driving, drives, \* the watcher's, and how many drives it has seen
  last_fix,   \* the watcher has a fix of this drive
  queued,     \* runs of the script: what, for which drive, due
  script,     \* the running one, and where it is
  ran,        \* history: drives whose after-drive run was started, or that need none
  enabled,    \* config/location.json
  setter,     \* the request that switches it off: "idle", "live" or "last" to delete
  live_file, last_file \* location-log.json and location-last.json exist

driveVars    == <<watcher, driving, drives, last_fix>>
runVars      == <<queued, script, ran>>
settingVars  == <<enabled, setter>>
storedVars   == <<live_file, last_file>>
locationVars == <<car, driveVars, runVars, settingVars, storedVars>>

NoScript == [what |-> "none", drive |-> 0, at |-> "done", overdue |-> FALSE]
Run(what, drive) == [what |-> what, drive |-> drive, due |-> what # "after-drive"]

-----------------------------------------------------------------------------
(* The car, and time. *)

CarChanges ==
  /\ \E c \in {"on", "off", "unknown"} : car' = c
  /\ UNCHANGED <<driveVars, runVars, settingVars, storedVars>>

\* Thirty seconds after a drive.
DelayPasses ==
  /\ \E i \in DOMAIN queued : ~ queued[i].due
  /\ queued' = [i \in DOMAIN queued |-> [queued[i] EXCEPT !.due = TRUE]]
  /\ UNCHANGED <<car, driveVars, script, ran, settingVars, storedVars>>

\* Ten minutes of a run.
RunGetsOld ==
  /\ script.what # "none" /\ ~ script.overdue
  /\ script' = [script EXCEPT !.overdue = TRUE]
  /\ UNCHANGED <<car, driveVars, queued, ran, settingVars, storedVars>>

-----------------------------------------------------------------------------
(* The queue of runs. *)

\* queue_drive_script_locked: the same run is not queued twice.
WithRun(q, run) ==
  IF \E i \in DOMAIN q : q[i].what = run.what /\ q[i].drive = run.drive THEN q ELSE Append(q, run)

\* Mutant: a run stuck on the network is waited for.
Reaped_waits == IF script.at = "done" THEN NoScript ELSE script

\* waitpid(WNOHANG), or the kill of a run that is ten minutes old.
Reaped == IF script.at = "done" \/ script.overdue THEN NoScript ELSE script

MayRun(run, road) == IF run.what = "position" THEN road # "off" ELSE road = "off" /\ run.due

\* Mutant: parked, whatever may not run yet is dropped as well.
Dropped_parked(run, road) == road = "off"

Dropped(run, road) == run.what = "position" /\ road = "off"

\* spawn_drive_script: a process of its own at its first step.  A fork that fails is left
\* out: its run is lost.
Spawned(run) == [what |-> run.what, drive |-> run.drive, at |-> "begun", overdue |-> FALSE]

\* One run at a time, the first that may; parked, position runs before it are dropped.
\* over: drives that need no run.
SpawnNext(q, road, over) ==
  LET may  == {i \in DOMAIN q : MayRun(q[i], road)}
      keep(s) == Picked(s, {i \in DOMAIN s : ~ Dropped(s[i], road)})
  IN IF Reaped # NoScript THEN queued' = q /\ script' = Reaped /\ ran' = ran \cup over
     ELSE IF may = {} THEN queued' = keep(q) /\ script' = NoScript /\ ran' = ran \cup over
     ELSE LET i == CHOOSE k \in may : \A l \in may : k <= l IN
            /\ queued' = keep(SubSeq(q, 1, i - 1)) \o SubSeq(q, i + 1, Len(q))
            /\ script' = Spawned(q[i])
            /\ ran' = ran \cup over \cup (IF q[i].what = "after-drive" THEN {q[i].drive} ELSE {})

-----------------------------------------------------------------------------
(* drive_watch_tick. *)

TickOn ==
  /\ watcher = "idle" /\ car = "on"
  /\ driving \/ drives < MaxDrives
  /\ driving' = TRUE
  /\ drives' = IF driving THEN drives ELSE drives + 1
  /\ \E fix \in BOOLEAN : last_fix' = (enabled /\ (fix \/ last_fix))
  /\ SpawnNext(queued, "on", {})
  /\ UNCHANGED <<car, watcher, settingVars, storedVars>>

\* The after-drive run, delayed, unless the drive was under ten seconds; and the rest.
EndDrive ==
  /\ driving' = FALSE /\ last_fix' = FALSE /\ watcher' = "idle"
  /\ \E long \in BOOLEAN, totals \in BOOLEAN :
       LET q == IF long THEN WithRun(queued, Run("after-drive", drives)) ELSE queued IN
         SpawnNext(IF totals /\ ~ long THEN WithRun(q, Run("totals", 0)) ELSE q,
                   "off", IF long THEN {} ELSE {drives})
  /\ UNCHANGED <<car, drives, settingVars>>

\* The setting is looked at, and then the position is written.
TickEndsDrive ==
  /\ watcher = "idle" /\ car = "off" /\ driving
  /\ IF last_fix /\ enabled
       THEN /\ watcher' = "saving"
            /\ UNCHANGED <<car, driving, drives, last_fix, runVars, settingVars>>
       ELSE EndDrive
  /\ UNCHANGED storedVars

SaveLastPosition ==
  /\ watcher = "saving"
  /\ last_file' = TRUE
  /\ EndDrive
  /\ UNCHANGED live_file

TickParked ==
  /\ watcher = "idle" /\ car = "off" /\ ~ driving
  /\ \E totals \in BOOLEAN :
       SpawnNext(IF totals THEN WithRun(queued, Run("totals", 0)) ELSE queued, "off", {})
  /\ UNCHANGED <<car, driveVars, settingVars, storedVars>>

\* An unknown road state neither starts nor ends a drive.
TickUnknown ==
  /\ watcher = "idle" /\ car = "unknown"
  /\ SpawnNext(queued, "unknown", {})
  /\ UNCHANGED <<car, driveVars, settingVars, storedVars>>

Tick == TickOn \/ TickEndsDrive \/ SaveLastPosition \/ TickParked \/ TickUnknown

-----------------------------------------------------------------------------
(* The HTTP thread. *)

\* live_location_json, when neither sunnypilot nor the ring has a position and the drive
\* has its route's name.
AskPosition ==
  /\ setter = "idle" /\ watcher = "idle"
  /\ enabled /\ car = "on" /\ driving
  /\ queued' = WithRun(queued, Run("position", drives))
  /\ UNCHANGED <<car, driveVars, script, ran, settingVars, storedVars>>

\* request_totals_if_stale.
AskTotals ==
  /\ setter = "idle" /\ watcher = "idle" /\ car = "off"
  /\ queued' = WithRun(queued, Run("totals", 0))
  /\ UNCHANGED <<car, driveVars, script, ran, settingVars, storedVars>>

\* location_set_response: the setting first, then both files, under no lock.
SetLocation ==
  /\ setter = "idle"
  /\ \E v \in BOOLEAN : enabled' = v /\ setter' = IF v THEN "idle" ELSE "live"
  /\ UNCHANGED <<car, driveVars, runVars, storedVars>>

DeleteLive ==
  /\ setter = "live"
  /\ live_file' = FALSE
  /\ setter' = "last"
  /\ UNCHANGED <<car, driveVars, runVars, enabled, last_file>>

DeleteLast ==
  /\ setter = "last"
  /\ last_file' = FALSE
  /\ setter' = "idle"
  /\ UNCHANGED <<car, driveVars, runVars, enabled, live_file>>

-----------------------------------------------------------------------------
(* The script; it may stop for good at any step. *)

ScriptAt(what, at) == script.what = what /\ script.at = at
ScriptGoes(at) == script' = [script EXCEPT !.at = at]

ScriptLooks ==
  /\ script.at = "begun"
  /\ ScriptGoes(CASE script.what = "totals" -> "done"
                  [] script.what = "position" -> IF enabled THEN "saving" ELSE "done"
                  [] OTHER -> IF enabled /\ ~ last_file THEN "saving" ELSE "cleaning")
  /\ UNCHANGED <<car, driveVars, queued, ran, settingVars, storedVars>>

\* The log has no position to save.
ScriptHasNone ==
  /\ script.at = "saving"
  /\ ScriptGoes(IF script.what = "position" THEN "done" ELSE "cleaning")
  /\ UNCHANGED <<car, driveVars, queued, ran, settingVars, storedVars>>

SavePosition ==
  /\ ScriptAt("position", "saving")
  /\ live_file' = TRUE
  /\ ScriptGoes("done")
  /\ UNCHANGED <<car, driveVars, queued, ran, settingVars, last_file>>

SaveLogPosition ==
  /\ ScriptAt("after-drive", "saving")
  /\ last_file' = TRUE
  /\ ScriptGoes("cleaning")
  /\ UNCHANGED <<car, driveVars, queued, ran, settingVars, live_file>>

RemoveLogPosition ==
  /\ ScriptAt("after-drive", "cleaning")
  /\ live_file' = FALSE
  /\ ScriptGoes("done")
  /\ UNCHANGED <<car, driveVars, queued, ran, settingVars, last_file>>

-----------------------------------------------------------------------------
LocationInit ==
  /\ car = "off" /\ watcher = "idle"
  /\ driving = FALSE /\ drives = 0 /\ last_fix = FALSE
  /\ queued = << >> /\ script = NoScript /\ ran = {}
  /\ enabled = FALSE /\ setter = "idle" /\ live_file = FALSE /\ last_file = FALSE

LocationNext ==
  \/ CarChanges \/ DelayPasses \/ RunGetsOld \/ Tick
  \/ AskPosition \/ AskTotals \/ SetLocation \/ DeleteLive \/ DeleteLast
  \/ ScriptLooks \/ ScriptHasNone \/ SavePosition \/ SaveLogPosition \/ RemoveLogPosition

LocationSpec == LocationInit /\ [][LocationNext]_locationVars

-----------------------------------------------------------------------------
(* Properties. *)

LocationTypeOK ==
  /\ car \in {"on", "off", "unknown"} /\ watcher \in {"idle", "saving"}
  /\ driving \in BOOLEAN /\ drives \in 0 .. MaxDrives /\ last_fix \in BOOLEAN
  /\ \A i \in DOMAIN queued :
       queued[i] \in [what : {"after-drive", "totals", "position"}, drive : 0 .. MaxDrives, due : BOOLEAN]
  /\ script \in [what : {"none", "after-drive", "totals", "position"}, drive : 0 .. MaxDrives,
                 at : {"begun", "saving", "cleaning", "done"}, overdue : BOOLEAN]
  /\ ran \subseteq 1 .. MaxDrives
  /\ enabled \in BOOLEAN /\ setter \in {"idle", "live", "last"}
  /\ live_file \in BOOLEAN /\ last_file \in BOOLEAN

\* Once the car rests, every drive the watcher saw gets the run that reads it, however
\* many runs are queued before it, and even if one of them hangs.
EveryDriveIsRead ==
  <>[](car = "off") => \A d \in 1 .. MaxDrives : [](drives >= d => <>(d \in ran))

\* Every drive the watcher has seen is in one place: it is being driven, or one run for it is
\* queued, or its run was started or it needed none.  None is forgotten, and none read twice.
EachDriveOnce ==
  \A d \in 1 .. drives :
    LET runs == {i \in DOMAIN queued : queued[i].what = "after-drive" /\ queued[i].drive = d}
        now  == driving /\ d = drives
    IN IF d \in ran \/ now THEN runs = {} /\ ~ (d \in ran /\ now)
       ELSE \E i \in DOMAIN queued : runs = {i}

\* What docs/plans/2026-09-29-drive-stats-and-location-design.md:44 says: with location
\* switched off the stored positions are gone, and nothing is saved again.
OffForgets == ~ enabled /\ setter = "idle" => ~ live_file /\ ~ last_file
=============================================================================
