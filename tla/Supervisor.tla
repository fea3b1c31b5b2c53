----------------------------- MODULE Supervisor -----------------------------
(***************************************************************************)
(* start.sh, stop.sh and the stop of install.sh: who runs a runtime process  *)
(* (commaviewd bridge, or control: each has its own supervisor and files),   *)
(* who starts it again, and who is told to leave it alone.                   *)
(*                                                                          *)
(* A script runs alone, but supervisors, their processes and the rest of the *)
(* device go on between its steps.  Pid files survive a power cut; the pids  *)
(* in them are then given to others.  A process that is started is in /proc  *)
(* under its own command line before a script's next look, which takes a     *)
(* pass over all of /proc: to look at the supervisor file and to start the   *)
(* process is one step.  No pid is reused while a script runs, save by       *)
(* supervisors.                                                              *)
(***************************************************************************)
EXTENDS Integers, FiniteSets

CONSTANTS
  Pids,
  NoPid,
  MaxRestarts, \* COMMAVIEWD_SUPERVISOR_MAX_RESTARTS
  MaxFaults,   \* bound: exits and crashes of runtime processes, and power cuts
  MaxScripts   \* bound: scripts run

ASSUME SupervisorAssumption ==
  /\ NoPid \notin Pids
  /\ MaxRestarts \in Nat /\ MaxFaults \in Nat /\ MaxScripts \in Nat

VARIABLES
  proc,     \* what runs under each pid
  sup,      \* per supervisor: its next step, its process, that one's exit status, crashes
  pid_file, \* bridge.pid
  sup_file, \* bridge-supervisor.pid
  script,   \* the script running: its kind, next step, own pid and whom it will signal
  stopped,  \* history: the last script found everything stopped, and none has started it
  failed,   \* history: a stop has failed since the last boot
  faults, scripts

files   == <<pid_file, sup_file>>
history == <<stopped, failed>>
bounds  == <<faults, scripts>>
vars == <<proc, sup, files, script, history, bounds>>

\* start: start.sh itself.  other: a process of openpilot's, or anybody's.
ProcKinds == {"free", "supervisor", "runtime", "start", "other"}

NotSup == [at |-> "none", child |-> NoPid, status |-> "none", crashes |-> 0]
NoScript == [kind |-> "none", at |-> "idle", self |-> NoPid, targets |-> {}]

Running(kind) == {p \in Pids : proc[p] = kind}

-----------------------------------------------------------------------------
(* A supervisor: the subshell of start_runtime_process. *)

SupAt(s, where) == proc[s] = "supervisor" /\ sup[s].at = where

\* Mutant: the process's pid file is compared.
supervisor_owns_by_pid_file(s) == pid_file = s

supervisor_owns(s) == sup_file = s

\* The supervisor s starts process c.
StartProcess(s, c) ==
  /\ proc[c] = "free"
  /\ proc' = [proc EXCEPT ![c] = "runtime"]
  /\ sup' = [sup EXCEPT ![s].at = "record", ![s].child = c, ![s].status = "none"]

SupervisorExits(s) ==
  /\ proc' = [proc EXCEPT ![s] = "free"]
  /\ sup' = [sup EXCEPT ![s] = NotSup]

Launch(s, c) ==
  /\ SupAt(s, "launch")
  /\ StartProcess(s, c)
  /\ UNCHANGED <<files, script, history, bounds>>

WritePidFile(s) ==
  /\ SupAt(s, "record")
  /\ pid_file' = sup[s].child
  /\ sup' = [sup EXCEPT ![s].at = "wait"]
  /\ UNCHANGED <<proc, sup_file, script, history, bounds>>

\* Exit status 0, 130 or 143.
StoppedOnPurpose(s) ==
  /\ SupAt(s, "wait") /\ sup[s].status = "purpose"
  /\ SupervisorExits(s)
  /\ UNCHANGED <<files, script, history, bounds>>

\* Mutant: the count is compared before the crash is added.
AfterCrash_counted_late(s) ==
  /\ SupAt(s, "wait") /\ sup[s].status = "crash"
  /\ \E healthy \in BOOLEAN :
       LET crashes == IF healthy THEN 1 ELSE sup[s].crashes + 1
       IN  IF ~ supervisor_owns(s) \/ sup[s].crashes > MaxRestarts
             THEN SupervisorExits(s)
             ELSE sup' = [sup EXCEPT ![s].at = "backoff", ![s].crashes = crashes] /\ UNCHANGED proc
  /\ UNCHANGED <<files, script, history, bounds>>

\* healthy: the process had run for HEALTHY_SEC.
AfterCrash(s) ==
  /\ SupAt(s, "wait") /\ sup[s].status = "crash"
  /\ \E healthy \in BOOLEAN :
       LET crashes == IF healthy THEN 1 ELSE sup[s].crashes + 1
       IN  IF ~ supervisor_owns(s) \/ crashes > MaxRestarts
             THEN SupervisorExits(s)
             ELSE sup' = [sup EXCEPT ![s].at = "backoff", ![s].crashes = crashes] /\ UNCHANGED proc
  /\ UNCHANGED <<files, script, history, bounds>>

\* Mutant: the file is not looked at again after the sleep.
AfterBackoff_unasked(s, c) ==
  /\ SupAt(s, "backoff")
  /\ StartProcess(s, c)
  /\ UNCHANGED <<files, script, history, bounds>>

AfterBackoff(s, c) ==
  /\ SupAt(s, "backoff")
  /\ IF supervisor_owns(s) THEN StartProcess(s, c) ELSE SupervisorExits(s)
  /\ UNCHANGED <<files, script, history, bounds>>

Supervise(s) ==
  \/ \E c \in Pids : Launch(s, c) \/ AfterBackoff(s, c)
  \/ WritePidFile(s) \/ StoppedOnPurpose(s) \/ AfterCrash(s)

\* A runtime process ends, and whoever waits for it learns how.
Gone(ps, status) ==
  /\ proc' = [p \in Pids |-> IF p \in ps THEN "free" ELSE proc[p]]
  /\ sup' = [s \in Pids |-> IF proc[s] = "supervisor" /\ s \in ps THEN NotSup
                            ELSE IF proc[s] = "supervisor" /\ sup[s].child \in ps
                                    /\ sup[s].status = "none"
                            THEN [sup[s] EXCEPT !.status = status]
                            ELSE sup[s]]

Exit(p, status) ==
  /\ proc[p] = "runtime" /\ faults < MaxFaults
  /\ faults' = faults + 1
  /\ Gone({p}, status)
  /\ UNCHANGED <<files, script, history, scripts>>

-----------------------------------------------------------------------------
(* The scripts: stop.sh, start.sh, which runs it first, and ensure_commaview_stopped. *)

ScriptAt(where) == script.at = where
ScriptGoes(where) == script' = [script EXCEPT !.at = where]

RunStop ==
  /\ ScriptAt("idle") /\ scripts < MaxScripts
  /\ scripts' = scripts + 1
  /\ script' = [NoScript EXCEPT !.kind = "stop", !.at = "read pid_file"]
  /\ UNCHANGED <<proc, sup, files, history, faults>>

\* self: start.sh's own pid, stop.sh's PPID.
RunStart(self) ==
  /\ ScriptAt("idle") /\ scripts < MaxScripts /\ proc[self] = "free"
  /\ scripts' = scripts + 1
  /\ proc' = [proc EXCEPT ![self] = "start"]
  /\ script' = [NoScript EXCEPT !.kind = "start", !.at = "read pid_file", !.self = self]
  /\ UNCHANGED <<sup, files, history, faults>>

\* install.sh leaves the supervisors alone and takes their file away.
RunInstall ==
  /\ ScriptAt("idle") /\ scripts < MaxScripts
  /\ scripts' = scripts + 1
  /\ sup_file' = NoPid
  /\ script' = [NoScript EXCEPT !.kind = "install", !.at = "scan"]
  /\ UNCHANGED <<proc, sup, pid_file, history, faults>>

\* Mutant: every process that lives is believed to be CommaView's.
tracked_pid_is_runtime_if_alive(p) == p # NoPid /\ p # script.self /\ proc[p] # "free"

\* By its command line, which start.sh and the supervisors share; never the own parent.
tracked_pid_is_runtime(p) ==
  p # NoPid /\ p # script.self /\ proc[p] \in {"runtime", "supervisor", "start"}

Tracked(p) == IF tracked_pid_is_runtime(p) THEN {p} ELSE {}

ReadPidFile ==
  /\ ScriptAt("read pid_file")
  /\ script' = [script EXCEPT !.at = "read sup_file", !.targets = @ \cup Tracked(pid_file)]
  /\ pid_file' = NoPid
  /\ UNCHANGED <<proc, sup, sup_file, history, bounds>>

\* Mutant: the supervisor is not among those that are stopped, and keeps its file.
ReadSupFile_not_at_all ==
  /\ ScriptAt("read sup_file")
  /\ ScriptGoes("scan")
  /\ UNCHANGED <<proc, sup, files, history, bounds>>

ReadSupFile ==
  /\ ScriptAt("read sup_file")
  /\ script' = [script EXCEPT !.at = "scan", !.targets = @ \cup Tracked(sup_file)]
  /\ sup_file' = NoPid
  /\ UNCHANGED <<proc, sup, pid_file, history, bounds>>

\* commaview_pids
Scan ==
  /\ ScriptAt("scan")
  /\ script' = [script EXCEPT !.targets = @ \cup Running("runtime"),
                  !.at = IF script.targets \cup Running("runtime") = {} THEN "leftover" ELSE "term"]
  /\ UNCHANGED <<proc, sup, files, history, bounds>>

\* SIGTERM ends a supervisor at once; a runtime process ends when it is ready to.
Terminate ==
  /\ ScriptAt("term")
  /\ Gone({p \in script.targets : proc[p] = "supervisor"}, "none")
  /\ ScriptGoes("wait")
  /\ UNCHANGED <<files, history, bounds>>

Remaining == {p \in script.targets : proc[p] # "free"}

TerminatedExits(p) ==
  /\ ScriptAt("wait") /\ p \in Remaining /\ proc[p] = "runtime"
  /\ Gone({p}, "purpose")
  /\ UNCHANGED <<files, script, history, bounds>>

AllExited ==
  /\ ScriptAt("wait") /\ Remaining = {}
  /\ ScriptGoes("leftover")
  /\ UNCHANGED <<proc, sup, files, history, bounds>>

\* After 5 s, SIGKILL; one that still lives 2 s later fails the stop.
KillRemaining(stuck) ==
  /\ ScriptAt("wait") /\ Remaining # {} /\ stuck \subseteq Remaining
  /\ Gone(Remaining \ stuck, "crash")
  /\ ScriptGoes(IF stuck = {} THEN "leftover" ELSE "failed")
  /\ UNCHANGED <<files, history, bounds>>

Leftover ==
  /\ ScriptAt("leftover")
  /\ ScriptGoes(IF Running("runtime") = {} THEN "stopped" ELSE "failed")
  /\ UNCHANGED <<proc, sup, files, history, bounds>>

ScriptGoesOn == script' = IF script.kind = "start" THEN [script EXCEPT !.at = "spawn"] ELSE NoScript

StopSucceeds ==
  /\ ScriptAt("stopped")
  /\ pid_file' = NoPid
  /\ sup_file' = IF script.kind = "install" THEN sup_file ELSE NoPid
  /\ stopped' = TRUE
  /\ ScriptGoesOn
  /\ UNCHANGED <<proc, sup, failed, bounds>>

\* start.sh goes on all the same.
StopFails ==
  /\ ScriptAt("failed")
  /\ failed' = TRUE
  /\ ScriptGoesOn
  /\ UNCHANGED <<proc, sup, files, stopped, bounds>>

\* The supervisor and its file.
SpawnSupervisor(s) ==
  /\ ScriptAt("spawn") /\ proc[s] = "free"
  /\ proc' = [proc EXCEPT ![s] = "supervisor"]
  /\ sup' = [sup EXCEPT ![s] = [NotSup EXCEPT !.at = "launch"]]
  /\ sup_file' = s
  /\ stopped' = FALSE
  /\ ScriptGoes("started")
  /\ UNCHANGED <<pid_file, failed, bounds>>

\* start.sh has the log rotation and the deferred jobs to start: by then the process runs.
StartEnds ==
  /\ ScriptAt("started")
  /\ \A s \in Pids : ~ SupAt(s, "launch")
  /\ proc' = [proc EXCEPT ![script.self] = "free"]
  /\ script' = NoScript
  /\ UNCHANGED <<sup, files, history, bounds>>

ScriptRuns ==
  \/ ReadPidFile \/ ReadSupFile \/ Scan \/ Terminate \/ AllExited
  \/ \E stuck \in SUBSET Remaining : KillRemaining(stuck)
  \/ Leftover \/ StopSucceeds \/ StopFails
  \/ (\E s \in Pids : SpawnSupervisor(s)) \/ StartEnds

-----------------------------------------------------------------------------
(* The rest of the device. *)

OtherStarts(p) ==
  /\ ScriptAt("idle") /\ proc[p] = "free" /\ Running("other") = {}
  /\ proc' = [proc EXCEPT ![p] = "other"]
  /\ UNCHANGED <<sup, files, script, history, bounds>>

OtherExits(p) ==
  /\ proc[p] = "other"
  /\ proc' = [proc EXCEPT ![p] = "free"]
  /\ UNCHANGED <<sup, files, script, history, bounds>>

PowerCut ==
  /\ faults < MaxFaults
  /\ faults' = faults + 1
  /\ proc' = [p \in Pids |-> "free"] /\ sup' = [p \in Pids |-> NotSup]
  /\ script' = NoScript /\ stopped' = TRUE /\ failed' = FALSE
  /\ UNCHANGED <<files, scripts>>

Init ==
  /\ proc = [p \in Pids |-> "free"] /\ sup = [p \in Pids |-> NotSup]
  /\ pid_file = NoPid /\ sup_file = NoPid
  /\ script = NoScript /\ stopped = TRUE /\ failed = FALSE
  /\ faults = 0 /\ scripts = 0

Next ==
  \/ \E s \in Pids : Supervise(s)
  \/ \E p \in Pids : Exit(p, "purpose") \/ Exit(p, "crash") \/ TerminatedExits(p)
  \/ RunStop \/ RunInstall \/ (\E p \in Pids : RunStart(p))
  \/ ScriptRuns
  \/ \E p \in Pids : OtherStarts(p) \/ OtherExits(p)
  \/ PowerCut

Spec == Init /\ [][Next]_vars

\* Supervisors and scripts run on.
Fairness == (\A s \in Pids : WF_vars(Supervise(s))) /\ WF_vars(ScriptRuns)

FairSpec == Spec /\ Fairness

-----------------------------------------------------------------------------
(* Properties. *)

TypeOK ==
  /\ proc \in [Pids -> ProcKinds]
  /\ sup \in [Pids -> [at : {"none", "launch", "record", "wait", "backoff"},
                       child : Pids \cup {NoPid}, status : {"none", "purpose", "crash"},
                       crashes : 0 .. MaxRestarts]]
  /\ \A p \in Pids : proc[p] = "supervisor" <=> sup[p].at # "none"
  /\ pid_file \in Pids \cup {NoPid} /\ sup_file \in Pids \cup {NoPid}
  /\ script.kind \in {"none", "stop", "start", "install"}
  /\ script.self \in Pids \cup {NoPid} /\ script.targets \subseteq Pids
  /\ stopped \in BOOLEAN /\ failed \in BOOLEAN
  /\ faults \in 0 .. MaxFaults /\ scripts \in 0 .. MaxScripts

\* After a stop that succeeded nothing runs until the next start: no supervisor brings a
\* process back, not one whose process was killed by the stop, nor one that slept through
\* it, nor one that an install has left alive.
StoppedStaysStopped == stopped => Running("runtime") = {}

\* What runs is watched: when no script is at work and none has failed, a runtime process
\* has a supervisor that owns its file and waits for it, so that it is the only one.
RuntimeIsWatched ==
  ScriptAt("idle") /\ ~ failed =>
    \A p \in Running("runtime") :
      \E s \in Running("supervisor") : sup_file = s /\ sup[s].child = p

\* Neither openpilot's processes, whatever pids they got after a reboot, nor the start.sh
\* that runs the stop are signalled.
OnlyOwnSignalled ==
  ScriptAt("term") \/ ScriptAt("wait") =>
    \A p \in script.targets : proc[p] \in {"runtime", "supervisor", "free"}

\* Every pid of the instance is taken: a device has more.
NoPidLeft == Running("free") = {}

OwnerAt(where) == sup_file \in Pids /\ SupAt(sup_file, where)

\* A process that crashed is started again, and not only scheduled to be: unless it is
\* stopped, or its supervisor loses its file, or has given up.
CrashedComesBack ==
  (OwnerAt("wait") /\ sup[sup_file].status = "crash" /\ sup[sup_file].crashes < MaxRestarts)
    ~> (OwnerAt("record") \/ stopped \/ sup_file = NoPid \/ NoPidLeft)
=============================================================================
