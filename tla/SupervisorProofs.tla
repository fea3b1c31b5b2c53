--------------------------- MODULE SupervisorProofs ---------------------------
(***************************************************************************)
(* The supervisor's safety properties for any number of pids, restarts,     *)
(* faults and scripts.  Two facts carry them.  Only a new supervisor, whose *)
(* script waits for it, or the owner of the file starts a process; and from *)
(* the scan of /proc on nobody owns the file, so that what a stop has not   *)
(* found cannot come after it.                                              *)
(***************************************************************************)
EXTENDS Supervisor, TLAPS

Sups   == [at : {"none", "launch", "record", "wait", "backoff"}, child : Pids \cup {NoPid},
           status : {"none", "purpose", "crash"}, crashes : 0 .. MaxRestarts]
Stages == {"idle", "read pid_file", "read sup_file", "scan", "term", "wait", "leftover",
           "stopped", "failed", "spawn", "started"}

\* From here on a script that stops has taken the supervisor file away.
FileTaken == {"scan", "term", "wait", "leftover", "stopped", "failed", "spawn"}

\* Outside of a stop that has begun to take files.
Settled == {"idle", "read pid_file", "read sup_file", "spawn", "started"}

\* Who a script is and has chosen.
ScriptInv ==
  /\ script \in [kind : {"none", "stop", "start", "install"}, at : Stages,
                 self : Pids \cup {NoPid}, targets : SUBSET Pids]
  /\ script.kind = "start" => script.self \in Pids /\ proc[script.self] = "start"
  /\ \A p \in Running("start") : script.kind = "start" /\ p = script.self
  /\ script.at \in {"spawn", "started"} => script.kind = "start"
  /\ script.at = "idle" => script.kind = "none" /\ script.targets = {}
  /\ script.at \in {"read pid_file", "read sup_file", "scan", "term", "wait"} =>
       \A p \in script.targets : proc[p] \in {"runtime", "supervisor", "free"}

\* Who may start a process.
OwnerInv ==
  /\ \A s \in Pids : SupAt(s, "launch") => script.at = "started" /\ sup_file = s
  /\ script.at \in FileTaken => sup_file = NoPid
  /\ script.at = "stopped" => Running("runtime") = {}
  /\ script.at = "started" => ~ stopped
  /\ stopped => Running("runtime") = {} /\ \A s \in Running("supervisor") : sup_file # s

\* What runs is the owner's.
WatchedInv ==
  ~ failed /\ script.at \in Settled =>
    \A p \in Running("runtime") :
      /\ sup_file \in Running("supervisor")
      /\ sup[sup_file].child = p /\ sup[sup_file].status = "none"
      /\ sup[sup_file].at \in {"record", "wait"}

SupInv == TypeOK /\ ScriptInv /\ OwnerInv /\ WatchedInv

LEMMA SupStarts == Init => SupInv
<1> SUFFICES ASSUME Init PROVE SupInv
  OBVIOUS
<1>1. 0 \in 0 .. MaxRestarts /\ 0 \in 0 .. MaxFaults /\ 0 \in 0 .. MaxScripts
  BY SupervisorAssumption
<1>2. NotSup \in Sups /\ NotSup.at = "none"
  BY <1>1 DEF NotSup, Sups
<1>3. TypeOK
  BY <1>1, <1>2 DEF Init, TypeOK, ProcKinds, NoScript, Sups
<1>4. ScriptInv
  BY DEF Init, ScriptInv, Running, NoScript, Stages
<1>5. OwnerInv /\ WatchedInv
  BY DEF Init, OwnerInv, WatchedInv, Running, SupAt, NoScript, FileTaken
<1> QED BY <1>3, <1>4, <1>5 DEF SupInv

\* Ours are the processes that may be signalled; to be or not to be a script's own does
\* not change, and ours do not become others'.
Ours == {"runtime", "supervisor", "free"}

LEMMA ScriptKeeps ==
  ASSUME ScriptInv, script' = script,
         script.targets \subseteq Pids,
         \A p \in Pids : (proc'[p] = "start" <=> proc[p] = "start")
                         /\ (proc[p] \in Ours => proc'[p] \in Ours)
  PROVE  ScriptInv'
<1> USE DEF ScriptInv
<1>1. script.kind = "start" => script.self \in Pids /\ proc'[script.self] = "start"
  OBVIOUS
<1>2. \A p \in Pids : proc'[p] = "start" => script.kind = "start" /\ p = script.self
  BY DEF Running
<1>3. script.at \in {"read pid_file", "read sup_file", "scan", "term", "wait"} =>
        \A p \in script.targets : p \in Pids => proc'[p] \in Ours
  BY DEF Ours
<1> QED BY <1>1, <1>2, <1>3 DEF Running, Ours

-----------------------------------------------------------------------------
(* Supervisors. *)

\* The step of a supervisor that starts a process: who is allowed to is the owner, and has
\* none running.
LEMMA StartKeeps ==
  ASSUME SupInv, NEW s \in Pids, NEW c \in Pids, StartProcess(s, c),
         proc[s] = "supervisor", sup_file = s, sup[s].at \in {"launch", "backoff"},
         UNCHANGED <<files, script, history, bounds>>
  PROVE  SupInv'
<1> USE SupervisorAssumption DEF SupInv
<1>1. /\ proc[c] = "free" /\ c # s
      /\ proc' = [proc EXCEPT ![c] = "runtime"]
      /\ sup' = [sup EXCEPT ![s].at = "record", ![s].child = c, ![s].status = "none"]
  BY DEF StartProcess
<1>2. /\ sup'[s].at = "record" /\ sup'[s].child = c /\ sup'[s].status = "none"
      /\ sup'[s] \in Sups /\ sup' \in [Pids -> Sups]
      /\ \A t \in Pids \ {s} : sup'[t] = sup[t]
      /\ proc'[c] = "runtime" /\ \A p \in Pids \ {c} : proc'[p] = proc[p]
  <2>1. sup \in [Pids -> Sups] /\ sup[s] \in Sups /\ proc \in [Pids -> ProcKinds]
    BY DEF TypeOK, Sups
  <2> DEFINE r == [sup[s] EXCEPT !.at = "record", !.child = c, !.status = "none"]
  <2>2. r \in Sups /\ r.at = "record" /\ r.child = c /\ r.status = "none"
    BY <2>1 DEF Sups
  <2>3. sup' = [sup EXCEPT ![s] = r]
    BY <1>1, <2>1
  <2> QED BY <1>1, <2>1, <2>2, <2>3
<1>3. TypeOK'
  <2>2. sup' \in [Pids -> Sups] /\ proc' \in [Pids -> ProcKinds]
    BY <1>1, <1>2 DEF TypeOK, ProcKinds
  <2>3. \A p \in Pids : proc'[p] = "supervisor" <=> sup'[p].at # "none"
    BY <1>1, <1>2 DEF TypeOK
  <2> QED BY <2>2, <2>3 DEF TypeOK, Sups, files, history, bounds
<1>4. ScriptInv'
  BY <1>1, <1>2, ScriptKeeps DEF Ours, TypeOK
<1>5. ~ stopped /\ script.at # "stopped" /\ sup_file \in Pids
  BY DEF OwnerInv, Running, FileTaken
<1>6. OwnerInv'
  BY <1>1, <1>2, <1>5 DEF OwnerInv, SupAt, files, history, FileTaken
<1>7. WatchedInv'
  BY <1>1, <1>2 DEF WatchedInv, Running, files, history
<1> QED BY <1>3, <1>4, <1>6, <1>7

\* A supervisor that ends was not watching a process, or not the owner.
LEMMA ExitKeeps ==
  ASSUME SupInv, NEW s \in Pids, SupervisorExits(s), proc[s] = "supervisor",
         sup_file # s \/ sup[s].status # "none" \/ sup[s].at = "backoff",
         UNCHANGED <<files, script, history, bounds>>
  PROVE  SupInv'
<1> USE SupervisorAssumption DEF SupInv
<1>1. /\ proc' = [proc EXCEPT ![s] = "free"] /\ sup' = [sup EXCEPT ![s] = NotSup]
      /\ proc'[s] = "free" /\ sup'[s] = NotSup
      /\ \A p \in Pids \ {s} : proc'[p] = proc[p] /\ sup'[p] = sup[p]
  BY DEF SupervisorExits, TypeOK
<1>2. NotSup \in Sups /\ NotSup.at = "none"
  BY DEF NotSup, Sups
<1>3. TypeOK'
  BY <1>1, <1>2 DEF TypeOK, Sups, ProcKinds, files, history, bounds
<1>4. ScriptInv'
  BY <1>1, ScriptKeeps DEF Ours, TypeOK
<1>5. OwnerInv'
  BY <1>1, <1>2 DEF OwnerInv, Running, SupAt, files, history
<1>6. WatchedInv'
  BY <1>1 DEF WatchedInv, Running, files, history
<1> QED BY <1>3, <1>4, <1>5, <1>6

LEMMA SuperviseKeeps ==
  ASSUME SupInv, NEW s \in Pids, Supervise(s)
  PROVE  SupInv'
<1> USE SupervisorAssumption DEF SupInv
<1>1. ASSUME NEW c \in Pids, Launch(s, c) PROVE SupInv'
  BY <1>1, StartKeeps DEF Launch, SupAt, OwnerInv
<1>2. ASSUME NEW c \in Pids, AfterBackoff(s, c) PROVE SupInv'
  <2>1. CASE supervisor_owns(s)
    BY <1>2, <2>1, StartKeeps DEF AfterBackoff, SupAt, supervisor_owns
  <2>2. CASE ~ supervisor_owns(s)
    BY <1>2, <2>2, ExitKeeps DEF AfterBackoff, SupAt, supervisor_owns
  <2> QED BY <2>1, <2>2
<1>3. CASE StoppedOnPurpose(s)
  BY <1>3, ExitKeeps DEF StoppedOnPurpose, SupAt
<1>4. CASE WritePidFile(s)
  <2>1. /\ sup' = [sup EXCEPT ![s].at = "wait"] /\ pid_file' = sup[s].child
        /\ proc[s] = "supervisor" /\ sup[s].at = "record"
        /\ UNCHANGED <<proc, sup_file, script, stopped, failed, faults, scripts>>
    BY <1>4 DEF WritePidFile, SupAt, history, bounds
  <2>2. /\ sup'[s] = [sup[s] EXCEPT !.at = "wait"] /\ sup[s] \in Sups
        /\ \A t \in Pids \ {s} : sup'[t] = sup[t]
    BY <2>1 DEF TypeOK, Sups
  <2>3. /\ sup'[s] \in Sups /\ sup'[s].at = "wait" /\ sup'[s].child = sup[s].child
        /\ sup'[s].status = sup[s].status
    BY <2>2 DEF Sups
  <2>4. TypeOK'
    <3>1. sup' \in [Pids -> Sups] /\ pid_file' \in Pids \cup {NoPid}
      BY <2>1, <2>3 DEF TypeOK, Sups
    <3> QED BY <2>1, <2>2, <2>3, <3>1 DEF TypeOK, Sups
  <2>5. ScriptInv'
    BY <2>1, ScriptKeeps DEF TypeOK
  <2>6. OwnerInv'
    BY <2>1, <2>2, <2>3 DEF OwnerInv, Running, SupAt
  <2>7. WatchedInv'
    BY <2>1, <2>2, <2>3 DEF WatchedInv, Running
  <2> QED BY <2>4, <2>5, <2>6, <2>7
<1>5. CASE AfterCrash(s)
  <2>1. PICK healthy \in BOOLEAN :
          LET crashes == IF healthy THEN 1 ELSE sup[s].crashes + 1
          IN  IF ~ supervisor_owns(s) \/ crashes > MaxRestarts
                THEN SupervisorExits(s)
                ELSE sup' = [sup EXCEPT ![s].at = "backoff", ![s].crashes = crashes]
                     /\ UNCHANGED proc
    BY <1>5 DEF AfterCrash
  <2> DEFINE crashes == IF healthy THEN 1 ELSE sup[s].crashes + 1
  <2>2. /\ proc[s] = "supervisor" /\ sup[s].at = "wait" /\ sup[s].status = "crash"
        /\ UNCHANGED <<files, script, history, bounds>>
    BY <1>5 DEF AfterCrash, SupAt
  <2>3. CASE ~ supervisor_owns(s) \/ crashes > MaxRestarts
    BY <2>1, <2>2, <2>3, ExitKeeps
  <2>4. CASE ~ (~ supervisor_owns(s) \/ crashes > MaxRestarts)
    <3>1. /\ sup' = [sup EXCEPT ![s].at = "backoff", ![s].crashes = crashes]
          /\ proc' = proc /\ sup_file = s
      BY <2>1, <2>4 DEF supervisor_owns
    <3>2. sup[s] \in Sups /\ sup \in [Pids -> Sups]
      BY DEF TypeOK, Sups
    <3>3. crashes \in 0 .. MaxRestarts
      BY <2>4, <3>2 DEF Sups
    <3>4. /\ sup'[s].at = "backoff" /\ sup'[s] \in Sups
          /\ \A t \in Pids \ {s} : sup'[t] = sup[t]
      BY <3>1, <3>2, <3>3 DEF Sups
    <3>5. sup' \in [Pids -> Sups]
      BY <3>1, <3>2, <3>4
    <3>6. TypeOK'
      BY <2>2, <3>1, <3>4, <3>5 DEF TypeOK, Sups, files, history, bounds
    <3>7. ScriptInv'
      BY <2>2, <3>1, ScriptKeeps DEF TypeOK
    <3>8. OwnerInv' /\ WatchedInv'
      BY <2>2, <3>1, <3>4 DEF OwnerInv, WatchedInv, Running, SupAt, files, history
    <3> QED BY <3>6, <3>7, <3>8
  <2> QED BY <2>3, <2>4
<1> QED BY <1>1, <1>2, <1>3, <1>4, <1>5 DEF Supervise

-----------------------------------------------------------------------------
(* Processes that end. *)

LEMMA GoneTypes ==
  ASSUME TypeOK, NEW ps \in SUBSET Pids, NEW status \in {"none", "purpose", "crash"},
         Gone(ps, status)
  PROVE  /\ sup' \in [Pids -> Sups] /\ proc' \in [Pids -> ProcKinds]
         /\ \A p \in Pids : proc'[p] = IF p \in ps THEN "free" ELSE proc[p]
         /\ \A s \in Pids : sup'[s].at = IF s \in ps THEN "none" ELSE sup[s].at
         /\ \A s \in Pids \ ps : sup'[s].child = sup[s].child
                                 /\ (sup'[s].status = sup[s].status \/ sup[s].child \in ps)
         /\ \A p \in Pids : proc'[p] = "supervisor" <=> sup'[p].at # "none"
<1> USE SupervisorAssumption
<1>1. /\ proc' = [p \in Pids |-> IF p \in ps THEN "free" ELSE proc[p]]
      /\ \A p \in Pids : proc'[p] = IF p \in ps THEN "free" ELSE proc[p]
  BY DEF Gone
<1>2. proc' \in [Pids -> ProcKinds]
  BY <1>1 DEF TypeOK, ProcKinds
<1>3. sup' = [s \in Pids |-> IF proc[s] = "supervisor" /\ s \in ps THEN NotSup
                             ELSE IF proc[s] = "supervisor" /\ sup[s].child \in ps
                                     /\ sup[s].status = "none"
                             THEN [sup[s] EXCEPT !.status = status]
                             ELSE sup[s]]
  BY DEF Gone
<1>4. NotSup \in Sups /\ NotSup.at = "none"
  BY DEF NotSup, Sups
<1>5. ASSUME NEW s \in Pids
      PROVE  /\ sup'[s] \in Sups
             /\ sup'[s].at = IF s \in ps THEN "none" ELSE sup[s].at
             /\ s \notin ps => sup'[s].child = sup[s].child
                               /\ (sup'[s].status = sup[s].status \/ sup[s].child \in ps)
  <2>1. sup[s] \in Sups /\ (proc[s] = "supervisor" <=> sup[s].at # "none")
    BY DEF TypeOK, Sups
  <2>2. CASE proc[s] = "supervisor" /\ s \in ps
    BY <1>3, <1>4, <2>2
  <2>3. CASE s \notin ps /\ proc[s] = "supervisor" /\ sup[s].child \in ps /\ sup[s].status = "none"
    <3>1. sup'[s] = [sup[s] EXCEPT !.status = status]
      BY <1>3, <2>3
    <3> QED BY <2>1, <2>3, <3>1 DEF Sups
  <2>4. CASE ~ (proc[s] = "supervisor" /\ s \in ps)
             /\ ~ (proc[s] = "supervisor" /\ sup[s].child \in ps /\ sup[s].status = "none")
    BY <1>3, <2>1, <2>4
  <2> QED BY <2>2, <2>3, <2>4
<1>6. sup' \in [Pids -> Sups]
  BY <1>3, <1>5
<1>7. \A p \in Pids : proc'[p] = "supervisor" <=> sup'[p].at # "none"
  BY <1>1, <1>5 DEF TypeOK
<1> QED BY <1>1, <1>2, <1>5, <1>6, <1>7

\* A runtime process ends, by itself or of a signal: nobody else is started or let go.
LEMMA ExitsKeep ==
  ASSUME SupInv, NEW p \in Pids, Exit(p, "purpose") \/ Exit(p, "crash") \/ TerminatedExits(p)
  PROVE  SupInv'
<1> USE SupervisorAssumption DEF SupInv
<1>1. PICK status \in {"none", "purpose", "crash"} : Gone({p}, status)
  BY DEF Exit, TerminatedExits
<1>2. /\ proc[p] = "runtime" /\ faults' \in 0 .. MaxFaults
      /\ UNCHANGED <<pid_file, sup_file, script, stopped, failed, scripts>>
  BY DEF Exit, TerminatedExits, TypeOK, files, history, bounds
<1>3. /\ sup' \in [Pids -> Sups] /\ proc' \in [Pids -> ProcKinds]
      /\ \A q \in Pids : proc'[q] = IF q = p THEN "free" ELSE proc[q]
      /\ \A s \in Pids : sup'[s].at = sup[s].at
      /\ \A s \in Pids \ {p} : sup'[s].child = sup[s].child
                               /\ (sup'[s].status = sup[s].status \/ sup[s].child = p)
      /\ \A q \in Pids : proc'[q] = "supervisor" <=> sup'[q].at # "none"
  BY <1>1, <1>2, GoneTypes DEF TypeOK
<1>4. TypeOK'
  BY <1>2, <1>3 DEF TypeOK, Sups
<1>5. ScriptInv'
  BY <1>2, <1>3, ScriptKeeps DEF Ours, TypeOK
<1>6. OwnerInv'
  BY <1>2, <1>3 DEF OwnerInv, Running, SupAt
<1>7. WatchedInv'
  BY <1>2, <1>3 DEF WatchedInv, Running
<1> QED BY <1>4, <1>5, <1>6, <1>7

-----------------------------------------------------------------------------
(* Scripts. *)

\* A script begins: alone, and with nobody chosen.
LEMMA RunsKeep ==
  ASSUME SupInv, RunStop \/ RunInstall \/ \E self \in Pids : RunStart(self)
  PROVE  SupInv'
<1> USE SupervisorAssumption DEF SupInv
<1>1. script.at = "idle" /\ script.kind = "none" /\ UNCHANGED <<sup, pid_file, stopped, failed, faults>>
  BY DEF RunStop, RunInstall, RunStart, ScriptAt, ScriptInv, files, history
<1>2. scripts' \in 0 .. MaxScripts
  <2>1. scripts' = scripts + 1 /\ scripts < MaxScripts
    BY DEF RunStop, RunInstall, RunStart
  <2> QED BY <2>1 DEF TypeOK
<1>3. \A p \in Pids : proc[p] # "start" /\ ~ SupAt(p, "launch")
  BY <1>1 DEF ScriptInv, OwnerInv, Running
<1>4. ASSUME NEW kind \in {"stop", "install"}, NEW at \in {"read pid_file", "scan"},
             script' = [kind |-> kind, at |-> at, self |-> NoPid, targets |-> {}],
             sup_file' = (IF at = "scan" THEN NoPid ELSE sup_file), proc' = proc
      PROVE  SupInv'
  <2>1. /\ script'.kind = kind /\ script'.at = at /\ script'.self = NoPid /\ script'.targets = {}
        /\ sup_file' \in Pids \cup {NoPid}
    BY <1>4 DEF TypeOK
  <2>2. TypeOK'
    BY <1>1, <1>2, <1>4, <2>1 DEF TypeOK
  <2>3. ScriptInv'
    BY <1>3, <1>4, <2>1 DEF ScriptInv, Running, Stages
  <2>4. OwnerInv'
    BY <1>1, <1>3, <1>4, <2>1 DEF OwnerInv, Running, SupAt, FileTaken, TypeOK
  <2>5. WatchedInv'
    BY <1>1, <1>4, <2>1 DEF WatchedInv, Running, Settled
  <2> QED BY <2>2, <2>3, <2>4, <2>5
<1>5. ASSUME NEW self \in Pids, RunStart(self)
      PROVE  SupInv'
  <2>1. /\ script' = [kind |-> "start", at |-> "read pid_file", self |-> self, targets |-> {}]
        /\ proc[self] = "free" /\ proc' = [proc EXCEPT ![self] = "start"] /\ sup_file' = sup_file
    BY <1>5 DEF RunStart, NoScript, files
  <2>2. /\ proc' \in [Pids -> ProcKinds] /\ proc'[self] = "start"
        /\ \A p \in Pids \ {self} : proc'[p] = proc[p]
    BY <2>1 DEF TypeOK, ProcKinds
  <2>3. TypeOK'
    BY <1>1, <1>2, <2>1, <2>2 DEF TypeOK
  <2>4. ScriptInv'
    BY <1>3, <2>1, <2>2 DEF ScriptInv, Running, Stages
  <2>5. OwnerInv'
    BY <1>1, <1>3, <2>1, <2>2 DEF OwnerInv, Running, SupAt, FileTaken
  <2>6. WatchedInv'
    BY <1>1, <2>1, <2>2 DEF WatchedInv, Running, Settled
  <2> QED BY <2>3, <2>4, <2>5, <2>6
<1>6. CASE RunStop
  BY <1>4, <1>6 DEF RunStop, NoScript, files
<1>7. CASE RunInstall
  BY <1>4, <1>7 DEF RunInstall, NoScript
<1> QED BY <1>5, <1>6, <1>7

\* Pid files are read and taken away, /proc is searched: all that is chosen is ours.
LEMMA ChoosingKeeps ==
  ASSUME SupInv, NEW ps \in SUBSET Pids, NEW at \in {"read sup_file", "scan", "leftover", "term"},
         \A p \in ps : proc[p] \in Ours,
         script' = [script EXCEPT !.at = at, !.targets = @ \cup ps],
         UNCHANGED <<proc, sup, history, bounds>>,
         pid_file' \in Pids \cup {NoPid},
         \/ script.at = "read pid_file" /\ at = "read sup_file" /\ sup_file' = sup_file
         \/ script.at = "read sup_file" /\ at = "scan" /\ sup_file' = NoPid
         \/ script.at = "scan" /\ at \in {"leftover", "term"} /\ sup_file' = sup_file
  PROVE  SupInv'
<1> USE SupervisorAssumption DEF SupInv
<1>1. /\ script' = [kind |-> script.kind, at |-> at, self |-> script.self,
                    targets |-> script.targets \cup ps]
      /\ script.targets \subseteq Pids
  BY DEF ScriptInv
<1>2. TypeOK'
  <2>1. /\ script'.kind = script.kind /\ script'.self = script.self
        /\ script'.targets = script.targets \cup ps
        /\ sup_file' \in Pids \cup {NoPid}
    BY <1>1 DEF TypeOK
  <2> QED BY <1>1, <2>1 DEF TypeOK, history, bounds
<1>3. ScriptInv'
  BY <1>1 DEF ScriptInv, Running, Stages, Ours
<1>4. OwnerInv'
  BY <1>1 DEF OwnerInv, Running, SupAt, FileTaken, history
<1>5. WatchedInv'
  BY <1>1 DEF WatchedInv, Running, Settled, history
<1> QED BY <1>2, <1>3, <1>4, <1>5

LEMMA LooksKeep ==
  ASSUME SupInv, ReadPidFile \/ ReadSupFile \/ Scan
  PROVE  SupInv'
<1> USE SupervisorAssumption DEF ScriptAt
<1>1. \A p \in Pids \cup {NoPid} : Tracked(p) \in SUBSET Pids /\ \A q \in Tracked(p) : proc[q] \in Ours
  <2>1. \A p \in Pids : proc[p] = "start" => p = script.self
    BY DEF SupInv, ScriptInv, Running
  <2>2. ASSUME NEW p \in Pids \cup {NoPid}, tracked_pid_is_runtime(p)
        PROVE  p \in Pids /\ proc[p] \in Ours
    BY <2>1, <2>2 DEF tracked_pid_is_runtime, Ours
  <2> QED BY ONLY <2>2 DEF Tracked
<1>2. pid_file \in Pids \cup {NoPid} /\ sup_file \in Pids \cup {NoPid}
  BY DEF SupInv, TypeOK
<1>3. CASE ReadPidFile
  BY <1>1, <1>2, <1>3, ChoosingKeeps DEF ReadPidFile
<1>4. CASE ReadSupFile
  BY <1>1, <1>2, <1>4, ChoosingKeeps DEF ReadSupFile
<1>5. CASE Scan
  <2> DEFINE at == IF script.targets \cup Running("runtime") = {} THEN "leftover" ELSE "term"
  <2>1. Running("runtime") \in SUBSET Pids /\ \A p \in Running("runtime") : proc[p] \in Ours
    BY DEF Running, Ours
  <2>2. /\ script.at = "scan" /\ at \in {"leftover", "term"}
        /\ script' = [script EXCEPT !.at = at, !.targets = @ \cup Running("runtime")]
        /\ UNCHANGED <<proc, sup, files, history, bounds>>
    BY <1>5 DEF Scan, SupInv, ScriptInv
  <2> QED BY <1>2, <2>1, <2>2, ChoosingKeeps DEF files
<1> QED BY <1>3, <1>4, <1>5

\* Where a script is, with all else about it unchanged.
LEMMA ScriptMoves ==
  ASSUME ScriptInv, NEW at \in Stages, ScriptGoes(at)
  PROVE  /\ script' \in [kind : {"none", "stop", "start", "install"}, at : Stages,
                          self : Pids \cup {NoPid}, targets : SUBSET Pids]
         /\ script'.at = at /\ script'.kind = script.kind /\ script'.self = script.self
         /\ script'.targets = script.targets
BY DEF ScriptInv, ScriptGoes

\* The signals of a stop: what it has chosen ends, as far as it does.
LEMMA SignalsKeep ==
  ASSUME SupInv, NEW ps \in SUBSET Pids, NEW status \in {"none", "purpose", "crash"},
         \A p \in ps : proc[p] \in Ours,
         Gone(ps, status),
         NEW at \in {"wait", "leftover", "failed"}, ScriptGoes(at),
         script.at \in {"term", "wait"},
         UNCHANGED <<files, history, bounds>>
  PROVE  SupInv'
<1> USE SupervisorAssumption DEF SupInv
<1>1. /\ sup' \in [Pids -> Sups] /\ proc' \in [Pids -> ProcKinds]
      /\ \A p \in Pids : proc'[p] = IF p \in ps THEN "free" ELSE proc[p]
      /\ \A s \in Pids : sup'[s].at = IF s \in ps THEN "none" ELSE sup[s].at
      /\ \A p \in Pids : proc'[p] = "supervisor" <=> sup'[p].at # "none"
  BY GoneTypes
<1>2. /\ script' \in [kind : {"none", "stop", "start", "install"}, at : Stages,
                       self : Pids \cup {NoPid}, targets : SUBSET Pids]
      /\ script'.at = at /\ script'.kind = script.kind /\ script'.self = script.self
      /\ script'.targets = script.targets
  BY ScriptMoves DEF Stages
<1>3. TypeOK'
  BY <1>1, <1>2 DEF TypeOK, Sups, files, history, bounds
<1>4. ScriptInv'
  <2>1. \A p \in Pids : proc[p] = "start" => p \notin ps /\ proc'[p] = "start"
    BY <1>1 DEF Ours
  <2>2. script'.kind = "start" => script'.self \in Pids /\ proc'[script'.self] = "start"
    BY <1>2, <2>1 DEF ScriptInv
  <2>3. \A p \in Pids : proc'[p] = "start" => script'.kind = "start" /\ p = script'.self
    <3>1. \A p \in Pids : proc[p] = "start" => script.kind = "start" /\ p = script.self
      BY DEF ScriptInv, Running
    <3>2. \A p \in Pids : proc'[p] = "start" => proc[p] = "start"
      BY <1>1
    <3> QED BY <1>2, <3>1, <3>2
  <2>4. \A p \in script'.targets : proc'[p] \in {"runtime", "supervisor", "free"}
    <3>1. \A p \in script.targets : p \in Pids /\ proc[p] \in {"runtime", "supervisor", "free"}
      BY DEF ScriptInv
    <3> QED BY <1>1, <1>2, <3>1
  <2> QED BY <1>2, <2>2, <2>3, <2>4 DEF ScriptInv, Running
<1>5. OwnerInv'
  BY <1>1, <1>2 DEF OwnerInv, Running, SupAt, FileTaken, files, history
<1>6. WatchedInv'
  BY <1>2 DEF WatchedInv, Settled
<1> QED BY <1>3, <1>4, <1>5, <1>6

\* A step that only a script takes, and that changes no process.
LEMMA MovesKeep ==
  ASSUME SupInv, NEW at \in {"leftover", "stopped", "failed"}, ScriptGoes(at),
         script.at \in {"wait", "leftover"},
         at = "stopped" => Running("runtime") = {},
         UNCHANGED <<proc, sup, files, history, bounds>>
  PROVE  SupInv'
<1> USE SupervisorAssumption DEF SupInv
<1>1. /\ script' \in [kind : {"none", "stop", "start", "install"}, at : Stages,
                       self : Pids \cup {NoPid}, targets : SUBSET Pids]
      /\ script'.at = at /\ script'.kind = script.kind /\ script'.self = script.self
      /\ script'.targets = script.targets
  BY ScriptMoves DEF Stages
<1>2. TypeOK'
  BY <1>1 DEF TypeOK, files, history, bounds
<1>3. ScriptInv'
  BY <1>1 DEF ScriptInv, Running
<1>4. OwnerInv'
  BY <1>1 DEF OwnerInv, Running, SupAt, FileTaken, files, history
<1>5. WatchedInv'
  BY <1>1 DEF WatchedInv, Settled
<1> QED BY <1>2, <1>3, <1>4, <1>5

LEMMA StoppingKeeps ==
  ASSUME SupInv,
         \/ Terminate \/ AllExited \/ Leftover
         \/ \E stuck \in SUBSET Remaining : KillRemaining(stuck)
  PROVE  SupInv'
<1> USE SupervisorAssumption DEF ScriptAt
<1>1. script.targets \in SUBSET Pids
  BY DEF SupInv, TypeOK
<1>2. CASE Terminate
  <2> DEFINE ps == {p \in script.targets : proc[p] = "supervisor"}
  <2>1. ps \in SUBSET Pids /\ \A p \in ps : proc[p] \in Ours
    BY <1>1 DEF Ours
  <2>2. Gone(ps, "none") /\ ScriptGoes("wait") /\ script.at = "term" /\ UNCHANGED <<files, history, bounds>>
    BY <1>2 DEF Terminate
  <2> QED BY <2>1, <2>2, SignalsKeep
<1>3. CASE AllExited
  BY <1>3, MovesKeep DEF AllExited
<1>4. CASE Leftover
  BY <1>4, MovesKeep DEF Leftover
<1>5. ASSUME NEW stuck \in SUBSET Remaining, KillRemaining(stuck) PROVE SupInv'
  <2> DEFINE ps == Remaining \ stuck
             at == IF stuck = {} THEN "leftover" ELSE "failed"
  <2>1. /\ Gone(ps, "crash") /\ ScriptGoes(at) /\ at \in {"wait", "leftover", "failed"}
        /\ script.at = "wait" /\ UNCHANGED <<files, history, bounds>>
    BY <1>5 DEF KillRemaining
  <2>2. ps \in SUBSET Pids /\ \A p \in ps : proc[p] \in Ours
    BY <1>1, <2>1 DEF Remaining, SupInv, ScriptInv, Ours
  <2> QED BY <2>1, <2>2, SignalsKeep
<1> QED BY <1>2, <1>3, <1>4, <1>5

\* A stop is over: it has found nothing running, and nobody owns the file; or it has failed.
LEMMA StopEndsKeep ==
  ASSUME SupInv, StopSucceeds \/ StopFails
  PROVE  SupInv'
<1> USE SupervisorAssumption DEF SupInv
<1>1. /\ UNCHANGED <<proc, sup, faults, scripts>> /\ script.at \in {"stopped", "failed"}
      /\ sup_file = NoPid /\ sup_file' = NoPid /\ pid_file' \in Pids \cup {NoPid}
      /\ stopped' \in BOOLEAN /\ failed' \in BOOLEAN
  <2>1. script.at \in {"stopped", "failed"} /\ sup_file = NoPid
    BY DEF StopSucceeds, StopFails, ScriptAt, OwnerInv, FileTaken
  <2>2. CASE StopSucceeds
    BY <2>1, <2>2 DEF StopSucceeds, bounds, TypeOK
  <2>3. CASE StopFails
    BY <2>1, <2>3 DEF StopFails, bounds, files, TypeOK
  <2> QED BY <2>2, <2>3
<1>2. /\ script' \in [kind : {"none", "stop", "start", "install"}, at : Stages,
                       self : Pids \cup {NoPid}, targets : SUBSET Pids]
      /\ \/ script.kind = "start" /\ script'.kind = "start" /\ script'.at = "spawn"
            /\ script'.self = script.self
         \/ script.kind # "start" /\ script'.kind = "none" /\ script'.at = "idle"
            /\ script'.targets = {}
  <2>1. ScriptGoesOn
    BY DEF StopSucceeds, StopFails
  <2>2. CASE script.kind = "start"
    BY <2>1, <2>2 DEF ScriptGoesOn, ScriptInv, Stages
  <2>3. CASE script.kind # "start"
    BY <2>1, <2>3 DEF ScriptGoesOn, NoScript, Stages
  <2> QED BY <2>2, <2>3
<1>3. TypeOK'
  BY <1>1, <1>2 DEF TypeOK
<1>4. ScriptInv'
  BY <1>1, <1>2 DEF ScriptInv, Running
<1>5. \A s \in Pids : ~ SupAt(s, "launch")
  BY <1>1 DEF OwnerInv
<1>6. stopped' => Running("runtime") = {}
  BY <1>1 DEF StopSucceeds, StopFails, ScriptAt, OwnerInv
<1>7. OwnerInv'
  BY <1>1, <1>2, <1>5, <1>6 DEF OwnerInv, Running, SupAt, FileTaken
<1>8. ~ failed' => Running("runtime") = {}
  BY <1>1 DEF StopSucceeds, StopFails, ScriptAt, OwnerInv
<1>9. WatchedInv'
  BY <1>1, <1>8 DEF WatchedInv, Running
<1> QED BY <1>3, <1>4, <1>7, <1>9

LEMMA SpawnKeeps ==
  ASSUME SupInv, NEW s \in Pids, SpawnSupervisor(s)
  PROVE  SupInv'
<1> USE SupervisorAssumption DEF SupInv
<1>1. /\ script.at = "spawn" /\ proc[s] = "free" /\ sup_file = NoPid
      /\ sup_file' = s /\ stopped' = FALSE
      /\ UNCHANGED <<pid_file, failed, faults, scripts>>
  BY DEF SpawnSupervisor, ScriptAt, OwnerInv, FileTaken, bounds
<1>2. /\ proc' \in [Pids -> ProcKinds] /\ proc'[s] = "supervisor"
      /\ \A p \in Pids \ {s} : proc'[p] = proc[p]
  BY DEF SpawnSupervisor, TypeOK, ProcKinds
<1>3. /\ sup' \in [Pids -> Sups] /\ sup'[s].at = "launch"
      /\ \A p \in Pids \ {s} : sup'[p] = sup[p]
  <2>1. [NotSup EXCEPT !.at = "launch"] \in Sups /\ [NotSup EXCEPT !.at = "launch"].at = "launch"
    BY DEF NotSup, Sups
  <2>2. sup' = [sup EXCEPT ![s] = [NotSup EXCEPT !.at = "launch"]] /\ sup \in [Pids -> Sups]
    BY DEF SpawnSupervisor, TypeOK, Sups
  <2> QED BY <2>1, <2>2
<1>4. /\ script' \in [kind : {"none", "stop", "start", "install"}, at : Stages,
                       self : Pids \cup {NoPid}, targets : SUBSET Pids]
      /\ script'.at = "started" /\ script'.kind = script.kind /\ script'.self = script.self
  BY ScriptMoves DEF Stages, SpawnSupervisor
<1>5. TypeOK'
  <2>1. \A p \in Pids : proc'[p] = "supervisor" <=> sup'[p].at # "none"
    BY <1>2, <1>3 DEF TypeOK
  <2> QED BY <1>1, <1>2, <1>3, <1>4, <2>1 DEF TypeOK, Sups
<1>6. ScriptInv'
  BY <1>1, <1>2, <1>4 DEF ScriptInv, Running
<1>7. OwnerInv'
  BY <1>1, <1>2, <1>3, <1>4 DEF OwnerInv, Running, SupAt, FileTaken
<1>8. WatchedInv'
  <2>1. ~ failed => \A p \in Pids : proc[p] # "runtime"
    BY <1>1 DEF WatchedInv, Settled, Running
  <2> QED BY <1>1, <1>2, <2>1 DEF WatchedInv, Running
<1> QED BY <1>5, <1>6, <1>7, <1>8

LEMMA StartEndsKeeps ==
  ASSUME SupInv, StartEnds
  PROVE  SupInv'
<1> USE SupervisorAssumption DEF SupInv
<1>1. /\ script.at = "started" /\ script.kind = "start" /\ ~ stopped
      /\ \A s \in Pids : ~ SupAt(s, "launch")
      /\ UNCHANGED <<sup, pid_file, sup_file, stopped, failed, faults, scripts>>
  BY DEF StartEnds, ScriptAt, ScriptInv, OwnerInv, files, history, bounds
<1>2. script.self \in Pids /\ proc[script.self] = "start"
  BY <1>1 DEF ScriptInv
<1>3. /\ proc' \in [Pids -> ProcKinds] /\ proc'[script.self] = "free"
      /\ \A p \in Pids \ {script.self} : proc'[p] = proc[p] /\ proc[p] # "start"
  BY <1>1, <1>2 DEF StartEnds, TypeOK, ProcKinds, ScriptInv, Running
<1>4. script'.at = "idle" /\ script'.kind = "none" /\ script'.self = NoPid /\ script'.targets = {}
      /\ script' \in [kind : {"none", "stop", "start", "install"}, at : Stages,
                      self : Pids \cup {NoPid}, targets : SUBSET Pids]
  BY DEF StartEnds, NoScript, Stages
<1>5. TypeOK'
  BY <1>1, <1>2, <1>3, <1>4 DEF TypeOK
<1>6. ScriptInv'
  BY <1>3, <1>4 DEF ScriptInv, Running
<1>7. OwnerInv'
  BY <1>1, <1>2, <1>3, <1>4 DEF OwnerInv, SupAt, FileTaken
<1>8. WatchedInv'
  BY <1>1, <1>2, <1>3 DEF WatchedInv, Settled, Running
<1> QED BY <1>5, <1>6, <1>7, <1>8

LEMMA ScriptRunsKeeps ==
  ASSUME SupInv, ScriptRuns
  PROVE  SupInv'
BY LooksKeep, StoppingKeeps, StopEndsKeep, SpawnKeeps, StartEndsKeeps DEF ScriptRuns

-----------------------------------------------------------------------------
(* The rest of the device. *)

LEMMA OthersKeep ==
  ASSUME SupInv, NEW p \in Pids, OtherStarts(p) \/ OtherExits(p)
  PROVE  SupInv'
<1> USE SupervisorAssumption DEF SupInv
<1>1. PICK kind \in {"other", "free"} : proc' = [proc EXCEPT ![p] = kind]
  BY DEF OtherStarts, OtherExits
<1>2. /\ proc[p] \in {"free", "other"} /\ (kind = "other" => script.at = "idle")
      /\ UNCHANGED <<sup, pid_file, sup_file, script, stopped, failed, faults, scripts>>
  <2>1. CASE OtherStarts(p)
    BY <2>1 DEF OtherStarts, ScriptAt, files, history, bounds
  <2>2. CASE OtherExits(p)
    <3>1. kind = "free"
      BY <1>1, <2>2 DEF OtherExits, TypeOK
    <3> QED BY <2>2, <3>1 DEF OtherExits, files, history, bounds
  <2> QED BY <2>1, <2>2
<1>3. /\ proc' \in [Pids -> ProcKinds] /\ proc'[p] = kind
      /\ \A q \in Pids \ {p} : proc'[q] = proc[q]
  BY <1>1 DEF TypeOK, ProcKinds
<1>4. TypeOK'
  BY <1>2, <1>3 DEF TypeOK
<1>5. ScriptInv'
  BY <1>2, <1>3 DEF ScriptInv, Running
<1>6. OwnerInv'
  BY <1>2, <1>3 DEF OwnerInv, SupAt, Running
<1>7. WatchedInv'
  BY <1>2, <1>3 DEF WatchedInv, Running
<1> QED BY <1>4, <1>5, <1>6, <1>7

LEMMA PowerCutKeeps ==
  ASSUME SupInv, PowerCut
  PROVE  SupInv'
<1> USE SupervisorAssumption DEF SupInv
<1>1. /\ proc' = [p \in Pids |-> "free"] /\ sup' = [p \in Pids |-> NotSup]
      /\ script' = NoScript /\ stopped' = TRUE /\ failed' = FALSE
      /\ UNCHANGED <<pid_file, sup_file, scripts>>
  BY DEF PowerCut, files
<1>2. 0 \in 0 .. MaxRestarts /\ NotSup \in Sups /\ NotSup.at = "none"
  BY DEF NotSup, Sups
<1>3. faults' \in 0 .. MaxFaults
  BY DEF PowerCut, TypeOK
<1>4. TypeOK'
  BY <1>1, <1>2, <1>3 DEF TypeOK, ProcKinds, NoScript, Sups
<1>5. ScriptInv'
  BY <1>1 DEF ScriptInv, Running, NoScript, Stages
<1>6. OwnerInv' /\ WatchedInv'
  BY <1>1 DEF OwnerInv, WatchedInv, Running, SupAt, NoScript, FileTaken
<1> QED BY <1>4, <1>5, <1>6

-----------------------------------------------------------------------------
(* The invariant, and what it gives. *)

LEMMA SupStep == SupInv /\ [Next]_vars => SupInv'
<1> SUFFICES ASSUME SupInv, [Next]_vars PROVE SupInv'
  OBVIOUS
<1>1. CASE \E s \in Pids : Supervise(s)
  BY <1>1, SuperviseKeeps
<1>2. CASE \E p \in Pids : Exit(p, "purpose") \/ Exit(p, "crash") \/ TerminatedExits(p)
  BY <1>2, ExitsKeep
<1>3. CASE RunStop \/ RunInstall \/ (\E p \in Pids : RunStart(p))
  BY <1>3, RunsKeep
<1>4. CASE ScriptRuns
  BY <1>4, ScriptRunsKeeps
<1>5. CASE \E p \in Pids : OtherStarts(p) \/ OtherExits(p)
  BY <1>5, OthersKeep
<1>6. CASE PowerCut
  BY <1>6, PowerCutKeeps
<1>7. CASE UNCHANGED vars
  <2>1. UNCHANGED <<proc, sup, pid_file, sup_file, script, stopped, failed, faults, scripts>>
    BY <1>7 DEF vars, files, history, bounds
  <2>2. TypeOK'
    BY <2>1 DEF SupInv, TypeOK
  <2>3. ScriptInv'
    BY <2>1 DEF SupInv, ScriptInv, Running
  <2>4. OwnerInv' /\ WatchedInv'
    BY <2>1 DEF SupInv, OwnerInv, WatchedInv, Running, SupAt
  <2> QED BY <2>2, <2>3, <2>4 DEF SupInv
<1> QED BY <1>1, <1>2, <1>3, <1>4, <1>5, <1>6, <1>7 DEF Next

\* Every state of a device has its pids, files, scripts and supervisors in their types.
THEOREM SupervisorTypeCorrect == Spec => []TypeOK
<1>1. SupInv => TypeOK
  BY DEF SupInv
<1> QED BY <1>1, SupStarts, SupStep, PTL DEF Spec

\* After a stop that has succeeded nothing runs until the next start: whoever could bring a
\* process back has lost the file, or ended.
THEOREM NothingComesBack == Spec => []StoppedStaysStopped
<1>1. SupInv => StoppedStaysStopped
  BY DEF SupInv, OwnerInv, StoppedStaysStopped
<1> QED BY <1>1, SupStarts, SupStep, PTL DEF Spec

\* Between scripts, and unless a stop has failed, what runs is one process, whose supervisor
\* owns the file and waits for it.
THEOREM WhatRunsIsWatched == Spec => []RuntimeIsWatched
<1>1. ASSUME SupInv PROVE RuntimeIsWatched
  BY <1>1 DEF SupInv, WatchedInv, RuntimeIsWatched, ScriptAt, Settled, Running
<1> QED BY <1>1, SupStarts, SupStep, PTL DEF Spec

\* No process of another's, and not the start.sh that runs the stop, is ever signalled,
\* whichever pids a reboot gave to whom.
THEOREM OthersAreSpared == Spec => []OnlyOwnSignalled
<1>1. ASSUME SupInv PROVE OnlyOwnSignalled
  BY <1>1 DEF SupInv, ScriptInv, OnlyOwnSignalled, ScriptAt
<1> QED BY <1>1, SupStarts, SupStep, PTL DEF Spec
=============================================================================
