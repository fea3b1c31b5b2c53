------------------------ MODULE DeferredMaintenance ------------------------
(***************************************************************************)
(* run_when_offroad.sh: the queue of one maintenance job that waits until   *)
(* the car is not being driven.  The job directory, status.json, waiter.pid *)
(* and runner.sh are files that survive a power cut; the waiter is a        *)
(* process that polls the car and runs the job; queue, cancel and resume    *)
(* are commands that look at the files and at the waiter, then act.         *)
(*                                                                          *)
(* Commands do not overlap: the API serves one request at a time, and       *)
(* start.sh and the installers are started by hand or at boot.  Everything  *)
(* else interleaves, and the power may be cut between any two steps.  Polls *)
(* stand for the seconds between them, POLL_SEC each.                       *)
(***************************************************************************)
EXTENDS Integers, Sequences

CONSTANTS
  Waiters,      \* processes that run "runner.sh wait"
  NoWaiter,     \* no waiter.pid
  OffroadPolls, \* STABLE_SEC, in polls
  ParkedPolls,  \* PARKED_STABLE_SEC, in polls
  MaxAttempts,  \* MAX_ATTEMPTS
  MaxJobs,      \* bound: jobs queued
  MaxCuts       \* bound: power cuts

ASSUME QueueAssumption ==
  /\ NoWaiter \notin Waiters
  /\ OffroadPolls \in Nat /\ OffroadPolls >= 1
  /\ ParkedPolls \in Nat /\ ParkedPolls >= 1
  /\ MaxAttempts \in Nat /\ MaxAttempts >= 1
  /\ MaxJobs \in Nat /\ MaxCuts \in Nat

VARIABLES
  phase,    \* what maintenance_phase would say now
  cuts,     \* power cuts so far
  booting,  \* start.sh has not yet resumed the queue
  job,      \* JOB_DIR
  status,   \* the state in status.json
  pidfile,  \* waiter.pid
  runner,   \* runner.sh is there
  cmd,      \* the command running: its kind and its next step
  waiter,   \* per waiter: its next step and its locals
  orphans,  \* jobs whose process runs on without its waiter
  made,     \* jobs queued so far
  accepted, \* history: the last job whose queue command wrote "waiting"
  trampled  \* history: the waiter of an uninstall has removed a later command's files

fileVars   == <<job, status, pidfile, runner>>
waiterVars == <<waiter, orphans>>
worldVars  == <<phase, cuts, booting, trampled>>
cmdVars    == <<cmd, made, accepted>>
vars == <<fileVars, waiterVars, worldVars, cmdVars>>

Phases == {"offroad", "parked", "driving"}

\* args: JOB_DIR/args is missing, half written or whole.
JobDir == [id : Nat, uninstall : BOOLEAN, args : {"none", "partial", "whole"},
           attempts : Nat, started : BOOLEAN, finished : BOOLEAN]
NoJob == [id |-> 0, uninstall |-> FALSE, args |-> "none", attempts |-> 0,
          started |-> FALSE, finished |-> FALSE]

\* stable: polls since the car came to rest; mine: the job it read; seen (history): its
\* last polls since it began or started a job.
Dead == [pc |-> "dead", stable |-> 0, prev_phase |-> "none", mine |-> NoJob,
         ec |-> "none", seen |-> <<>>]

Idle == [kind |-> "none", at |-> "idle", uninstall |-> FALSE]

-----------------------------------------------------------------------------
(* What the scripts ask of the files. *)

\* waiter.pid names a process that still is a waiter.
WaiterAlive == pidfile # NoWaiter /\ waiter[pidfile] # Dead

\* A job that is not there has no number.
JobDirThere == job.id # 0

JobRunning == WaiterAlive /\ job.started /\ ~ job.finished

Needed(p) == IF p = "parked" THEN ParkedPolls ELSE OffroadPolls
Longest == IF ParkedPolls > OffroadPolls THEN ParkedPolls ELSE OffroadPolls

-----------------------------------------------------------------------------
(* The commands. *)

At(where) == cmd.at = where
CmdGoes(where) == cmd' = [cmd EXCEPT !.at = where]
CmdEnds == cmd' = Idle

Command(kind, uninstall) ==
  /\ cmd = Idle /\ ~ booting
  /\ kind = "queue" => made < MaxJobs
  /\ kind # "queue" => runner /\ ~ uninstall
  /\ cmd' = [kind |-> kind, at |-> IF kind = "resume" THEN "start" ELSE "check",
             uninstall |-> uninstall]
  /\ UNCHANGED <<fileVars, waiterVars, worldVars, made, accepted>>

\* start.sh at boot: the queue is resumed if its runner is there.
Boot ==
  /\ booting
  /\ booting' = FALSE
  /\ cmd' = IF runner THEN [Idle EXCEPT !.kind = "resume", !.at = "start"] ELSE Idle
  /\ UNCHANGED <<fileVars, waiterVars, phase, cuts, trampled, made, accepted>>

\* A job that has started is left to finish.
Check ==
  /\ At("check")
  /\ IF JobRunning THEN CmdEnds ELSE CmdGoes("stop")
  /\ UNCHANGED <<fileVars, waiterVars, worldVars, made, accepted>>

\* Mutant: the waiter of the old job is left alone.
StopWaiter_kills_nobody ==
  /\ At("stop")
  /\ CmdGoes(IF cmd.kind = "queue" THEN "clear" ELSE "drop")
  /\ UNCHANGED <<fileVars, waiterVars, worldVars, made, accepted>>

\* The kill reaches the waiter alone: a job it has started runs on.
StopWaiter ==
  /\ At("stop")
  /\ IF WaiterAlive
       THEN /\ waiter' = [waiter EXCEPT ![pidfile] = Dead]
            /\ orphans' = orphans \cup
                 (IF waiter[pidfile].pc = "running" THEN {waiter[pidfile].mine.id} ELSE {})
       ELSE UNCHANGED waiterVars
  /\ CmdGoes(IF cmd.kind = "queue" THEN "clear" ELSE "drop")
  /\ UNCHANGED <<fileVars, worldVars, made, accepted>>

\* The old job goes; the new one's directory is there, and its action is taken as known.
ClearJob ==
  /\ At("clear")
  /\ made' = made + 1
  /\ job' = [NoJob EXCEPT !.id = made + 1, !.uninstall = cmd.uninstall]
  /\ CmdGoes("copy")
  /\ UNCHANGED <<status, pidfile, runner, waiterVars, worldVars, accepted>>

\* The runner and the job's files are copied.  If the directory has been wiped meanwhile,
\* either copy may fail and end the command.
CopyRunner ==
  /\ At("copy")
  /\ \/ runner' = TRUE /\ CmdGoes("args")
     \/ ~ JobDirThere /\ runner' \in {runner, TRUE} /\ CmdEnds
  /\ UNCHANGED <<job, status, pidfile, waiterVars, worldVars, made, accepted>>

\* The arguments are appended one by one; without a directory nobody notices that they are
\* not.
WriteArgs ==
  /\ At("args")
  /\ job' = IF ~ JobDirThere THEN job
            ELSE [job EXCEPT !.args = IF @ = "none" THEN "partial" ELSE "whole"]
  /\ IF JobDirThere /\ job.args = "none" THEN UNCHANGED cmd ELSE CmdGoes("accept")
  /\ UNCHANGED <<status, pidfile, runner, waiterVars, worldVars, made, accepted>>

Accept ==
  /\ At("accept")
  /\ status' = "waiting"
  /\ accepted' = made
  /\ CmdGoes("start")
  /\ UNCHANGED <<job, pidfile, runner, waiterVars, worldVars, made>>

\* Mutant: what waiter.pid says is believed.
StartWaiter_trusts_pid ==
  /\ At("start")
  /\ IF pidfile # NoWaiter \/ job.args = "none" THEN CmdEnds ELSE CmdGoes("spawn")
  /\ UNCHANGED <<fileVars, waiterVars, worldVars, made, accepted>>

StartWaiter ==
  /\ At("start")
  /\ IF WaiterAlive \/ job.args = "none" THEN CmdEnds ELSE CmdGoes("spawn")
  /\ UNCHANGED <<fileVars, waiterVars, worldVars, made, accepted>>

Spawn(w) ==
  /\ At("spawn") /\ waiter[w] = Dead
  /\ pidfile' = w
  /\ waiter' = [waiter EXCEPT ![w].pc = "poll"]
  /\ CmdEnds
  /\ UNCHANGED <<job, status, runner, orphans, worldVars, made, accepted>>

\* What "start" saw is wiped by now: without its directory nothing is started.
SpawnFails ==
  /\ At("spawn") /\ job.args = "none"
  /\ CmdEnds
  /\ UNCHANGED <<fileVars, waiterVars, worldVars, made, accepted>>

\* cancel: a waiting job is dropped, or the status of a finished one.
DropJob ==
  /\ At("drop")
  /\ status' = IF job = NoJob THEN "none" ELSE "cancelled"
  /\ job' = NoJob
  /\ pidfile' = NoWaiter
  /\ CmdEnds
  /\ UNCHANGED <<runner, waiterVars, worldVars, made, accepted>>

-----------------------------------------------------------------------------
(* The waiter: cmd_wait. *)

In(w, where) == waiter[w].pc = where
WaiterGoes(w, where) == waiter' = [waiter EXCEPT ![w].pc = where]

\* Mutant: a stretch of rest is the sum of all stretches.
StableAfter_adds_up(w) ==
  IF phase = "driving" THEN waiter[w].stable ELSE waiter[w].stable + 1

StableAfter(w) ==
  IF phase = "driving" THEN 0
  ELSE IF phase = waiter[w].prev_phase THEN waiter[w].stable + 1
  ELSE 1

Remember(polls, p) == Append(IF Len(polls) = Longest THEN Tail(polls) ELSE polls, p)

\* A poll of the car: the job waits until the car has rested long enough.
Poll(w) ==
  /\ In(w, "poll") /\ job.args # "none"
  /\ waiter' = [waiter EXCEPT
       ![w].stable = StableAfter(w), ![w].prev_phase = phase,
       ![w].seen = Remember(@, phase),
       ![w].pc = IF phase # "driving" /\ StableAfter(w) >= Needed(phase)
                 THEN "launch" ELSE "poll"]
  /\ UNCHANGED <<fileVars, orphans, worldVars, cmdVars>>

\* The loop's way out: the job is gone.
PollEnds(w) ==
  /\ In(w, "poll") /\ job.args = "none"
  /\ pidfile' = NoWaiter
  /\ waiter' = [waiter EXCEPT ![w] = Dead]
  /\ UNCHANGED <<job, status, runner, orphans, worldVars, cmdVars>>

\* A waiter whose job has been wiped starts nothing as its first attempt, and what it
\* writes into the directory is lost.
Launch(w) ==
  /\ In(w, "launch")
  /\ job' = IF JobDirThere THEN [job EXCEPT !.attempts = @ + 1, !.started = TRUE] ELSE job
  /\ waiter' = [waiter EXCEPT ![w].mine = IF JobDirThere THEN job'
                                         ELSE [NoJob EXCEPT !.attempts = 1],
                               ![w].pc = "launched"]
  /\ UNCHANGED <<status, pidfile, runner, orphans, worldVars, cmdVars>>

RunJob(w) ==
  /\ In(w, "launched")
  /\ status' = "running"
  /\ waiter' = [waiter EXCEPT ![w].seen = <<>>, ![w].pc = "running"]
  /\ UNCHANGED <<job, pidfile, runner, orphans, worldVars, cmdVars>>

\* "driving" is exit 42: the job found the car being driven.
JobEnds(w, e) ==
  /\ In(w, "running")
  /\ job' = IF JobDirThere THEN [job EXCEPT !.finished = TRUE] ELSE job
  /\ waiter' = [waiter EXCEPT ![w].ec = e, ![w].pc = "ended"]
  /\ UNCHANGED <<status, pidfile, runner, orphans, worldVars, cmdVars>>

\* Mutant: one attempt too many.
Again_once_more(w) == waiter[w].ec = "driving" /\ waiter[w].mine.attempts <= MaxAttempts

Again(w) == waiter[w].ec = "driving" /\ waiter[w].mine.attempts < MaxAttempts

\* Mutant: the next attempt need not wait for another stretch of rest.
WaitAgain_at_once(w) ==
  /\ In(w, "ended") /\ Again(w)
  /\ status' = "waiting"
  /\ job' = [job EXCEPT !.started = FALSE, !.finished = FALSE]
  /\ WaiterGoes(w, "poll")
  /\ UNCHANGED <<pidfile, runner, orphans, worldVars, cmdVars>>

WaitAgain(w) ==
  /\ In(w, "ended") /\ Again(w)
  /\ status' = "waiting"
  /\ job' = [job EXCEPT !.started = FALSE, !.finished = FALSE]
  /\ waiter' = [waiter EXCEPT ![w].stable = 0, ![w].pc = "poll"]
  /\ UNCHANGED <<pidfile, runner, orphans, worldVars, cmdVars>>

CloseJob(w) ==
  /\ In(w, "ended") /\ ~ Again(w)
  /\ status' = IF waiter[w].ec = "ok" THEN "done" ELSE "failed"
  /\ WaiterGoes(w, "remove")
  /\ UNCHANGED <<job, pidfile, runner, orphans, worldVars, cmdVars>>

RemoveJob(w) ==
  /\ In(w, "remove")
  /\ job' = NoJob
  /\ WaiterGoes(w, "leave")
  /\ UNCHANGED <<status, pidfile, runner, orphans, worldVars, cmdVars>>

\* From here on no command finds the waiter.  One that has nothing left to do is as good
\* as gone.
Leave(w) ==
  /\ In(w, "leave")
  /\ pidfile' = NoWaiter
  /\ waiter' = [waiter EXCEPT
       ![w] = IF waiter[w].mine.uninstall /\ waiter[w].ec = "ok"
              THEN [Dead EXCEPT !.pc = "wipe"] ELSE Dead]
  /\ UNCHANGED <<job, status, runner, orphans, worldVars, cmdVars>>

StateFiles == {"job", "status", "pidfile", "runner"}

\* "Nothing of CommaView stays behind an uninstall, this queue included", nor what a command
\* has put there since.  The directory is listed and what is listed goes, one file after the
\* other: what a command writes meanwhile may stay, but whoever lists its waiter.pid lists
\* its job.
Wipe(w) ==
  /\ In(w, "wipe")
  /\ LET later == JobDirThere \/ pidfile # NoWaiter IN
       \E lost \in SUBSET StateFiles :
         /\ IF later THEN "pidfile" \in lost => "job" \in lost ELSE lost = StateFiles
         /\ job' = IF "job" \in lost THEN NoJob ELSE job
         /\ status' = IF "status" \in lost THEN "none" ELSE status
         /\ pidfile' = IF "pidfile" \in lost THEN NoWaiter ELSE pidfile
         /\ runner' = (runner /\ "runner" \notin lost)
         /\ trampled' = (trampled \/ (later /\ lost \cap {"job", "runner"} # {}))
  /\ waiter' = [waiter EXCEPT ![w] = Dead]
  /\ UNCHANGED <<orphans, phase, cuts, booting, cmdVars>>

Waiter(w) ==
  \/ Poll(w) \/ PollEnds(w) \/ Launch(w) \/ RunJob(w)
  \/ \E e \in {"ok", "driving", "failed"} : JobEnds(w, e)
  \/ WaitAgain(w) \/ CloseJob(w) \/ RemoveJob(w) \/ Leave(w) \/ Wipe(w)

-----------------------------------------------------------------------------
(* The car and its power. *)

PhaseChanges(p) ==
  /\ p # phase
  /\ phase' = p
  /\ UNCHANGED <<fileVars, waiterVars, cuts, booting, trampled, cmdVars>>

OrphanEnds(n) ==
  /\ n \in orphans
  /\ orphans' = orphans \ {n}
  /\ UNCHANGED <<fileVars, waiter, worldVars, cmdVars>>

\* The processes are gone, the files are as they were.
PowerCut ==
  /\ cuts < MaxCuts
  /\ cuts' = cuts + 1
  /\ booting' = TRUE
  /\ cmd' = Idle
  /\ waiter' = [w \in Waiters |-> Dead] /\ orphans' = {}
  /\ UNCHANGED <<fileVars, phase, trampled, made, accepted>>

Init ==
  /\ phase = "driving" /\ cuts = 0 /\ booting = FALSE
  /\ job = NoJob /\ status = "none" /\ pidfile = NoWaiter /\ runner = FALSE
  /\ cmd = Idle /\ made = 0 /\ accepted = 0 /\ trampled = FALSE
  /\ waiter = [w \in Waiters |-> Dead] /\ orphans = {}

CommandStep ==
  \/ Check \/ StopWaiter \/ ClearJob \/ CopyRunner \/ WriteArgs \/ Accept
  \/ StartWaiter \/ (\E w \in Waiters : Spawn(w)) \/ SpawnFails \/ DropJob

Next ==
  \/ \E u \in BOOLEAN : Command("queue", u)
  \/ Command("cancel", FALSE) \/ Command("resume", FALSE)
  \/ Boot \/ CommandStep
  \/ \E w \in Waiters : Waiter(w)
  \/ \E p \in Phases : PhaseChanges(p)
  \/ \E n \in orphans : OrphanEnds(n)
  \/ PowerCut

Spec == Init /\ [][Next]_vars

\* Commands and waiters run on, jobs end, and a device that starts runs start.sh.
Fairness ==
  /\ WF_vars(Boot) /\ WF_vars(CommandStep)
  /\ \A w \in Waiters : WF_vars(Waiter(w))

FairSpec == Spec /\ Fairness

-----------------------------------------------------------------------------
(* Properties. *)

Steps ==
  {"dead", "poll", "launch", "launched", "running", "ended", "remove", "leave", "wipe"}

TypeOK ==
  /\ phase \in Phases /\ cuts \in 0 .. MaxCuts /\ booting \in BOOLEAN
  /\ job \in JobDir /\ (~ trampled => job.attempts <= MaxAttempts + MaxCuts)
  /\ status \in {"none", "waiting", "running", "done", "failed", "cancelled"}
  /\ pidfile \in Waiters \cup {NoWaiter} /\ runner \in BOOLEAN
  /\ cmd.kind \in {"none", "queue", "cancel", "resume"}
  /\ made \in 0 .. MaxJobs /\ accepted \in 0 .. made /\ trampled \in BOOLEAN
  /\ waiter \in [Waiters -> [pc : Steps, stable : 0 .. Longest,
                              prev_phase : Phases \cup {"none"}, mine : JobDir,
                              ec : {"none", "ok", "driving", "failed"}, seen : Seq(Phases)]]
  /\ orphans \subseteq 0 .. MaxJobs

\* The step of waiter w from polling to starting a job, if this is one, is justified by
\* the polls it remembers.
StartsRested(w) ==
  In(w, "poll") /\ waiter'[w].pc = "launch" =>
    LET n == Needed(phase)
        polls == waiter'[w].seen
    IN  /\ phase # "driving" /\ Len(polls) >= n
        /\ \A k \in 0 .. n - 1 : polls[Len(polls) - k] = phase

\* A job is started only behind as many polls in a row as its phase asks for that all
\* found the car resting in that same phase, all since the waiter began or since its
\* last attempt found the car being driven.
StartsQuiet == [][\A w \in Waiters : StartsRested(w)]_vars

\* A waiter that lives is the one waiter.pid names, so that the next command finds it; the
\* waiter of an uninstall that has only the directory left to remove is named by nothing.
\* Until it leaves there is a job, and the job it runs or winds up is the one in the
\* directory: no command has put another one there under its feet, which RemoveJob would
\* throw away unread.  And the job in the directory has its waiter, unless a command is at
\* work on it or the device has yet to resume the queue: no kill, cut or exit in between
\* leaves a job that nothing will ever start.  All this until a job is queued between lines
\* 256 and 259 of run_when_offroad.sh: no command finds the waiter that is there then, and
\* it removes the new job or its runner with its own (trampled).
WaiterKeepsItsJob ==
  ~ trampled =>
    /\ \A w \in Waiters :
         /\ waiter[w].pc \notin {"dead", "wipe"} => pidfile = w
         /\ waiter[w].pc \notin {"dead", "leave", "wipe"} => job.args # "none"
         /\ waiter[w].pc \in {"launched", "running", "ended", "remove"} =>
              job.id = waiter[w].mine.id
    /\ job.args # "none" /\ cmd = Idle /\ ~ booting =>
         \E w \in Waiters : waiter[w].pc \notin {"dead", "wipe"}

\* A job the queue accepted does not wait for ever once the car rests and the power
\* stays: it is run to its end, replaced or cancelled, whatever was cut, killed or refused
\* before, so that there is always a time again when none waits (job numbers do not come
\* back).  A job that the waiter of an uninstall tramples on is not counted as served: from
\* then on nothing is promised.
AcceptedJobIsServed ==
  (<>[](phase = "parked") \/ <>[](phase = "offroad")) =>
    []<>(job.id = 0 \/ accepted # job.id \/ trampled)

\* What run_when_offroad.sh:276 tells the person who cancels, "is running now and can't
\* be cancelled" (and :178 the one who queues): a job that a command refuses to touch is
\* in the hands of a waiter that has started it.
RefusedOnlyWhileRunning ==
  JobRunning => \E w \in Waiters : waiter[w].pc \in {"launched", "running", "ended"}
=============================================================================
