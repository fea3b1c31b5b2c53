--------------------------- MODULE DeferredProofs ---------------------------
(***************************************************************************)
(* DeferredMaintenance's safety properties for any number of waiters, polls, *)
(* attempts, jobs and power cuts.  What holds always (Sound) is what one     *)
(* waiter knows of its own polls.  What carries the rest, until the waiter   *)
(* of an uninstall tramples on a later job, is that at most one waiter is at *)
(* work, waiter.pid names it, and a command changes the job directory only   *)
(* when none is.                                                             *)
(***************************************************************************)
EXTENDS DeferredMaintenance, SequenceTheorems, TLAPS

WaiterRec == [pc : Steps, stable : 0 .. Longest, prev_phase : Phases \cup {"none"},
              mine : JobDir, ec : {"none", "ok", "driving", "failed"}, seen : Seq(Phases)]

CmdRec == [kind : {"none", "queue", "cancel", "resume"},
           at : {"idle", "check", "stop", "clear", "copy", "args", "accept", "start", "spawn",
                 "drop"},
           uninstall : BOOLEAN]

Statuses == {"none", "waiting", "running", "done", "failed", "cancelled"}

FileTypes ==
  /\ job \in JobDir /\ status \in Statuses
  /\ pidfile \in Waiters \cup {NoWaiter} /\ runner \in BOOLEAN

WorldTypes ==
  /\ phase \in Phases /\ cuts \in 0 .. MaxCuts /\ booting \in BOOLEAN
  /\ trampled \in BOOLEAN /\ orphans \subseteq 0 .. MaxJobs

CmdSound ==
  /\ cmd \in CmdRec /\ made \in 0 .. MaxJobs /\ accepted \in 0 .. made
  /\ cmd.kind = "queue" /\ cmd.at \in {"check", "stop", "clear"} => made < MaxJobs
  /\ cmd.at = "clear" => cmd.kind = "queue"
  /\ booting => cmd.at = "idle"

JobSound == job.id <= made /\ (job.id = 0 => job = NoJob)

\* What stable counts.
Counts(r) ==
  r.pc = "poll" /\ r.stable >= 1 =>
    LET n == r.stable
        p == r.prev_phase
    IN  /\ p \in {"offroad", "parked"} /\ n < Needed(p)
        /\ n <= Len(r.seen)
        /\ \A k \in 0 .. n - 1 : r.seen[Len(r.seen) - k] = p

GoodWaiter(r) ==
  /\ r \in WaiterRec
  /\ r.pc = "dead" => r = Dead
  /\ r.mine.id <= made
  /\ Len(r.seen) <= Longest
  /\ Counts(r)

WaitersSound ==
  waiter \in [Waiters -> WaiterRec] /\ \A w \in Waiters : GoodWaiter(waiter[w])

\* What holds whatever an uninstall removes.
Sound == FileTypes /\ WorldTypes /\ CmdSound /\ JobSound /\ WaitersSound

\* Where a command relies on no waiter being at work.
Alone == {"clear", "copy", "args", "accept", "spawn", "drop"}

Gone == {"dead", "wipe"}

CmdInv ==
  /\ cmd.at \in Alone => \A w \in Waiters : waiter[w].pc \in Gone
  /\ cmd.at \in {"copy", "args"} => job.id >= 1
  /\ cmd.at = "args" => runner
  /\ cmd.at = "spawn" => job.args # "none"

AliveInv ==
  \A w \in Waiters :
    /\ waiter[w].pc \notin Gone => pidfile = w
    /\ waiter[w].pc = "wipe" => pidfile # w

HasJob == {"launched", "running", "ended", "remove"}

JobInv ==
  \A w \in Waiters :
    /\ waiter[w].pc \in HasJob =>
         job.id = waiter[w].mine.id /\ job.attempts = waiter[w].mine.attempts
    /\ waiter[w].pc \notin {"dead", "leave", "wipe"} => job.args # "none"

\* Only a waiter that runs a job, or a command about to throw it away, sees the last
\* attempt counted: every power cut may cost one more.
AttemptInv ==
  /\ job.attempts <= MaxAttempts + cuts
  /\ \/ job.attempts < MaxAttempts + cuts
     \/ cmd.at \in {"clear", "drop"}
     \/ \E w \in Waiters : waiter[w].pc \in HasJob

\* Who answers for the job in the directory.  A command may leave it without a waiter only
\* on its way to "start", which looks for one; a power cut only until start.sh resumes the
\* queue, for which the runner must still be there.
KeeperInv ==
  /\ job.args # "none" => runner
  /\ \A w \in Waiters : waiter[w].pc = "leave" => job.args = "none"
  /\ job.args # "none" /\ ~ booting /\ cmd.at \in {"idle", "check", "stop"} => WaiterAlive

\* What the files, the commands and the waiters know of one another.
Agreed == CmdInv /\ AliveInv /\ JobInv /\ AttemptInv /\ KeeperInv

IInv == Sound /\ (~ trampled => Agreed)

-----------------------------------------------------------------------------
LEMMA Bounds ==
  /\ Longest \in Nat /\ Longest >= 1
  /\ \A p \in Phases : Needed(p) \in 1 .. Longest
BY QueueAssumption DEF Longest, Needed, Phases

\* The polls a waiter remembers: the new one is last, the others keep their distance
\* from the end.
LEMMA RememberFacts ==
  ASSUME NEW s \in Seq(Phases), NEW p \in Phases, Len(s) <= Longest
  PROVE  LET r == Remember(s, p)
         IN  /\ r \in Seq(Phases) /\ Len(r) \in 1 .. Longest /\ Len(s) <= Len(r)
             /\ r[Len(r)] = p
             /\ Len(s) < Longest => Len(r) = Len(s) + 1
             /\ \A k \in 1 .. Len(r) - 1 : r[Len(r) - k] = s[Len(s) - (k - 1)]
<1> USE Bounds
<1>1. CASE Len(s) = Longest
  <2> DEFINE t == Tail(s)
  <2>1. t \in Seq(Phases) /\ Len(t) = Len(s) - 1 /\ \A i \in 1 .. Len(t) : t[i] = s[i + 1]
    BY <1>1
  <2> HIDE DEF t
  <2>2. Remember(s, p) = Append(t, p)
    BY <1>1 DEF Remember, t
  <2>3. /\ Append(t, p) \in Seq(Phases) /\ Len(Append(t, p)) = Len(t) + 1
        /\ Append(t, p)[Len(t) + 1] = p
        /\ \A i \in 1 .. Len(t) : Append(t, p)[i] = t[i]
    BY <2>1
  <2>4. ASSUME NEW k \in 1 .. Len(s) - 1
        PROVE  Append(t, p)[Len(s) - k] = s[Len(s) - (k - 1)]
    <3>1. Len(s) - k \in 1 .. Len(t)
      BY <2>1
    <3>2. Append(t, p)[Len(s) - k] = s[(Len(s) - k) + 1]
      BY <2>1, <2>3, <3>1
    <3> QED BY <3>2
  <2> DEFINE r == Append(t, p)
  <2>5. r \in Seq(Phases) /\ Len(r) = Len(s) /\ Len(s) \in 1 .. Longest /\ r[Len(r)] = p
    BY <1>1, <2>1, <2>3
  <2>6. \A k \in 1 .. Len(r) - 1 : r[Len(r) - k] = s[Len(s) - (k - 1)]
    BY <2>4, <2>5
  <2>7. Len(s) <= Len(r) /\ Len(r) \in 1 .. Longest /\ ~ (Len(s) < Longest)
    BY <1>1, <2>5
  <2> QED BY <2>2, <2>5, <2>6, <2>7
<1>2. CASE Len(s) # Longest
  <2>1. Remember(s, p) = Append(s, p)
    BY <1>2 DEF Remember
  <2>2. /\ Append(s, p) \in Seq(Phases) /\ Len(Append(s, p)) = Len(s) + 1
        /\ Append(s, p)[Len(s) + 1] = p
        /\ \A i \in 1 .. Len(s) : Append(s, p)[i] = s[i]
    OBVIOUS
  <2> QED BY <1>2, <2>1, <2>2
<1> QED BY <1>1, <1>2

LEMMA NoJobFacts ==
  /\ NoJob \in JobDir /\ NoJob.id = 0 /\ NoJob.args = "none" /\ NoJob.attempts = 0
  /\ ~ NoJob.started /\ ~ NoJob.finished
BY DEF NoJob, JobDir

LEMMA DeadFacts ==
  /\ Dead \in WaiterRec /\ Dead.pc = "dead" /\ Dead.mine.id = 0 /\ Len(Dead.seen) = 0
  /\ Dead.stable = 0
BY NoJobFacts, Bounds DEF Dead, WaiterRec, Steps

LEMMA DeadIsGood == made \in Nat => GoodWaiter(Dead)
BY DeadFacts, Bounds DEF GoodWaiter, Counts

\* Waiters that are good stay good while jobs are only ever added.
LEMMA WaitersStay ==
  ASSUME WaitersSound, UNCHANGED waiter, made \in Nat, made' \in Nat, made <= made'
  PROVE  WaitersSound'
<1>1. ASSUME NEW w \in Waiters PROVE GoodWaiter(waiter[w])'
  <2>1. /\ waiter[w] \in WaiterRec /\ (waiter[w].pc = "dead" => waiter[w] = Dead)
        /\ waiter[w].mine.id <= made /\ Len(waiter[w].seen) <= Longest /\ Counts(waiter[w])
    BY DEF WaitersSound, GoodWaiter
  <2>2. waiter[w].mine.id \in Nat
    BY <2>1 DEF WaiterRec, JobDir
  <2>3. waiter'[w] = waiter[w] /\ waiter[w].mine.id <= made'
    BY <2>1, <2>2
  <2> QED BY <2>1, <2>3 DEF GoodWaiter, Counts
<1> QED BY <1>1 DEF WaitersSound

\* One waiter changes, to one that is good.
Becomes(w, r) == waiter' = [waiter EXCEPT ![w] = r]

LEMMA WaiterBecomes ==
  ASSUME WaitersSound, NEW w \in Waiters, NEW r, GoodWaiter(r), Becomes(w, r),
         UNCHANGED made
  PROVE  WaitersSound'
BY DEF WaitersSound, GoodWaiter, Becomes, Counts

LEMMA InitSound == Init => Sound
<1> SUFFICES ASSUME Init PROVE Sound
  OBVIOUS
<1>1. /\ phase = "driving" /\ cuts = 0 /\ booting = FALSE /\ job = NoJob /\ status = "none"
      /\ pidfile = NoWaiter /\ runner = FALSE /\ cmd = Idle /\ made = 0 /\ accepted = 0
      /\ trampled = FALSE /\ orphans = {}
  BY DEF Init
<1>2. JobSound
  BY <1>1, NoJobFacts DEF JobSound
<1>3. FileTypes
  BY <1>1, NoJobFacts DEF FileTypes, Statuses
<1>4. WorldTypes
  <2>1. cuts \in 0 .. MaxCuts /\ phase \in Phases
    BY <1>1, QueueAssumption DEF Phases
  <2>2. booting \in BOOLEAN /\ trampled \in BOOLEAN /\ orphans \subseteq 0 .. MaxJobs
    BY <1>1
  <2> QED BY <2>1, <2>2 DEF WorldTypes
<1>5. CmdSound
  BY <1>1, QueueAssumption DEF CmdSound, CmdRec, Idle
<1>6. WaitersSound
  BY <1>1, DeadFacts, DeadIsGood DEF Init, WaitersSound
<1> QED BY <1>2, <1>3, <1>4, <1>5, <1>6 DEF Sound

-----------------------------------------------------------------------------
(* What holds always: the steps of the commands. *)

\* Steps that leave the directory's job, the waiters and the number of jobs alone.
LEMMA QuietSound ==
  ASSUME Sound,
         \/ \E k \in {"queue", "cancel", "resume"}, u \in BOOLEAN : Command(k, u)
         \/ Boot \/ Check \/ Accept \/ StartWaiter \/ SpawnFails
         \/ \E p \in Phases : PhaseChanges(p)
         \/ \E n \in orphans : OrphanEnds(n)
         \/ UNCHANGED vars
  PROVE  Sound'
<1> USE QueueAssumption DEF fileVars, waiterVars, worldVars, cmdVars, Idle, At, CmdGoes,
        CmdEnds
<1>1. UNCHANGED <<job, pidfile, runner, waiter, cuts, made, trampled>>
  BY DEF Command, Boot, Check, Accept, StartWaiter, SpawnFails, PhaseChanges, OrphanEnds, vars
<1>2. JobSound' /\ made \in Nat /\ made' = made
  BY <1>1 DEF Sound, JobSound, CmdSound
<1>3. WaitersSound'
  BY <1>1, <1>2, WaitersStay DEF Sound
<1>4. FileTypes'
  <2>1. status' = status \/ status' = "waiting"
    BY DEF Command, Boot, Check, Accept, StartWaiter, SpawnFails, PhaseChanges, OrphanEnds, vars
  <2> QED BY <1>1, <2>1 DEF Sound, FileTypes, Statuses
<1>5. WorldTypes'
  <2>1. ASSUME NEW p \in Phases, PhaseChanges(p)
        PROVE  phase' = p /\ UNCHANGED <<booting, orphans>>
    BY <2>1 DEF PhaseChanges
  <2>2. ASSUME NEW n \in orphans, OrphanEnds(n)
        PROVE  orphans' \subseteq orphans /\ UNCHANGED <<booting, phase>>
    BY <2>2 DEF OrphanEnds
  <2>3. CASE \/ \E k \in {"queue", "cancel", "resume"}, u \in BOOLEAN : Command(k, u)
             \/ Boot \/ Check \/ Accept \/ StartWaiter \/ SpawnFails \/ UNCHANGED vars
    <3>1. UNCHANGED <<phase, orphans>> /\ booting' \in {booting, FALSE}
      BY <2>3 DEF Command, Boot, Check, Accept, StartWaiter, SpawnFails, vars
    <3> QED BY <1>1, <3>1 DEF Sound, WorldTypes
  <2> QED BY <1>1, <2>1, <2>2, <2>3 DEF Sound, WorldTypes
<1>6. CmdSound'
  <2> USE <1>1 DEF Sound, CmdSound, CmdRec
  <2>1. ASSUME NEW k \in {"queue", "cancel", "resume"}, NEW u \in BOOLEAN, Command(k, u)
        PROVE  CmdSound'
    BY <2>1 DEF Command
  <2>2. CASE Boot
    BY <2>2 DEF Boot
  <2>3. CASE Check
    <3>1. CASE cmd' = Idle
      BY <2>3, <3>1 DEF Check
    <3>2. CASE cmd' = [cmd EXCEPT !.at = "stop"]
      BY <2>3, <3>2 DEF Check
    <3> QED BY <2>3, <3>1, <3>2 DEF Check
  <2>4. CASE Accept
    BY <2>4 DEF Accept
  <2>5. CASE StartWaiter \/ SpawnFails
    <3>1. CASE cmd' = Idle
      BY <2>5, <3>1 DEF StartWaiter, SpawnFails
    <3>2. CASE cmd' = [cmd EXCEPT !.at = "spawn"] /\ cmd.at = "start"
      BY <2>5, <3>2 DEF StartWaiter, SpawnFails
    <3> QED BY <2>5, <3>1, <3>2 DEF StartWaiter, SpawnFails
  <2>6. CASE UNCHANGED <<cmd, accepted, booting>>
    BY <2>6
  <2> QED BY <2>1, <2>2, <2>3, <2>4, <2>5, <2>6 DEF PhaseChanges, OrphanEnds, vars
<1> QED BY <1>2, <1>3, <1>4, <1>5, <1>6 DEF Sound

LEMMA StopWaiterSound ==
  ASSUME Sound, StopWaiter
  PROVE  Sound'
<1> USE QueueAssumption DEF Sound, fileVars, waiterVars, worldVars, cmdVars, At, CmdGoes
<1>1. UNCHANGED <<fileVars, worldVars, made, accepted>> /\ cmd.at = "stop" /\ made \in Nat
  BY DEF StopWaiter, CmdSound
<1>2. FileTypes' /\ JobSound'
  BY <1>1 DEF FileTypes, JobSound
<1>3. CmdSound'
  BY <1>1 DEF StopWaiter, CmdSound, CmdRec
<1>4. WaitersSound' /\ orphans' \subseteq 0 .. MaxJobs
  <2>1. CASE WaiterAlive
    <3>1. pidfile \in Waiters /\ Becomes(pidfile, Dead)
      BY <2>1 DEF StopWaiter, WaiterAlive, FileTypes, Becomes
    <3>2. WaitersSound'
      BY <1>1, <3>1, DeadIsGood, WaiterBecomes
    <3>3. waiter[pidfile].mine.id \in 0 .. MaxJobs
      BY <3>1 DEF WaitersSound, GoodWaiter, WaiterRec, JobDir, CmdSound
    <3> QED BY <2>1, <3>2, <3>3 DEF StopWaiter, WorldTypes
  <2>2. CASE ~ WaiterAlive
    <3>1. UNCHANGED <<waiter, orphans>>
      BY <2>2 DEF StopWaiter
    <3> QED BY <1>1, <3>1, WaitersStay DEF WorldTypes
  <2> QED BY <2>1, <2>2
<1>5. WorldTypes'
  BY <1>1, <1>4 DEF WorldTypes
<1> QED BY <1>2, <1>3, <1>4, <1>5

\* ClearJob, CopyRunner, WriteArgs and DropJob write the directory.
LEMMA DirectorySound ==
  ASSUME Sound, ClearJob \/ CopyRunner \/ WriteArgs \/ DropJob
  PROVE  Sound'
<1> USE QueueAssumption DEF Sound, fileVars, waiterVars, worldVars, cmdVars, At, CmdGoes,
        CmdEnds, Idle
<1>1. /\ UNCHANGED <<waiter, orphans, worldVars, accepted>> /\ made \in Nat /\ made' \in Nat
      /\ made <= made' /\ made' <= MaxJobs
  <2>1. made \in 0 .. MaxJobs
    BY DEF CmdSound
  <2>2. CASE ClearJob
    <3>1. made < MaxJobs /\ made' = made + 1
      BY <2>2 DEF ClearJob, CmdSound
    <3> QED BY <2>1, <2>2, <3>1 DEF ClearJob
  <2>3. CASE CopyRunner \/ WriteArgs \/ DropJob
    <3>1. UNCHANGED <<waiter, orphans, worldVars, accepted, made>>
      BY <2>3 DEF CopyRunner, WriteArgs, DropJob
    <3> QED BY ONLY <2>1, <3>1, QueueAssumption
  <2> QED BY <2>2, <2>3
<1>2. WorldTypes' /\ WaitersSound'
  BY <1>1, WaitersStay DEF WorldTypes
<1>3. job' \in JobDir /\ JobSound'
  <2>1. CASE ClearJob
    <3>1. /\ job' = [id |-> made + 1, uninstall |-> cmd.uninstall, args |-> "none",
                      attempts |-> 0, started |-> FALSE, finished |-> FALSE]
          /\ made' = made + 1
      BY <2>1 DEF ClearJob, NoJob
    <3>2. cmd.uninstall \in BOOLEAN
      BY DEF CmdSound, CmdRec
    <3> QED BY <1>1, <3>1, <3>2 DEF JobDir, JobSound
  <2>2. CASE WriteArgs
    <3>1. made' = made /\ job \in JobDir
      BY <2>2 DEF WriteArgs, FileTypes
    <3>2. CASE job' = job
      BY <3>1, <3>2 DEF JobSound
    <3>3. CASE job.id # 0 /\ job' = [job EXCEPT !.args = IF @ = "none" THEN "partial" ELSE "whole"]
      BY <3>1, <3>3 DEF JobSound, JobDir
    <3> QED BY <2>2, <3>2, <3>3 DEF WriteArgs, JobDirThere
  <2>3. CASE DropJob
    BY <1>1, <2>3, NoJobFacts DEF DropJob, JobSound
  <2>4. CASE CopyRunner
    BY <2>4 DEF CopyRunner, FileTypes, JobSound
  <2> QED BY <2>1, <2>2, <2>3, <2>4
<1>4. /\ status' \in Statuses /\ pidfile' \in Waiters \cup {NoWaiter} /\ runner' \in BOOLEAN
  BY DEF ClearJob, CopyRunner, WriteArgs, DropJob, FileTypes, Statuses
<1>5. CmdSound'
  <2> USE <1>1 DEF CmdSound, CmdRec
  <2>1. CASE ClearJob
    BY <2>1 DEF ClearJob
  <2>2. CASE WriteArgs
    BY <2>2 DEF WriteArgs
  <2>3. CASE DropJob
    BY <2>3 DEF DropJob
  <2>4. CASE CopyRunner
    <3>1. CASE cmd' = Idle
      BY <2>4, <3>1 DEF CopyRunner
    <3>2. CASE cmd' = [cmd EXCEPT !.at = "args"]
      BY <2>4, <3>2 DEF CopyRunner
    <3> QED BY <2>4, <3>1, <3>2 DEF CopyRunner
  <2> QED BY <2>1, <2>2, <2>3, <2>4
<1> QED BY <1>2, <1>3, <1>4, <1>5 DEF FileTypes

LEMMA PowerCutSound ==
  ASSUME Sound, PowerCut
  PROVE  Sound'
<1> USE QueueAssumption DEF Sound, fileVars, PowerCut, Idle
<1>1. FileTypes' /\ WorldTypes' /\ JobSound'
  BY DEF FileTypes, WorldTypes, JobSound
<1>2. CmdSound'
  BY DEF CmdSound, CmdRec
<1>3. made \in Nat /\ made' = made
  BY DEF CmdSound
<1>4. \A w \in Waiters : waiter'[w] = Dead
  OBVIOUS
<1>5. ASSUME NEW w \in Waiters PROVE GoodWaiter(waiter[w])'
  <2>1. GoodWaiter(Dead)
    BY <1>3, DeadIsGood
  <2> QED BY <1>3, <1>4, <2>1 DEF GoodWaiter, Counts
<1>6. WaitersSound'
  BY <1>5, DeadFacts DEF WaitersSound
<1> QED BY <1>1, <1>2, <1>6

LEMMA SpawnSound ==
  ASSUME Sound, NEW w \in Waiters, Spawn(w)
  PROVE  Sound'
<1> USE QueueAssumption DEF Sound, worldVars, cmdVars, At, CmdEnds, Idle
<1> DEFINE r == [Dead EXCEPT !.pc = "poll"]
<1>1. /\ UNCHANGED <<job, status, runner, orphans, worldVars, made, accepted>> /\ pidfile' = w
      /\ made \in Nat
  BY DEF Spawn, CmdSound
<1>2. Becomes(w, r)
  BY DEF Spawn, Becomes, WaitersSound
<1>3. GoodWaiter(r)
  <2>1. /\ r \in WaiterRec /\ r.pc = "poll" /\ r.stable = 0 /\ r.mine.id = 0
        /\ Len(r.seen) = 0
    BY DeadFacts DEF WaiterRec, Steps
  <2> HIDE DEF r
  <2> QED BY <1>1, <2>1, Bounds DEF GoodWaiter, Counts
<1> HIDE DEF r
<1>4. WaitersSound'
  BY <1>1, <1>2, <1>3, WaiterBecomes
<1>5. CmdSound'
  BY <1>1 DEF Spawn, CmdSound, CmdRec
<1>6. FileTypes' /\ WorldTypes' /\ JobSound'
  BY <1>1 DEF FileTypes, WorldTypes, JobSound
<1> QED BY <1>4, <1>5, <1>6

-----------------------------------------------------------------------------
(* What holds always: the steps of a waiter. *)

LEMMA WaiterSound ==
  ASSUME Sound, NEW w \in Waiters, NEW r, Becomes(w, r), GoodWaiter(r),
         job' \in JobDir, JobSound', status' \in Statuses,
         pidfile' \in Waiters \cup {NoWaiter}, runner' \in BOOLEAN, trampled' \in BOOLEAN,
         UNCHANGED <<orphans, phase, cuts, booting, cmdVars>>
  PROVE  Sound'
<1> USE DEF Sound, cmdVars
<1>1. WaitersSound'
  BY WaiterBecomes
<1>2. FileTypes' /\ WorldTypes' /\ CmdSound'
  BY DEF FileTypes, WorldTypes, CmdSound
<1> QED BY <1>1, <1>2

\* What is known of a waiter, and of the job.
LEMMA AtWork ==
  ASSUME Sound, NEW w \in Waiters
  PROVE  /\ waiter \in [Waiters -> WaiterRec] /\ waiter[w] \in WaiterRec
         /\ (waiter[w].pc = "dead" => waiter[w] = Dead) /\ waiter[w].mine.id <= made
         /\ Len(waiter[w].seen) <= Longest /\ Counts(waiter[w])
         /\ job \in JobDir /\ job.id <= made /\ (job.id = 0 => job = NoJob)
         /\ made \in Nat /\ cuts \in Nat /\ status \in Statuses /\ trampled \in BOOLEAN
         /\ pidfile \in Waiters \cup {NoWaiter} /\ runner \in BOOLEAN
BY DEF Sound, WaitersSound, GoodWaiter, JobSound, CmdSound, FileTypes, WorldTypes

\* After a poll, the polls a waiter counts are the last ones it remembers.
LEMMA PollCounts ==
  ASSUME Sound, NEW w \in Waiters, waiter[w].pc = "poll"
  PROVE  LET old == waiter[w]
             n == StableAfter(w)
             polls == Remember(old.seen, phase)
         IN  /\ old \in WaiterRec /\ phase \in Phases
             /\ polls \in Seq(Phases) /\ Len(polls) <= Longest
             /\ n \in 0 .. Longest /\ n <= Len(polls)
             /\ phase = "driving" => n = 0
             /\ phase # "driving" => n >= 1 /\ n <= Needed(phase)
             /\ \A k \in 0 .. n - 1 : polls[Len(polls) - k] = phase
<1> DEFINE old == waiter[w]
           n == StableAfter(w)
           polls == Remember(old.seen, phase)
<1>1. waiter[w].pc = "poll"
  OBVIOUS
<1>3. /\ old \in WaiterRec /\ phase \in Phases /\ Len(old.seen) <= Longest
      /\ old.seen \in Seq(Phases) /\ old.stable \in Nat
  BY <1>1, AtWork DEF WaiterRec, Sound, WorldTypes
<1>4. /\ polls \in Seq(Phases) /\ Len(polls) \in 1 .. Longest /\ Len(old.seen) <= Len(polls)
      /\ polls[Len(polls)] = phase
      /\ Len(old.seen) < Longest => Len(polls) = Len(old.seen) + 1
      /\ \A k \in 1 .. Len(polls) - 1 : polls[Len(polls) - k] = old.seen[Len(old.seen) - (k - 1)]
  BY <1>3, RememberFacts
<1>5. /\ n \in 0 .. Longest /\ n <= Len(polls)
      /\ phase = "driving" => n = 0
      /\ phase # "driving" => n >= 1 /\ n <= Needed(phase)
      /\ \A k \in 0 .. n - 1 : polls[Len(polls) - k] = phase
  <2> HIDE DEF polls, old
  <2>1. Needed(phase) \in 1 .. Longest /\ Longest \in Nat
    BY <1>3, Bounds
  <2>2. CASE phase = "driving"
    BY <1>4, <2>1, <2>2 DEF StableAfter
  <2>3. CASE phase # "driving" /\ (phase # old.prev_phase \/ old.stable = 0)
    <3>1. n = 1
      BY <2>3, <1>3 DEF StableAfter, old
    <3> QED BY <1>4, <2>1, <2>3, <3>1
  <2>4. CASE phase # "driving" /\ phase = old.prev_phase /\ old.stable >= 1
    <3>1. n = old.stable + 1
      BY <2>4 DEF StableAfter, old
    <3>2. /\ old.stable < Needed(phase) /\ old.stable <= Len(old.seen)
          /\ \A k \in 0 .. old.stable - 1 : old.seen[Len(old.seen) - k] = phase
      BY <1>1, <2>4, AtWork DEF Counts, old
    <3>3. n <= Len(polls) /\ n <= Needed(phase)
      BY <1>3, <1>4, <2>1, <3>1, <3>2
    <3>4. ASSUME NEW k \in 1 .. n - 1 PROVE polls[Len(polls) - k] = phase
      <4>1. k \in 1 .. Len(polls) - 1 /\ k - 1 \in 0 .. old.stable - 1
        BY <1>3, <1>4, <3>1, <3>3
      <4> QED BY <1>4, <3>2, <4>1
    <3> QED BY <1>3, <1>4, <2>1, <2>4, <3>1, <3>3, <3>4
  <2> QED BY <1>3, <2>2, <2>3, <2>4
<1> QED BY <1>3, <1>4, <1>5

LEMMA PollSound ==
  ASSUME Sound, NEW w \in Waiters, Poll(w)
  PROVE  Sound'
<1> USE DEF In, fileVars, worldVars
<1> DEFINE old == waiter[w]
           n == StableAfter(w)
           polls == Remember(old.seen, phase)
           rests == phase # "driving" /\ n >= Needed(phase)
           r == [old EXCEPT !.stable = n, !.prev_phase = phase, !.seen = polls,
                            !.pc = IF rests THEN "launch" ELSE "poll"]
<1>1. waiter[w].pc = "poll"
  BY DEF Poll
<1>2. Becomes(w, r)
  BY DEF Poll, Becomes
<1>3. old \in WaiterRec /\ phase \in Phases
  BY <1>1, PollCounts
<1>4. polls \in Seq(Phases) /\ Len(polls) <= Longest
  BY <1>1, PollCounts
<1>5. /\ n \in 0 .. Longest /\ n <= Len(polls)
      /\ phase = "driving" => n = 0
      /\ phase # "driving" => n >= 1 /\ n <= Needed(phase)
      /\ \A k \in 0 .. n - 1 : polls[Len(polls) - k] = phase
  BY <1>1, PollCounts
<1>6. old.mine.id <= made
  BY AtWork
<1> HIDE DEF n, polls, old
<1>7. r \in WaiterRec
  BY <1>3, <1>4, <1>5 DEF WaiterRec, Steps
<1>8. /\ r.stable = n /\ r.prev_phase = phase /\ r.seen = polls /\ r.mine = old.mine
      /\ r.pc = IF rests THEN "launch" ELSE "poll"
  BY <1>3 DEF WaiterRec
<1> HIDE DEF r
<1>9. Counts(r)
  BY <1>3, <1>5, <1>8, Bounds DEF Phases, Counts
<1>10. GoodWaiter(r)
  BY <1>4, <1>6, <1>7, <1>8, <1>9 DEF GoodWaiter
<1>11. /\ UNCHANGED <<job, status, pidfile, runner, made, trampled>>
       /\ UNCHANGED <<orphans, phase, cuts, booting, cmdVars>>
  BY DEF Poll, cmdVars
<1>12. JobSound'
  BY <1>11, AtWork DEF JobSound
<1> QED BY <1>2, <1>10, <1>11, <1>12, AtWork, WaiterSound

\* The other steps of a waiter that works on: only the fields they name change.
LEMMA WorkSound ==
  ASSUME Sound, NEW w \in Waiters,
         \/ Launch(w) \/ RunJob(w)
         \/ \E e \in {"ok", "driving", "failed"} : JobEnds(w, e)
         \/ WaitAgain(w) \/ CloseJob(w) \/ RemoveJob(w)
  PROVE  Sound'
<1> USE DEF In, WaiterGoes, fileVars, worldVars
<1> DEFINE old == waiter[w]
<1>1. /\ waiter \in [Waiters -> WaiterRec] /\ old \in WaiterRec /\ old.mine.id <= made
      /\ Len(old.seen) <= Longest
      /\ job \in JobDir /\ job.id <= made /\ (job.id = 0 => job = NoJob)
      /\ made \in Nat /\ status \in Statuses /\ trampled \in BOOLEAN
      /\ pidfile \in Waiters \cup {NoWaiter} /\ runner \in BOOLEAN
  BY AtWork
<1>2. UNCHANGED <<pidfile, runner, trampled>>
      /\ UNCHANGED <<orphans, phase, cuts, booting, cmdVars>> /\ made' = made
  BY DEF Launch, RunJob, JobEnds, WaitAgain, CloseJob, RemoveJob, cmdVars
<1>3. status' \in Statuses
  BY <1>1 DEF Launch, RunJob, JobEnds, WaitAgain, CloseJob, RemoveJob, Statuses
<1>4. ASSUME NEW r, Becomes(w, r), GoodWaiter(r), job' \in JobDir, JobSound'
      PROVE  Sound'
  BY <1>1, <1>2, <1>3, <1>4, WaiterSound
<1>5. ASSUME NEW r \in WaiterRec, r.pc # "dead", r.mine.id <= made, Len(r.seen) <= Longest,
             r.pc = "poll" => r.stable = 0
      PROVE  GoodWaiter(r)
  BY <1>5 DEF GoodWaiter, Counts
<1>6. JobSound' <=> job'.id <= made /\ (job'.id = 0 => job' = NoJob)
  BY <1>2 DEF JobSound
<1>7. CASE Launch(w)
  <2> DEFINE r == [old EXCEPT !.mine = IF JobDirThere THEN job' ELSE [NoJob EXCEPT !.attempts = 1],
                              !.pc = "launched"]
  <2>1. Becomes(w, r) /\ old.pc = "launch"
    BY <1>7 DEF Launch, Becomes
  <2>2. job' \in JobDir /\ JobSound'
    <3>1. CASE JobDirThere
      <4>1. job' = [id |-> job.id, uninstall |-> job.uninstall, args |-> job.args,
                    attempts |-> job.attempts + 1, started |-> TRUE, finished |-> job.finished]
        BY <1>1, <1>7, <3>1 DEF Launch, JobDir
      <4>2. job.attempts + 1 \in Nat
        BY <1>1 DEF JobDir
      <4> QED BY <1>1, <1>6, <3>1, <4>1, <4>2 DEF JobDir, JobDirThere
    <3>2. CASE ~ JobDirThere
      BY <1>1, <1>6, <1>7, <3>2 DEF Launch
    <3> QED BY <3>1, <3>2
  <2>3. [NoJob EXCEPT !.attempts = 1] \in JobDir /\ [NoJob EXCEPT !.attempts = 1].id = 0
    BY DEF NoJob, JobDir
  <2>4. GoodWaiter(r)
    <3> DEFINE m == IF JobDirThere THEN job' ELSE [NoJob EXCEPT !.attempts = 1]
    <3>1. m \in JobDir /\ m.id <= made
      BY <1>1, <1>6, <2>2, <2>3
    <3> HIDE DEF m
    <3>2. r = [old EXCEPT !.mine = m, !.pc = "launched"]
      BY DEF m
    <3>3. r \in WaiterRec /\ r.pc = "launched" /\ r.seen = old.seen /\ r.mine = m
      BY <1>1, <3>1, <3>2 DEF WaiterRec, Steps
    <3> HIDE DEF r
    <3> QED BY <1>1, <1>5, <3>1, <3>3
  <2> HIDE DEF r
  <2> QED BY <1>4, <2>1, <2>2, <2>4
<1>8. CASE RunJob(w)
  <2> DEFINE r == [old EXCEPT !.seen = <<>>, !.pc = "running"]
  <2>1. Becomes(w, r) /\ job' = job
    BY <1>8 DEF RunJob, Becomes
  <2>2. GoodWaiter(r)
    <3>1. <<>> \in Seq(Phases) /\ Len(<<>>) <= Longest
      BY Bounds
    <3>2. r \in WaiterRec /\ r.pc = "running" /\ r.mine = old.mine /\ r.seen = <<>>
      BY <1>1, <3>1 DEF WaiterRec, Steps
    <3> HIDE DEF r
    <3> QED BY <1>1, <1>5, <3>1, <3>2
  <2> HIDE DEF r
  <2> QED BY <1>1, <1>4, <1>6, <2>1, <2>2
<1>9. ASSUME NEW e \in {"ok", "driving", "failed"}, JobEnds(w, e)
      PROVE  Sound'
  <2> DEFINE r == [old EXCEPT !.ec = e, !.pc = "ended"]
  <2>1. Becomes(w, r) /\ job' = IF JobDirThere THEN [job EXCEPT !.finished = TRUE] ELSE job
    BY <1>9 DEF JobEnds, Becomes
  <2>2. GoodWaiter(r)
    <3>1. r \in WaiterRec /\ r.pc = "ended" /\ r.mine = old.mine /\ r.seen = old.seen
      BY <1>1 DEF WaiterRec, Steps
    <3> HIDE DEF r
    <3> QED BY <1>1, <1>5, <3>1
  <2>3. job' \in JobDir /\ JobSound'
    <3>1. CASE JobDirThere
      BY <1>1, <1>6, <2>1, <3>1 DEF JobDir, JobDirThere
    <3>2. CASE ~ JobDirThere
      BY <1>1, <1>6, <2>1, <3>2
    <3> QED BY <3>1, <3>2
  <2> HIDE DEF r
  <2> QED BY <1>4, <2>1, <2>2, <2>3
<1>10. CASE WaitAgain(w)
  <2> DEFINE r == [old EXCEPT !.stable = 0, !.pc = "poll"]
  <2>1. Becomes(w, r) /\ job' = [job EXCEPT !.started = FALSE, !.finished = FALSE]
    BY <1>10 DEF WaitAgain, Becomes
  <2>2. GoodWaiter(r)
    <3>1. 0 \in 0 .. Longest
      BY Bounds
    <3>2. r \in WaiterRec /\ r.pc = "poll" /\ r.mine = old.mine /\ r.seen = old.seen
          /\ r.stable = 0
      BY <1>1, <3>1 DEF WaiterRec, Steps
    <3> HIDE DEF r
    <3> QED BY <1>1, <1>5, <3>2
  <2>3. job' \in JobDir /\ JobSound'
    <3>1. job' \in JobDir /\ job'.id = job.id
      BY <1>1, <2>1 DEF JobDir
    <3>2. job.id = 0 => job' = NoJob
      <4> SUFFICES ASSUME job.id = 0 PROVE job' = NoJob
        OBVIOUS
      <4>1. job' = [id |-> job.id, uninstall |-> job.uninstall, args |-> job.args,
                    attempts |-> job.attempts, started |-> FALSE, finished |-> FALSE]
        BY <1>1, <2>1 DEF JobDir
      <4>2. /\ job.id = 0 /\ job.uninstall = FALSE /\ job.args = "none"
            /\ job.attempts = 0
        BY <1>1 DEF NoJob
      <4> QED BY <4>1, <4>2 DEF NoJob
    <3> QED BY <1>1, <1>6, <3>1, <3>2
  <2> HIDE DEF r
  <2> QED BY <1>4, <2>1, <2>2, <2>3
<1>11. CASE CloseJob(w) \/ RemoveJob(w)
  <2> DEFINE r == [old EXCEPT !.pc = IF CloseJob(w) THEN "remove" ELSE "leave"]
  <2>1. Becomes(w, r) /\ job' \in {job, NoJob}
    BY <1>11 DEF CloseJob, RemoveJob, Becomes
  <2>2. GoodWaiter(r)
    <3>1. /\ r \in WaiterRec /\ r.pc \in {"remove", "leave"} /\ r.mine = old.mine
          /\ r.seen = old.seen
      BY <1>1 DEF WaiterRec, Steps
    <3> HIDE DEF r
    <3> QED BY <1>1, <1>5, <3>1
  <2> HIDE DEF r
  <2>3. job' \in JobDir /\ JobSound'
    BY <1>1, <1>6, <2>1, NoJobFacts
  <2> QED BY <1>4, <2>1, <2>2, <2>3
<1> QED BY <1>7, <1>8, <1>9, <1>10, <1>11

\* The ways out.
LEMMA WayOutSound ==
  ASSUME Sound, NEW w \in Waiters, PollEnds(w) \/ Leave(w) \/ Wipe(w)
  PROVE  Sound'
<1> USE DEF In
<1>1. /\ job \in JobDir /\ job.id <= made /\ (job.id = 0 => job = NoJob) /\ made \in Nat
      /\ status \in Statuses /\ trampled \in BOOLEAN
      /\ pidfile \in Waiters \cup {NoWaiter} /\ runner \in BOOLEAN
  BY AtWork
<1>2. /\ UNCHANGED <<orphans, phase, cuts, booting, cmdVars>> /\ made' = made
      /\ job' \in {job, NoJob} /\ status' \in {status, "none"}
      /\ pidfile' \in {pidfile, NoWaiter} /\ runner' \in BOOLEAN /\ trampled' \in BOOLEAN
  <2>1. CASE PollEnds(w) \/ Leave(w)
    BY <1>1, <2>1 DEF PollEnds, Leave, worldVars, cmdVars
  <2>2. CASE Wipe(w)
    BY <1>1, <2>2 DEF Wipe, cmdVars
  <2> QED BY <2>1, <2>2
<1>3. job' \in JobDir /\ JobSound'
  BY <1>1, <1>2, NoJobFacts DEF JobSound
<1>4. \E r \in {Dead, [Dead EXCEPT !.pc = "wipe"]} : Becomes(w, r)
  BY DEF PollEnds, Leave, Wipe, Becomes
<1>5. GoodWaiter(Dead)
  BY <1>1, DeadIsGood
<1>6. GoodWaiter([Dead EXCEPT !.pc = "wipe"])
  <2> DEFINE r == [Dead EXCEPT !.pc = "wipe"]
  <2>1. r \in WaiterRec /\ r.pc = "wipe" /\ r.mine.id = 0 /\ Len(r.seen) = 0
    BY DeadFacts DEF WaiterRec, Steps
  <2> HIDE DEF r
  <2> QED BY <1>1, <2>1, Bounds DEF GoodWaiter, Counts, r
<1>7. status' \in Statuses /\ pidfile' \in Waiters \cup {NoWaiter}
  BY <1>1, <1>2 DEF Statuses
<1>8. PICK r \in {Dead, [Dead EXCEPT !.pc = "wipe"]} : Becomes(w, r)
  BY <1>4
<1>9. GoodWaiter(r)
  BY <1>5, <1>6, <1>8
<1> QED BY <1>2, <1>3, <1>7, <1>8, <1>9, WaiterSound

LEMMA SoundStep == Sound /\ [Next]_vars => Sound'
<1> SUFFICES ASSUME Sound, [Next]_vars
             PROVE  Sound'
  OBVIOUS
<1>1. CASE CommandStep
  BY <1>1, QuietSound, StopWaiterSound, DirectorySound, SpawnSound DEF CommandStep
<1>2. ASSUME NEW w \in Waiters, Waiter(w)
      PROVE  Sound'
  BY <1>2, PollSound, WorkSound, WayOutSound DEF Waiter
<1>3. CASE PowerCut
  BY <1>3, PowerCutSound
<1>4. CASE \/ \E u \in BOOLEAN : Command("queue", u)
           \/ Command("cancel", FALSE) \/ Command("resume", FALSE)
           \/ Boot
           \/ \E p \in Phases : PhaseChanges(p)
           \/ \E n \in orphans : OrphanEnds(n)
           \/ UNCHANGED vars
  BY <1>4, QuietSound
<1> QED BY <1>1, <1>2, <1>3, <1>4 DEF Next

LEMMA SoundAlways == Spec => []Sound
BY InitSound, SoundStep, PTL DEF Spec

-----------------------------------------------------------------------------
(* What is agreed until an uninstall tramples on a job. *)

\* A waiter at work is the only one, and no command counts on there being none.
LEMMA OnlyWaiter ==
  ASSUME Sound, Agreed, NEW w \in Waiters, waiter[w].pc \notin Gone
  PROVE  /\ pidfile = w /\ cmd.at \notin Alone
         /\ \A v \in Waiters : v # w => waiter[v].pc \in Gone
BY DEF Agreed, AliveInv, CmdInv

LEMMA InitAgreed == Init => Agreed
<1> SUFFICES ASSUME Init PROVE Agreed
  OBVIOUS
<1>1. /\ \A w \in Waiters : waiter[w] = Dead
      /\ job = NoJob /\ cuts = 0 /\ cmd.at = "idle"
  BY DEF Init, Idle
<1> USE <1>1, DeadFacts, NoJobFacts
<1>2. CmdInv /\ AliveInv /\ JobInv
  BY DEF CmdInv, AliveInv, JobInv, Alone, Gone, HasJob
<1>3. AttemptInv
  BY QueueAssumption DEF AttemptInv
<1>4. KeeperInv
  BY DEF KeeperInv
<1> QED BY <1>2, <1>3, <1>4 DEF Agreed

\* Steps that leave the job and its waiters alone.
LEMMA QuietAgreed ==
  ASSUME Sound, Agreed,
         \/ \E k \in {"queue", "cancel", "resume"}, u \in BOOLEAN : Command(k, u)
         \/ Boot \/ Check \/ Accept \/ StartWaiter \/ SpawnFails
         \/ \E p \in Phases : PhaseChanges(p)
         \/ \E n \in orphans : OrphanEnds(n)
         \/ UNCHANGED vars
  PROVE  Agreed'
<1> USE DEF fileVars, waiterVars, worldVars, cmdVars, At, CmdGoes, CmdEnds
<1>1. UNCHANGED <<job, pidfile, runner, waiter, cuts>>
  BY DEF Command, Boot, Check, Accept, StartWaiter, SpawnFails, PhaseChanges, OrphanEnds, vars
<1>2. AliveInv' /\ JobInv'
  BY <1>1 DEF Agreed, AliveInv, JobInv
<1>3. (WaiterAlive' <=> WaiterAlive) /\ Idle.at = "idle" /\ cmd \in CmdRec
      /\ (booting => cmd.at = "idle")
  BY <1>1 DEF WaiterAlive, Sound, CmdSound, Idle
<1>4. ~ WaiterAlive => \A w \in Waiters : waiter[w].pc \in Gone
  <2> SUFFICES ASSUME ~ WaiterAlive, NEW w \in Waiters, waiter[w].pc \notin Gone
               PROVE  FALSE
    OBVIOUS
  <2>1. pidfile = w /\ waiter[w] # Dead
    BY DeadFacts DEF Agreed, AliveInv, Gone
  <2> QED BY <2>1, QueueAssumption DEF WaiterAlive
<1>5. /\ CmdInv'
      /\ cmd'.at \in {"clear", "drop"} <=> cmd.at \in {"clear", "drop"}
      /\ job.args # "none" /\ ~ booting' /\ cmd'.at \in {"idle", "check", "stop"} =>
           WaiterAlive
  <2> DEFINE Goal ==
        /\ CmdInv'
        /\ cmd'.at \in {"clear", "drop"} <=> cmd.at \in {"clear", "drop"}
        /\ job.args # "none" /\ ~ booting' /\ cmd'.at \in {"idle", "check", "stop"} =>
             WaiterAlive
  <2>1. CmdInv /\ KeeperInv
    BY DEF Agreed
  <2>2. ASSUME NEW k \in {"queue", "cancel", "resume"}, NEW u \in BOOLEAN, Command(k, u)
        PROVE  Goal
    <3>1. /\ cmd'.at \in {"start", "check"} /\ cmd.at = "idle" /\ ~ booting
          /\ UNCHANGED booting
      BY <1>3, <2>2 DEF Command
    <3> QED BY <1>1, <2>1, <3>1 DEF CmdInv, KeeperInv, Alone
  <2>3. CASE Boot
    <3>1. /\ cmd'.at = (IF runner THEN "start" ELSE "idle") /\ cmd.at = "idle"
      BY <1>3, <2>3 DEF Boot, Idle
    <3> QED BY <1>1, <2>1, <3>1 DEF CmdInv, KeeperInv, Alone
  <2>4. CASE Check
    <3>1. cmd'.at \in {"idle", "stop"} /\ cmd.at = "check" /\ UNCHANGED booting
      BY <1>3, <2>4 DEF Check, CmdRec
    <3> QED BY <1>1, <2>1, <3>1 DEF CmdInv, KeeperInv, Alone
  <2>5. CASE Accept
    <3>1. cmd'.at = "start" /\ cmd.at = "accept"
      BY <1>3, <2>5 DEF Accept, CmdRec
    <3> QED BY <1>1, <2>1, <3>1 DEF CmdInv, KeeperInv, Alone
  <2>6. CASE StartWaiter
    <3>1. CASE WaiterAlive \/ job.args = "none"
      <4>1. cmd'.at = "idle" /\ cmd.at = "start"
        BY <1>3, <2>6, <3>1 DEF StartWaiter
      <4> QED BY <1>1, <2>1, <3>1, <4>1 DEF CmdInv, Alone
    <3>2. CASE ~ WaiterAlive /\ job.args # "none"
      <4>1. cmd'.at = "spawn" /\ cmd.at = "start"
        BY <1>3, <2>6, <3>2 DEF StartWaiter, CmdRec
      <4> QED BY <1>1, <1>4, <3>2, <4>1 DEF CmdInv, Alone
    <3> QED BY <3>1, <3>2
  <2>7. CASE SpawnFails
    BY <2>1, <2>7 DEF SpawnFails, CmdInv
  <2>8. CASE UNCHANGED <<cmd, booting>>
    BY <1>1, <2>1, <2>8 DEF CmdInv, KeeperInv
  <2> QED
    BY <2>2, <2>3, <2>4, <2>5, <2>6, <2>7, <2>8 DEF PhaseChanges, OrphanEnds, vars
<1>6. AttemptInv'
  BY <1>1, <1>5 DEF AttemptInv, Agreed
<1>7. KeeperInv'
  BY <1>1, <1>3, <1>5 DEF KeeperInv, Agreed
<1> QED BY <1>2, <1>5, <1>6, <1>7 DEF Agreed

LEMMA StopWaiterAgreed ==
  ASSUME Sound, Agreed, StopWaiter
  PROVE  Agreed'
<1> USE DEF fileVars, waiterVars, worldVars, At, CmdGoes
<1>1. /\ UNCHANGED <<job, pidfile, runner, cuts, booting>>
      /\ waiter \in [Waiters -> WaiterRec]
      /\ cmd'.at \in {"clear", "drop"}
  BY DEF StopWaiter, Sound, WaitersSound, CmdSound, CmdRec
<1>2. /\ \A w \in Waiters : waiter'[w] = waiter[w] \/ waiter'[w] = Dead
      /\ \A w \in Waiters : waiter'[w].pc \in Gone
  <2>1. CASE WaiterAlive
    <3>1. pidfile \in Waiters /\ waiter' = [waiter EXCEPT ![pidfile] = Dead]
      BY <2>1 DEF StopWaiter, WaiterAlive, Sound, FileTypes
    <3>2. \A w \in Waiters : w # pidfile => waiter[w].pc \in Gone
      BY DEF Agreed, AliveInv
    <3> QED BY <1>1, <3>1, <3>2, DeadFacts DEF Gone
  <2>2. CASE ~ WaiterAlive
    <3>1. waiter' = waiter
      BY <2>2 DEF StopWaiter
    <3>2. ASSUME NEW w \in Waiters, waiter[w].pc \notin Gone
          PROVE  FALSE
      BY <2>2, <3>2, QueueAssumption, DeadFacts DEF WaiterAlive, Agreed, AliveInv, Gone
    <3> QED BY <3>1, <3>2
  <2> QED BY <2>1, <2>2
<1>3. CmdInv'
  BY <1>1, <1>2 DEF CmdInv
<1>4. AliveInv' /\ JobInv'
  BY <1>1, <1>2, DeadFacts DEF Agreed, AliveInv, JobInv, Gone, HasJob
<1>5. AttemptInv'
  BY <1>1 DEF Agreed, AttemptInv
<1>6. KeeperInv'
  BY <1>1, <1>2 DEF Agreed, KeeperInv, Gone
<1> QED BY <1>3, <1>4, <1>5, <1>6 DEF Agreed

\* ClearJob, CopyRunner, WriteArgs and DropJob write the directory while nobody is at work.
LEMMA DirectoryAgreed ==
  ASSUME Sound, Agreed, ClearJob \/ CopyRunner \/ WriteArgs \/ DropJob
  PROVE  Agreed'
<1> USE DEF fileVars, waiterVars, worldVars, At, CmdGoes, CmdEnds
<1>1. UNCHANGED <<waiter, cuts, booting>> /\ cuts \in Nat
  <2>1. cuts \in Nat
    BY DEF Sound, WorldTypes
  <2>2. UNCHANGED <<waiter, cuts, booting>>
    BY DEF ClearJob, CopyRunner, WriteArgs, DropJob
  <2> QED BY <2>1, <2>2
<1>2. /\ cmd \in CmdRec /\ Idle.at = "idle" /\ job \in JobDir /\ job.id \in Nat
      /\ MaxAttempts \in Nat /\ MaxAttempts >= 1
  BY QueueAssumption DEF Sound, CmdSound, FileTypes, JobDir, Idle
<1>3. \A w \in Waiters : waiter[w].pc \in Gone
  BY DEF ClearJob, CopyRunner, WriteArgs, DropJob, Agreed, CmdInv, Alone
<1>4. JobInv'
  BY <1>1, <1>3 DEF JobInv, Gone, HasJob
<1>5. job.attempts < MaxAttempts + cuts \/ cmd.at \in {"clear", "drop"}
  BY <1>3 DEF Agreed, AttemptInv, Gone, HasJob
<1>6. CASE ClearJob
  <2>1. /\ cmd'.at = "copy" /\ UNCHANGED <<pidfile, runner>>
        /\ job' = [NoJob EXCEPT !.id = made + 1, !.uninstall = cmd.uninstall]
    BY <1>2, <1>6 DEF ClearJob, CmdRec
  <2>2. job'.id = made + 1 /\ job'.args = "none" /\ job'.attempts = 0 /\ made \in Nat
    BY <2>1 DEF NoJob, Sound, CmdSound
  <2>3. CmdInv' /\ AliveInv'
    BY <1>1, <1>3, <2>1, <2>2 DEF Agreed, CmdInv, AliveInv
  <2>4. AttemptInv' /\ KeeperInv'
    BY <1>1, <1>2, <1>3, <2>1, <2>2 DEF AttemptInv, KeeperInv
  <2> QED BY <1>4, <2>3, <2>4 DEF Agreed
<1>7. CASE CopyRunner
  <2>1. cmd.at = "copy" /\ JobDirThere
    BY <1>7 DEF CopyRunner, Agreed, CmdInv, JobDirThere
  <2>2. cmd'.at = "args" /\ UNCHANGED <<job, pidfile>> /\ runner'
    BY <1>2, <1>7, <2>1 DEF CopyRunner, CmdRec
  <2>3. CmdInv' /\ AliveInv'
    BY <1>1, <1>3, <2>1, <2>2 DEF Agreed, CmdInv, AliveInv
  <2>4. AttemptInv' /\ KeeperInv'
    BY <1>1, <1>3, <1>5, <2>1, <2>2 DEF AttemptInv, KeeperInv, Agreed, Gone
  <2> QED BY <1>4, <2>3, <2>4 DEF Agreed
<1>8. CASE WriteArgs
  <2>1. cmd.at = "args" /\ JobDirThere /\ UNCHANGED <<pidfile, runner>>
    BY <1>8 DEF WriteArgs, Agreed, CmdInv, JobDirThere
  <2>2. cmd'.at \in {"args", "accept"}
    BY <1>2, <1>8 DEF WriteArgs, CmdRec
  <2>3. job'.id = job.id /\ job'.attempts = job.attempts
    BY <1>2, <1>8 DEF WriteArgs, JobDir
  <2>4. CmdInv' /\ AliveInv'
    BY <1>1, <1>3, <2>1, <2>2, <2>3 DEF Agreed, CmdInv, AliveInv
  <2>5. AttemptInv'
    BY <1>1, <1>2, <1>5, <2>1, <2>3 DEF AttemptInv, JobDir
  <2>6. runner
    BY <2>1 DEF Agreed, CmdInv
  <2>7. KeeperInv'
    BY <1>1, <1>3, <2>1, <2>2, <2>6 DEF KeeperInv, Gone
  <2> QED BY <1>4, <2>4, <2>5, <2>7 DEF Agreed
<1>9. CASE DropJob
  <2>1. job' = NoJob /\ cmd'.at = "idle" /\ runner' = runner
    BY <1>2, <1>9 DEF DropJob
  <2>2. CmdInv' /\ AliveInv'
    BY <1>1, <1>3, <1>9, <2>1, QueueAssumption
       DEF Agreed, CmdInv, AliveInv, Alone, DropJob
  <2>3. AttemptInv' /\ KeeperInv'
    BY <1>1, <1>2, <1>3, <2>1, NoJobFacts DEF AttemptInv, KeeperInv
  <2> QED BY <1>4, <2>2, <2>3 DEF Agreed
<1> QED BY <1>6, <1>7, <1>8, <1>9

LEMMA SpawnAgreed ==
  ASSUME Sound, Agreed, NEW w \in Waiters, Spawn(w)
  PROVE  Agreed'
<1> USE DEF worldVars, At, CmdEnds
<1>1. /\ UNCHANGED <<job, runner, cuts, booting>> /\ pidfile' = w /\ cmd'.at = "idle"
      /\ waiter \in [Waiters -> WaiterRec] /\ waiter[w] = Dead
      /\ waiter' = [waiter EXCEPT ![w].pc = "poll"]
      /\ cmd.at = "spawn" /\ job.args # "none"
      /\ \A v \in Waiters : waiter[v].pc \in Gone
  BY DEF Spawn, Sound, WaitersSound, Agreed, CmdInv, Alone, Idle
<1>2. /\ waiter'[w].pc = "poll"
      /\ \A v \in Waiters : v # w => waiter'[v] = waiter[v]
  BY <1>1 DEF WaiterRec
<1>3. CmdInv' /\ AliveInv'
  BY <1>1, <1>2 DEF CmdInv, AliveInv, Alone, Gone
<1>4. JobInv'
  BY <1>1, <1>2 DEF JobInv, Gone, HasJob
<1>5. AttemptInv'
  BY <1>1 DEF Agreed, AttemptInv, Gone, HasJob
<1>6. KeeperInv'
  <2>1. WaiterAlive'
    BY <1>1, <1>2, QueueAssumption, DeadFacts DEF WaiterAlive
  <2> QED BY <1>1, <1>2, <2>1 DEF Agreed, KeeperInv, Gone
<1> QED BY <1>3, <1>4, <1>5, <1>6 DEF Agreed

LEMMA PowerCutAgreed ==
  ASSUME Sound, Agreed, PowerCut
  PROVE  Agreed'
<1>1. /\ UNCHANGED <<job, pidfile, runner>> /\ cuts' = cuts + 1 /\ cuts \in Nat /\ booting'
      /\ cmd'.at = "idle" /\ \A w \in Waiters : waiter'[w] = Dead
      /\ job.attempts \in Nat
  BY DEF PowerCut, Sound, WorldTypes, FileTypes, JobDir, fileVars, Idle
<1>2. CmdInv' /\ AliveInv' /\ JobInv'
  BY <1>1, DeadFacts DEF CmdInv, AliveInv, JobInv, Alone, Gone, HasJob
<1>3. AttemptInv'
  BY <1>1, QueueAssumption DEF Agreed, AttemptInv
<1>4. KeeperInv'
  BY <1>1, DeadFacts DEF Agreed, KeeperInv
<1> QED BY <1>2, <1>3, <1>4 DEF Agreed

\* The waiter at work takes a step and stays at work, or ends its job's life.
LEMMA WaiterFrame ==
  ASSUME Sound, Agreed, NEW w \in Waiters, waiter[w].pc \notin Gone,
         waiter'[w].pc \notin Gone, \A v \in Waiters : v # w => waiter'[v] = waiter[v],
         UNCHANGED <<pidfile, runner, cuts, booting, cmd>>,
         waiter'[w].pc \in HasJob =>
           job'.id = waiter'[w].mine.id /\ job'.attempts = waiter'[w].mine.attempts,
         IF waiter'[w].pc = "leave" THEN job'.args = "none"
         ELSE job'.args # "none" /\ runner,
         job'.attempts <= MaxAttempts + cuts,
         job'.attempts < MaxAttempts + cuts \/ waiter'[w].pc \in HasJob
  PROVE  Agreed'
<1>1. /\ pidfile = w /\ cmd.at \notin Alone
      /\ \A v \in Waiters : v # w => waiter[v].pc \in Gone
  BY OnlyWaiter
<1>2. CmdInv'
  <2>1. cmd.at \notin {"copy", "args", "spawn"}
    BY <1>1 DEF Alone
  <2> QED BY <1>1, <2>1 DEF CmdInv
<1>3. AliveInv'
  BY <1>1 DEF AliveInv, Agreed, Gone
<1>4. JobInv'
  BY <1>1 DEF JobInv, Gone, HasJob
<1>5. AttemptInv'
  BY DEF AttemptInv
<1>6. KeeperInv'
  <2>1. WaiterAlive'
    BY <1>1, QueueAssumption, DeadFacts DEF WaiterAlive, Gone
  <2>2. \A v \in Waiters : waiter'[v].pc = "leave" => job'.args = "none"
    BY <1>1 DEF Gone
  <2> QED BY <2>1, <2>2 DEF KeeperInv
<1> QED BY <1>2, <1>3, <1>4, <1>5, <1>6 DEF Agreed

LEMMA WorkAgreed ==
  ASSUME Sound, Agreed, NEW w \in Waiters,
         \/ Poll(w) \/ Launch(w) \/ RunJob(w)
         \/ \E e \in {"ok", "driving", "failed"} : JobEnds(w, e)
         \/ WaitAgain(w) \/ CloseJob(w) \/ RemoveJob(w)
  PROVE  Agreed'
<1> USE DEF In, WaiterGoes, fileVars, worldVars, cmdVars
<1>1. /\ waiter \in [Waiters -> WaiterRec] /\ job \in JobDir /\ (job.id = 0 => job = NoJob)
      /\ made \in Nat /\ cuts \in Nat /\ MaxAttempts \in Nat /\ MaxAttempts >= 1
  BY AtWork, QueueAssumption
<1>2. /\ waiter[w].pc \notin Gone /\ waiter[w].pc # "leave"
  BY DEF Poll, Launch, RunJob, JobEnds, WaitAgain, CloseJob, RemoveJob, Gone
<1>3. /\ job.args # "none" /\ JobDirThere /\ runner
      /\ job.attempts <= MaxAttempts + cuts
      /\ waiter[w].pc \in HasJob =>
           job.id = waiter[w].mine.id /\ job.attempts = waiter[w].mine.attempts
  BY <1>1, <1>2, NoJobFacts DEF Agreed, JobInv, AttemptInv, KeeperInv, Gone, JobDirThere
<1>4. job.attempts < MaxAttempts + cuts \/ waiter[w].pc \in HasJob
  <2>1. cmd.at \notin Alone /\ \A v \in Waiters : v # w => waiter[v].pc \in Gone
    BY <1>2, OnlyWaiter
  <2> QED BY <2>1 DEF Agreed, AttemptInv, Alone, Gone, HasJob
<1>5. /\ UNCHANGED <<pidfile, runner, cuts, booting, cmd>>
      /\ \A v \in Waiters : v # w => waiter'[v] = waiter[v]
  BY <1>1 DEF Poll, Launch, RunJob, JobEnds, WaitAgain, CloseJob, RemoveJob
<1>6. ASSUME waiter'[w].pc \in {"poll", "launch", "launched", "running", "ended", "remove"},
             waiter'[w].pc \in HasJob =>
               job'.id = waiter'[w].mine.id /\ job'.attempts = waiter'[w].mine.attempts,
             job'.args = job.args, job'.attempts <= MaxAttempts + cuts,
             job'.attempts < MaxAttempts + cuts \/ waiter'[w].pc \in HasJob
      PROVE  Agreed'
  <2>1. waiter'[w].pc \notin Gone /\ waiter'[w].pc # "leave"
    BY <1>6 DEF Gone
  <2> QED BY <1>2, <1>3, <1>5, <1>6, <2>1, WaiterFrame
<1>7. CASE Poll(w)
  <2>1. /\ waiter'[w].pc \in {"poll", "launch"} /\ job' = job /\ waiter[w].pc = "poll"
    BY <1>1, <1>7 DEF Poll, WaiterRec
  <2> QED BY <1>3, <1>4, <1>6, <2>1 DEF HasJob
<1>8. CASE Launch(w)
  <2>1. /\ job' = [job EXCEPT !.attempts = @ + 1, !.started = TRUE] /\ waiter[w].pc = "launch"
        /\ waiter'[w].mine = job' /\ waiter'[w].pc = "launched"
    BY <1>1, <1>3, <1>8 DEF Launch, WaiterRec
  <2>2. job'.args = job.args /\ job'.attempts = job.attempts + 1 /\ job.attempts \in Nat
    BY <1>1, <2>1 DEF JobDir
  <2>3. job'.attempts <= MaxAttempts + cuts
    BY <1>1, <1>4, <2>1, <2>2 DEF HasJob
  <2> QED BY <1>6, <2>1, <2>2, <2>3 DEF HasJob
<1>9. CASE RunJob(w)
  <2>1. /\ job' = job /\ waiter[w].pc = "launched"
        /\ waiter'[w].mine = waiter[w].mine /\ waiter'[w].pc = "running"
    BY <1>1, <1>9 DEF RunJob, WaiterRec
  <2> QED BY <1>3, <1>6, <2>1 DEF HasJob
<1>10. ASSUME NEW e \in {"ok", "driving", "failed"}, JobEnds(w, e)
       PROVE  Agreed'
  <2>1. /\ job' = [job EXCEPT !.finished = TRUE] /\ waiter[w].pc = "running"
        /\ waiter'[w].mine = waiter[w].mine /\ waiter'[w].pc = "ended"
    BY <1>1, <1>3, <1>10 DEF JobEnds, WaiterRec
  <2>2. job'.id = job.id /\ job'.args = job.args /\ job'.attempts = job.attempts
    BY <1>1, <2>1 DEF JobDir
  <2> QED BY <1>3, <1>6, <2>1, <2>2 DEF HasJob
<1>11. CASE WaitAgain(w)
  <2>1. /\ job' = [job EXCEPT !.started = FALSE, !.finished = FALSE] /\ waiter[w].pc = "ended"
        /\ waiter'[w].pc = "poll" /\ waiter[w].mine.attempts < MaxAttempts
    BY <1>1, <1>11 DEF WaitAgain, Again, WaiterRec
  <2>2. job'.args = job.args /\ job'.attempts = job.attempts /\ job.attempts \in Nat
    BY <1>1, <2>1 DEF JobDir
  <2>3. job'.attempts < MaxAttempts + cuts
    BY <1>1, <1>3, <2>1, <2>2 DEF HasJob
  <2> QED BY <1>3, <1>6, <2>1, <2>2, <2>3 DEF HasJob
<1>12. CASE CloseJob(w)
  <2>1. /\ job' = job /\ waiter[w].pc = "ended"
        /\ waiter'[w].mine = waiter[w].mine /\ waiter'[w].pc = "remove"
    BY <1>1, <1>12 DEF CloseJob, WaiterRec
  <2> QED BY <1>3, <1>6, <2>1 DEF HasJob
<1>13. CASE RemoveJob(w)
  <2>1. job' = NoJob /\ waiter'[w].pc = "leave"
    BY <1>1, <1>13 DEF RemoveJob, WaiterRec
  <2>2. /\ waiter'[w].pc \notin Gone /\ waiter'[w].pc \notin HasJob
        /\ job'.args = "none" /\ job'.attempts = 0
    BY <2>1, NoJobFacts DEF Gone, HasJob
  <2>3. 0 < MaxAttempts + cuts
    BY <1>1
  <2> QED BY <1>1, <1>2, <1>5, <2>1, <2>2, <2>3, WaiterFrame
<1> QED BY <1>7, <1>8, <1>9, <1>10, <1>11, <1>12, <1>13

\* PollEnds does not happen: a waiter that polls has its job.
LEMMA LeaveAgreed ==
  ASSUME Sound, Agreed, NEW w \in Waiters, PollEnds(w) \/ Leave(w)
  PROVE  Agreed'
<1> USE DEF In, worldVars, cmdVars
<1>1. Leave(w)
  BY DEF PollEnds, Agreed, JobInv
<1>2. /\ waiter[w].pc = "leave" /\ pidfile' = NoWaiter
      /\ UNCHANGED <<job, runner, cuts, booting, cmd>>
      /\ waiter \in [Waiters -> WaiterRec] /\ waiter'[w].pc \in Gone
      /\ \A v \in Waiters : v # w => waiter'[v] = waiter[v]
      /\ job.args = "none"
  BY <1>1, DeadFacts DEF Leave, Sound, WaitersSound, Agreed, KeeperInv, Gone, WaiterRec
<1>3. /\ waiter[w].pc \notin Gone /\ waiter[w].pc \notin HasJob
  BY <1>2 DEF Gone, HasJob
<1>4. /\ cmd.at \notin Alone
      /\ \A v \in Waiters : v # w => waiter[v].pc \in Gone
  BY <1>3, OnlyWaiter
<1>5. \A v \in Waiters : waiter'[v].pc \in Gone
  BY <1>2, <1>4
<1>6. CmdInv' /\ AliveInv' /\ JobInv'
  BY <1>2, <1>4, <1>5, QueueAssumption DEF CmdInv, AliveInv, JobInv, Alone, Gone, HasJob
<1>7. AttemptInv'
  BY <1>2, <1>3, <1>4 DEF Agreed, AttemptInv, Alone, Gone, HasJob
<1>8. KeeperInv'
  BY <1>2 DEF KeeperInv
<1> QED BY <1>6, <1>7, <1>8 DEF Agreed

\* The end of an uninstall that tramples on nothing: either nothing was there, or the job,
\* its runner and its waiter's name stay.
LEMMA WipeAgreed ==
  ASSUME Sound, Agreed, NEW w \in Waiters, Wipe(w), ~ trampled'
  PROVE  Agreed'
<1> USE DEF In, cmdVars
<1>1. /\ UNCHANGED <<cuts, booting, cmd>>
      /\ waiter \in [Waiters -> WaiterRec] /\ waiter[w].pc = "wipe" /\ waiter'[w] = Dead
      /\ \A v \in Waiters : v # w => waiter'[v] = waiter[v]
  BY DEF Wipe, Sound, WaitersSound
<1>2. /\ UNCHANGED <<job, pidfile>>
      /\ job.id # 0 => runner' = runner
  <2> DEFINE anew == JobDirThere \/ pidfile # NoWaiter
  <2>1. PICK lost \in SUBSET StateFiles :
          /\ IF anew THEN "pidfile" \in lost => "job" \in lost ELSE lost = StateFiles
          /\ job' = IF "job" \in lost THEN NoJob ELSE job
          /\ pidfile' = IF "pidfile" \in lost THEN NoWaiter ELSE pidfile
          /\ runner' = (runner /\ "runner" \notin lost)
          /\ trampled' = (trampled \/ (anew /\ lost \cap {"job", "runner"} # {}))
    BY DEF Wipe
  <2>2. CASE anew
    <3>1. "job" \notin lost /\ "runner" \notin lost
      BY <2>1, <2>2
    <3>2. "pidfile" \notin lost
      BY <2>1, <2>2, <3>1
    <3>3. job' = job /\ pidfile' = pidfile
      BY <2>1, <3>1, <3>2
    <3>4. runner' = runner
      <4>1. runner \in BOOLEAN
        BY AtWork
      <4> QED BY <2>1, <3>1, <4>1
    <3> QED BY <3>3, <3>4
  <2>3. CASE ~ anew
    <3>1. lost = StateFiles /\ job = NoJob /\ pidfile = NoWaiter
      BY <2>1, <2>3, AtWork DEF JobDirThere
    <3>2. job' = NoJob /\ pidfile' = NoWaiter
      BY <2>1, <3>1 DEF StateFiles
    <3> QED BY <3>1, <3>2, NoJobFacts
  <2> QED BY <2>2, <2>3
<1>3. job.args # "none" => job.id # 0
  BY AtWork, NoJobFacts
<1>4. waiter[w].pc \in Gone /\ waiter[w].pc \notin HasJob /\ pidfile # w
      /\ waiter'[w].pc = "dead"
  BY <1>1, DeadFacts DEF Agreed, AliveInv, Gone, HasJob
<1>5. CmdInv'
  BY <1>1, <1>2, <1>4 DEF Agreed, CmdInv, Gone
<1>6. AliveInv' /\ JobInv'
  BY <1>1, <1>2, <1>4 DEF Agreed, AliveInv, JobInv, Gone, HasJob
<1>7. AttemptInv'
  BY <1>1, <1>2, <1>4 DEF Agreed, AttemptInv
<1>8. KeeperInv'
  <2>1. WaiterAlive => WaiterAlive'
    BY <1>1, <1>2, <1>4 DEF WaiterAlive, Sound, FileTypes
  <2> QED BY <1>1, <1>2, <1>3, <1>4, <2>1 DEF Agreed, KeeperInv
<1> QED BY <1>5, <1>6, <1>7, <1>8 DEF Agreed

\* What has been trampled on stays so.
LEMMA TrampledStays == Sound /\ [Next]_vars /\ ~ trampled' => ~ trampled
BY DEF Next, vars, fileVars, waiterVars, worldVars, cmdVars, Command, Boot, CommandStep, Check,
   StopWaiter, ClearJob, CopyRunner, WriteArgs, Accept, StartWaiter, Spawn, SpawnFails, DropJob,
   Waiter, Poll, PollEnds, Launch, RunJob, JobEnds, WaitAgain, CloseJob, RemoveJob, Leave, Wipe,
   PhaseChanges, OrphanEnds, PowerCut

LEMMA AgreedStep == Sound /\ Agreed /\ [Next]_vars /\ ~ trampled' => Agreed'
<1> SUFFICES ASSUME Sound, Agreed, [Next]_vars, ~ trampled'
             PROVE  Agreed'
  OBVIOUS
<1>1. CASE CommandStep
  BY <1>1, QuietAgreed, StopWaiterAgreed, DirectoryAgreed, SpawnAgreed DEF CommandStep
<1>2. ASSUME NEW w \in Waiters, Waiter(w)
      PROVE  Agreed'
  BY <1>2, WorkAgreed, LeaveAgreed, WipeAgreed DEF Waiter
<1>3. CASE PowerCut
  BY <1>3, PowerCutAgreed
<1>4. CASE \/ \E u \in BOOLEAN : Command("queue", u)
           \/ Command("cancel", FALSE) \/ Command("resume", FALSE)
           \/ Boot
           \/ \E p \in Phases : PhaseChanges(p)
           \/ \E n \in orphans : OrphanEnds(n)
           \/ UNCHANGED vars
  BY <1>4, QuietAgreed
<1> QED BY <1>1, <1>2, <1>3, <1>4 DEF Next

LEMMA IInvAlways == Spec => []IInv
<1>1. Init => IInv
  BY InitSound, InitAgreed DEF IInv
<1>2. IInv /\ [Next]_vars => IInv'
  BY SoundStep, AgreedStep, TrampledStays DEF IInv
<1> QED BY <1>1, <1>2, PTL DEF Spec

-----------------------------------------------------------------------------
\* Every reachable state of the files, the commands and the waiters is well typed, and until
\* an uninstall tramples on a job no power cut or retry starts one more often than
\* MAX_ATTEMPTS and once more per cut.
THEOREM TypeCorrect == Spec => []TypeOK
<1>1. IInv => TypeOK
  <2> SUFFICES ASSUME IInv PROVE TypeOK
    OBVIOUS
  <2>1. ~ trampled => job.attempts <= MaxAttempts + MaxCuts
    <3>1. cuts \in 0 .. MaxCuts /\ job.attempts \in Nat
      BY DEF IInv, Sound, WorldTypes, FileTypes, JobDir
    <3> QED BY <3>1, QueueAssumption DEF IInv, Agreed, AttemptInv
  <2>2. cmd.kind \in {"none", "queue", "cancel", "resume"}
    BY DEF IInv, Sound, CmdSound, CmdRec
  <2> QED BY <2>1, <2>2 DEF IInv, Sound, FileTypes, WorldTypes, CmdSound, WaitersSound, TypeOK,
             WaiterRec, Statuses
<1> QED BY <1>1, IInvAlways, PTL

\* Whatever is queued, cancelled, resumed or cut, waiter.pid names the one waiter that is at
\* work, the job it runs is the one in the directory, and a job in the directory has a waiter
\* unless a command or start.sh is about to see to it.  It ends where the waiter of an
\* uninstall removes a job that was queued after it had given up waiter.pid.
THEOREM WaiterAndJobAgree == Spec => []WaiterKeepsItsJob
<1>1. IInv => WaiterKeepsItsJob
  <2> SUFFICES ASSUME IInv, ~ trampled PROVE WaiterKeepsItsJob
    BY DEF WaiterKeepsItsJob
  <2>1. Sound /\ Agreed
    BY DEF IInv
  <2>2. ASSUME NEW w \in Waiters
        PROVE  /\ waiter[w].pc \notin {"dead", "wipe"} => pidfile = w
               /\ waiter[w].pc \notin {"dead", "leave", "wipe"} => job.args # "none"
               /\ waiter[w].pc \in {"launched", "running", "ended", "remove"} =>
                    job.id = waiter[w].mine.id
    BY <2>1 DEF Agreed, AliveInv, JobInv, Gone, HasJob
  <2>3. ASSUME job.args # "none", cmd = Idle, ~ booting
        PROVE  \E w \in Waiters : waiter[w].pc \notin {"dead", "wipe"}
    <3>1. WaiterAlive
      BY <2>1, <2>3 DEF Agreed, KeeperInv, Idle
    <3>2. pidfile \in Waiters /\ waiter[pidfile] # Dead
      BY <2>1, <3>1 DEF WaiterAlive, Sound, FileTypes
    <3>3. waiter[pidfile].pc \notin {"dead", "wipe"}
      BY <2>1, <3>2, AtWork DEF Agreed, AliveInv
    <3> QED BY <3>2, <3>3
  <2> QED BY <2>2, <2>3 DEF WaiterKeepsItsJob
<1> QED BY <1>1, IInvAlways, PTL

\* A job starts only behind an unbroken stretch of polls that found the car at rest, also
\* where an uninstall has left two waiters at work.
THEOREM JobStartsQuiet == Spec => StartsQuiet
<1>1. ASSUME Sound, Next, NEW w \in Waiters, In(w, "poll"), waiter'[w].pc = "launch"
      PROVE  Poll(w)
  <2> USE <1>1 DEF In, waiterVars
  <2>1. waiter[w].pc = "poll" /\ waiter \in [Waiters -> WaiterRec]
    BY DEF Sound, WaitersSound
  <2>2. waiter'[w] # waiter[w] /\ waiter'[w] # Dead /\ waiter[w] # Dead
    BY <2>1, DeadFacts
  <2>3. ~ PowerCut /\ ~ StopWaiter
    BY <2>1, <2>2 DEF PowerCut, StopWaiter
  <2>4. ASSUME NEW v \in Waiters, Spawn(v)
        PROVE  FALSE
    <3>1. v # w
      BY <2>2, <2>4 DEF Spawn
    <3>2. waiter'[w] = waiter[w]
      BY <2>1, <2>4, <3>1 DEF Spawn
    <3> QED BY <2>2, <3>2
  <2>5. ASSUME NEW v \in Waiters, Waiter(v)
        PROVE  Poll(w)
    <3>1. v = w
      <4> SUFFICES ASSUME v # w PROVE waiter'[w] = waiter[w]
        BY <2>2
      <4> QED
        BY <2>1, <2>5 DEF Waiter, Poll, PollEnds, Launch, RunJob, JobEnds, WaitAgain, CloseJob,
           RemoveJob, Leave, Wipe, WaiterGoes
    <3> QED
      BY <2>1, <2>2, <2>5, <3>1 DEF Waiter, PollEnds, Launch, RunJob, JobEnds, WaitAgain,
         CloseJob, RemoveJob, Leave, Wipe
  <2> QED
    BY <2>2, <2>3, <2>4, <2>5 DEF Next, CommandStep, Command, Boot, Check, ClearJob, CopyRunner,
       WriteArgs, Accept, StartWaiter, SpawnFails, DropJob, PhaseChanges, OrphanEnds
<1>2. ASSUME Sound, NEW w \in Waiters, Poll(w), waiter'[w].pc = "launch"
      PROVE  StartsRested(w)
  <2>1. waiter \in [Waiters -> WaiterRec] /\ waiter[w].pc = "poll"
    BY <1>2 DEF Sound, WaitersSound, Poll, In
  <2>2. waiter'[w].seen = Remember(waiter[w].seen, phase)
    BY <1>2, <2>1 DEF Poll, WaiterRec
  <2>3. phase # "driving" /\ StableAfter(w) >= Needed(phase)
    BY <1>2, <2>1 DEF Poll, WaiterRec
  <2>4. StableAfter(w) = Needed(phase)
    BY <1>2, <2>1, <2>3, PollCounts, Bounds
  <2> QED BY <1>2, <2>1, <2>2, <2>3, <2>4, PollCounts, Bounds DEF StartsRested
<1>3. Sound /\ [Next]_vars => [\A w \in Waiters : StartsRested(w)]_vars
  <2>1. ASSUME Sound, Next, NEW w \in Waiters
        PROVE  StartsRested(w)
    BY <1>1, <1>2, <2>1 DEF StartsRested
  <2> QED BY <2>1
<1> QED BY <1>3, SoundAlways, PTL DEF Spec, StartsQuiet
=============================================================================
