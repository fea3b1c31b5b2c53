---------------------------- MODULE ControlServer ----------------------------
(***************************************************************************)
(* The control API's server: one thread that accepts a connection, reads    *)
(* the request, runs its handler and sends the answer before it accepts the *)
(* next, and the two ways a handler runs a program: run_command, which       *)
(* reads both pipes to their ends, and run_drive_script_for_answer, which    *)
(* gives up at a deadline.  The drive watcher's thread forks programs of its *)
(* own meanwhile.                                                           *)
(*                                                                          *)
(* Bytes are blocks: of a request, and of what a program prints.  A time-out *)
(* may come whenever it could.  A program run_command waits for ends unless  *)
(* a full pipe stops it; the drive stats script may hang.                    *)
(***************************************************************************)
EXTENDS Integers, Sequences, FiniteSets

CONSTANTS
  Callers,     \* connections, one request each
  MaxBlocks,   \* kMaxRequestBytes, in blocks
  PipeBlocks,  \* what a pipe holds
  MaxPrint,    \* bound: blocks a program prints on stdout; on stderr PipeBlocks
  HasToken     \* load_api_token found one: the comma is paired

ASSUME ServerAssumption ==
  /\ IsFiniteSet(Callers)
  /\ {MaxBlocks, PipeBlocks, MaxPrint} \subseteq Nat
  /\ PipeBlocks >= 1
  /\ HasToken \in BOOLEAN

VARIABLES
  backlog,   \* connections not accepted yet
  gone,      \* connections closed, answered or not
  thread,    \* the server thread: where it is
  caller,    \* the connection it handles: a set of one or none
  blocks,    \* blocks of the request read
  commands,  \* programs this handler has still to run
  child,     \* the program: out and err blocks it has to print, and whether it lives
  pipe,      \* blocks in its two pipes
  held,      \* a program of the watcher's has a copy of the pipes' write ends
  late       \* the deadline of run_drive_script_for_answer has passed

requestVars == <<backlog, gone, caller, blocks>>
childVars   == <<commands, child, pipe, held, late>>
serverVars  == <<thread, requestVars, childVars>>

NoChild == [out |-> 0, err |-> 0, alive |-> FALSE]
Empty   == [out |-> 0, err |-> 0]
ServerStages ==
  {"accept", "head", "body", "handle", "fork", "stdout", "stderr", "wait", "script", "reap",
   "send"}

-----------------------------------------------------------------------------
(* A request. *)

CallerConnects(c) ==
  /\ c \notin gone /\ c \notin caller /\ \A i \in DOMAIN backlog : backlog[i] # c
  /\ backlog' = Append(backlog, c)
  /\ UNCHANGED <<thread, gone, caller, blocks, childVars>>

AcceptCaller ==
  /\ thread = "accept" /\ backlog # << >>
  /\ caller' = {Head(backlog)} /\ backlog' = Tail(backlog)
  /\ blocks' = 0
  /\ thread' = "head"
  /\ UNCHANGED <<gone, childVars>>

CloseCaller ==
  /\ gone' = gone \cup caller
  /\ caller' = {}
  /\ thread' = "accept"

\* recv: a block, with or without the end of the headers; nothing for 5 s or the end of
\* the connection drops the request.
ReadHead ==
  /\ thread = "head"
  /\ IF blocks = MaxBlocks
       THEN thread' = "send" /\ UNCHANGED <<gone, caller, blocks>>  \* 413
       ELSE \/ CloseCaller /\ UNCHANGED blocks
            \/ /\ blocks' = blocks + 1
               /\ thread' \in {"head", "body"}
               /\ UNCHANGED <<gone, caller>>
  /\ UNCHANGED <<backlog, childVars>>

\* parse_request: a request to handle, or a 400, as for a body that was cut short.
Parsed == {"handle", "send"}

\* Until content-length or the cap is reached, or recv gives up.
ReadBody ==
  /\ thread = "body"
  /\ \/ blocks < MaxBlocks /\ blocks' = blocks + 1 /\ UNCHANGED thread
     \/ thread' \in Parsed /\ UNCHANGED blocks
  /\ UNCHANGED <<backlog, gone, caller, childVars>>

\* The answer is sent, or SO_SNDTIMEO ends it.
SendAnswer ==
  /\ thread = "send"
  /\ CloseCaller
  /\ UNCHANGED <<backlog, blocks, childVars>>

-----------------------------------------------------------------------------
(* The routes: who may ask, how many programs the handler may run one after another  *)
(* before it knows its answer, and whether it runs the drive stats script.           *)

Route(who, programs) == [who |-> who, programs |-> programs, script |-> FALSE]

\* nmcli names the profile.
WifiProfile == {1}
\* It may be that there is none; else nmcli reads its setting.
WifiStatus == WifiProfile \cup {n + 1 : n \in WifiProfile}
\* run_command_with_optional_sudo.
WifiChange == {1, 2}
\* A mode that is none; no profile; the change.
WifiSet == {0} \cup WifiProfile \cup {n + m : n \in WifiProfile, m \in WifiChange}

\* The verify script, where it is installed.
Verify == 0 .. 1
\* Driven: nothing.  Else the apply script, where it is installed.
ApplyRepair == 0 .. 1
\* The deferred queue takes the repair, where its runner is installed.
QueueRepair == 0 .. 1
Repair == ApplyRepair \cup QueueRepair
\* The deferred queue takes the job, or says why not.
QueueJob == {1}
Update == {0} \cup QueueJob
Uninstall == {0} \cup QueueJob

GetRoutes ==
  {Route("paired", {0}),           \* source-recording, support/logs, drive-stats, location
   Route("anyone", {0}),           \* version, runtime-debug/config, not found
   Route("anyone", Verify),        \* status, onroad-ui-export/status
   Route("token", WifiStatus)}

PostRoutes ==
  {Route("anyone", {0}),           \* pairing/redeem
   Route("token", {0}),            \* pairing/create, runtime-debug/*, not found
   Route("paired", {0}),           \* location
   [Route("paired", {0}) EXCEPT !.script = TRUE], \* leaderboard
   Route("paired", Update), Route("paired", Uninstall),
   Route("token", WifiSet),
   Route("token", Repair)}

\* OPTIONS and other methods.
OtherRoutes == {Route("anyone", {0})}

Routes == GetRoutes \cup PostRoutes \cup OtherRoutes

\* is_authorized lets everyone in while there is no token; some routes do not.
Authorized(who, knows_token) ==
  CASE who = "anyone" -> TRUE
    [] who = "token"  -> knows_token \/ ~ HasToken
    [] who = "paired" -> knows_token /\ HasToken

-----------------------------------------------------------------------------
(* The handler. *)

Program == [out : 0 .. MaxPrint, err : 0 .. PipeBlocks, alive : {TRUE}]

HandleAtOnce == thread' = "send" /\ UNCHANGED childVars

HandleWithPrograms(n) ==
  /\ thread' = "fork"
  /\ commands' = n
  /\ UNCHANGED <<child, pipe, held, late>>

HandleWithScript ==
  /\ thread' = "script"
  /\ child' \in {c \in Program : c.err = 0}
  /\ UNCHANGED <<commands, pipe, held, late>>

Handle ==
  /\ thread = "handle"
  /\ \E route \in Routes, knows_token \in BOOLEAN, n \in 0 .. 3 :
       IF ~ Authorized(route.who, knows_token) THEN n = 0 /\ HandleAtOnce
       ELSE \/ n \in route.programs /\ n = 0 /\ HandleAtOnce
            \/ n \in route.programs /\ n > 0 /\ HandleWithPrograms(n)
            \/ route.script /\ n = 0 /\ HandleWithScript
  /\ UNCHANGED requestVars

\* The next program, or the answer.
CommandDone ==
  /\ commands' = commands - 1
  /\ thread' = IF commands = 1 THEN "send" ELSE "fork"

\* fork, and close of the parent's write ends.
ForkCommand ==
  /\ thread = "fork"
  /\ child' \in Program
  /\ thread' = "stdout"
  /\ UNCHANGED <<requestVars, commands, pipe, held, late>>

\* No pipe or no process.
ForkFails ==
  /\ thread = "fork"
  /\ CommandDone
  /\ UNCHANGED <<requestVars, child, pipe, held, late>>

\* Between pipe and fork the drive watcher's fork copies the write ends: they have no
\* close-on-exec flag.
WatcherForks ==
  /\ thread = "fork" /\ ~ held
  /\ held' = TRUE
  /\ UNCHANGED <<thread, requestVars, commands, child, pipe, late>>

\* The watcher's program ends, or is killed after ten minutes.
WatchersProgramEnds ==
  /\ held
  /\ held' = FALSE
  /\ UNCHANGED <<thread, requestVars, commands, child, pipe, late>>

ChildPrints ==
  /\ child.alive
  /\ \E f \in {"out", "err"} :
       /\ child[f] > 0 /\ pipe[f] < PipeBlocks
       /\ child' = [child EXCEPT ![f] = @ - 1]
       /\ pipe' = [pipe EXCEPT ![f] = @ + 1]
  /\ UNCHANGED <<thread, requestVars, commands, held, late>>

\* The script is read from stdout only, its stderr is its log.
ChildEnds ==
  /\ child.alive /\ child.out = 0 /\ child.err = 0
  /\ child' = NoChild
  /\ UNCHANGED <<thread, requestVars, commands, pipe, held, late>>

\* read_all of one pipe: to the end of file, which comes when nobody can write any more.
ReadPipe(f, next) ==
  /\ IF pipe[f] > 0
       THEN pipe' = [pipe EXCEPT ![f] = @ - 1] /\ UNCHANGED thread
       ELSE ~ child.alive /\ ~ held /\ thread' = next /\ UNCHANGED pipe
  /\ UNCHANGED <<requestVars, commands, child, held, late>>

ReadStdout == thread = "stdout" /\ ReadPipe("out", "stderr")
ReadStderr == thread = "stderr" /\ ReadPipe("err", "wait")

WaitCommand ==
  /\ thread = "wait" /\ ~ child.alive
  /\ CommandDone
  /\ UNCHANGED <<requestVars, child, pipe, held, late>>

-----------------------------------------------------------------------------
(* run_drive_script_for_answer: the script may hang, before or after it closes stdout. *)

DeadlinePasses ==
  /\ thread \in {"script", "reap"} /\ ~ late
  /\ late' = TRUE
  /\ UNCHANGED <<thread, requestVars, commands, child, pipe, held>>

KillScript ==
  /\ child' = NoChild /\ pipe' = Empty /\ late' = FALSE
  /\ thread' = "send"

\* poll and read; the end of file comes when the script ends or closes its stdout.
ReadScript ==
  /\ thread = "script"
  /\ IF late THEN KillScript
     ELSE \/ pipe.out > 0 /\ pipe' = [pipe EXCEPT !.out = @ - 1] /\ UNCHANGED <<thread, child, late>>
          \/ pipe.out = 0 /\ child.out = 0 /\ thread' = "reap" /\ UNCHANGED <<child, pipe, late>>
  /\ UNCHANGED <<requestVars, commands, held>>

\* Mutant: a script that has answered is waited for.
ReapScript_waits ==
  /\ thread = "reap"
  /\ ~ child.alive
  /\ KillScript
  /\ UNCHANGED <<requestVars, commands, held>>

\* waitpid(WNOHANG) every 10 ms, to the same deadline.
ReapScript ==
  /\ thread = "reap"
  /\ ~ child.alive \/ late
  /\ KillScript
  /\ UNCHANGED <<requestVars, commands, held>>

-----------------------------------------------------------------------------
ServerInit ==
  /\ backlog = << >> /\ gone = {} /\ thread = "accept" /\ caller = {} /\ blocks = 0
  /\ commands = 0 /\ child = NoChild /\ pipe = Empty /\ held = FALSE /\ late = FALSE

ServerThread ==
  \/ AcceptCaller \/ ReadHead \/ ReadBody \/ SendAnswer
  \/ Handle \/ ForkCommand \/ ForkFails \/ ReadStdout \/ ReadStderr \/ WaitCommand
  \/ ReadScript \/ ReapScript

ServerNext ==
  \/ \E c \in Callers : CallerConnects(c)
  \/ ServerThread
  \/ WatcherForks \/ WatchersProgramEnds \/ ChildPrints \/ ChildEnds \/ DeadlinePasses

ServerSpec == ServerInit /\ [][ServerNext]_serverVars

CommandRuns == thread \in {"stdout", "stderr", "wait"}

-----------------------------------------------------------------------------
(* Properties. *)

ServerTypeOK ==
  /\ \A i \in DOMAIN backlog : backlog[i] \in Callers
  /\ gone \subseteq Callers /\ caller \subseteq Callers /\ Cardinality(caller) <= 1
  /\ thread \in ServerStages /\ blocks \in 0 .. MaxBlocks /\ commands \in 0 .. 3
  /\ child \in [out : 0 .. MaxPrint, err : 0 .. PipeBlocks, alive : BOOLEAN]
  /\ pipe \in [out : 0 .. PipeBlocks, err : 0 .. PipeBlocks]
  /\ held \in BOOLEAN /\ late \in BOOLEAN

\* A program that run_command runs, and whose stderr fits its pipe, is never stopped by a pipe
\* nobody reads: it can print or end, or the pipe it is stopped by is the one that is being
\* read, which has something.  Once the thread reads stderr or waits, the program has ended.
NoCircularWait ==
  CommandRuns /\ child.alive =>
    /\ thread = "stdout"
    /\ \/ child.out = 0 /\ child.err = 0
       \/ \E f \in {"out", "err"} : child[f] > 0 /\ pipe[f] < PipeBlocks
       \/ pipe.out > 0

\* Between programs no program lives and nothing one has printed is left, so that what one
\* prints is never read as the next one's, in this request or in another.
NothingLeftOver ==
  thread \notin {"stdout", "stderr", "wait", "script", "reap"} =>
    child = NoChild /\ pipe = Empty /\ ~ late

\* The API serves one request at a time, so none may hold it for ever: whatever a client
\* sends or fails to send, whatever the programs print, and although the script may hang
\* and another may hold the pipes open, every connection has its turn and its end.
EveryRequestIsAnswered ==
  \A c \in Callers : (\E i \in DOMAIN backlog : backlog[i] = c) ~> c \in gone
=============================================================================
