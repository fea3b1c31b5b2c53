---------------------------- MODULE RuntimeConfig ----------------------------
(***************************************************************************)
(* The runtime debug config: the file control mode writes and asks the      *)
(* running bridge to read again (SIGHUP), the reload thread that does, the  *)
(* telemetry loops' copies of the policies, and the effective and statistics *)
(* files several bridge threads write.                                      *)
(*                                                                          *)
(* The policies of all services are one value: the number of the write they *)
(* come from, 0 for the built-in defaults.  The effective file is written   *)
(* like the statistics file and just before it, and nobody decides by it, so *)
(* a flush is the one write of the statistics.                              *)
(***************************************************************************)
EXTENDS Integers

CONSTANTS
  MaxWrites, \* bound: configs and restored defaults written
  MaxStarts, \* bound: starts of the bridge
  MaxApplies \* bound: apply requests

ASSUME ConfigAssumption == {MaxWrites, MaxStarts, MaxApplies} \subseteq Nat

VARIABLES
  config_file, \* [written: writes begun, holds: the policies, is: what a reader finds]
  disk_full,
  control,     \* the control process: "ready", "writing", "signalling" or "polling"
  promised,    \* history: config_file.written when the last apply signalled this bridge, or
               \* when the last one before its start was answered
  promised_next, \* history: config_file.written when the last apply was answered
  bridge,      \* "dead", "exec" (SIGHUP ignored), "masked" (blocked, config not loaded), "up",
               \* "stopping" (g_running is false)
  bridge_pid,  \* what bridge.pid is to this bridge: not yet written, naming it, or lost
  sighup,      \* a SIGHUP is pending in the bridge
  reloader,    \* the reload thread, and main before it: "wait", "load", "install" or "flush"
  read_config, \* what the reload thread has read and not installed
  effective,   \* g_runtime_state.effective_config, with config_file.written when read
  reloads,     \* g_runtime_state.config_reloads
  generation,  \* g_config_generation
  loop_config, loop_generation, \* a telemetry loop's copy, -1: none yet
  rendered,    \* per flusher: the reload count in its rendered statistics, -1: no flush
  stats,       \* the reload count in the statistics file
  starts, applies \* bounds

fileVars    == <<config_file, disk_full>>
controlVars == <<control, promised, promised_next, applies>>
processVars == <<bridge, bridge_pid>>
reloadVars  == <<reloader, read_config, effective, reloads, generation>>
loopVars    == <<loop_config, loop_generation>>
flushVars   == <<rendered, stats>>
configVars  == <<fileVars, controlVars, processVars, sighup, starts, reloadVars, loopVars, flushVars>>

Flushers == {"reload", "loop"}
Alive    == bridge # "dead"
Defaults == [holds |-> 0, seen |-> 0]

\* An empty body is invalid; a missing file and one cut short are not.
Valid == config_file.is # "empty"

\* A service that is not found whole in the body keeps its default.
PolicyRead == IF config_file.is = "whole" THEN config_file.holds ELSE 0

\* load_runtime_debug_config, effective_runtime_debug_config: defaults if not valid.
Loaded == [holds |-> IF Valid THEN PolicyRead ELSE 0, seen |-> config_file.written]

\* build_runtime_stats_json_locked: of all the counters, configReloads.
StatsNow == reloads

-----------------------------------------------------------------------------
(* Control mode, one request at a time. *)

\* open with O_TRUNC: the old config is gone before the new one is written.
WriteConfig(policies) ==
  /\ control = "ready"
  /\ config_file.written < MaxWrites
  /\ config_file' = [written |-> config_file.written + 1, holds |-> policies, is |-> "empty"]
  /\ control' = "writing"
  /\ UNCHANGED <<disk_full, promised, promised_next, applies, processVars, sighup, starts,
                 reloadVars, loopVars, flushVars>>

PostConfig      == WriteConfig(config_file.written + 1)
RestoreDefaults == WriteConfig(0)

\* On a full disk the file stays empty or ends early, and the request is answered "failed".
EndWrite ==
  /\ control = "writing"
  /\ \E is \in IF disk_full THEN {"empty", "cut"} ELSE {"whole"} :
       config_file' = [config_file EXCEPT !.is = is]
  /\ control' = "ready"
  /\ UNCHANGED <<disk_full, promised, promised_next, applies, processVars, sighup, starts,
                 reloadVars, loopVars, flushVars>>

\* An apply of an invalid config is refused, so this waits for a valid one.  The count
\* the answer compares with is only the answer's (the README says what that is worth).
BeginApply ==
  /\ control = "ready" /\ Valid /\ applies < MaxApplies
  /\ control' = "signalling"
  /\ applies' = applies + 1
  /\ UNCHANGED <<fileVars, promised, promised_next, processVars, sighup, starts,
                 reloadVars, loopVars, flushVars>>

\* running_bridge_pid: bridge.pid names a process whose command line is the bridge's.  Before
\* the bridge is executed it is still that of nohup, nice or taskset.
MayBeFound    == Alive /\ bridge_pid = "named"
MayBeOverseen == ~ MayBeFound \/ bridge = "exec"

\* A bridge that has not blocked SIGHUP yet ignores it, as nohup told it to, and has not
\* loaded the config.
SignalBridge ==
  /\ control = "signalling" /\ MayBeFound
  /\ promised' = config_file.written /\ promised_next' = config_file.written
  /\ sighup' = (bridge # "exec")
  /\ control' = "polling"
  /\ UNCHANGED <<fileVars, applies, processVars, starts, reloadVars, loopVars, flushVars>>

\* Answered appliesOnNextStart at once, also when a bridge lives that is not found.
FindNoBridge ==
  /\ control = "signalling" /\ MayBeOverseen
  /\ promised_next' = config_file.written
  /\ control' = "ready"
  /\ UNCHANGED <<fileVars, promised, applies, processVars, sighup, starts,
                 reloadVars, loopVars, flushVars>>

\* 40 looks at the statistics file, 50 ms apart: confirmed, or given up.
EndApply ==
  /\ control = "polling"
  /\ control' = "ready"
  /\ UNCHANGED <<fileVars, promised, promised_next, applies, processVars, sighup, starts,
                 reloadVars, loopVars, flushVars>>

DiskFills ==
  /\ disk_full' = ~ disk_full
  /\ UNCHANGED <<config_file, controlVars, processVars, sighup, starts,
                 reloadVars, loopVars, flushVars>>

-----------------------------------------------------------------------------
(* The bridge process. *)

BridgeStarts ==
  /\ bridge = "dead" /\ starts < MaxStarts
  /\ bridge' = "exec" /\ bridge_pid' = "unwritten"
  /\ starts' = starts + 1
  /\ promised' = promised_next
  /\ UNCHANGED <<fileVars, control, promised_next, applies, sighup,
                 reloadVars, loopVars, flushVars>>

\* The supervisor's echo, after the fork.  On a full disk it leaves an empty file.
RecordPid ==
  /\ Alive /\ bridge_pid = "unwritten"
  /\ bridge_pid' = IF disk_full THEN "lost" ELSE "named"
  /\ UNCHANGED <<fileVars, controlVars, bridge, sighup, starts, reloadVars, loopVars, flushVars>>

\* stop.sh removes the file before it kills anything; its stop may fail.
StopRemovesPid ==
  /\ MayBeFound
  /\ bridge_pid' = "lost"
  /\ UNCHANGED <<fileVars, controlVars, bridge, sighup, starts, reloadVars, loopVars, flushVars>>

BlockSighup ==
  /\ bridge = "exec"
  /\ bridge' = "masked"
  /\ UNCHANGED <<fileVars, controlVars, bridge_pid, sighup, starts,
                 reloadVars, loopVars, flushVars>>

\* initialize_runtime_state_once, before any other thread: load, install, flush.
InitialLoad ==
  /\ bridge = "masked" /\ reloader = "wait"
  /\ effective' = Loaded
  /\ reloader' = "flush"
  /\ rendered' = [rendered EXCEPT !["reload"] = StatsNow]
  /\ UNCHANGED <<fileVars, controlVars, processVars, sighup, starts, read_config, reloads,
                 generation, loopVars, stats>>

BridgeIsToldToStop ==
  /\ bridge = "up"
  /\ bridge' = "stopping"
  /\ UNCHANGED <<fileVars, controlVars, bridge_pid, sighup, starts,
                 reloadVars, loopVars, flushVars>>

\* It exits, or is killed at any point.
BridgeDies ==
  /\ Alive
  /\ bridge' = "dead" /\ bridge_pid' = "unwritten" /\ sighup' = FALSE
  /\ reloader' = "wait" /\ read_config' = Defaults /\ effective' = Defaults
  /\ reloads' = 0 /\ generation' = 0
  /\ loop_config' = Defaults /\ loop_generation' = -1
  /\ rendered' = [f \in Flushers |-> -1]
  /\ UNCHANGED <<fileVars, controlVars, starts, stats>>

-----------------------------------------------------------------------------
(* The reload thread. *)

\* sigwait: signals that came meanwhile are one.
TakeSignal ==
  /\ bridge = "up" /\ reloader = "wait" /\ sighup
  /\ sighup' = FALSE
  /\ reloader' = "load"
  /\ UNCHANGED <<fileVars, controlVars, processVars, starts, read_config, effective, reloads,
                 generation, loopVars, flushVars>>

ReadConfig ==
  /\ reloader = "load"
  /\ read_config' = Loaded
  /\ reloader' = "install"
  /\ UNCHANGED <<fileVars, controlVars, processVars, sighup, starts, effective, reloads,
                 generation, loopVars, flushVars>>

\* Mutant: signals that came during the reload are taken to be part of it.
InstallConfig_clears ==
  /\ reloader = "install"
  /\ effective' = read_config
  /\ reloads' = reloads + 1 /\ generation' = generation + 1
  /\ sighup' = FALSE
  /\ reloader' = "flush"
  /\ rendered' = [rendered EXCEPT !["reload"] = StatsNow']
  /\ UNCHANGED <<fileVars, controlVars, processVars, starts, read_config, loopVars, stats>>

\* Mutant: the loops are not told.
InstallConfig_untold ==
  /\ reloader = "install"
  /\ effective' = read_config
  /\ reloads' = reloads + 1
  /\ reloader' = "flush"
  /\ rendered' = [rendered EXCEPT !["reload"] = StatsNow']
  /\ UNCHANGED <<fileVars, controlVars, processVars, sighup, starts, read_config, generation,
                 loopVars, stats>>

\* Under g_runtime_state_mutex; the flush that follows renders under it as well, and the
\* reload count is this thread's alone.
InstallConfig ==
  /\ reloader = "install"
  /\ effective' = read_config
  /\ reloads' = reloads + 1 /\ generation' = generation + 1
  /\ reloader' = "flush"
  /\ rendered' = [rendered EXCEPT !["reload"] = StatsNow']
  /\ read_config' = Defaults
  /\ UNCHANGED <<fileVars, controlVars, processVars, sighup, starts, loopVars, stats>>

-----------------------------------------------------------------------------
(* The statistics file and the telemetry loops. *)

\* write_text_file_best_effort: written whole beside the file and renamed, or not at all.
WriteStats(f) ==
  /\ rendered[f] # -1
  /\ stats' = IF disk_full THEN stats ELSE rendered[f]
  /\ rendered' = [rendered EXCEPT ![f] = -1]
  /\ reloader' = IF f = "reload" THEN "wait" ELSE reloader
  /\ bridge' = IF f = "reload" /\ bridge = "masked" THEN "up" ELSE bridge
  /\ UNCHANGED <<fileVars, controlVars, bridge_pid, sighup, starts, read_config, effective,
                 reloads, generation, loopVars>>

\* Mutant: a loop flushes when its copy of the config has changed.
LoopRenders_on_change ==
  /\ bridge = "up" /\ rendered["loop"] = -1
  /\ loop_generation # generation
  /\ rendered' = [rendered EXCEPT !["loop"] = StatsNow]
  /\ UNCHANGED <<fileVars, controlVars, processVars, sighup, starts, reloadVars, loopVars, stats>>

\* Once a second, in telemetry_loop: rendered under the lock, written outside it.
LoopRenders ==
  /\ bridge = "up" /\ rendered["loop"] = -1
  /\ rendered' = [rendered EXCEPT !["loop"] = StatsNow]
  /\ UNCHANGED <<fileVars, controlVars, processVars, sighup, starts, reloadVars, loopVars, stats>>

\* refresh_config_snapshot, at the start of a pass.
RefreshSnapshot ==
  /\ bridge = "up"
  /\ loop_generation # generation
  /\ loop_config' = effective /\ loop_generation' = generation
  /\ UNCHANGED <<fileVars, controlVars, processVars, sighup, starts, reloadVars, flushVars>>

\* The client leaves, the next one's loop starts with no copy.
LoopEnds ==
  /\ bridge = "up" /\ rendered["loop"] = -1 /\ loop_generation # -1
  /\ loop_config' = Defaults /\ loop_generation' = -1
  /\ UNCHANGED <<fileVars, controlVars, processVars, sighup, starts, reloadVars, flushVars>>

-----------------------------------------------------------------------------
ConfigInit ==
  /\ config_file = [written |-> 0, holds |-> 0, is |-> "missing"]
  /\ disk_full = FALSE
  /\ control = "ready" /\ promised = 0 /\ promised_next = 0
  /\ bridge = "dead" /\ bridge_pid = "unwritten" /\ sighup = FALSE
  /\ reloader = "wait" /\ read_config = Defaults /\ effective = Defaults
  /\ reloads = 0 /\ generation = 0
  /\ loop_config = Defaults /\ loop_generation = -1
  /\ rendered = [f \in Flushers |-> -1] /\ stats = 0
  /\ starts = 0 /\ applies = 0

ConfigControl ==
  \/ PostConfig \/ RestoreDefaults \/ EndWrite
  \/ BeginApply \/ SignalBridge \/ FindNoBridge \/ EndApply
ConfigReload  == InitialLoad \/ TakeSignal \/ ReadConfig \/ InstallConfig \/ WriteStats("reload")
ConfigLoop    == LoopRenders \/ WriteStats("loop")

ConfigNext ==
  \/ ConfigControl
  \/ DiskFills
  \/ BridgeStarts \/ RecordPid \/ StopRemovesPid
  \/ BlockSighup \/ BridgeIsToldToStop \/ BridgeDies
  \/ ConfigReload
  \/ ConfigLoop \/ RefreshSnapshot \/ LoopEnds

ConfigSpec == ConfigInit /\ [][ConfigNext]_configVars

-----------------------------------------------------------------------------
(* Properties. *)

Configs == [holds : 0 .. MaxWrites, seen : 0 .. MaxWrites]

ConfigTypeOK ==
  /\ config_file \in [written : 0 .. MaxWrites, holds : 0 .. MaxWrites,
                      is : {"missing", "empty", "cut", "whole"}]
  /\ disk_full \in BOOLEAN
  /\ control \in {"ready", "writing", "signalling", "polling"}
  /\ promised \in 0 .. MaxWrites /\ promised_next \in 0 .. MaxWrites
  /\ bridge_pid \in {"unwritten", "named", "lost"}
  /\ bridge \in {"dead", "exec", "masked", "up", "stopping"} /\ sighup \in BOOLEAN
  /\ reloader \in {"wait", "load", "install", "flush"}
  /\ read_config \in Configs /\ effective \in Configs
  /\ reloads \in Nat /\ generation \in Nat
  /\ loop_config \in Configs /\ loop_generation \in Nat \cup {-1}
  /\ rendered \in [Flushers -> Nat \cup {-1}] /\ stats \in Nat
  /\ starts \in 0 .. MaxStarts /\ applies \in 0 .. MaxApplies

\* A bridge with no reload to do has loaded at least the config of the last apply that found
\* and signalled it: no signal is lost, however it meets a reload under way, a start or a
\* write.  And it has loaded that of every apply answered before it started, found or not:
\* "the next one starts with the saved config" (control_mode.cpp:832) is kept.  An apply that
\* does not find a bridge that lives promises it nothing: it keeps what it has.
QuietMeansLoaded ==
  bridge = "up" /\ ~ sighup /\ reloader \notin {"load", "install"} => effective.seen >= promised

\* A telemetry loop that would not refresh its copy has the policies in force.
SnapshotMatches == loop_generation = generation => loop_config = effective

\* Threads that render in one order and write in the other leave an old count behind; as
\* long as the disk takes writes and a client is there it does not stay.
StatsCatchUp == <>[](~ disk_full) => []<>(bridge # "up" \/ stats = reloads)
=============================================================================
