# commaviewd in TLA+

CommaView shows a comma device's cameras and driving state in an app. Its device side, this
repository, is one binary (`commaviewd`, run once as `bridge` and once as `control`), an exporter
patched into openpilot's UI, and the shell scripts that install, start, stop and maintain them
beside openpilot, which they must never disturb. These modules model the parts where processes,
threads, files and power cuts meet; TLC checks them on small instances and TLAPS proves their
safety properties for every instance.

## 1. The system

| Component (source) | State it keeps | Operations | Meets |
|---|---|---|---|
| Slot-free ring reader (`msgq_ring_reader.cpp`) | mapping, cursor, pending discontinuity | `next`, `try_next`, `refresh`, `resync` | the publisher of openpilot, through shared memory with no reader slot |
| Queue peeks (`gps_peek.cpp`, used for GPS, car state, manager state) | a mapping | `newest` | the same rings |
| Video session (`bridge_runtime.cc:785-1090`, `video_transport_policy.cpp`) | start gate, frame queue, keyframe wait | ingest, pop, send chunk, backpressure, policy | ring reader above, client socket below; two threads, one mutex |
| Client wire (`bridge_runtime.cc`, `framing.cpp`, `socket.cpp`) | `send_mutex`, disconnect flags, descriptor | send with deadline and recovery, tear-down | video sender, telemetry sender, handler |
| Port slot (`bridge_runtime.cc:740-800`, `:1100-1140`, `:1290-1350`) | active counter of a port | accept, reject, hold, release | reconnecting clients |
| Telemetry emission (`telemetry_loop`, `telemetry_policy.h`) | last emission marks of a client | fetch, send, a pass over the services | UI export's latest frames, the wall clock |
| Runtime config, statistics (`runtime_debug_config.*`, `control_mode.cpp:740-840`) | config file, generation, effective and statistics files | write, apply, SIGHUP, reload, flush | bridge and control, through files and a signal |
| UI export (`ui_export_socket.cpp`) | latest frames, two bounded queues, recipe and snapshot files | accept, receive, offer, write, `stop()` | exporter in openpilot's UI; the params IsOffroad and CurrentRoute |
| HTTP server and programs (`http_server.cpp`, `control_mode.cpp:880-1000`) | one thread, pipes, a child | accept, read, answer, `run_command`, script with deadline | callers, scripts, the drive watcher's forks |
| Drive watcher, location (`control_mode.cpp:1380-1660`, `commaview_drive_stats.py`) | queue of runs, the run under way, setting, two position files | tick, enqueue, run, kill, switch on and off | road phase, HTTP thread, drive stats script |
| Pairing (`control_mode.cpp:1800-1900`) | one grant | create, redeem, expire | phones, the wall clock |
| Leaderboard (`control_mode.cpp:1690-1790`, `commaview_drive_stats.py`) | cached statement and its inputs; list, key, seq | answer, sign, replace list and key | the after-drive script |
| Road phase (`road_phase.cpp`) | nothing: three reads | `read` | queue peeks, params, the car |
| Source recording archive (`source_recording_archive.cpp`) | nothing: the files | recipe, manifest, bytes | bridge (recipes), openpilot (segments) |
| Deferred maintenance (`run_when_offroad.sh`) | job directory, `status.json`, `waiter.pid`, `runner.sh` | queue, cancel, resume, wait | API, installers, boot, the car |
| Supervisor (`start.sh`, `stop.sh`, `install.sh`) | pid files, crash count, back-off | start, restart, give up, stop | all processes of the device, through pids |
| Installer, UI patch, exporters in Python, statistics of a drive, support bundle, build tools | files | transactions over files | section 7 |

What makes them hard, and what correctness means for each:

- **Ring reader.** The publisher never waits: any word may be overwritten between two loads, the
  publisher may die inside a message, and the queue file may be replaced. Correct: only whole
  messages in order, each gap flagged; a reader that polls catches up.
- **Video session.** Frames are lost in five places, seen by two threads in different orders.
  Correct: what arrives can be decoded, and a keyframe is not held back.
- **Client wire.** Two senders, deadlines in the middle of a frame, a peer that goes at any time, a
  descriptor whose number is reused. Correct: frames do not mix, a cut frame is fatal, sessions end
  behind both joins.
- **Deferred maintenance.** Everything is a file, any two steps may be separated by a power cut or a
  start of the car. Correct: one waiter, its own job, only at rest, and an accepted job is served.
- **UI export.** Bounded queues, a file per route, params that change between two reads, a `stop()`
  that meets a blocked `recv`. Correct: losses show, a finished file stays finished, stop returns.
- **Supervisor.** Pid files outlive what they name. Correct: what was stopped stays stopped, what
  runs is watched, nobody else is signalled, what crashes comes back.
- **Port slot.** One atomic counter for clients that come, are turned away and leave at once.
  Correct: never two sessions, and no count stays behind.
- **Telemetry emission.** "Newer" is a wall-clock time on a device that sets its clock; sends fail.
  Correct: in order, no update twice, and what changes only once still has its turn.
- **Runtime config.** A signal may meet an exec, a mask, a reload or a half-written file; threads
  render under a lock and write outside it. Correct: no signal is lost, no copy passes for current
  that is not, statistics do not stay old.
- **HTTP server.** One thread serves all: a caller that stalls, a program that hangs or a pipe held
  open by somebody else's child could stop it. Correct: each connection ends.
- **Drive watcher, location.** Two threads and a process share files that no lock covers. Correct:
  each drive is read once the car rests; what is switched off is forgotten (it is not: section 5).
- **Pairing, leaderboard, road phase, queue peek, archive.** Answers put together from several
  reads. Correct: a code opens once, a statement covers the drives there were, "parked" was so, a
  peeked message is the newest, and it and a served recipe are whole.

`PROJECT.json` lists under "hazards" the places in the code where each of these can go wrong.

## 2. Modules

| Module | Models | State and actions against the code |
|---|---|---|
| `FrameFeed` | what a reader is promised | abstract: `Publish`, `Deliver` with a gap flag |
| `MsgqRing` | one queue and `QueueStreamReader` | `mem` and `pointer` are the shared file, one step per 8-byte word stored or loaded; the reader's variables have the names of its members; `TryNext`, `LoadPointer`, `LoadTag`, `CopyWord`, `Recheck` are `try_next` cut at its loads. The publisher is external (msgq), modelled from the layout the reader relies on |
| `VideoSession` | one camera client | `Take` and the `Ingest*` actions are the handler's loop up to one queued or dropped frame; `PopNext`, `ChunkSent`, `ChunkTakesNothing`, `Abandon`, `ChunkFails` are the sender thread, cut where it gives the queue's mutex back. Its input is a `FrameFeed` |
| `ClientWire` | the socket and the threads around it | `Acquire` to `Release` is `send_frame_locked`; `pc = "failed"` and `"flagged"` are the lines between the end of a failed send and `shutdown()` |
| `DeferredMaintenance` | `run_when_offroad.sh` and the resume in `start.sh` | variables are the files; `cmd` is the command running, cut at each file it writes (`ClearJob`, `CopyRunner`, `WriteArgs`, `Accept`, `StartWaiter`, `Spawn`); `waiter[w]` is a process in `cmd_wait`, whose end after an uninstall is cut at lines 256 (`Leave`) and 259 (`Wipe`) |
| `UiExport` | `SocketServer` | three threads, one step per lock or blocking call; the car is two params |
| `Supervisor` | `start_runtime_process`, `stop.sh`, `ensure_commaview_stopped` | `sup[s]` is the subshell, `proc` is `/proc`, `script` the script at work |
| `PortSlot` | a port's accept loop and its handlers | `visit[c]` is where connection c's handler is: `fetch_add`, the comparison and the `fetch_sub` are steps of their own |
| `Telemetry` | `handle_telemetry_client` and one `telemetry_loop` | `Offer(s)` puts a frame in UI export's `latest_`; `FetchLatest(s)` is window, policy and sample interval for one service, `SendUpdate` the send and the marks; `wall_clock` moves to any value; `received` and `refused` (history) are what the client got, and of what its socket took no byte |
| `RuntimeConfig` | config write, apply, reload, statistics | control's write is cut at open, write and close; `bridge` is the process from `exec` over the signal mask to its end, `bridge_pid` what `bridge.pid` is to it: an apply finds the one it names (`SignalBridge`) or none (`FindNoBridge`); `reloader` and `Flushers` are threads; `loop_config` is a telemetry loop's copy |
| `Location` | drive watcher, HTTP thread, drive stats script | `Tick` is `drive_watch_tick` cut at its looks at files; `setter` is `location_set_response`; `script` is the script, cut at its looks at the setting |
| `ControlServer` | `serve_forever`, `handle_client`, `run_command`, `run_drive_script_for_answer` | `thread` is the server's one thread; `pipe` the blocks in both pipes, and who holds their write ends |
| `Pairing` | the grant in `control_mode.cpp` | one action per route and outcome |
| `Leaderboard` | the cache and the signing script | `AnswerFromCache` and `AskScript` compare the inputs; `CountStatement`, `SignStatement` and `KeepStatement` are the script's steps, and `ScriptFails` kills it between any two |
| `RoadPhase` | `road_phase::read` | one action per read; ages of messages and of the moment the car was last so |
| `QueuePeek` | `QueuePeek::newest` | one step per word walked or copied; `expected` (history) is the message that was newest when the pointer was copied; publisher external, as in `MsgqRing` |
| `RecordingArchive` | recipe, manifest and byte ranges | an answer is read file by file while bridge and openpilot go on |
| `Picking` | loops that copy the elements of a list that pass a test | `Picked(s, I)` is used by `RecordingArchive` (lines of a route) and `Location` (runs that are kept) |
| `*Proofs` | theorems | section 6 |
| `MC*` | instances for TLC | section 3 |

`VideoSession` starts from what `FrameFeed` promises, and `MsgqRing` implements `FrameFeed`:
together they go from the words of shared memory to the client's decoder. `PortSlot` admits the
client; `ClientWire` takes over where a chunk or an update is handed to the socket; `Telemetry`
decides which update, from `UiExport`'s `latest` and `RuntimeConfig`'s policies. `RoadPhase` stands
on `QueuePeek` and is the car that `DeferredMaintenance` and `Location` see. `Supervisor` and
`DeferredMaintenance` share the boot (`start.sh`) and the power cut. These meet in values that one
side offers and the other takes as it finds them (a latest frame, a policy, a phase), so each module
lets that value be anything the other side can offer, and no product of them is built.

Definitions named `X_something` above an `X` are mutants: what `X` would be with a plausible bug.

## 3. Runs

| Run | Question | Bounds, and why they are enough |
|---|---|---|
| `msgq_ring` | Does the ring implement the feed, and is the margin of a third enough? | 12 words, sizes 1 and 3, 5 messages: two laps and a half, each with a wrap; 3 is the largest size msgq admits there, so that the margin is met exactly |
| `msgq_files` | The same when the file is removed and replaced; does a polling reader catch up? | 8 words, 2 files, 5 messages: laps in both files |
| `video_session` | Is what arrives decodable, does a keyframe get through? | queue of 2, 5 frames, 2 chunks: the queue overflows while a frame is half sent and a later one is dropped behind it; one frame skipped at the gate |
| `video_suppress` | Does the stream resume on a keyframe after suppression? **Violated** | 3 frames |
| `client_wire` (`MCDaemon`) | the daemon's threads, part by part | see below |
| `client_wire_cut` | Can bytes follow a cut frame? **Violated** | the same with 2 pieces |
| `deferred` (`MCMaintenance`) | maintenance and the reads around it, part by part | see below |
| `deferred_reboot` | Is "is running now" true? **Violated** | one job, one power cut |
| `ui_export` | Do losses show, does `stop()` return with all written? | queues of 1 and a file of 2 records, 4 frames: each limit is met and passed; one exporter, one drive |
| `ui_export_final` | Does a finished snapshot file stay finished? **Violated** | two drives, 3 frames |
| `supervisor` | Stopped, watched, signalled, restarted | 4 pids (start.sh, a supervisor an install left alive, its successor, a process or one of openpilot's), 3 scripts (start, install or stop, start), 2 crashes, exits or power cuts, so that with one restart allowed it also gives up |
| `location_off` | Are positions gone once location is off? **Violated** | one drive |

`MCDaemon` and `MCMaintenance` each check several modules in one run. A variable `part` is chosen at
the start and says which module moves; the others rest in their initial states. Nothing is composed
and nothing is lost: the behaviours are those of the parts, one after another. The parts and their
bounds:

| Run, part | Question | Bounds, and why they are enough |
|---|---|---|
| `client_wire`, wire | mixed frames, cut frames, the end of a session | both senders, rounds of 2 frames of 3 pieces: first, middle and last byte differ |
| config | is a signal lost, a copy stale, a statistic left old | 1 write, 2 starts, 2 applies: an apply before, during and after a start, of a bridge that is found or is not, and a second one that meets the reload of the first |
| slot | two sessions, a count left behind | 3 connections: one inside, one rejected, one that meets its transient count |
| telemetry | order, duplicates, a latched service's turn | 2 services, one latched, 2 updates each, 3 clock values, a window of 0: every update can be too old, have the time of the one before, or be behind it |
| location | is every drive read, and once | 1 drive and the totals and position runs around it |
| server | does every connection end | 2 callers, requests of 2 blocks, pipes of 1 block, 2 printed: a pipe fills while the other is read |
| `deferred`, deferred | one waiter, its own job, only at rest, served | 2 jobs (replacement), 2 waiters (the old one and the new), 3 and 2 polls (the phase can change inside either), 2 attempts, one power cut at any step, any of the state directory's files left by an uninstall's `rm -rf` |
| peek | is a peeked message whole, and the newest | 8 words, sizes 1 and 2, 3 in flight, 5 messages: two laps |
| road | was "parked" so | ages 0, 1 and old around a window of 1 |
| pairing | does a code open once | 2 codes, life 1, clock 0 to 2 |
| archive | is a recipe whole | 2 routes, 2 files of 2 lines, 1 segment |
| leaderboard | does a statement cover the list | 3 lists, 2 keys, 2 statements |

`client_wire` reaches 274475 distinct states, `deferred` 589237.

Counters that the code never bounds (messages, frames, jobs, crashes, power cuts) are capped in the
guards by constants marked "bound" in the modules. Deadlock is checked in `msgq_ring`, `msgq_files`
and `deferred_reboot`, whose systems never stop; a session, a socket server, a client that has hung
up, a car that has had its drives and a device with no script left to run do stop, and their
configurations say so.

## 4. Fairness

- `MsgqRing`: `WF(Reader)` is the polling loop of `next()`; `SF(TryNextRefresh)` is the look at the
  file, forced once a second, which the clock brings about however often a poll finds nothing. The
  publisher has none: it may go quiet or die.
- `VideoSession`: `WF(Sender)`: the thread's loop, woken by its condition variable. Nothing is
  assumed of the encoder, the socket or the ingest thread.
- `ClientWire`: `WF` of each sender and of the handler: sends have deadlines and loops poll with
  time-outs, so none blocks for ever. A mutex is given back by a fair step, and a session only has
  two senders. The client has none.
- `RuntimeConfig`: `WF` of the reload thread and of a telemetry loop that stays. Statistics catch up
  only if the disk ends up taking writes: the property says so. Control mode and the bridge's life
  have none.
- `PortSlot`: `WF` of the accept loop, of each handler and of a client that wants a session, which
  tries again (the app does). The property supposes in its own text that the others give up.
- `Telemetry`: `SF` of each service's turn, because a pass takes the services one after another and
  sends in between make its guard come and go; `WF` of the send, which has a deadline, and of the
  handler. The exporter, the clock and the client have none.
- `Location`: `WF` of the 5 s tick and of the passing of the times it waits for. The script has none:
  a run that hangs is killed when it is overdue.
- `ControlServer`: `WF` of the server thread, of its deadlines, of the program `run_command` waits
  for (`ChildPrints`, `ChildEnds`: nmcli and the scripts end) and of the watcher's, which is killed
  at a deadline. The callers have none.
- `DeferredMaintenance`: `WF` of the boot together with the command at work (no command runs before the
  boot has resumed the queue), and of each waiter; each is a sequential script. Not of the car, the
  power, or the person who queues and cancels. `AcceptedJobIsServed` assumes in its own text that the
  car comes to rest.
- `UiExport`: `WF` of the writer, of `stop()`, and of the accept thread except for `recv` on a live
  exporter that says nothing.
- `Supervisor`: `WF` of each supervisor and of the script at work; their sleeps end. Not of the
  processes: one may ignore SIGTERM for ever, and is then killed.

## 5. What the runs show

The properties are stated above their definitions. In short: the ring's two margins suffice, also for a
publisher that died inside a message; every path by which a frame is dropped leads to a keyframe wait
except two that the code treats as intended (suppression and unparsed messages); the tear-down order in
`handle_video_client` leaves no thread waiting; the maintenance queue keeps one waiter and one job
through power cuts at any point, until a job is queued under an uninstall that is ending; a snapshot
file's numbers expose every loss; a supervisor that has lost its file never starts anything. A port's
counter is exact; no reload signal that was sent is lost, whatever it meets; updates keep their order on
any clock; every request to the API ends and every drive is read, once; "parked", a recipe, a statement
and a pairing code are what they claim.

Some sentences one would like to state are not true, and the properties say something weaker:

- "A config that was applied has been reloaded since" fails when an earlier reload ends late:
  `QuietMeansLoaded` speaks of a bridge that has no signal pending and no reload under way, and of the
  last apply that signalled it. An apply that does not find the bridge promises the next one only
  (`promised_next`), although this one lives: `bridge.pid` is written after the fork
  (`start.sh:274-276`), is left empty for that bridge's whole life if the disk is full then, and is
  removed by `stop.sh:89` before a stop that may fail. The answer then says `appliesOnNextStart`
  and `bridgeRunning` false, and the bridge keeps its old config until it ends. A file
  read while control writes it is cut; a cut or empty one is valid and yields defaults, until the
  signal that follows the write.
- `telemetry_policy.h:84-85` says each new client is sent a latched service once. It is tried once: a
  send that took no byte sets the marks all the same (`bridge_runtime.cc:1183`), and that update is
  not sent to that client again. `LatchedArrives` says that a client that stays gets the update, or
  its socket took no byte of it. Two updates in one millisecond, or a clock set
  back, hide one: `EmitsInOrder` is about those that are sent.
- "The job in the directory is the waiter's and has a waiter" (`WaiterKeepsItsJob`) ends where a job is
  queued between lines 256 and 259 of an uninstall's waiter: it is no longer named, so the command
  does not stop it, and its `rm -rf` takes the new job, its runner or its `waiter.pid`, in part or in
  whole, and what is left may never be started or run with a file missing. The model takes that step
  (`Wipe`) and records it (`trampled`); from there on `WaiterKeepsItsJob`, the bound of the attempts
  and `AcceptedJobIsServed` claim nothing, and `StartsQuiet` holds all the same.
- `gps_peek.h` says that a read which is overtaken is dropped. A walk that is overtaken is led by
  whatever bytes stand there, and stopped by nonsense sizes only: `PeekIsNewest` excepts it (`astray`).
- A run of the drive script that is queued in memory is lost when control mode restarts or cannot
  fork; `EveryDriveIsRead` is about one life of the process. The comment at `control_mode.cpp:1528`
  says otherwise of a run that is under way: it goes on.
- `road_phase.h:8-12` speaks of MADS and of selfdriveStateSP; the code reads no such queue, and the
  model follows the code.
- A recipe file over 2 MB makes every recipe a 413, also of routes that are not in it: the model has
  it, no property forbids it.

Five runs end in a violation, each of a sentence the repository says about itself:

1. **`client_wire_cut`.** A sender that cut a frame gives up `send_mutex` before it shuts the socket
   down. In between the other sender may write a frame behind the half one.
2. **`video_suppress`.** After suppression ends, the first frame sent may be a delta frame whose
   predecessor was dropped, with consecutive numbers.
3. **`deferred_reboot`.** After a power cut during a job, its `started_at_ms` makes `queue` and
   `cancel` refuse with "is running now" although nothing runs, until the waiter starts the job again.
4. **`ui_export_final`.** CurrentRoute is read before IsOffroad. A drive that starts between the two
   reads reopens, and appends to, the finished route's snapshot file.
5. **`location_off`.** The drive watcher looks at the setting and then writes the last position, and
   the request that switches location off takes no lock that it holds: between the two, the request
   deletes the files and answers "off", and the position is back afterwards.

## 6. What is proved

All theorems hold for every value of the constants that satisfies the module's ASSUME.

- **`MsgqRingProofs`**: `TypeCorrect`, `MarginIsEnough`, `RingImplementsFeed`. The assumption is
  msgq's own: three messages with their tags fit the ring. `StillOursIsIntact` is not inductive; the
  invariant adds `LogInv` (items lie one behind the other and end at the pointer), `MemInv` (an item
  of this lap, or of the last one and a third ahead, is untouched), `WriterInv` (the message being
  written and where the next one may begin), and for the refinement `CursorInv`, `ReadInv` and
  `GotInv`. The difficult case is a wrap tag that is no tag: the size word is read after the pointer
  was checked, and a lapped reader may meet a payload word that says -1 and follow it with no second
  look. `Doomed` says that the pointer is then already so far ahead that the next look resyncs: the
  quarter the reader may be behind and the third that is kept free leave more than a quarter.
- **`DeferredProofs`**: `TypeCorrect` (which bounds the attempts by `MAX_ATTEMPTS` plus one per power
  cut), `WaiterAndJobAgree`, `JobStartsQuiet`. The invariant has two parts. `Sound` holds always: types
  and `Counts` (`stable` never counts more than the last polls that agree). `Agreed` holds until a
  job is trampled on: at most one waiter that is not wiping lives and `waiter.pid` names it; a command
  changes the job directory only where no such waiter lives (`Alone`); only a waiter that runs a job,
  or a command about to drop it, sees the last attempt counted (`AttemptInv`); and `KeeperInv` follows
  who answers for the job: a command leaves it without a waiter only on its way to `start`, a power
  cut only until `start.sh` resumes the queue, for which the runner must still exist. A `Wipe` that
  finds nobody else's files keeps `Agreed`; any other one sets `trampled`.
- **`VideoProofs`**: `VideoTypeCorrect`, `StreamDecodes` (`Decodable`). The invariant is a chain: the
  frame the sender took and those in the queue each follow the one before, as its successor, as a
  keyframe or excused (`QueueInv`, `SendInv`); the head of the queue follows what was sent or the
  keyframe flag is set (`ChainInv`); and a started gate has either just queued the last message or
  has a reason why not (`IngestInv`). `ChainGrows` and `ChainShortens` are the two facts about
  sequences it rests on. Frame numbers are increasing throughout, not only from one frame to the
  next: the sender skips to a keyframe anywhere in the queue.
- **`UiExportProofs`**: `ExportTypeCorrect`, `EveryLossShows` (`GapsShow`), `StopLeavesNothing`
  (`StopDrains`). A record wanders from the queue through the writer's hands into a file, so the
  invariant is about the set of all records wherever they are (`AllRecords`): two with successive
  numbers have no captured frame between them, and one that has the last number is not older than any
  captured frame (`RecordInv`); files, hands and queue are in order (`OrderInv`). A lost frame then
  needs no record: it took a number. `StopDrains` also says that `stop()` never waits for an accept
  thread that could block: that thread comes to `recv` only past a look at `running_` with its socket
  stored (`CutOffInv`), so whoever is in `recv` when `stop()` gets to the socket was there before.
- **`SupervisorProofs`**: `SupervisorTypeCorrect`, `NothingComesBack`, `WhatRunsIsWatched`,
  `OthersAreSpared`. Two facts carry them (`OwnerInv`): only a new supervisor, whose script waits for
  it, or the owner of the file starts a process; and from a script's scan of `/proc` on nobody owns
  the file, so that what the scan did not find cannot come after it. Targets are chosen among our own
  and only become ours or free while the script runs (`ScriptInv`).
- **`DaemonProofs`**, the parts of `MCDaemon`.
  - Wire: `WireTypeCorrect`, `OneFrameAtATime`, `CutEndsTheSession`, for any set of senders the
    assumption allows. `MutexInv` (who is inside a frame, and nobody else, holds the
    mutex) makes them inductive together.
  - Slot: `CounterIsExact` and `PortServesOne` (the counter is the cardinality of who has taken it and
    not given it back), for any finite set of connections.
  - Telemetry: `MarksAreInvariant` and `UpdatesArriveInOrder` (a mark never falls behind a frame the
    client has: `MarksKnow`), for any window, interval and clock.
  - Config: `ConfigIsInvariant`, `PromiseIsKept` and `SameGenerationSamePolicies` (`PromiseInv` says of
    every point of a reload that what was read is as new as the promise to this bridge, or a signal is
    pending, and that the next bridge is promised no less and no more than the file has).
  - Location: `LocationTypeCorrect` and `EveryDriveHasOnePlace`: a drive the watcher has noticed is
    being driven, waits in exactly one queued run, or is over with. The queue is edited by filters
    and by taking one run out of the middle; the lemmas about those carry the proof.
  - Server: `ServerTypeCorrect`, `NobodyWaitsInACircle` and `ProgramsLeaveNothing`: `run_command` reads
    stdout to its end before stderr, so a program that fills stderr first would stop both for ever.
    The circle cannot close because what is in the stderr pipe and what is still to come fit it
    together; that a program prints no more than a pipe on stderr is a named bound of the model
    (`PipeBlocks`, section 7), not something the code enforces.
- **`MaintenanceProofs`**, the parts of `MCMaintenance` but the deferred queue.
  - Peek: `PeekTypeCorrect` and `PeekedIsNewest`, for any ring, sizes below the margin and number of
    messages. From the moment the pointer was copied the writer changes no word between a low mark
    and the copied pointer: the ring's start while the writer is in the same lap, then the end of
    what it may be writing. The mark only rises, so what lies above it at the last look has lain there
    all along (`LapInv`, `SnapshotInv`); that a walk ends on the newest message and no other is
    `NewestInv`.
  - Road phase: `PhaseIsInvariant` and `ParkedIsRecent`, for any window. Pairing: `PairingIsInvariant`
    and `CodeIsGoodOnce`, for any life time and clock. Leaderboard: `BoardIsInvariant` and
    `AnswersCover`, for any number of lists, keys and statements.
  - Archive: `ArchiveTypeCorrect` and `ServedRecipeIsWhole`, for any number of files and lines: a line
    that is due is in the answer or in a file still to be read. Which lines of a file belong to a route
    is a `Picked` (module `Picking`), and **`PickingProofs`** shows what it returns (`PickedPicks`): the
    chosen elements, all of them, in their order. That would be an induction over the sequence; it is an
    argument by the least counterexample instead, which the prover can follow.

`DaemonTypeCorrect`, `DaemonIsSafe`, `MaintenanceTypeCorrect` and `MaintenanceIsSafe` state the same
of the composed specifications that the two runs check: `DaemonRunsItsParts` and
`MaintenanceRunsItsParts` show that a behaviour of either is one of each of its parts. So every
invariant and every action property of a passing run is proved for all constants.

`NoCircularWait` and `NothingLeftOver` are proved and were checked by TLC on small instances of their
module, and are properties of no run.

Only model-checked: liveness (`CatchesUp`, `KeyframeGetsThrough`, `SessionEnds`,
`AcceptedJobIsServed`, `StopReturns`, `CrashedComesBack`, `StatsCatchUp`, `SlotComesBack`,
`LatchedArrives`, `EveryDriveIsRead`, `EveryRequestIsAnswered`): fairness and ENABLED are out of the
prover's reach. Of some of them the proved theorems hold the part that a wrong step would break:
`StopDrains` that nothing is left for `stop()` to block on, `FramesDoNotInterleave` that a mutex
nobody gives back does not exist, `WaiterKeepsItsJob` that a job always has who will start it,
`CounterIsExact` that no count stays behind, `EachDriveOnce` that no drive is forgotten,
`NoCircularWait` that the server and its program are never both blocked. The five violated sentences
have their counterexamples from TLC.

## 7. Abstractions, and what is not modelled

- `MsgqRing`: lap counters do not wrap (2^32 laps); `stat` and `open` of the queue file are one step;
  loads and stores of a word are atomic and in program order, except inside `memcpy`.
- `VideoSession`: chunks are counted, not encoded; statistics and TCP snapshots are left out.
- `ClientWire`: a frame is a few pieces; deadlines may expire at any send.
- `DeferredMaintenance`: commands do not overlap (the HTTP server handles one request at a time,
  `http_server.cpp:196-217`); `kill` takes effect at once. The waiter's `rm` of `waiter.pid` and, unless
  an uninstall has yet to wipe the directory, its exit are one step: nobody finds it in between. The
  wipe is one step that removes any of the files, save that it never takes a `waiter.pid` and leaves
  the job that was there before it. A job
  whose waiter is killed as it starts runs on as an orphan: the model has it, nothing forbids it.
- `UiExport`: the 100 ms limit per service and the age of the look at IsOffroad are free choices;
  file writes and `start()` succeed; a message counts against a file's limit as one record.
- `Supervisor`: one component with one supervisor; scripts do not overlap; looking at the supervisor
  file and starting the process is one step against a script's pass over `/proc`; no pid is reused
  while a script runs, save by supervisors. `NoPidLeft` excuses an instance of four pids.
- `PortSlot`: what a session does is `ClientWire`'s; `listen` does not fail. At its end `main` returns
  while detached client threads may still run (`bridge_runtime.cc:1347`): the process ends with it.
- `Telemetry`: one connection, one loop; a frame is its number and its time.
- `RuntimeConfig`: the policies of all services are one value; the effective file is written with the
  statistics and not told apart. A bridge started under `nohup` ignores SIGHUP from `exec` until it
  masks the signal. `bridge.pid` is what it is to the bridge that lives: one that names a dead process,
  or another's, is as none (`running_bridge_pid` looks at the command line). Looking for the bridge and
  signalling it are one step.
- `Location`: times are flags; a position is its being there; the script looks at the setting twice
  before it writes the last position, and the model's look is the second. A fork that fails is left out.
- `ControlServer`: a block is a block; a program prints at most a pipe's capacity on stderr
  (`PipeBlocks`), for one that prints more would stop `run_command` for ever: nmcli and the
  repository's scripts do not. The pipes have no close-on-exec flag and the model's watcher inherits
  them.
- `Pairing`, `Leaderboard`: one request at a time; two codes never agree by chance; files replaced
  whole have a version of their own.
- `QueuePeek`: as `MsgqRing`; parsing what was peeked is left out, and a failed parse is a peek that
  returned nothing.
- `RecordingArchive`: names and queries are left out; a query that does not parse is a 400.
- Not modelled, and why: video send accounting (counters nothing is decided by), the support bundle
  (one pass over files, no state), the mode router and command line (no state), build, CI and bench
  tools, the text of answers and of chunk headers (formatting, fixed by unit tests), the Python
  exporters (they run in openpilot's UI; `UiExport` lets a peer do anything they can), the
  installer's and the UI patch's transactions, and how a drive's statistics are computed.

## 8. Plan

Done, in this order: the ring and its feed, the video session, the wire, deferred maintenance, UI
export, the supervisor; then the port's slot, telemetry, the runtime config, location and the drive
watcher, the control server, pairing, the leaderboard, the road phase over the queue peek, and the
archive; proofs for all of these. What is left, by what it would add:

1. `Install`: the transaction with its backups and rollback, and the UI patch's apply, verify and
   revert, across a power cut and a supervisor that runs meanwhile.
2. The incremental cache of drive statistics against a full recomputation, with segments that are
   deleted and a run that is killed.
3. The Python exporters' pending slots, and `UiExport` composed with them.
4. `Telemetry` composed with `UiExport` and two loops, against an abstract "latest value" that both
   implement.
5. Pure algorithms against reference definitions: chunk planning, byte ranges.
