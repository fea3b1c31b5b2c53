------------------------------ MODULE UiExport ------------------------------
(***************************************************************************)
(* ui_export_socket.cpp: the bridge's end of the socket on which openpilot's *)
(* UI exports its telemetry.  accept_loop serves one exporter at a time and  *)
(* offers what it receives to two queues; recipe_writer_loop writes them to  *)
(* the recipe file and to one snapshot file per route; stop() ends both      *)
(* threads.  Each step is what one thread does under one lock, or one call   *)
(* that can block.                                                           *)
(*                                                                          *)
(* The car is two params that openpilot writes: IsOffroad and, a while       *)
(* later, CurrentRoute, which outlives the drive until the next one starts.  *)
(* Files and their writes do not fail.                                       *)
(***************************************************************************)
EXTENDS Integers, Sequences

CONSTANTS
  MaxRecipeQueue,   \* kMaxRecipeQueue
  MaxSnapshotQueue, \* kMaxSnapshotQueue
  MaxFile,          \* kMaxSnapshotFileBytes, in records
  MaxFrames,        \* bound: frames the exporters send
  MaxConnections,   \* bound: exporters that connect
  MaxDrives         \* bound: drives

ASSUME ExportAssumption ==
  /\ MaxRecipeQueue \in Nat \ {0} /\ MaxSnapshotQueue \in Nat \ {0} /\ MaxFile \in Nat
  /\ MaxFrames \in Nat /\ MaxConnections \in Nat /\ MaxDrives \in Nat

VARIABLES
  running,        \* running_
  listening,      \* server_fd_ is open
  backlog,        \* an exporter waits to be accepted
  conn,           \* the accepted socket
  client_fd,      \* client_fd_ names it
  acceptor,       \* the accept thread's next step
  frame,          \* the frame it has received
  latest,         \* latest_: the last telemetry frame
  recipe_queue, snapshot_queue,
  sequence,       \* snapshot_sequence_
  stopping,       \* recipe_stopping_
  writer,         \* the writer thread's next step
  item, item_route, \* what it has taken, and the route it read for it
  snapshot_route, \* the route of the open snapshot file; 0: none is open
  offroad_,       \* the writer's last look at IsOffroad
  snapshots,      \* the snapshot file of each route
  recipes,        \* the recipe file
  stopper,        \* stop()'s next step
  offroad, route, drives, \* IsOffroad; CurrentRoute, 0 before the first; drives so far
  connections, frames, \* connections and frames so far
  captured,       \* history: the frames that are to be in a snapshot
  final           \* history: the routes whose snapshot file was closed when offroad

socketVars == <<listening, backlog, conn, client_fd>>
acceptVars == <<acceptor, frame, latest, captured>>
queueVars  == <<recipe_queue, snapshot_queue, sequence>>
fileVars   == <<snapshot_route, offroad_, snapshots, recipes, final>>
writerVars == <<writer, item, item_route, fileVars>>
stopVars   == <<running, stopping, stopper>>
carVars    == <<offroad, route, drives>>
boundVars  == <<connections, frames>>
vars == <<socketVars, acceptVars, queueVars, writerVars, stopVars, carVars, boundVars>>

Kinds == {"none", "recipe", "snapshot", "bad"}

\* id: which frame; kind: a recipe event, or telemetry that can go into a snapshot or
\* that cannot (too large, or not one line).
NoFrame == [id |-> 0, kind |-> "none"]

\* A record of a snapshot file.
Record(n, id) == [sequence |-> n, id |-> id]

-----------------------------------------------------------------------------
(* accept_loop and receive_one_frame. *)

AcceptorGoes(where) == acceptor' = where

AcceptLoop ==
  /\ acceptor = "loop"
  /\ AcceptorGoes(IF running THEN "accept" ELSE "done")
  /\ UNCHANGED <<socketVars, frame, latest, captured, queueVars, writerVars, stopVars, carVars,
                 boundVars>>

Accept ==
  /\ acceptor = "accept"
  /\ \/ /\ listening /\ backlog
        /\ backlog' = FALSE /\ conn' = "open"
        /\ AcceptorGoes("store")
     \/ /\ ~ listening
        /\ AcceptorGoes("loop")
        /\ UNCHANGED <<backlog, conn>>
  /\ UNCHANGED <<listening, client_fd, frame, latest, captured, queueVars, writerVars, stopVars,
                 carVars, boundVars>>

\* Mutant: running_ is not looked at again before the first recv().
StoreClient_receives_at_once ==
  /\ acceptor = "store"
  /\ client_fd' = TRUE
  /\ AcceptorGoes("recv")
  /\ UNCHANGED <<listening, backlog, conn, frame, latest, captured, queueVars, writerVars,
                 stopVars, carVars, boundVars>>

StoreClient ==
  /\ acceptor = "store"
  /\ client_fd' = TRUE
  /\ AcceptorGoes("check")
  /\ UNCHANGED <<listening, backlog, conn, frame, latest, captured, queueVars, writerVars,
                 stopVars, carVars, boundVars>>

CheckRunning ==
  /\ acceptor = "check"
  /\ AcceptorGoes(IF running THEN "recv" ELSE "close")
  /\ UNCHANGED <<socketVars, frame, latest, captured, queueVars, writerVars, stopVars, carVars,
                 boundVars>>

\* A frame arrives, perhaps one that was under way when the socket was shut down.
\* Telemetry is at once the latest of its service.
ReceiveFrame(kind) ==
  /\ acceptor = "recv" /\ conn # "gone" /\ frames < MaxFrames
  /\ frames' = frames + 1
  /\ frame' = [id |-> frames + 1, kind |-> kind]
  /\ latest' = IF kind = "recipe" THEN latest ELSE frames + 1
  /\ AcceptorGoes("offer")
  /\ UNCHANGED <<socketVars, captured, queueVars, writerVars, stopVars, carVars, connections>>

\* recv() ends, or what it got is no frame.
ReceiveFails ==
  /\ acceptor = "recv"
  /\ AcceptorGoes("close")
  /\ UNCHANGED <<socketVars, frame, latest, captured, queueVars, writerVars, stopVars, carVars,
                 boundVars>>

OfferRecipe ==
  /\ acceptor = "offer" /\ frame.kind = "recipe"
  /\ recipe_queue' = IF Len(recipe_queue) >= MaxRecipeQueue THEN recipe_queue
                     ELSE Append(recipe_queue, frame.id)
  /\ frame' = NoFrame /\ AcceptorGoes("check")
  /\ UNCHANGED <<socketVars, latest, captured, snapshot_queue, sequence, writerVars, stopVars,
                 carVars, boundVars>>

\* Mutant: the queue may hold one record too many.
QueueFull_off_by_one == Len(snapshot_queue) > MaxSnapshotQueue

QueueFull == Len(snapshot_queue) >= MaxSnapshotQueue

\* Mutant: only what is queued is numbered.
NextSequence_of_queued == IF frame.kind = "bad" \/ QueueFull THEN sequence ELSE sequence + 1

NextSequence == sequence + 1

\* What cannot be a record, or finds the queue full, takes a number all the same.
OfferSnapshot ==
  /\ acceptor = "offer" /\ frame.kind \in {"snapshot", "bad"}
  /\ sequence' = NextSequence
  /\ captured' = captured \cup {frame.id}
  /\ snapshot_queue' = IF frame.kind = "bad" \/ QueueFull THEN snapshot_queue
                       ELSE Append(snapshot_queue, Record(sequence', frame.id))
  /\ frame' = NoFrame /\ AcceptorGoes("check")
  /\ UNCHANGED <<socketVars, latest, recipe_queue, writerVars, stopVars, carVars, boundVars>>

\* The service's last record is less than 100 ms old.
OfferTooSoon ==
  /\ acceptor = "offer" /\ frame.kind = "snapshot" /\ sequence > 0
  /\ frame' = NoFrame /\ AcceptorGoes("check")
  /\ UNCHANGED <<socketVars, latest, captured, queueVars, writerVars, stopVars, carVars,
                 boundVars>>

CloseConnection ==
  /\ acceptor = "close"
  /\ client_fd' = FALSE /\ conn' = "none"
  /\ AcceptorGoes("loop")
  /\ UNCHANGED <<listening, backlog, frame, latest, captured, queueVars, writerVars, stopVars,
                 carVars, boundVars>>

\* What the accept thread does without an exporter's help: recv() blocks on a silent one.
AcceptorRuns ==
  \/ AcceptLoop \/ Accept \/ StoreClient \/ CheckRunning
  \/ ReceiveFails /\ conn \in {"gone", "shut"}
  \/ OfferRecipe \/ OfferSnapshot \/ CloseConnection

-----------------------------------------------------------------------------
(* recipe_writer_loop. *)

WriterGoes(where) == writer' = where

TakeRecipe ==
  /\ writer = "wait" /\ recipe_queue # <<>>
  /\ item' = [id |-> Head(recipe_queue), kind |-> "recipe", sequence |-> 0]
  /\ recipe_queue' = Tail(recipe_queue)
  /\ WriterGoes("route")
  /\ UNCHANGED <<socketVars, acceptVars, snapshot_queue, sequence, item_route, fileVars, stopVars,
                 carVars, boundVars>>

TakeSnapshot ==
  /\ writer = "wait" /\ recipe_queue = <<>> /\ snapshot_queue # <<>>
  /\ LET r == Head(snapshot_queue)
     IN  item' = [id |-> r.id, kind |-> "snapshot", sequence |-> r.sequence]
  /\ snapshot_queue' = Tail(snapshot_queue)
  /\ WriterGoes("route")
  /\ UNCHANGED <<socketVars, acceptVars, recipe_queue, sequence, item_route, fileVars, stopVars,
                 carVars, boundVars>>

\* Mutant: the writer ends with records in its queues.
WriterEnds_at_once ==
  /\ writer = "wait" /\ stopping
  /\ WriterGoes("done")
  /\ UNCHANGED <<socketVars, acceptVars, queueVars, item, item_route, fileVars, stopVars, carVars,
                 boundVars>>

WriterEnds ==
  /\ writer = "wait" /\ stopping /\ recipe_queue = <<>> /\ snapshot_queue = <<>>
  /\ WriterGoes("done")
  /\ UNCHANGED <<socketVars, acceptVars, queueVars, item, item_route, fileVars, stopVars, carVars,
                 boundVars>>

\* The route is read when an item is taken; without one the item is thrown away.
ReadRoute ==
  /\ writer = "route"
  /\ item_route' = route
  /\ WriterGoes(IF route = 0 THEN "wait" ELSE item.kind)
  /\ UNCHANGED <<socketVars, acceptVars, queueVars, item, fileVars, stopVars, carVars, boundVars>>

WriteRecipe ==
  /\ writer = "recipe"
  /\ recipes' = Append(recipes, item.id)
  /\ WriterGoes("wait")
  /\ UNCHANGED <<socketVars, acceptVars, queueVars, item, item_route, snapshot_route, offroad_,
                 snapshots, final, stopVars, carVars, boundVars>>

\* IsOffroad is read again when a second has gone by.  Offroad, the snapshot file is
\* closed and the record thrown away.
LookOffroad ==
  /\ writer = "snapshot"
  /\ offroad_' \in {offroad_, offroad}
  /\ IF offroad_'
       THEN /\ snapshot_route' = 0
            /\ final' = final \cup ({snapshot_route} \ {0})
            /\ WriterGoes("wait")
       ELSE /\ WriterGoes("write")
            /\ UNCHANGED <<snapshot_route, final>>
  /\ UNCHANGED <<socketVars, acceptVars, queueVars, item, item_route, snapshots, recipes, stopVars,
                 carVars, boundVars>>

\* Mutant: a file that is full takes one more record.
Fits_off_by_one == Len(snapshots[item_route]) <= MaxFile

Fits == Len(snapshots[item_route]) < MaxFile

WriteSnapshot ==
  /\ writer = "write"
  /\ snapshot_route' = item_route
  /\ snapshots' = IF Fits
                  THEN [snapshots EXCEPT ![item_route] = Append(@, Record(item.sequence, item.id))]
                  ELSE snapshots
  /\ WriterGoes("wait")
  /\ UNCHANGED <<socketVars, acceptVars, queueVars, item, item_route, offroad_, recipes, final,
                 stopVars, carVars, boundVars>>

WriterRuns ==
  \/ TakeRecipe \/ TakeSnapshot \/ WriterEnds \/ ReadRoute
  \/ WriteRecipe \/ LookOffroad \/ WriteSnapshot

-----------------------------------------------------------------------------
(* stop(). *)

StopperGoes(from, to) == stopper = from /\ stopper' = to

Stop ==
  /\ StopperGoes("idle", "server")
  /\ running' = FALSE
  /\ UNCHANGED <<socketVars, acceptVars, queueVars, writerVars, stopping, carVars, boundVars>>

ShutServer ==
  /\ StopperGoes("server", "client")
  /\ listening' = FALSE /\ backlog' = FALSE
  /\ UNCHANGED <<conn, client_fd, acceptVars, queueVars, writerVars, running, stopping, carVars,
                 boundVars>>

ShutClient ==
  /\ StopperGoes("client", "join")
  /\ conn' = IF client_fd /\ conn = "open" THEN "shut" ELSE conn
  /\ UNCHANGED <<listening, backlog, client_fd, acceptVars, queueVars, writerVars, running,
                 stopping, carVars, boundVars>>

JoinAcceptor ==
  /\ StopperGoes("join", "writer") /\ acceptor = "done"
  /\ stopping' = TRUE
  /\ UNCHANGED <<socketVars, acceptVars, queueVars, writerVars, running, carVars, boundVars>>

\* The snapshot file and the recipe file are closed.
JoinWriter ==
  /\ StopperGoes("writer", "done") /\ writer = "done"
  /\ snapshot_route' = 0
  /\ UNCHANGED <<socketVars, acceptVars, queueVars, writer, item, item_route, offroad_, snapshots,
                 recipes, final, running, stopping, carVars, boundVars>>

StopRuns == ShutServer \/ ShutClient \/ JoinAcceptor \/ JoinWriter

-----------------------------------------------------------------------------
(* Exporters and the car. *)

Connect ==
  /\ listening /\ ~ backlog /\ connections < MaxConnections
  /\ backlog' = TRUE /\ connections' = connections + 1
  /\ UNCHANGED <<listening, conn, client_fd, acceptVars, queueVars, writerVars, stopVars, carVars,
                 frames>>

ExporterDies ==
  /\ conn = "open"
  /\ conn' = "gone"
  /\ UNCHANGED <<listening, backlog, client_fd, acceptVars, queueVars, writerVars, stopVars,
                 carVars, boundVars>>

\* openpilot clears CurrentRoute before it says that the car is onroad.
ClearRoute ==
  /\ offroad /\ route # 0
  /\ route' = 0
  /\ UNCHANGED <<offroad, drives, socketVars, acceptVars, queueVars, writerVars, stopVars,
                 boundVars>>

DriveStarts ==
  /\ offroad /\ route = 0 /\ drives < MaxDrives
  /\ offroad' = FALSE /\ drives' = drives + 1
  /\ UNCHANGED <<route, socketVars, acceptVars, queueVars, writerVars, stopVars, boundVars>>

\* loggerd starts behind the drive, and names it.
LoggerStarts ==
  /\ ~ offroad /\ route # drives
  /\ route' = drives
  /\ UNCHANGED <<offroad, drives, socketVars, acceptVars, queueVars, writerVars, stopVars,
                 boundVars>>

DriveEnds ==
  /\ ~ offroad
  /\ offroad' = TRUE
  /\ UNCHANGED <<route, drives, socketVars, acceptVars, queueVars, writerVars, stopVars, boundVars>>

-----------------------------------------------------------------------------
Init ==
  /\ running = TRUE /\ listening = TRUE /\ backlog = FALSE /\ conn = "none" /\ client_fd = FALSE
  /\ acceptor = "loop" /\ frame = NoFrame /\ latest = 0 /\ captured = {}
  /\ recipe_queue = <<>> /\ snapshot_queue = <<>> /\ sequence = 0
  /\ stopping = FALSE /\ stopper = "idle"
  /\ writer = "wait" /\ item = [id |-> 0, kind |-> "none", sequence |-> 0] /\ item_route = 0
  /\ snapshot_route = 0 /\ offroad_ = FALSE /\ final = {}
  /\ snapshots = [r \in 1 .. MaxDrives |-> <<>>] /\ recipes = <<>>
  /\ offroad = TRUE /\ route = 0 /\ drives = 0 /\ connections = 0 /\ frames = 0

Next ==
  \/ AcceptLoop \/ Accept \/ StoreClient \/ CheckRunning
  \/ \E k \in Kinds \ {"none"} : ReceiveFrame(k)
  \/ ReceiveFails \/ OfferRecipe \/ OfferSnapshot \/ OfferTooSoon \/ CloseConnection
  \/ WriterRuns
  \/ Stop \/ StopRuns
  \/ Connect \/ ExporterDies
  \/ ClearRoute \/ DriveStarts \/ LoggerStarts \/ DriveEnds

Spec == Init /\ [][Next]_vars

\* Threads run; exporters, the car and the signal that stops the bridge need not.
Fairness == WF_vars(AcceptorRuns) /\ WF_vars(WriterRuns) /\ WF_vars(StopRuns)

FairSpec == Spec /\ Fairness

-----------------------------------------------------------------------------
(* Properties. *)

Records == [sequence : 1 .. MaxFrames, id : 1 .. MaxFrames]

TypeOK ==
  /\ running \in BOOLEAN /\ listening \in BOOLEAN /\ backlog \in BOOLEAN /\ client_fd \in BOOLEAN
  /\ conn \in {"none", "open", "shut", "gone"}
  /\ acceptor \in {"loop", "accept", "store", "check", "recv", "offer", "close", "done"}
  /\ frame \in [id : 0 .. MaxFrames, kind : Kinds] /\ latest \in 0 .. frames
  /\ recipe_queue \in Seq(1 .. MaxFrames) /\ Len(recipe_queue) <= MaxRecipeQueue
  /\ snapshot_queue \in Seq(Records) /\ Len(snapshot_queue) <= MaxSnapshotQueue
  /\ sequence \in 0 .. MaxFrames /\ stopping \in BOOLEAN
  /\ writer \in {"wait", "route", "recipe", "snapshot", "write", "done"}
  /\ item \in [id : 0 .. MaxFrames, kind : Kinds, sequence : 0 .. MaxFrames]
  /\ item_route \in 0 .. MaxDrives /\ snapshot_route \in 0 .. MaxDrives /\ offroad_ \in BOOLEAN
  /\ snapshots \in [1 .. MaxDrives -> Seq(Records)]
  /\ \A r \in 1 .. MaxDrives : Len(snapshots[r]) <= MaxFile
  /\ recipes \in Seq(1 .. MaxFrames)
  /\ stopper \in {"idle", "server", "client", "join", "writer", "done"}
  /\ offroad \in BOOLEAN /\ drives \in 0 .. MaxDrives /\ route \in 0 .. drives
  /\ connections \in 0 .. MaxConnections /\ frames \in 0 .. MaxFrames
  /\ captured \subseteq 1 .. frames /\ final \subseteq 1 .. MaxDrives

\* Who reads a snapshot file sees its records in the order they were received, and every
\* loss among them as a gap in the numbers, whether the frame was too large, the queue or
\* the file full, no route known or the car offroad.
GapsShow ==
  \A r \in 1 .. MaxDrives : \A i \in 1 .. Len(snapshots[r]) - 1 :
    LET a == snapshots[r][i]
        b == snapshots[r][i + 1]
    IN  /\ a.id < b.id /\ a.sequence < b.sequence
        /\ b.sequence = a.sequence + 1 => \A f \in captured : ~ (a.id < f /\ f < b.id)

\* stop() leaves nothing behind that was offered before it: both queues are empty when it
\* returns, and no exporter's socket is open.  It waits for the accept thread only once the
\* two calls that one may block in are cut off: the listener is gone, and recv() is on no
\* open socket, for one accepted too late for stop() to find it is closed unread.
StopDrains ==
  /\ stopper = "done" => recipe_queue = <<>> /\ snapshot_queue = <<>> /\ conn = "none"
  /\ stopper = "join" => ~ (acceptor = "accept" /\ listening)
  /\ stopper = "join" => ~ (acceptor = "recv" /\ conn = "open")

\* stop() returns, also while an exporter is connected that says nothing, connects just
\* now, or has been accepted but not yet stored.
StopReturns == stopper # "idle" ~> stopper = "done"

\* What ui_export_socket.cpp:419 asks for, "A finished route's snapshot must stop growing":
\* a file closed because the car was offroad does not grow again.
FinishedStopsGrowing ==
  [][\A r \in final : snapshots'[r] = snapshots[r]]_vars
=============================================================================
