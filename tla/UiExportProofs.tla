---------------------------- MODULE UiExportProofs ----------------------------
(***************************************************************************)
(* The UI export socket for queues and files of any length, and any number  *)
(* of frames, exporters and drives.                                         *)
(*                                                                          *)
(* That every loss shows is a fact about all records, wherever they are: in *)
(* a file, in the writer's hands or in the queue.  Records with successive  *)
(* numbers have no captured frame between them, and who has the last number *)
(* is not older than any captured frame.                                    *)
(***************************************************************************)
EXTENDS UiExport, SequenceTheorems, TLAPS

-----------------------------------------------------------------------------
(* The type invariant, thread by thread. *)

SocketTypes ==
  /\ listening \in BOOLEAN /\ backlog \in BOOLEAN /\ client_fd \in BOOLEAN
  /\ conn \in {"none", "open", "shut", "gone"}
  /\ acceptor \in {"loop", "accept", "store", "check", "recv", "offer", "close", "done"}

FrameTypes ==
  /\ frame \in [id : 0 .. MaxFrames, kind : Kinds] /\ latest \in 0 .. frames
  /\ captured \subseteq 1 .. frames
  /\ connections \in 0 .. MaxConnections /\ frames \in 0 .. MaxFrames

QueueTypes ==
  /\ recipe_queue \in Seq(1 .. MaxFrames) /\ Len(recipe_queue) <= MaxRecipeQueue
  /\ snapshot_queue \in Seq(Records) /\ Len(snapshot_queue) <= MaxSnapshotQueue
  /\ sequence \in 0 .. MaxFrames

WriterTypes ==
  /\ writer \in {"wait", "route", "recipe", "snapshot", "write", "done"}
  /\ item \in [id : 0 .. MaxFrames, kind : Kinds, sequence : 0 .. MaxFrames]
  /\ item_route \in 0 .. MaxDrives /\ snapshot_route \in 0 .. MaxDrives /\ offroad_ \in BOOLEAN
  /\ snapshots \in [1 .. MaxDrives -> Seq(Records)]
  /\ \A r \in 1 .. MaxDrives : Len(snapshots[r]) <= MaxFile
  /\ recipes \in Seq(1 .. MaxFrames) /\ final \subseteq 1 .. MaxDrives

StopTypes ==
  /\ running \in BOOLEAN /\ stopping \in BOOLEAN
  /\ stopper \in {"idle", "server", "client", "join", "writer", "done"}

CarTypes == offroad \in BOOLEAN /\ drives \in 0 .. MaxDrives /\ route \in 0 .. drives

Types == SocketTypes /\ FrameTypes /\ QueueTypes /\ WriterTypes /\ StopTypes /\ CarTypes

-----------------------------------------------------------------------------
(* The invariant. *)

\* Who has ended leaves nothing behind.
ThreadInv ==
  /\ acceptor \in {"loop", "accept", "done"} => conn = "none"
  /\ stopping <=> stopper \in {"writer", "done"}
  /\ stopping => acceptor = "done"
  /\ writer = "done" => stopping /\ recipe_queue = <<>> /\ snapshot_queue = <<>>
  /\ stopper = "done" => writer = "done"

\* The frame in the acceptor's hands is newer than all that was captured.
FrameInv ==
  /\ sequence <= frames
  /\ acceptor = "offer" =>
       /\ frame.id = frames /\ frames >= 1 /\ frame.kind # "none"
       /\ sequence < frames /\ \A f \in captured : f < frames

\* The item in the writer's hands.
ItemInv ==
  /\ writer = "route" => item.kind \in {"recipe", "snapshot"}
  /\ writer \in {"route", "recipe", "snapshot", "write"} => item.id >= 1
  /\ writer = "recipe" => item.kind = "recipe"
  /\ writer \in {"snapshot", "write"} => item.kind = "snapshot" /\ item_route >= 1
  /\ writer \in {"route", "snapshot", "write"} /\ item.kind = "snapshot" => item.sequence >= 1

Elems(q) == {q[i] : i \in 1 .. Len(q)}

Written == UNION {Elems(snapshots[r]) : r \in 1 .. MaxDrives}

Held ==
  IF writer \in {"route", "snapshot", "write"} /\ item.kind = "snapshot"
    THEN {Record(item.sequence, item.id)} ELSE {}

AllRecords == Written \cup Held \cup Elems(snapshot_queue)

\* The numbers of the records of q, and of all of s and all of t.
Increasing(q) == \A i \in 1 .. Len(q) : \A j \in i + 1 .. Len(q) : q[i].sequence < q[j].sequence
Before(s, t) == \A x \in s, y \in t : x.sequence < y.sequence

OrderInv ==
  /\ \A r \in 1 .. MaxDrives : Increasing(snapshots[r])
  /\ Increasing(snapshot_queue)
  /\ Before(Written, Held) /\ Before(Written, Elems(snapshot_queue))
  /\ Before(Held, Elems(snapshot_queue))

LossShows(x, y) ==
  x.sequence < y.sequence =>
    /\ x.id < y.id
    /\ y.sequence = x.sequence + 1 => \A f \in captured : ~ (x.id < f /\ f < y.id)

RecordInv ==
  /\ \A x \in AllRecords :
       /\ x.sequence <= sequence /\ x.id \in captured
       /\ x.sequence = sequence => \A f \in captured : f <= x.id
  /\ \A x, y \in AllRecords : LossShows(x, y)

ExportInv == Types /\ ThreadInv /\ FrameInv /\ ItemInv /\ OrderInv /\ RecordInv

LEMMA TypesAreTypes == Types <=> TypeOK
BY DEF Types, TypeOK, SocketTypes, FrameTypes, QueueTypes, WriterTypes, StopTypes, CarTypes

LEMMA ExportStarts == Init => ExportInv
<1> SUFFICES ASSUME Init PROVE ExportInv
  OBVIOUS
<1> USE ExportAssumption
<1>1. Len(<<>>) = 0 /\ <<>> \in Seq(Records) /\ <<>> \in Seq(1 .. MaxFrames)
  BY EmptySeq
<1>2. SocketTypes /\ FrameTypes /\ StopTypes /\ CarTypes
  <2>1. SocketTypes /\ StopTypes
    BY DEF Init, SocketTypes, StopTypes
  <2>2. frame \in [id : 0 .. MaxFrames, kind : Kinds]
    BY DEF Init, NoFrame, Kinds
  <2>3. FrameTypes
    BY <2>2 DEF Init, FrameTypes
  <2>4. CarTypes
    BY DEF Init, CarTypes
  <2> QED BY <2>1, <2>3, <2>4
<1>3. QueueTypes
  BY <1>1 DEF Init, QueueTypes
<1>4. WriterTypes
  <2>1. item \in [id : 0 .. MaxFrames, kind : Kinds, sequence : 0 .. MaxFrames]
    BY DEF Init, Kinds
  <2>2. /\ snapshots \in [1 .. MaxDrives -> Seq(Records)]
        /\ \A r \in 1 .. MaxDrives : Len(snapshots[r]) <= MaxFile
    BY <1>1 DEF Init
  <2>3. recipes \in Seq(1 .. MaxFrames) /\ final \subseteq 1 .. MaxDrives
    BY <1>1 DEF Init
  <2>4. /\ writer \in {"wait", "route", "recipe", "snapshot", "write", "done"}
        /\ item_route \in 0 .. MaxDrives /\ snapshot_route \in 0 .. MaxDrives /\ offroad_ \in BOOLEAN
    <3>1. writer = "wait" /\ item_route = 0 /\ snapshot_route = 0 /\ offroad_ = FALSE
      BY DEF Init
    <3>2. 0 \in 0 .. MaxDrives
      OBVIOUS
    <3> QED BY ONLY <3>1, <3>2
  <2> QED BY <2>1, <2>2, <2>3, <2>4 DEF WriterTypes
<1>5. ThreadInv /\ FrameInv /\ ItemInv
  BY DEF Init, ThreadInv, FrameInv, ItemInv
<1>6. \A r \in 1 .. MaxDrives : snapshots[r] = <<>>
  BY DEF Init
<1>7. Written = {} /\ Held = {} /\ Elems(snapshot_queue) = {}
  BY <1>1, <1>6 DEF Init, Written, Held, Elems
<1>8. OrderInv /\ RecordInv
  BY <1>1, <1>6, <1>7 DEF Init, OrderInv, RecordInv, Increasing, Before, AllRecords
<1> QED BY <1>2, <1>3, <1>4, <1>5, <1>8 DEF ExportInv, Types

-----------------------------------------------------------------------------
(* What leaves the records as they are, or fewer. *)

LEMMA RecordsStay ==
  ASSUME OrderInv, RecordInv,
         UNCHANGED <<snapshots, snapshot_queue, writer, item, sequence, captured>>
  PROVE  OrderInv' /\ RecordInv'
<1>1. Written' = Written /\ Held' = Held /\ Elems(snapshot_queue)' = Elems(snapshot_queue)
  BY DEF Written, Held, Elems, Record
<1>2. OrderInv'
  BY <1>1 DEF OrderInv, Increasing, Before
<1>3. RecordInv'
  BY <1>1 DEF RecordInv, LossShows, AllRecords
<1> QED BY <1>2, <1>3

LEMMA FewerRecords ==
  ASSUME RecordInv, AllRecords' \subseteq AllRecords, UNCHANGED <<sequence, captured>>
  PROVE  RecordInv'
BY DEF RecordInv, LossShows

\* The head of the queue and what is left of it.
LEMMA HeadLeaves ==
  ASSUME NEW q \in Seq(Records), q # <<>>, Increasing(q)
  PROVE  /\ Head(q) \in Records /\ Tail(q) \in Seq(Records) /\ Len(Tail(q)) = Len(q) - 1
         /\ Elems(q) = {Head(q)} \cup Elems(Tail(q)) /\ Increasing(Tail(q))
         /\ Before({Head(q)}, Elems(Tail(q)))
<1>1. /\ Head(q) \in Records /\ Tail(q) \in Seq(Records) /\ Len(Tail(q)) = Len(q) - 1
      /\ \A i \in 1 .. Len(Tail(q)) : Tail(q)[i] = q[i + 1]
      /\ Len(q) \in Nat /\ Len(q) >= 1 /\ Head(q) = q[1]
  BY HeadTailProperties, EmptySeq
<1> DEFINE t == Tail(q)
<1> HIDE DEF t
<1>2. /\ t \in Seq(Records) /\ Len(t) = Len(q) - 1
      /\ \A i \in 1 .. Len(t) : t[i] = q[i + 1]
  BY <1>1 DEF t
<1>3. Elems(q) = {q[1]} \cup Elems(t)
  <2>1. ASSUME NEW x \in Elems(q) PROVE x \in {q[1]} \cup Elems(t)
    <3>1. PICK i \in 1 .. Len(q) : x = q[i]
      BY DEF Elems
    <3>2. CASE i = 1
      BY <3>1, <3>2
    <3>3. CASE i # 1
      <4>1. i - 1 \in 1 .. Len(t) /\ (i - 1) + 1 = i
        BY <1>1, <1>2, <3>3
      <4> QED BY <1>2, <3>1, <4>1 DEF Elems
    <3> QED BY <3>2, <3>3
  <2>2. \A i \in 1 .. Len(t) : t[i] \in Elems(q)
    <3>1. \A i \in 1 .. Len(t) : i + 1 \in 1 .. Len(q)
      BY <1>1, <1>2
    <3> QED BY <1>2, <3>1 DEF Elems
  <2>3. q[1] \in Elems(q)
    BY <1>1 DEF Elems
  <2> QED BY <2>1, <2>2, <2>3 DEF Elems
<1>4. Increasing(t)
  <2> SUFFICES ASSUME NEW i \in 1 .. Len(t), NEW j \in i + 1 .. Len(t)
               PROVE  t[i].sequence < t[j].sequence
    BY DEF Increasing
  <2>1. i + 1 \in 1 .. Len(q) /\ j + 1 \in (i + 1) + 1 .. Len(q) /\ j \in 1 .. Len(t)
    BY <1>1, <1>2
  <2> QED BY <1>2, <2>1 DEF Increasing
<1>5. \A i \in 1 .. Len(t) : q[1].sequence < t[i].sequence
  <2>1. \A i \in 1 .. Len(t) : 1 \in 1 .. Len(q) /\ i + 1 \in 1 + 1 .. Len(q)
    BY <1>1, <1>2
  <2> QED BY <1>2, <2>1 DEF Increasing
<1>6. Before({q[1]}, Elems(t))
  BY <1>5 DEF Before, Elems
<1> QED BY <1>1, <1>3, <1>4, <1>6 DEF t

\* A record with a greater number is appended.
LEMMA RecordAppended ==
  ASSUME NEW q \in Seq(Records), NEW x \in Records, Increasing(q), Before(Elems(q), {x})
  PROVE  /\ Append(q, x) \in Seq(Records) /\ Len(Append(q, x)) = Len(q) + 1
         /\ Elems(Append(q, x)) = Elems(q) \cup {x} /\ Increasing(Append(q, x))
<1> DEFINE a == Append(q, x)
<1>1. /\ a \in Seq(Records) /\ Len(a) = Len(q) + 1 /\ a[Len(q) + 1] = x
      /\ \A i \in 1 .. Len(q) : a[i] = q[i]
  BY AppendProperties
<1>2. Len(q) \in Nat /\ \A i \in 1 .. Len(q) : q[i] \in Elems(q)
  BY DEF Elems
<1> HIDE DEF a
<1>3. Elems(a) = Elems(q) \cup {x}
  <2>1. 1 .. Len(a) = (1 .. Len(q)) \cup {Len(q) + 1}
    BY <1>1, <1>2
  <2> QED BY <1>1, <2>1 DEF Elems
<1>4. Increasing(a)
  <2> SUFFICES ASSUME NEW i \in 1 .. Len(a), NEW j \in i + 1 .. Len(a)
               PROVE  a[i].sequence < a[j].sequence
    BY DEF Increasing
  <2>1. i \in 1 .. Len(q)
    BY <1>1, <1>2
  <2>2. CASE j \in 1 .. Len(q)
    BY <1>1, <2>1, <2>2 DEF Increasing
  <2>3. CASE j = Len(q) + 1
    BY <1>1, <1>2, <2>1, <2>3 DEF Before
  <2> QED BY <1>1, <1>2, <2>2, <2>3
<1> QED BY <1>1, <1>3, <1>4 DEF a

-----------------------------------------------------------------------------
(* The accept thread and the exporters. *)

\* What the accept thread and the exporters do with the socket changes no record.
LEMMA SocketKeeps ==
  ASSUME ExportInv,
         \/ AcceptLoop \/ Accept \/ StoreClient \/ CheckRunning \/ ReceiveFails \/ OfferTooSoon
         \/ CloseConnection \/ Connect \/ ExporterDies
  PROVE  ExportInv'
<1> USE ExportAssumption DEF ExportInv, Types
<1>1. /\ UNCHANGED <<latest, captured, frames>>
      /\ UNCHANGED queueVars /\ UNCHANGED writerVars /\ UNCHANGED stopVars /\ UNCHANGED carVars
      /\ frame' \in {frame, NoFrame} /\ (acceptor' = "offer" => acceptor = "offer" /\ frame' = frame)
  BY DEF AcceptLoop, Accept, StoreClient, CheckRunning, ReceiveFails, OfferTooSoon, CloseConnection,
         Connect, ExporterDies, AcceptorGoes, acceptVars, boundVars
<1>2. connections' \in 0 .. MaxConnections
  BY DEF AcceptLoop, Accept, StoreClient, CheckRunning, ReceiveFails, OfferTooSoon, CloseConnection,
         Connect, ExporterDies, boundVars, FrameTypes
<1>3. SocketTypes'
  BY DEF AcceptLoop, Accept, StoreClient, CheckRunning, ReceiveFails, OfferTooSoon, CloseConnection,
         Connect, ExporterDies, AcceptorGoes, acceptVars, socketVars, SocketTypes
<1>4. /\ acceptor' \in {"loop", "accept", "done"} => conn' = "none"
      /\ acceptor = "done" => acceptor' = "done"
  BY DEF AcceptLoop, Accept, StoreClient, CheckRunning, ReceiveFails, OfferTooSoon, CloseConnection,
         Connect, ExporterDies, AcceptorGoes, acceptVars, socketVars, ThreadInv
<1>5. NoFrame \in [id : 0 .. MaxFrames, kind : Kinds]
  BY DEF NoFrame, Kinds
<1>6. FrameTypes'
  BY <1>1, <1>2, <1>5 DEF FrameTypes
<1>7. QueueTypes' /\ WriterTypes' /\ StopTypes' /\ CarTypes'
  BY <1>1 DEF QueueTypes, WriterTypes, StopTypes, CarTypes, queueVars, writerVars, fileVars,
              stopVars, carVars
<1>8. ThreadInv'
  BY <1>1, <1>4 DEF ThreadInv, queueVars, writerVars, stopVars
<1>9. FrameInv' /\ ItemInv'
  BY <1>1 DEF FrameInv, ItemInv, queueVars, writerVars
<1>10. OrderInv' /\ RecordInv'
  BY <1>1, RecordsStay DEF queueVars, writerVars, fileVars
<1> QED BY <1>3, <1>6, <1>7, <1>8, <1>9, <1>10

LEMMA ReceiveKeeps ==
  ASSUME ExportInv, NEW kind \in Kinds \ {"none"}, ReceiveFrame(kind)
  PROVE  ExportInv'
<1> USE ExportAssumption DEF ExportInv, Types
<1>1. /\ acceptor = "recv" /\ acceptor' = "offer" /\ frames < MaxFrames /\ frames' = frames + 1
      /\ frame' = [id |-> frames + 1, kind |-> kind] /\ latest' \in {latest, frames + 1}
      /\ UNCHANGED <<captured, connections>> /\ UNCHANGED socketVars
      /\ UNCHANGED queueVars /\ UNCHANGED writerVars /\ UNCHANGED stopVars /\ UNCHANGED carVars
  BY DEF ReceiveFrame, AcceptorGoes
<1>2. FrameTypes'
  <2>1. frames \in Nat /\ frames' \in 0 .. MaxFrames /\ latest' \in 0 .. frames'
        /\ captured \subseteq 1 .. frames'
    BY <1>1 DEF FrameTypes
  <2>2. frame' \in [id : 0 .. MaxFrames, kind : Kinds]
    BY <1>1, <2>1
  <2> QED BY <1>1, <2>1, <2>2 DEF FrameTypes
<1>3. SocketTypes' /\ QueueTypes' /\ WriterTypes' /\ StopTypes' /\ CarTypes'
  BY <1>1 DEF SocketTypes, QueueTypes, WriterTypes, StopTypes, CarTypes, socketVars, queueVars,
              writerVars, fileVars, stopVars, carVars
<1>4. ThreadInv'
  BY <1>1 DEF ThreadInv, queueVars, writerVars, stopVars
<1>5. FrameInv' /\ ItemInv'
  <2>1. frames \in Nat /\ sequence \in Nat /\ captured \subseteq 1 .. frames
    BY DEF FrameTypes, QueueTypes
  <2>2. sequence' < frames' /\ \A f \in captured' : f < frames'
    BY <1>1, <2>1 DEF FrameInv, queueVars
  <2> QED BY <1>1, <2>1, <2>2 DEF FrameInv, ItemInv, queueVars, writerVars
<1>6. OrderInv' /\ RecordInv'
  BY <1>1, RecordsStay DEF queueVars, writerVars, fileVars
<1> QED BY <1>2, <1>3, <1>4, <1>5, <1>6

LEMMA RecipeOffered ==
  ASSUME ExportInv, OfferRecipe
  PROVE  ExportInv'
<1> USE ExportAssumption DEF ExportInv, Types
<1>1. /\ acceptor = "offer" /\ acceptor' = "check" /\ frame' = NoFrame
      /\ recipe_queue' = IF Len(recipe_queue) >= MaxRecipeQueue THEN recipe_queue
                         ELSE Append(recipe_queue, frame.id)
      /\ UNCHANGED <<latest, captured, snapshot_queue, sequence>> /\ UNCHANGED socketVars
      /\ UNCHANGED writerVars /\ UNCHANGED stopVars /\ UNCHANGED carVars /\ UNCHANGED boundVars
  BY DEF OfferRecipe, AcceptorGoes
<1>2. NoFrame \in [id : 0 .. MaxFrames, kind : Kinds]
  BY DEF NoFrame, Kinds
<1>3. recipe_queue' \in Seq(1 .. MaxFrames) /\ Len(recipe_queue') <= MaxRecipeQueue
  <2>1. frame.id \in 1 .. MaxFrames /\ Len(recipe_queue) \in Nat
    BY <1>1 DEF FrameInv, FrameTypes, QueueTypes
  <2>2. CASE Len(recipe_queue) >= MaxRecipeQueue
    BY <1>1, <2>2 DEF QueueTypes
  <2>3. CASE ~ (Len(recipe_queue) >= MaxRecipeQueue)
    BY <1>1, <2>1, <2>3, AppendProperties DEF QueueTypes
  <2> QED BY <2>2, <2>3
<1>4. SocketTypes' /\ FrameTypes' /\ QueueTypes' /\ WriterTypes' /\ StopTypes' /\ CarTypes'
  <2>1. SocketTypes' /\ FrameTypes'
    BY <1>1, <1>2 DEF SocketTypes, FrameTypes, socketVars, boundVars
  <2>2. QueueTypes'
    BY <1>1, <1>3 DEF QueueTypes
  <2>3. WriterTypes' /\ StopTypes' /\ CarTypes'
    BY <1>1 DEF WriterTypes, StopTypes, CarTypes, writerVars, fileVars, stopVars, carVars
  <2> QED BY <2>1, <2>2, <2>3
<1>5. ThreadInv' /\ FrameInv' /\ ItemInv'
  BY <1>1 DEF ThreadInv, FrameInv, ItemInv, socketVars, writerVars, stopVars, boundVars
<1>6. OrderInv' /\ RecordInv'
  BY <1>1, RecordsStay DEF writerVars, fileVars
<1> QED BY <1>4, <1>5, <1>6

\* A frame is numbered, and its record queued or lost.
LEMMA SnapshotOffered ==
  ASSUME ExportInv, OfferSnapshot
  PROVE  ExportInv'
<1> USE ExportAssumption DEF ExportInv, Types
<1> DEFINE x == Record(sequence + 1, frame.id)
<1>1. /\ acceptor = "offer" /\ acceptor' = "check" /\ frame' = NoFrame
      /\ sequence' = sequence + 1 /\ captured' = captured \cup {frame.id}
      /\ UNCHANGED <<latest, recipe_queue>> /\ UNCHANGED socketVars
      /\ UNCHANGED writerVars /\ UNCHANGED stopVars /\ UNCHANGED carVars /\ UNCHANGED boundVars
  BY DEF OfferSnapshot, AcceptorGoes, NextSequence
<1>2. \/ snapshot_queue' = snapshot_queue
      \/ snapshot_queue' = Append(snapshot_queue, x) /\ Len(snapshot_queue) < MaxSnapshotQueue
  <2>1. Len(snapshot_queue) \in Nat
    BY DEF QueueTypes
  <2> QED BY <1>1, <2>1 DEF OfferSnapshot, QueueFull
<1>3. /\ frame.id = frames /\ frames \in 1 .. MaxFrames /\ sequence \in Nat /\ sequence < frames
      /\ \A f \in captured : f \in Nat /\ f < frames
  BY <1>1 DEF FrameInv, FrameTypes, QueueTypes
<1>4. x \in Records /\ x.sequence = sequence + 1 /\ x.id = frames
  BY <1>3 DEF Record, Records
<1> HIDE DEF x
<1>5. /\ Written \subseteq Records /\ Held \subseteq Records /\ Elems(snapshot_queue) \subseteq Records
  <2>1. Written \subseteq Records /\ Elems(snapshot_queue) \subseteq Records
    <3>1. ASSUME NEW q \in Seq(Records) PROVE Elems(q) \subseteq Records
      BY DEF Elems
    <3>2. \A r \in 1 .. MaxDrives : snapshots[r] \in Seq(Records)
      BY DEF WriterTypes
    <3> QED BY <3>1, <3>2 DEF Written, QueueTypes
  <2>2. Held \subseteq Records
    BY DEF Held, Record, Records, WriterTypes, ItemInv
  <2> QED BY <2>1, <2>2
<1>6. Written' = Written /\ Held' = Held
  BY <1>1 DEF Written, Held, Elems, Record, writerVars, fileVars
<1>7. \A y \in AllRecords : y.sequence <= sequence /\ y.sequence \in Nat /\ y.id \in Nat /\ y.id < frames
  BY <1>3, <1>5 DEF RecordInv, AllRecords, Records
<1>8. /\ snapshot_queue' \in Seq(Records) /\ Len(snapshot_queue') <= MaxSnapshotQueue
      /\ Increasing(snapshot_queue')
      /\ Elems(snapshot_queue') = Elems(snapshot_queue) \/ Elems(snapshot_queue') = Elems(snapshot_queue) \cup {x}
  <2>1. snapshot_queue \in Seq(Records) /\ Len(snapshot_queue) \in Nat /\ Increasing(snapshot_queue)
        /\ Len(snapshot_queue) <= MaxSnapshotQueue
    BY DEF QueueTypes, OrderInv
  <2>2. Before(Elems(snapshot_queue), {x})
    BY <1>3, <1>4, <1>7 DEF Before, AllRecords
  <2>3. CASE snapshot_queue' = snapshot_queue
    BY <2>1, <2>3
  <2>4. CASE snapshot_queue' = Append(snapshot_queue, x) /\ Len(snapshot_queue) < MaxSnapshotQueue
    BY <1>4, <2>1, <2>2, <2>4, RecordAppended
  <2> QED BY <1>2, <2>3, <2>4
<1>9. SocketTypes' /\ WriterTypes' /\ StopTypes' /\ CarTypes'
  BY <1>1 DEF SocketTypes, WriterTypes, StopTypes, CarTypes, socketVars, writerVars, fileVars,
     stopVars, carVars
<1>10. FrameTypes' /\ QueueTypes'
  <2>1. NoFrame \in [id : 0 .. MaxFrames, kind : Kinds]
    BY DEF NoFrame, Kinds
  <2>2. sequence' \in 0 .. MaxFrames /\ captured' \subseteq 1 .. frames
    BY <1>1, <1>3 DEF FrameTypes
  <2> QED BY <1>1, <1>8, <2>1, <2>2 DEF FrameTypes, QueueTypes, boundVars
<1>11. ThreadInv' /\ FrameInv' /\ ItemInv'
  <2>1. writer # "done" /\ stopping' = stopping /\ ~ stopping
    BY <1>1 DEF ThreadInv, stopVars
  <2>2. sequence' <= frames'
    BY <1>1, <1>3 DEF boundVars
  <2> QED BY <1>1, <2>1, <2>2 DEF ThreadInv, FrameInv, ItemInv, socketVars, writerVars, stopVars
<1>12. OrderInv'
  <2>1. Before(Written, {x}) /\ Before(Held, {x})
    BY <1>3, <1>4, <1>7 DEF Before, AllRecords
  <2>2. \A r \in 1 .. MaxDrives : Increasing(snapshots'[r])
    BY <1>1 DEF OrderInv, writerVars, fileVars
  <2> QED BY <1>6, <1>8, <2>1, <2>2 DEF OrderInv, Before
<1>13. RecordInv'
  <2>1. AllRecords' \subseteq AllRecords \cup {x}
    BY <1>6, <1>8 DEF AllRecords
  <2>2. ASSUME NEW y \in AllRecords'
        PROVE  /\ y.sequence <= sequence' /\ y.id \in captured'
               /\ y.sequence = sequence' => \A f \in captured' : f <= y.id
    <3>1. CASE y \in AllRecords
      BY <1>1, <1>3, <1>7, <3>1 DEF RecordInv
    <3>2. CASE y = x
      BY <1>1, <1>3, <1>4, <3>2
    <3> QED BY <2>1, <3>1, <3>2
  <2>3. ASSUME NEW y \in AllRecords', NEW z \in AllRecords', y.sequence < z.sequence
        PROVE  /\ y.id < z.id
               /\ z.sequence = y.sequence + 1 => \A f \in captured' : ~ (y.id < f /\ f < z.id)
    <3>1. CASE y \in AllRecords /\ z \in AllRecords
      BY <1>1, <1>3, <1>7, <2>3, <3>1 DEF RecordInv, LossShows
    <3>2. CASE y \in AllRecords /\ z = x
      <4>1. y.id < z.id
        BY <1>4, <1>7, <3>2
      <4>2. ASSUME z.sequence = y.sequence + 1, NEW f \in captured' PROVE ~ (y.id < f /\ f < z.id)
        <5>1. y.sequence = sequence
          BY <1>3, <1>4, <1>7, <3>2, <4>2
        <5> QED BY <1>1, <1>3, <1>4, <1>7, <3>2, <5>1 DEF RecordInv
      <4> QED BY <4>1, <4>2
    <3>3. y # x
      BY <1>3, <1>4, <1>7, <2>1, <2>3
    <3> QED BY <2>1, <3>1, <3>2, <3>3
  <2> QED BY <2>2, <2>3 DEF RecordInv, LossShows
<1> QED BY <1>9, <1>10, <1>11, <1>12, <1>13

-----------------------------------------------------------------------------
(* The writer. *)

\* What every step of the writer leaves alone.
LEMMA WriterLeaves ==
  ASSUME ExportInv, WriterRuns
  PROVE  /\ UNCHANGED socketVars /\ UNCHANGED acceptVars /\ UNCHANGED stopVars
         /\ UNCHANGED carVars /\ UNCHANGED boundVars /\ UNCHANGED sequence
         /\ SocketTypes' /\ FrameTypes' /\ StopTypes' /\ CarTypes' /\ FrameInv'
<1>1. /\ UNCHANGED socketVars /\ UNCHANGED acceptVars /\ UNCHANGED stopVars
      /\ UNCHANGED carVars /\ UNCHANGED boundVars /\ UNCHANGED sequence
  BY DEF WriterRuns, TakeRecipe, TakeSnapshot, WriterEnds, ReadRoute, WriteRecipe, LookOffroad,
         WriteSnapshot, queueVars
<1>2. SocketTypes' /\ FrameTypes' /\ StopTypes' /\ CarTypes'
  BY <1>1 DEF ExportInv, Types, SocketTypes, FrameTypes, StopTypes, CarTypes, socketVars, acceptVars,
              stopVars, carVars, boundVars
<1>3. FrameInv'
  BY <1>1 DEF ExportInv, FrameInv, socketVars, acceptVars, boundVars
<1> QED BY <1>1, <1>2, <1>3

LEMMA TakingKeeps ==
  ASSUME ExportInv, TakeRecipe \/ TakeSnapshot
  PROVE  ExportInv'
<1> USE ExportAssumption DEF ExportInv, Types
<1>1. /\ UNCHANGED socketVars /\ UNCHANGED acceptVars /\ UNCHANGED stopVars /\ UNCHANGED sequence
      /\ SocketTypes' /\ FrameTypes' /\ StopTypes' /\ CarTypes' /\ FrameInv'
  BY WriterLeaves DEF WriterRuns
<1>2. writer = "wait" /\ writer' = "route" /\ UNCHANGED item_route /\ UNCHANGED fileVars
  BY DEF TakeRecipe, TakeSnapshot, WriterGoes
<1>3. ThreadInv'
  BY <1>1, <1>2 DEF ThreadInv, socketVars, acceptVars, stopVars
<1>4. Held = {} /\ Written' = Written
  BY <1>2 DEF Held, Written, Elems, fileVars
<1>5. CASE TakeRecipe
  <2>1. /\ item' = [id |-> Head(recipe_queue), kind |-> "recipe", sequence |-> 0]
        /\ recipe_queue # <<>> /\ recipe_queue' = Tail(recipe_queue)
        /\ snapshot_queue' = snapshot_queue
    BY <1>5 DEF TakeRecipe
  <2>2. /\ Head(recipe_queue) \in 1 .. MaxFrames /\ recipe_queue' \in Seq(1 .. MaxFrames)
        /\ Len(recipe_queue') <= MaxRecipeQueue
    BY <2>1, HeadTailProperties DEF QueueTypes
  <2>3. item' \in [id : 0 .. MaxFrames, kind : Kinds, sequence : 0 .. MaxFrames]
    <3>1. 0 \in 0 .. MaxFrames /\ Head(recipe_queue) \in 0 .. MaxFrames /\ "recipe" \in Kinds
      BY <2>2 DEF Kinds
    <3> QED BY <2>1, <3>1
  <2>4. QueueTypes' /\ WriterTypes'
    BY <1>1, <1>2, <2>1, <2>2, <2>3 DEF QueueTypes, WriterTypes, fileVars
  <2>5. ItemInv'
    BY <1>2, <2>1, <2>2 DEF ItemInv
  <2>6. Held' = {} /\ Elems(snapshot_queue') = Elems(snapshot_queue)
    BY <2>1 DEF Held
  <2>7. OrderInv'
    BY <1>2, <1>4, <2>1, <2>6 DEF OrderInv, Before, fileVars, Increasing
  <2>8. RecordInv'
    BY <1>1, <1>4, <2>6, FewerRecords DEF AllRecords, acceptVars
  <2> QED BY <1>1, <1>3, <2>4, <2>5, <2>7, <2>8
<1>6. CASE TakeSnapshot
  <2> DEFINE r == Head(snapshot_queue)
  <2>1. /\ item' = [id |-> r.id, kind |-> "snapshot", sequence |-> r.sequence]
        /\ snapshot_queue # <<>> /\ snapshot_queue' = Tail(snapshot_queue)
        /\ recipe_queue' = recipe_queue
    BY <1>6 DEF TakeSnapshot
  <2>2. /\ r \in Records /\ snapshot_queue' \in Seq(Records)
        /\ Len(snapshot_queue') = Len(snapshot_queue) - 1
        /\ Elems(snapshot_queue) = {r} \cup Elems(snapshot_queue') /\ Increasing(snapshot_queue')
        /\ Before({r}, Elems(snapshot_queue'))
    BY <2>1, HeadLeaves DEF QueueTypes, OrderInv
  <2> HIDE DEF r
  <2>3. r = Record(r.sequence, r.id) /\ r.id \in 1 .. MaxFrames /\ r.sequence \in 1 .. MaxFrames
    BY <2>2 DEF Records, Record
  <2>4. item' \in [id : 0 .. MaxFrames, kind : Kinds, sequence : 0 .. MaxFrames]
    <3>1. r.sequence \in 0 .. MaxFrames /\ r.id \in 0 .. MaxFrames /\ "snapshot" \in Kinds
      BY <2>3 DEF Kinds
    <3> QED BY <2>1, <3>1
  <2>5. Len(snapshot_queue') <= MaxSnapshotQueue
    BY <2>2 DEF QueueTypes
  <2>6. QueueTypes' /\ WriterTypes'
    BY <1>1, <1>2, <2>1, <2>2, <2>4, <2>5 DEF QueueTypes, WriterTypes, fileVars
  <2>7. ItemInv'
    BY <1>2, <2>1, <2>3 DEF ItemInv
  <2>8. Held' = {r}
    BY <1>2, <2>1, <2>3 DEF Held
  <2>9. OrderInv'
    <3>1. Before(Written, {r}) /\ Before(Written, Elems(snapshot_queue'))
      BY <2>2 DEF OrderInv, Before
    <3>2. \A d \in 1 .. MaxDrives : Increasing(snapshots'[d])
      BY <1>2 DEF OrderInv, fileVars
    <3> QED BY <1>4, <2>2, <2>8, <3>1, <3>2 DEF OrderInv
  <2>10. RecordInv'
    BY <1>1, <1>4, <2>2, <2>8, FewerRecords DEF AllRecords, acceptVars
  <2> QED BY <1>1, <1>3, <2>6, <2>7, <2>9, <2>10
<1> QED BY <1>5, <1>6

\* An item is thrown away, or the writer ends, or a recipe is written.
LEMMA LettingGoKeeps ==
  ASSUME ExportInv, WriterEnds \/ ReadRoute \/ WriteRecipe \/ LookOffroad
  PROVE  ExportInv'
<1> USE ExportAssumption DEF ExportInv, Types
<1>1. /\ UNCHANGED socketVars /\ UNCHANGED acceptVars /\ UNCHANGED stopVars /\ UNCHANGED sequence
      /\ SocketTypes' /\ FrameTypes' /\ StopTypes' /\ CarTypes' /\ FrameInv'
  BY WriterLeaves DEF WriterRuns
<1>2. UNCHANGED <<queueVars, item, snapshots>>
  BY DEF WriterEnds, ReadRoute, WriteRecipe, LookOffroad, fileVars
<1>3. /\ item_route' \in 0 .. MaxDrives /\ recipes' \in Seq(1 .. MaxFrames)
      /\ snapshot_route' \in 0 .. MaxDrives /\ offroad_' \in BOOLEAN /\ final' \subseteq 1 .. MaxDrives
  <2>1. CASE WriterEnds
    BY <2>1 DEF WriterEnds, WriterTypes, fileVars
  <2>2. CASE ReadRoute
    BY <2>2 DEF ReadRoute, WriterTypes, CarTypes, fileVars
  <2>3. CASE WriteRecipe
    <3>1. item.id \in 1 .. MaxFrames
      BY <2>3 DEF WriteRecipe, ItemInv, WriterTypes
    <3> QED BY <2>3, <3>1, AppendProperties DEF WriteRecipe, WriterTypes
  <2>4. CASE LookOffroad
    <3>1. UNCHANGED <<item_route, recipes>> /\ offroad_' \in BOOLEAN
      BY <2>4 DEF LookOffroad, WriterTypes, CarTypes
    <3>2. \/ snapshot_route' = 0 /\ final' = final \cup ({snapshot_route} \ {0})
          \/ UNCHANGED <<snapshot_route, final>>
      BY <2>4 DEF LookOffroad
    <3>3. {snapshot_route} \ {0} \subseteq 1 .. MaxDrives /\ 0 \in 0 .. MaxDrives
      BY DEF WriterTypes
    <3> QED BY <3>1, <3>2, <3>3 DEF WriterTypes
  <2> QED BY <2>1, <2>2, <2>3, <2>4
<1>4. /\ writer' \in {"wait", "recipe", "snapshot", "write", "done"}
      /\ writer' = "recipe" => writer = "route" /\ item.kind = "recipe"
      /\ writer' = "snapshot" => writer = "route" /\ item.kind = "snapshot" /\ item_route' >= 1
      /\ writer' = "write" => writer = "snapshot" /\ UNCHANGED item_route
      /\ writer' = "done" => stopping /\ recipe_queue = <<>> /\ snapshot_queue = <<>>
      /\ writer # "done"
  <2>1. CASE WriterEnds
    BY <2>1 DEF WriterEnds, WriterGoes
  <2>2. CASE ReadRoute
    <3>1. route \in Nat
      BY DEF CarTypes
    <3> QED BY <2>2, <3>1 DEF ReadRoute, WriterGoes, ItemInv
  <2>3. CASE WriteRecipe
    BY <2>3 DEF WriteRecipe, WriterGoes
  <2>4. CASE LookOffroad
    BY <2>4 DEF LookOffroad, WriterGoes
  <2> QED BY <2>1, <2>2, <2>3, <2>4
<1>5. QueueTypes' /\ WriterTypes'
  BY <1>2, <1>3, <1>4 DEF QueueTypes, WriterTypes, queueVars
<1>6. ThreadInv'
  BY <1>1, <1>2, <1>4 DEF ThreadInv, socketVars, acceptVars, stopVars, queueVars
<1>7. ItemInv'
  BY <1>2, <1>4 DEF ItemInv
<1>8. Written' = Written /\ Held' \subseteq Held /\ Elems(snapshot_queue') = Elems(snapshot_queue)
  BY <1>2, <1>4 DEF Written, Held, Elems, Record, queueVars
<1>9. OrderInv'
  BY <1>2, <1>8 DEF OrderInv, Before, queueVars, Increasing
<1>10. RecordInv'
  BY <1>1, <1>8, FewerRecords DEF AllRecords, acceptVars
<1> QED BY <1>1, <1>5, <1>6, <1>7, <1>9, <1>10

\* The record in the writer's hands goes into the file of its route, behind all others.
LEMMA WritingKeeps ==
  ASSUME ExportInv, WriteSnapshot
  PROVE  ExportInv'
<1> USE ExportAssumption DEF ExportInv, Types
<1> DEFINE x == Record(item.sequence, item.id)
           q == snapshots[item_route]
<1>1. /\ UNCHANGED socketVars /\ UNCHANGED acceptVars /\ UNCHANGED stopVars /\ UNCHANGED sequence
      /\ SocketTypes' /\ FrameTypes' /\ StopTypes' /\ CarTypes' /\ FrameInv'
  BY WriterLeaves DEF WriterRuns
<1>2. /\ writer = "write" /\ writer' = "wait" /\ snapshot_route' = item_route
      /\ UNCHANGED queueVars /\ UNCHANGED <<item, item_route, offroad_, recipes, final>>
      /\ snapshots' = IF Len(q) < MaxFile
                      THEN [snapshots EXCEPT ![item_route] = Append(q, x)] ELSE snapshots
  BY DEF WriteSnapshot, WriterGoes, Fits
<1>3. /\ item_route \in 1 .. MaxDrives /\ x \in Records /\ Held = {x} /\ Held' = {}
      /\ q \in Seq(Records) /\ Increasing(q) /\ Before(Elems(q), {x}) /\ Len(q) \in Nat
  <2>1. item_route \in 1 .. MaxDrives /\ x \in Records /\ Held = {x} /\ Held' = {}
    BY <1>2 DEF ItemInv, WriterTypes, Record, Records, Held
  <2>2. q \in Seq(Records) /\ Increasing(q) /\ Elems(q) \subseteq Written
    BY <2>1 DEF WriterTypes, OrderInv, Written
  <2> QED BY <2>1, <2>2 DEF OrderInv, Before
<1> HIDE DEF x, q
<1>4. /\ snapshots' \in [1 .. MaxDrives -> Seq(Records)]
      /\ \A r \in 1 .. MaxDrives : Len(snapshots'[r]) <= MaxFile /\ Increasing(snapshots'[r])
      /\ Written' \subseteq Written \cup {x}
  <2>1. CASE ~ (Len(q) < MaxFile)
    BY <1>2, <2>1 DEF WriterTypes, OrderInv, Written, Elems
  <2>2. CASE Len(q) < MaxFile
    <3>1. /\ Append(q, x) \in Seq(Records) /\ Len(Append(q, x)) <= MaxFile
          /\ Elems(Append(q, x)) = Elems(q) \cup {x} /\ Increasing(Append(q, x))
      BY <1>3, <2>2, RecordAppended
    <3>2. /\ snapshots'[item_route] = Append(q, x)
          /\ \A r \in 1 .. MaxDrives : r # item_route => snapshots'[r] = snapshots[r]
          /\ snapshots' \in [1 .. MaxDrives -> Seq(Records)]
      BY <1>2, <1>3, <2>2, <3>1 DEF WriterTypes
    <3>3. \A r \in 1 .. MaxDrives : Len(snapshots'[r]) <= MaxFile /\ Increasing(snapshots'[r])
      BY <3>1, <3>2 DEF WriterTypes, OrderInv
    <3>4. \A r \in 1 .. MaxDrives : Elems(snapshots'[r]) \subseteq Elems(snapshots[r]) \cup {x}
      BY <3>1, <3>2 DEF q
    <3>5. Written' \subseteq Written \cup {x}
      <4>1. Written' = UNION {Elems(snapshots'[r]) : r \in 1 .. MaxDrives}
        BY DEF Written, Elems
      <4> QED BY <3>4, <4>1 DEF Written
    <3> QED BY <3>2, <3>3, <3>5
  <2> QED BY <2>1, <2>2
<1>5. QueueTypes' /\ WriterTypes'
  BY <1>1, <1>2, <1>3, <1>4 DEF QueueTypes, WriterTypes, queueVars
<1>6. ThreadInv' /\ ItemInv'
  BY <1>1, <1>2 DEF ThreadInv, ItemInv, socketVars, acceptVars, stopVars, queueVars
<1>7. Elems(snapshot_queue') = Elems(snapshot_queue) /\ snapshot_queue' = snapshot_queue
  BY <1>2 DEF queueVars
<1>8. OrderInv'
  BY <1>3, <1>4, <1>7 DEF OrderInv, Before
<1>9. RecordInv'
  BY <1>1, <1>3, <1>4, <1>7, FewerRecords DEF AllRecords, acceptVars
<1> QED BY <1>1, <1>5, <1>6, <1>8, <1>9

-----------------------------------------------------------------------------
(* stop() and the car. *)

LEMMA StopKeeps ==
  ASSUME ExportInv, Stop \/ StopRuns
  PROVE  ExportInv'
<1> USE ExportAssumption DEF ExportInv, Types
<1>1. /\ UNCHANGED acceptVars /\ UNCHANGED queueVars /\ UNCHANGED carVars /\ UNCHANGED boundVars
      /\ UNCHANGED <<writer, item, item_route, offroad_, snapshots, recipes, final>>
      /\ snapshot_route' \in 0 .. MaxDrives
  BY DEF Stop, StopRuns, ShutServer, ShutClient, JoinAcceptor, JoinWriter, writerVars, fileVars,
         WriterTypes
<1>2. SocketTypes' /\ StopTypes'
  <2>1. CASE Stop
    BY <2>1 DEF Stop, StopperGoes, SocketTypes, StopTypes, socketVars, acceptVars
  <2>2. CASE ShutServer \/ ShutClient
    BY <2>2 DEF ShutServer, ShutClient, StopperGoes, SocketTypes, StopTypes, acceptVars
  <2>3. CASE JoinAcceptor \/ JoinWriter
    BY <2>3 DEF JoinAcceptor, JoinWriter, StopperGoes, SocketTypes, StopTypes, socketVars, acceptVars
  <2> QED BY <2>1, <2>2, <2>3 DEF StopRuns
<1>3. FrameTypes' /\ QueueTypes' /\ WriterTypes' /\ CarTypes'
  BY <1>1 DEF FrameTypes, QueueTypes, WriterTypes, CarTypes, acceptVars, queueVars, carVars, boundVars
<1>4. ThreadInv'
  <2>1. CASE Stop
    BY <1>1, <2>1 DEF Stop, StopperGoes, ThreadInv, socketVars, acceptVars, queueVars
  <2>2. CASE ShutServer
    BY <1>1, <2>2 DEF ShutServer, StopperGoes, ThreadInv, acceptVars, queueVars
  <2>3. CASE ShutClient
    BY <1>1, <2>3 DEF ShutClient, StopperGoes, ThreadInv, acceptVars, queueVars
  <2>4. CASE JoinAcceptor
    BY <1>1, <2>4 DEF JoinAcceptor, StopperGoes, ThreadInv, socketVars, acceptVars, queueVars
  <2>5. CASE JoinWriter
    BY <1>1, <2>5 DEF JoinWriter, StopperGoes, ThreadInv, socketVars, acceptVars, queueVars
  <2> QED BY <2>1, <2>2, <2>3, <2>4, <2>5 DEF StopRuns
<1>5. FrameInv' /\ ItemInv'
  BY <1>1 DEF FrameInv, ItemInv, acceptVars, queueVars, boundVars
<1>6. OrderInv' /\ RecordInv'
  BY <1>1, RecordsStay DEF acceptVars, queueVars
<1> QED BY <1>2, <1>3, <1>4, <1>5, <1>6

LEMMA CarKeeps ==
  ASSUME ExportInv, ClearRoute \/ DriveStarts \/ LoggerStarts \/ DriveEnds
  PROVE  ExportInv'
<1> USE ExportAssumption DEF ExportInv, Types
<1>1. /\ UNCHANGED socketVars /\ UNCHANGED acceptVars /\ UNCHANGED queueVars
      /\ UNCHANGED writerVars /\ UNCHANGED stopVars /\ UNCHANGED boundVars
  BY DEF ClearRoute, DriveStarts, LoggerStarts, DriveEnds
<1>2. CarTypes'
  <2>1. drives \in Nat /\ drives <= MaxDrives /\ route \in Nat /\ route <= drives
    BY DEF CarTypes
  <2>2. CASE ClearRoute
    BY <2>1, <2>2 DEF ClearRoute, CarTypes
  <2>3. CASE DriveStarts
    <3>1. route = 0 /\ route' = 0 /\ offroad' = FALSE /\ drives' = drives + 1 /\ drives < MaxDrives
      BY <2>3 DEF DriveStarts
    <3>2. drives' \in 0 .. MaxDrives /\ route' \in 0 .. drives'
      BY <2>1, <3>1
    <3> QED BY <3>1, <3>2 DEF CarTypes
  <2>4. CASE LoggerStarts
    BY <2>1, <2>4 DEF LoggerStarts, CarTypes
  <2>5. CASE DriveEnds
    BY <2>1, <2>5 DEF DriveEnds, CarTypes
  <2> QED BY <2>2, <2>3, <2>4, <2>5
<1>3. SocketTypes' /\ FrameTypes' /\ QueueTypes' /\ WriterTypes' /\ StopTypes'
  BY <1>1 DEF SocketTypes, FrameTypes, QueueTypes, WriterTypes, StopTypes, socketVars, acceptVars,
              queueVars, writerVars, fileVars, stopVars, boundVars
<1>4. ThreadInv' /\ FrameInv' /\ ItemInv'
  BY <1>1 DEF ThreadInv, FrameInv, ItemInv, socketVars, acceptVars, queueVars, writerVars, stopVars,
              boundVars
<1>5. OrderInv' /\ RecordInv'
  BY <1>1, RecordsStay DEF acceptVars, queueVars, writerVars, fileVars
<1> QED BY <1>2, <1>3, <1>4, <1>5

-----------------------------------------------------------------------------
(* The invariant, and what it gives. *)

LEMMA ExportStep == ExportInv /\ [Next]_vars => ExportInv'
<1> SUFFICES ASSUME ExportInv, [Next]_vars PROVE ExportInv'
  OBVIOUS
<1>1. CASE AcceptLoop \/ Accept \/ StoreClient \/ CheckRunning \/ ReceiveFails \/ OfferTooSoon
           \/ CloseConnection \/ Connect \/ ExporterDies
  BY <1>1, SocketKeeps
<1>2. CASE (\E k \in Kinds \ {"none"} : ReceiveFrame(k)) \/ OfferRecipe \/ OfferSnapshot
  BY <1>2, ReceiveKeeps, RecipeOffered, SnapshotOffered
<1>3. CASE WriterRuns
  BY <1>3, TakingKeeps, LettingGoKeeps, WritingKeeps DEF WriterRuns
<1>4. CASE Stop \/ StopRuns
  BY <1>4, StopKeeps
<1>5. CASE ClearRoute \/ DriveStarts \/ LoggerStarts \/ DriveEnds
  BY <1>5, CarKeeps
<1>6. CASE UNCHANGED vars
  <2>1. /\ UNCHANGED socketVars /\ UNCHANGED acceptVars /\ UNCHANGED queueVars
        /\ UNCHANGED writerVars /\ UNCHANGED stopVars /\ UNCHANGED carVars /\ UNCHANGED boundVars
    BY <1>6 DEF vars
  <2>2. SocketTypes' /\ FrameTypes' /\ QueueTypes' /\ WriterTypes' /\ StopTypes' /\ CarTypes'
    BY <2>1 DEF ExportInv, Types, SocketTypes, FrameTypes, QueueTypes, WriterTypes, StopTypes, CarTypes,
       socketVars, acceptVars, queueVars, writerVars, fileVars, stopVars, carVars, boundVars
  <2>3. ThreadInv' /\ FrameInv' /\ ItemInv'
    BY <2>1 DEF ExportInv, ThreadInv, FrameInv, ItemInv, socketVars, acceptVars, queueVars, writerVars,
                stopVars, boundVars
  <2>4. OrderInv' /\ RecordInv'
    BY <2>1, RecordsStay DEF ExportInv, acceptVars, queueVars, writerVars, fileVars
  <2> QED BY <2>2, <2>3, <2>4 DEF ExportInv, Types
<1> QED BY <1>1, <1>2, <1>3, <1>4, <1>5, <1>6 DEF Next

\* Queues and files keep their types and their limits.
THEOREM ExportTypeCorrect == Spec => []TypeOK
<1>1. ExportInv => TypeOK
  BY TypesAreTypes DEF ExportInv
<1> QED BY <1>1, ExportStarts, ExportStep, PTL DEF Spec

\* In every snapshot file the records are in the order they were received, and whatever was
\* captured between two of them and lost leaves a gap in their numbers.
THEOREM EveryLossShows == Spec => []GapsShow
<1>1. ASSUME ExportInv PROVE GapsShow
  <2> SUFFICES ASSUME NEW r \in 1 .. MaxDrives, NEW i \in 1 .. Len(snapshots[r]) - 1
               PROVE  LET a == snapshots[r][i]
                          b == snapshots[r][i + 1]
                      IN  /\ a.id < b.id /\ a.sequence < b.sequence
                          /\ b.sequence = a.sequence + 1 => \A f \in captured : ~ (a.id < f /\ f < b.id)
    BY DEF GapsShow
  <2>1. snapshots[r] \in Seq(Records)
    BY <1>1 DEF ExportInv, Types, WriterTypes
  <2>2. /\ i \in 1 .. Len(snapshots[r]) /\ i + 1 \in 1 .. Len(snapshots[r])
        /\ i + 1 \in i + 1 .. Len(snapshots[r])
    BY <2>1
  <2>3. snapshots[r][i].sequence < snapshots[r][i + 1].sequence
    BY <1>1, <2>2 DEF ExportInv, OrderInv, Increasing
  <2>4. snapshots[r][i] \in AllRecords /\ snapshots[r][i + 1] \in AllRecords
    BY <2>2 DEF AllRecords, Written, Elems
  <2> QED BY <1>1, <2>3, <2>4 DEF ExportInv, RecordInv, LossShows
<1> QED BY <1>1, ExportStarts, ExportStep, PTL DEF Spec

-----------------------------------------------------------------------------
(* What stop() cuts off. *)

\* The accept thread comes to recv() only past a look at running_, with its socket where
\* stop() finds it: whoever is in recv() when stop() gets to the socket was there before.
CutOffInv ==
  /\ running <=> stopper = "idle"
  /\ listening => stopper \in {"idle", "server"}
  /\ acceptor \in {"check", "recv", "offer"} => client_fd
  /\ stopper \in {"join", "writer", "done"} /\ acceptor = "recv" => conn # "open"

LEMMA CutOffStarts == Init => CutOffInv
BY DEF Init, CutOffInv

LEMMA AcceptorCutOff ==
  ASSUME CutOffInv,
         \/ AcceptLoop \/ Accept \/ StoreClient \/ CheckRunning
         \/ \E k \in Kinds \ {"none"} : ReceiveFrame(k)
         \/ ReceiveFails \/ OfferRecipe \/ OfferSnapshot \/ OfferTooSoon \/ CloseConnection
  PROVE  CutOffInv'
<1>1. UNCHANGED <<running, stopper, listening>>
  BY DEF AcceptLoop, Accept, StoreClient, CheckRunning, ReceiveFrame, ReceiveFails, OfferRecipe,
         OfferSnapshot, OfferTooSoon, CloseConnection, socketVars, stopVars
<1>2. acceptor' \in {"check", "recv", "offer"} => client_fd'
  BY DEF CutOffInv, AcceptLoop, Accept, StoreClient, CheckRunning, ReceiveFrame, ReceiveFails,
         OfferRecipe, OfferSnapshot, OfferTooSoon, CloseConnection, AcceptorGoes, socketVars
<1>3. acceptor' = "recv" => running
  BY DEF AcceptLoop, Accept, StoreClient, CheckRunning, ReceiveFrame, ReceiveFails,
         OfferRecipe, OfferSnapshot, OfferTooSoon, CloseConnection, AcceptorGoes
<1> QED BY <1>1, <1>2, <1>3 DEF CutOffInv

LEMMA StopCutsOff ==
  ASSUME CutOffInv, Stop \/ StopRuns
  PROVE  CutOffInv'
<1> USE DEF CutOffInv, StopperGoes
<1>1. CASE Stop
  BY <1>1 DEF Stop, socketVars, acceptVars
<1>2. CASE ShutServer
  BY <1>2 DEF ShutServer, acceptVars
<1>3. CASE ShutClient
  BY <1>3 DEF ShutClient, acceptVars
<1>4. CASE JoinAcceptor
  BY <1>4 DEF JoinAcceptor, socketVars, acceptVars
<1>5. CASE JoinWriter
  BY <1>5 DEF JoinWriter, socketVars, acceptVars
<1> QED BY <1>1, <1>2, <1>3, <1>4, <1>5 DEF StopRuns

LEMMA OthersCutNothing ==
  ASSUME CutOffInv,
         \/ WriterRuns \/ Connect \/ ExporterDies
         \/ ClearRoute \/ DriveStarts \/ LoggerStarts \/ DriveEnds \/ UNCHANGED vars
  PROVE  CutOffInv'
<1>1. /\ UNCHANGED <<running, stopper, listening, acceptor, client_fd>>
      /\ conn' = conn \/ conn' = "gone"
  BY DEF WriterRuns, TakeRecipe, TakeSnapshot, WriterEnds, ReadRoute, WriteRecipe, LookOffroad,
         WriteSnapshot, Connect, ExporterDies, ClearRoute, DriveStarts, LoggerStarts, DriveEnds,
         socketVars, acceptVars, stopVars, vars
<1> QED BY <1>1 DEF CutOffInv

LEMMA CutOffStep == CutOffInv /\ [Next]_vars => CutOffInv'
BY AcceptorCutOff, StopCutsOff, OthersCutNothing DEF Next

\* When stop() returns both queues are empty and no exporter's socket is open, and what it
\* waits for on the way can no longer block.
THEOREM StopLeavesNothing == Spec => []StopDrains
<1>1. ExportInv /\ CutOffInv => StopDrains
  BY DEF ExportInv, ThreadInv, CutOffInv, StopDrains
<1> QED BY <1>1, ExportStarts, ExportStep, CutOffStarts, CutOffStep, PTL DEF Spec
=============================================================================
