------------------------------ MODULE QueuePeek ------------------------------
(***************************************************************************)
(* QueuePeek::newest(): the newest message of a msgq queue, read without a  *)
(* reader slot.  It loads the write pointer, walks this lap of the ring     *)
(* from its start by the messages' sizes, copies the last one, and keeps    *)
(* the copy only if the pointer says that the writer cannot have come round *)
(* over it.  The publisher never waits: it is MsgqRing's, with one writer   *)
(* and one file, and its words are stored one at a time.                    *)
(*                                                                          *)
(* Offsets and sizes are in words, the in-flight margin too.                *)
(***************************************************************************)
EXTENDS Integers, Sequences

CONSTANTS
  RingWords,   \* words in the ring
  Sizes,       \* sizes of the messages, tag not counted
  InFlight,    \* kInFlightMarginBytes
  MaxPublished \* bound: messages

\* A message of these queues is smaller than the margin: gps_peek.cpp takes nothing larger.
ASSUME PeekAssumption ==
  /\ RingWords \in Nat /\ InFlight \in Nat /\ MaxPublished \in Nat
  /\ Sizes \subseteq {n \in Nat : 1 <= n /\ n + 1 <= InFlight /\ n + 2 <= RingWords}

VARIABLES
  ring,     \* the words; a word says whose it is, history that shows a torn copy
  pointer,  \* the write pointer: lap and offset
  writing,  \* the message being written, words stored so far
  serial,   \* messages so far
  peek,     \* newest(): "idle", "walk", "copy" or "check"
  snapshot, \* its copy of the pointer
  offset,   \* where the walk is
  newest,   \* the last message it has met: where, how long
  copied,   \* the words copied
  astray,   \* history: the walk has taken a word for a size that is none
  expected, \* history: the last message published when the pointer was copied
  returned  \* history: what the last peek returned

writerVars == <<ring, pointer, writing, serial>>
readerVars == <<peek, snapshot, offset, newest, copied, astray, expected, returned>>
peekVars   == <<writerVars, readerVars>>

Word(s, n, j) == [serial |-> s, len |-> n, at |-> j] \* at 0: the size
NoWord        == Word(0, 0, 1)
NotWriting    == [len |-> 0, stored |-> 0]
Nowhere       == [at |-> 0, len |-> 0]
Nothing       == << >>

-----------------------------------------------------------------------------
(* The publisher. *)

\* A message that does not fit starts the next lap: the pointer goes there first.
BeginMessage(n) ==
  /\ writing = NotWriting /\ serial < MaxPublished
  /\ serial' = serial + 1
  /\ writing' = [len |-> n, stored |-> 0]
  /\ pointer' = IF pointer.off + n + 2 <= RingWords THEN pointer
                ELSE [lap |-> pointer.lap + 1, off |-> 0]
  /\ UNCHANGED <<ring, readerVars>>

StoreWord ==
  /\ writing # NotWriting /\ writing.stored <= writing.len
  /\ ring' = [ring EXCEPT ![pointer.off + writing.stored] = Word(serial, writing.len, writing.stored)]
  /\ writing' = [writing EXCEPT !.stored = @ + 1]
  /\ UNCHANGED <<pointer, serial, readerVars>>

PublishMessage ==
  /\ writing # NotWriting /\ writing.stored = writing.len + 1
  /\ pointer' = [pointer EXCEPT !.off = @ + writing.len + 1]
  /\ writing' = NotWriting
  /\ UNCHANGED <<ring, serial, readerVars>>

-----------------------------------------------------------------------------
(* newest(). *)

Published == IF writing = NotWriting THEN serial ELSE serial - 1

PeekEnds(what) ==
  /\ returned' = what
  /\ peek' = "idle" /\ offset' = 0 /\ newest' = Nowhere /\ copied' = Nothing

\* Nothing in this lap yet: the start of the last one may be being written over.
BeginPeek ==
  /\ peek = "idle"
  /\ snapshot' = pointer
  /\ IF pointer.off = 0
       THEN PeekEnds(Nothing)
       ELSE peek' = "walk" /\ returned' = Nothing /\ UNCHANGED <<offset, newest, copied>>
  /\ astray' = FALSE /\ expected' = Published
  /\ UNCHANGED writerVars

\* A word that is not a size, met where the writer has come round, may say anything.
SizeAt(o) == IF ring[o].at = 0 THEN {ring[o].len} ELSE 0 .. RingWords

Walk ==
  /\ peek = "walk" /\ offset < snapshot.off
  /\ \E n \in SizeAt(offset) :
       IF n = 0 \/ offset + 1 + n > snapshot.off
         THEN PeekEnds(Nothing)
         ELSE /\ newest' = [at |-> offset, len |-> n]
              /\ offset' = offset + 1 + n
              /\ UNCHANGED <<peek, copied, returned>>
  /\ astray' = (astray \/ ring[offset].at # 0)
  /\ UNCHANGED <<snapshot, expected, writerVars>>

WalkEnds ==
  /\ peek = "walk" /\ offset = snapshot.off
  /\ peek' = "copy"
  /\ UNCHANGED <<snapshot, offset, newest, copied, astray, expected, returned, writerVars>>

CopyWord ==
  /\ peek = "copy"
  /\ LET j == Len(copied) + 1 IN
       IF j <= newest.len
         THEN copied' = Append(copied, ring[newest.at + j]) /\ UNCHANGED peek
         ELSE peek' = "check" /\ UNCHANGED copied
  /\ UNCHANGED <<snapshot, offset, newest, astray, expected, returned, writerVars>>

\* Mutant: the message being written is forgotten.
Intact_when_published ==
  \/ pointer.lap = snapshot.lap
  \/ pointer.lap = snapshot.lap + 1 /\ pointer.off <= newest.at

\* The writer is in the same lap, or so early in the next that not even the message it is
\* writing reaches the copied one.
Intact ==
  \/ pointer.lap = snapshot.lap
  \/ pointer.lap = snapshot.lap + 1 /\ pointer.off + InFlight <= newest.at

CheckCopy ==
  /\ peek = "check"
  /\ PeekEnds(IF Intact THEN copied ELSE Nothing)
  /\ UNCHANGED <<snapshot, astray, expected, writerVars>>

-----------------------------------------------------------------------------
PeekInit ==
  /\ ring = [o \in 0 .. RingWords - 1 |-> NoWord]
  /\ pointer = [lap |-> 0, off |-> 0] /\ writing = NotWriting /\ serial = 0
  /\ peek = "idle" /\ snapshot = pointer /\ offset = 0 /\ newest = Nowhere
  /\ copied = Nothing /\ astray = FALSE /\ expected = 0 /\ returned = Nothing

PeekNext ==
  \/ \E n \in Sizes : BeginMessage(n)
  \/ StoreWord \/ PublishMessage
  \/ BeginPeek \/ Walk \/ WalkEnds \/ CopyWord \/ CheckCopy

PeekSpec == PeekInit /\ [][PeekNext]_peekVars

-----------------------------------------------------------------------------
(* Properties. *)

PeekTypeOK ==
  /\ ring \in [0 .. RingWords - 1 -> [serial : 0 .. MaxPublished, len : Nat, at : Nat]]
  /\ pointer \in [lap : Nat, off : 0 .. RingWords]
  /\ writing \in [len : Sizes \cup {0}, stored : Nat] /\ serial \in 0 .. MaxPublished
  /\ peek \in {"idle", "walk", "copy", "check"}
  /\ snapshot \in [lap : Nat, off : 0 .. RingWords] /\ offset \in 0 .. RingWords
  /\ newest \in [at : 0 .. RingWords, len : 0 .. RingWords] /\ astray \in BOOLEAN
  /\ expected \in 0 .. serial

\* What a peek returns is the message that was the newest when it copied the pointer, and is
\* whole, however far the writer got meanwhile - unless the writer overtook the walk itself
\* and led it between two messages: the sizes are then what the bytes there say, and nothing
\* but their nonsense stops the walk.
PeekIsNewest ==
  returned # Nothing /\ ~ astray =>
    \E n \in Sizes : returned = [j \in 1 .. n |-> Word(expected, n, j)]
=============================================================================
