-------------------------- MODULE MaintenanceProofs --------------------------
(***************************************************************************)
(* The parts of control mode that MCMaintenance puts side by side, for      *)
(* every value of their constants, and that side by side they do what each  *)
(* does alone.  The deferred queue has DeferredProofs.                      *)
(*                                                                          *)
(* A peek returns a whole message or nothing, for a ring of any size, any   *)
(* message sizes below the margin and any number of messages.  The argument *)
(* is a low mark: from the moment the pointer was copied, the writer changes *)
(* no word between the mark and the copied pointer.  The mark is the ring's *)
(* start while the writer is in the same lap, and then the end of what it   *)
(* may be writing.  It only rises, so what lies above it at the last look   *)
(* has lain there, untouched, all along.                                    *)
(*                                                                          *)
(* "Parked" is never an echo: a message, and a copy of one, is at least as  *)
(* old as the last moment the car was as it says.                           *)
(*                                                                          *)
(* A pairing code opens the API once, whatever the wall clock does.         *)
(*                                                                          *)
(* What the leaderboard hands out covers the drives that were there.  The   *)
(* invariant follows a statement from the inputs taken before it is signed  *)
(* to the cache, and keeps the counter ahead of what was handed out with    *)
(* the key in force.                                                        *)
(*                                                                          *)
(* A recipe the archive serves has every line of the route that was there   *)
(* when it was asked for, and has those of a file in their order: what is   *)
(* due is in the answer or in a file still to be read.                      *)
(***************************************************************************)
EXTENDS MCMaintenance, DeferredProofs, PickingProofs

-----------------------------------------------------------------------------
(* The queue peek. *)

RingWord == [serial : 0 .. MaxPublished, len : Nat, at : Nat]

PeekTypes == PeekTypeOK /\ copied \in Seq(RingWord)

\* The end of the message being written, or of the last one.
Reach == pointer.off + (IF writing = NotWriting THEN 0 ELSE writing.len + 1)

Low ==
  IF pointer.lap = snapshot.lap THEN 0
  ELSE IF pointer.lap = snapshot.lap + 1 THEN Reach
  ELSE RingWords

\* Of the words r, of s messages, the one at o is of a message that ends before high and is
\* whole from low on.
Belongs(r, s, o, low, high) ==
  LET w     == r[o]
      start == o - w.at
  IN /\ w.serial \in 1 .. s /\ w.len \in Sizes /\ w.at \in 0 .. w.len
     /\ 0 <= start /\ start + w.len < high
     /\ \A j \in 0 .. w.len : start + j >= low => r[start + j] = Word(w.serial, w.len, j)

\* The message being written fits, and its words so far are there.
WritingInv ==
  /\ writing.len = 0 => writing = NotWriting
  /\ writing # NotWriting =>
       /\ serial >= 1 /\ writing.len \in Sizes /\ writing.stored \in 0 .. writing.len + 1
       /\ pointer.off + writing.len + 2 <= RingWords
       /\ \A j \in 0 .. writing.stored - 1 : ring[pointer.off + j] = Word(serial, writing.len, j)

\* This lap holds whole messages up to the pointer.
LapInv == \A o \in 0 .. pointer.off - 1 : Belongs(ring, serial, o, 0, pointer.off)

\* The lap of the copied pointer still does, from the low mark on.
SnapshotInv ==
  /\ \/ snapshot.lap < pointer.lap
     \/ snapshot.lap = pointer.lap /\ snapshot.off <= pointer.off
  /\ \A o \in Low .. snapshot.off - 1 : Belongs(ring, serial, o, Low, snapshot.off)

\* What the walk met last, unless it lies below the mark by now, is the size of a message.
WalkInv ==
  /\ peek = "idle" => newest = Nowhere /\ offset = 0
  /\ peek # "idle" =>
       /\ snapshot.off > 0 /\ returned = Nothing
       /\ newest.at + newest.len < snapshot.off
       /\ newest.len = 0 => peek = "walk" /\ offset = 0
       /\ newest.len > 0 => offset = newest.at + newest.len + 1
       /\ peek \in {"copy", "check"} => offset = snapshot.off
       /\ newest.len > 0 /\ ~ astray /\ newest.at >= Low =>
            ring[newest.at].at = 0 /\ ring[newest.at].len = newest.len

\* The copied words are the ring's.
CopyInv ==
  /\ Len(copied) <= newest.len
  /\ peek \in {"idle", "walk"} => copied = Nothing
  /\ peek = "check" => Len(copied) = newest.len
  /\ newest.at >= Low => \A j \in 1 .. Len(copied) : copied[j] = ring[newest.at + j]

\* The last word before a pointer is of the message last published there.
NewestInv ==
  /\ pointer.off > 0 => ring[pointer.off - 1].serial = Published
  /\ snapshot.off > 0 /\ Low <= snapshot.off - 1 => ring[snapshot.off - 1].serial = expected

PeekInv ==
  PeekTypes /\ WritingInv /\ LapInv /\ SnapshotInv /\ NewestInv /\ WalkInv /\ CopyInv /\ PeekIsNewest

LEMMA SizesFit ==
  \A n \in Sizes : n \in Nat /\ n >= 1 /\ n + 1 <= InFlight /\ n + 2 <= RingWords
BY PeekAssumption

LEMMA PeekStarts == PeekInit => PeekInv
<1> SUFFICES ASSUME PeekInit PROVE PeekInv
  OBVIOUS
<1>1. /\ ring = [o \in 0 .. RingWords - 1 |-> NoWord]
      /\ pointer = [lap |-> 0, off |-> 0] /\ writing = NotWriting /\ serial = 0
      /\ peek = "idle" /\ snapshot = [lap |-> 0, off |-> 0] /\ offset = 0 /\ newest = Nowhere
      /\ copied = Nothing /\ astray = FALSE /\ expected = 0 /\ returned = Nothing
  BY DEF PeekInit
<1>2. Len(copied) = 0 /\ copied \in Seq(RingWord)
  BY <1>1, EmptySeq DEF Nothing
<1>3. PeekTypes
  <2>1. RingWords \in Nat /\ MaxPublished \in Nat
    BY PeekAssumption
  <2>2. NoWord \in RingWord /\ ring \in [0 .. RingWords - 1 -> RingWord]
    BY <1>1, <2>1 DEF NoWord, Word, RingWord
  <2>3. /\ pointer \in [lap : Nat, off : 0 .. RingWords]
        /\ snapshot \in [lap : Nat, off : 0 .. RingWords]
        /\ newest \in [at : 0 .. RingWords, len : 0 .. RingWords]
        /\ writing \in [len : Sizes \cup {0}, stored : Nat]
    BY <1>1, <2>1 DEF NotWriting, Nowhere
  <2>4. 0 \in 0 .. RingWords /\ 0 \in 0 .. MaxPublished /\ 0 \in 0 .. 0
    BY <2>1
  <2>5. PeekTypeOK
    BY ONLY <1>1, <2>2, <2>3, <2>4 DEF PeekTypeOK, RingWord
  <2> QED BY <1>2, <2>5 DEF PeekTypes
<1>4. WritingInv
  BY <1>1 DEF WritingInv
<1>5. LapInv /\ SnapshotInv /\ NewestInv
  <2>1. pointer.off = 0 /\ snapshot.off = 0 /\ pointer.lap = 0 /\ snapshot.lap = 0 /\ Low = 0
    BY <1>1 DEF Low
  <2> QED BY <2>1 DEF LapInv, SnapshotInv, NewestInv
<1>6. WalkInv /\ CopyInv /\ PeekIsNewest
  BY <1>1, <1>2 DEF WalkInv, CopyInv, PeekIsNewest, Nowhere
<1> QED BY <1>3, <1>4, <1>5, <1>6 DEF PeekInv

-----------------------------------------------------------------------------
(* The publisher. *)

\* A message is still there where none of its words has changed, wherever the mark has risen to.
LEMMA StillBelongs ==
  ASSUME NEW r, NEW q, NEW s \in Nat, NEW t \in Nat, s <= t, NEW low \in Nat, NEW up \in Nat, low <= up,
         NEW high \in Nat, NEW o \in up .. high - 1, Belongs(r, s, o, low, high),
         \A i \in up .. high - 1 : q[i] = r[i]
  PROVE  Belongs(q, t, o, up, high)
<1> DEFINE w == r[o]
           start == o - w.at
<1>1. /\ w.serial \in 1 .. s /\ w.len \in Sizes /\ w.at \in 0 .. w.len
      /\ 0 <= start /\ start + w.len < high
      /\ \A j \in 0 .. w.len : start + j >= low => r[start + j] = Word(w.serial, w.len, j)
  BY DEF Belongs
<1>2. q[o] = w
  OBVIOUS
<1> HIDE DEF w
<1>3. w.len \in Nat /\ start \in Nat
  BY <1>1, SizesFit
<1> HIDE DEF start
<1>4. ASSUME NEW j \in 0 .. w.len, start + j >= up
      PROVE  q[start + j] = Word(w.serial, w.len, j)
  <2>1. start + j \in up .. high - 1 /\ start + j >= low
    BY <1>1, <1>3, <1>4
  <2> QED BY <1>1, <2>1
<1>5. w.serial \in 1 .. t
  BY <1>1
<1> QED BY <1>1, <1>2, <1>4, <1>5 DEF Belongs, start

\* The types, field by field.
LEMMA PeekNumbers ==
  ASSUME PeekTypes
  PROVE  /\ RingWords \in Nat /\ InFlight \in Nat /\ MaxPublished \in Nat
         /\ pointer.lap \in Nat /\ pointer.off \in Nat /\ pointer.off <= RingWords
         /\ snapshot.lap \in Nat /\ snapshot.off \in Nat /\ snapshot.off <= RingWords
         /\ writing.stored \in Nat /\ serial \in Nat /\ serial <= MaxPublished
         /\ newest.at \in Nat /\ newest.len \in Nat /\ offset \in Nat /\ offset <= RingWords
         /\ expected \in 0 .. serial
BY PeekAssumption DEF PeekTypes, PeekTypeOK

LEMMA PeekRecords ==
  ASSUME PeekTypes
  PROVE  /\ writing.len \in Sizes \cup {0}
         /\ pointer = [lap |-> pointer.lap, off |-> pointer.off]
         /\ writing = [len |-> writing.len, stored |-> writing.stored]
         /\ ring \in [0 .. RingWords - 1 -> RingWord] /\ copied \in Seq(RingWord)
BY DEF PeekTypes, PeekTypeOK, RingWord

\* The mark is Reach, the whole ring or nothing.
LEMMA LowCases ==
  /\ pointer.lap = snapshot.lap => Low = 0
  /\ pointer.lap = snapshot.lap + 1 /\ pointer.lap # snapshot.lap => Low = Reach
  /\ pointer.lap # snapshot.lap + 1 /\ pointer.lap # snapshot.lap => Low = RingWords
BY DEF Low

LEMMA ReachFits ==
  ASSUME PeekTypes, WritingInv
  PROVE  /\ Reach \in Nat /\ Reach <= RingWords /\ Low \in Nat /\ Low <= RingWords
         /\ writing = NotWriting => Reach = pointer.off
         /\ writing # NotWriting =>
              /\ Reach = pointer.off + writing.len + 1
              /\ writing.len \in Sizes /\ writing.len \in Nat /\ writing.len >= 1
<1>1. /\ RingWords \in Nat /\ pointer.off \in Nat /\ pointer.off <= RingWords
      /\ pointer.lap \in Nat /\ snapshot.lap \in Nat
  BY PeekNumbers
<1>2. CASE writing = NotWriting
  <2>1. Reach = pointer.off
    BY <1>1, <1>2 DEF Reach
  <2>2. Low \in {0, RingWords, pointer.off}
    BY <1>1, <2>1, LowCases
  <2> QED BY ONLY <1>1, <1>2, <2>1, <2>2
<1>3. CASE writing # NotWriting
  <2>1. /\ writing.len \in Sizes /\ writing.len \in Nat /\ writing.len >= 1
        /\ pointer.off + writing.len + 2 <= RingWords
    BY <1>3, SizesFit DEF WritingInv
  <2>2. Reach = pointer.off + writing.len + 1
    BY <1>1, <1>3, <2>1 DEF Reach
  <2>3. Low \in {0, RingWords, Reach}
    BY <1>1, LowCases
  <2> QED BY ONLY <1>1, <1>3, <2>1, <2>2, <2>3
<1> QED BY <1>2, <1>3

Publishes == (\E n \in Sizes : BeginMessage(n)) \/ StoreWord \/ PublishMessage

\* A step of the publisher leaves alone what lies between the mark and the copied pointer,
\* and the mark does not sink.
LEMMA WriterSpares ==
  ASSUME PeekTypes, WritingInv, SnapshotInv, Publishes
  PROVE  /\ Low' \in Nat /\ Low <= Low'
         /\ \A o \in Low' .. snapshot.off - 1 : ring'[o] = ring[o]
         /\ serial' \in serial .. MaxPublished
         /\ \/ snapshot.lap < pointer'.lap
            \/ snapshot.lap = pointer'.lap /\ snapshot.off <= pointer'.off
         /\ UNCHANGED readerVars
<1>0. /\ \/ snapshot.lap < pointer.lap
         \/ snapshot.lap = pointer.lap /\ snapshot.off <= pointer.off
      /\ pointer.lap \in Nat /\ snapshot.lap \in Nat /\ pointer.off \in Nat /\ snapshot.off \in Nat
      /\ RingWords \in Nat /\ snapshot.off <= RingWords /\ pointer.off <= RingWords
      /\ serial \in Nat /\ serial <= MaxPublished /\ MaxPublished \in Nat
      /\ Reach \in Nat /\ Reach <= RingWords /\ Low \in Nat /\ Low <= RingWords
  BY PeekNumbers, ReachFits DEF SnapshotInv
<1>1. ASSUME NEW n \in Sizes, BeginMessage(n)
      PROVE  /\ Low' \in Nat /\ Low <= Low' /\ ring' = ring /\ serial' \in serial .. MaxPublished
             /\ UNCHANGED readerVars
             /\ \/ snapshot.lap < pointer'.lap
                \/ snapshot.lap = pointer'.lap /\ snapshot.off <= pointer'.off
  <2>1. /\ writing = NotWriting /\ serial < MaxPublished /\ serial' = serial + 1
        /\ writing' = [len |-> n, stored |-> 0] /\ UNCHANGED <<ring, readerVars, snapshot>>
        /\ pointer' = IF pointer.off + n + 2 <= RingWords THEN pointer
                      ELSE [lap |-> pointer.lap + 1, off |-> 0]
    BY <1>1 DEF BeginMessage, readerVars
  <2>2. n \in Nat /\ n >= 1 /\ n + 2 <= RingWords
    BY SizesFit
  <2>3. Reach = pointer.off
    BY <2>1, ReachFits
  <2>4. Reach' = pointer'.off + (n + 1)
    <3>1. writing' # NotWriting /\ writing'.len = n
      BY <2>1, <2>2 DEF NotWriting
    <3>2. NotWriting' = NotWriting
      BY DEF NotWriting
    <3> QED BY <3>1, <3>2 DEF Reach
  <2>5. CASE pointer.off + n + 2 <= RingWords
    <3>1. pointer' = pointer
      BY <2>1, <2>5
    <3>2. Low' = IF pointer.lap = snapshot.lap THEN 0
                 ELSE IF pointer.lap = snapshot.lap + 1 THEN pointer.off + (n + 1) ELSE RingWords
      BY <2>1, <2>4, <3>1 DEF Low
    <3> QED BY <1>0, <2>1, <2>2, <2>3, <3>1, <3>2, LowCases
  <2>6. CASE ~ (pointer.off + n + 2 <= RingWords)
    <3>1. pointer'.lap = pointer.lap + 1 /\ pointer'.off = 0
      BY <2>1, <2>6
    <3>2. Low' = IF pointer.lap + 1 = snapshot.lap THEN 0
                 ELSE IF pointer.lap + 1 = snapshot.lap + 1 THEN n + 1 ELSE RingWords
      BY <2>1, <2>2, <2>4, <3>1 DEF Low
    <3> QED BY <1>0, <2>1, <2>2, <2>3, <3>1, <3>2, LowCases
  <2> QED BY <2>5, <2>6
<1>2. CASE StoreWord
  <2>1. /\ writing # NotWriting /\ writing.stored <= writing.len
        /\ ring' = [ring EXCEPT ![pointer.off + writing.stored] =
                      Word(serial, writing.len, writing.stored)]
        /\ writing' = [len |-> writing.len, stored |-> writing.stored + 1]
        /\ UNCHANGED <<pointer, serial, readerVars, snapshot>>
    BY <1>2, PeekRecords DEF StoreWord, readerVars
  <2>2. writing.len \in Nat /\ writing.len >= 1 /\ Reach = pointer.off + writing.len + 1
        /\ writing.stored \in Nat
    BY <2>1, ReachFits, PeekNumbers
  <2>3. Reach' = Reach
    BY <2>1, <2>2 DEF Reach, NotWriting
  <2>4. Low' = Low
    BY <2>1, <2>3 DEF Low
  <2>5. ASSUME NEW o \in Low .. snapshot.off - 1
        PROVE  ring'[o] = ring[o]
    <3>1. o # pointer.off + writing.stored
      BY <1>0, <2>1, <2>2, LowCases
    <3>2. o \in 0 .. RingWords - 1
      BY <1>0
    <3> QED BY <2>1, <3>1, <3>2, PeekRecords
  <2> QED BY <1>0, <2>1, <2>4, <2>5
<1>3. CASE PublishMessage
  <2>1. /\ writing # NotWriting /\ writing' = NotWriting
        /\ pointer' = [lap |-> pointer.lap, off |-> pointer.off + writing.len + 1]
        /\ UNCHANGED <<ring, serial, readerVars, snapshot>>
    BY <1>3, PeekRecords DEF PublishMessage, readerVars
  <2>2. writing.len \in Nat /\ Reach = pointer.off + writing.len + 1
    BY <2>1, ReachFits
  <2>3. Reach' = Reach
    <3>1. NotWriting' = NotWriting
      BY DEF NotWriting
    <3> QED BY <1>0, <2>1, <2>2, <3>1 DEF Reach
  <2>4. Low' = Low
    BY <2>1, <2>3 DEF Low
  <2> QED BY <1>0, <2>1, <2>2, <2>4
<1>4. CASE \E n \in Sizes : BeginMessage(n)
  BY <1>1, <1>4
<1> QED BY <1>2, <1>3, <1>4 DEF Publishes

\* Hence nothing the reader relies on is lost by it.
LEMMA WriterKeepsReader ==
  ASSUME PeekInv, Publishes
  PROVE  SnapshotInv' /\ WalkInv' /\ CopyInv' /\ PeekIsNewest'
<1> USE DEF PeekInv
<1>0. /\ Low' \in Nat /\ Low <= Low' /\ Low \in Nat
      /\ \A o \in Low' .. snapshot.off - 1 : ring'[o] = ring[o]
      /\ serial' \in serial .. MaxPublished /\ serial \in Nat
      /\ \/ snapshot.lap < pointer'.lap
         \/ snapshot.lap = pointer'.lap /\ snapshot.off <= pointer'.off
      /\ UNCHANGED <<peek, snapshot, offset, newest, copied, astray, expected, returned>>
  BY WriterSpares, ReachFits, PeekNumbers DEF readerVars
<1>1. /\ snapshot.off \in Nat /\ newest.at \in Nat /\ newest.len \in Nat /\ Len(copied) \in Nat
      /\ MaxPublished \in Nat
  BY PeekNumbers, PeekRecords
<1>2. SnapshotInv'
  <2> SUFFICES ASSUME NEW o \in Low' .. snapshot.off - 1
               PROVE  Belongs(ring', serial', o, Low', snapshot.off)
    BY <1>0 DEF SnapshotInv
  <2>1. Belongs(ring, serial, o, Low, snapshot.off)
    BY <1>0, <1>1 DEF SnapshotInv
  <2>2. /\ serial \in Nat /\ serial' \in Nat /\ serial <= serial'
        /\ Low \in Nat /\ Low' \in Nat /\ Low <= Low' /\ snapshot.off \in Nat
        /\ o \in Low' .. snapshot.off - 1
        /\ \A i \in Low' .. snapshot.off - 1 : ring'[i] = ring[i]
    BY <1>0, <1>1
  <2> QED BY ONLY <2>1, <2>2, StillBelongs, ZenonT(60)
<1>3. WalkInv'
  <2>1. CASE peek = "idle"
    BY <1>0, <2>1 DEF WalkInv
  <2>2. CASE peek # "idle"
    <3>1. newest.at >= Low' => newest.at >= Low /\ newest.at \in Low' .. snapshot.off - 1
      BY <1>0, <1>1, <2>2 DEF WalkInv
    <3> QED BY <1>0, <2>2, <3>1 DEF WalkInv
  <2> QED BY <2>1, <2>2
<1>4. CopyInv'
  <2>1. ASSUME newest.at >= Low', NEW j \in 1 .. Len(copied)
        PROVE  copied[j] = ring'[newest.at + j]
    <3>1. peek # "idle" /\ newest.at + newest.len < snapshot.off /\ Len(copied) <= newest.len
      BY <1>1, <2>1, EmptySeq DEF CopyInv, WalkInv, Nothing
    <3>2. newest.at >= Low /\ newest.at + j \in Low' .. snapshot.off - 1
      <4>1. j \in Nat /\ j <= newest.len
        BY <1>1, <3>1
      <4>2. Low \in Nat /\ Low' \in Nat /\ Low <= Low' /\ newest.at >= Low'
        BY <1>0, <2>1
      <4>3. newest.at \in Nat /\ newest.len \in Nat /\ snapshot.off \in Nat
        BY <1>1
      <4>4. newest.at + newest.len < snapshot.off
        BY <3>1
      <4> QED BY ONLY <4>1, <4>2, <4>3, <4>4
    <3> QED BY <1>0, <3>2 DEF CopyInv
  <2> QED BY <1>0, <2>1 DEF CopyInv
<1>5. PeekIsNewest'
  BY <1>0, <1>1 DEF PeekIsNewest
<1> QED BY <1>2, <1>3, <1>4, <1>5

\* What the publisher itself relies on: the words it stores become a message.
LEMMA WriterKeepsRing ==
  ASSUME PeekInv, Publishes
  PROVE  PeekTypes' /\ WritingInv' /\ LapInv'
<1> USE DEF PeekInv
<1>0. /\ RingWords \in Nat /\ MaxPublished \in Nat /\ pointer.lap \in Nat /\ pointer.off \in Nat
      /\ pointer.off <= RingWords /\ serial \in Nat /\ serial <= MaxPublished
      /\ writing.stored \in Nat /\ serial' \in serial .. MaxPublished
      /\ UNCHANGED <<peek, snapshot, offset, newest, copied, astray, expected, returned>>
  BY PeekNumbers, WriterSpares DEF readerVars
<1>1. ASSUME ring' \in [0 .. RingWords - 1 -> RingWord],
             pointer' \in [lap : Nat, off : 0 .. RingWords],
             writing' \in [len : Sizes \cup {0}, stored : Nat]
      PROVE  PeekTypes'
  <2>1. serial' \in 0 .. MaxPublished /\ expected \in 0 .. serial'
    BY <1>0, PeekNumbers
  <2> QED BY <1>0, <1>1, <2>1 DEF PeekTypes, PeekTypeOK, RingWord
<1>2. ASSUME UNCHANGED ring, NEW off \in Nat, pointer'.off = off, off <= pointer.off
      PROVE  off = 0 \/ off = pointer.off => LapInv'
  <2>1. ASSUME NEW o \in 0 .. pointer.off - 1
        PROVE  Belongs(ring', serial', o, 0, pointer.off)
    <3>1. Belongs(ring, serial, o, 0, pointer.off)
      BY DEF LapInv
    <3>2. /\ 0 \in Nat /\ 0 <= 0 /\ serial' \in Nat /\ serial <= serial'
          /\ \A i \in 0 .. pointer.off - 1 : ring'[i] = ring[i]
      BY <1>0, <1>2
    <3>3. pointer.off \in Nat /\ serial \in Nat /\ o \in 0 .. pointer.off - 1
      BY <1>0
    <3> QED BY ONLY <3>1, <3>2, <3>3, StillBelongs, ZenonT(60)
  <2> QED BY <1>2, <2>1 DEF LapInv
<1>3. ASSUME NEW n \in Sizes, BeginMessage(n)
      PROVE  PeekTypes' /\ WritingInv' /\ LapInv'
  <2>1. /\ writing = NotWriting /\ serial' = serial + 1 /\ ring' = ring
        /\ writing' = [len |-> n, stored |-> 0]
        /\ pointer' = IF pointer.off + n + 2 <= RingWords THEN pointer
                      ELSE [lap |-> pointer.lap + 1, off |-> 0]
    BY <1>3 DEF BeginMessage
  <2>2. n \in Nat /\ n >= 1 /\ n + 2 <= RingWords
    BY SizesFit
  <2>3. /\ pointer'.off \in {0, pointer.off} /\ pointer'.off + n + 2 <= RingWords
        /\ pointer' \in [lap : Nat, off : 0 .. RingWords]
    <3>1. pointer = [lap |-> pointer.lap, off |-> pointer.off]
      BY PeekRecords
    <3>2. CASE pointer.off + n + 2 <= RingWords
      BY <1>0, <2>1, <3>1, <3>2 DEF PeekTypes, PeekTypeOK
    <3>3. CASE ~ (pointer.off + n + 2 <= RingWords)
      BY <1>0, <2>1, <2>2, <3>3
    <3> QED BY <3>2, <3>3
  <2>4. PeekTypes'
    BY <1>1, <2>1, <2>2, <2>3, PeekRecords
  <2>5. WritingInv'
    BY <1>0, <2>1, <2>2, <2>3 DEF WritingInv, NotWriting
  <2>6. LapInv'
    BY <1>0, <1>2, <2>1, <2>3
  <2> QED BY <2>4, <2>5, <2>6
<1>4. CASE StoreWord
  <2>1. /\ writing # NotWriting /\ writing.stored <= writing.len
        /\ ring' = [ring EXCEPT ![pointer.off + writing.stored] =
                      Word(serial, writing.len, writing.stored)]
        /\ writing' = [len |-> writing.len, stored |-> writing.stored + 1]
        /\ UNCHANGED <<pointer, serial>>
    BY <1>4, PeekRecords DEF StoreWord
  <2>2. /\ writing.len \in Nat /\ writing.len >= 1 /\ writing.len \in Sizes /\ serial >= 1
        /\ pointer.off + writing.len + 2 <= RingWords
        /\ \A j \in 0 .. writing.stored - 1 : ring[pointer.off + j] = Word(serial, writing.len, j)
    BY <2>1, SizesFit DEF WritingInv
  <2>3. pointer.off + writing.stored \in 0 .. RingWords - 1
    BY <1>0, <2>1, <2>2
  <2>4. Word(serial, writing.len, writing.stored) \in RingWord
    BY <1>0, <2>2 DEF Word, RingWord
  <2>5. /\ ring' \in [0 .. RingWords - 1 -> RingWord]
        /\ ring'[pointer.off + writing.stored] = Word(serial, writing.len, writing.stored)
        /\ \A o \in 0 .. RingWords - 1 : o # pointer.off + writing.stored => ring'[o] = ring[o]
    BY <2>1, <2>3, <2>4, PeekRecords
  <2>6. PeekTypes'
    <3>1. writing' \in [len : Sizes \cup {0}, stored : Nat]
      BY <1>0, <2>1, <2>2
    <3> QED BY <1>1, <2>1, <2>5, <3>1 DEF PeekTypes, PeekTypeOK
  <2>7. WritingInv'
    <3>1. ASSUME NEW j \in 0 .. writing.stored
          PROVE  ring'[pointer.off + j] = Word(serial, writing.len, j)
      <4>1. CASE j = writing.stored
        BY <2>5, <4>1
      <4>2. CASE j # writing.stored
        <5>1. j \in 0 .. writing.stored - 1 /\ pointer.off + j \in 0 .. RingWords - 1
              /\ pointer.off + j # pointer.off + writing.stored
          BY <1>0, <2>1, <2>2, <4>2
        <5> QED BY <2>2, <2>5, <5>1
      <4> QED BY <4>1, <4>2
    <3>2. writing'.stored \in 0 .. writing.len + 1 /\ writing'.stored - 1 = writing.stored
          /\ writing'.len = writing.len /\ writing.len # 0
      BY <1>0, <2>1, <2>2
    <3> QED BY <2>1, <2>2, <3>1, <3>2 DEF WritingInv
  <2>8. LapInv'
    <3> SUFFICES ASSUME NEW o \in 0 .. pointer.off - 1
                 PROVE  Belongs(ring', serial', o, 0, pointer.off)
      BY <2>1 DEF LapInv
    <3>1. Belongs(ring, serial, o, 0, pointer.off)
      BY DEF LapInv
    <3>2. \A p \in 0 .. pointer.off - 1 : ring'[p] = ring[p]
      BY <1>0, <2>5
    <3>3. /\ 0 \in Nat /\ 0 <= 0 /\ pointer.off \in Nat /\ o \in 0 .. pointer.off - 1
          /\ serial \in Nat /\ serial <= serial /\ serial' = serial
      BY <1>0, <2>1
    <3> QED BY ONLY <3>1, <3>2, <3>3, StillBelongs, ZenonT(60)
  <2> QED BY <2>6, <2>7, <2>8
<1>5. CASE PublishMessage
  <2>1. /\ writing # NotWriting /\ writing.stored = writing.len + 1
        /\ pointer' = [lap |-> pointer.lap, off |-> pointer.off + writing.len + 1]
        /\ writing' = NotWriting /\ UNCHANGED <<ring, serial>>
    BY <1>5, PeekRecords DEF PublishMessage
  <2>2. /\ writing.len \in Nat /\ writing.len >= 1 /\ writing.len \in Sizes /\ serial >= 1
        /\ pointer.off + writing.len + 2 <= RingWords
        /\ \A j \in 0 .. writing.len : ring[pointer.off + j] = Word(serial, writing.len, j)
    <3>1. writing.stored - 1 = writing.len
      BY <1>0, <2>1, SizesFit DEF WritingInv
    <3> QED BY <2>1, <3>1, SizesFit DEF WritingInv
  <2>3. PeekTypes'
    <3>1. /\ pointer' \in [lap : Nat, off : 0 .. RingWords]
          /\ writing' \in [len : Sizes \cup {0}, stored : Nat]
      BY <1>0, <2>1, <2>2 DEF NotWriting
    <3> QED BY <1>1, <2>1, <3>1, PeekRecords
  <2>4. WritingInv'
    BY <2>1 DEF WritingInv, NotWriting
  <2>5. LapInv'
    <3> SUFFICES ASSUME NEW o \in 0 .. pointer.off + writing.len
                 PROVE  Belongs(ring, serial, o, 0, pointer.off + writing.len + 1)
      BY <1>0, <2>1, <2>2 DEF LapInv
    <3>1. CASE o \in 0 .. pointer.off - 1
      <4>1. Belongs(ring, serial, o, 0, pointer.off)
        BY <3>1 DEF LapInv
      <4>2. ring[o].len \in Nat /\ o - ring[o].at \in Nat
        BY <4>1, SizesFit DEF Belongs
      <4>3. (o - ring[o].at) + ring[o].len < pointer.off + writing.len + 1
        BY <1>0, <2>2, <4>1, <4>2 DEF Belongs
      <4> QED BY <4>1, <4>3 DEF Belongs
    <3>2. CASE ~ (o \in 0 .. pointer.off - 1)
      <4>1. o - pointer.off \in 0 .. writing.len /\ pointer.off + (o - pointer.off) = o
        BY <1>0, <2>2, <3>2
      <4>2. ring[o] = Word(serial, writing.len, o - pointer.off)
        BY <2>2, <4>1
      <4>3. /\ ring[o].serial = serial /\ ring[o].len = writing.len /\ ring[o].at = o - pointer.off
        BY <4>2 DEF Word
      <4>4. o - ring[o].at = pointer.off
        BY <1>0, <2>2, <4>3
      <4>5. \A j \in 0 .. writing.len : ring[pointer.off + j] = Word(serial, writing.len, j)
        BY <2>2
      <4> QED BY <1>0, <2>2, <4>1, <4>3, <4>4, <4>5 DEF Belongs
    <3> QED BY <3>1, <3>2
  <2> QED BY <2>3, <2>4, <2>5
<1> QED BY <1>3, <1>4, <1>5 DEF Publishes

\* The message it publishes is the newest there, and the one the pointer was copied behind
\* stays the last before it.
LEMMA WriterKeepsNewest ==
  ASSUME PeekInv, Publishes
  PROVE  NewestInv'
<1> USE DEF PeekInv
<1>0. /\ RingWords \in Nat /\ pointer.off \in Nat /\ pointer.off <= RingWords /\ serial \in Nat
      /\ writing.stored \in Nat /\ snapshot.off \in Nat /\ Low \in Nat /\ Low' \in Nat /\ Low <= Low'
      /\ \A o \in Low' .. snapshot.off - 1 : ring'[o] = ring[o]
      /\ UNCHANGED <<snapshot, expected>>
  BY PeekNumbers, ReachFits, WriterSpares DEF readerVars
<1>1. snapshot.off > 0 /\ Low' <= snapshot.off - 1 => ring'[snapshot.off - 1].serial = expected
  <2> SUFFICES ASSUME snapshot.off > 0, Low' <= snapshot.off - 1
               PROVE  ring'[snapshot.off - 1].serial = expected
    OBVIOUS
  <2>1. snapshot.off - 1 \in Low' .. snapshot.off - 1 /\ Low <= snapshot.off - 1
    BY <1>0
  <2> QED BY <1>0, <2>1 DEF NewestInv
<1>2. pointer'.off > 0 => ring'[pointer'.off - 1].serial = Published'
  <2>1. ASSUME NEW n \in Sizes, BeginMessage(n), pointer'.off > 0
        PROVE  ring'[pointer'.off - 1].serial = Published'
    <3>1. /\ writing = NotWriting /\ serial' = serial + 1 /\ ring' = ring
          /\ writing' = [len |-> n, stored |-> 0] /\ pointer' = pointer
      BY <2>1 DEF BeginMessage
    <3>2. n >= 1 /\ n \in Nat
      BY SizesFit
    <3>3. writing' # NotWriting' /\ NotWriting' = NotWriting
      BY <3>1, <3>2 DEF NotWriting
    <3>4. Published = serial /\ Published' = serial
      BY <1>0, <3>1, <3>3 DEF Published
    <3> QED BY <2>1, <3>1, <3>4 DEF NewestInv
  <2>2. ASSUME StoreWord, pointer'.off > 0
        PROVE  ring'[pointer'.off - 1].serial = Published'
    <3>1. /\ writing # NotWriting /\ writing.stored <= writing.len
          /\ ring' = [ring EXCEPT ![pointer.off + writing.stored] =
                        Word(serial, writing.len, writing.stored)]
          /\ writing' = [len |-> writing.len, stored |-> writing.stored + 1]
          /\ UNCHANGED <<pointer, serial>>
      BY <2>2, PeekRecords DEF StoreWord
    <3>2. /\ pointer.off - 1 # pointer.off + writing.stored /\ pointer.off - 1 \in 0 .. RingWords - 1
          /\ ring \in [0 .. RingWords - 1 -> RingWord]
      BY <1>0, <2>2, <3>1, PeekRecords
    <3>3. ring'[pointer.off - 1] = ring[pointer.off - 1]
      BY <3>1, <3>2
    <3>4. writing' # NotWriting'
      BY <1>0, <3>1 DEF NotWriting
    <3>5. Published' = Published
      BY <3>1, <3>4 DEF Published
    <3> QED BY <2>2, <3>1, <3>3, <3>5 DEF NewestInv
  <2>3. ASSUME PublishMessage, pointer'.off > 0
        PROVE  ring'[pointer'.off - 1].serial = Published'
    <3>1. /\ writing # NotWriting /\ writing.stored = writing.len + 1
          /\ pointer' = [lap |-> pointer.lap, off |-> pointer.off + writing.len + 1]
          /\ writing' = NotWriting /\ UNCHANGED <<ring, serial>>
      BY <2>3, PeekRecords DEF PublishMessage
    <3>2. /\ writing.len \in Nat
          /\ \A j \in 0 .. writing.stored - 1 : ring[pointer.off + j] = Word(serial, writing.len, j)
      BY <3>1, SizesFit DEF WritingInv
    <3>3. /\ writing.len \in 0 .. writing.stored - 1
          /\ pointer'.off - 1 = pointer.off + writing.len
      BY <1>0, <3>1, <3>2
    <3>4. ring'[pointer'.off - 1] = Word(serial, writing.len, writing.len)
      BY <3>1, <3>2, <3>3
    <3>5. Published' = serial
      BY <3>1 DEF Published, NotWriting
    <3> QED BY <3>4, <3>5 DEF Word
  <2> QED BY <2>1, <2>2, <2>3 DEF Publishes
<1> QED BY <1>0, <1>1, <1>2 DEF NewestInv

-----------------------------------------------------------------------------
(* The reader. *)

\* What it does not write, and the mark, stay as they are while it keeps its pointer.
LEMMA ReaderSpares ==
  ASSUME WritingInv, LapInv, SnapshotInv, NewestInv, UNCHANGED <<writerVars, snapshot, expected>>
  PROVE  /\ Low' = Low
         /\ WritingInv' /\ LapInv' /\ SnapshotInv' /\ NewestInv'
<1>1. UNCHANGED <<ring, pointer, writing, serial, snapshot, expected>>
  BY DEF writerVars
<1>2. Low' = Low /\ Published' = Published
  BY <1>1 DEF Low, Reach, Published, NotWriting
<1> QED BY <1>1, <1>2 DEF WritingInv, LapInv, SnapshotInv, NewestInv, NotWriting

\* The peek ends, with nothing or with the whole message.
LEMMA PeekEnding ==
  ASSUME PeekInv, NEW what, PeekEnds(what), UNCHANGED <<writerVars, snapshot, expected>>,
         astray' \in BOOLEAN,
         what # Nothing /\ ~ astray' =>
           \E n \in Sizes : what = [j \in 1 .. n |-> Word(expected, n, j)]
  PROVE  PeekInv'
<1>1. /\ UNCHANGED <<ring, pointer, writing, serial, snapshot, expected>>
      /\ returned' = what /\ peek' = "idle" /\ offset' = 0 /\ newest' = Nowhere /\ copied' = << >>
  BY DEF PeekEnds, writerVars, Nothing
<1>2. WritingInv' /\ LapInv' /\ SnapshotInv' /\ NewestInv'
  BY ReaderSpares DEF PeekInv
<1>3. Len(copied') = 0 /\ copied' \in Seq(RingWord)
  BY <1>1, EmptySeq
<1>4. PeekTypes'
  <2>1. /\ newest' \in [at : 0 .. RingWords, len : 0 .. RingWords] /\ offset' \in 0 .. RingWords
    BY <1>1, PeekNumbers DEF PeekInv, Nowhere
  <2> QED BY <1>1, <1>3, <2>1 DEF PeekInv, PeekTypes, PeekTypeOK, RingWord
<1>5. WalkInv' /\ CopyInv'
  <2>1. newest'.len = 0
    BY <1>1 DEF Nowhere
  <2> QED BY <1>1, <1>3, <2>1 DEF WalkInv, CopyInv, Nothing, Nowhere
<1>6. PeekIsNewest'
  BY <1>1 DEF PeekIsNewest, Nothing
<1> QED BY <1>2, <1>4, <1>5, <1>6 DEF PeekInv

LEMMA BeginPeekKeeps ==
  ASSUME PeekInv, BeginPeek
  PROVE  PeekInv'
<1>1. /\ peek = "idle" /\ snapshot' = pointer /\ astray' = FALSE /\ returned' = << >>
      /\ expected' = Published
      /\ UNCHANGED <<ring, pointer, writing, serial>>
  BY DEF BeginPeek, PeekEnds, writerVars, Nothing
<1>2. /\ newest' = Nowhere /\ offset' = 0 /\ copied' = << >>
      /\ peek' = IF pointer.off = 0 THEN "idle" ELSE "walk"
  BY <1>1 DEF BeginPeek, PeekEnds, PeekInv, WalkInv, CopyInv, Nothing
<1>3. Low' = 0
  BY <1>1 DEF Low
<1>4. Len(copied') = 0 /\ copied' \in Seq(RingWord)
  BY <1>2, EmptySeq
<1>5. /\ newest' \in [at : 0 .. RingWords, len : 0 .. RingWords] /\ offset' \in 0 .. RingWords
      /\ newest'.at = 0 /\ newest'.len = 0 /\ pointer.off \in Nat
  BY <1>2, PeekNumbers DEF PeekInv, Nowhere
<1>a. Published \in 0 .. serial
  <2>1. serial \in Nat /\ (writing # NotWriting => serial >= 1)
    BY PeekNumbers DEF PeekInv, WritingInv
  <2> QED BY <2>1 DEF Published
<1>6. PeekTypes'
  BY <1>1, <1>2, <1>4, <1>5, <1>a DEF PeekInv, PeekTypes, PeekTypeOK, RingWord
<1>7. WritingInv' /\ LapInv'
  BY <1>1 DEF PeekInv, WritingInv, LapInv, NotWriting
<1>8. SnapshotInv' /\ NewestInv'
  <2>1. Published' = Published
    BY <1>1 DEF Published, NotWriting
  <2> QED BY <1>1, <1>3, <1>5, <2>1 DEF PeekInv, LapInv, SnapshotInv, NewestInv
<1>9. WalkInv' /\ CopyInv' /\ PeekIsNewest'
  BY <1>1, <1>2, <1>4, <1>5 DEF WalkInv, CopyInv, PeekIsNewest, Nothing, Nowhere
<1> QED BY <1>6, <1>7, <1>8, <1>9 DEF PeekInv

LEMMA WalkKeeps ==
  ASSUME PeekInv, Walk
  PROVE  PeekInv'
<1>1. /\ peek = "walk" /\ offset < snapshot.off /\ astray' = (astray \/ ring[offset].at # 0)
      /\ UNCHANGED <<writerVars, snapshot, expected>> /\ UNCHANGED <<ring, pointer, writing, serial, snapshot, expected>>
  BY DEF Walk, writerVars
<1>2. /\ RingWords \in Nat /\ snapshot.off \in Nat /\ snapshot.off <= RingWords /\ offset \in Nat
      /\ ring[offset].len \in Nat
  <2>1. RingWords \in Nat /\ snapshot.off \in Nat /\ snapshot.off <= RingWords /\ offset \in Nat
    BY PeekNumbers DEF PeekInv
  <2>2. offset \in 0 .. RingWords - 1
    BY <1>1, <2>1
  <2> QED BY <2>1, <2>2 DEF PeekInv, PeekTypes, PeekTypeOK
<1>3. PICK n \in SizeAt(offset) :
        IF n = 0 \/ offset + 1 + n > snapshot.off
          THEN PeekEnds(Nothing)
          ELSE /\ newest' = [at |-> offset, len |-> n]
               /\ offset' = offset + 1 + n
               /\ UNCHANGED <<peek, copied, returned>>
  BY DEF Walk
<1>4. n \in Nat /\ (ring[offset].at = 0 => n = ring[offset].len)
  BY <1>2 DEF SizeAt
<1>5. astray' \in BOOLEAN
  BY <1>1
<1>6. CASE n = 0 \/ offset + 1 + n > snapshot.off
  BY <1>1, <1>3, <1>5, <1>6, PeekEnding
<1>7. CASE ~ (n = 0 \/ offset + 1 + n > snapshot.off)
  <2>1. /\ newest' = [at |-> offset, len |-> n] /\ newest'.at = offset /\ newest'.len = n
        /\ offset' = offset + 1 + n /\ UNCHANGED <<peek, copied, returned>>
    BY <1>3, <1>7
  <2>2. n > 0 /\ n <= RingWords /\ offset + 1 + n <= snapshot.off
    BY <1>2, <1>4, <1>7
  <2>3. Low' = Low /\ WritingInv' /\ LapInv' /\ SnapshotInv' /\ NewestInv'
    BY <1>1, ReaderSpares DEF PeekInv
  <2>4. PeekTypes'
    <3>1. newest' \in [at : 0 .. RingWords, len : 0 .. RingWords] /\ offset' \in 0 .. RingWords
      BY <1>1, <1>2, <1>4, <2>1, <2>2
    <3> QED BY <1>1, <1>5, <2>1, <3>1 DEF PeekInv, PeekTypes, PeekTypeOK, RingWord
  <2>5. WalkInv'
    <3>1. offset + n < snapshot.off /\ returned = Nothing
      BY <1>1, <1>2, <1>4, <2>2 DEF PeekInv, WalkInv
    <3>2. ~ astray' => ring'[newest'.at].at = 0 /\ ring'[newest'.at].len = newest'.len
      BY <1>1, <1>4, <2>1
    <3>3. peek' = "walk" /\ newest'.len # 0 /\ returned' = << >> /\ snapshot'.off > 0
          /\ newest'.at + newest'.len < snapshot'.off
          /\ offset' = newest'.at + newest'.len + 1
      BY <1>1, <1>2, <1>4, <2>1, <2>2, <3>1 DEF Nothing
    <3> QED BY <3>2, <3>3 DEF WalkInv, Nothing
  <2>6. CopyInv'
    <3>1. copied' = Nothing /\ Len(copied') = 0 /\ peek' = "walk"
      BY <1>1, <2>1, EmptySeq DEF PeekInv, CopyInv, Nothing
    <3> QED BY <1>4, <2>1, <3>1 DEF CopyInv, Nothing
  <2>7. PeekIsNewest'
    BY <1>1, <2>1 DEF PeekInv, WalkInv, PeekIsNewest, Nothing
  <2> QED BY <2>3, <2>4, <2>5, <2>6, <2>7 DEF PeekInv
<1> QED BY <1>6, <1>7

LEMMA WalkEndsKeeps ==
  ASSUME PeekInv, WalkEnds
  PROVE  PeekInv'
<1>1. /\ peek = "walk" /\ offset = snapshot.off /\ peek' = "copy"
      /\ UNCHANGED <<snapshot, offset, newest, copied, astray, expected, returned>>
      /\ UNCHANGED <<writerVars, snapshot, expected>> /\ UNCHANGED <<ring, pointer, writing, serial, snapshot, expected>>
  BY DEF WalkEnds, writerVars
<1>2. Low' = Low /\ WritingInv' /\ LapInv' /\ SnapshotInv' /\ NewestInv'
  BY <1>1, ReaderSpares DEF PeekInv
<1>3. PeekTypes'
  BY <1>1 DEF PeekInv, PeekTypes, PeekTypeOK, RingWord
<1>4. WalkInv'
  <2>1. newest.len # 0
    BY <1>1, PeekNumbers DEF PeekInv, WalkInv
  <2> QED BY <1>1, <1>2, <2>1 DEF PeekInv, WalkInv, Nothing
<1>5. CopyInv'
  BY <1>1, <1>2 DEF PeekInv, CopyInv
<1>6. PeekIsNewest'
  BY <1>1 DEF PeekInv, PeekIsNewest, Nothing
<1> QED BY <1>2, <1>3, <1>4, <1>5, <1>6 DEF PeekInv

LEMMA CopyWordKeeps ==
  ASSUME PeekInv, CopyWord
  PROVE  PeekInv'
<1>1. /\ peek = "copy" /\ UNCHANGED <<snapshot, offset, newest, astray, expected, returned>>
      /\ UNCHANGED <<writerVars, snapshot, expected>> /\ UNCHANGED <<ring, pointer, writing, serial, snapshot, expected>>
  BY DEF CopyWord, writerVars
<1>2. Low' = Low /\ WritingInv' /\ LapInv' /\ SnapshotInv' /\ NewestInv'
  BY <1>1, ReaderSpares DEF PeekInv
<1>3. /\ RingWords \in Nat /\ snapshot.off \in Nat /\ snapshot.off <= RingWords
      /\ newest.at \in Nat /\ newest.len \in Nat /\ newest.at + newest.len < snapshot.off
      /\ copied \in Seq(RingWord) /\ Len(copied) \in Nat /\ Len(copied) <= newest.len
      /\ Low \in Nat
  BY <1>1, PeekNumbers, PeekRecords, ReachFits, LenProperties DEF PeekInv, WalkInv, CopyInv
<1>4. CASE Len(copied) + 1 <= newest.len
  <2> DEFINE j == Len(copied) + 1
             word == ring[newest.at + j]
  <2>1. copied' = Append(copied, word) /\ peek' = peek
    BY <1>4 DEF CopyWord
  <2>2. word \in RingWord
    <3>1. newest.at + j \in 0 .. RingWords - 1
      BY <1>3, <1>4
    <3> QED BY <3>1, PeekRecords DEF PeekInv
  <2> HIDE DEF word
  <2>3. /\ copied' \in Seq(RingWord) /\ Len(copied') = j /\ copied'[j] = word
        /\ \A i \in 1 .. Len(copied) : copied'[i] = copied[i]
    BY <1>3, <2>1, <2>2, AppendProperties
  <2>4. PeekTypes'
    BY <1>1, <2>1, <2>3 DEF PeekInv, PeekTypes, PeekTypeOK, RingWord
  <2>5. CopyInv'
    <3>1. ASSUME newest.at >= Low, NEW i \in 1 .. j
          PROVE  copied'[i] = ring[newest.at + i]
      <4>1. CASE i = j
        BY <2>3, <4>1 DEF word
      <4>2. CASE i # j
        <5>1. i \in 1 .. Len(copied)
          BY <1>3, <4>2
        <5> QED BY <2>3, <3>1, <5>1 DEF PeekInv, CopyInv
      <4> QED BY <4>1, <4>2
    <3> QED BY <1>1, <1>2, <1>4, <2>1, <2>3, <3>1 DEF CopyInv
  <2>6. WalkInv'
    BY <1>1, <1>2, <2>1 DEF PeekInv, WalkInv, Nothing
  <2>7. PeekIsNewest'
    BY <1>1 DEF PeekInv, PeekIsNewest, Nothing
  <2> QED BY <1>2, <2>4, <2>5, <2>6, <2>7 DEF PeekInv
<1>5. CASE ~ (Len(copied) + 1 <= newest.len)
  <2>1. peek' = "check" /\ copied' = copied /\ Len(copied) = newest.len
    BY <1>3, <1>5 DEF CopyWord
  <2>2. PeekTypes'
    BY <1>1, <2>1 DEF PeekInv, PeekTypes, PeekTypeOK, RingWord
  <2>3. CopyInv'
    BY <1>1, <1>2, <2>1 DEF PeekInv, CopyInv
  <2>4. WalkInv'
    BY <1>1, <1>2, <2>1 DEF PeekInv, WalkInv, Nothing
  <2>5. PeekIsNewest'
    BY <1>1 DEF PeekInv, PeekIsNewest, Nothing
  <2> QED BY <1>2, <2>2, <2>3, <2>4, <2>5 DEF PeekInv
<1> QED BY <1>4, <1>5

\* The margin is what makes it so: a message being written ends within it, so a copy that
\* passes the check lies above the mark.
LEMMA IntactIsAbove ==
  ASSUME PeekInv, Intact
  PROVE  newest.at >= Low
<1>1. CASE pointer.lap = snapshot.lap
  BY <1>1, LowCases, PeekNumbers DEF PeekInv
<1>2. CASE pointer.lap = snapshot.lap + 1 /\ pointer.off + InFlight <= newest.at
  <2>1. /\ pointer.off \in Nat /\ InFlight \in Nat /\ newest.at \in Nat /\ snapshot.lap \in Nat
    BY PeekNumbers DEF PeekInv
  <2>2. Low = Reach
    BY <1>2, <2>1, LowCases
  <2>3. CASE writing = NotWriting
    BY <1>2, <2>1, <2>2, <2>3, ReachFits DEF PeekInv
  <2>4. CASE writing # NotWriting
    <3>1. Reach = pointer.off + writing.len + 1 /\ writing.len \in Nat /\ writing.len + 1 <= InFlight
      BY <2>4, ReachFits, SizesFit DEF PeekInv
    <3> QED BY <1>2, <2>1, <2>2, <3>1
  <2> QED BY <2>3, <2>4
<1> QED BY <1>1, <1>2 DEF Intact

\* And what lies above it, from a size on, is that message: the last before the pointer.
LEMMA CopiedIsNewest ==
  ASSUME PeekInv, peek = "check", Intact, ~ astray
  PROVE  \E n \in Sizes : copied = [j \in 1 .. n |-> Word(expected, n, j)]
<1>1. newest.at >= Low
  BY IntactIsAbove
<1>2. /\ newest.at \in Nat /\ newest.len \in Nat /\ snapshot.off \in Nat /\ Low \in Nat
      /\ newest.at + newest.len < snapshot.off /\ newest.len > 0
      /\ ring[newest.at].at = 0 /\ ring[newest.at].len = newest.len
  <2>1. newest.at \in Nat /\ newest.len \in Nat /\ snapshot.off \in Nat /\ Low \in Nat
    BY PeekNumbers, ReachFits DEF PeekInv
  <2> QED BY <1>1, <2>1 DEF PeekInv, WalkInv
<1>3. Belongs(ring, serial, newest.at, Low, snapshot.off)
  BY <1>1, <1>2 DEF PeekInv, SnapshotInv
<1>4. /\ ring[newest.at].serial \in 1 .. serial /\ newest.len \in Sizes
      /\ \A j \in 0 .. newest.len :
           ring[newest.at + j] = Word(ring[newest.at].serial, newest.len, j)
  <2>1. newest.at - ring[newest.at].at = newest.at
    BY <1>2
  <2>2. \A j \in 0 .. newest.len : newest.at + j >= Low
    BY <1>1, <1>2
  <2> QED BY <1>2, <1>3, <2>1, <2>2 DEF Belongs
<1>5. /\ copied \in Seq(RingWord) /\ Len(copied) = newest.len
      /\ \A j \in 1 .. newest.len : copied[j] = ring[newest.at + j]
  BY <1>1, PeekRecords DEF PeekInv, CopyInv
<1>6. ring[newest.at].serial = expected
  <2>1. newest.at + newest.len = snapshot.off - 1 /\ Low <= snapshot.off - 1 /\ snapshot.off > 0
    <3>1. offset = newest.at + newest.len + 1 /\ offset = snapshot.off
      BY <1>2 DEF PeekInv, WalkInv
    <3> QED BY <1>1, <1>2, <3>1
  <2>2. ring[snapshot.off - 1].serial = ring[newest.at].serial
    <3>1. newest.len \in 0 .. newest.len
      BY <1>2
    <3>2. ring[newest.at + newest.len] = Word(ring[newest.at].serial, newest.len, newest.len)
      BY <1>4, <3>1
    <3> QED BY <2>1, <3>2 DEF Word
  <2> QED BY <2>1, <2>2 DEF PeekInv, NewestInv
<1>7. copied = [j \in 1 .. newest.len |-> Word(expected, newest.len, j)]
  <2>1. \A j \in 1 .. newest.len : copied[j] = Word(expected, newest.len, j)
    BY <1>2, <1>4, <1>5, <1>6
  <2>2. copied = [j \in 1 .. newest.len |-> copied[j]]
    BY <1>5, LenProperties
  <2> QED BY <2>1, <2>2
<1> QED BY <1>4, <1>7

LEMMA CheckCopyKeeps ==
  ASSUME PeekInv, CheckCopy
  PROVE  PeekInv'
<1>1. /\ peek = "check" /\ PeekEnds(IF Intact THEN copied ELSE Nothing)
      /\ UNCHANGED <<writerVars, snapshot, expected>> /\ astray' = astray /\ astray' \in BOOLEAN
  BY DEF CheckCopy, PeekInv, PeekTypes, PeekTypeOK
<1>2. CASE Intact
  BY <1>1, <1>2, CopiedIsNewest, PeekEnding
<1>3. CASE ~ Intact
  BY <1>1, <1>3, PeekEnding
<1> QED BY <1>2, <1>3

-----------------------------------------------------------------------------
(* Every state. *)

LEMMA PeekStep == PeekInv /\ [PeekNext]_peekVars => PeekInv'
<1> SUFFICES ASSUME PeekInv, [PeekNext]_peekVars PROVE PeekInv'
  OBVIOUS
<1>1. CASE Publishes
  BY <1>1, WriterKeepsReader, WriterKeepsRing, WriterKeepsNewest DEF PeekInv
<1>2. CASE BeginPeek
  BY <1>2, BeginPeekKeeps
<1>3. CASE Walk
  BY <1>3, WalkKeeps
<1>4. CASE WalkEnds
  BY <1>4, WalkEndsKeeps
<1>5. CASE CopyWord
  BY <1>5, CopyWordKeeps
<1>6. CASE CheckCopy
  BY <1>6, CheckCopyKeeps
<1>7. CASE UNCHANGED peekVars
  <2>1. /\ UNCHANGED <<ring, pointer, writing, serial>> /\ UNCHANGED <<writerVars, snapshot, expected>>
        /\ UNCHANGED <<peek, snapshot, offset, newest, copied, astray, expected, returned>>
    BY <1>7 DEF peekVars, writerVars, readerVars
  <2>2. Low' = Low /\ WritingInv' /\ LapInv' /\ SnapshotInv' /\ NewestInv'
    BY <2>1, ReaderSpares DEF PeekInv
  <2> QED BY <2>1, <2>2 DEF PeekInv, PeekTypes, PeekTypeOK, WalkInv, CopyInv, PeekIsNewest, Nothing,
                            Nowhere, RingWord
<1> QED BY <1>1, <1>2, <1>3, <1>4, <1>5, <1>6, <1>7 DEF PeekNext, Publishes

\* The walk and the copy of a peek against the publisher, as the header tells it, hold at every
\* step of both.
THEOREM PeekInvariant == PeekSpec => []PeekInv
BY PeekStarts, PeekStep, PTL DEF PeekSpec

\* The peek and the publisher stay within their types.
THEOREM PeekTypeCorrect == PeekSpec => []PeekTypeOK
BY PeekInvariant, PTL DEF PeekInv, PeekTypes

\* What newest() returns is one whole message of the queue, wherever the publisher got to while
\* it walked and copied, unless the walk itself was overtaken.
THEOREM PeekedIsNewest == PeekSpec => []PeekIsNewest
BY PeekInvariant, PTL DEF PeekInv

-----------------------------------------------------------------------------
(* The road phase. *)

\* What a message says was so no longer ago than its age, on the ring and in the reader.
MessagesAge ==
  /\ resting => rest_age = 0
  /\ ~ engaged => free_age = 0
  /\ car_message.resting => rest_age <= car_message.age
  /\ car_read.resting => rest_age <= car_read.age
  /\ ~ selfdrive_message.enabled => free_age <= selfdrive_message.age
  /\ ~ selfdrive_read.enabled => free_age <= selfdrive_read.age

PhaseInv == RoadPhaseTypeOK /\ MessagesAge /\ ParkedWasParked

\* No age counts beyond Old, and a step of time never lets a smaller age overtake.
LEMMA OlderKeepsOrder ==
  /\ \A a \in Ages : Older(a) \in Ages
  /\ \A a, b \in Ages : a <= b => Older(a) <= Older(b)
BY RoadPhaseAssumption DEF Older, Old, Ages

LEMMA PhaseStarts == RoadPhaseInit => PhaseInv
<1> SUFFICES ASSUME RoadPhaseInit PROVE PhaseInv
  OBVIOUS
<1>1. Old \in Ages
  BY RoadPhaseAssumption DEF Ages, Old
<1>2. NoCar \in CarSample /\ NoSelfdrive \in SelfdriveSample
  BY <1>1 DEF NoCar, NoSelfdrive, CarSample, SelfdriveSample
<1>3. RoadPhaseTypeOK
  BY <1>1, <1>2 DEF RoadPhaseInit, RoadPhaseTypeOK, Unchecked
<1>4. MessagesAge
  BY DEF RoadPhaseInit, MessagesAge, NoCar, NoSelfdrive
<1>5. ParkedWasParked
  BY DEF RoadPhaseInit, ParkedWasParked
<1> QED BY <1>3, <1>4, <1>5 DEF PhaseInv

LEMMA PhaseStep == PhaseInv /\ [RoadPhaseNext]_roadPhaseVars => PhaseInv'
<1> SUFFICES ASSUME PhaseInv, [RoadPhaseNext]_roadPhaseVars
             PROVE  PhaseInv'
  OBVIOUS
<1> USE RoadPhaseAssumption
    DEF PhaseInv, RoadPhaseTypeOK, MessagesAge, ParkedWasParked, CarSample, SelfdriveSample,
        roadVars, queueVars, copyVars, answerVars, ageVars
<1>0. 0 \in Ages /\ Old \in Ages /\ \A a \in Ages : a \in Int /\ 0 <= a /\ a <= Old
  BY DEF Ages, Old
<1>1. CASE CarMoves
  BY <1>0, <1>1 DEF CarMoves
<1>2. CASE TimePasses
  <2>1. /\ rest_age' = IF resting THEN 0 ELSE Older(rest_age)
        /\ free_age' = IF engaged THEN Older(free_age) ELSE 0
        /\ UNCHANGED <<resting, engaged, params, reader, onroad, reading, checked>>
    BY <1>2 DEF TimePasses
  <2>2. /\ car_message' = [car_message EXCEPT !.age = Older(@)]
        /\ car_read' = [car_read EXCEPT !.age = Older(@)]
    BY <1>2 DEF TimePasses
  <2>3. /\ selfdrive_message' = [selfdrive_message EXCEPT !.age = Older(@)]
        /\ selfdrive_read' = [selfdrive_read EXCEPT !.age = Older(@)]
    BY <1>2 DEF TimePasses
  <2>4. /\ car_message' = [age |-> Older(car_message.age), resting |-> car_message.resting]
        /\ car_read' = [age |-> Older(car_read.age), resting |-> car_read.resting]
    BY <2>2
  <2>5. /\ selfdrive_message' =
             [age |-> Older(selfdrive_message.age), enabled |-> selfdrive_message.enabled]
        /\ selfdrive_read' =
             [age |-> Older(selfdrive_read.age), enabled |-> selfdrive_read.enabled]
    BY <2>3
  <2>6. rest_age' \in Ages /\ rest_age' <= Older(rest_age)
    BY <1>0, <2>1, OlderKeepsOrder
  <2>7. free_age' \in Ages /\ free_age' <= Older(free_age)
    BY <1>0, <2>1, OlderKeepsOrder
  <2>8. RoadPhaseTypeOK'
    <3>1. /\ car_message' \in CarSample /\ car_read' \in CarSample
          /\ selfdrive_message' \in SelfdriveSample /\ selfdrive_read' \in SelfdriveSample
      BY <2>4, <2>5, OlderKeepsOrder
    <3>2. /\ resting' \in BOOLEAN /\ engaged' \in BOOLEAN
          /\ params' \in {"onroad", "offroad", "unknown"}
          /\ reader' \in {"idle", "car", "selfdrive", "decide"} /\ onroad' \in BOOLEAN
          /\ reading' \in {"offroad", "parked", "driving"}
          /\ checked' \in [rest : Ages, free : Ages]
      BY <2>1
    <3> QED BY <2>6, <2>7, <3>1, <3>2
  <2>9. /\ car_message.resting => rest_age' <= Older(car_message.age)
        /\ car_read.resting => rest_age' <= Older(car_read.age)
    BY <1>0, <2>6, OlderKeepsOrder
  <2>10. /\ ~ selfdrive_message.enabled => free_age' <= Older(selfdrive_message.age)
         /\ ~ selfdrive_read.enabled => free_age' <= Older(selfdrive_read.age)
    BY <1>0, <2>7, OlderKeepsOrder
  <2>11. MessagesAge'
    BY <2>1, <2>4, <2>5, <2>9, <2>10
  <2> QED BY <2>1, <2>8, <2>11
<1>3. CASE ParamsChange
  BY <1>3 DEF ParamsChange
<1>4. CASE PublishCarState
  BY <1>0, <1>4 DEF PublishCarState
<1>5. CASE PublishSelfdriveState
  BY <1>0, <1>5 DEF PublishSelfdriveState
<1>6. CASE ReadOnroad
  BY <1>6 DEF ReadOnroad, IsOnroad
<1>7. CASE PeekCarState
  <2>1. car_read' = NoCar \/ car_read' = car_message
    BY <1>7 DEF PeekCarState
  <2>2. car_read' \in CarSample /\ (car_read'.resting => rest_age <= car_read'.age)
    <3>1. NoCar \in CarSample /\ ~ NoCar.resting
      BY <1>0 DEF NoCar
    <3>2. car_message \in CarSample /\ (car_message.resting => rest_age <= car_message.age)
      OBVIOUS
    <3> QED BY ONLY <2>1, <3>1, <3>2
  <2> QED BY <1>7, <2>2 DEF PeekCarState
<1>8. CASE PeekSelfdriveState
  <2>1. selfdrive_read' = NoSelfdrive \/ selfdrive_read' = selfdrive_message
    BY <1>8 DEF PeekSelfdriveState
  <2>2. /\ selfdrive_read' \in SelfdriveSample
        /\ ~ selfdrive_read'.enabled => free_age <= selfdrive_read'.age
    <3>1. NoSelfdrive \in SelfdriveSample /\ NoSelfdrive.enabled
      BY <1>0 DEF NoSelfdrive
    <3>2. /\ selfdrive_message \in SelfdriveSample
          /\ ~ selfdrive_message.enabled => free_age <= selfdrive_message.age
      OBVIOUS
    <3> QED BY ONLY <2>1, <3>1, <3>2
  <2> QED BY <1>8, <2>2 DEF PeekSelfdriveState
<1>9. CASE Decide
  <2>1. /\ reading' = DecideRoadPhase
        /\ checked' = IF reading' = "parked" THEN [rest |-> rest_age, free |-> free_age]
                      ELSE Unchecked
        /\ reader' = "idle" /\ onroad' = TRUE
        /\ car_read' = NoCar /\ selfdrive_read' = NoSelfdrive
        /\ UNCHANGED <<roadVars, queueVars, ageVars>>
    BY <1>9 DEF Decide
  <2>2. reading' = "parked" => rest_age <= FreshTicks /\ free_age <= FreshTicks
    BY <1>0, <2>1 DEF DecideRoadPhase, Fresh
  <2>3. RoadPhaseTypeOK'
    BY <1>0, <2>1 DEF DecideRoadPhase, Unchecked, NoCar, NoSelfdrive
  <2> QED BY <1>0, <2>1, <2>2, <2>3 DEF NoCar, NoSelfdrive
<1>10. CASE UNCHANGED roadPhaseVars
  BY <1>10 DEF roadPhaseVars
<1> QED
  BY <1>1, <1>2, <1>3, <1>4, <1>5, <1>6, <1>7, <1>8, <1>9, <1>10 DEF RoadPhaseNext

\* Every reachable state is well typed and no message is younger than what it reports.
THEOREM PhaseIsInvariant == RoadPhaseSpec => []PhaseInv
BY PhaseStarts, PhaseStep, PTL DEF RoadPhaseSpec

\* read_road_phase answers parked only of a car that rested, with openpilot off, within the
\* window before the answer, whatever happened between its three reads.
THEOREM ParkedIsRecent == RoadPhaseSpec => []ParkedWasParked
<1>1. PhaseInv => ParkedWasParked
  BY DEF PhaseInv
<1> QED BY <1>1, PhaseIsInvariant, PTL

-----------------------------------------------------------------------------
(* Pairing codes. *)

\* Only the code of the grant can be redeemed, and what became of it the grant knows.
GrantKnows ==
  /\ grant.code \in 0 .. codes
  /\ grant.code = 0 => grant.used
  /\ \A c \in 1 .. MaxCodes :
       /\ c > codes => redeemed[c] = 0 /\ c \notin refused
       /\ c = grant.code /\ ~ grant.used => redeemed[c] = 0 /\ c \notin refused
       /\ redeemed[c] > 0 => redeemed[c] = 1 /\ c \notin refused

PairingInv == PairingTypeOK /\ GrantKnows

\* Before the first code there is nothing to redeem.
LEMMA PairingStarts == PairingInit => PairingInv
BY PairingAssumption
   DEF PairingInit, PairingInv, PairingTypeOK, GrantKnows, NoGrant

\* Making a code, its end and its redemption keep the invariant; the clock is not in it.
LEMMA PairingStep == PairingInv /\ [PairingNext]_pairingVars => PairingInv'
<1> SUFFICES ASSUME PairingInv, [PairingNext]_pairingVars
             PROVE  PairingInv'
  OBVIOUS
<1> USE PairingAssumption DEF PairingInv, PairingTypeOK, GrantKnows
<1>1. CASE WallClockChanges
  BY <1>1 DEF WallClockChanges
<1>2. CASE PairingCreate
  <2>1. /\ codes' = codes + 1 /\ codes' \in 1 .. MaxCodes
        /\ grant' = [code |-> codes', expires_at |-> wall + CodeTtl, used |-> FALSE]
        /\ UNCHANGED <<wall, redeemed, refused>>
    BY <1>2 DEF PairingCreate
  <2>2. grant' \in [code : 0 .. MaxCodes, expires_at : 0 .. MaxWall + CodeTtl, used : BOOLEAN]
    BY <2>1
  <2>3. GrantKnows'
    BY <2>1
  <2> QED BY <2>1, <2>2, <2>3
<1>3. CASE PairingExpires
  <2>1. /\ grant' = [grant EXCEPT !.used = TRUE] /\ ~ grant.used
        /\ refused' = refused \cup {grant.code}
        /\ UNCHANGED <<wall, codes, redeemed>>
    BY <1>3 DEF PairingExpires
  <2>2. grant.code \in 1 .. MaxCodes
    BY <2>1
  <2>3. grant' \in [code : 0 .. MaxCodes, expires_at : 0 .. MaxWall + CodeTtl, used : BOOLEAN]
        /\ grant'.code = grant.code /\ grant'.used
    BY <2>1
  <2>4. PairingTypeOK'
    BY <2>1, <2>2, <2>3
  <2>5. GrantKnows'
    BY <2>1, <2>3
  <2> QED BY <2>4, <2>5
<1>4. ASSUME NEW code \in 1 .. MaxCodes, PairingRedeem(code)
      PROVE  PairingInv'
  <2>1. /\ code = grant.code /\ ~ grant.used
        /\ grant' = [grant EXCEPT !.used = TRUE]
        /\ redeemed' = [redeemed EXCEPT ![code] = @ + 1]
        /\ UNCHANGED <<wall, codes, refused>>
    BY <1>4 DEF PairingRedeem
  <2>2. redeemed'[code] = 1 /\ code \notin refused
    BY <2>1
  <2>3. \A c \in 1 .. MaxCodes : c # code => redeemed'[c] = redeemed[c]
    BY <2>1
  <2>4. grant' \in [code : 0 .. MaxCodes, expires_at : 0 .. MaxWall + CodeTtl, used : BOOLEAN]
        /\ grant'.code = grant.code /\ grant'.used
    BY <2>1
  <2>5. PairingTypeOK'
    BY <2>1, <2>4
  <2>6. GrantKnows'
    BY <2>1, <2>2, <2>3, <2>4
  <2> QED BY <2>5, <2>6
<1>5. CASE UNCHANGED pairingVars
  BY <1>5 DEF pairingVars
<1> QED BY <1>1, <1>2, <1>3, <1>4, <1>5 DEF PairingNext

\* Every reachable state is well typed and the grant knows its code's fate.
THEOREM PairingIsInvariant == PairingSpec => []PairingInv
BY PairingStarts, PairingStep, PTL DEF PairingSpec

\* pairing_redeem_response gives the token for a code once, and never for one it has
\* refused as expired: the used flag, not the clock, remembers.
THEOREM CodeIsGoodOnce == PairingSpec => []CodeOnce
<1>1. PairingInv => CodeOnce
  BY PairingAssumption DEF PairingInv, PairingTypeOK, GrantKnows, CodeOnce
<1> QED BY <1>1, PairingIsInvariant, PTL

-----------------------------------------------------------------------------
(* The leaderboard. *)

UnderWay == request \in {"begun", "counted", "signed"}

\* What was handed out is of a key that was, and no later than the counter and the list.
HandedInv ==
  \A s \in handed :
    /\ s.key <= key /\ s.covers <= list
    /\ s.key = key => counter.key = key /\ s.seq <= counter.last /\ request # "newkey"
    /\ s.key = key /\ request \in {"counted", "signed"} => s.seq < counter.last

\* The key stands still while a script signs, and the list only grows.
RequestInv ==
  /\ counter.key <= key
  /\ UnderWay => inputs.key = key /\ inputs.list = asked /\ asked <= list
  /\ request \in {"counted", "signed"} => counter.key = key
  /\ request = "signed" =>
       /\ statement.key = key /\ statement.seq = counter.last
       /\ asked <= statement.covers /\ statement.covers <= list
       /\ \A s \in handed : s.covers <= statement.covers

\* The cache names inputs its statement covers.
CacheInv ==
  cache # NoCache =>
    /\ cache.statement \in handed
    /\ cache.inputs.list <= cache.statement.covers
    /\ cache.inputs.key = cache.statement.key

BoardInv ==
  /\ LeaderboardTypeOK
  /\ HandedInv /\ RequestInv /\ CacheInv
  /\ CoversWhatWasThere

\* Nothing has been signed.
LEMMA BoardStarts == LeaderboardInit => BoardInv
BY LeaderboardAssumption
   DEF LeaderboardInit, BoardInv, LeaderboardTypeOK, HandedInv, RequestInv, CacheInv, UnderWay,
       CoversWhatWasThere, NoInputs, NoStatement, NoCache, NoAnswer, SomeInputs, SomeStatement

\* An answer that is in handed already, or the one a script has just signed, keeps what is
\* said of the answers.
LEMMA AnswerCovers ==
  ASSUME BoardInv, NEW s \in SomeStatement, NEW when \in 0 .. MaxLists, Answer(s, when),
         s.key = key, when <= s.covers,
         s \in handed \/ \A t \in handed : t.covers <= s.covers /\ (t.key = key => t.seq < s.seq)
  PROVE  CoversWhatWasThere'
<1> USE LeaderboardAssumption DEF BoardInv, LeaderboardTypeOK, SomeStatement
<1>1. answered' = [statement |-> s, asked |-> when, key |-> key] /\ handed' = handed \cup {s}
  BY DEF Answer
<1>2. ASSUME NEW t \in handed', NEW u \in handed', t.key = u.key, t.seq <= u.seq
      PROVE  t.covers <= u.covers /\ (t.seq = u.seq => t = u)
  <2>1. CASE t \in handed /\ u \in handed
    BY <1>2, <2>1 DEF CoversWhatWasThere
  <2>2. CASE s \notin handed /\ (t = s \/ u = s)
    <3>1. \A v \in handed : v.covers <= s.covers /\ (v.key = key => v.seq < s.seq)
      BY <2>2
    <3>2. (t \in handed \/ t = s) /\ (u \in handed \/ u = s)
      BY <1>1
    <3>3. CASE t = s /\ u = s
      BY <3>3
    <3>4. CASE t \in handed /\ u = s
      BY <3>1, <3>4, <1>2
    <3>5. CASE t = s /\ u \in handed
      BY <3>1, <3>5, <1>2
    <3> QED BY <2>2, <3>2, <3>3, <3>4, <3>5
  <2> QED BY <1>1, <2>1, <2>2
<1> QED BY <1>1, <1>2 DEF CoversWhatWasThere

LEMMA BoardStep == BoardInv /\ [LeaderboardNext]_boardVars => BoardInv'
<1> SUFFICES ASSUME BoardInv, [LeaderboardNext]_boardVars
             PROVE  BoardInv'
  OBVIOUS
<1> USE LeaderboardAssumption
    DEF BoardInv, LeaderboardTypeOK, SomeInputs, SomeStatement
<1>1. CASE ListChanges
  BY <1>1 DEF ListChanges, scriptVars, HandedInv, RequestInv, CacheInv, UnderWay, CoversWhatWasThere
<1>2. CASE RegisterRequest
  BY <1>2 DEF RegisterRequest, Register, HandedInv, RequestInv, CacheInv, UnderWay,
              CoversWhatWasThere
<1>3. CASE ResetCounter
  BY <1>3 DEF ResetCounter, HandedInv, RequestInv, CacheInv, UnderWay, CoversWhatWasThere
<1>4. CASE AnswerFromCache
  <2>1. /\ request = "none" /\ cache # NoCache /\ cache.inputs = [list |-> list, key |-> key]
        /\ Answer(cache.statement, list)
        /\ UNCHANGED <<list, key, counter, cache, request, inputs, statement, asked>>
    BY <1>4 DEF AnswerFromCache, Cached, Inputs, scriptVars
  <2>2. cache.statement \in handed /\ cache.statement.key = key /\ list <= cache.statement.covers
    BY <2>1 DEF CacheInv
  <2>3. CoversWhatWasThere'
    BY <2>1, <2>2, AnswerCovers
  <2>4. handed' = handed
        /\ answered' = [statement |-> cache.statement, asked |-> list, key |-> key]
    BY <2>1, <2>2 DEF Answer
  <2> QED BY <2>1, <2>3, <2>4 DEF HandedInv, RequestInv, CacheInv, UnderWay
<1>5. CASE AskScript
  BY <1>5 DEF AskScript, Inputs, HandedInv, RequestInv, CacheInv, UnderWay, CoversWhatWasThere
<1>6. CASE CountStatement
  BY <1>6 DEF CountStatement, NextSeq, HandedInv, RequestInv, CacheInv, UnderWay,
              CoversWhatWasThere
<1>7. CASE SignStatement
  BY <1>7 DEF SignStatement, HandedInv, RequestInv, CacheInv, UnderWay, CoversWhatWasThere
<1>8. CASE KeepStatement
  <2>1. /\ request = "signed" /\ Answer(statement, asked)
        /\ cache' \in {[inputs |-> inputs, statement |-> statement], cache}
        /\ request' = "none" /\ inputs' = NoInputs /\ statement' = NoStatement
        /\ UNCHANGED <<list, key, counter, asked>>
    BY <1>8 DEF KeepStatement
  <2>2. /\ statement.key = key /\ asked <= statement.covers
        /\ \A t \in handed : t.covers <= statement.covers /\ (t.key = key => t.seq < statement.seq)
    BY <2>1 DEF RequestInv, HandedInv
  <2>3. CoversWhatWasThere'
    BY <2>1, <2>2, AnswerCovers
  <2>4. /\ handed' = handed \cup {statement}
        /\ answered' = [statement |-> statement, asked |-> asked, key |-> key]
    BY <2>1 DEF Answer
  <2>5. LeaderboardTypeOK'
    BY <2>1, <2>4 DEF NoInputs, NoStatement
  <2>6. HandedInv' /\ RequestInv'
    BY <2>1, <2>2, <2>4 DEF HandedInv, RequestInv, UnderWay
  <2>7. CacheInv'
    BY <2>1, <2>2, <2>4 DEF CacheInv, RequestInv, UnderWay
  <2> QED BY <2>3, <2>5, <2>6, <2>7
<1>9. CASE ScriptFails
  BY <1>9 DEF ScriptFails, NoInputs, NoStatement, NoCache, HandedInv, RequestInv, CacheInv,
              UnderWay, CoversWhatWasThere
<1>10. CASE UNCHANGED boardVars
  BY <1>10 DEF boardVars, scriptVars, HandedInv, RequestInv, CacheInv, UnderWay,
               CoversWhatWasThere
<1> QED
  BY <1>1, <1>2, <1>3, <1>4, <1>5, <1>6, <1>7, <1>8, <1>9, <1>10 DEF LeaderboardNext

\* Every reachable state is well typed and the counter is ahead of what was handed out.
THEOREM BoardIsInvariant == LeaderboardSpec => []BoardInv
BY BoardStarts, BoardStep, PTL DEF LeaderboardSpec

\* leaderboard_statement_response never answers for fewer drives than there were when it
\* was asked, from the cache or not, nor with an old key; and the seqs of a key tell its
\* statements apart, the later covering no less.
THEOREM AnswersCover == LeaderboardSpec => []CoversWhatWasThere
<1>1. BoardInv => CoversWhatWasThere
  BY DEF BoardInv
<1> QED BY <1>1, BoardIsInvariant, PTL

-----------------------------------------------------------------------------
(* The recording archive. *)

LineId == [file : Nat, line : Nat]
Recipe == [lines : Seq(RouteIds), begun : BOOLEAN]

\* The line is whole, and of the route.
Holds(l, r) ==
  /\ l \in LineId /\ l.file \in 1 .. Len(recipes)
  /\ l.line \in 1 .. Len(recipes[l.file].lines) /\ recipes[l.file].lines[l.line] = r

\* The lines of a file are in its order.
Ordered(b) ==
  \A i, j \in 1 .. Len(b) : j < i /\ b[j].file = b[i].file => b[j].line < b[i].line

FilesInv == recipes \in Seq(Recipe)

\* What is due has been collected or is in a file still to be read; what has been collected
\* is in files that were.
CollectInv ==
  /\ serving # "recipe" => route = NoRoute
  /\ serving = "none" => body = << >>
  /\ serving = "recipe" =>
       /\ route \in RouteIds /\ body \in Seq(LineId)
       /\ names \in Seq(1 .. Len(recipes))
       /\ \A i, j \in 1 .. Len(names) : i # j => names[i] # names[j]
       /\ \A l \in due :
            /\ Holds(l, route)
            /\ \/ \E i \in 1 .. Len(body) : body[i] = l
               \/ \E k \in 1 .. Len(names) : names[k] = l.file
       /\ \A i \in 1 .. Len(body) :
            Holds(body[i], route) /\ \A k \in 1 .. Len(names) : names[k] # body[i].file
       /\ Ordered(body)

AnswerInv ==
  answer.status = 200 /\ answer.route # NoRoute =>
    /\ answer.body \in Seq(LineId)
    /\ \A l \in answer.due : \E i \in 1 .. Len(answer.body) : answer.body[i] = l
    /\ \A i \in 1 .. Len(answer.body) : Holds(answer.body[i], answer.route)
    /\ Ordered(answer.body)

ArchiveInv == ArchiveTypeOK /\ FilesInv /\ CollectInv /\ AnswerInv

LEMMA RecipeFiles ==
  ASSUME FilesInv
  PROVE  /\ Len(recipes) \in Nat
         /\ \A f \in 1 .. Len(recipes) :
              /\ recipes[f] \in Recipe
              /\ recipes[f].lines \in Seq(RouteIds) /\ Len(recipes[f].lines) \in Nat
<1>1. recipes \in Seq(Recipe)
  BY DEF FilesInv
<1> SUFFICES ASSUME NEW f \in 1 .. Len(recipes)
             PROVE  /\ recipes[f] \in Recipe
                    /\ recipes[f].lines \in Seq(RouteIds) /\ Len(recipes[f].lines) \in Nat
  BY <1>1
<1>2. recipes[f] \in Recipe
  BY <1>1, ElementOfSeq
<1>3. recipes[f].lines \in Seq(RouteIds)
  BY <1>2 DEF Recipe
<1> QED BY <1>2, <1>3, LenProperties

LEMMA ArchiveStarts == ArchiveInit => ArchiveInv
<1> SUFFICES ASSUME ArchiveInit PROVE ArchiveInv
  OBVIOUS
<1>1. /\ recipes = << >> /\ segments = [n \in Segments |-> [m \in Media |-> 0]]
      /\ serving = "none" /\ route = NoRoute /\ body = << >> /\ answer.status = 0
  BY DEF ArchiveInit, NoReply
<1>2. recipes \in Seq(Recipe) /\ DOMAIN recipes = {}
  BY <1>1, EmptySeq
<1>3. segments \in [Segments -> [Media -> 0 .. MaxMedia]]
  BY <1>1, ArchiveAssumption
<1> QED BY <1>1, <1>2, <1>3 DEF ArchiveInv, ArchiveTypeOK, FilesInv, CollectInv, AnswerInv

-----------------------------------------------------------------------------
(* A file. *)

\* What is collected from a file: the lines of the route, all of them, in order.
LEMMA LinesOfFile ==
  ASSUME FilesInv, NEW f \in 1 .. Len(recipes), NEW r
  PROVE  LET new   == LinesOf(f, r)
             lines == recipes[f].lines
         IN /\ new \in Seq(LineId)
            /\ \A k \in 1 .. Len(new) : new[k].file = f /\ Holds(new[k], r)
            /\ Ordered(new)
            /\ \A i \in 1 .. Len(lines) :
                 lines[i] = r => \E k \in 1 .. Len(new) : new[k] = Line(f, i)
<1> DEFINE lines == recipes[f].lines
           all == [i \in 1 .. Len(lines) |-> Line(f, i)]
           wanted == {i \in 1 .. Len(lines) : lines[i] = r}
           new == Picked(all, wanted)
<1>1. lines \in Seq(RouteIds) /\ Len(lines) \in Nat /\ f \in Nat
  BY RecipeFiles
<1> HIDE DEF lines
<1>2. all \in Seq(LineId) /\ Len(all) = Len(lines)
  <2>1. \A i \in 1 .. Len(lines) : Line(f, i) \in LineId
    BY <1>1 DEF Line, LineId
  <2> QED BY <1>1, <2>1, IsASeq
<1>3. \A i \in 1 .. Len(lines) : all[i] = Line(f, i)
  OBVIOUS
<1> HIDE DEF all
<1>4. /\ new \in Seq(LineId)
      /\ \E p : PicksAre(new, all, wanted, Len(all), p)
  BY <1>2, PickedPicks
<1>5. PICK p : PicksAre(new, all, wanted, Len(all), p)
  BY <1>4
<1>6. LinesOf(f, r) = new
  BY DEF LinesOf, new, all, wanted, lines
<1> HIDE DEF new
<1>7. \A k \in 1 .. Len(new) : p[k] \in 1 .. Len(lines) /\ lines[p[k]] = r /\ new[k] = Line(f, p[k])
  BY <1>2, <1>3, <1>5 DEF PicksAre
<1> HIDE DEF wanted
<1>8. \A k \in 1 .. Len(new) : new[k].file = f /\ new[k].line = p[k]
  <2> SUFFICES ASSUME NEW k \in 1 .. Len(new) PROVE new[k].file = f /\ new[k].line = p[k]
    OBVIOUS
  <2>1. new[k] = Line(f, p[k])
    BY <1>7
  <2> QED BY <2>1 DEF Line
<1>9. \A k \in 1 .. Len(new) : Holds(new[k], r)
  <2> SUFFICES ASSUME NEW k \in 1 .. Len(new) PROVE Holds(new[k], r)
    OBVIOUS
  <2>1. new[k] \in LineId
    BY <1>4, ElementOfSeq
  <2> QED BY <1>7, <1>8, <2>1 DEF Holds, lines
<1>10. Ordered(new)
  BY <1>5, <1>8 DEF Ordered, PicksAre
<1>11. \A i \in 1 .. Len(lines) : lines[i] = r => \E k \in 1 .. Len(new) : new[k] = Line(f, i)
  <2> SUFFICES ASSUME NEW i \in 1 .. Len(lines), lines[i] = r
               PROVE  \E k \in 1 .. Len(new) : new[k] = Line(f, i)
    OBVIOUS
  <2>1. i \in 1 .. Len(all) /\ i \in wanted
    BY <1>2 DEF wanted
  <2>2. PICK k \in 1 .. Len(new) : p[k] = i
    BY <1>5, <2>1 DEF PicksAre
  <2> QED BY <1>7, <2>2
<1> QED BY <1>4, <1>6, <1>8, <1>9, <1>10, <1>11 DEF lines

\* A whole line stays, whatever the bridge does to the files.
LEMMA LinesStay ==
  ASSUME FilesInv, BridgeStarts \/ BeginLine \/ \E r \in RouteIds : EndLine(r)
  PROVE  /\ FilesInv' /\ 1 .. Len(recipes) \subseteq 1 .. Len(recipes')
         /\ \A l, r : Holds(l, r) => Holds(l, r)'
<1> DEFINE n == Len(recipes)
<1>0. recipes \in Seq(Recipe) /\ n \in Nat
  BY DEF FilesInv
<1>1. CASE BridgeStarts
  <2> DEFINE new == [lines |-> << >>, begun |-> FALSE]
  <2>1. new \in Recipe /\ recipes' = Append(recipes, new)
    BY <1>1, EmptySeq DEF BridgeStarts, Recipe
  <2> HIDE DEF new
  <2>2. /\ recipes' \in Seq(Recipe) /\ Len(recipes') = n + 1
        /\ \A f \in 1 .. n : recipes'[f] = recipes[f]
    BY <1>0, <2>1, AppendProperties
  <2> QED BY <1>0, <2>2 DEF FilesInv, Holds
<1>2. CASE BeginLine
  <2>1. recipes' = [recipes EXCEPT ![n] = [recipes[n] EXCEPT !.begun = TRUE]] /\ n \in 1 .. n
    <3>1. recipes # << >>
      BY <1>2 DEF BeginLine
    <3>2. n # 0
      BY <1>0, <3>1, EmptySeq
    <3> QED BY <1>0, <1>2, <3>2 DEF BeginLine
  <2>2. recipes[n] \in Recipe
    BY <2>1, RecipeFiles
  <2>3. [recipes[n] EXCEPT !.begun = TRUE] \in Recipe
    BY <2>2 DEF Recipe
  <2>4. recipes' \in Seq(Recipe) /\ Len(recipes') = n
    BY <1>0, <2>1, <2>3, ExceptSeq
  <2>5. \A f \in 1 .. n : recipes'[f].lines = recipes[f].lines
    BY <1>0, <2>1, <2>2 DEF Recipe
  <2> QED BY <1>0, <2>4, <2>5 DEF FilesInv, Holds
<1>3. CASE \E r \in RouteIds : EndLine(r)
  <2>1. PICK r \in RouteIds : EndLine(r)
    BY <1>3
  <2> DEFINE new == [lines |-> Append(recipes[n].lines, r), begun |-> FALSE]
  <2>2. recipes' = [recipes EXCEPT ![n] = new] /\ n \in 1 .. n
    <3>1. recipes # << >>
      BY <2>1 DEF EndLine
    <3>2. n # 0
      BY <1>0, <3>1, EmptySeq
    <3> QED BY <1>0, <2>1, <3>2 DEF EndLine
  <2>3. recipes[n].lines \in Seq(RouteIds)
    BY <2>2, RecipeFiles
  <2>4. /\ new.lines \in Seq(RouteIds) /\ Len(new.lines) = Len(recipes[n].lines) + 1
        /\ \A i \in 1 .. Len(recipes[n].lines) : new.lines[i] = recipes[n].lines[i]
    BY <2>3, AppendProperties
  <2>5. new \in Recipe
    BY <2>4 DEF Recipe
  <2> HIDE DEF new
  <2>6. recipes' \in Seq(Recipe) /\ Len(recipes') = n
    BY <1>0, <2>2, <2>5, ExceptSeq
  <2>7. \A f \in 1 .. n : recipes'[f] = IF f = n THEN new ELSE recipes[f]
    BY <1>0, <2>2
  <2>8. ASSUME NEW f \in 1 .. n, NEW i \in 1 .. Len(recipes[f].lines)
        PROVE  i \in 1 .. Len(recipes'[f].lines) /\ recipes'[f].lines[i] = recipes[f].lines[i]
    <3>1. CASE f = n
      <4>1. Len(recipes[n].lines) \in Nat
        BY <2>3
      <4> QED BY <2>4, <2>7, <3>1, <4>1
    <3>2. CASE f # n
      BY <2>7, <3>2
    <3> QED BY <3>1, <3>2
  <2> QED BY <1>0, <2>6, <2>8 DEF FilesInv, Holds
<1> QED BY <1>1, <1>2, <1>3

\* An answer, or a request, that is left alone while the files only grow.
LEMMA AnswerStays ==
  ASSUME AnswerInv, UNCHANGED answer, \A l, r : Holds(l, r) => Holds(l, r)'
  PROVE  AnswerInv'
<1> SUFFICES ASSUME answer.status = 200, answer.route # NoRoute PROVE AnswerInv'
  BY DEF AnswerInv
<1>1. /\ answer.body \in Seq(LineId)
      /\ \A l \in answer.due : \E i \in 1 .. Len(answer.body) : answer.body[i] = l
      /\ \A i \in 1 .. Len(answer.body) : Holds(answer.body[i], answer.route)'
      /\ Ordered(answer.body)
  BY DEF AnswerInv
<1>2. LineId' = LineId /\ Ordered(answer.body)' = Ordered(answer.body)
  BY DEF LineId, Ordered
<1>3. \A i \in 1 .. Len(answer'.body) : Holds(answer.body[i], answer.route)'
  BY <1>1
<1> QED BY <1>1, <1>2, <1>3 DEF AnswerInv

LEMMA RequestStays ==
  ASSUME CollectInv, FilesInv, UNCHANGED <<serving, route, names, body, due>>,
         1 .. Len(recipes) \subseteq 1 .. Len(recipes'), \A l, r : Holds(l, r) => Holds(l, r)'
  PROVE  CollectInv'
<1> SUFFICES ASSUME serving = "recipe" PROVE CollectInv'
  BY DEF CollectInv
<1>1. /\ route \in RouteIds /\ body \in Seq(LineId)
      /\ names \in Seq(1 .. Len(recipes))
      /\ \A i, j \in 1 .. Len(names) : i # j => names[i] # names[j]
      /\ \A l \in due :
           /\ Holds(l, route)
           /\ \/ \E i \in 1 .. Len(body) : body[i] = l
              \/ \E k \in 1 .. Len(names) : names[k] = l.file
      /\ \A i \in 1 .. Len(body) :
           Holds(body[i], route) /\ \A k \in 1 .. Len(names) : names[k] # body[i].file
      /\ Ordered(body)
  BY DEF CollectInv
<1>2. names \in Seq(1 .. Len(recipes'))
  BY <1>1, SeqMonotonic
<1>3. LineId' = LineId /\ Ordered(body)' = Ordered(body)
  BY DEF LineId, Ordered
<1>4. \A l : Holds(l, route) => Holds(l, route)'
  OBVIOUS
<1> QED BY <1>1, <1>2, <1>3, <1>4 DEF CollectInv

LEMMA WriteKeeps ==
  ASSUME ArchiveInv, BridgeStarts \/ BeginLine \/ \E r \in RouteIds : EndLine(r)
  PROVE  ArchiveInv'
<1>1. UNCHANGED <<segments, serving, route, names, body, due, answer>>
  BY DEF BridgeStarts, BeginLine, EndLine, servingVars
<1>2. /\ FilesInv' /\ 1 .. Len(recipes) \subseteq 1 .. Len(recipes')
      /\ \A l, r : Holds(l, r) => Holds(l, r)'
  BY LinesStay DEF ArchiveInv
<1>3. ArchiveTypeOK'
  <2>1. \A f \in DOMAIN recipes' : recipes'[f].lines \in Seq(RouteIds) /\ recipes'[f].begun \in BOOLEAN
    <3>1. recipes' \in Seq(Recipe)
      BY <1>2 DEF FilesInv, Recipe
    <3> SUFFICES ASSUME NEW f \in DOMAIN recipes'
                 PROVE  recipes'[f].lines \in Seq(RouteIds) /\ recipes'[f].begun \in BOOLEAN
      OBVIOUS
    <3>2. recipes'[f] \in Recipe
      BY <3>1, ElementOfSeq, LenProperties
    <3> QED BY <3>2 DEF Recipe
  <2> QED BY <1>1, <2>1 DEF ArchiveInv, ArchiveTypeOK
<1>4. CollectInv'
  BY <1>1, <1>2, RequestStays DEF ArchiveInv
<1>5. AnswerInv'
  BY <1>1, <1>2, AnswerStays DEF ArchiveInv
<1> QED BY <1>2, <1>3, <1>4, <1>5 DEF ArchiveInv

-----------------------------------------------------------------------------
(* A request. *)

\* Nothing but the request's own state changes.
LEMMA FilesRest ==
  ASSUME ArchiveInv, UNCHANGED recipes
  PROVE  /\ FilesInv' /\ 1 .. Len(recipes) \subseteq 1 .. Len(recipes')
         /\ \A l, r : Holds(l, r)' = Holds(l, r)
BY DEF ArchiveInv, FilesInv, Holds, LineId, Recipe

LEMMA MediaKeep ==
  ASSUME ArchiveInv, NEW n \in Segments, NEW m \in Media, WriteMedia(n, m) \/ DeleteMedia(n, m)
  PROVE  ArchiveInv'
<1>1. UNCHANGED <<recipes, serving, route, names, body, due, answer>>
  BY DEF WriteMedia, DeleteMedia, servingVars
<1>2. segments' \in [Segments -> [Media -> 0 .. MaxMedia]]
  <2>1. /\ segments \in [Segments -> [Media -> 0 .. MaxMedia]] /\ MaxMedia \in Nat
        /\ segments[n][m] \in 0 .. MaxMedia
    BY ArchiveAssumption DEF ArchiveInv, ArchiveTypeOK
  <2>2. CASE WriteMedia(n, m)
    <3>1. segments[n][m] + 1 \in 0 .. MaxMedia
      BY <2>1, <2>2 DEF WriteMedia
    <3> QED BY <2>1, <2>2, <3>1 DEF WriteMedia
  <2>3. CASE DeleteMedia(n, m)
    BY <2>1, <2>3 DEF DeleteMedia
  <2> QED BY <2>2, <2>3
<1>3. FilesInv' /\ CollectInv' /\ AnswerInv'
  BY <1>1, FilesRest, RequestStays, AnswerStays DEF ArchiveInv
<1>4. ArchiveTypeOK'
  BY <1>1, <1>2 DEF ArchiveInv, ArchiveTypeOK
<1> QED BY <1>3, <1>4 DEF ArchiveInv

\* An answer ends the request; that of a recipe must be its body, complete.
LEMMA ReplyKeeps ==
  ASSUME ArchiveInv, NEW http \in {200, 404, 413}, NEW content, Reply(http, content),
         http = 200 /\ route # NoRoute =>
           serving = "recipe" /\ names = << >> /\ content = body
  PROVE  ArchiveInv'
<1>1. /\ answer' = [route |-> route, status |-> http, body |-> content, due |-> due]
      /\ serving' = "none" /\ route' = NoRoute /\ body' = << >> /\ UNCHANGED <<recipes, segments>>
  BY DEF Reply, diskVars
<1>2. FilesInv' /\ \A l, r : Holds(l, r)' = Holds(l, r)
  BY <1>1, FilesRest
<1>3. ArchiveTypeOK'
  BY <1>1 DEF ArchiveInv, ArchiveTypeOK
<1>4. CollectInv'
  BY <1>1 DEF CollectInv
<1>5. AnswerInv'
  <2> SUFFICES ASSUME http = 200, route # NoRoute PROVE AnswerInv'
    BY <1>1 DEF AnswerInv
  <2>1. /\ serving = "recipe" /\ Len(names) = 0 /\ content = body
    BY EmptySeq
  <2>2. /\ body \in Seq(LineId) /\ Ordered(body)
        /\ \A l \in due : \E i \in 1 .. Len(body) : body[i] = l
        /\ \A i \in 1 .. Len(body) : Holds(body[i], route)
    BY <2>1 DEF ArchiveInv, CollectInv
  <2> QED BY <1>1, <1>2, <2>1, <2>2 DEF AnswerInv, Ordered, LineId
<1> QED BY <1>2, <1>3, <1>4, <1>5 DEF ArchiveInv

LEMMA AskRecipeKeeps ==
  ASSUME ArchiveInv, NEW r \in RouteIds, AskRecipe(r)
  PROVE  ArchiveInv'
<1>1. /\ serving = "none" /\ serving' = "recipe" /\ route' = r /\ answer'.status = 0
      /\ names' = [f \in 1 .. Len(recipes) |-> f] /\ body = << >> /\ body' = << >>
      /\ due' = {l \in {Line(f, i) : f \in 1 .. Len(recipes), i \in 1 .. MaxLines} :
                  /\ l.line <= Len(recipes[l.file].lines)
                  /\ recipes[l.file].lines[l.line] = r}
      /\ UNCHANGED <<recipes, segments>>
  BY DEF AskRecipe, NoReply, diskVars, ArchiveInv, CollectInv
<1>2. FilesInv' /\ \A l, q : Holds(l, q)' = Holds(l, q)
  BY <1>1, FilesRest
<1>3. Len(recipes) \in Nat
  BY RecipeFiles DEF ArchiveInv
<1>4. ArchiveTypeOK' /\ AnswerInv'
  BY <1>1 DEF ArchiveInv, ArchiveTypeOK, AnswerInv
<1>5. CollectInv'
  <2>1. names' \in Seq(1 .. Len(recipes)) /\ Len(names') = Len(recipes)
    BY <1>1, <1>3, IsASeq
  <2>2. body' \in Seq(LineId) /\ Len(body') = 0
    BY <1>1, EmptySeq
  <2>3. ASSUME NEW l \in due'
        PROVE  Holds(l, r) /\ l.file \in 1 .. Len(recipes)
    <3>1. PICK f \in 1 .. Len(recipes), i \in 1 .. MaxLines : l = Line(f, i)
      BY <1>1
    <3>2. /\ l.file = f /\ l.line = i /\ f \in Nat /\ i \in Nat /\ l \in LineId
      BY <1>3, <3>1, ArchiveAssumption DEF Line, LineId
    <3>3. l.line <= Len(recipes[l.file].lines) /\ recipes[l.file].lines[l.line] = r
      BY <1>1
    <3>4. Len(recipes[f].lines) \in Nat
      BY RecipeFiles DEF ArchiveInv
    <3>5. l.line \in 1 .. Len(recipes[l.file].lines)
      BY <3>2, <3>3, <3>4
    <3> QED BY <3>2, <3>3, <3>5 DEF Holds
  <2>4. \A k \in 1 .. Len(recipes) : names'[k] = k
    BY <1>1
  <2> QED BY <1>1, <1>2, <2>1, <2>2, <2>3, <2>4 DEF CollectInv, Ordered
<1> QED BY <1>2, <1>4, <1>5 DEF ArchiveInv

\* One file is read: what it holds of the route comes after what the others held.
LEMMA ReadRecipeKeeps ==
  ASSUME ArchiveInv, ReadRecipe
  PROVE  ArchiveInv'
<1> DEFINE f == Head(names)
           new == LinesOf(f, route)
           all == body \o new
<1>1. serving = "recipe" /\ names # << >>
  BY DEF ReadRecipe
<1>2. CASE Blocks(f) > MaxRecipe \/ 2 * Len(all) > MaxRecipe
  <2>1. Reply(413, << >>)
    BY <1>2 DEF ReadRecipe
  <2> QED BY <2>1, ReplyKeeps
<1>3. CASE ~ (Blocks(f) > MaxRecipe \/ 2 * Len(all) > MaxRecipe)
  <2>1. /\ body' = all /\ names' = Tail(names)
        /\ UNCHANGED <<serving, route, due, answer, recipes, segments>>
    BY <1>3 DEF ReadRecipe, diskVars
  <2>2. FilesInv' /\ \A l, r : Holds(l, r)' = Holds(l, r)
    BY <2>1, FilesRest
  <2>3. ArchiveTypeOK' /\ AnswerInv'
    BY <2>1, <2>2 DEF ArchiveInv, ArchiveTypeOK, AnswerInv, Ordered, LineId
  <2>4. /\ route \in RouteIds /\ body \in Seq(LineId) /\ names \in Seq(1 .. Len(recipes))
        /\ \A i, j \in 1 .. Len(names) : i # j => names[i] # names[j]
        /\ \A l \in due :
             /\ Holds(l, route)
             /\ \/ \E i \in 1 .. Len(body) : body[i] = l
                \/ \E k \in 1 .. Len(names) : names[k] = l.file
        /\ \A i \in 1 .. Len(body) :
             Holds(body[i], route) /\ \A k \in 1 .. Len(names) : names[k] # body[i].file
        /\ Ordered(body)
    BY <1>1 DEF ArchiveInv, CollectInv
  <2>5. /\ Len(names) \in Nat /\ Len(names) >= 1 /\ f = names[1] /\ f \in 1 .. Len(recipes)
        /\ names' \in Seq(1 .. Len(recipes)) /\ Len(names') = Len(names) - 1
        /\ \A k \in 1 .. Len(names') : k + 1 \in 2 .. Len(names) /\ names'[k] = names[k + 1]
    <3>1. /\ f \in 1 .. Len(recipes) /\ f = names[1]
          /\ names' \in Seq(1 .. Len(recipes)) /\ Len(names') = Len(names) - 1
          /\ \A k \in 1 .. Len(names') : names'[k] = names[k + 1]
      BY <1>1, <2>1, <2>4, HeadTailProperties
    <3>2. Len(names) \in Nat /\ Len(names) # 0
      BY <1>1, <2>4, EmptySeq
    <3> QED BY <3>1, <3>2
  <2>6. /\ new \in Seq(LineId)
        /\ \A k \in 1 .. Len(new) : new[k].file = f /\ Holds(new[k], route)
        /\ Ordered(new)
        /\ \A i \in 1 .. Len(recipes[f].lines) :
             recipes[f].lines[i] = route => \E k \in 1 .. Len(new) : new[k] = Line(f, i)
    <3> HIDE DEF f
    <3>1. FilesInv /\ f \in 1 .. Len(recipes)
      BY <2>5 DEF ArchiveInv
    <3> QED BY ONLY <3>1, LinesOfFile, Zenon
  <2> HIDE DEF f, new
  <2>7. /\ all \in Seq(LineId) /\ Len(all) = Len(body) + Len(new)
        /\ Len(body) \in Nat /\ Len(new) \in Nat
        /\ \A i \in 1 .. Len(body) : all[i] = body[i]
        /\ \A i \in 1 .. Len(new) : all[Len(body) + i] = new[i]
    BY <2>4, <2>6, ConcatProperties
  <2> HIDE DEF all
  <2>8. \A i \in 1 .. Len(all) :
          \/ i \in 1 .. Len(body) /\ all[i] = body[i]
          \/ i \notin 1 .. Len(body) /\ i - Len(body) \in 1 .. Len(new) /\ all[i] = new[i - Len(body)]
    <3> SUFFICES ASSUME NEW i \in 1 .. Len(all), i \notin 1 .. Len(body)
                 PROVE  i - Len(body) \in 1 .. Len(new) /\ all[i] = new[i - Len(body)]
      BY <2>7
    <3>1. i - Len(body) \in 1 .. Len(new) /\ Len(body) + (i - Len(body)) = i
      BY <2>7
    <3> QED BY <2>7, <3>1
  <2>9. \A i \in 1 .. Len(body) : body[i].file # f
    BY <2>4, <2>5
  <2>10. ASSUME NEW i \in 1 .. Len(all)
         PROVE  Holds(all[i], route) /\ \A k \in 1 .. Len(names') : names'[k] # all[i].file
    <3>1. CASE i \in 1 .. Len(body)
      <4>1. all[i] = body[i]
        BY <2>8, <3>1
      <4>2. Holds(body[i], route) /\ \A k \in 1 .. Len(names) : names[k] # body[i].file
        BY <2>4, <3>1
      <4>3. \A k \in 1 .. Len(names') : k + 1 \in 1 .. Len(names) /\ names'[k] = names[k + 1]
        BY <2>5
      <4> QED BY <4>1, <4>2, <4>3
    <3>2. CASE i \notin 1 .. Len(body)
      <4>1. all[i].file = f /\ Holds(all[i], route)
        BY <2>6, <2>8, <3>2
      <4>2. ASSUME NEW k \in 1 .. Len(names')
            PROVE  names'[k] # f
        <5>1. k + 1 \in 1 .. Len(names) /\ k + 1 # 1 /\ 1 \in 1 .. Len(names)
          BY <2>5
        <5>2. names[k + 1] # names[1]
          BY <2>4, <5>1
        <5> QED BY <2>5, <5>2
      <4> QED BY <4>1, <4>2
    <3> QED BY <3>1, <3>2
  <2>11. Ordered(all)
    <3> SUFFICES ASSUME NEW i \in 1 .. Len(all), NEW j \in 1 .. Len(all), j < i,
                        all[j].file = all[i].file
                 PROVE  all[j].line < all[i].line
      BY DEF Ordered
    <3>1. CASE i \in 1 .. Len(body)
      <4>1. j \in 1 .. Len(body)
        BY <2>7, <3>1
      <4> QED BY <2>4, <2>8, <3>1, <4>1 DEF Ordered
    <3>2. CASE i \notin 1 .. Len(body)
      <4>1. j \notin 1 .. Len(body)
        BY <2>6, <2>8, <2>9, <3>2
      <4>2. j - Len(body) < i - Len(body)
        BY <2>7
      <4> QED BY <2>6, <2>8, <3>2, <4>1, <4>2 DEF Ordered
    <3> QED BY <3>1, <3>2
  <2>12. ASSUME NEW l \in due
         PROVE  \/ \E i \in 1 .. Len(all) : all[i] = l
                \/ \E k \in 1 .. Len(names') : names'[k] = l.file
    <3>1. CASE \E i \in 1 .. Len(body) : body[i] = l
      <4>1. PICK i \in 1 .. Len(body) : body[i] = l
        BY <3>1
      <4>2. i \in 1 .. Len(all)
        BY <2>7
      <4> QED BY <2>7, <4>1, <4>2
    <3>2. CASE \E k \in 1 .. Len(names) : names[k] = l.file
      <4>1. PICK k \in 1 .. Len(names) : names[k] = l.file
        BY <3>2
      <4>2. CASE k = 1
        <5>1. l.file = f /\ Holds(l, route)
          BY <2>4, <2>5, <4>1, <4>2
        <5>2. l.line \in 1 .. Len(recipes[f].lines) /\ recipes[f].lines[l.line] = route
              /\ l = Line(f, l.line)
          BY <5>1 DEF Holds, Line, LineId
        <5>3. PICK i \in 1 .. Len(new) : new[i] = l
          BY <2>6, <5>2
        <5>4. Len(body) + i \in 1 .. Len(all)
          BY <2>7
        <5> QED BY <2>7, <5>3, <5>4
      <4>3. CASE k # 1
        <5>1. k - 1 \in 1 .. Len(names') /\ (k - 1) + 1 = k
          BY <2>5, <4>3
        <5> QED BY <2>5, <4>1, <5>1
      <4> QED BY <4>2, <4>3
    <3> QED BY <2>4, <3>1, <3>2
  <2>13. \A i, j \in 1 .. Len(names') : i # j => names'[i] # names'[j]
    <3> SUFFICES ASSUME NEW i \in 1 .. Len(names'), NEW j \in 1 .. Len(names'), i # j
                 PROVE  names'[i] # names'[j]
      OBVIOUS
    <3>1. i + 1 # j + 1 /\ i + 1 \in 1 .. Len(names) /\ j + 1 \in 1 .. Len(names)
      BY <2>5
    <3>2. names[i + 1] # names[j + 1]
      BY <2>4, <3>1
    <3> QED BY <2>5, <3>2
  <2>14. CollectInv'
    <3>1. body' \in Seq(LineId) /\ Ordered(body')
      BY <2>1, <2>7, <2>11
    <3> QED BY <1>1, <2>1, <2>2, <2>4, <2>5, <2>10, <2>12, <2>13, <3>1 DEF CollectInv, Ordered, LineId
  <2> QED BY <2>2, <2>3, <2>14 DEF ArchiveInv
<1> QED BY <1>2, <1>3

LEMMA RecipeEndsKeeps ==
  ASSUME ArchiveInv, RecipeEnds
  PROVE  ArchiveInv'
<1>1. serving = "recipe" /\ names = << >> /\ (Reply(404, << >>) \/ Reply(200, body))
  BY DEF RecipeEnds
<1> QED BY <1>1, ReplyKeeps

LEMMA ManifestKeeps ==
  ASSUME ArchiveInv, AskManifest \/ ReadSegment \/ ManifestEnds
  PROVE  ArchiveInv'
<1>1. CASE AskManifest \/ ReadSegment
  <2>1. /\ serving \in {"none", "manifest"} /\ serving' = "manifest"
        /\ UNCHANGED <<recipes, segments, route>>
        /\ answer' = answer \/ answer'.status = 0
    BY <1>1 DEF AskManifest, ReadSegment, NoReply, diskVars
  <2>2. FilesInv' /\ \A l, r : Holds(l, r)' = Holds(l, r)
    BY <2>1, FilesRest
  <2>3. CollectInv'
    BY <2>1 DEF ArchiveInv, CollectInv
  <2>4. AnswerInv'
    <3>1. CASE answer' = answer
      BY <2>2, <3>1, AnswerStays DEF ArchiveInv
    <3>2. CASE answer'.status = 0
      BY <3>2 DEF AnswerInv
    <3> QED BY <2>1, <3>1, <3>2
  <2>5. ArchiveTypeOK'
    BY <2>1 DEF ArchiveInv, ArchiveTypeOK
  <2> QED BY <2>2, <2>3, <2>4, <2>5 DEF ArchiveInv
<1>2. CASE ManifestEnds
  <2>1. /\ route = NoRoute
        /\ Reply(413, << >>) \/ Reply(404, << >>) \/ Reply(200, Ascending(body))
    BY <1>2 DEF ManifestEnds, ArchiveInv, CollectInv
  <2> QED BY <2>1, ReplyKeeps
<1> QED BY <1>1, <1>2

LEMMA RangeKeeps ==
  ASSUME ArchiveInv, NEW n, NEW m, NEW from, NEW length, AnswerRange(n, m, from, length)
  PROVE  ArchiveInv'
<1>1. /\ UNCHANGED <<recipes, segments, serving, route, names, body, due>>
      /\ answer'.route = NoRoute /\ answer'.status \in {200, 400, 404}
  BY DEF AnswerRange, NoReply, RangeStatus, diskVars, servingVars
<1>2. FilesInv' /\ CollectInv'
  BY <1>1, FilesRest, RequestStays DEF ArchiveInv
<1> QED BY <1>1, <1>2 DEF ArchiveInv, ArchiveTypeOK, AnswerInv

-----------------------------------------------------------------------------
(* Every state. *)

LEMMA ArchiveStep == ArchiveInv /\ [ArchiveNext]_archiveVars => ArchiveInv'
<1> SUFFICES ASSUME ArchiveInv, [ArchiveNext]_archiveVars PROVE ArchiveInv'
  OBVIOUS
<1>1. CASE UNCHANGED archiveVars
  <2>1. UNCHANGED <<recipes, segments, serving, route, names, body, due, answer>>
    BY <1>1 DEF archiveVars, diskVars, servingVars
  <2>2. FilesInv' /\ CollectInv' /\ AnswerInv'
    BY <2>1, FilesRest, RequestStays, AnswerStays DEF ArchiveInv
  <2> QED BY <2>1, <2>2 DEF ArchiveInv, ArchiveTypeOK
<1>2. CASE BridgeStarts \/ BeginLine \/ \E r \in RouteIds : EndLine(r)
  BY <1>2, WriteKeeps
<1>3. CASE \E n \in Segments, m \in Media : WriteMedia(n, m) \/ DeleteMedia(n, m)
  BY <1>3, MediaKeep
<1>4. CASE \E r \in RouteIds : AskRecipe(r)
  BY <1>4, AskRecipeKeeps
<1>5. CASE ReadRecipe \/ RecipeEnds
  BY <1>5, ReadRecipeKeeps, RecipeEndsKeeps
<1>6. CASE AskManifest \/ ReadSegment \/ ManifestEnds
  BY <1>6, ManifestKeeps
<1>7. CASE \E n \in Segments, m \in Media, from \in 0 .. MaxMedia, length \in 0 .. MaxMedia :
             AnswerRange(n, m, from, length)
  BY <1>7, RangeKeeps
<1> QED BY <1>1, <1>2, <1>3, <1>4, <1>5, <1>6, <1>7 DEF ArchiveNext

\* What an answer of the archive has collected stays what its files had, while they grow.
THEOREM ArchiveInvariant == ArchiveSpec => []ArchiveInv
BY ArchiveStarts, ArchiveStep, PTL DEF ArchiveSpec

\* The archive stays within its types.
THEOREM ArchiveTypeCorrect == ArchiveSpec => []ArchiveTypeOK
BY ArchiveInvariant, PTL DEF ArchiveInv

LEMMA AnswerIsWhole == ArchiveInv => RecipeIsWhole
<1> SUFFICES ASSUME ArchiveInv, answer.status = 200, answer.route # NoRoute
             PROVE  RecipeIsWhole
  BY DEF RecipeIsWhole
<1>1. /\ answer.body \in Seq(LineId) /\ DOMAIN answer.body = 1 .. Len(answer.body)
      /\ \A l \in answer.due : \E i \in 1 .. Len(answer.body) : answer.body[i] = l
      /\ \A i \in 1 .. Len(answer.body) : Holds(answer.body[i], answer.route)
      /\ Ordered(answer.body)
  BY LenProperties DEF ArchiveInv, AnswerInv
<1>2. answer.due \subseteq ToSet(answer.body)
  BY <1>1 DEF ToSet
<1>3. ASSUME NEW i \in DOMAIN answer.body
      PROVE  LET l == answer.body[i] IN
               /\ l.line <= Len(recipes[l.file].lines)
               /\ recipes[l.file].lines[l.line] = answer.route
               /\ \A j \in 1 .. i - 1 :
                    answer.body[j].file = l.file => answer.body[j].line < l.line
  <2>1. i \in 1 .. Len(answer.body) /\ Holds(answer.body[i], answer.route)
    BY <1>1
  <2> DEFINE l == answer.body[i]
  <2>2. l.line <= Len(recipes[l.file].lines) /\ recipes[l.file].lines[l.line] = answer.route
    BY <2>1 DEF Holds
  <2>3. ASSUME NEW j \in 1 .. i - 1, answer.body[j].file = l.file
        PROVE  answer.body[j].line < l.line
    <3>1. j \in 1 .. Len(answer.body) /\ j < i
      BY <2>1
    <3> QED BY <1>1, <2>1, <2>3, <3>1 DEF Ordered
  <2> QED BY <2>2, <2>3
<1> QED BY <1>2, <1>3 DEF RecipeIsWhole

\* A recipe that is served has every whole line of the route that was there when it was asked
\* for, once and in order, however many files there are and however the bridge writes on.
THEOREM ServedRecipeIsWhole == ArchiveSpec => []RecipeIsWhole
BY ArchiveInvariant, AnswerIsWhole, PTL

-----------------------------------------------------------------------------
(* Side by side. *)

\* Each part of a behaviour is a behaviour of that part alone: what is proved of one holds of
\* the whole.
THEOREM MaintenanceRunsItsParts ==
  MaintenanceSpec => /\ Spec /\ PeekSpec /\ RoadPhaseSpec /\ PairingSpec
                     /\ ArchiveSpec /\ LeaderboardSpec
<1>1. MaintenanceInit => /\ Init /\ PeekInit /\ RoadPhaseInit /\ PairingInit
                         /\ ArchiveInit /\ LeaderboardInit
  BY DEF MaintenanceInit
<1>2. [MaintenanceNext]_maintenanceVars =>
        /\ [Next]_vars /\ [PeekNext]_peekVars /\ [RoadPhaseNext]_roadPhaseVars
        /\ [PairingNext]_pairingVars /\ [ArchiveNext]_archiveVars
        /\ [LeaderboardNext]_boardVars
  BY DEF MaintenanceNext, maintenanceVars
<1> QED BY <1>1, <1>2, PTL DEF MaintenanceSpec, Spec, PeekSpec, RoadPhaseSpec, PairingSpec,
                              ArchiveSpec, LeaderboardSpec

\* Control mode's maintenance stays within its types.
THEOREM MaintenanceTypeCorrect == MaintenanceSpec => []MaintenanceTypeOK
<1>1. PhaseInv => RoadPhaseTypeOK
  BY DEF PhaseInv
<1>2. PairingInv => PairingTypeOK
  BY DEF PairingInv
<1>3. BoardInv => LeaderboardTypeOK
  BY DEF BoardInv
<1> QED BY <1>1, <1>2, <1>3, MaintenanceRunsItsParts, TypeCorrect, PeekTypeCorrect,
           PhaseIsInvariant, PairingIsInvariant, ArchiveTypeCorrect, BoardIsInvariant, PTL
        DEF MaintenanceTypeOK

\* Whichever part a behaviour of the composed model runs, it keeps what that part promises.
THEOREM MaintenanceIsSafe ==
  MaintenanceSpec =>
    /\ [](/\ WaiterKeepsItsJob /\ PeekIsNewest /\ ParkedWasParked /\ CodeOnce
          /\ CoversWhatWasThere /\ RecipeIsWhole)
    /\ StartsQuiet
BY MaintenanceRunsItsParts, WaiterAndJobAgree, PeekedIsNewest, ParkedIsRecent, CodeIsGoodOnce,
   AnswersCover, ServedRecipeIsWhole, JobStartsQuiet, PTL
=============================================================================
