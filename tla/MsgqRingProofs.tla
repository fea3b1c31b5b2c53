--------------------------- MODULE MsgqRingProofs ---------------------------
(***************************************************************************)
(* What MsgqRing promises for every ring size, every set of message sizes   *)
(* the ring admits and every number of queue files.                         *)
(*                                                                          *)
(* The argument.  LogInv: the items of a file lie one behind the other and  *)
(* end at the write pointer.  MemInv: an item of the writer's lap, or of    *)
(* the lap before and a third of the ring ahead of the pointer, is          *)
(* untouched.  CursorInv: the reader stands before an item of the log and   *)
(* owes its caller no silent gap, or else it followed a wrap tag that was   *)
(* not one, and then the pointer is so far ahead that its next look resyncs *)
(* (Doomed): the quarter it may be behind and the third kept free leave     *)
(* more than a quarter between.                                             *)
(***************************************************************************)
EXTENDS MsgqRing, TLAPS

ThirdAhead(p, i) == i.lap + 1 = p.lap /\ 3 * i.off >= 3 * p.off + RingWords

ItemFits(i) ==
  /\ i.kind = "msg" => /\ i.len >= 1 /\ 3 * (1 + i.len) <= RingWords
                       /\ i.off + i.len + 2 < RingWords
  /\ i.off + 1 < RingWords
  /\ i.seq >= 1

\* The item lies behind pointer p.
Past(p, i) ==
  /\ i.lap <= p.lap
  /\ i.lap = p.lap => i.kind = "msg" /\ i.off + 1 + i.len <= p.off

ItemPos(i) == Pos(i.lap, i.off)

LogInv ==
  \A f \in Files :
    /\ pointer[f].off + 1 < RingWords
    /\ f \notin used => Len(log[f]) = 0
    /\ \A k \in DOMAIN log[f] :
         /\ ItemFits(log[f][k])
         /\ Past(pointer[f], log[f][k])
         /\ NextSeq(log[f][k]) <= published + 1
         /\ IF k = Len(log[f])
              THEN /\ EndPos(log[f][k]) = pointer[f]
                   /\ f = path => NextSeq(log[f][k]) = published + 1
              ELSE /\ EndPos(log[f][k]) = ItemPos(log[f][k + 1])
                   /\ NextSeq(log[f][k]) = log[f][k + 1].seq

MemInv ==
  \A f \in Files : \A k \in DOMAIN log[f] :
    log[f][k].lap = pointer[f].lap \/ ThirdAhead(pointer[f], log[f][k])
      => Holds(f, log[f][k])

WriterInv ==
  /\ path \in used \cup {NoFile}
  /\ wpc # "idle" => wmsg.len >= 1 /\ 3 * (1 + wmsg.len) <= RingWords
  /\ wpc = "wrapping" =>
       /\ wtodo = 0 .. wmsg.len
       /\ mem[path][pointer[path].off] = WrapTag
  /\ wpc = "filling" =>
       /\ pointer[path].off + wmsg.len + 2 < RingWords
       /\ \A j \in (0 .. wmsg.len) \ wtodo :
            mem[path][pointer[path].off + j] = MessageWord(wmsg.serial, wmsg.len, j)

\* The cursor stands before item at, and handing that item out breaks no promise.
Accurate ==
  /\ at \in 1 .. Len(log[mapped]) + 1
  /\ at <= Len(log[mapped]) =>
       /\ cursor = ItemPos(log[mapped][at])
       /\ log[mapped][at].seq > got.seq
       /\ got.seq # 0 /\ ~ pending_discontinuity => log[mapped][at].seq = got.seq + 1
  /\ at = Len(log[mapped]) + 1 =>
       /\ cursor = wp
       /\ got.seq # 0 /\ ~ pending_discontinuity /\ mapped = path => published = got.seq

\* The next look at the pointer resyncs.
Doomed ==
  /\ cursor.off = 0
  /\ \/ wp.lap > cursor.lap
     \/ wp.lap = cursor.lap /\ 4 * wp.off > RingWords

CursorInv ==
  /\ mapped \in used \cup {NoFile}
  /\ cursor_valid => mapped # NoFile /\ (Accurate \/ Doomed)
  /\ got.seq # 0 /\ ~ cursor_valid => pending_discontinuity
  /\ got.seq <= published

AtOrBehind(p, q) == p.lap < q.lap \/ (p.lap = q.lap /\ p.off <= q.off)

SnapInv ==
  /\ AtOrBehind(snap, wp)
  /\ \/ snap.lap = cursor.lap /\ cursor.off < snap.off
     \/ /\ snap.lap = cursor.lap + 1
        /\ 4 * (RingWords - cursor.off + snap.off) <= RingWords

CopyInv ==
  still_ours(wp, cursor.lap, cursor.off) =>
    /\ log[mapped][at].kind = "msg"
    /\ size = log[mapped][at].len
    /\ \A j \in (1 .. size) \ todo :
            out[j] = MessageWord(log[mapped][at].serial, log[mapped][at].len, j)

ReadInv ==
  /\ rpc \in {"tag", "copy"} =>
       /\ cursor_valid /\ Accurate /\ at <= Len(log[mapped]) /\ SnapInv
  /\ rpc = "copy" => CopyInv

GotInv ==
  IF got.file = NoFile THEN got.seq = 0
  ELSE WholeMessage /\ got.seq = log[got.file][got.item].seq

IInv ==
  /\ TypeOK /\ LogInv /\ MemInv /\ WriterInv /\ CursorInv /\ ReadInv /\ GotInv
-----------------------------------------------------------------------------
(* Type correctness. *)

LEMMA InitTypeOK == Init => TypeOK
<1> SUFFICES ASSUME Init PROVE TypeOK
  OBVIOUS
<1> USE RingAssumption DEF Init
<1>1. WriterTypeOK
  BY DEF WriterTypeOK, Position, Pos, Word, Blank, NoMessage, Item
<1>2. ReaderTypeOK
  <2>1. NoWords \in [1 .. 0 -> Word]
    BY DEF NoWords, Blank, Word
  <2>2. QED
    <3>1. out \in [1 .. size -> Word] /\ todo \subseteq 1 .. size /\ size \in 0 .. RingWords
      BY <2>1
    <3>2. cursor \in Position /\ snap \in Position
      BY DEF Position, Pos
    <3>3. refresh_needed \in BOOLEAN /\ cursor_valid \in BOOLEAN /\ pending_discontinuity \in BOOLEAN
      BY Zenon
    <3>4. mapped \in Files \cup {NoFile} /\ at \in Nat /\ step \in 0 .. MaxSteps
      OBVIOUS
    <3>5. rpc \in {"idle", "load", "tag", "copy"} /\ rpc = "idle"
      OBVIOUS
    <3>6. QED
      BY <3>1, <3>2, <3>3, <3>4, <3>5, Zenon DEF ReaderTypeOK
<1>3. GotTypeOK
  <2>1. NoWords \in [1 .. 0 -> Word]
    BY DEF NoWords, Blank, Word
  <2>2. 0 \in 0 .. RingWords
    OBVIOUS
  <2>3. NothingYet \in [file : Files \cup {NoFile}, item : Nat, words : [1 .. 0 -> Word],
                       seq : Nat, gap : BOOLEAN]
    BY <2>1 DEF NothingYet
  <2>4. QED
    BY <2>2, <2>3 DEF GotTypeOK
<1>4. QED
  BY <1>1, <1>2, <1>3 DEF TypeOK

LEMMA AppendType ==
  ASSUME NEW s \in Seq(Item), NEW e \in Item
  PROVE  /\ Append(s, e) \in Seq(Item)
         /\ Len(Append(s, e)) = Len(s) + 1
         /\ \A k \in 1 .. Len(s) : Append(s, e)[k] = s[k]
         /\ Append(s, e)[Len(s) + 1] = e
  OBVIOUS

LEMMA StoreType ==
  ASSUME NEW f \in Files, NEW o, NEW w \in Word, mem \in [Files -> [0 .. RingWords - 1 -> Word]]
  PROVE  [mem EXCEPT ![f][o] = w] \in [Files -> [0 .. RingWords - 1 -> Word]]
  OBVIOUS

LEMMA WriterVarsType == WriterTypeOK /\ UNCHANGED writerVars => WriterTypeOK'
  BY DEF WriterTypeOK, writerVars

LEMMA ReaderVarsType ==
  ReaderTypeOK /\ GotTypeOK /\ UNCHANGED readerVars => ReaderTypeOK' /\ GotTypeOK'
  BY DEF ReaderTypeOK, GotTypeOK, readerVars

LEMMA WriterStepType ==
  ASSUME WriterTypeOK, Publisher \/ PublisherRestart \/ RemoveQueue
                         \/ \E f \in Files : NewQueue(f)
  PROVE  WriterTypeOK' /\ UNCHANGED readerVars
<1> USE RingAssumption DEF WriterTypeOK
<1>1. ASSUME NEW n \in Sizes, BeginInPlace(n) PROVE WriterTypeOK' /\ UNCHANGED readerVars
  BY <1>1 DEF BeginInPlace, StartMessage
<1>2. ASSUME NEW n \in Sizes, BeginWithWrap(n) PROVE WriterTypeOK' /\ UNCHANGED readerVars
  <2>1. path \in Files /\ WrapTag \in Word
    BY <1>2 DEF BeginWithWrap, StartMessage, WrapTag, Word
  <2>2. mem' \in [Files -> [0 .. RingWords - 1 -> Word]]
    BY <1>2, <2>1, StoreType DEF BeginWithWrap, Store
  <2>3. QED
    BY <1>2, <2>1, <2>2 DEF BeginWithWrap, StartMessage
<1>3. ASSUME PublishWrap PROVE WriterTypeOK' /\ UNCHANGED readerVars
  <2>1. path \in Files
    BY <1>3 DEF PublishWrap
  <2>2. NewItem("wrap", NoMessage) \in Item
    BY <2>1 DEF NewItem, NoMessage, Item, Position
  <2>3. log' \in [Files -> Seq(Item)]
    BY <1>3, <2>1, <2>2, AppendType DEF PublishWrap
  <2>4. pointer' \in [Files -> Position]
    BY <1>3, <2>1 DEF PublishWrap, Pos, Position
  <2>5. QED
    BY <1>3, <2>3, <2>4 DEF PublishWrap
<1>4. ASSUME NEW j \in wtodo, StoreWord(j) PROVE WriterTypeOK' /\ UNCHANGED readerVars
  <2>1. path \in Files /\ MessageWord(wmsg.serial, wmsg.len, j) \in Word
    BY <1>4 DEF StoreWord, MessageWord, Word
  <2>2. mem' \in [Files -> [0 .. RingWords - 1 -> Word]]
    BY <1>4, <2>1, StoreType DEF StoreWord, Store
  <2>3. QED
    BY <1>4, <2>1, <2>2 DEF StoreWord
<1>5. ASSUME PublishMessage PROVE WriterTypeOK' /\ UNCHANGED readerVars
  <2>1. path \in Files
    BY <1>5 DEF PublishMessage
  <2>2. NewItem("msg", wmsg) \in Item
    BY <2>1 DEF NewItem, Item, Position
  <2>3. log' \in [Files -> Seq(Item)]
    BY <1>5, <2>1, <2>2, AppendType DEF PublishMessage
  <2>4. pointer' \in [Files -> Position]
    BY <1>5, <2>1 DEF PublishMessage, Pos, Position
  <2>5. QED
    BY <1>5, <2>3, <2>4 DEF PublishMessage, DropMessage, NoMessage
<1>6. ASSUME PublisherRestart PROVE WriterTypeOK' /\ UNCHANGED readerVars
  BY <1>6 DEF PublisherRestart, DropMessage, NoMessage
<1>7. ASSUME RemoveQueue PROVE WriterTypeOK' /\ UNCHANGED readerVars
  BY <1>7 DEF RemoveQueue, DropMessage, NoMessage
<1>8. ASSUME NEW f \in Files, NewQueue(f) PROVE WriterTypeOK' /\ UNCHANGED readerVars
  BY <1>8 DEF NewQueue, DropMessage, NoMessage
<1>9. QED
  BY <1>1, <1>2, <1>3, <1>4, <1>5, <1>6, <1>7, <1>8 DEF Publisher

LEMMA ReaderStepType ==
  ASSUME TypeOK, Reader
  PROVE  ReaderTypeOK' /\ GotTypeOK' /\ UNCHANGED writerVars
<1> USE RingAssumption DEF TypeOK, ReaderTypeOK
<1> DEFINE Goal == ReaderTypeOK' /\ GotTypeOK'
<1>1. UNCHANGED got => GotTypeOK'
  BY DEF GotTypeOK
<1>2. Return => /\ rpc' = "idle" /\ step' \in 0 .. MaxSteps /\ size' \in 0 .. RingWords
                /\ todo' \subseteq 1 .. size' /\ snap' \in Position
                /\ out' \in [1 .. size' -> Word]
  BY DEF Return, NoWords, Blank, Word, Pos, Position
<1>3. ASSUME NEW d \in BOOLEAN, Resync(d) PROVE Goal
  BY <1>1, <1>2, <1>3 DEF Resync
<1>4. ASSUME TryNextRefresh PROVE Goal
  BY <1>1, <1>4 DEF TryNextRefresh, ForgetCursor, WriterTypeOK
<1>5. ASSUME TryNext PROVE Goal
  BY <1>1, <1>5 DEF TryNext
<1>6. ASSUME LoadPointer PROVE Goal
  <2>1. wp \in Position
    BY <1>6 DEF wp, WriterTypeOK, LoadPointer
  <2>2. (wp.lap <= cursor.lap) \in BOOLEAN
    OBVIOUS
  <2>3. CASE \E d \in BOOLEAN : Resync(d)
    BY <2>3, <1>3
  <2>4. CASE ReturnEmpty /\ cursor' \in Position /\ cursor_valid' \in BOOLEAN /\ at' \in Nat
    BY <2>4, <1>1, <1>2 DEF ReturnEmpty
  <2>5. CASE /\ snap' = wp /\ rpc' = "tag"
             /\ UNCHANGED <<mapped, refresh_needed, cursor_valid, cursor,
                         pending_discontinuity, step, size, todo, out, at, got>>
    BY <2>5, <2>1, <1>1, <1>6 DEF LoadPointer
  <2>6. Len(log[mapped]) + 1 \in Nat
    BY <1>6 DEF LoadPointer, WriterTypeOK
  <2>7. QED
    BY <1>6, <2>1, <2>2, <2>3, <2>4, <2>5, <2>6 DEF LoadPointer
<1>7. ASSUME NEW n \in -1 .. RingWords, LoadTag(n) PROVE Goal
  <2>1. CASE FollowWrap
    <3>1. cursor' \in Position /\ at' \in Nat
      BY <2>1 DEF FollowWrap, Pos, Position
    <3>2. CASE step + 1 < MaxSteps
      <4>1. mapped # NoFile
        BY <1>7 DEF LoadTag
      <4>2. /\ rpc' = "load" /\ step' = step + 1
            /\ UNCHANGED <<mapped, refresh_needed, cursor_valid, pending_discontinuity,
                           got, snap, size, todo, out>>
        BY <2>1, <3>2 DEF FollowWrap
      <4>3. step' \in 0 .. MaxSteps
        BY <3>2, <4>2
      <4>4. QED
        BY <4>1, <4>2, <4>3, <3>1, <1>1
    <3>3. CASE ~ (step + 1 < MaxSteps)
      BY <2>1, <3>1, <3>3, <1>1, <1>2 DEF FollowWrap
    <3>4. QED
      BY <3>2, <3>3
  <2>2. CASE Resync(TRUE)
    BY <2>2, <1>3
  <2>3. CASE ~ BadSize(n) /\ StartCopy(n)
    BY <2>3, <1>1, <1>7 DEF StartCopy, BadSize, LoadTag, Position, Blank, Word
  <2>4. QED
    BY <1>7, <2>1, <2>2, <2>3 DEF LoadTag
<1>8. ASSUME NEW j \in todo, CopyWord(j) PROVE Goal
  <2>1. mem[mapped][cursor.off + j] \in Word
    BY <1>8 DEF CopyWord, WriterTypeOK, Position
  <2>2. QED
    BY <2>1, <1>1, <1>8 DEF CopyWord
<1>9. ASSUME Recheck PROVE Goal
  <2>1. CASE Resync(FALSE)
    BY <2>1, <1>3
  <2>2. CASE HandOut
    <3> DEFINE s == IF at \in DOMAIN log[mapped] THEN log[mapped][at].seq ELSE 0
    <3>1. s \in Nat
      <4>1. log[mapped] \in Seq(Item)
        BY <1>9 DEF Recheck, WriterTypeOK
      <4>2. at \in DOMAIN log[mapped] => log[mapped][at] \in Item
        BY <4>1
      <4>3. QED
        BY <4>2 DEF Item
    <3>2. GotTypeOK'
      <4> HIDE DEF s
      <4>1. got' = [file |-> mapped, item |-> at, words |-> out, seq |-> s,
                    gap |-> pending_discontinuity]
        BY <2>2 DEF HandOut, s
      <4>2. QED
        BY <3>1, <4>1 DEF GotTypeOK
    <3>3. ReaderTypeOK'
      <4>1. cursor' \in Position /\ at' \in Nat
        BY <2>2 DEF HandOut, Pos, Position
      <4>2. pending_discontinuity' \in BOOLEAN
        BY <2>2, Zenon DEF HandOut
      <4>3. QED
        BY <2>2, <4>1, <4>2, <1>2 DEF HandOut
    <3>4. QED
      BY <3>2, <3>3
  <2>3. QED
    BY <1>9, <2>1, <2>2 DEF Recheck
<1>10. UNCHANGED writerVars
  BY DEF Reader, TryNextRefresh, TryNext, LoadPointer, LoadTag, CopyWord, Recheck
<1>11. QED
  BY <1>4, <1>5, <1>6, <1>7, <1>8, <1>9, <1>10 DEF Reader

LEMMA NextTypeOK == TypeOK /\ [Next]_vars => TypeOK'
<1>1. TypeOK /\ UNCHANGED vars => TypeOK'
  BY WriterVarsType, ReaderVarsType DEF TypeOK, vars
<1>2. QED
  BY <1>1, WriterStepType, ReaderStepType, WriterVarsType, ReaderVarsType
  DEF TypeOK, Next

\* Every variable keeps its type, and the reader never reads past the ring.
THEOREM TypeCorrect == Spec => []TypeOK
  BY InitTypeOK, NextTypeOK, PTL DEF Spec

-----------------------------------------------------------------------------
(* The publisher's side: the log and the memory. *)

\* The margin still_ours keeps is at least a third of the ring.
LEMMA StillOursThird ==
  ASSUME RingWords \in Nat, NEW p \in Position, NEW l \in Nat, NEW o \in Nat,
         still_ours(p, l, o)
  PROVE  p.lap = l \/ (l + 1 = p.lap /\ 3 * o >= 3 * p.off + RingWords)
  BY DEF still_ours, Position

LEMMA ItemsTyped ==
  ASSUME WriterTypeOK, NEW f \in Files
  PROVE  /\ log[f] \in Seq(Item) /\ Len(log[f]) \in Nat
         /\ DOMAIN log[f] = 1 .. Len(log[f])
         /\ \A k \in DOMAIN log[f] : log[f][k] \in Item
         /\ pointer[f] \in Position
         /\ pointer[f].lap \in Nat /\ pointer[f].off \in Nat
  BY DEF WriterTypeOK, Position

\* A store into the third of the ring that starts at the pointer spoils nothing that
\* MemInv speaks of.
LEMMA StoreKeeps ==
  ASSUME WriterTypeOK, LogInv, MemInv, path \in Files,
         NEW o \in Nat, o >= pointer[path].off, 3 * (o - pointer[path].off) < RingWords,
         NEW w, Store(o, w), UNCHANGED <<log, pointer>>
  PROVE  MemInv'
<1> USE RingAssumption
<1> SUFFICES ASSUME NEW f \in Files, NEW k \in DOMAIN log[f],
                    log[f][k].lap = pointer[f].lap \/ ThirdAhead(pointer[f], log[f][k])
             PROVE  Holds(f, log[f][k])'
  BY DEF MemInv, ThirdAhead
<1> DEFINE i == log[f][k]
           p == pointer[f]
<1>1. i \in Item /\ p \in Position /\ ItemFits(i) /\ Past(p, i) /\ Holds(f, i)
  BY ItemsTyped DEF LogInv, MemInv
<1> HIDE DEF i, p
<1>2. CASE f # path
  <2>1. mem'[f] = mem[f]
    BY <1>2 DEF Store, WriterTypeOK
  <2>2. QED
    BY <1>1, <2>1 DEF Holds, i
<1>3. CASE f = path
  <2>1. i.off \in Nat /\ i.len \in Nat /\ p.off \in Nat /\ p = pointer[path]
    BY <1>1, <1>3 DEF Item, Position, p
  <2>2. o < i.off \/ o > i.off + i.len
    <3>1. CASE i.lap = p.lap
      BY <1>1, <2>1, <3>1 DEF Past
    <3>2. CASE ThirdAhead(p, i)
      BY <2>1, <3>2 DEF ThirdAhead
    <3>3. QED
      BY <3>1, <3>2 DEF i, p
  <2>3. \A q \in 0 .. RingWords - 1 : q # o => mem'[f][q] = mem[f][q]
    BY <1>3 DEF Store, WriterTypeOK
  <2>4. CASE i.kind = "wrap"
    <3>1. i.off \in 0 .. RingWords - 1 /\ i.off # o
      BY <1>1, <2>1, <2>2 DEF ItemFits
    <3>2. mem[f][i.off] = WrapTag
      BY <1>1, <2>4 DEF Holds
    <3>3. mem'[f][i.off] = WrapTag
      BY <3>1, <3>2, <2>3
    <3>4. QED
      BY <3>3, <2>4 DEF Holds, i
  <2>5. CASE i.kind = "msg"
    <3>1. ASSUME NEW j \in 0 .. i.len
          PROVE  mem'[f][i.off + j] = MessageWord(i.serial, i.len, j)
      <4>1. i.off + j \in 0 .. RingWords - 1 /\ i.off + j # o
        BY <1>1, <2>1, <2>2, <2>5 DEF ItemFits
      <4>2. mem[f][i.off + j] = MessageWord(i.serial, i.len, j)
        BY <1>1, <2>5 DEF Holds
      <4>3. QED
        BY <4>1, <4>2, <2>3
    <3>2. QED
      BY <3>1, <2>5 DEF Holds, i
  <2>6. QED
    BY <1>1, <2>4, <2>5 DEF Item
<1>4. QED
  BY <1>2, <1>3

\* A new item takes its place at the pointer.
Appended(e) ==
  /\ path \in Files /\ path \in used /\ e \in Item /\ ItemFits(e)
  /\ ItemPos(e) = pointer[path] /\ e.seq = published + 1
  /\ EndPos(e).off + 1 < RingWords
  /\ log' = [log EXCEPT ![path] = Append(@, e)]
  /\ pointer' = [pointer EXCEPT ![path] = EndPos(e)]
  /\ published' \in {published, published + 1} /\ NextSeq(e) = published' + 1
  /\ UNCHANGED <<path, used>>

LEMMA AppendedLog ==
  ASSUME WriterTypeOK, NEW e, Appended(e)
  PROVE  /\ \A f \in Files \ {path} : log'[f] = log[f] /\ pointer'[f] = pointer[f]
         /\ DOMAIN log'[path] = 1 .. Len(log[path]) + 1
         /\ Len(log'[path]) = Len(log[path]) + 1
         /\ \A k \in DOMAIN log[path] : log'[path][k] = log[path][k]
         /\ log'[path][Len(log[path]) + 1] = e
         /\ pointer'[path] = EndPos(e)
<1>1. log'[path] = Append(log[path], e) /\ e \in Item /\ pointer'[path] = EndPos(e)
  BY DEF Appended, WriterTypeOK
<1>2. \A f \in Files \ {path} : log'[f] = log[f] /\ pointer'[f] = pointer[f]
  BY DEF Appended, WriterTypeOK
<1>3. log[path] \in Seq(Item) /\ DOMAIN log[path] = 1 .. Len(log[path])
  BY ItemsTyped DEF Appended
<1>4. DOMAIN log'[path] = 1 .. Len(log[path]) + 1
  BY <1>1, <1>3, AppendType
<1>5. QED
  BY <1>1, <1>2, <1>3, <1>4, AppendType

\* The pointer only moves forward.
LEMMA AppendedForward ==
  ASSUME WriterTypeOK, NEW e, Appended(e)
  PROVE  AtOrBehind(pointer[path], pointer'[path])
  BY AppendedLog, ItemsTyped DEF Appended, AtOrBehind, EndPos, ItemPos, Pos, Item, Position

LEMMA PastForward ==
  ASSUME NEW p \in Position, NEW q \in Position, NEW i \in Item, Past(p, i), AtOrBehind(p, q)
  PROVE  Past(q, i)
  BY DEF Past, AtOrBehind, Item, Position

LEMMA AppendKeepsLog ==
  ASSUME WriterTypeOK, WriterTypeOK', LogInv, NEW e, Appended(e)
  PROVE  LogInv'
<1> USE RingAssumption
<1> DEFINE Good(f, k) ==
      /\ ItemFits(log[f][k])
      /\ Past(pointer[f], log[f][k])
      /\ NextSeq(log[f][k]) <= published + 1
      /\ IF k = Len(log[f])
           THEN /\ EndPos(log[f][k]) = pointer[f]
                /\ f = path => NextSeq(log[f][k]) = published + 1
           ELSE /\ EndPos(log[f][k]) = ItemPos(log[f][k + 1])
                /\ NextSeq(log[f][k]) = log[f][k + 1].seq
<1>0. path \in Files /\ path' = path /\ used' = used /\ published \in Nat
      /\ published' \in {published, published + 1}
  BY DEF Appended, WriterTypeOK
<1>1. ASSUME NEW f \in Files
      PROVE  pointer'[f].off + 1 < RingWords
  BY AppendedLog DEF Appended, LogInv
<1>2. ASSUME NEW f \in Files, f \notin used'
      PROVE  Len(log'[f]) = 0
  BY <1>2, AppendedLog DEF Appended, LogInv
<1>a. ASSUME NEW f \in Files, NEW k \in DOMAIN log[f]
      PROVE  Good(f, k) /\ NextSeq(log[f][k]) \in Nat
  <2>1. Good(f, k)
    BY DEF LogInv
  <2>2. NextSeq(log[f][k]) \in Nat
    <3>1. log[f][k] \in Item
      BY ItemsTyped
    <3>2. QED
      BY <3>1 DEF NextSeq, Item
  <2>3. QED
    BY <2>1, <2>2
<1>3. ASSUME NEW f \in Files, NEW k \in DOMAIN log'[f]
      PROVE  Good(f, k)'
  <2>1. CASE f # path
    <3>1. log'[f] = log[f] /\ pointer'[f] = pointer[f] /\ k \in DOMAIN log[f]
      BY <1>3, <2>1, AppendedLog
    <3>2. QED
      BY <1>0, <1>a, <2>1, <3>1
  <2>2. CASE f = path /\ k \in DOMAIN log[path]
    <3>1. log[path][k] \in Item /\ k \in 1 .. Len(log[path]) /\ Len(log[path]) \in Nat
      BY <1>0, <2>2, ItemsTyped
    <3>2. log'[path][k] = log[path][k] /\ k # Len(log'[path])
      BY <2>2, <3>1, AppendedLog
    <3>3. Past(pointer'[path], log[path][k])
      <4>1. pointer[path] \in Position /\ pointer'[path] \in Position
        BY <1>0, ItemsTyped DEF WriterTypeOK
      <4>2. Past(pointer[path], log[path][k])
        BY <1>0, <1>a, <2>2
      <4>3. AtOrBehind(pointer[path], pointer'[path])
        BY AppendedForward
      <4>4. QED
        BY <3>1, <4>1, <4>2, <4>3, PastForward
    <3>4. ItemFits(log[path][k]) /\ NextSeq(log[path][k]) <= published' + 1
      BY <1>0, <1>a, <2>2
    <3>5. /\ EndPos(log[path][k]) = ItemPos(log'[path][k + 1])
          /\ NextSeq(log[path][k]) = log'[path][k + 1].seq
      <4>1. CASE k = Len(log[path])
        <5>1. log'[path][k + 1] = e
          BY <4>1, AppendedLog
        <5>2. EndPos(log[path][k]) = pointer[path] /\ NextSeq(log[path][k]) = published + 1
          BY <1>0, <1>a, <2>2, <4>1
        <5>3. QED
          BY <5>1, <5>2 DEF Appended
      <4>2. CASE k # Len(log[path])
        <5>1. k + 1 \in DOMAIN log[path] /\ log'[path][k + 1] = log[path][k + 1]
          BY <1>0, <3>1, <4>2, ItemsTyped, AppendedLog
        <5>2. QED
          BY <1>0, <1>a, <2>2, <4>2, <5>1
      <4>3. QED
        BY <4>1, <4>2
    <3>6. QED
      BY <2>2, <3>2, <3>3, <3>4, <3>5
  <2>3. CASE f = path /\ k = Len(log[path]) + 1
    <3>1. log'[path][k] = e /\ k = Len(log'[path]) /\ EndPos(e) = pointer'[path]
      BY <2>3, AppendedLog
    <3>2. ItemFits(e) /\ NextSeq(e) = published' + 1 /\ e \in Item
      BY DEF Appended
    <3>3. Past(pointer'[path], e)
      BY <3>1, <3>2 DEF Past, EndPos, Pos, Item
    <3>4. NextSeq(e) <= published' + 1
      <4>1. published' + 1 \in Int
        BY DEF WriterTypeOK
      <4>2. QED
        BY <3>2, <4>1
    <3>5. QED
      BY <1>0, <2>3, <3>1, <3>2, <3>3, <3>4
  <2>4. QED
    BY <1>3, <2>1, <2>2, <2>3, AppendedLog, ItemsTyped
<1>4. QED
  BY <1>1, <1>2, <1>3 DEF LogInv

LEMMA AppendKeepsMem ==
  ASSUME WriterTypeOK, WriterTypeOK', LogInv, MemInv, NEW e, Appended(e), Holds(path, e),
         UNCHANGED mem
  PROVE  MemInv'
<1> USE RingAssumption
<1> SUFFICES ASSUME NEW f \in Files, NEW k \in DOMAIN log'[f],
                    \/ log'[f][k].lap = pointer'[f].lap
                    \/ ThirdAhead(pointer'[f], log'[f][k])
             PROVE  Holds(f, log[f][k])'
  BY DEF MemInv, ThirdAhead
<1>0. path \in Files
  BY DEF Appended
<1>1. CASE f # path
  <2>1. log'[f] = log[f] /\ pointer'[f] = pointer[f] /\ k \in DOMAIN log[f]
    BY <1>1, AppendedLog
  <2>2. Holds(f, log[f][k])
    BY <2>1 DEF MemInv
  <2>3. QED
    BY <2>1, <2>2 DEF Holds
<1>2. CASE f = path /\ k \in DOMAIN log[path]
  <2>1. log'[path][k] = log[path][k] /\ log[path][k] \in Item
    BY <1>0, <1>2, ItemsTyped, AppendedLog
  <2>2. pointer[path] \in Position /\ pointer'[path] \in Position /\ Past(pointer[path], log[path][k])
    BY <1>0, <1>2, ItemsTyped DEF WriterTypeOK, LogInv
  <2>3. pointer'[path] = EndPos(e) /\ ItemPos(e) = pointer[path] /\ e \in Item
    BY AppendedLog DEF Appended
  <2>4. log[path][k].lap = pointer[path].lap \/ ThirdAhead(pointer[path], log[path][k])
    BY <1>2, <2>1, <2>2, <2>3
    DEF ThirdAhead, EndPos, ItemPos, Pos, Past, Item, Position
  <2>5. Holds(path, log[path][k])
    BY <1>0, <1>2, <2>4 DEF MemInv
  <2>6. QED
    BY <1>2, <2>1, <2>5 DEF Holds
<1>3. CASE f = path /\ k = Len(log[path]) + 1
  <2>1. log'[path][k] = e
    BY <1>3, AppendedLog
  <2>2. QED
    BY <1>3, <2>1 DEF Holds
<1>4. QED
  BY <1>1, <1>2, <1>3, AppendedLog, ItemsTyped

WriterSide == LogInv /\ MemInv /\ WriterInv

LEMMA BeginInPlaceKeeps ==
  ASSUME WriterTypeOK, WriterSide, NEW n \in Sizes, BeginInPlace(n)
  PROVE  WriterSide'
<1> USE RingAssumption
<1>0. path \in Files /\ UNCHANGED <<path, used, pointer, log, published, mem>>
  BY DEF BeginInPlace, StartMessage, WriterTypeOK
<1>1. LogInv' /\ MemInv'
  BY <1>0 DEF WriterSide, LogInv, MemInv, Holds
<1>2. wmsg'.len = n /\ n \in Nat /\ n >= 1 /\ 3 * (1 + n) <= RingWords
      /\ wtodo' = 0 .. n /\ wpc' = "filling"
  BY DEF BeginInPlace, StartMessage
<1>3. pointer[path].off + n + 2 < RingWords
  BY <1>0, <1>2, ItemsTyped DEF BeginInPlace, Fits
<1>4. WriterInv'
  BY <1>0, <1>2, <1>3 DEF WriterInv, WriterSide
<1>5. QED
  BY <1>1, <1>4 DEF WriterSide

LEMMA BeginWithWrapKeeps ==
  ASSUME WriterTypeOK, WriterSide, NEW n \in Sizes, BeginWithWrap(n)
  PROVE  WriterSide'
<1> USE RingAssumption
<1>0. path \in Files /\ UNCHANGED <<path, used, pointer, log, published>>
  BY DEF BeginWithWrap, StartMessage, WriterTypeOK
<1>1. pointer[path].off \in 0 .. RingWords - 1
  BY <1>0, ItemsTyped DEF WriterSide, LogInv
<1>2. LogInv'
  BY <1>0 DEF WriterSide, LogInv
<1>3. MemInv'
  <2>1. Store(pointer[path].off, WrapTag)
    BY DEF BeginWithWrap
  <2>2. pointer[path].off \in Nat /\ 3 * (pointer[path].off - pointer[path].off) < RingWords
    BY <1>1
  <2>3. QED
    BY <1>0, <2>1, <2>2, StoreKeeps DEF WriterSide
<1>4. mem'[path][pointer[path].off] = WrapTag
  BY <1>0, <1>1 DEF BeginWithWrap, Store, WriterTypeOK
<1>5. wmsg'.len = n /\ n \in Nat /\ n >= 1 /\ 3 * (1 + n) <= RingWords
      /\ wtodo' = 0 .. n /\ wpc' = "wrapping"
  BY DEF BeginWithWrap, StartMessage
<1>6. WriterInv'
  BY <1>0, <1>4, <1>5 DEF WriterInv, WriterSide
<1>7. QED
  BY <1>2, <1>3, <1>6 DEF WriterSide

LEMMA PublishWrapAppends ==
  ASSUME WriterTypeOK, WriterSide, PublishWrap
  PROVE  /\ Appended(NewItem("wrap", NoMessage))
         /\ Holds(path, NewItem("wrap", NoMessage))
<1> USE RingAssumption
<1> DEFINE e == NewItem("wrap", NoMessage)
<1>0. path \in Files /\ path \in used /\ published \in Nat /\ pointer[path] \in Position
      /\ pointer[path].lap \in Nat /\ pointer[path].off \in Nat
  BY ItemsTyped DEF PublishWrap, WriterTypeOK, WriterSide, WriterInv
<1>1. e = [kind |-> "wrap", lap |-> pointer[path].lap, off |-> pointer[path].off,
           len |-> 0, serial |-> 0, seq |-> published + 1]
  BY DEF NewItem, NoMessage
<1>2. e \in Item
  BY <1>0, <1>1 DEF Item
<1>3. ItemFits(e)
  BY <1>0, <1>1 DEF ItemFits, WriterSide, LogInv
<1>4. ItemPos(e) = pointer[path]
  BY <1>0, <1>1 DEF ItemPos, Pos, Position
<1>5. EndPos(e) = Pos(pointer[path].lap + 1, 0) /\ NextSeq(e) = published + 1
  BY <1>1 DEF EndPos, NextSeq
<1>6. Appended(e)
  <2>1. EndPos(e).off + 1 < RingWords
    BY <1>5 DEF Pos
  <2>2. log' = [log EXCEPT ![path] = Append(@, e)]
    BY DEF PublishWrap
  <2>3. pointer' = [pointer EXCEPT ![path] = EndPos(e)]
    BY <1>5 DEF PublishWrap
  <2>4. published' = published /\ UNCHANGED <<path, used>> /\ e.seq = published + 1
    BY <1>1 DEF PublishWrap
  <2>5. QED
    BY <1>0, <1>2, <1>3, <1>4, <1>5, <2>1, <2>2, <2>3, <2>4 DEF Appended
<1>7. Holds(path, e)
  BY <1>1 DEF Holds, WriterSide, WriterInv, PublishWrap
<1>8. QED
  BY <1>6, <1>7

LEMMA PublishMessageAppends ==
  ASSUME WriterTypeOK, WriterSide, PublishMessage
  PROVE  /\ Appended(NewItem("msg", wmsg))
         /\ Holds(path, NewItem("msg", wmsg))
<1> USE RingAssumption
<1> DEFINE e == NewItem("msg", wmsg)
<1>0. path \in Files /\ path \in used /\ published \in Nat /\ pointer[path] \in Position
      /\ pointer[path].lap \in Nat /\ pointer[path].off \in Nat
      /\ wmsg.len \in Nat /\ wmsg.serial \in Nat
  BY ItemsTyped DEF PublishMessage, WriterTypeOK, WriterSide, WriterInv
<1>1. e = [kind |-> "msg", lap |-> pointer[path].lap, off |-> pointer[path].off,
           len |-> wmsg.len, serial |-> wmsg.serial, seq |-> published + 1]
  BY DEF NewItem
<1>2. e \in Item
  BY <1>0, <1>1 DEF Item
<1>w. /\ wmsg.len >= 1 /\ 3 * (1 + wmsg.len) <= RingWords
      /\ pointer[path].off + wmsg.len + 2 < RingWords
      /\ \A j \in 0 .. wmsg.len :
            mem[path][pointer[path].off + j] = MessageWord(wmsg.serial, wmsg.len, j)
  BY DEF PublishMessage, WriterSide, WriterInv
<1>3. ItemFits(e)
  BY <1>0, <1>1, <1>w DEF ItemFits
<1>4. ItemPos(e) = pointer[path]
  BY <1>0, <1>1 DEF ItemPos, Pos, Position
<1>5. EndPos(e) = Pos(pointer[path].lap, pointer[path].off + 1 + wmsg.len)
      /\ NextSeq(e) = published + 1 + 1
  BY <1>1 DEF EndPos, NextSeq
<1>6. Appended(e)
  <2>1. EndPos(e).off + 1 < RingWords
    BY <1>0, <1>5, <1>w DEF Pos
  <2>2. log' = [log EXCEPT ![path] = Append(@, e)]
    BY DEF PublishMessage
  <2>3. pointer' = [pointer EXCEPT ![path] = EndPos(e)]
    BY <1>5 DEF PublishMessage
  <2>4. published' = published + 1 /\ UNCHANGED <<path, used>> /\ e.seq = published + 1
    BY <1>1 DEF PublishMessage
  <2>5. QED
    BY <1>0, <1>2, <1>3, <1>4, <1>5, <2>1, <2>2, <2>3, <2>4 DEF Appended
<1>7. Holds(path, e)
  BY <1>1, <1>w DEF Holds
<1>8. QED
  BY <1>6, <1>7

LEMMA StoreWordKeeps ==
  ASSUME WriterTypeOK, WriterSide, NEW j \in wtodo, StoreWord(j)
  PROVE  WriterSide'
<1> USE RingAssumption
<1> DEFINE p == pointer[path]
           w == MessageWord(wmsg.serial, wmsg.len, j)
<1>0. path \in Files /\ UNCHANGED <<path, used, pointer, log, published, wmsg>>
      /\ j \in 0 .. wmsg.len /\ wmsg.len \in Nat /\ wpc = "filling" /\ wpc' = "filling"
      /\ wtodo' = wtodo \ {j}
  BY DEF StoreWord, WriterTypeOK
<1>1. p.off \in Nat /\ p.off + wmsg.len + 2 < RingWords /\ 3 * (1 + wmsg.len) <= RingWords
      /\ wmsg.len >= 1
  BY <1>0, ItemsTyped DEF WriterSide, WriterInv
<1>2. Store(p.off + j, w)
  BY DEF StoreWord
<1> HIDE DEF p, w
<1>3. LogInv'
  BY <1>0 DEF WriterSide, LogInv
<1>4. MemInv'
  <2>1. p.off + j \in Nat /\ p.off + j >= p.off /\ 3 * ((p.off + j) - p.off) < RingWords
    BY <1>0, <1>1
  <2>2. QED
    BY <1>0, <1>2, <2>1, StoreKeeps DEF WriterSide, p
<1>5. WriterInv'
  <2>1. ASSUME NEW q \in (0 .. wmsg.len) \ wtodo'
        PROVE  mem'[path][p.off + q] = MessageWord(wmsg.serial, wmsg.len, q)
    <3>1. CASE q = j
      <4>1. p.off + j \in 0 .. RingWords - 1
        BY <1>0, <1>1
      <4>2. mem'[path][p.off + j] = w
        BY <1>0, <1>2, <4>1 DEF Store, WriterTypeOK
      <4>3. QED
        BY <3>1, <4>2 DEF w
    <3>2. CASE q # j
      <4>1. q \in (0 .. wmsg.len) \ wtodo
        BY <1>0, <3>2, <2>1
      <4>2. mem[path][p.off + q] = MessageWord(wmsg.serial, wmsg.len, q)
        BY <1>0, <4>1 DEF WriterSide, WriterInv, p
      <4>3. p.off + q \in 0 .. RingWords - 1 /\ p.off + q # p.off + j
        BY <1>0, <1>1, <3>2
      <4>4. mem'[path][p.off + q] = mem[path][p.off + q]
        BY <1>0, <1>2, <4>3 DEF Store, WriterTypeOK
      <4>5. QED
        BY <4>2, <4>4
    <3>3. QED
      BY <3>1, <3>2
  <2>2. path' \in used' \cup {NoFile}
    BY <1>0 DEF WriterSide, WriterInv
  <2>3. QED
    BY <1>0, <1>1, <2>1, <2>2 DEF WriterInv, p
<1>6. QED
  BY <1>3, <1>4, <1>5 DEF WriterSide

\* The publisher goes, or its file does: nothing is written.
LEMMA FileStepKeeps ==
  ASSUME WriterTypeOK, WriterSide,
         PublisherRestart \/ RemoveQueue \/ \E f \in Files : NewQueue(f)
  PROVE  WriterSide'
<1> USE RingAssumption
<1>1. UNCHANGED <<pointer, mem, log, published>> /\ wpc' = "idle"
  BY DEF PublisherRestart, RemoveQueue, NewQueue, DropMessage
<1>2. path' = path \/ path' \notin Files \/ path' \notin used
  BY DEF PublisherRestart, RemoveQueue, NewQueue
<1>3. used \subseteq used' /\ path' \in used' \cup {NoFile}
  BY DEF PublisherRestart, RemoveQueue, NewQueue, WriterSide, WriterInv
<1>4. LogInv'
  <2>1. ASSUME NEW f \in Files, f \notin used
        PROVE  DOMAIN log[f] = {}
    BY <2>1, ItemsTyped DEF WriterSide, LogInv
  <2>2. QED
    BY <1>1, <1>2, <1>3, <2>1 DEF WriterSide, LogInv
<1>5. MemInv'
  BY <1>1 DEF WriterSide, MemInv, Holds
<1>6. WriterInv'
  BY <1>1, <1>3 DEF WriterInv
<1>7. QED
  BY <1>4, <1>5, <1>6 DEF WriterSide

LEMMA WriterStepKeeps ==
  ASSUME WriterTypeOK, WriterTypeOK', WriterSide,
         Publisher \/ PublisherRestart \/ RemoveQueue \/ \E f \in Files : NewQueue(f)
  PROVE  WriterSide'
<1> USE RingAssumption
<1>1. ASSUME PublishWrap PROVE WriterSide'
  <2>1. LogInv' /\ MemInv'
    BY <1>1, PublishWrapAppends, AppendKeepsLog, AppendKeepsMem DEF WriterSide, PublishWrap
  <2>2. WriterInv'
    <3>1. path' = path /\ used' = used /\ wpc = "wrapping" /\ wpc' = "filling"
          /\ wmsg' = wmsg /\ wtodo' = wtodo /\ path \in Files
      BY <1>1 DEF PublishWrap, WriterTypeOK
    <3>2. pointer'[path].off = 0
      BY <1>1, <3>1 DEF PublishWrap, Pos, WriterTypeOK
    <3>3. wmsg.len \in Nat /\ wmsg.len >= 1 /\ 3 * (1 + wmsg.len) <= RingWords
          /\ wtodo = 0 .. wmsg.len /\ path \in used \cup {NoFile}
      BY <3>1 DEF WriterSide, WriterInv, WriterTypeOK
    <3>4. 0 + wmsg.len + 2 < RingWords
      BY <3>3
    <3>5. QED
      BY <3>1, <3>2, <3>3, <3>4 DEF WriterInv
  <2>3. QED
    BY <2>1, <2>2 DEF WriterSide
<1>2. ASSUME PublishMessage PROVE WriterSide'
  <2>1. LogInv' /\ MemInv'
    BY <1>2, PublishMessageAppends, AppendKeepsLog, AppendKeepsMem DEF WriterSide, PublishMessage
  <2>2. WriterInv'
    BY <1>2 DEF PublishMessage, DropMessage, WriterSide, WriterInv
  <2>3. QED
    BY <2>1, <2>2 DEF WriterSide
<1>3. QED
  BY <1>1, <1>2, BeginInPlaceKeeps, BeginWithWrapKeeps, StoreWordKeeps, FileStepKeeps DEF Publisher

LEMMA WriterUnchanged == WriterSide /\ UNCHANGED writerVars => WriterSide'
<1> SUFFICES ASSUME WriterSide, UNCHANGED writerVars PROVE WriterSide'
  OBVIOUS
<1>1. LogInv'
  BY DEF WriterSide, LogInv, writerVars
<1>2. MemInv'
  BY DEF WriterSide, MemInv, Holds, writerVars
<1>3. WriterInv'
  BY DEF WriterSide, WriterInv, writerVars
<1>4. QED
  BY <1>1, <1>2, <1>3 DEF WriterSide

LEMMA InitWriterSide == Init => WriterSide
<1> SUFFICES ASSUME Init PROVE WriterSide
  OBVIOUS
<1> USE RingAssumption DEF Init
<1>1. \A f \in Files : pointer[f] = Pos(0, 0) /\ log[f] = << >>
  OBVIOUS
<1>2. QED
  BY <1>1 DEF WriterSide, LogInv, MemInv, WriterInv, Pos

LEMMA NextWriterSide ==
  ASSUME TypeOK, TypeOK', WriterSide, [Next]_vars
  PROVE  WriterSide'
<1>1. CASE Publisher \/ PublisherRestart \/ RemoveQueue \/ \E f \in Files : NewQueue(f)
  BY <1>1, WriterStepKeeps DEF TypeOK
<1>2. CASE Reader
  BY <1>2, ReaderStepType, WriterUnchanged
<1>3. CASE UNCHANGED vars
  BY <1>3, WriterUnchanged DEF vars
<1>4. QED
  BY <1>1, <1>2, <1>3 DEF Next

LEMMA WriterSideIntact == TypeOK /\ WriterSide => StillOursIsIntact
<1> SUFFICES ASSUME TypeOK, WriterSide, NEW f \in Files, NEW k \in DOMAIN log[f],
                    still_ours(pointer[f], log[f][k].lap, log[f][k].off)
             PROVE  Holds(f, log[f][k])
  BY DEF StillOursIsIntact
<1>1. pointer[f] \in Position /\ log[f][k].lap \in Nat /\ log[f][k].off \in Nat
  <2>1. log[f][k] \in Item
    BY ItemsTyped DEF TypeOK
  <2>2. QED
    BY <2>1, ItemsTyped DEF TypeOK, Item
<1>2. log[f][k].lap = pointer[f].lap \/ ThirdAhead(pointer[f], log[f][k])
  BY <1>1, StillOursThird, RingAssumption DEF ThirdAhead
<1>3. QED
  BY <1>2 DEF WriterSide, MemInv

\* What still_ours accepts, no publisher has touched: for every ring and every mix of
\* sizes msgq admits, the third of the ring kept free covers the message in flight.
THEOREM MarginIsEnough == Spec => []StillOursIsIntact
<1>1. Init => TypeOK /\ WriterSide
  BY InitTypeOK, InitWriterSide
<1>2. (TypeOK /\ WriterSide) /\ [Next]_vars => (TypeOK /\ WriterSide)'
  BY NextTypeOK, NextWriterSide
<1>3. TypeOK /\ WriterSide => StillOursIsIntact
  BY WriterSideIntact
<1>4. QED
  BY <1>1, <1>2, <1>3, PTL DEF Spec

-----------------------------------------------------------------------------
(* The reader's side: the publisher's steps. *)

ReaderSide == CursorInv /\ ReadInv /\ GotInv

LEMMA LogFacts ==
  ASSUME WriterTypeOK, LogInv, NEW f \in Files, NEW k \in DOMAIN log[f]
  PROVE  /\ k \in 1 .. Len(log[f]) /\ Len(log[f]) \in Nat
         /\ log[f][k] \in Item /\ ItemFits(log[f][k]) /\ Past(pointer[f], log[f][k])
         /\ NextSeq(log[f][k]) <= published + 1
         /\ k = Len(log[f]) => /\ EndPos(log[f][k]) = pointer[f]
                               /\ f = path => NextSeq(log[f][k]) = published + 1
         /\ k # Len(log[f]) => /\ k + 1 \in DOMAIN log[f]
                               /\ EndPos(log[f][k]) = ItemPos(log[f][k + 1])
                               /\ NextSeq(log[f][k]) = log[f][k + 1].seq
<1>1. k \in 1 .. Len(log[f]) /\ Len(log[f]) \in Nat /\ DOMAIN log[f] = 1 .. Len(log[f])
  BY ItemsTyped
<1>2. log[f][k] \in Item
  BY ItemsTyped
<1>3. k # Len(log[f]) => k + 1 \in DOMAIN log[f]
  BY <1>1
<1>4. QED
  BY <1>1, <1>2, <1>3 DEF LogInv

\* Steps that publish nothing: stores into the ring, files that come and go.
LEMMA QuietStepReader ==
  ASSUME TypeOK, WriterSide, ReaderSide, UNCHANGED <<log, pointer, published, readerVars>>,
         used \subseteq used', path' = path \/ path' \notin used
  PROVE  ReaderSide'
<1>0. UNCHANGED <<log, pointer, published, mapped, cursor_valid, cursor,
                  pending_discontinuity, rpc, snap, size, todo, out, at, got>>
  BY DEF readerVars
<1>1. mapped \in used /\ Accurate => Accurate'
  BY <1>0 DEF Accurate, wp
<1>2. Doomed => Doomed'
  BY <1>0 DEF Doomed, wp
<1>3. cursor_valid => mapped \in used
  BY DEF ReaderSide, CursorInv
<1>4. CursorInv'
  <2>1. mapped' \in used' \cup {NoFile}
    BY <1>0 DEF ReaderSide, CursorInv
  <2>2. cursor_valid' => mapped' # NoFile /\ (Accurate' \/ Doomed')
    BY <1>0, <1>1, <1>2, <1>3 DEF ReaderSide, CursorInv
  <2>3. (got'.seq # 0 /\ ~ cursor_valid' => pending_discontinuity') /\ got'.seq <= published'
    BY <1>0 DEF ReaderSide, CursorInv
  <2>4. QED
    BY <2>1, <2>2, <2>3 DEF CursorInv
<1>5. ReadInv'
  <2>1. SnapInv => SnapInv'
    BY <1>0 DEF SnapInv, wp
  <2>2. CopyInv => CopyInv'
    BY <1>0 DEF CopyInv, wp
  <2>3. QED
    BY <1>0, <1>1, <1>3, <2>1, <2>2 DEF ReaderSide, ReadInv
<1>6. GotInv'
  BY <1>0 DEF ReaderSide, GotInv, WholeMessage
<1>7. QED
  BY <1>4, <1>5, <1>6 DEF ReaderSide

LEMMA AppendAccurate ==
  ASSUME TypeOK, LogInv, NEW e, Appended(e), UNCHANGED readerVars, mapped \in Files,
         got.seq \in Nat, got.seq <= published, Accurate
  PROVE  Accurate' /\ (at <= Len(log[mapped]) => /\ at <= Len(log'[mapped])
                                                /\ log'[mapped][at] = log[mapped][at])
<1>0. UNCHANGED <<mapped, cursor, pending_discontinuity, at, got, path>>
      /\ WriterTypeOK /\ published \in Nat /\ path \in Files /\ at \in Nat
  BY DEF readerVars, Appended, TypeOK, WriterTypeOK, ReaderTypeOK
<1>1. CASE mapped # path
  <2>1. log'[mapped] = log[mapped] /\ pointer'[mapped] = pointer[mapped]
    BY <1>0, <1>1, AppendedLog
  <2>2. QED
    BY <1>0, <1>1, <2>1 DEF Accurate, wp
<1>2. CASE mapped = path
  <2>0. at \in 1 .. Len(log[path]) + 1 /\ Len(log[path]) \in Nat
        /\ DOMAIN log[path] = 1 .. Len(log[path]) /\ Len(log'[path]) = Len(log[path]) + 1
    BY <1>0, <1>2, ItemsTyped, AppendedLog DEF Accurate
  <2>1. CASE at <= Len(log[path])
    <3>1. log'[path][at] = log[path][at]
      BY <1>0, <2>0, <2>1, AppendedLog
    <3>2. at <= Len(log'[path]) /\ at # Len(log'[path]) + 1 /\ at \in 1 .. Len(log'[path]) + 1
      BY <2>0, <2>1
    <3>3. QED
      BY <1>0, <1>2, <2>1, <3>1, <3>2 DEF Accurate
  <2>2. CASE at = Len(log[path]) + 1
    <3>1. log'[path][at] = e
      BY <1>0, <2>2, AppendedLog
    <3>2. ItemPos(e) = pointer[path] /\ e.seq = published + 1
      BY DEF Appended
    <3>3. cursor = pointer[path]
          /\ (got.seq # 0 /\ ~ pending_discontinuity => published = got.seq)
      BY <1>2, <2>2 DEF Accurate, wp
    <3>4. e.seq > got.seq /\ (got.seq # 0 /\ ~ pending_discontinuity => e.seq = got.seq + 1)
      BY <1>0, <3>2, <3>3
    <3>5. at <= Len(log'[path]) /\ at # Len(log'[path]) + 1 /\ at \in 1 .. Len(log'[path]) + 1
          /\ ~ (at <= Len(log[path]))
      BY <2>0, <2>2
    <3>6. QED
      BY <1>0, <1>2, <3>1, <3>2, <3>3, <3>4, <3>5 DEF Accurate
  <2>3. QED
    BY <2>0, <2>1, <2>2
<1>3. QED
  BY <1>1, <1>2

\* Publishing moves no item the reader stands before, and takes back nothing that
\* still_ours has refused.
LEMMA AppendStepReader ==
  ASSUME TypeOK, TypeOK', WriterSide, ReaderSide, NEW e, Appended(e), UNCHANGED readerVars
  PROVE  ReaderSide'
<1> USE RingAssumption
<1>0. UNCHANGED <<mapped, cursor_valid, cursor, pending_discontinuity, rpc, snap, size,
                  todo, out, at, got, path, used>>
      /\ WriterTypeOK /\ LogInv /\ published \in Nat /\ path \in Files /\ got.seq \in Nat
      /\ got.seq <= published /\ cursor \in Position /\ snap \in Position
  BY DEF readerVars, Appended, TypeOK, WriterTypeOK, ReaderTypeOK, GotTypeOK, WriterSide,
         ReaderSide, CursorInv
<1>1. cursor_valid => mapped \in Files
  BY <1>0 DEF ReaderSide, CursorInv, WriterTypeOK
<1>2. cursor_valid /\ Accurate
        => Accurate' /\ (at <= Len(log[mapped]) => /\ at <= Len(log'[mapped])
                                                  /\ log'[mapped][at] = log[mapped][at])
  BY <1>0, <1>1, AppendAccurate
<1>3. cursor_valid => AtOrBehind(wp, wp') /\ wp \in Position /\ wp' \in Position
  <2>1. SUFFICES ASSUME cursor_valid PROVE AtOrBehind(wp, wp') /\ wp \in Position /\ wp' \in Position
    OBVIOUS
  <2>2. wp \in Position /\ wp' \in Position
    BY <1>0, <1>1, <2>1 DEF TypeOK, WriterTypeOK, wp
  <2>3. CASE mapped = path
    BY <1>0, <2>2, <2>3, AppendedForward DEF wp
  <2>4. CASE mapped # path
    <3>1. wp' = wp
      BY <1>0, <1>1, <2>1, <2>4, AppendedLog DEF wp
    <3>2. QED
      BY <2>2, <3>1 DEF AtOrBehind, Position
  <2>5. QED
    BY <2>2, <2>3, <2>4
<1>4. CursorInv'
  <2>1. cursor_valid /\ Doomed => Doomed'
    BY <1>0, <1>3 DEF Doomed, AtOrBehind, Position
  <2>2. published' >= published
    BY <1>0 DEF Appended
  <2>3. got'.seq <= published'
    BY <1>0, <2>2 DEF TypeOK, WriterTypeOK
  <2>4. QED
    BY <1>0, <1>2, <2>1, <2>3 DEF ReaderSide, CursorInv
<1>5. ReadInv'
  <2>1. SUFFICES ASSUME rpc \in {"tag", "copy"}
                 PROVE  /\ cursor_valid' /\ Accurate' /\ at' <= Len(log'[mapped']) /\ SnapInv'
                        /\ rpc = "copy" => CopyInv'
    BY <1>0 DEF ReadInv
  <2>2. cursor_valid /\ Accurate /\ at <= Len(log[mapped]) /\ SnapInv
        /\ (rpc = "copy" => CopyInv)
    BY <2>1 DEF ReaderSide, ReadInv
  <2>3. cursor_valid' /\ Accurate' /\ at' <= Len(log'[mapped']) /\ log'[mapped][at] = log[mapped][at]
    BY <1>0, <1>2, <2>2
  <2>4. SnapInv'
    <3>1. AtOrBehind(snap, wp')
      BY <1>0, <1>3, <2>2 DEF SnapInv, AtOrBehind, Position
    <3>2. QED
      BY <1>0, <2>2, <3>1 DEF SnapInv
  <2>5. still_ours(wp', cursor.lap, cursor.off) => still_ours(wp, cursor.lap, cursor.off)
    <3>1. cursor.lap <= wp.lap
      <4>1. at \in DOMAIN log[mapped]
        BY <1>0, <1>1, <2>2, ItemsTyped DEF Accurate
      <4>2. cursor = ItemPos(log[mapped][at]) /\ Past(wp, log[mapped][at])
        BY <1>0, <1>1, <2>2, <4>1, LogFacts DEF Accurate, wp
      <4>3. QED
        BY <4>2 DEF ItemPos, Pos, Past
    <3>2. QED
      BY <1>0, <1>3, <2>2, <3>1 DEF still_ours, AtOrBehind, Position
  <2>6. rpc = "copy" => CopyInv'
    BY <1>0, <2>2, <2>3, <2>5 DEF CopyInv
  <2>7. QED
    BY <2>3, <2>4, <2>6
<1>6. GotInv'
  <2>1. SUFFICES ASSUME got.file # NoFile
                 PROVE  WholeMessage' /\ got'.seq = log'[got'.file][got'.item].seq
    BY <1>0 DEF ReaderSide, GotInv
  <2>2. got.file \in Files /\ WholeMessage /\ got.seq = log[got.file][got.item].seq
    BY <2>1 DEF ReaderSide, GotInv, TypeOK, GotTypeOK
  <2>3. got.item \in DOMAIN log'[got.file]
        /\ log'[got.file][got.item] = log[got.file][got.item]
    <3>1. CASE got.file = path
      BY <1>0, <2>2, <3>1, AppendedLog, ItemsTyped DEF WholeMessage
    <3>2. CASE got.file # path
      BY <1>0, <2>2, <3>2, AppendedLog DEF WholeMessage
    <3>3. QED
      BY <3>1, <3>2
  <2>4. QED
    BY <1>0, <2>2, <2>3 DEF WholeMessage
<1>7. QED
  BY <1>4, <1>5, <1>6 DEF ReaderSide

LEMMA WriterStepReader ==
  ASSUME TypeOK, TypeOK', WriterSide, ReaderSide,
         Publisher \/ PublisherRestart \/ RemoveQueue \/ \E f \in Files : NewQueue(f)
  PROVE  ReaderSide'
<1>0. UNCHANGED readerVars /\ WriterTypeOK
  BY WriterStepType DEF TypeOK
<1>1. CASE PublishWrap
  BY <1>0, <1>1, PublishWrapAppends, AppendStepReader
<1>2. CASE PublishMessage
  BY <1>0, <1>2, PublishMessageAppends, AppendStepReader
<1>3. CASE ~ PublishWrap /\ ~ PublishMessage
  <2>1. UNCHANGED <<log, pointer, published>>
    BY <1>3 DEF Publisher, BeginInPlace, BeginWithWrap, StartMessage, StoreWord,
                PublisherRestart, RemoveQueue, NewQueue
  <2>2. used \subseteq used' /\ (path' = path \/ path' \notin used)
    BY <1>3, RingAssumption
    DEF Publisher, BeginInPlace, BeginWithWrap, StartMessage, StoreWord,
        PublisherRestart, RemoveQueue, NewQueue, TypeOK, WriterTypeOK
  <2>3. QED
    BY <1>0, <2>1, <2>2, QuietStepReader
<1>4. QED
  BY <1>1, <1>2, <1>3

-----------------------------------------------------------------------------
(* The reader's side: its own steps. *)

\* After the item the cursor stands before comes the next one, or the pointer.
LEMMA NextAccurate ==
  ASSUME TypeOK, LogInv, mapped \in Files, at \in DOMAIN log[mapped],
         at' = at + 1, cursor' = EndPos(log[mapped][at]),
         UNCHANGED <<writerVars, mapped>>,
         got'.seq \in Nat, got'.seq < NextSeq(log[mapped][at]),
         got'.seq # 0 /\ ~ pending_discontinuity'
           => NextSeq(log[mapped][at]) = got'.seq + 1
  PROVE  Accurate'
<1> DEFINE i == log[mapped][at]
<1>0. /\ at \in 1 .. Len(log[mapped]) /\ Len(log[mapped]) \in Nat /\ i \in Item
      /\ at = Len(log[mapped]) => /\ EndPos(i) = wp
                                  /\ mapped = path => NextSeq(i) = published + 1
      /\ at # Len(log[mapped]) => /\ EndPos(i) = ItemPos(log[mapped][at + 1])
                                  /\ NextSeq(i) = log[mapped][at + 1].seq
  BY LogFacts DEF TypeOK, wp
<1>1. UNCHANGED <<log, pointer, path, published, mapped>> /\ published \in Nat
  BY DEF writerVars, TypeOK, WriterTypeOK
<1>2. at' \in 1 .. Len(log[mapped]) + 1
  BY <1>0
<1> HIDE DEF i
<1>3. CASE at = Len(log[mapped])
  <2>1. at' = Len(log[mapped]) + 1 /\ ~ (at' <= Len(log[mapped]))
    BY <1>0, <1>3
  <2>2. cursor' = wp
    BY <1>0, <1>3 DEF i
  <2>3. got'.seq # 0 /\ ~ pending_discontinuity' /\ mapped = path => published = got'.seq
    BY <1>0, <1>1, <1>3 DEF i
  <2>4. QED
    BY <1>1, <1>2, <2>1, <2>2, <2>3 DEF Accurate, wp
<1>4. CASE at # Len(log[mapped])
  <2>1. at' <= Len(log[mapped]) /\ at' # Len(log[mapped]) + 1
    BY <1>0, <1>4
  <2>2. cursor' = ItemPos(log[mapped][at']) /\ NextSeq(i) = log[mapped][at'].seq
    BY <1>0, <1>4 DEF i
  <2>3. log[mapped][at'].seq > got'.seq
        /\ (got'.seq # 0 /\ ~ pending_discontinuity' => log[mapped][at'].seq = got'.seq + 1)
    BY <2>2 DEF i
  <2>4. QED
    BY <1>1, <1>2, <2>1, <2>2, <2>3 DEF Accurate
<1>5. QED
  BY <1>3, <1>4

LEMMA ResyncKeeps ==
  ASSUME TypeOK, ReaderSide, UNCHANGED writerVars, NEW d, Resync(d)
  PROVE  ReaderSide'
<1>0. UNCHANGED <<log, used, published, mapped, got>> /\ cursor_valid' = FALSE
      /\ pending_discontinuity' = TRUE /\ rpc' = "idle"
  BY DEF Resync, Return, writerVars
<1>1. CursorInv'
  BY <1>0 DEF CursorInv, ReaderSide
<1>2. ReadInv'
  BY <1>0 DEF ReadInv
<1>3. GotInv'
  BY <1>0 DEF ReaderSide, GotInv, WholeMessage
<1>4. QED
  BY <1>1, <1>2, <1>3 DEF ReaderSide

LEMMA GotKeeps == GotInv /\ UNCHANGED <<log, got>> => GotInv'
  BY DEF GotInv, WholeMessage

LEMMA RefreshKeeps ==
  ASSUME TypeOK, WriterSide, ReaderSide, TryNextRefresh
  PROVE  ReaderSide'
<1>0. UNCHANGED <<log, pointer, path, used, published, got, cursor, at>> /\ mapped' = path
      /\ path \in used \cup {NoFile} /\ rpc' \in {"idle", "load"}
  BY DEF TryNextRefresh, writerVars, WriterSide, WriterInv
<1>1. CursorInv'
  <2>1. CASE path = NoFile \/ path # mapped
    <3>1. cursor_valid' = FALSE /\ (pending_discontinuity' <=> (pending_discontinuity \/ cursor_valid))
      BY <2>1 DEF TryNextRefresh, ForgetCursor
    <3>2. QED
      BY <1>0, <3>1 DEF ReaderSide, CursorInv
  <2>2. CASE ~ (path = NoFile \/ path # mapped)
    <3>1. UNCHANGED <<cursor_valid, pending_discontinuity, mapped>>
      BY <1>0, <2>2 DEF TryNextRefresh
    <3>2. Accurate => Accurate'
      BY <1>0, <3>1 DEF Accurate, wp
    <3>3. Doomed => Doomed'
      BY <1>0, <3>1 DEF Doomed, wp
    <3>4. QED
      BY <1>0, <3>1, <3>2, <3>3 DEF ReaderSide, CursorInv
  <2>3. QED
    BY <2>1, <2>2
<1>2. ReadInv'
  BY <1>0 DEF ReadInv
<1>3. QED
  BY <1>0, <1>1, <1>2, GotKeeps DEF ReaderSide

\* Steps that leave the cursor and what was handed out alone.
LEMMA CursorKeeps ==
  ASSUME ReaderSide, UNCHANGED <<writerVars, mapped, cursor_valid, cursor, at, got,
                                 pending_discontinuity>>
  PROVE  CursorInv' /\ GotInv' /\ (Accurate => Accurate')
<1>0. UNCHANGED <<log, pointer, path, used, published>>
  BY DEF writerVars
<1>1. Accurate => Accurate'
  BY <1>0 DEF Accurate, wp
<1>2. Doomed => Doomed'
  BY <1>0 DEF Doomed, wp
<1>3. CursorInv'
  BY <1>0, <1>1, <1>2 DEF ReaderSide, CursorInv
<1>4. QED
  BY <1>0, <1>1, <1>3, GotKeeps DEF ReaderSide

LEMMA TryNextKeeps ==
  ASSUME ReaderSide, TryNext
  PROVE  ReaderSide'
<1>1. ReadInv'
  BY DEF TryNext, ReadInv
<1>2. QED
  BY <1>1, CursorKeeps DEF TryNext, ReaderSide

\* A cursor that follows no item is found out: the margins leave it no way through.
LEMMA DoomedResyncs ==
  ASSUME TypeOK, mapped \in Files, Doomed, ~ Unreachable(wp),
         still_ours(wp, cursor.lap, cursor.off), ~ TooFarBehind(wp)
  PROVE  FALSE
<1>0. wp \in Position /\ cursor \in Position /\ RingWords \in Nat
  BY RingAssumption DEF TypeOK, WriterTypeOK, ReaderTypeOK, wp
<1>1. wp.lap \in Nat /\ wp.off \in Nat /\ cursor.lap \in Nat /\ cursor.off = 0
  BY <1>0 DEF Position, Doomed
<1>2. wp.lap = cursor.lap \/ wp.lap = cursor.lap + 1
  BY DEF Unreachable
<1>3. CASE wp.lap = cursor.lap
  <2>1. 4 * wp.off > RingWords
    BY <1>1, <1>3 DEF Doomed
  <2>2. 8 * wp.off <= (8 * RingWords) \div 4
    <3>1. Behind(wp, cursor.lap, cursor.off) = wp.off
      BY <1>1, <1>3 DEF Behind
    <3>2. QED
      BY <1>0, <1>1, <3>1 DEF TooFarBehind
  <2>3. QED
    BY <1>0, <1>1, <2>1, <2>2
<1>4. CASE wp.lap = cursor.lap + 1
  BY <1>0, <1>1, <1>4 DEF still_ours
<1>5. QED
  BY <1>2, <1>3, <1>4

LEMMA LoadPointerKeeps ==
  ASSUME TypeOK, TypeOK', WriterSide, ReaderSide, LoadPointer
  PROVE  ReaderSide'
<1> USE RingAssumption
<1>0. UNCHANGED writerVars /\ UNCHANGED <<log, pointer, path, used, published, mapped, got>>
      /\ mapped \in Files /\ WriterTypeOK /\ wp \in Position /\ cursor \in Position
      /\ wp' = wp /\ mapped \in used
  <2>1. UNCHANGED writerVars /\ mapped \in Files /\ WriterTypeOK
    BY DEF LoadPointer, TypeOK, ReaderTypeOK
  <2>2. UNCHANGED <<mapped, got>>
    BY DEF LoadPointer, Resync, ReturnEmpty
  <2>3. wp \in Position /\ cursor \in Position
    BY <2>1 DEF TypeOK, WriterTypeOK, ReaderTypeOK, wp
  <2>4. mapped \in used
    BY <2>1 DEF ReaderSide, CursorInv
  <2>5. QED
    BY <2>1, <2>2, <2>3, <2>4 DEF writerVars, wp
<1>1. CASE \E d : Resync(d)
  BY <1>0, <1>1, ResyncKeeps
<1>2. CASE /\ ~ cursor_valid
           /\ cursor' = wp /\ cursor_valid' = TRUE
           /\ at' = Len(log[mapped]) + 1
           /\ ReturnEmpty
  <2>1. Len(log[mapped]) \in Nat
    BY <1>0, ItemsTyped
  <2>2. pending_discontinuity' = pending_discontinuity /\ rpc' = "idle"
    BY <1>2 DEF ReturnEmpty, Return
  <2>3. got.seq # 0 => pending_discontinuity
    BY <1>2 DEF ReaderSide, CursorInv
  <2>4. at' \in 1 .. Len(log[mapped]) + 1 /\ ~ (at' <= Len(log[mapped]))
    BY <1>2, <2>1
  <2>5. Accurate'
    BY <1>0, <1>2, <2>2, <2>3, <2>4 DEF Accurate, wp
  <2>6. CursorInv'
    BY <1>0, <1>2, <2>5 DEF ReaderSide, CursorInv
  <2>7. QED
    BY <1>0, <2>2, <2>6, GotKeeps DEF ReaderSide, ReadInv
<1>3. CASE ReturnEmpty /\ UNCHANGED <<cursor, cursor_valid, at>>
  <2>1. pending_discontinuity' = pending_discontinuity /\ rpc' = "idle"
    BY <1>3 DEF ReturnEmpty, Return
  <2>2. QED
    BY <1>0, <1>3, <2>1, CursorKeeps DEF ReaderSide, ReadInv
<1>4. CASE /\ cursor_valid /\ wp # cursor /\ ~ Unreachable(wp)
           /\ still_ours(wp, cursor.lap, cursor.off) /\ ~ TooFarBehind(wp)
           /\ snap' = wp
           /\ rpc' = "tag"
           /\ UNCHANGED <<mapped, refresh_needed, cursor_valid, cursor,
                         pending_discontinuity, step, size, todo, out, at, got>>
  <2>1. Accurate
    BY <1>0, <1>4, DoomedResyncs DEF ReaderSide, CursorInv
  <2>2. at <= Len(log[mapped])
    <3>1. at \in 1 .. Len(log[mapped]) + 1 /\ Len(log[mapped]) \in Nat
      BY <1>0, <2>1, ItemsTyped DEF Accurate
    <3>2. at # Len(log[mapped]) + 1
      BY <1>4, <2>1 DEF Accurate
    <3>3. QED
      BY <3>1, <3>2
  <2>3. CursorInv' /\ GotInv' /\ Accurate'
    BY <1>0, <1>4, <2>1, CursorKeeps
  <2>4. SnapInv'
    <3>1. /\ wp.lap \in Nat /\ wp.off \in Nat /\ cursor.lap \in Nat /\ cursor.off \in Nat
          /\ wp.lap # cursor.lap \/ wp.off # cursor.off
      BY <1>0, <1>4 DEF Position
    <3>2. AtOrBehind(wp, wp)
      BY <3>1 DEF AtOrBehind
    <3>3. \/ wp.lap = cursor.lap /\ cursor.off < wp.off
          \/ wp.lap = cursor.lap + 1
      BY <1>4, <3>1 DEF Unreachable
    <3>4. ASSUME wp.lap = cursor.lap + 1
          PROVE  4 * (RingWords - cursor.off + wp.off) <= RingWords
      <4>1. 8 * (RingWords - cursor.off + wp.off) <= (8 * RingWords) \div 4
        BY <1>4, <3>1, <3>4 DEF TooFarBehind, Behind
      <4>2. QED
        BY <3>1, <4>1
    <3>5. QED
      BY <1>0, <1>4, <3>2, <3>3, <3>4 DEF SnapInv
  <2>5. ReadInv'
    BY <1>0, <1>4, <2>2, <2>3, <2>4 DEF ReadInv
  <2>6. QED
    BY <2>3, <2>5 DEF ReaderSide
<1>5. QED
  <2>1. wp.off + 1 \in Int /\ cursor.off + 1 \in Int
    BY <1>0 DEF Position
  <2>2. QED
    BY <1>1, <1>2, <1>3, <1>4, <2>1, Zenon DEF LoadPointer

\* What the tag of an item still_ours accepts says.
LEMMA TagOfOurs ==
  ASSUME TypeOK, WriterSide, mapped \in Files, at \in DOMAIN log[mapped],
         cursor = ItemPos(log[mapped][at]), still_ours(wp, cursor.lap, cursor.off),
         NEW n, n \in SizeTags(mem[mapped][cursor.off])
  PROVE  /\ Holds(mapped, log[mapped][at])
         /\ log[mapped][at].kind = "wrap" => n = -1
         /\ log[mapped][at].kind = "msg" => n = log[mapped][at].len
<1> DEFINE i == log[mapped][at]
<1>0. i \in Item /\ ItemFits(i) /\ cursor.lap = i.lap /\ cursor.off = i.off
      /\ i.off \in Nat /\ i.len \in Nat
  <2>1. i \in Item /\ ItemFits(i)
    BY LogFacts DEF TypeOK, WriterSide
  <2>2. QED
    BY <2>1 DEF ItemPos, Pos, Item
<1>1. Holds(mapped, i)
  BY <1>0, WriterSideIntact DEF StillOursIsIntact, wp
<1> HIDE DEF i
<1>2. ASSUME i.kind = "wrap" PROVE n = -1
  <2>1. mem[mapped][cursor.off] = WrapTag
    BY <1>0, <1>1, <1>2 DEF Holds
  <2>2. QED
    BY <2>1 DEF SizeTags, WrapTag
<1>3. ASSUME i.kind = "msg" PROVE n = i.len
  <2>1. mem[mapped][i.off + 0] = MessageWord(i.serial, i.len, 0)
    BY <1>0, <1>1, <1>3 DEF Holds
  <2>2. mem[mapped][cursor.off] = MessageWord(i.serial, i.len, 0)
    BY <1>0, <2>1
  <2>3. i.len # 0
    BY <1>0, <1>3 DEF ItemFits
  <2>4. QED
    BY <2>2, <2>3 DEF SizeTags, WrapTag, MessageWord
<1>4. QED
  BY <1>1, <1>2, <1>3 DEF i

\* A wrap tag that is none: the publisher has come round, and is then found out.
LEMMA FalseWrapIsDoomed ==
  ASSUME RingWords \in Nat, RingWords >= 6, wp \in Position, snap \in Position,
         cursor \in Position, SnapInv, snap.lap # cursor.lap,
         ~ still_ours(wp, cursor.lap, cursor.off),
         cursor' = Pos(cursor.lap + 1, 0), wp' = wp
  PROVE  Doomed'
<1>1. /\ wp.lap \in Nat /\ wp.off \in Nat /\ snap.lap \in Nat /\ snap.off \in Nat
      /\ cursor.lap \in Nat /\ cursor.off \in Nat
  BY DEF Position
<1>2. snap.lap = cursor.lap + 1 /\ 4 * (RingWords - cursor.off + snap.off) <= RingWords
  BY DEF SnapInv
<1>3. wp.lap >= cursor.lap + 1
  BY <1>1, <1>2 DEF SnapInv, AtOrBehind
<1>4. cursor'.lap = cursor.lap + 1 /\ cursor'.off = 0
  BY DEF Pos
<1>5. CASE wp.lap > cursor.lap + 1
  BY <1>4, <1>5 DEF Doomed
<1>6. CASE wp.lap = cursor.lap + 1
  <2>1. 8 * wp.off + (8 * RingWords) \div 3 + 8 > 8 * cursor.off
    BY <1>1, <1>6 DEF still_ours
  <2>2. 3 * ((8 * RingWords) \div 3) <= 8 * RingWords /\ (8 * RingWords) \div 3 \in Int
    OBVIOUS
  <2>3. 4 * cursor.off >= 3 * RingWords
    BY <1>1, <1>2
  <2>4. 4 * wp.off > RingWords
    BY <1>1, <2>1, <2>2, <2>3
  <2>5. QED
    BY <1>4, <1>6, <2>4 DEF Doomed
<1>7. QED
  BY <1>1, <1>3, <1>5, <1>6

LEMMA LoadTagKeeps ==
  ASSUME TypeOK, TypeOK', WriterSide, ReaderSide, NEW n \in -1 .. RingWords, LoadTag(n)
  PROVE  ReaderSide'
<1> USE RingAssumption
<1> DEFINE i == log[mapped][at]
<1>0. /\ UNCHANGED writerVars /\ UNCHANGED <<log, pointer, path, used, published, mapped, got>>
      /\ mapped \in Files /\ mapped \in used /\ WriterTypeOK /\ wp' = wp
      /\ wp \in Position /\ cursor \in Position /\ snap \in Position
      /\ got.seq \in Nat
  <2>1. UNCHANGED writerVars /\ mapped \in Files /\ WriterTypeOK /\ rpc = "tag"
    BY DEF LoadTag, TypeOK, ReaderTypeOK
  <2>2. UNCHANGED <<mapped, got>>
    BY DEF LoadTag, Resync, FollowWrap, StartCopy
  <2>3. wp \in Position /\ cursor \in Position /\ snap \in Position /\ got.seq \in Nat
    BY <2>1 DEF TypeOK, WriterTypeOK, ReaderTypeOK, GotTypeOK, wp
  <2>4. mapped \in used
    BY <2>1 DEF ReaderSide, CursorInv
  <2>5. QED
    BY <2>1, <2>2, <2>3, <2>4 DEF writerVars, wp
<1>1. cursor_valid /\ Accurate /\ at <= Len(log[mapped]) /\ SnapInv
  BY DEF LoadTag, ReaderSide, ReadInv
<1>2. /\ at \in DOMAIN log[mapped] /\ at \in Nat /\ cursor = ItemPos(i) /\ i.seq > got.seq
      /\ got.seq # 0 /\ ~ pending_discontinuity => i.seq = got.seq + 1
  <2>1. at \in DOMAIN log[mapped]
    BY <1>0, <1>1, ItemsTyped DEF Accurate
  <2>2. at \in Nat
    BY <1>0, <2>1, ItemsTyped
  <2>3. QED
    BY <1>1, <2>1, <2>2 DEF Accurate
<1>3. i \in Item /\ ItemFits(i)
  BY <1>0, <1>2, LogFacts DEF WriterSide
<1>4. n \in SizeTags(mem[mapped][cursor.off])
  BY DEF LoadTag
<1>5. still_ours(wp, cursor.lap, cursor.off)
        => (i.kind = "wrap" => n = -1) /\ (i.kind = "msg" => n = i.len)
  BY <1>0, <1>2, <1>4, TagOfOurs
<1>6. i.kind = "wrap" \/ i.kind = "msg"
  BY <1>3 DEF Item
<1> HIDE DEF i
<1>7. CASE Resync(TRUE)
  BY <1>0, <1>7, ResyncKeeps
<1>8. CASE n = -1 /\ snap.lap # cursor.lap /\ FollowWrap
  <2>1. /\ cursor' = Pos(cursor.lap + 1, 0) /\ at' = at + 1 /\ rpc' \in {"load", "idle"}
        /\ UNCHANGED <<cursor_valid, pending_discontinuity, got>>
    BY <1>8 DEF FollowWrap, Return
  <2>2. CASE still_ours(wp, cursor.lap, cursor.off)
    <3>1. i.kind = "wrap"
      BY <1>3, <1>5, <1>6, <1>8, <2>2 DEF ItemFits
    <3>2. cursor' = EndPos(i) /\ NextSeq(i) = i.seq
      BY <1>2, <2>1, <3>1 DEF EndPos, NextSeq, ItemPos, Pos
    <3>3. got'.seq \in Nat /\ got'.seq < NextSeq(i)
          /\ (got'.seq # 0 /\ ~ pending_discontinuity' => NextSeq(i) = got'.seq + 1)
      BY <1>0, <1>2, <1>3, <2>1, <3>2 DEF Item
    <3>4. Accurate'
      BY <1>0, <1>2, <2>1, <3>2, <3>3, NextAccurate DEF i, WriterSide
    <3>5. QED
      BY <1>0, <1>1, <2>1, <3>4, GotKeeps DEF ReaderSide, CursorInv, ReadInv
  <2>3. CASE ~ still_ours(wp, cursor.lap, cursor.off)
    <3>1. Doomed'
      BY <1>0, <1>1, <1>8, <2>1, <2>3, FalseWrapIsDoomed
    <3>2. QED
      BY <1>0, <1>1, <2>1, <3>1, GotKeeps DEF ReaderSide, CursorInv, ReadInv
  <2>4. QED
    BY <2>2, <2>3
<1>9. CASE ~ BadSize(n) /\ StartCopy(n)
  <2>1. CursorInv' /\ GotInv' /\ Accurate'
    BY <1>0, <1>1, <1>9, CursorKeeps DEF StartCopy
  <2>2. /\ size' = n /\ todo' = 1 .. n /\ rpc' = "copy"
        /\ UNCHANGED <<cursor_valid, cursor, snap, at>>
    BY <1>9 DEF StartCopy
  <2>3. SnapInv'
    BY <1>0, <1>1, <2>2 DEF SnapInv
  <2>4. CopyInv'
    <3>1. SUFFICES ASSUME still_ours(wp, cursor.lap, cursor.off)
                   PROVE  /\ i.kind = "msg" /\ size' = i.len
                          /\ (1 .. size') \ todo' = {}
      BY <1>0, <2>2 DEF CopyInv, i
    <3>2. n > 0
      BY <1>9 DEF BadSize
    <3>3. i.kind = "msg"
      BY <1>5, <1>6, <3>1, <3>2
    <3>4. QED
      BY <1>5, <2>2, <3>1, <3>3
  <2>5. QED
    BY <1>0, <1>1, <2>1, <2>2, <2>3, <2>4 DEF ReaderSide, ReadInv
<1>10. QED
  BY <1>7, <1>8, <1>9 DEF LoadTag

LEMMA CopyWordKeeps ==
  ASSUME TypeOK, TypeOK', WriterSide, ReaderSide, NEW j \in todo, CopyWord(j)
  PROVE  ReaderSide'
<1> USE RingAssumption
<1>0. /\ UNCHANGED writerVars /\ UNCHANGED <<log, pointer, path, used, published, mem>>
      /\ UNCHANGED <<mapped, cursor_valid, cursor, pending_discontinuity, rpc, snap, size, at, got>>
      /\ mapped \in Files /\ WriterTypeOK /\ wp' = wp /\ rpc = "copy"
      /\ out \in [1 .. size -> Word] /\ todo \subseteq 1 .. size /\ size \in Nat
      /\ out' = [out EXCEPT ![j] = mem[mapped][cursor.off + j]] /\ todo' = todo \ {j}
  BY DEF CopyWord, TypeOK, ReaderTypeOK, writerVars, wp
<1>1. cursor_valid /\ Accurate /\ at <= Len(log[mapped]) /\ SnapInv /\ CopyInv
  BY <1>0 DEF ReaderSide, ReadInv
<1>2. at \in DOMAIN log[mapped] /\ cursor = ItemPos(log[mapped][at])
  BY <1>0, <1>1, ItemsTyped DEF Accurate
<1>3. CursorInv' /\ GotInv' /\ Accurate'
  BY <1>0, <1>1, CursorKeeps
<1>4. SnapInv'
  BY <1>0, <1>1 DEF SnapInv
<1>5. CopyInv'
  <2>1. SUFFICES ASSUME still_ours(wp, cursor.lap, cursor.off),
                        NEW q \in (1 .. size) \ todo'
                 PROVE  out'[q] = MessageWord(log[mapped][at].serial, log[mapped][at].len, q)
    BY <1>0, <1>1 DEF CopyInv
  <2>2. CASE q = j
    <3>1. out'[q] = mem[mapped][cursor.off + j]
      BY <1>0, <2>2
    <3>2. Holds(mapped, log[mapped][at])
      <4>1. log[mapped][at] \in Item
        BY <1>0, <1>2, ItemsTyped
      <4>2. cursor.lap = log[mapped][at].lap /\ cursor.off = log[mapped][at].off
        BY <1>2 DEF ItemPos, Pos
      <4>3. QED
        BY <1>0, <1>2, <2>1, <4>2, WriterSideIntact DEF StillOursIsIntact, wp
    <3>3. log[mapped][at].kind = "msg" /\ size = log[mapped][at].len
      BY <1>1, <2>1 DEF CopyInv
    <3>4. mem[mapped][log[mapped][at].off + j]
            = MessageWord(log[mapped][at].serial, log[mapped][at].len, j)
      BY <1>0, <3>2, <3>3 DEF Holds
    <3>5. QED
      BY <1>2, <2>2, <3>1, <3>4 DEF ItemPos, Pos
  <2>3. CASE q # j
    BY <1>0, <1>1, <2>1, <2>3 DEF CopyInv
  <2>4. QED
    BY <2>2, <2>3
<1>6. QED
  BY <1>0, <1>1, <1>3, <1>4, <1>5 DEF ReaderSide, ReadInv

\* A copy that is still ours when it is complete is the message, byte for byte.
LEMMA HandOutIsWhole ==
  ASSUME TypeOK, WriterSide, ReaderSide, Recheck,
         still_ours(wp, cursor.lap, cursor.off)
  PROVE  /\ at \in DOMAIN log[mapped] /\ log[mapped][at] \in Item
         /\ log[mapped][at].kind = "msg" /\ size = log[mapped][at].len
         /\ out = Words(log[mapped][at])
         /\ cursor = ItemPos(log[mapped][at])
         /\ log[mapped][at].seq > got.seq
         /\ got.seq # 0 /\ ~ pending_discontinuity => log[mapped][at].seq = got.seq + 1
<1> USE RingAssumption
<1>0. /\ mapped \in Files /\ WriterTypeOK /\ rpc = "copy" /\ todo = {}
      /\ out \in [1 .. size -> Word] /\ size \in Nat
  BY DEF Recheck, TypeOK, ReaderTypeOK
<1>1. Accurate /\ at <= Len(log[mapped]) /\ CopyInv
  BY <1>0 DEF ReaderSide, ReadInv
<1>2. at \in DOMAIN log[mapped] /\ log[mapped][at] \in Item
  BY <1>0, <1>1, ItemsTyped DEF Accurate
<1>3. /\ log[mapped][at].kind = "msg" /\ size = log[mapped][at].len
      /\ \A j \in 1 .. size :
           out[j] = MessageWord(log[mapped][at].serial, log[mapped][at].len, j)
  BY <1>0, <1>1 DEF CopyInv
<1>4. out = Words(log[mapped][at])
  BY <1>0, <1>3 DEF Words
<1>5. QED
  BY <1>1, <1>2, <1>3, <1>4 DEF Accurate

LEMMA RecheckKeeps ==
  ASSUME TypeOK, TypeOK', WriterSide, ReaderSide, Recheck
  PROVE  ReaderSide'
<1> USE RingAssumption
<1>0. UNCHANGED writerVars /\ UNCHANGED <<log, pointer, path, used, published>>
      /\ rpc = "copy" /\ mapped \in Files /\ WriterTypeOK
  BY DEF Recheck, writerVars, TypeOK, ReaderTypeOK
<1>1. CASE Resync(FALSE)
  BY <1>0, <1>1, ResyncKeeps
<1>2. CASE still_ours(wp, cursor.lap, cursor.off) /\ HandOut
  <2> DEFINE i == log[mapped][at]
  <2>1. /\ at \in DOMAIN log[mapped] /\ i \in Item /\ i.kind = "msg" /\ size = i.len
        /\ out = Words(i) /\ cursor = ItemPos(i)
    BY <1>2, HandOutIsWhole
  <2>2. NextSeq(i) <= published + 1 /\ ItemFits(i)
    BY <1>0, <2>1, LogFacts DEF WriterSide
  <2>3. got' = [file |-> mapped, item |-> at, words |-> out, seq |-> i.seq,
                gap |-> pending_discontinuity]
    BY <1>2, <2>1 DEF HandOut
  <2>4. /\ at' = at + 1 /\ pending_discontinuity' = FALSE /\ rpc' = "idle"
        /\ UNCHANGED <<mapped, cursor_valid>>
        /\ cursor' = Pos(cursor.lap, cursor.off + 1 + size)
    BY <1>2 DEF HandOut, Return
  <2>5. WholeMessage' /\ got'.seq = i.seq /\ got'.file = mapped /\ got'.item = at
    BY <1>0, <2>1, <2>3 DEF WholeMessage
  <2>6. GotInv'
    BY <1>0, <2>5 DEF GotInv
  <2>7. cursor' = EndPos(i) /\ NextSeq(i) = i.seq + 1
    BY <2>1, <2>4 DEF EndPos, NextSeq, ItemPos, Pos
  <2>8. i.seq \in Nat
    BY <2>1 DEF Item
  <2> HIDE DEF i
  <2>9. got'.seq \in Nat /\ got'.seq < NextSeq(i) /\ NextSeq(i) = got'.seq + 1
    BY <2>5, <2>7, <2>8
  <2>10. Accurate'
    BY <1>0, <2>1, <2>4, <2>7, <2>9, NextAccurate DEF i, WriterSide
  <2>11. got'.seq <= published'
    BY <1>0, <2>2, <2>5, <2>7, <2>8 DEF WriterTypeOK
  <2>12. cursor_valid /\ mapped \in used
    BY <1>0 DEF ReaderSide, ReadInv, CursorInv
  <2>13. QED
    BY <1>0, <2>4, <2>6, <2>10, <2>11, <2>12 DEF ReaderSide, CursorInv, ReadInv
<1>3. QED
  BY <1>1, <1>2 DEF Recheck

LEMMA ReaderStepReader ==
  ASSUME TypeOK, TypeOK', WriterSide, ReaderSide, Reader
  PROVE  ReaderSide'
  BY RefreshKeeps, TryNextKeeps, LoadPointerKeeps, LoadTagKeeps, CopyWordKeeps, RecheckKeeps
  DEF Reader

-----------------------------------------------------------------------------
(* The theorems. *)

LEMMA InitIInv == Init => IInv
<1> SUFFICES ASSUME Init PROVE IInv
  OBVIOUS
<1>1. TypeOK /\ WriterSide
  BY InitTypeOK, InitWriterSide
<1>2. mapped = NoFile /\ cursor_valid = FALSE /\ got = NothingYet /\ rpc = "idle"
      /\ published = 0
  BY DEF Init
<1>3. CursorInv
  BY <1>2 DEF CursorInv, NothingYet
<1>4. ReadInv
  BY <1>2 DEF ReadInv
<1>5. GotInv
  BY <1>2 DEF GotInv, NothingYet
<1>6. QED
  BY <1>1, <1>3, <1>4, <1>5 DEF IInv, WriterSide

LEMMA StutterReader ==
  ASSUME ReaderSide, UNCHANGED vars
  PROVE  ReaderSide'
<1>1. CursorInv' /\ GotInv' /\ (Accurate => Accurate')
  BY CursorKeeps DEF vars, readerVars
<1>2. ReadInv'
  <2>1. UNCHANGED <<log, pointer, mapped, cursor_valid, cursor, rpc, snap, size, todo, out, at>>
    BY DEF vars, writerVars, readerVars
  <2>2. SnapInv => SnapInv'
    BY <2>1 DEF SnapInv, wp
  <2>3. CopyInv => CopyInv'
    BY <2>1 DEF CopyInv, wp
  <2>4. QED
    BY <1>1, <2>1, <2>2, <2>3 DEF ReaderSide, ReadInv
<1>3. QED
  BY <1>1, <1>2 DEF ReaderSide

LEMMA NextIInv == IInv /\ [Next]_vars => IInv'
<1> SUFFICES ASSUME IInv, [Next]_vars PROVE IInv'
  OBVIOUS
<1>1. TypeOK /\ TypeOK' /\ WriterSide /\ ReaderSide
  BY NextTypeOK DEF IInv, WriterSide, ReaderSide
<1>2. WriterSide'
  BY <1>1, NextWriterSide
<1>3. ReaderSide'
  <2>1. CASE Publisher \/ PublisherRestart \/ RemoveQueue \/ \E f \in Files : NewQueue(f)
    BY <1>1, <2>1, WriterStepReader
  <2>2. CASE Reader
    BY <1>1, <2>2, ReaderStepReader
  <2>3. CASE UNCHANGED vars
    BY <1>1, <2>3, StutterReader
  <2>4. QED
    BY <2>1, <2>2, <2>3 DEF Next
<1>4. QED
  BY <1>1, <1>2, <1>3 DEF IInv, WriterSide, ReaderSide

\* Handing out the message the cursor stands before is a delivery of the feed.
LEMMA HandOutDelivers ==
  ASSUME IInv, IInv', Recheck, still_ours(wp, cursor.lap, cursor.off), HandOut
  PROVE  Feed!Deliver
<1> DEFINE k == log[mapped][at].seq
<1>1. /\ at \in DOMAIN log[mapped] /\ k \in Nat /\ k > got.seq /\ got.seq \in Nat
      /\ got.seq # 0 /\ ~ pending_discontinuity => k = got.seq + 1
      /\ pending_discontinuity \in BOOLEAN
  BY HandOutIsWhole DEF IInv, WriterSide, ReaderSide, Item, TypeOK, ReaderTypeOK, GotTypeOK
<1>2. /\ got'.file = mapped /\ got'.seq = k /\ got'.gap = pending_discontinuity
      /\ mapped # NoFile /\ published' = published
  BY <1>1 DEF HandOut, Recheck, writerVars, IInv, TypeOK, ReaderTypeOK
<1>3. WholeMessage' /\ k <= published /\ published \in Nat
  BY <1>2 DEF IInv, GotInv, CursorInv, TypeOK, WriterTypeOK
<1> HIDE DEF k
<1>4. k \in got.seq + 1 .. published
  BY <1>1, <1>3
<1>5. got.seq # 0 /\ k # got.seq + 1 => pending_discontinuity
  BY <1>1
<1>6. [seq |-> got'.seq, gap |-> got'.gap,
       body |-> IF got'.file = NoFile THEN "none"
                ELSE IF WholeMessage' THEN "whole" ELSE "torn"]
        = [seq |-> k, gap |-> pending_discontinuity, body |-> "whole"]
  BY <1>2, <1>3
<1>7. QED
  BY <1>1, <1>2, <1>4, <1>5, <1>6, Zenon DEF Feed!Deliver

LEMMA FeedStep == IInv /\ IInv' /\ [Next]_vars => [Feed!Next]_Feed!feedVars
<1> SUFFICES ASSUME IInv, IInv', [Next]_vars PROVE [Feed!Next]_Feed!feedVars
  OBVIOUS
<1> DEFINE body == IF got.file = NoFile THEN "none" ELSE IF WholeMessage THEN "whole" ELSE "torn"
<1>1. ASSUME UNCHANGED got
      PROVE  [seq |-> got'.seq, gap |-> got'.gap, body |-> body']
               = [seq |-> got.seq, gap |-> got.gap, body |-> body]
  BY <1>1 DEF IInv, GotInv
<1>2. ASSUME UNCHANGED <<got, published>>
      PROVE  UNCHANGED Feed!feedVars
  BY <1>1, <1>2 DEF Feed!feedVars
<1>3. CASE PublishMessage
  <2>1. UNCHANGED got /\ published' = published + 1
    BY <1>3 DEF PublishMessage, readerVars
  <2>2. QED
    BY <1>1, <2>1 DEF Feed!Next, Feed!Publish
<1>4. CASE (Publisher /\ ~ PublishMessage) \/ PublisherRestart \/ RemoveQueue
           \/ \E f \in Files : NewQueue(f)
  <2>1. UNCHANGED <<got, published>>
    BY <1>4 DEF Publisher, BeginInPlace, BeginWithWrap, StartMessage, PublishWrap, StoreWord,
                PublisherRestart, RemoveQueue, NewQueue, readerVars
  <2>2. QED
    BY <1>2, <2>1
<1>5. CASE Reader
  <2>1. published' = published
    BY <1>5 DEF Reader, TryNextRefresh, TryNext, LoadPointer, LoadTag, CopyWord, Recheck, writerVars
  <2>2. CASE UNCHANGED got
    BY <1>2, <2>1, <2>2
  <2>3. CASE Recheck /\ still_ours(wp, cursor.lap, cursor.off) /\ HandOut
    BY <2>3, HandOutDelivers DEF Feed!Next
  <2>4. Recheck \/ UNCHANGED got
    BY <1>5 DEF Reader, TryNextRefresh, TryNext, LoadPointer, Resync, ReturnEmpty, LoadTag,
                FollowWrap, StartCopy, CopyWord
  <2>5. QED
    BY <2>2, <2>3, <2>4 DEF Recheck, Resync
<1>6. CASE UNCHANGED vars
  BY <1>2, <1>6 DEF vars, writerVars, readerVars
<1>7. QED
  BY <1>3, <1>4, <1>5, <1>6 DEF Next

LEMMA FeedInit == Init => Feed!Init
  BY DEF Init, Feed!Init, NothingYet

\* The ring implements the feed, for every ring, every mix of message sizes and every
\* number of queue files: no torn or repeated message is ever handed out, and no gap
\* is silent.
THEOREM RingImplementsFeed == Spec => ImplementsFeed
<1>1. Init => IInv /\ Feed!Init
  BY InitIInv, FeedInit
<1>2. IInv /\ [Next]_vars => IInv' /\ [Feed!Next]_Feed!feedVars
  BY NextIInv, FeedStep
<1>3. QED
  BY <1>1, <1>2, PTL DEF Spec, ImplementsFeed, Feed!Spec
=============================================================================
