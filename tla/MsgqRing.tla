------------------------------ MODULE MsgqRing ------------------------------
(***************************************************************************)
(* One openpilot msgq queue in shared memory, written by openpilot's        *)
(* publisher and followed by commaviewd's QueueStreamReader, which owns no  *)
(* reader slot: nothing makes the publisher wait, so every step of the      *)
(* reader may find that the ring has moved on.                              *)
(*                                                                          *)
(* The ring is RingWords words of 8 bytes.  The publisher's stores and the  *)
(* reader's loads are one step per word; memcpy may copy in any order.      *)
(* Offsets and sizes are in words, so the padding of a message to 8 bytes   *)
(* is part of its size.  The two margins are compared in bytes, as in the   *)
(* code.  Laps are natural numbers: 2^32 laps of a queue take centuries.    *)
(***************************************************************************)
EXTENDS Integers, Sequences

CONSTANTS
  RingWords,   \* words in the data part of the queue file
  Files,       \* the queue files (inodes) that appear at the path
  NoFile,      \* no queue file at the path, or none mapped
  Sizes,       \* sizes of the messages published, in words
  MaxMessages, \* bound: messages the publishers start to write
  MaxSteps     \* kMaxStepsPerRead

\* msgq asserts that three messages fit the ring, tags included.
ASSUME RingAssumption ==
  /\ RingWords \in Nat /\ RingWords >= 6
  /\ Sizes \subseteq {n \in Nat : n >= 1 /\ 3 * (1 + n) <= RingWords}
  /\ NoFile \notin Files
  /\ MaxMessages \in Nat
  /\ MaxSteps \in Nat /\ MaxSteps >= 1

VARIABLES
  path,      \* the file at the queue's path, or NoFile
  used,      \* the files that have been at the path
  pointer,   \* per file: write_pointer, [lap, off]
  mem,       \* per file: the words of the data part
  log,       \* per file, history: what was published, wrap tags included
  published, \* history: messages published so far, over all files
  serial,    \* history: messages started so far, published or abandoned
  wpc,       \* the publisher: "idle", "wrapping" or "filling"
  wmsg,      \* the message it is writing, [serial, len]
  wtodo,     \* the words of it not yet stored; 0 is the size tag
  mapped,    \* the file the reader has mapped, or NoFile
  refresh_needed, cursor_valid, cursor, pending_discontinuity,
  rpc,       \* the reader: "idle", "load", "tag" or "copy"
  step,      \* turns of try_next's loop
  snap,      \* its copy of write_pointer
  size,      \* the size tag it read
  todo,      \* the words of the message not yet copied
  out,       \* the words it copied
  at,        \* history: the item of log[mapped] the cursor stands before
  got        \* history: the last message handed out

writerVars == <<path, used, pointer, mem, log, published, serial, wpc, wmsg, wtodo>>
readerVars == <<mapped, refresh_needed, cursor_valid, cursor, pending_discontinuity,
                rpc, step, snap, size, todo, out, at, got>>
vars == <<writerVars, readerVars>>

-----------------------------------------------------------------------------
(* The words of the ring. *)

\* Every word of a message says whose it is: the history that makes a torn copy
\* visible.  Word 0 is the size tag.
MessageWord(s, n, j) == [serial |-> s, len |-> n, word |-> j]
WrapTag == [serial |-> 0, len |-> 0, word |-> 0]
Blank   == [serial |-> 0, len |-> 0, word |-> 1]

Word == [serial : Nat, len : Nat, word : Nat]

\* What a word says when it is read as a size tag.  A payload word, met only where
\* the publisher has come round, may say anything: -1 (a wrap), a size, nonsense.
SizeTags(w) ==
  IF w.word # 0 THEN -1 .. RingWords
  ELSE IF w = WrapTag THEN {-1} ELSE {w.len}

Position == [lap : Nat, off : Nat]
Pos(l, o) == [lap |-> l, off |-> o]

\* A published message, or the wrap tag that ends a lap.
Item == [kind : {"msg", "wrap"}, lap : Nat, off : Nat, len : Nat,
         serial : Nat, seq : Nat]

\* Where the item after this one is, and its message's number.
EndPos(i) == IF i.kind = "msg" THEN Pos(i.lap, i.off + 1 + i.len) ELSE Pos(i.lap + 1, 0)
NextSeq(i) == IF i.kind = "msg" THEN i.seq + 1 ELSE i.seq

NoWords == [j \in 1 .. 0 |-> Blank]

\* The words of a published message.
Words(i) == [j \in 1 .. i.len |-> MessageWord(i.serial, i.len, j)]

-----------------------------------------------------------------------------
(* The publisher: msgq_msg_send, and the files it opens. *)

\* Room is always left for the next wrap tag.
Fits(n) == RingWords - pointer[path].off - (1 + n) - 1 > 0

Store(o, w) == mem' = [mem EXCEPT ![path][o] = w]

NoMessage == [serial |-> 0, len |-> 0]

DropMessage == wpc' = "idle" /\ wmsg' = NoMessage /\ wtodo' = {}

StartMessage(n) ==
  /\ wpc = "idle" /\ path # NoFile /\ serial < MaxMessages
  /\ serial' = serial + 1
  /\ wmsg' = [serial |-> serial + 1, len |-> n]
  /\ wtodo' = 0 .. n
  /\ UNCHANGED <<path, used, pointer, log, published>>

BeginInPlace(n) ==
  /\ StartMessage(n)
  /\ Fits(n)
  /\ wpc' = "filling"
  /\ UNCHANGED <<mem, readerVars>>

BeginWithWrap(n) ==
  /\ StartMessage(n)
  /\ ~ Fits(n)
  /\ Store(pointer[path].off, WrapTag)
  /\ wpc' = "wrapping"
  /\ UNCHANGED readerVars

NewItem(kind, m) ==
  [kind |-> kind, lap |-> pointer[path].lap, off |-> pointer[path].off,
   len |-> m.len, serial |-> m.serial, seq |-> published + 1]

\* The pointer goes to the next lap before anything is written there.
PublishWrap ==
  /\ wpc = "wrapping"
  /\ log' = [log EXCEPT ![path] = Append(@, NewItem("wrap", NoMessage))]
  /\ pointer' = [pointer EXCEPT ![path] = Pos(@.lap + 1, 0)]
  /\ wpc' = "filling"
  /\ UNCHANGED <<path, used, mem, published, serial, wmsg, wtodo, readerVars>>

\* The tag first, then the bytes in whatever order memcpy stores them.
StoreWord(j) ==
  /\ wpc = "filling" /\ j \in wtodo
  /\ 0 \in wtodo => j = 0
  /\ Store(pointer[path].off + j, MessageWord(wmsg.serial, wmsg.len, j))
  /\ wtodo' = wtodo \ {j}
  /\ UNCHANGED <<path, used, pointer, log, published, serial, wpc, wmsg, readerVars>>

\* Behind a full barrier.
PublishMessage ==
  /\ wpc = "filling" /\ wtodo = {}
  /\ log' = [log EXCEPT ![path] = Append(@, NewItem("msg", wmsg))]
  /\ pointer' = [pointer EXCEPT ![path] = Pos(@.lap, @.off + 1 + wmsg.len)]
  /\ published' = published + 1
  /\ DropMessage
  /\ UNCHANGED <<path, used, mem, serial, readerVars>>

\* The publisher dies in the middle of a message and another takes over the file:
\* the pointer stays where it was, the half-written words too.
PublisherRestart ==
  /\ wpc # "idle"
  /\ DropMessage
  /\ UNCHANGED <<path, used, pointer, mem, log, published, serial, readerVars>>

\* encoderd is stopped and the file goes, or a new file takes its place.
RemoveQueue ==
  /\ path # NoFile
  /\ path' = NoFile
  /\ DropMessage
  /\ UNCHANGED <<used, pointer, mem, log, published, serial, readerVars>>

NewQueue(f) ==
  /\ f \notin used
  /\ path' = f
  /\ used' = used \cup {f}
  /\ DropMessage
  /\ UNCHANGED <<pointer, mem, log, published, serial, readerVars>>

Publisher ==
  \/ \E n \in Sizes : BeginInPlace(n) \/ BeginWithWrap(n)
  \/ PublishWrap
  \/ \E j \in wtodo : StoreWord(j)
  \/ PublishMessage

-----------------------------------------------------------------------------
(* The reader: QueueStreamReader::try_next. *)

wp == pointer[mapped]

\* Mutant: no room kept for the message in flight.
still_ours_no_room(p, lap, off) ==
  \/ p.lap = lap
  \/ p.lap = lap + 1 /\ p.off <= off

\* Whether the bytes at (lap, off) can't have been written over yet.
still_ours(p, lap, off) ==
  \/ p.lap = lap
  \/ /\ p.lap = lap + 1
     /\ 8 * p.off + (8 * RingWords) \div 3 + 8 <= 8 * off

\* How far the writer is ahead, in words, within this lap or the next.
Behind(p, lap, off) ==
  IF p.lap = lap THEN p.off - off ELSE (RingWords - off) + p.off

\* Mutant: stale frames are handed out.
TooFarBehind_never(p) == FALSE

TooFarBehind(p) == 8 * Behind(p, cursor.lap, cursor.off) > (8 * RingWords) \div 4

\* What try_next leaves behind: its locals are gone.
Return ==
  /\ rpc' = "idle" /\ step' = 0
  /\ snap' = Pos(0, 0) /\ size' = 0 /\ todo' = {} /\ out' = NoWords

\* The position starts over at the write pointer; the next message is flagged.
\* A tag or a pointer that can't be right asks for a look at the file.
Resync(distrustFile) ==
  /\ cursor_valid' = FALSE
  /\ pending_discontinuity' = TRUE
  /\ refresh_needed' = (refresh_needed \/ distrustFile)
  /\ Return
  /\ UNCHANGED <<mapped, cursor, at, got>>

ReturnEmpty ==
  /\ Return
  /\ UNCHANGED <<mapped, refresh_needed, pending_discontinuity, got>>

\* Mutant: the gap a new file makes is not remembered.
ForgetCursor_silently ==
  /\ cursor_valid' = FALSE
  /\ UNCHANGED pending_discontinuity

\* A mapping that is lost or replaced makes the old position meaningless.
ForgetCursor ==
  /\ pending_discontinuity' = (pending_discontinuity \/ cursor_valid)
  /\ cursor_valid' = FALSE

\* Mutant: the call goes on without a mapping.
TryNextRefresh_unmapped ==
  /\ rpc = "idle"
  /\ refresh_needed' = FALSE
  /\ mapped' = path
  /\ rpc' = "load"
  /\ IF path = NoFile \/ path # mapped
       THEN ForgetCursor
       ELSE UNCHANGED <<pending_discontinuity, cursor_valid>>
  /\ UNCHANGED <<writerVars, cursor, step, snap, size, todo, out, at, got>>

\* Mutant: a queue file that was replaced is not noticed.
TryNextRefresh_same_inode ==
  /\ rpc = "idle"
  /\ refresh_needed' = FALSE
  /\ mapped' = IF mapped = NoFile THEN path ELSE mapped
  /\ rpc' = IF mapped' = NoFile THEN "idle" ELSE "load"
  /\ UNCHANGED <<writerVars, cursor, pending_discontinuity, cursor_valid,
                 step, snap, size, todo, out, at, got>>

\* The look at the file that starts a call: forced, or because a second has passed.
TryNextRefresh ==
  /\ rpc = "idle"
  /\ refresh_needed' = FALSE
  /\ mapped' = path
  /\ rpc' = IF path = NoFile THEN "idle" ELSE "load"
  /\ IF path = NoFile \/ path # mapped
       THEN ForgetCursor
       ELSE UNCHANGED <<pending_discontinuity, cursor_valid>>
  /\ UNCHANGED <<writerVars, cursor, step, snap, size, todo, out, at, got>>

TryNext ==
  /\ rpc = "idle"
  /\ ~ refresh_needed /\ mapped # NoFile
  /\ rpc' = "load"
  /\ UNCHANGED <<writerVars, mapped, refresh_needed, cursor_valid, cursor,
                 pending_discontinuity, step, snap, size, todo, out, at, got>>

\* The pointer can't be the position's: behind it (reset), or laps ahead.
Unreachable(p) ==
  \/ p.lap = cursor.lap /\ p.off < cursor.off
  \/ p.lap \notin {cursor.lap, cursor.lap + 1}

LoadPointer ==
  /\ rpc = "load"
  /\ IF wp.off + 1 > RingWords
       THEN Resync(TRUE)
     ELSE IF ~ cursor_valid
       THEN /\ cursor' = wp /\ cursor_valid' = TRUE
            /\ at' = Len(log[mapped]) + 1
            /\ ReturnEmpty
     ELSE IF wp = cursor
       THEN /\ ReturnEmpty
            /\ UNCHANGED <<cursor, cursor_valid, at>>
     ELSE IF Unreachable(wp)
       THEN Resync(wp.lap <= cursor.lap)
     ELSE IF ~ still_ours(wp, cursor.lap, cursor.off) \/ TooFarBehind(wp)
       THEN Resync(FALSE)
     ELSE IF cursor.off + 1 > RingWords
       THEN Resync(TRUE)
     ELSE /\ snap' = wp
          /\ rpc' = "tag"
          /\ UNCHANGED <<mapped, refresh_needed, cursor_valid, cursor,
                         pending_discontinuity, step, size, todo, out, at, got>>
  /\ UNCHANGED writerVars

\* A wrap tag moves the position to the next lap and the loop goes round again.
FollowWrap ==
  /\ cursor' = Pos(cursor.lap + 1, 0)
  /\ at' = at + 1
  /\ IF step + 1 < MaxSteps
       THEN /\ rpc' = "load" /\ step' = step + 1
            /\ UNCHANGED <<snap, size, todo, out>>
       ELSE Return
  /\ UNCHANGED <<mapped, refresh_needed, cursor_valid, pending_discontinuity, got>>

BadSize(n) ==
  \/ n <= 0
  \/ n > RingWords - cursor.off - 1
  \/ snap.lap = cursor.lap /\ cursor.off + 1 + n > snap.off

StartCopy(n) ==
  /\ size' = n
  /\ todo' = 1 .. n
  /\ out' = [j \in 1 .. n |-> Blank]
  /\ rpc' = "copy"
  /\ UNCHANGED <<mapped, refresh_needed, cursor_valid, cursor, pending_discontinuity,
                 step, snap, at, got>>

LoadTag(n) ==
  /\ rpc = "tag"
  /\ n \in SizeTags(mem[mapped][cursor.off])
  /\ IF n = -1 /\ snap.lap # cursor.lap THEN FollowWrap
     ELSE IF BadSize(n) THEN Resync(TRUE)
     ELSE StartCopy(n)
  /\ UNCHANGED writerVars

CopyWord(j) ==
  /\ rpc = "copy" /\ j \in todo
  /\ out' = [out EXCEPT ![j] = mem[mapped][cursor.off + j]]
  /\ todo' = todo \ {j}
  /\ UNCHANGED <<writerVars, mapped, refresh_needed, cursor_valid, cursor,
                 pending_discontinuity, rpc, step, snap, size, at, got>>

HandOut ==
  /\ cursor' = Pos(cursor.lap, cursor.off + 1 + size)
  /\ at' = at + 1
  /\ got' = [file |-> mapped, item |-> at, words |-> out,
             seq |-> IF at \in DOMAIN log[mapped] THEN log[mapped][at].seq ELSE 0,
             gap |-> pending_discontinuity]
  /\ pending_discontinuity' = FALSE
  /\ Return
  /\ UNCHANGED <<mapped, refresh_needed, cursor_valid>>

\* The copy counts only if the writer can't have reached it meanwhile.
Recheck ==
  /\ rpc = "copy" /\ todo = {}
  /\ IF still_ours(wp, cursor.lap, cursor.off) THEN HandOut ELSE Resync(FALSE)
  /\ UNCHANGED writerVars

Reader ==
  \/ TryNextRefresh
  \/ TryNext
  \/ LoadPointer
  \/ \E n \in -1 .. RingWords : LoadTag(n)
  \/ \E j \in todo : CopyWord(j)
  \/ Recheck

-----------------------------------------------------------------------------
NothingYet == [file |-> NoFile, item |-> 0, words |-> NoWords, seq |-> 0, gap |-> FALSE]

Init ==
  /\ path = NoFile /\ used = {}
  /\ pointer = [f \in Files |-> Pos(0, 0)]
  /\ mem = [f \in Files |-> [o \in 0 .. RingWords - 1 |-> Blank]]
  /\ log = [f \in Files |-> <<>>]
  /\ published = 0 /\ serial = 0
  /\ wpc = "idle" /\ wmsg = NoMessage /\ wtodo = {}
  /\ mapped = NoFile /\ refresh_needed = TRUE
  /\ cursor_valid = FALSE /\ cursor = Pos(0, 0) /\ pending_discontinuity = FALSE
  /\ rpc = "idle" /\ step = 0 /\ snap = Pos(0, 0) /\ size = 0
  /\ todo = {} /\ out = NoWords /\ at = 0 /\ got = NothingYet

Next ==
  \/ Publisher
  \/ PublisherRestart
  \/ RemoveQueue
  \/ \E f \in Files : NewQueue(f)
  \/ Reader

Spec == Init /\ [][Next]_vars

\* The reader polls for as long as its client is connected, every call runs to its
\* end, and the call that finds the last look at the file a second old looks again.
Fairness == WF_vars(Reader) /\ SF_vars(TryNextRefresh)

FairSpec == Spec /\ Fairness

-----------------------------------------------------------------------------
(* Properties. *)

WriterTypeOK ==
  /\ path \in Files \cup {NoFile} /\ used \subseteq Files
  /\ pointer \in [Files -> Position]
  /\ mem \in [Files -> [0 .. RingWords - 1 -> Word]]
  /\ log \in [Files -> Seq(Item)]
  /\ published \in Nat /\ serial \in Nat
  /\ wpc \in {"idle", "wrapping", "filling"}
  /\ wpc # "idle" => path \in Files
  /\ wmsg \in [serial : Nat, len : Nat] /\ wtodo \subseteq 0 .. wmsg.len

ReaderTypeOK ==
  /\ mapped \in Files \cup {NoFile}
  /\ refresh_needed \in BOOLEAN /\ cursor_valid \in BOOLEAN
  /\ pending_discontinuity \in BOOLEAN
  /\ cursor \in Position /\ at \in Nat
  /\ rpc \in {"idle", "load", "tag", "copy"}
  /\ rpc # "idle" => mapped # NoFile
  /\ step \in 0 .. MaxSteps /\ snap \in Position
  /\ size \in 0 .. RingWords /\ todo \subseteq 1 .. size
  /\ out \in [1 .. size -> Word]
  /\ rpc = "copy" => cursor.off + size < RingWords

GotTypeOK ==
  \E n \in 0 .. RingWords :
    got \in [file : Files \cup {NoFile}, item : Nat, words : [1 .. n -> Word],
             seq : Nat, gap : BOOLEAN]

TypeOK == WriterTypeOK /\ ReaderTypeOK /\ GotTypeOK

\* The file holds item i untouched.
Holds(f, i) ==
  IF i.kind = "wrap" THEN mem[f][i.off] = WrapTag
  ELSE \A j \in 0 .. i.len : mem[f][i.off + j] = MessageWord(i.serial, i.len, j)

\* Whatever still_ours (msgq_ring_reader.cpp:140) accepts is untouched, wherever the
\* publisher is inside a message or a wrap, and after messages it abandoned: the
\* third of the ring kept free is enough.
StillOursIsIntact ==
  \A f \in Files : \A k \in DOMAIN log[f] :
    still_ours(pointer[f], log[f][k].lap, log[f][k].off) => Holds(f, log[f][k])

WholeMessage ==
  /\ got.item \in DOMAIN log[got.file]
  /\ log[got.file][got.item].kind = "msg"
  /\ got.words = Words(log[got.file][got.item])

\* The ring implements the feed: every message handed out is one that was
\* published, byte for byte; never an older one again; and one that does not follow
\* its predecessor carries the discontinuity flag, whatever was overwritten,
\* abandoned, removed or replaced in between.
Feed == INSTANCE FrameFeed WITH
  published <- published,
  delivered <- [seq |-> got.seq, gap |-> got.gap,
                body |-> IF got.file = NoFile THEN "none"
                         ELSE IF WholeMessage THEN "whole" ELSE "torn"]

ImplementsFeed == Feed!Spec

\* A reader that keeps polling comes to stand at the write pointer of the file that
\* is at the path, once the publisher has gone quiet: no wrap tag, abandoned message,
\* resync or replaced file leaves it stuck.
CatchesUp ==
  <>[](path # NoFile =>
        /\ mapped = path
        /\ cursor_valid
        /\ cursor = wp)
=============================================================================
