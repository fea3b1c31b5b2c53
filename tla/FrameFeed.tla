----------------------------- MODULE FrameFeed -----------------------------
(***************************************************************************)
(* What a reader of an openpilot queue is promised, with no ring, no        *)
(* shared memory and no pointer: messages are published one after another,  *)
(* the reader is handed some of them, whole and in order, and whenever it   *)
(* is handed a message that is not the successor of the one before, it is   *)
(* told so.  A video consumer relies on the flag to wait for a keyframe.    *)
(***************************************************************************)
EXTENDS Integers

VARIABLES
  published,  \* how many messages have been published; message k is the k-th
  delivered   \* the last message handed out: its number, the flag, its bytes

feedVars == <<published, delivered>>

Delivery == [seq : Nat, gap : BOOLEAN, body : {"none", "whole", "torn"}]

Init ==
  /\ published = 0
  /\ delivered = [seq |-> 0, gap |-> FALSE, body |-> "none"]

Publish ==
  /\ published' = published + 1
  /\ UNCHANGED delivered

\* The first message handed out has no predecessor to be compared with.
Deliver ==
  /\ \E k \in delivered.seq + 1 .. published, gap \in BOOLEAN :
        /\ delivered.seq # 0 /\ k # delivered.seq + 1 => gap
        /\ delivered' = [seq |-> k, gap |-> gap, body |-> "whole"]
  /\ UNCHANGED published

Next == Publish \/ Deliver

Spec == Init /\ [][Next]_feedVars
=============================================================================
