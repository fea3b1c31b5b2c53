---------------------------- MODULE MCMsgqRing ----------------------------
(***************************************************************************)
(* MsgqRing on a ring of 12 words: messages of 2 and 4 words with their    *)
(* tags, a quarter of the ring is 3 words and the margin for a message in   *)
(* flight 5.                                                                *)
(***************************************************************************)
EXTENDS MsgqRing
=============================================================================
