----------------------------- MODULE MCUiExport -----------------------------
(***************************************************************************)
(* UiExport for TLC: two drives where a finished route and the next one are  *)
(* to meet, one where the threads are, and short queues, so that they overflow. *)
(***************************************************************************)
EXTENDS UiExport
=============================================================================
