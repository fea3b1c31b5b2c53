--------------------------- MODULE MCVideoSession ---------------------------
(* VideoSession for TLC: the bounds are those of the .cfg files. *)
EXTENDS VideoSession
=============================================================================
