------------------------------ MODULE MCLocation ------------------------------
(***************************************************************************)
(* Location with one drive, by itself.                                      *)
(***************************************************************************)
EXTENDS Location
=============================================================================
