----------------------- MODULE MCDeferredMaintenance -----------------------
(***************************************************************************)
(* DeferredMaintenance by itself, for TLC.                                  *)
(***************************************************************************)
EXTENDS DeferredMaintenance
=============================================================================
