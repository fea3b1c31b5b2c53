---------------------------- MODULE MCClientWire ----------------------------
(* ClientWire for TLC: the road and the wide port, with both senders. *)
EXTENDS ClientWire

BothSenders == {"video", "telemetry"}
=============================================================================
