---------------------------- MODULE MCSupervisor ----------------------------
(***************************************************************************)
(* Supervisor for TLC: four pids hold a start.sh, the supervisor an install *)
(* left alive, its successor and the process, or one of openpilot's.        *)
(***************************************************************************)
EXTENDS Supervisor
=============================================================================
