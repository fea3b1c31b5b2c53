---------------------------- MODULE MCMaintenance ----------------------------
(***************************************************************************)
(* For TLC: the deferred maintenance queue, the road phase it waits for     *)
(* with the queue peek underneath, and what else control mode keeps for the *)
(* app and hands out between drives: pairing codes, recordings and the      *)
(* leaderboard's private files.  They are checked side by side: a behaviour *)
(* is one of one of them, and the others rest in their initial states.      *)
(***************************************************************************)
EXTENDS DeferredMaintenance, QueuePeek, RoadPhase, Pairing, RecordingArchive, Leaderboard

VARIABLE part

MaintenanceInit ==
  /\ Init /\ PeekInit /\ RoadPhaseInit /\ PairingInit /\ ArchiveInit /\ LeaderboardInit
  /\ part \in {"deferred", "peek", "road", "pairing", "archive", "leaderboard"}

MaintenanceNext ==
  /\ UNCHANGED part
  /\ \/ part = "deferred" /\ Next
        /\ UNCHANGED <<peekVars, roadPhaseVars, pairingVars, archiveVars, boardVars>>
     \/ part # "deferred" /\ UNCHANGED vars
        /\ \/ part = "peek" /\ PeekNext
              /\ UNCHANGED <<roadPhaseVars, pairingVars, archiveVars, boardVars>>
           \/ part = "road" /\ RoadPhaseNext
              /\ UNCHANGED <<peekVars, pairingVars, archiveVars, boardVars>>
           \/ part = "pairing" /\ PairingNext
              /\ UNCHANGED <<peekVars, roadPhaseVars, archiveVars, boardVars>>
           \/ part = "archive" /\ ArchiveNext
              /\ UNCHANGED <<peekVars, roadPhaseVars, pairingVars, boardVars>>
           \/ part = "leaderboard" /\ LeaderboardNext
              /\ UNCHANGED <<peekVars, roadPhaseVars, pairingVars, archiveVars>>

maintenanceVars ==
  <<vars, peekVars, roadPhaseVars, pairingVars, archiveVars, boardVars, part>>

\* The processes of the maintenance queue are scheduled; the other parts need no fairness.
\* Where Boot can be taken, no command is under way.
MaintenanceFairness ==
  /\ WF_vars(part = "deferred" /\ (Boot \/ CommandStep))
  /\ \A w \in Waiters : WF_vars(part = "deferred" /\ Waiter(w))

MaintenanceTypeOK ==
  /\ TypeOK /\ PeekTypeOK /\ RoadPhaseTypeOK
  /\ PairingTypeOK /\ ArchiveTypeOK /\ LeaderboardTypeOK

MaintenanceSpec ==
  MaintenanceInit /\ [][MaintenanceNext]_maintenanceVars /\ MaintenanceFairness
=============================================================================
