------------------------------- MODULE PortSlot -------------------------------
(***************************************************************************)
(* A camera port of the bridge: its accept loop, and the handlers of the    *)
(* connections it accepts, one detached thread each, that take and give     *)
(* back the port's only slot with an atomic counter.  What a session does   *)
(* while it holds the slot is ClientWire.                                   *)
(***************************************************************************)
EXTENDS Integers, FiniteSets

CONSTANT Connections  \* those open at a time; a name is used again for a later one

ASSUME SlotAssumption == IsFiniteSet(Connections)

VARIABLES
  serving,  \* g_running
  listener, \* accept_loop: "check", "accept" or "ended"
  wanted,   \* per connection: the client keeps it open, and retries when rejected
  visit,    \* per connection: "away", "queued", "arrived", "rejected", "inside", "leaving"
  active    \* active_counter_for_port

slotVars == <<serving, listener, wanted, visit, active>>

Becomes(c, where) == visit' = [visit EXCEPT ![c] = where]

-----------------------------------------------------------------------------
(* The clients. *)

ClientArrives(c) ==
  /\ visit[c] = "away" /\ ~ wanted[c]
  /\ wanted' = [wanted EXCEPT ![c] = TRUE]
  /\ UNCHANGED <<serving, listener, visit, active>>

\* The handshake is the kernel's: it needs no accept.
Connect(c) ==
  /\ visit[c] = "away" /\ wanted[c]
  /\ Becomes(c, "queued")
  /\ UNCHANGED <<serving, listener, wanted, active>>

\* Nobody notices before the handler looks.
HangUp(c) ==
  /\ wanted[c]
  /\ wanted' = [wanted EXCEPT ![c] = FALSE]
  /\ UNCHANGED <<serving, listener, visit, active>>

-----------------------------------------------------------------------------
(* The accept loop. *)

CheckRunning ==
  /\ listener = "check"
  /\ listener' = IF serving THEN "accept" ELSE "ended"
  /\ UNCHANGED <<serving, wanted, visit, active>>

\* SIGTERM restarts accept: it returns for a client, also after the stop.
Accept(c) ==
  /\ listener = "accept" /\ visit[c] = "queued"
  /\ Becomes(c, "arrived")
  /\ listener' = "check"
  /\ UNCHANGED <<serving, wanted, active>>

StopServing ==
  /\ serving
  /\ serving' = FALSE
  /\ UNCHANGED <<listener, wanted, visit, active>>

-----------------------------------------------------------------------------
(* handle_video_client, around the session. *)

FetchAdd(c) ==
  /\ visit[c] = "arrived"
  /\ active' = active + 1
  /\ Becomes(c, IF active > 0 THEN "rejected" ELSE "inside")
  /\ UNCHANGED <<serving, listener, wanted>>

\* Mutant: the rejected connection resets the counter.
Reject_resets(c) ==
  /\ visit[c] = "rejected"
  /\ active' = 0
  /\ Becomes(c, "away")
  /\ UNCHANGED <<serving, listener, wanted>>

\* The other one may have left since: it is rejected all the same.
Reject(c) ==
  /\ visit[c] = "rejected"
  /\ active' = active - 1
  /\ Becomes(c, "away")
  /\ UNCHANGED <<serving, listener, wanted>>

\* The client is gone, or the bridge stops.  The threads of the session are joined next.
LeaveSession(c) ==
  /\ visit[c] = "inside"
  /\ ~ serving \/ ~ wanted[c]
  /\ Becomes(c, "leaving")
  /\ UNCHANGED <<serving, listener, wanted, active>>

\* Mutant: a session ends and its count stays.
GiveBack_keeps(c) ==
  /\ visit[c] = "leaving"
  /\ Becomes(c, "away")
  /\ UNCHANGED <<serving, listener, wanted, active>>

GiveBack(c) ==
  /\ visit[c] = "leaving"
  /\ active' = active - 1
  /\ Becomes(c, "away")
  /\ UNCHANGED <<serving, listener, wanted>>

VideoHandler(c) == FetchAdd(c) \/ Reject(c) \/ LeaveSession(c) \/ GiveBack(c)

-----------------------------------------------------------------------------
SlotInit ==
  /\ serving = TRUE /\ listener = "check"
  /\ wanted = [c \in Connections |-> FALSE]
  /\ visit = [c \in Connections |-> "away"]
  /\ active = 0

SlotNext ==
  \/ \E c \in Connections : ClientArrives(c) \/ Connect(c) \/ HangUp(c)
  \/ CheckRunning
  \/ \E c \in Connections : Accept(c)
  \/ StopServing
  \/ \E c \in Connections : VideoHandler(c)

SlotSpec == SlotInit /\ [][SlotNext]_slotVars

-----------------------------------------------------------------------------
(* Properties. *)

Holding  == {c \in Connections : visit[c] \in {"rejected", "inside", "leaving"}}
Sessions == {c \in Connections : visit[c] \in {"inside", "leaving"}}

SlotTypeOK ==
  /\ serving \in BOOLEAN /\ listener \in {"check", "accept", "ended"}
  /\ wanted \in [Connections -> BOOLEAN]
  /\ visit \in [Connections -> {"away", "queued", "arrived", "rejected", "inside", "leaving"}]
  /\ active \in Nat

\* However many clients come, are turned away and leave at once, a port never serves two.
OneSession == \A c, d \in Sessions : c = d

\* A third client may be turned away on account of the second, turned away itself; but
\* once all others have hung up, one that keeps trying gets its session: no count of a
\* rejected or dead connection stays behind.
SlotComesBack ==
  \A c \in Connections :
    <>[](serving /\ wanted[c] /\ \A d \in Connections \ {c} : ~ wanted[d])
      => <>[](visit[c] = "inside")
=============================================================================
