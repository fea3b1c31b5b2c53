------------------------------- MODULE MCDaemon -------------------------------
(***************************************************************************)
(* commaviewd for TLC: of bridge mode the client's socket and threads, the  *)
(* runtime config, the port's slot and telemetry; of control mode the HTTP  *)
(* server and the drive watcher with the location setting.  They are        *)
(* checked side by side: a behaviour is one of one of them, and the others  *)
(* rest in their initial states.                                            *)
(***************************************************************************)
EXTENDS ClientWire, RuntimeConfig, PortSlot, Telemetry, Location, ControlServer

BothSenders == {"video", "telemetry"}

VARIABLE part

DaemonInit ==
  /\ Init /\ ConfigInit /\ SlotInit /\ TelemetryInit /\ LocationInit /\ ServerInit
  /\ part \in {"wire", "config", "slot", "telemetry", "location", "server"}

bridgePartVars  == <<vars, configVars, slotVars, telemetryVars>>
controlPartVars == <<locationVars, serverVars>>

DaemonNext ==
  /\ UNCHANGED part
  /\ \/ part = "wire" /\ Next /\ UNCHANGED <<configVars, slotVars, telemetryVars, controlPartVars>>
     \/ part = "config" /\ ConfigNext /\ UNCHANGED <<vars, slotVars, telemetryVars, controlPartVars>>
     \/ part = "slot" /\ SlotNext /\ UNCHANGED <<vars, configVars, telemetryVars, controlPartVars>>
     \/ part = "telemetry" /\ TelemetryNext /\ UNCHANGED <<vars, configVars, slotVars, controlPartVars>>
     \/ part = "location" /\ LocationNext /\ UNCHANGED <<bridgePartVars, serverVars>>
     \/ part = "server" /\ ServerNext /\ UNCHANGED <<bridgePartVars, locationVars>>

daemonVars == <<bridgePartVars, controlPartVars, part>>

\* Threads are scheduled and deadlines expire.  In "config" a telemetry client stays; in
\* "slot" a client that wants a session retries; in "telemetry" each service has its turn
\* in every pass, whatever the sends of the others take.
BridgeFairness ==
  /\ WF_vars(part = "wire" /\ Handler)
  /\ \A t \in Threads : WF_vars(part = "wire" /\ Sender(t))
  /\ WF_configVars(part = "config" /\ ConfigReload)
  /\ WF_configVars(part = "config" /\ ConfigLoop)
  /\ WF_slotVars(part = "slot" /\ (CheckRunning \/ \E c \in Connections : Accept(c)))
  /\ \A c \in Connections : WF_slotVars(part = "slot" /\ VideoHandler(c))
                            /\ WF_slotVars(part = "slot" /\ Connect(c))
  /\ \A s \in Services : SF_telemetryVars(part = "telemetry" /\ FetchLatest(s))
  /\ WF_telemetryVars(part = "telemetry" /\ (SendUpdate \/ LoopLeaves))
  /\ WF_telemetryVars(part = "telemetry" /\ TelemetryHandler)

\* The watcher ticks, the times it waits for pass, and programs the API waits for end.
ControlFairness ==
  /\ WF_locationVars(part = "location" /\ Tick)
  /\ WF_locationVars(part = "location" /\ DelayPasses)
  /\ WF_locationVars(part = "location" /\ RunGetsOld)
  /\ WF_serverVars(part = "server" /\ ServerThread)
  /\ WF_serverVars(part = "server" /\ WatchersProgramEnds)
  /\ WF_serverVars(part = "server" /\ DeadlinePasses)
  /\ WF_serverVars(part = "server" /\ CommandRuns /\ (ChildPrints \/ ChildEnds))

DaemonTypeOK ==
  TypeOK /\ ConfigTypeOK /\ SlotTypeOK /\ TelemetryTypeOK /\ LocationTypeOK /\ ServerTypeOK

DaemonSpec == DaemonInit /\ [][DaemonNext]_daemonVars /\ BridgeFairness /\ ControlFairness
=============================================================================
