------------------------------- MODULE MCMedia --------------------------------
(***************************************************************************)
(* The parts that carry and watch a room's media, and those that record    *)
(* for the operator what happens, for TLC.  They share no state but the    *)
(* life of the room, so each behaviour is one of one part, chosen in its   *)
(* first state, and the others stand still.                                *)
(***************************************************************************)
EXTENDS Orchestrator, Transports, Layers, Routing, Recording, RoomRecording,
        Alerts, Metrics, Audit, TLC

VARIABLE part

apart == <<orchestratorVars, layersVars, alertsVars, auditVars>>
onRoom == <<transportsVars, routingVars, recordingVars, roomRecordingVars, metricsVars>>

MediaInit ==
  /\ part \in {"orchestrator", "layers", "alerts", "transports", "routing",
               "recording", "roomRecording", "metrics", "audit"}
  /\ OrchestratorInit /\ (part # "orchestrator" => \A r \in Regions : initialized[r])
  /\ TransportsInit /\ (part # "transports" => makesRouter)
  /\ LayersInit /\ AlertsInit /\ AuditInit
  /\ RoutingInit /\ RecordingInit /\ RoomRecordingInit /\ MetricsInit

MediaNext ==
  /\ UNCHANGED part
  /\ \/ /\ part = "orchestrator" /\ OrchestratorNext
        /\ UNCHANGED <<layersVars, alertsVars, auditVars, onRoom, roomVars>>
     \/ /\ part = "layers" /\ LayersNext
        /\ UNCHANGED <<orchestratorVars, alertsVars, auditVars, onRoom, roomVars>>
     \/ /\ part = "alerts" /\ AlertsNext
        /\ UNCHANGED <<orchestratorVars, layersVars, auditVars, onRoom, roomVars>>
     \/ /\ part = "audit" /\ AuditNext
        /\ UNCHANGED <<orchestratorVars, layersVars, alertsVars, onRoom, roomVars>>
     \/ /\ part = "transports" /\ TransportsNext
        /\ UNCHANGED <<apart, routingVars, recordingVars, roomRecordingVars, metricsVars>>
     \/ /\ part = "routing" /\ RoutingNext
        /\ UNCHANGED <<apart, transportsVars, recordingVars, roomRecordingVars, metricsVars>>
     \/ /\ part = "recording" /\ RecordingNext
        /\ UNCHANGED <<apart, transportsVars, routingVars, roomRecordingVars, metricsVars>>
     \/ /\ part = "roomRecording" /\ RoomRecordingNext
        /\ UNCHANGED <<apart, transportsVars, routingVars, recordingVars, metricsVars>>
     \/ /\ part = "metrics" /\ MetricsNext
        /\ UNCHANGED <<apart, transportsVars, routingVars, recordingVars, roomRecordingVars>>

MediaSpec == MediaInit /\ [][MediaNext]_<<part, apart, onRoom, roomVars>>

-----------------------------------------------------------------------------
(* What each part's module claims, of the behaviours of that part.          *)

(* Rooms are where their members were told, on regions that are up, and the *)
(* loads compared are explained (OrchestratorHolds).                        *)
OrchestratorSafe == part = "orchestrator" => OrchestratorHolds

(* A layer lags behind its score only upwards, and no upgrade comes within  *)
(* the hold of another (LayersHold).                                        *)
LayersSafe == part = "layers" => LayersHold

(* The alerts tell what stands, but for suppressed breaches (AlertsHold).   *)
AlertsSafe == part = "alerts" => AlertsHold

(* Transports outlive their peer in three windows only, and an open router  *)
(* is under the room's id unless set-ups overlapped (TransportsHold).       *)
TransportsSafe == part = "transports" => TransportsHold

(* The router and the members agree on the room's region (RoutingHolds).    *)
RoutingSafe == part = "routing" => RoutingHolds

(* Recorders nobody can stop come from three overlaps only, and no session  *)
(* is listed twice; of the other recorder, a peer that left is being        *)
(* stopped, stopRoom passes by joiners, peers recorded for themselves and   *)
(* sets that were dropped, by no others, and stands still only at a         *)
(* recorder that had closed (RecordingsHold, RoomRecordingHolds).           *)
RecordingsSafe ==
  /\ part = "recording" => RecordingsHold
  /\ part = "roomRecording" => RoomRecordingHolds

(* The gauges never count too much, and a trace ends with its peer unless   *)
(* it is resumed after that; the rotation of the audit log loses no entry   *)
(* and keeps their order, but for streams ended before they were open       *)
(* (MetricsHold, AuditHolds).                                               *)
TelemetrySafe ==
  /\ part = "metrics" => MetricsHold
  /\ part = "audit" => AuditHolds

-----------------------------------------------------------------------------
MCSlos == <<"join", "heap">>

(* Peers are interchangeable, and so are sessions.                          *)
Symmetry == Permutations(Peers) \cup Permutations(Sessions)
=============================================================================
