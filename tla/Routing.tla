------------------------------- MODULE Routing -------------------------------
(***************************************************************************)
(* sfu/RegionRouter.js: the region looked up for each connection, and the  *)
(* region of one room, which its first member gives it and its metadata    *)
(* repeat.  Lookups by load or latency are awaited; in the other modes the *)
(* region is known at once.                                                *)
(***************************************************************************)
EXTENDS RoomLife

CONSTANTS
  Places,     \* options.regions
  Local,      \* options.localRegion
  UNSET       \* no entry

ASSUME PlacesAssumption == UNSET \notin Places \cup {Local}

VARIABLES
  lookup,     \* of each connection
  peerRegion, roomRegion,   \* _peerRegions, _roomRegions
  meta,       \* __region in the metadata of the Room object
  late,       \* history: peers whose lookup ended after they had gone
  early       \* history: the region was assigned when there was no room

routingVars == <<lookup, peerRegion, roomRegion, meta, late, early>>

Region == Places \cup {Local, UNSET}

RoutingTypeOK ==
  /\ RoomTypeOK
  /\ lookup \in [Peers -> {"none", "waits", "done"}]
  /\ peerRegion \in [Peers -> Region]
  /\ roomRegion \in Region /\ meta \in Region
  /\ late \subseteq Peers /\ early \in BOOLEAN

RoutingInit ==
  /\ RoomInit
  /\ lookup = [p \in Peers |-> "none"]
  /\ peerRegion = [p \in Peers |-> UNSET]
  /\ roomRegion = UNSET /\ meta = UNSET
  /\ late = {} /\ early = FALSE

-----------------------------------------------------------------------------
(* peer:connected *)
Look(p) ==
  /\ lookup[p] = "none"
  /\ lookup' = [lookup EXCEPT ![p] = "waits"]
  /\ UNCHANGED <<peerRegion, roomRegion, meta, late, early, roomVars>>

(* _leastLoadedRegion and _lowestLatencyRegion: loads and latencies are     *)
(* whatever they are; a region that fails to answer is passed by.           *)
Selectable == Places \cup {Local}

(* _routePeer goes on, also for a peer that has left: its entry is for good *)
Found(p) ==
  /\ lookup[p] = "waits"
  /\ lookup' = [lookup EXCEPT ![p] = "done"]
  /\ \E r \in Selectable : peerRegion' = [peerRegion EXCEPT ![p] = r]
  /\ late' = IF status[p] = "left" THEN late \cup {p} ELSE late
  /\ UNCHANGED <<roomRegion, meta, early, roomVars>>

RoutingMake ==
  /\ Make
  /\ UNCHANGED routingVars

(* _routeRoom at peer:joined: the first member's region, as far as it is    *)
(* known, unless the room has one.                                          *)
RoutingEnter(p) ==
  /\ lookup[p] # "none"
  /\ Enter(p)
  /\ IF roomRegion # UNSET
       THEN UNCHANGED <<roomRegion, meta>>
       ELSE /\ roomRegion' = IF peerRegion[p] = UNSET THEN Local ELSE peerRegion[p]
            /\ meta' = roomRegion'
  /\ UNCHANGED <<lookup, peerRegion, late, early>>

ExitKeepsRoom(p) ==
  /\ Exit(p)
  /\ peerRegion' = [peerRegion EXCEPT ![p] = UNSET]
  /\ meta' = IF Remaining(p) = {} THEN UNSET ELSE meta
  /\ UNCHANGED <<lookup, roomRegion, late, early>>

(* peer:left, and room:destroyed with the last *)
RoutingExit(p) ==
  /\ Exit(p)
  /\ peerRegion' = [peerRegion EXCEPT ![p] = UNSET]
  /\ IF Remaining(p) = {}
       THEN roomRegion' = UNSET /\ meta' = UNSET /\ early' = FALSE
       ELSE UNCHANGED <<roomRegion, meta, early>>
  /\ UNCHANGED <<lookup, late>>

(* assignRoomRegion; the members see it if the room exists. *)
AssignRoom ==
  /\ \E r \in Places :
       /\ roomRegion' = r
       /\ meta' = IF alive THEN r ELSE meta
  /\ early' = ~alive
  /\ UNCHANGED <<lookup, peerRegion, late, roomVars>>

RoutingNext ==
  \/ \E p \in Peers : Look(p) \/ Found(p) \/ RoutingEnter(p) \/ RoutingExit(p)
  \/ RoutingMake \/ AssignRoom

RoutingSpec == RoutingInit /\ [][RoutingNext]_<<routingVars, roomVars>>

-----------------------------------------------------------------------------
(* The router and the room's members know the same region as soon as there  *)
(* is a member, unless it was assigned before the room was created, and of  *)
(* those who left only late lookups leave an entry (_routeRoom, _routePeer, *)
(* assignRoomRegion).                                                       *)
RoutesExplained ==
  /\ alive /\ ~early => meta = roomRegion
  /\ \A p \in Peers : status[p] = "left" /\ peerRegion[p] # UNSET => p \in late

RoutingHolds == RoutingTypeOK /\ RoutesExplained
=============================================================================
