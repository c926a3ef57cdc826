---------------------------- MODULE Orchestrator -----------------------------
(***************************************************************************)
(* sfu/SFUOrchestrator.js: the rooms of a server, the SFU of each region,  *)
(* its health by periodic checks, and the assignment of rooms to regions.  *)
(*                                                                         *)
(* The checks of two rounds may overlap, so the result of any check may    *)
(* come at any time; what follows it, a failover of all rooms included,    *)
(* happens in one callback.                                                *)
(***************************************************************************)
EXTENDS Naturals, FiniteSets

CONSTANTS
  Rooms, Regions,
  Default,      \* options.defaultRegion, registered or not
  NOWHERE,      \* no region: the room is served peer to peer
  DegradedAt, DownAt, RecoverAt,   \* the three thresholds of the checks
  MaxLoad       \* bound: with a greater count no check fails, and no room comes or moves

ASSUME RegionAssumption == NOWHERE \notin Regions /\ IsFiniteSet(Rooms)
ASSUME ThresholdAssumption ==
  {DegradedAt, DownAt, RecoverAt, MaxLoad} \subseteq Nat \ {0} /\ DegradedAt < DownAt

VARIABLES
  live,         \* rooms of the server
  health, failed, passed, initialized, load,   \* the entry of each region
  assigned,     \* _roomAssignments
  told,         \* what the members of a room were last told
  uncounted     \* history: rooms a region lost without a decrement of load

checks == <<failed, passed, initialized>>
orchestratorVars == <<live, health, checks, load, assigned, told, uncounted>>

OrchestratorTypeOK ==
  /\ live \subseteq Rooms
  /\ health \in [Regions -> {"healthy", "degraded", "down"}]
  /\ failed \in [Regions -> 0..DownAt]
  /\ passed \in [Regions -> 0..RecoverAt]
  /\ initialized \in [Regions -> BOOLEAN]
  /\ {load, uncounted} \subseteq [Regions -> Nat]
  /\ {assigned, told} \subseteq [Rooms -> Regions \cup {NOWHERE}]

(* init has settled: an adapter that failed is down; one that is registered *)
(* later counts as healthy and is never initialized.                        *)
OrchestratorInit ==
  /\ live = {}
  /\ initialized \in [Regions -> BOOLEAN]
  /\ health \in [Regions -> {"healthy", "down"}]
  /\ \A r \in Regions : initialized[r] => health[r] = "healthy"
  /\ failed = [r \in Regions |-> 0] /\ passed = failed
  /\ load = failed /\ uncounted = failed
  /\ assigned = [m \in Rooms |-> NOWHERE] /\ told = assigned

-----------------------------------------------------------------------------
(* _assignSFU. Of several least loaded regions it takes the one registered  *)
(* first, which may be any.                                                 *)
Usable(state) == {r \in Regions : initialized[r] /\ state[r] # "down"}

Destinations(preferred) ==
  LET usable == Usable(health) IN
  IF preferred \in usable THEN {preferred}
    ELSE IF usable = {} THEN {NOWHERE}
    ELSE {r \in usable : \A q \in usable : load[r] <= load[q]}

On(r) == {m \in Rooms : assigned[m] = r}
WithinBound == \A r \in Regions : load[r] < MaxLoad

(* A room that migrateRoom assigned before it was created is assigned again,*)
(* and one that no region takes keeps the entry it has.                     *)
Assign(m, r) ==
  IF r = NOWHERE THEN UNCHANGED <<assigned, load, uncounted>>
    ELSE /\ assigned' = [assigned EXCEPT ![m] = r]
         /\ load' = [load EXCEPT ![r] = @ + 1]
         /\ uncounted' = [q \in Regions |-> uncounted[q] + IF assigned[m] = q THEN 1 ELSE 0]

(* room:created; the metadata may name a region. *)
CreateRoom(m) ==
  /\ m \notin live /\ WithinBound
  /\ live' = live \cup {m}
  /\ UNCHANGED <<health, checks>>
  /\ \E preferred \in Regions \cup {Default} : \E r \in Destinations(preferred) : Assign(m, r)
  /\ told' = [told EXCEPT ![m] = NOWHERE]

Decrement(count, r) ==
  IF r = NOWHERE THEN count
    ELSE [count EXCEPT ![r] = IF @ = 0 THEN 0 ELSE @ - 1]

(* room:destroyed *)
DestroyRoom(m) ==
  /\ m \in live
  /\ live' = live \ {m}
  /\ load' = Decrement(load, assigned[m])
  /\ assigned' = [assigned EXCEPT ![m] = NOWHERE]
  /\ told' = [told EXCEPT ![m] = NOWHERE]
  /\ UNCHANGED <<health, checks, uncounted>>

MigrateKeepsCount(m, target) ==
  /\ health[target] # "down"
  /\ load' = [load EXCEPT ![target] = @ + 1]
  /\ assigned' = [assigned EXCEPT ![m] = target]
  /\ told' = IF m \in live THEN [told EXCEPT ![m] = target] ELSE told
  /\ UNCHANGED <<live, health, checks, uncounted>>

(* migrateRoom: it asks neither whether the room exists nor whether the     *)
(* region is initialized.                                                   *)
Migrate(m, target) ==
  /\ health[target] # "down" /\ WithinBound
  /\ load' = [Decrement(load, assigned[m]) EXCEPT ![target] = @ + 1]
  /\ assigned' = [assigned EXCEPT ![m] = target]
  /\ told' = IF m \in live THEN [told EXCEPT ![m] = target] ELSE told
  /\ UNCHANGED <<live, health, checks, uncounted>>

-----------------------------------------------------------------------------
(* _checkHealth: the check of r has passed. *)
CheckPasses(r) ==
  /\ failed' = [failed EXCEPT ![r] = 0]
  /\ passed' = [passed EXCEPT ![r] = IF @ < RecoverAt THEN @ + 1 ELSE @]
  /\ health' = IF passed[r] + 1 >= RecoverAt THEN [health EXCEPT ![r] = "healthy"] ELSE health
  /\ UNCHANGED <<live, initialized, load, assigned, told, uncounted>>

(* Where _assignSFU puts rooms one after the other: into the default region *)
(* or, if that is not usable, each into one that is least loaded then.  In  *)
(* whatever order they come, no region that took one has in the end more    *)
(* than one room over any other.                                            *)
Gain(to, q) == Cardinality({m \in DOMAIN to : to[m] = q})

Spread(to, usable) ==
  IF Default \in usable THEN \A m \in DOMAIN to : to[m] = Default
    ELSE IF usable = {} THEN \A m \in DOMAIN to : to[m] = NOWHERE
    ELSE \A m \in DOMAIN to : /\ to[m] \in usable
                             /\ \A q \in usable : load[to[m]] + Gain(to, to[m])
                                                    <= load[q] + Gain(to, q) + 1

(* _failoverRooms: the rooms of r are assigned anew; the count of r is left *)
(* as it was.                                                               *)
Failover(r) ==
  LET lost == On(r) IN
  \E to \in [lost -> Regions \cup {NOWHERE}] :
    /\ Spread(to, Usable(health'))
    /\ assigned' = [m \in Rooms |-> IF m \in lost THEN to[m] ELSE assigned[m]]
    /\ load' = [q \in Regions |-> load[q] + Gain(to, q)]
    /\ uncounted' = [uncounted EXCEPT ![r] = @ + Cardinality(lost)]
    /\ told' = [m \in Rooms |->
                  IF m \in lost \cap live /\ to[m] # NOWHERE THEN to[m] ELSE told[m]]

(* The check of r has failed. *)
CheckFails(r) ==
  /\ WithinBound
  /\ failed' = [failed EXCEPT ![r] = IF @ < DownAt THEN @ + 1 ELSE @]
  /\ passed' = [passed EXCEPT ![r] = 0]
  /\ \/ /\ failed'[r] = DownAt /\ health[r] # "down"
        /\ health' = [health EXCEPT ![r] = "down"]
        /\ Failover(r)
     \/ /\ failed'[r] < DownAt \/ health[r] = "down"
        /\ health' = IF failed'[r] >= DegradedAt /\ health[r] = "healthy"
                       THEN [health EXCEPT ![r] = "degraded"] ELSE health
        /\ UNCHANGED <<load, assigned, told, uncounted>>
  /\ UNCHANGED <<live, initialized>>

OrchestratorNext ==
  \/ \E m \in Rooms :
       CreateRoom(m) \/ DestroyRoom(m) \/ \E r \in Regions : Migrate(m, r)
  \/ \E r \in Regions : CheckPasses(r) \/ CheckFails(r)

OrchestratorSpec == OrchestratorInit /\ [][OrchestratorNext]_orchestratorVars

-----------------------------------------------------------------------------
(* Whatever the checks find and whoever migrates rooms meanwhile, no room   *)
(* is assigned to a region that is down, and what the members of a room     *)
(* were told last is where it is, unless nobody serves it (_failoverRooms). *)
RoomsAreServed ==
  \A m \in Rooms : assigned[m] # NOWHERE =>
    /\ health[assigned[m]] # "down"
    /\ m \in live /\ told[m] # NOWHERE => told[m] = assigned[m]

(* The load assignments compare is the number of rooms a region has and of  *)
(* those it lost to failovers, or to a second assignment, without a         *)
(* decrement: it never falls short, and errs by nothing else.               *)
LoadExplained ==
  \A r \in Regions :
    load[r] = Cardinality(On(r)) + uncounted[r]

OrchestratorHolds == OrchestratorTypeOK /\ RoomsAreServed /\ LoadExplained
=============================================================================
