----------------------------- MODULE Transports ------------------------------
(***************************************************************************)
(* The two mediasoup adapters, adapters/MediasoupAdapter.js and            *)
(* sfu/MediasoupAdapter.js with the hooks it inherits from SFUInterface:   *)
(* the router of one room id and the transports of its peers.              *)
(*                                                                         *)
(* Both make a router when the room is created and transports when a peer  *)
(* joins, each with calls to a worker process that are awaited, and close  *)
(* them at once when the peer leaves or the room is destroyed.  They differ *)
(* in what a peer does that joins before there is a router: the first      *)
(* makes one, the second gives up.                                         *)
(***************************************************************************)
EXTENDS RoomLife, Sequences

CONSTANT MaxRouters    \* bounds the routers that are requested

ASSUME RoutersAssumption == MaxRouters \in Nat

VARIABLES
  makesRouter,   \* a peer that finds no router makes one: fixed
  requested,     \* routers requested of the workers so far, numbered from 1
  making,        \* requests not answered yet, with the handler that waits
  open,          \* routers of the workers
  entry,         \* the router in _rooms, 0 for none
  setup,         \* of each peer: how far its set-up has come
  within,        \* the router its transports are made in
  held,          \* pairs of a peer and the router both its transports are open in
  overtaken,     \* history: routers whose entry another one has replaced
  hurried        \* history: peers that left in the middle of their set-up

transportsVars == <<makesRouter, requested, making, open, entry, setup, within,
                    held, overtaken, hurried>>

Routers == 1..MaxRouters
InProgress == {"router", "transports"}

TransportsTypeOK ==
  /\ RoomTypeOK
  /\ makesRouter \in BOOLEAN
  /\ requested \in 0..MaxRouters
  /\ making \subseteq [by : Peers \cup {"room"}, router : Routers]
  /\ open \subseteq Routers /\ overtaken \subseteq Routers
  /\ entry \in Routers \cup {0}
  /\ setup \in [Peers -> InProgress \cup {"none", "ready", "half", "failed"}]
  /\ within \in [Peers -> Routers \cup {0}]
  /\ held \subseteq Peers \X Routers
  /\ hurried \subseteq Peers

TransportsInit ==
  /\ RoomInit
  /\ makesRouter \in BOOLEAN
  /\ requested = 0 /\ entry = 0
  /\ making = {} /\ open = {} /\ held = {} /\ overtaken = {} /\ hurried = {}
  /\ setup = [p \in Peers |-> "none"]
  /\ within = [p \in Peers |-> 0]

Request(handlers) ==
  /\ requested + Len(handlers) <= MaxRouters
  /\ requested' = requested + Len(handlers)
  /\ making' = making \cup {[by |-> handlers[i], router |-> requested + i] :
                              i \in 1..Len(handlers)}

(* room:created: _setupRoom and createRoom return at once if there is one.  *)
ForRoom == IF entry = 0 THEN <<"room">> ELSE << >>

At(p, stage, router) ==
  /\ setup' = [setup EXCEPT ![p] = stage]
  /\ within' = [within EXCEPT ![p] = router]

-----------------------------------------------------------------------------
TransportsMake ==
  /\ Make
  /\ Request(ForRoom)
  /\ UNCHANGED <<makesRouter, open, entry, setup, within, held, overtaken, hurried>>

(* peer:joined, behind room:created if the room is new. *)
TransportsEnter(p) ==
  /\ Enter(p)
  /\ Request((IF alive THEN << >> ELSE ForRoom)
               \o (IF makesRouter /\ entry = 0 THEN <<p>> ELSE << >>))
  /\ \/ entry # 0 /\ At(p, "transports", entry)
     \/ entry = 0 /\ At(p, IF makesRouter THEN "router" ELSE "failed", 0)
  /\ UNCHANGED <<makesRouter, open, entry, held, overtaken, hurried>>

CloseRouter(r, pairs) ==
  /\ open' = open \ {r}
  /\ held' = {pair \in pairs : pair[2] # r}

(* _teardownPeer, closePeerTransports: only the entry is looked at. *)
TornDown(p) == held \ {<<p, entry>>}

ExitEarly(p) ==
  /\ Exit(p)
  /\ IF Remaining(p) = {}
       THEN CloseRouter(entry, held) /\ entry' = 0
       ELSE UNCHANGED <<open, entry, held>>
  /\ hurried' = IF setup[p] \in InProgress THEN hurried \cup {p} ELSE hurried
  /\ UNCHANGED <<makesRouter, requested, making, setup, within, overtaken>>

(* peer:left, and room:destroyed with the last *)
TransportsExit(p) ==
  /\ Exit(p)
  /\ IF Remaining(p) = {}
       THEN CloseRouter(entry, TornDown(p)) /\ entry' = 0
       ELSE held' = TornDown(p) /\ UNCHANGED <<open, entry>>
  /\ hurried' = IF setup[p] \in InProgress THEN hurried \cup {p} ELSE hurried
  /\ UNCHANGED <<makesRouter, requested, making, setup, within, overtaken>>

-----------------------------------------------------------------------------
(* A worker answers a request: whoever waits puts the router in the map,    *)
(* over what is there by now, for a room that may be gone.                  *)
RouterMade(request) ==
  /\ request \in making
  /\ making' = making \ {request}
  /\ open' = open \cup {request.router}
  /\ entry' = request.router
  /\ overtaken' = overtaken \cup ({entry} \ {0})
  /\ \/ request.by = "room" /\ UNCHANGED <<setup, within>>
     \/ request.by # "room" /\ At(request.by, "transports", request.router)
  /\ UNCHANGED <<roomVars, makesRouter, requested, held, hurried>>

RouterFails(request) ==
  /\ request \in making
  /\ making' = making \ {request}
  /\ \/ request.by = "room" /\ UNCHANGED <<setup, within>>
     \/ request.by # "room" /\ At(request.by, "failed", 0)
  /\ UNCHANGED <<roomVars, makesRouter, requested, open, entry, held, overtaken, hurried>>

(* The transports are there: they are kept for a peer that may have left. *)
TransportsMade(p) ==
  /\ setup[p] = "transports" /\ within[p] \in open
  /\ At(p, "ready", within[p])
  /\ held' = held \cup {<<p, within[p]>>}
  /\ UNCHANGED <<roomVars, makesRouter, requested, making, open, entry, overtaken, hurried>>

(* Whatever the reason; a router that is closed makes none.  The two are     *)
(* asked for at once, and when only one of them fails nobody closes, nor    *)
(* enters anywhere, the other one.                                          *)
TransportsFail(p) ==
  /\ setup[p] = "transports"
  /\ \/ At(p, "failed", 0)
     \/ within[p] \in open /\ At(p, "half", within[p])
  /\ UNCHANGED <<roomVars, makesRouter, requested, making, open, entry, held, overtaken, hurried>>

(* Its worker has died: the entry stays, also when the worker is replaced. *)
RouterDies(r) ==
  /\ r \in open
  /\ CloseRouter(r, held)
  /\ UNCHANGED <<roomVars, makesRouter, requested, making, entry, setup, within, overtaken, hurried>>

TransportsNext ==
  \/ TransportsMake
  \/ \E p \in Peers :
       \/ TransportsEnter(p) \/ TransportsExit(p)
       \/ TransportsMade(p) \/ TransportsFail(p)
  \/ \E request \in making : RouterMade(request) \/ RouterFails(request)
  \/ \E r \in open : RouterDies(r)

TransportsSpec == TransportsInit /\ [][TransportsNext]_<<transportsVars, roomVars>>

-----------------------------------------------------------------------------
(* The peers that have transports open in a router, both of them or one.    *)
OpenTransports ==
  held \cup {<<p, within[p]>> : p \in {q \in Peers : setup[q] = "half" /\ within[q] \in open}}

(* Transports outlive their peer in three windows only: the peer left while *)
(* its own set-up was awaited; one of its two transports was made and the   *)
(* other failed; two set-ups of the room overlapped and one replaced the    *)
(* router of the other.  And only this overlap leaves a router open that is *)
(* not under the room's id (_setupPeer, _setupRoom, createPeerTransports,   *)
(* createRoom).                                                             *)
LeaksExplained ==
  /\ \A pair \in OpenTransports : \/ pair[1] \in RoomMembers \cup hurried
                                  \/ setup[pair[1]] = "half"
                                  \/ pair[2] \in overtaken
  /\ open \subseteq {entry} \cup overtaken

(* A member whose set-up has ended well has its transports in the router    *)
(* that messages and departures find under the room's id, as long as that   *)
(* router lives and no overlapping set-up has replaced it.                  *)
ReadyIsReachable ==
  \A p \in RoomMembers :
    setup[p] = "ready" /\ within[p] \in open \ overtaken =>
      within[p] = entry /\ <<p, entry>> \in held

TransportsHold == TransportsTypeOK /\ LeaksExplained /\ ReadyIsReachable
=============================================================================
