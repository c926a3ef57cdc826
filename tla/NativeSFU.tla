------------------------------ MODULE NativeSFU -------------------------------
(***************************************************************************)
(* sfu/NativeSFUEngine.js over the life of one room id: producers and      *)
(* consumers, what each client has been told of them, and the subscribers  *)
(* sfu/AdaptiveBitrateController.js keeps from the engine's events.        *)
(*                                                                         *)
(* The consumers one peer has of one producer are made and closed alike,   *)
(* so they are one here.  Clients are followed while their socket is open. *)
(***************************************************************************)
EXTENDS RoomLife

CONSTANTS
  MaxProducers,  \* bounds the publications of a behaviour
  NONE           \* no publisher

ASSUME ProducersAssumption == MaxProducers \in Nat /\ NONE \notin Peers

VARIABLES
  made,        \* _seq: producers made, over all rooms of the id
  former,      \* those of them made in rooms that are destroyed
  producers,   \* of each producer id, its publisher while it is in the room
  owned,       \* peerProducers, closed ones included
  consumers,   \* subscriptions in the room
  tracked,     \* AdaptiveBitrateController._subscribers
  steady,      \* peers whose socket has been open ever since they joined
  known,       \* the producers of others a steady client knows of
  subscribed,  \* the producers a steady client believes it consumes
  foreign      \* history: a peer of a former room has closed a producer

engine == <<made, former, producers, owned, consumers, tracked>>
clients == <<steady, known, subscribed>>
vars == <<roomVars, engine, clients, foreign>>

Ids == 1..MaxProducers
Consumer == [peer : Peers, producer : Ids]

TypeOK ==
  /\ RoomTypeOK
  /\ made \in 0..MaxProducers /\ former \in 0..made
  /\ producers \in [Ids -> Peers \cup {NONE}]
  /\ owned \in [Peers -> SUBSET Ids]
  /\ consumers \subseteq Consumer /\ tracked \subseteq Consumer
  /\ steady \subseteq Peers
  /\ known \in [Peers -> SUBSET Ids]
  /\ subscribed \in [Peers -> SUBSET Ids]
  /\ foreign \in BOOLEAN

Init ==
  /\ RoomInit
  /\ made = 0 /\ former = 0
  /\ producers = [i \in Ids |-> NONE]
  /\ owned = [p \in Peers |-> {}]
  /\ consumers = {} /\ tracked = {} /\ steady = {}
  /\ known = [p \in Peers |-> {}]
  /\ subscribed = [p \in Peers |-> {}]
  /\ foreign = FALSE

Live == {i \in Ids : producers[i] # NONE}

(* The members a Room object sends to: none once it has been replaced. *)
Audience(p) == IF p \in current THEN RoomMembers ELSE {}

(* A client that is not followed any more. *)
Forget(ps) ==
  /\ steady' = steady \ ps
  /\ known' = [q \in Peers |-> IF q \in ps THEN {} ELSE known[q]]
  /\ subscribed' = [q \in Peers |-> IF q \in ps THEN {} ELSE subscribed[q]]

-----------------------------------------------------------------------------
(* Listeners of the server's events. *)

ReadyOfPresent(p) == {i \in Live : status[producers[i]] = "present"}

(* _onPeerJoined: sfu:ready with the producers there are. *)
ReadyOf(p) == Live

PeerJoined(p) ==
  /\ Enter(p)
  /\ IF status'[p] = "present"
       THEN /\ steady' = steady \cup {p}
            /\ known' = [known EXCEPT ![p] = ReadyOf(p)]
       ELSE UNCHANGED <<steady, known>>
  /\ UNCHANGED <<engine, subscribed, foreign>>

OfFirst(ids) ==
  LET all == {c \in consumers : c.producer \in ids} IN
  IF all = {} THEN {} ELSE {CHOOSE c \in all : TRUE}

(* _closeProducer, for each producer in ids: its consumers, *)
Of(ids) == {c \in Consumer : c.producer \in ids}

UntrackMembers(ids) ==
  tracked' = tracked \ {c \in Of(ids) : c.peer \in RoomMembers}

(* and the consumer:closed of each, whether its peer is there or not. *)
Untrack(ids) == tracked' = tracked \ Of(ids)

(* _onPeerLeft, then _closeSFURoom when the room is destroyed, which tells  *)
(* nobody what it drops.                                                    *)
PeerLeft(p) ==
  /\ Exit(p)
  /\ LET closed == owned[p] \cap Live IN
     /\ Untrack(closed)
     /\ IF alive'
          THEN /\ producers' = [i \in Ids |-> IF i \in closed THEN NONE ELSE producers[i]]
               /\ owned' = [owned EXCEPT ![p] = {}]
               /\ consumers' = consumers \ Of(closed)
               /\ former' = former
          ELSE /\ producers' = [i \in Ids |-> NONE]
               /\ owned' = [q \in Peers |-> {}]
               /\ consumers' = {}
               /\ former' = made
     /\ steady' = steady \ {p}
     /\ known' = [q \in Peers |-> IF q = p THEN {} ELSE known[q] \ closed]
     /\ subscribed' = [q \in Peers |-> IF q = p THEN {} ELSE subscribed[q] \ closed]
  /\ UNCHANGED <<made, foreign>>

(* What the engine does not listen to. *)
Elsewhere ==
  /\ \/ \E p \in Peers : (Fade(p) \/ Drop(p)) /\ Forget({p})
     \/ \E p \in Peers : Return(p) /\ UNCHANGED clients
     \/ \E ps \in SUBSET Peers : Strand(ps) /\ Forget(ps)
     \/ Make /\ UNCHANGED clients
  /\ UNCHANGED <<engine, foreign>>

-----------------------------------------------------------------------------
(* Messages of the data relay tagged __sfu, from whoever is still heard by  *)
(* a Room of the id; the SFU room is that of the id.                        *)

OwnLatest(p, i) == owned' = [owned EXCEPT ![p] = {i}]

Own(p, i) == owned' = [owned EXCEPT ![p] = @ \cup {i}]

(* _handlePublish *)
Publish(p) ==
  /\ p \in Speakers /\ alive /\ made < MaxProducers
  /\ LET i == made + 1 IN
     /\ made' = i
     /\ producers' = [producers EXCEPT ![i] = p]
     /\ Own(p, i)
     /\ known' = [q \in Peers |-> IF q \in (Audience(p) \cap steady) \ {p}
                                    THEN known[q] \cup {i} ELSE known[q]]
  /\ UNCHANGED <<roomVars, former, consumers, tracked, steady, subscribed, foreign>>

(* _handleSubscribe; consumer:created registers a subscriber. *)
Subscribe(p, i) ==
  /\ p \in Speakers /\ alive /\ producers[i] \notin {NONE, p}
  /\ LET c == [peer |-> p, producer |-> i] IN
     /\ consumers' = consumers \cup {c}
     /\ tracked' = tracked \cup {c}
  /\ subscribed' = IF p \in steady THEN [subscribed EXCEPT ![p] = @ \cup {i}]
                                   ELSE subscribed
  /\ UNCHANGED <<roomVars, made, former, producers, owned, steady, known, foreign>>

(* _handleUnpublish asks neither who published nor whether it is there; the *)
(* id stays in peerProducers.  Consumers are told through the room the      *)
(* server has, the others through the room of the sender.                   *)
Unpublish(p, i) ==
  /\ p \in Speakers /\ alive /\ producers[i] # NONE
  /\ producers' = [producers EXCEPT ![i] = NONE]
  /\ consumers' = consumers \ Of({i})
  /\ Untrack({i})
  /\ known' = [q \in Peers |-> IF q \in Audience(p) THEN known[q] \ {i} ELSE known[q]]
  /\ subscribed' = [q \in Peers |-> subscribed[q] \ {i}]
  /\ foreign' = (foreign \/ p \notin current)
  /\ UNCHANGED <<roomVars, made, former, owned, steady>>

Next ==
  \/ \E p \in Peers :
       \/ PeerJoined(p) \/ PeerLeft(p) \/ Publish(p)
       \/ \E i \in Ids : Subscribe(p, i) \/ Unpublish(p, i)
  \/ Elsewhere

Spec == Init /\ [][Next]_vars

-----------------------------------------------------------------------------
(* A client whose socket has stayed open knows every producer of the other  *)
(* members: sfu:ready and the broadcasts leave no gap.  It knows of none    *)
(* that is closed, unless a peer of a former room of the id closed one.     *)
ProducersExact ==
  \A p \in steady :
    /\ {i \in Live : producers[i] \in RoomMembers \ {p}} \subseteq known[p]
    /\ ~foreign => known[p] \subseteq Live

(* It believes it consumes exactly what the engine forwards to it, whoever  *)
(* closed a producer, and when.                                             *)
ConsumersExact ==
  \A p \in steady : subscribed[p] = {i \in Ids : [peer |-> p, producer |-> i] \in consumers}

(* A member that leaves takes all it has published with it, though its      *)
(* producers were made and closed, by itself and others, in any order.      *)
NothingLeftBehind ==
  [][\A p \in Peers :
       status[p] \in Inside /\ status'[p] = "left" =>
         \A i \in Ids : producers'[i] # p]_vars

(* The bitrate controller has an entry for each consumer, and beyond them   *)
(* only entries of rooms that were destroyed, which nothing removes.        *)
TrackedExact ==
  /\ consumers = {c \in tracked : c.producer > former}
  /\ \A c \in consumers : c.producer \in Live
=============================================================================
