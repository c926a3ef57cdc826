---------------------------- MODULE NativeSFUProofs ----------------------------
(***************************************************************************)
(* Theorems about NativeSFU for any number of peers, places and producers. *)
(***************************************************************************)
EXTENDS NativeSFU, RoomLifeProofs

-----------------------------------------------------------------------------
(* Types. *)

(* The actions of the room that the engine's actions contain. *)
LEMMA RoomStep ==
  ASSUME [Next]_vars
  PROVE  RoomNext \/ UNCHANGED roomVars
  BY DEF Next, vars, Elsewhere, PeerJoined, PeerLeft, Publish, Subscribe, Unpublish,
         RoomNext

LEMMA InitTypes == Init => TypeOK
<1>1. Init => RoomTypeOK
  BY DEF Init, RoomInit, RoomTypeOK, Status, Inside
<1>2. Init => made \in 0..MaxProducers /\ former \in 0..made
  BY ProducersAssumption DEF Init
<1> QED
  BY <1>1, <1>2 DEF Init, TypeOK

(* Every variable keeps its type: a producer has one id and one publisher,  *)
(* and ids are given in order (_nextId).                                    *)
THEOREM TypeCorrect == Spec => []TypeOK
<1>1. Init => TypeOK
  BY InitTypes
<1>2. TypeOK /\ [Next]_vars => TypeOK'
  <2> SUFFICES ASSUME TypeOK, [Next]_vars PROVE TypeOK'
    OBVIOUS
  <2> USE ProducersAssumption DEF Ids
  <2>1. RoomTypeOK'
    BY RoomTypeStep, RoomStep DEF TypeOK, roomVars, RoomTypeOK
  <2>2. ASSUME NEW p \in Peers, PeerJoined(p)
        PROVE  TypeOK'
    BY <2>1, <2>2 DEF TypeOK, PeerJoined, ReadyOf, Live, engine
  <2>3. ASSUME NEW p \in Peers, PeerLeft(p)
        PROVE  TypeOK'
    BY <2>1, <2>3 DEF TypeOK, PeerLeft, Untrack
  <2>4. ASSUME NEW p \in Peers, Publish(p)
        PROVE  TypeOK'
    BY <2>1, <2>4 DEF TypeOK, Publish, Own
  <2>5. ASSUME NEW p \in Peers, NEW i \in Ids, Subscribe(p, i)
        PROVE  TypeOK'
    <3>1. [peer |-> p, producer |-> i] \in Consumer
      BY <2>5 DEF Consumer
    <3> QED
      BY <2>1, <2>5, <3>1 DEF TypeOK, Subscribe
  <2>6. ASSUME NEW p \in Peers, NEW i \in Ids, Unpublish(p, i)
        PROVE  TypeOK'
    BY <2>1, <2>6 DEF TypeOK, Unpublish, Untrack
  <2>7. CASE Elsewhere
    BY <2>1, <2>7 DEF TypeOK, Elsewhere, Forget, engine, clients
  <2>8. CASE UNCHANGED vars
    BY <2>1, <2>8 DEF TypeOK, vars, engine, clients
  <2> QED
    BY <2>2, <2>3, <2>4, <2>5, <2>6, <2>7, <2>8 DEF Next
<1> QED
  BY <1>1, <1>2, PTL DEF Spec

-----------------------------------------------------------------------------
(* What the invariants rest on. *)

(* A followed client is a member with an open socket; of the others nothing *)
(* is recorded.                                                             *)
Followed ==
  /\ \A p \in steady : status[p] = "present"
  /\ \A p \in Peers \ steady : known[p] = {} /\ subscribed[p] = {}

(* No frame of a peer is handled before its join.                           *)
Unheard ==
  \A p \in Peers : status[p] = "outside" =>
    /\ \A i \in Ids : producers[i] # p
    /\ \A c \in consumers : c.peer # p

(* peerProducers lists every producer of a peer that is open.               *)
Owned == \A i \in Live : i \in owned[producers[i]]

(* Open producers are of the present room.                                  *)
Numbered ==
  /\ \A i \in Live : i > former /\ i <= made
  /\ \A c \in tracked : c.producer <= made

Base == TypeOK /\ Standing /\ Heard /\ Followed /\ Unheard /\ Owned

(* What a departure does to the room.                                       *)
LEMMA ExitEffect ==
  ASSUME RoomTypeOK, Standing, NEW p \in Peers, Exit(p)
  PROVE  /\ status'[p] = "left" /\ status[p] # "outside"
         /\ \A q \in Peers \ {p} : status'[q] = status[q]
         /\ RoomMembers' = Remaining(p)
         /\ alive' \/ Remaining(p) = {}
<1>1. status'[p] = "left" /\ \A q \in Peers \ {p} : status'[q] = status[q]
  BY DEF Exit, Become, RoomTypeOK
<1>2. RoomMembers' = Remaining(p) /\ status[p] # "outside"
  BY <1>1 DEF RoomMembers, Remaining, Inside, Exit, Reachable
<1>3. alive' \/ Remaining(p) = {}
  BY DEF Exit, Reachable, Remaining, Standing
<1> QED
  BY <1>1, <1>2, <1>3

(* What steps outside of the engine do: followed clients keep their state.  *)
LEMMA ElsewhereEffect ==
  ASSUME TypeOK, Followed, Elsewhere
  PROVE  /\ Followed' /\ steady' \subseteq steady
         /\ \A p \in steady' : known'[p] = known[p] /\ subscribed'[p] = subscribed[p]
         /\ RoomMembers' = RoomMembers
         /\ \A p \in Peers : status'[p] = "outside" => status[p] = "outside"
<1> USE DEF TypeOK, RoomTypeOK, Followed
<1>1. ASSUME NEW p \in Peers, Fade(p) \/ Drop(p), Forget({p})
      PROVE  /\ Followed' /\ steady' \subseteq steady
             /\ \A q \in steady' : known'[q] = known[q] /\ subscribed'[q] = subscribed[q]
  BY <1>1 DEF Fade, Drop, Become, Forget
<1>2. ASSUME NEW p \in Peers, Return(p), UNCHANGED clients
      PROVE  Followed'
  BY <1>2 DEF Return, Become, clients
<1>3. ASSUME NEW ps \in SUBSET Peers, Strand(ps), Forget(ps)
      PROVE  /\ Followed' /\ steady' \subseteq steady
             /\ \A q \in steady' : known'[q] = known[q] /\ subscribed'[q] = subscribed[q]
  BY <1>3 DEF Strand, Forget
<1>4. ASSUME Make, UNCHANGED clients
      PROVE  Followed'
  BY <1>4 DEF Make, clients
<1>5. /\ RoomMembers' = RoomMembers
      /\ \A p \in Peers : status'[p] = "outside" => status[p] = "outside"
  <2>1. ASSUME NEW p \in Peers, Fade(p) \/ Drop(p) \/ Return(p)
        PROVE  /\ RoomMembers' = RoomMembers
               /\ \A q \in Peers : status'[q] = "outside" => status[q] = "outside"
    BY <2>1 DEF Fade, Drop, Return, Become, RoomMembers, Inside
  <2>2. ASSUME NEW ps \in SUBSET Peers, Strand(ps)
        PROVE  /\ RoomMembers' = RoomMembers
               /\ \A q \in Peers : status'[q] = "outside" => status[q] = "outside"
    BY <2>2 DEF Strand, Reachable, RoomMembers, Inside
  <2>3. CASE Make
    BY <2>3 DEF Make, RoomMembers
  <2> QED
    BY <2>1, <2>2, <2>3 DEF Elsewhere
<1> QED
  BY <1>1, <1>2, <1>3, <1>4, <1>5 DEF Elsewhere, clients

(* Any step: nobody goes back outside. *)
LEMMA FollowedStep ==
  ASSUME Base, [Next]_vars
  PROVE  Followed'
<1> USE DEF Base, TypeOK, RoomTypeOK, Followed
<1>1. ASSUME NEW p \in Peers, PeerJoined(p)
      PROVE  Followed'
  BY <1>1 DEF PeerJoined, Enter, Become
<1>2. ASSUME NEW p \in Peers, PeerLeft(p)
      PROVE  Followed'
  BY <1>2, ExitEffect DEF PeerLeft
<1>3. ASSUME NEW p \in Peers, Publish(p)
      PROVE  Followed'
  BY <1>3 DEF Publish, roomVars
<1>4. ASSUME NEW p \in Peers, NEW i \in Ids, Subscribe(p, i)
      PROVE  Followed'
  BY <1>4 DEF Subscribe, roomVars
<1>5. ASSUME NEW p \in Peers, NEW i \in Ids, Unpublish(p, i)
      PROVE  Followed'
  BY <1>5 DEF Unpublish, roomVars
<1>6. CASE Elsewhere
  BY <1>6, ElsewhereEffect
<1>7. CASE UNCHANGED vars
  BY <1>7 DEF vars, roomVars, clients
<1> QED
  BY <1>1, <1>2, <1>3, <1>4, <1>5, <1>6, <1>7 DEF Next

LEMMA UnheardStep ==
  ASSUME Base, TypeOK', [Next]_vars
  PROVE  Unheard'
<1> USE DEF Base, Unheard
<1>1. ASSUME NEW p \in Peers, PeerJoined(p)
      PROVE  Unheard'
  BY <1>1 DEF PeerJoined, Enter, Become, TypeOK, RoomTypeOK, engine
<1>2. ASSUME NEW p \in Peers, PeerLeft(p)
      PROVE  Unheard'
  <2>1. \A q \in Peers : status'[q] = "outside" => status[q] = "outside"
    BY <1>2, ExitEffect DEF PeerLeft, TypeOK
  <2>2. \A i \in Ids : producers'[i] \in {producers[i], NONE}
    BY <1>2 DEF PeerLeft
  <2>3. consumers' \subseteq consumers
    BY <1>2 DEF PeerLeft
  <2> QED
    BY <2>1, <2>2, <2>3, ProducersAssumption
<1>3. ASSUME NEW p \in Peers, Publish(p)
      PROVE  Unheard'
  BY <1>3 DEF Publish, Speakers, roomVars, TypeOK
<1>4. ASSUME NEW p \in Peers, NEW i \in Ids, Subscribe(p, i)
      PROVE  Unheard'
  BY <1>4 DEF Subscribe, Speakers, roomVars
<1>5. ASSUME NEW p \in Peers, NEW i \in Ids, Unpublish(p, i)
      PROVE  Unheard'
  BY <1>5, ProducersAssumption DEF Unpublish, roomVars, TypeOK
<1>6. CASE Elsewhere
  BY <1>6, ElsewhereEffect DEF Elsewhere, engine
<1>7. CASE UNCHANGED vars
  BY <1>7 DEF vars, roomVars, engine
<1> QED
  BY <1>1, <1>2, <1>3, <1>4, <1>5, <1>6, <1>7 DEF Next

LEMMA OwnedStep ==
  ASSUME Base, [Next]_vars
  PROVE  Owned'
<1> USE ProducersAssumption DEF Base, TypeOK, Owned, Live, Ids
<1>1. ASSUME NEW p \in Peers, PeerLeft(p)
      PROVE  Owned'
  <2>1. CASE alive'
    BY <1>1, <2>1 DEF PeerLeft
  <2>2. CASE ~alive'
    BY <1>1, <2>2 DEF PeerLeft
  <2> QED
    BY <2>1, <2>2
<1>2. ASSUME NEW p \in Peers, Publish(p)
      PROVE  Owned'
  <2>1. made + 1 \in Ids
    BY <1>2 DEF Publish
  <2> QED
    BY <1>2, <2>1 DEF Publish, Own
<1>3. ASSUME NEW p \in Peers, NEW i \in Ids, Unpublish(p, i)
      PROVE  Owned'
  BY <1>3 DEF Unpublish
<1>4. CASE UNCHANGED <<producers, owned>>
  BY <1>4
<1> QED
  BY <1>1, <1>2, <1>3, <1>4 DEF Next, vars, engine, PeerJoined, Subscribe, Elsewhere

(* The invariant the theorems below share. *)
LEMMA BaseInvariant == Spec => []Base
<1>1. Init => Base
  BY InitTypes, ProducersAssumption
     DEF Init, Base, RoomInit, Standing, Heard, RoomMembers, Inside, Followed, Unheard,
         Owned, Live
<1>2. Base /\ TypeOK' /\ [Next]_vars => Base'
  BY RoomStep, StandingStep, HeardStep, FollowedStep, UnheardStep, OwnedStep
     DEF Base, TypeOK
<1> QED
  BY <1>1, <1>2, TypeCorrect, PTL DEF Spec

-----------------------------------------------------------------------------
(* Departures. *)

(* A member that leaves takes all it has published with it: the list that   *)
(* _onPeerLeft goes through names every open producer of the peer, whoever  *)
(* closed some of them before.                                              *)
THEOREM NothingIsLeftBehind == Spec => NothingLeftBehind
<1>1. ASSUME Base, [Next]_vars, NEW p \in Peers,
             status[p] \in Inside, status'[p] = "left"
      PROVE  \A i \in Ids : producers'[i] # p
  <2> USE DEF Base, TypeOK, RoomTypeOK
  <2>1. PeerLeft(p)
    <3>1. ASSUME NEW q \in Peers, PeerLeft(q)
          PROVE  q = p
      BY <1>1, <3>1, ExitEffect DEF PeerLeft, Inside
    <3>2. ASSUME NEW q \in Peers, PeerJoined(q)
          PROVE  FALSE
      BY <1>1, <3>2 DEF PeerJoined, Enter, Become, Inside
    <3>3. ASSUME Elsewhere
          PROVE  FALSE
      <4>1. ASSUME NEW q \in Peers, Fade(q) \/ Drop(q) \/ Return(q)
            PROVE  FALSE
        BY <1>1, <4>1 DEF Fade, Drop, Return, Become, Inside
      <4>2. ASSUME NEW ps \in SUBSET Peers, Strand(ps)
            PROVE  FALSE
        BY <1>1, <4>2 DEF Strand, Inside
      <4>3. CASE Make
        BY <1>1, <4>3 DEF Make, Inside
      <4> QED
        BY <3>3, <4>1, <4>2, <4>3 DEF Elsewhere
    <3>4. CASE UNCHANGED roomVars
      BY <1>1, <3>4 DEF roomVars, Inside
    <3> QED
      BY <1>1, <3>1, <3>2, <3>3, <3>4 DEF Next, vars, Publish, Subscribe, Unpublish
  <2>2. CASE alive'
    <3>1. ASSUME NEW i \in Ids, producers[i] = p
          PROVE  i \in owned[p] \cap Live
      <4>1. i \in Live
        BY <3>1, ProducersAssumption DEF Live
      <4>2. i \in owned[producers[i]]
        BY <1>1, <4>1 DEF Owned
      <4> QED
        BY <3>1, <4>1, <4>2
    <3>2. \A i \in Ids : producers'[i] =
            IF i \in owned[p] \cap Live THEN NONE ELSE producers[i]
      BY <2>1, <2>2 DEF PeerLeft
    <3> QED
      BY <3>1, <3>2, ProducersAssumption
  <2>3. CASE ~alive'
    BY <2>1, <2>3, ProducersAssumption DEF PeerLeft
  <2> QED
    BY <2>2, <2>3
<1>2. Base /\ [Next]_vars =>
        [\A p \in Peers :
           status[p] \in Inside /\ status'[p] = "left" =>
             \A i \in Ids : producers'[i] # p]_vars
  BY <1>1
<1> QED
  BY <1>2, BaseInvariant, PTL DEF Spec, NothingLeftBehind

-----------------------------------------------------------------------------
(* Consumers. *)

(* The consumers a client believes in are those of the engine: it is told   *)
(* of each one that is closed, also when its room goes, since then it has   *)
(* left itself.                                                             *)
THEOREM ConsumersAlwaysExact == Spec => []ConsumersExact
<1>1. Init => ConsumersExact
  BY DEF Init, ConsumersExact
<1>2. Base /\ Base' /\ ConsumersExact /\ [Next]_vars => ConsumersExact'
  <2> SUFFICES ASSUME Base, Base', ConsumersExact, [Next]_vars
               PROVE  ConsumersExact'
    OBVIOUS
  <2> USE DEF Base, TypeOK, ConsumersExact
  <2>1. ASSUME NEW p \in Peers, PeerJoined(p)
        PROVE  ConsumersExact'
    <3>1. p \notin steady /\ subscribed[p] = {}
      BY <2>1 DEF PeerJoined, Enter, Followed
    <3>2. \A i \in Ids : [peer |-> p, producer |-> i] \notin consumers
      BY <2>1 DEF PeerJoined, Enter, Unheard
    <3> QED
      BY <2>1, <3>1, <3>2 DEF PeerJoined, engine
  <2>2. ASSUME NEW p \in Peers, PeerLeft(p)
        PROVE  ConsumersExact'
    <3>1. CASE alive'
      BY <2>2, <3>1 DEF PeerLeft, Of, Consumer
    <3>2. CASE ~alive'
      <4>1. RoomMembers' = {}
        BY <2>2, <3>2, ExitEffect DEF PeerLeft
      <4>2. steady' = {}
        BY <4>1 DEF Followed, RoomMembers, Inside
      <4> QED
        BY <4>2
    <3> QED
      BY <3>1, <3>2
  <2>3. ASSUME NEW p \in Peers, NEW i \in Ids, Subscribe(p, i)
        PROVE  ConsumersExact'
    BY <2>3 DEF Subscribe
  <2>4. ASSUME NEW p \in Peers, NEW i \in Ids, Unpublish(p, i)
        PROVE  ConsumersExact'
    BY <2>4 DEF Unpublish, Of, Consumer
  <2>5. CASE Elsewhere
    BY <2>5, ElsewhereEffect DEF Elsewhere, engine
  <2>6. CASE UNCHANGED <<consumers, steady, subscribed>>
    BY <2>6
  <2> QED
    BY <2>1, <2>2, <2>3, <2>4, <2>5, <2>6 DEF Next, vars, engine, clients, Publish
<1> QED
  BY <1>1, <1>2, BaseInvariant, PTL DEF Spec

-----------------------------------------------------------------------------
(* The subscribers of the bitrate controller. *)

LEMMA NumberedStep ==
  ASSUME TypeOK, TypeOK', Numbered, TrackedExact, [Next]_vars
  PROVE  Numbered' /\ TrackedExact'
<1> USE ProducersAssumption DEF TypeOK, Numbered, TrackedExact, Live, Ids
<1>1. ASSUME NEW p \in Peers, PeerLeft(p)
      PROVE  Numbered' /\ TrackedExact'
  <2>1. CASE alive'
    BY <1>1, <2>1 DEF PeerLeft, Untrack, Of, Consumer
  <2>2. CASE ~alive'
    BY <1>1, <2>2 DEF PeerLeft, Untrack, Of, Consumer
  <2> QED
    BY <2>1, <2>2
<1>2. ASSUME NEW p \in Peers, Publish(p)
      PROVE  Numbered' /\ TrackedExact'
  BY <1>2 DEF Publish, Consumer
<1>3. ASSUME NEW p \in Peers, NEW i \in Ids, Subscribe(p, i)
      PROVE  Numbered' /\ TrackedExact'
  BY <1>3 DEF Subscribe, Consumer
<1>4. ASSUME NEW p \in Peers, NEW i \in Ids, Unpublish(p, i)
      PROVE  Numbered' /\ TrackedExact'
  BY <1>4 DEF Unpublish, Untrack, Of, Consumer
<1>5. CASE UNCHANGED engine
  BY <1>5 DEF engine
<1> QED
  BY <1>1, <1>2, <1>3, <1>4, <1>5 DEF Next, vars, PeerJoined, Elsewhere

(* The controller keeps an entry for each consumer, and otherwise only      *)
(* those a destroyed room has left behind (_closeSFURoom).                  *)
THEOREM TrackedAlwaysExact == Spec => []TrackedExact
<1>1. Init => Numbered /\ TrackedExact
  BY ProducersAssumption DEF Init, Numbered, TrackedExact, Live
<1>2. TypeOK /\ TypeOK' /\ Numbered /\ TrackedExact /\ [Next]_vars
        => Numbered' /\ TrackedExact'
  BY NumberedStep
<1> QED
  BY <1>1, <1>2, TypeCorrect, PTL DEF Spec

-----------------------------------------------------------------------------
(* Producers. *)

(* sfu:ready and the broadcasts leave no gap, and no closed producer stays  *)
(* in a client's list unless a peer of a former room closed it.             *)
THEOREM ProducersAlwaysExact == Spec => []ProducersExact
<1>1. Init => ProducersExact
  BY DEF Init, ProducersExact
<1>2. Base /\ Base' /\ ProducersExact /\ [Next]_vars => ProducersExact'
  <2> SUFFICES ASSUME Base, Base', ProducersExact, [Next]_vars
               PROVE  ProducersExact'
    OBVIOUS
  <2> USE ProducersAssumption DEF Base, TypeOK, ProducersExact, Live
  <2>1. ASSUME NEW p \in Peers, PeerJoined(p)
        PROVE  ProducersExact'
    <3>1. \A i \in Ids : producers[i] # p
      BY <2>1 DEF PeerJoined, Enter, Unheard
    <3>2. \A q \in Peers \ {p} : status'[q] = status[q]
      BY <2>1 DEF PeerJoined, Enter, Become, RoomTypeOK
    <3>3. RoomMembers' \subseteq RoomMembers \cup {p}
      BY <3>2 DEF RoomMembers
    <3> QED
      BY <2>1, <3>1, <3>3 DEF PeerJoined, ReadyOf, engine
  <2>2. ASSUME NEW p \in Peers, PeerLeft(p)
        PROVE  ProducersExact'
    <3>1. RoomMembers' = Remaining(p)
      BY <2>2, ExitEffect DEF PeerLeft
    <3>2. CASE alive'
      BY <2>2, <3>1, <3>2 DEF PeerLeft, Remaining
    <3>3. CASE ~alive'
      <4>1. RoomMembers' = {}
        BY <2>2, <3>3, ExitEffect DEF PeerLeft
      <4> QED
        BY <4>1 DEF Followed, RoomMembers, Inside
    <3> QED
      BY <3>2, <3>3
  <2>3. ASSUME NEW p \in Peers, Publish(p)
        PROVE  ProducersExact'
    <3>1. RoomMembers' = RoomMembers
      BY <2>3 DEF Publish, roomVars, RoomMembers
    <3>2. p \in RoomMembers => steady \subseteq Audience(p)
      BY DEF Audience, Heard, Followed, RoomMembers, Inside
    <3>3. made + 1 \in Ids
      BY <2>3 DEF Publish, Ids
    <3> QED
      BY <2>3, <3>1, <3>2, <3>3 DEF Publish
  <2>4. ASSUME NEW p \in Peers, NEW i \in Ids, Unpublish(p, i)
        PROVE  ProducersExact'
    <3>1. RoomMembers' = RoomMembers
      BY <2>4 DEF Unpublish, roomVars, RoomMembers
    <3>2. ~foreign' => steady \subseteq Audience(p)
      BY <2>4 DEF Unpublish, Audience, Followed, RoomMembers, Inside
    <3> QED
      BY <2>4, <3>1, <3>2 DEF Unpublish
  <2>5. CASE Elsewhere
    BY <2>5, ElsewhereEffect DEF Elsewhere, engine
  <2>6. CASE UNCHANGED <<roomVars, producers, steady, known, foreign>>
    BY <2>6 DEF roomVars, RoomMembers
  <2> QED
    BY <2>1, <2>2, <2>3, <2>4, <2>5, <2>6 DEF Next, vars, engine, clients, Subscribe
<1> QED
  BY <1>1, <1>2, BaseInvariant, PTL DEF Spec
=============================================================================
