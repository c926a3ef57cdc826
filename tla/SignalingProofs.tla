--------------------------- MODULE SignalingProofs ---------------------------
(***************************************************************************)
(* Proofs about Signaling, for any number of connections and rooms, any    *)
(* capacity, queue length and choice of options.                           *)
(***************************************************************************)
EXTENDS Signaling, FiniteSetTheorems, TLAPS

USE MaxPeersAssumption, QueueMaxAssumption, MetaAssumption, RoomsAssumption
    DEF ClearTimers, ArmTimers, SpendToken, EmptyWithout

(* A message received leaves a well-typed list.                             *)
LEMMA ReceiveType ==
  ASSUME NEW known \in [Peers -> Meta \cup {NONE}], NEW m \in Message
  PROVE  Receive(known, m) \in [Peers -> Meta \cup {NONE}]
<1>1. CASE m.type \in {"joined", "reconnected"}
  <2>1. m.meta \in Meta /\ m.peer \in Peers
    BY <1>1 DEF Message
  <2>2. Receive(known, m) = [known EXCEPT ![m.peer] = m.meta]
    BY <1>1 DEF Receive
  <2> QED BY <2>1, <2>2
<1>2. CASE m.type = "updated"
  <2>1. m.meta \in Meta /\ m.peer \in Peers
    BY <1>2 DEF Message
  <2>2. Receive(known, m) \in {known, [known EXCEPT ![m.peer] = m.meta]}
    BY <1>2 DEF Receive
  <2> QED BY <2>1, <2>2
<1>3. CASE m.type = "left"
  BY <1>3 DEF Receive, Message
<1>4. CASE m.type = "data"
  BY <1>4 DEF Receive, Message
<1> QED BY <1>1, <1>2, <1>3, <1>4 DEF Message

(* Sending keeps queues and lists well typed.                               *)
LEMMA SendType ==
  ASSUME TypeOK, NEW to, NEW m \in Message
  PROVE  /\ Queued(to, m) \in [Peers -> Seq(Message)]
         /\ \A q \in Peers : Len(Queued(to, m)[q]) <= QueueMax
         /\ Seen(to, m) \in [Peers -> [Peers -> Meta \cup {NONE}]]
<1>1. ASSUME NEW q \in Peers
      PROVE  /\ Append(queue[q], m) \in Seq(Message)
             /\ Len(queue[q]) < QueueMax => Len(Append(queue[q], m)) <= QueueMax
             /\ Receive(view[q], m) \in [Peers -> Meta \cup {NONE}]
  <2>1. queue[q] \in Seq(Message) /\ view[q] \in [Peers -> Meta \cup {NONE}]
    BY DEF TypeOK
  <2>2. Append(queue[q], m) \in Seq(Message)
        /\ Len(Append(queue[q], m)) = Len(queue[q]) + 1
        /\ Len(queue[q]) \in Nat
    BY <2>1
  <2> QED BY <2>1, <2>2, ReceiveType
<1>2. queue \in [Peers -> Seq(Message)]
      /\ view \in [Peers -> [Peers -> Meta \cup {NONE}]]
      /\ \A q \in Peers : Len(queue[q]) <= QueueMax
  BY DEF TypeOK
<1> QED BY <1>1, <1>2 DEF Queued, Seen

(* Whatever was flushed, room:state replaces the list.                      *)
LEMMA ResumeType ==
  ASSUME NEW p \in Peers, NEW state
  PROVE  AfterResume(p, state) = state
BY DEF AfterResume, Receive

-----------------------------------------------------------------------------
(* The parts of handlers keep the variables they write well typed.          *)

PlacesOK ==
  /\ rooms \subseteq Rooms
  /\ roster \in [Rooms -> SUBSET Peers]
  /\ roomId \in [Peers -> Rooms \cup {NONE}]
  /\ bound \in [Peers -> Rooms \cup {NONE, GONE}]

ClientsOK ==
  /\ queue \in [Peers -> Seq(Message)]
  /\ \A p \in Peers : Len(queue[p]) <= QueueMax
  /\ view \in [Peers -> [Peers -> Meta \cup {NONE}]]

ClosableOK ==
  /\ st \in [Peers -> PeerState]
  /\ sockSt \in [Peers -> SocketState]
  /\ token \subseteq Peers /\ timer \subseteq Peers

LEMMA CloseType ==
  ASSUME TypeOK, NEW ps, ClosePeers(ps)
  PROVE  ClosableOK'
BY DEF TypeOK, ClosePeers, CloseSockets, ClosableOK, PeerState, SocketState

LEMMA RemoveType ==
  ASSUME TypeOK, NEW p \in Peers, NEW r \in Rooms, RemoveFromRoom(p, r)
  PROVE  PlacesOK' /\ ClientsOK'
<1>1. [type |-> "left", peer |-> p] \in Message
  BY DEF Message
<1>2. ClientsOK'
  BY <1>1, SendType DEF RemoveFromRoom, Send, ClientsOK
<1>3. PlacesOK'
  BY DEF RemoveFromRoom, PlacesOK, TypeOK
<1> QED BY <1>2, <1>3

LEMMA DisconnectedType ==
  ASSUME TypeOK, NEW p \in Peers, Disconnected(p)
  PROVE  /\ PlacesOK' /\ ClientsOK'
         /\ registered' \subseteq Peers
         /\ lefts' \in [Peers -> Nat]
<1>1. registered' \subseteq Peers
  BY DEF Disconnected, TypeOK
<1>2. CASE roomId[p] # NONE
  <2>1. roomId[p] \in Rooms
    BY <1>2 DEF TypeOK
  <2>2. RemoveFromRoom(p, roomId[p]) /\ lefts' = [lefts EXCEPT ![p] = @ + 2]
    BY <1>2 DEF Disconnected
  <2>3. lefts' \in [Peers -> Nat]
    BY <2>2 DEF TypeOK
  <2> QED BY <1>1, <2>1, <2>2, <2>3, RemoveType
<1>3. CASE roomId[p] = NONE
  <2>1. UNCHANGED <<places, clients, lefts>>
    BY <1>3 DEF Disconnected
  <2> QED BY <1>1, <2>1
        DEF TypeOK, PlacesOK, ClientsOK, places, clients
<1> QED BY <1>2, <1>3

LEMMA AddPeerToRoomType ==
  ASSUME TypeOK, NEW p \in Peers, NEW r \in Rooms,
         meta' \in [Peers -> Meta], AddPeerToRoom(p, r)
  PROVE  /\ ClosableOK' /\ PlacesOK' /\ ClientsOK'
         /\ holders' \subseteq Peers
         /\ joins' \in [Peers -> Nat]
<1>1. CASE /\ ClosePeers({p})
           /\ UNCHANGED <<holders, places, clients, joins>>
  BY <1>1, CloseType DEF TypeOK, PlacesOK, ClientsOK, places, clients
<1>2. CASE /\ rooms' = rooms \cup {r}
           /\ UNCHANGED <<st, sockSt, holders, token, timer, roster, roomId,
                          bound, clients, joins>>
  BY <1>2 DEF TypeOK, PlacesOK, ClientsOK, ClosableOK, clients
<1>3. CASE AddPeer(p, r)
  <2> DEFINE m == [type |-> "joined", peer |-> p, meta |-> meta'[p]]
  <2>1. m \in Message
    BY DEF Message
  <2>2. Snapshot(r, p) \in [Peers -> Meta \cup {NONE}]
    BY DEF Snapshot, TypeOK
  <2>3. ClientsOK'
    <3>1. /\ queue' = Queued(roster[r], m)
          /\ view' = [Seen(roster[r], m) EXCEPT
                        ![p] = IF Open(p) THEN Snapshot(r, p) ELSE @]
      BY <1>3 DEF AddPeer
    <3> HIDE DEF m
    <3> QED BY <2>1, <2>2, <3>1, SendType DEF ClientsOK
  <2>4. ClosableOK'
    BY <1>3 DEF AddPeer, TypeOK, ClosableOK, PeerState
  <2>5. PlacesOK'
    BY <1>3 DEF AddPeer, TypeOK, PlacesOK
  <2>6. holders' \subseteq Peers /\ joins' \in [Peers -> Nat]
    BY <1>3 DEF AddPeer, TypeOK
  <2> QED BY <2>3, <2>4, <2>5, <2>6
<1> QED BY <1>1, <1>2, <1>3 DEF AddPeerToRoom

LEMMA HandleJoinType ==
  ASSUME TypeOK, NEW p \in Peers, NEW r \in Rooms, HandleJoin(p, r)
  PROVE  /\ ClosableOK' /\ PlacesOK' /\ ClientsOK'
         /\ holders' \subseteq Peers
         /\ joins' \in [Peers -> Nat]
         /\ meta' \in [Peers -> Meta]
         /\ pending' \in [Peers -> Rooms \cup {NONE}]
<1>1. meta' \in [Peers -> Meta]
  BY DEF HandleJoin, TypeOK
<1>2. CASE /\ ClosePeers({p})
           /\ UNCHANGED <<pending, holders, places, clients, joins>>
  BY <1>1, <1>2, CloseType DEF TypeOK, PlacesOK, ClientsOK, places, clients
<1>3. CASE /\ pending' = [pending EXCEPT ![p] = r]
           /\ UNCHANGED <<st, sockSt, token, timer, holders, places, clients, joins>>
  BY <1>1, <1>3 DEF TypeOK, ClosableOK, PlacesOK, ClientsOK, places, clients
<1>4. CASE AddPeerToRoom(p, r) /\ UNCHANGED pending
  BY <1>1, <1>4, AddPeerToRoomType DEF TypeOK
<1> QED BY <1>2, <1>3, <1>4 DEF HandleJoin

-----------------------------------------------------------------------------
(* Type correctness, one step per action.                                   *)


LEMMA TypeStep ==
  ASSUME TypeOK, [Next]_vars
  PROVE  TypeOK'
<1> USE DEF conns, tokens, places, clients, counts
<1>0. TypeOK' <=>
        /\ up' \in BOOLEAN
        /\ sock' \in [Peers -> Peers]
        /\ pending' \in [Peers -> Rooms \cup {NONE}]
        /\ fresh' \subseteq Peers /\ registered' \subseteq Peers
        /\ tokIdx' \subseteq Peers /\ holders' \subseteq Peers
        /\ meta' \in [Peers -> Meta]
        /\ joins' \in [Peers -> Nat] /\ lefts' \in [Peers -> Nat]
        /\ ClosableOK' /\ PlacesOK' /\ ClientsOK'
  BY DEF TypeOK, ClosableOK, PlacesOK, ClientsOK
<1>1. ASSUME NEW p \in Peers, Connect(p) PROVE TypeOK'
  BY <1>1 DEF Connect, TypeOK, PeerState, SocketState
<1>2. ASSUME NEW p \in Peers, WrongFirstMessage(p) PROVE TypeOK'
  <2>1. ClosableOK'
    BY <1>2, CloseType DEF WrongFirstMessage
  <2> QED BY <1>0, <1>2, <2>1
        DEF WrongFirstMessage, FirstMessage, TypeOK, PlacesOK, ClientsOK
<1>3. ASSUME NEW p \in Peers, Join(p) \/ ReconnectRefused(p) PROVE TypeOK'
  <2>1. PICK r \in Rooms : HandleJoin(p, r)
    BY <1>3 DEF Join, ReconnectRefused
  <2>2. FirstMessage(p) /\ UNCHANGED <<up, sock, tokIdx, registered, lefts>>
    BY <1>3 DEF Join, ReconnectRefused
  <2> QED BY <1>0, <2>1, <2>2, HandleJoinType DEF FirstMessage, TypeOK
<1>4. ASSUME NEW p \in Peers, NEW q \in Peers, Reconnect(p, q) PROVE TypeOK'
  <2>1. ClientsOK'
    <3> DEFINE m == [type |-> "reconnected", peer |-> q, meta |-> meta[q]]
               here == IF bound[q] \in Rooms THEN roster[bound[q]] \ {q} ELSE {}
               state == [x \in Peers |-> IF x \in here THEN meta[x] ELSE NONE]
    <3>1. m \in Message
      BY DEF Message, TypeOK
    <3>2. state \in [Peers -> Meta \cup {NONE}]
      BY DEF TypeOK
    <3>3. /\ queue' = [Queued(here, m) EXCEPT ![q] = << >>]
          /\ view' = [Seen(here, m) EXCEPT
                        ![q] = IF sockSt[sock'[q]] = "open"
                                 THEN AfterResume(q, state) ELSE @]
      BY <1>4 DEF Reconnect, AnnounceReturn
    <3>4. << >> \in Seq(Message) /\ Len(<< >>) <= QueueMax
      OBVIOUS
    <3> HIDE DEF m, here, state
    <3>5. view' \in [Peers -> [Peers -> Meta \cup {NONE}]]
      BY <3>1, <3>2, <3>3, SendType, ResumeType
    <3>6. Queued(here, m) \in [Peers -> Seq(Message)]
          /\ \A x \in Peers : Len(Queued(here, m)[x]) <= QueueMax
      BY <3>1, SendType
    <3>7. queue' \in [Peers -> Seq(Message)]
          /\ \A x \in Peers : Len(queue'[x]) <= QueueMax
      BY <3>3, <3>4, <3>6
    <3> QED BY <3>5, <3>7 DEF ClientsOK
  <2> QED BY <1>0, <1>4, <2>1
        DEF Reconnect, FirstMessage, TypeOK, ClosableOK, PlacesOK, PeerState
<1>5. ASSUME NEW p \in Peers, HookAllows(p) PROVE TypeOK'
  <2>1. pending[p] \in Rooms /\ meta' \in [Peers -> Meta]
    BY <1>5 DEF HookAllows, TypeOK
  <2>2. AddPeerToRoom(p, pending[p])
    BY <1>5 DEF HookAllows
  <2> QED BY <1>0, <1>5, <2>1, <2>2, AddPeerToRoomType DEF HookAllows, TypeOK
<1>6. ASSUME NEW p \in Peers, HookRefuses(p) PROVE TypeOK'
  <2>1. ClosableOK'
    BY <1>6, CloseType DEF HookRefuses
  <2> QED BY <1>0, <1>6, <2>1 DEF HookRefuses, TypeOK, PlacesOK, ClientsOK
<1>7. ASSUME NEW p \in Peers, Relay(p) PROVE TypeOK'
  <2>1. [type |-> "data", peer |-> p] \in Message
    BY DEF Message
  <2>2. ClientsOK'
    BY <1>7, <2>1, SendType DEF Relay, Send, ClientsOK
  <2> QED BY <1>0, <1>7, <2>2 DEF Relay, TypeOK, ClosableOK, PlacesOK
<1>8. ASSUME NEW p \in Peers, NEW m \in Meta, UpdateMeta(p, m) PROVE TypeOK'
  <2>1. [type |-> "updated", peer |-> p, meta |-> m] \in Message
    BY DEF Message
  <2>2. ClientsOK'
    BY <1>8, <2>1, SendType DEF UpdateMeta, Send, ClientsOK
  <2> QED BY <1>0, <1>8, <2>2 DEF UpdateMeta, TypeOK, ClosableOK, PlacesOK
<1>9. ASSUME NEW p \in Peers, Leave(p) PROVE TypeOK'
  <2>1. bound[p] \in Rooms /\ RemoveFromRoom(p, bound[p])
    BY <1>9 DEF Leave, BoundRoster, TypeOK
  <2>2. PlacesOK' /\ ClientsOK'
    BY <2>1, RemoveType
  <2>3. lefts' \in [Peers -> Nat] /\ holders' \subseteq Peers
    BY <1>9 DEF Leave, TypeOK
  <2>4. ClosableOK'
    BY <1>9 DEF Leave, TypeOK, ClosableOK
  <2> QED BY <1>0, <1>9, <2>2, <2>3, <2>4 DEF Leave, TypeOK
<1>10. ASSUME NEW s \in Peers, CloseFrame(s) PROVE TypeOK'
  BY <1>10 DEF CloseFrame, TypeOK, SocketState
<1>11. ASSUME NEW s \in Peers, SocketClosed(s) PROVE TypeOK'
  <2>1. ClosableOK'
    BY <1>11 DEF SocketClosed, OnSocket, TypeOK, ClosableOK, PeerState, SocketState
  <2>2. CASE UNCHANGED <<registered, places, clients, lefts>>
    BY <1>0, <1>11, <2>1, <2>2
       DEF SocketClosed, TypeOK, PlacesOK, ClientsOK
  <2>3. CASE \E p \in Peers : Disconnected(p)
    BY <1>0, <1>11, <2>1, <2>3, DisconnectedType DEF SocketClosed, TypeOK
  <2> QED BY <1>11, <2>2, <2>3 DEF SocketClosed, OnSocket
<1>12. ASSUME NEW p \in Peers, GraceExpires(p) PROVE TypeOK'
  <2>1. ClosableOK'
    BY <1>12 DEF GraceExpires, TypeOK, ClosableOK, PeerState
  <2> QED BY <1>0, <1>12, <2>1, DisconnectedType DEF GraceExpires, TypeOK
<1>13. ASSUME NEW p \in Peers, Kick(p) PROVE TypeOK'
  <2>1. ClosableOK'
    BY <1>13, CloseType DEF Kick
  <2>2. CASE roomId[p] # NONE
    <3>1. roomId[p] \in Rooms /\ RemoveFromRoom(p, roomId[p])
      BY <1>13, <2>2 DEF Kick, TypeOK
    <3>2. PlacesOK' /\ ClientsOK'
      BY <3>1, RemoveType
    <3>3. lefts' \in [Peers -> Nat]
      <4>1. lefts' = [lefts EXCEPT ![p] = @ + 1]
        BY <1>13, <2>2 DEF Kick
      <4> QED BY <4>1 DEF TypeOK
    <3>4. UNCHANGED <<up, fresh, pending, sock, tokIdx, holders, registered,
                      meta, joins>>
      BY <1>13 DEF Kick
    <3> HIDE DEF conns, tokens, places, clients, counts
    <3> QED BY <1>0, <2>1, <3>2, <3>3, <3>4 DEF TypeOK
  <2>3. CASE roomId[p] = NONE
    BY <1>0, <1>13, <2>1, <2>3 DEF Kick, TypeOK, PlacesOK, ClientsOK
  <2> QED BY <2>2, <2>3
<1>14. ASSUME NEW p \in Peers, AppClose(p) PROVE TypeOK'
  BY <1>0, <1>14, CloseType DEF AppClose, TypeOK, PlacesOK, ClientsOK
<1>15. CASE ServerClose
  BY <1>0, <1>15, CloseType DEF ServerClose, TypeOK, PlacesOK, ClientsOK
<1>16. ASSUME NEW r \in Rooms, CreateRoom(r) PROVE TypeOK'
  BY <1>16 DEF CreateRoom, TypeOK
<1>17. CASE UNCHANGED vars
  BY <1>17 DEF vars, TypeOK
<1> QED
  BY <1>1, <1>2, <1>3, <1>4, <1>5, <1>6, <1>7, <1>8, <1>9, <1>10, <1>11, <1>12,
     <1>13, <1>14, <1>15, <1>16, <1>17 DEF Next, PeerStep

(* Every variable keeps its type in every behaviour of the core.            *)
THEOREM TypeCorrect == Spec => []TypeOK
<1>1. Init => TypeOK
  BY DEF Init, TypeOK, PeerState, SocketState
<1>2. TypeOK /\ [Next]_vars => TypeOK'
  BY TypeStep
<1> QED BY <1>1, <1>2, PTL DEF Spec

-----------------------------------------------------------------------------
(* Membership.  As far as places and events are concerned a step of the     *)
(* core leaves them alone, enters one peer, or removes one.                 *)

Stays ==
  /\ UNCHANGED <<roster, roomId, bound, joins, lefts>>
  /\ rooms \subseteq rooms'

Enters(p, r) ==
  /\ Unstarted(p)
  /\ ~IsFull(r)
  /\ rooms' = rooms \cup {r}
  /\ roster' = [roster EXCEPT ![r] = @ \cup {p}]
  /\ roomId' = [roomId EXCEPT ![p] = r]
  /\ bound' = [bound EXCEPT ![p] = r]
  /\ joins' = [joins EXCEPT ![p] = @ + 1]
  /\ lefts' = lefts

Vacates(p, r) ==
  /\ roster' = [roster EXCEPT ![r] = @ \ {p}]
  /\ roomId' = [roomId EXCEPT ![p] = NONE]
  /\ \/ UNCHANGED <<rooms, bound>>
     \/ /\ roster[r] \subseteq {p}
        /\ rooms' = rooms \ {r}
        /\ bound' = [q \in Peers |-> IF bound[q] = r THEN GONE ELSE bound[q]]

Exits(p) ==
  /\ roomId[p] # NONE
  /\ Vacates(p, roomId[p])
  /\ joins' = joins
  /\ \E n \in {1, 2} : lefts' = [lefts EXCEPT ![p] = @ + n]

LEMMA RemoveVacates ==
  ASSUME NEW p, NEW r, RemoveFromRoom(p, r)
  PROVE  Vacates(p, r)
BY DEF RemoveFromRoom, Vacates

LEMMA DisconnectKinds ==
  ASSUME NEW p \in Peers, Disconnected(p), joins' = joins
  PROVE  Stays \/ Exits(p)
<1>1. CASE roomId[p] = NONE
  BY <1>1 DEF Disconnected, Stays, places
<1>2. CASE roomId[p] # NONE
  <2>1. RemoveFromRoom(p, roomId[p]) /\ lefts' = [lefts EXCEPT ![p] = @ + 2]
    BY <1>2 DEF Disconnected
  <2> QED BY <1>2, <2>1, RemoveVacates DEF Exits
<1> QED BY <1>1, <1>2

LEMMA AddKinds ==
  ASSUME NEW p \in Peers, NEW r \in Rooms, Unstarted(p), AddPeerToRoom(p, r),
         lefts' = lefts
  PROVE  Stays \/ Enters(p, r)
BY DEF AddPeerToRoom, AddPeer, Stays, Enters, places

LEMMA JoinKinds ==
  ASSUME NEW p \in Peers, NEW r \in Rooms, Unstarted(p), HandleJoin(p, r),
         lefts' = lefts
  PROVE  Stays \/ Enters(p, r)
<1>1. CASE UNCHANGED <<places, joins>>
  BY <1>1 DEF Stays, places
<1>2. CASE AddPeerToRoom(p, r)
  BY <1>2, AddKinds
<1> QED BY <1>1, <1>2 DEF HandleJoin

LEMMA StepKinds ==
  ASSUME TypeOK, RosterAgrees, [Next]_vars
  PROVE  \/ Stays
         \/ \E p \in Peers, r \in Rooms : Enters(p, r)
         \/ \E p \in Peers : Exits(p)
<1> DEFINE Kinds == \/ Stays
                    \/ \E p \in Peers, r \in Rooms : Enters(p, r)
                    \/ \E p \in Peers : Exits(p)
<1>1. ASSUME NEW p \in Peers,
             \/ Connect(p) \/ WrongFirstMessage(p) \/ HookRefuses(p) \/ Relay(p)
             \/ (\E m \in Meta : UpdateMeta(p, m))
             \/ (\E q \in Peers : Reconnect(p, q))
             \/ CloseFrame(p) \/ AppClose(p)
      PROVE  Stays
  BY <1>1 DEF Connect, WrongFirstMessage, HookRefuses, Relay, UpdateMeta,
              Reconnect, CloseFrame, AppClose, Stays, places, counts
<1>2. ASSUME NEW p \in Peers, Join(p) \/ ReconnectRefused(p) PROVE Kinds
  <2>1. Unstarted(p) /\ lefts' = lefts
    BY <1>2 DEF Join, ReconnectRefused, FirstMessage, Unstarted
  <2>2. PICK r \in Rooms : HandleJoin(p, r)
    BY <1>2 DEF Join, ReconnectRefused
  <2> QED BY <2>1, <2>2, JoinKinds
<1>3. ASSUME NEW p \in Peers, HookAllows(p) PROVE Kinds
  <2>1. pending[p] \in Rooms /\ Unstarted(p) /\ lefts' = lefts
    BY <1>3 DEF HookAllows, Unstarted, TypeOK
  <2>2. AddPeerToRoom(p, pending[p])
    BY <1>3 DEF HookAllows
  <2> QED BY <2>1, <2>2, AddKinds
<1>4. ASSUME NEW p \in Peers, Leave(p) PROVE Kinds
  <2>1. bound[p] \in Rooms /\ p \in roster[bound[p]]
    BY <1>4 DEF Leave, BoundRoster
  <2>2. roomId[p] = bound[p] /\ roomId[p] # NONE
    BY <2>1 DEF RosterAgrees
  <2>3. RemoveFromRoom(p, roomId[p])
    BY <1>4, <2>2 DEF Leave
  <2>4. joins' = joins /\ lefts' = [lefts EXCEPT ![p] = @ + 1]
    BY <1>4 DEF Leave
  <2> QED BY <2>2, <2>3, <2>4, RemoveVacates DEF Exits
<1>5. ASSUME NEW p \in Peers, SocketClosed(p) PROVE Kinds
  <2>1. joins' = joins
    BY <1>5 DEF SocketClosed
  <2>2. CASE UNCHANGED <<registered, places, clients, lefts>>
    BY <2>1, <2>2 DEF Stays, places
  <2>3. CASE \E q \in Peers : Disconnected(q)
    BY <2>1, <2>3, DisconnectKinds
  <2> QED BY <1>5, <2>2, <2>3 DEF SocketClosed, OnSocket
<1>6. ASSUME NEW p \in Peers, GraceExpires(p) PROVE Kinds
  BY <1>6, DisconnectKinds DEF GraceExpires
<1>7. ASSUME NEW p \in Peers, Kick(p) PROVE Kinds
  <2>1. joins' = joins
    BY <1>7 DEF Kick
  <2>2. CASE roomId[p] = NONE
    BY <1>7, <2>1, <2>2 DEF Kick, Stays, places
  <2>3. CASE roomId[p] # NONE
    <3>1. RemoveFromRoom(p, roomId[p]) /\ lefts' = [lefts EXCEPT ![p] = @ + 1]
      BY <1>7, <2>3 DEF Kick
    <3> QED BY <2>1, <2>3, <3>1, RemoveVacates DEF Exits
  <2> QED BY <2>2, <2>3
<1>8. CASE ServerClose \/ (\E r \in Rooms : CreateRoom(r)) \/ UNCHANGED vars
  BY <1>8 DEF ServerClose, CreateRoom, Stays, places, counts, vars
<1> QED
  BY <1>1, <1>2, <1>3, <1>4, <1>5, <1>6, <1>7, <1>8 DEF Next, PeerStep

(* The three kinds of step keep each part of the invariant.                 *)

LEMMA UnstartedOut ==
  ASSUME IInv, NEW p \in Peers, Unstarted(p)
  PROVE  joins[p] = 0 /\ lefts[p] = 0 /\ roomId[p] = NONE
<1>1. joins[p] = 0 /\ lefts[p] = 0
  BY DEF IInv, JoinsAtMostOnce
<1>2. p \notin Members
  BY <1>1 DEF IInv, EventsTellMembership
<1>3. \A r \in Rooms : roomId[p] # r
  BY <1>2 DEF Members, IInv, RosterAgrees
<1> QED BY <1>1, <1>3 DEF IInv, TypeOK

LEMMA RosterStep ==
  ASSUME IInv, TypeOK', [Next]_vars
  PROVE  RosterAgrees'
<1> USE DEF IInv
<1>1. CASE Stays
  BY <1>1 DEF Stays, RosterAgrees
<1>2. ASSUME NEW p \in Peers, NEW r \in Rooms, Enters(p, r)
      PROVE  RosterAgrees'
  <2>1. roomId[p] = NONE
    BY <1>2, UnstartedOut DEF Enters
  <2> QED BY <1>2, <2>1 DEF Enters, RosterAgrees, TypeOK
<1>3. ASSUME NEW p \in Peers, Exits(p)
      PROVE  RosterAgrees'
  <2> DEFINE r == roomId[p]
  <2>1. r \in Rooms /\ Vacates(p, r)
    BY <1>3 DEF Exits, TypeOK
  <2>2. \A q \in Peers, x \in Rooms : q \in roster'[x] <=> roomId'[q] = x
    BY <2>1 DEF Vacates, RosterAgrees, TypeOK
  <2>3. \A x \in Rooms : roster'[x] # {} => x \in rooms'
    BY <2>1 DEF Vacates, RosterAgrees, TypeOK
  <2>4. \A q \in Peers : roomId'[q] # NONE => bound'[q] = roomId'[q]
    BY <2>1 DEF Vacates, RosterAgrees, TypeOK
  <2> QED BY <2>2, <2>3, <2>4 DEF RosterAgrees
<1> QED BY <1>1, <1>2, <1>3, StepKinds

LEMMA RostersFinite ==
  ASSUME TypeOK, NEW r \in Rooms
  PROVE  IsFiniteSet(roster[r]) /\ Cardinality(roster[r]) \in Nat
<1>1. roster[r] \subseteq Peers
  BY DEF TypeOK
<1> QED BY <1>1, PeersAssumption, FS_Subset, FS_CardinalityType

LEMMA AddOne ==
  ASSUME NEW S, IsFiniteSet(S), NEW x
  PROVE  /\ Cardinality(S \cup {x}) \in Nat
         /\ Cardinality(S \cup {x}) <= Cardinality(S) + 1
<1>1. Cardinality(S \cup {x}) = Cardinality(S)
      \/ Cardinality(S \cup {x}) = Cardinality(S) + 1
  BY FS_AddElement
<1>2. Cardinality(S) \in Nat
  BY FS_CardinalityType
<1> QED BY <1>1, <1>2

LEMMA CapacityStep ==
  ASSUME IInv, [Next]_vars
  PROVE  CapacityRespected'
<1> USE DEF IInv
<1>1. CASE Stays
  BY <1>1 DEF Stays, CapacityRespected
<1>2. ASSUME NEW p \in Peers, NEW r \in Rooms, Enters(p, r)
      PROVE  CapacityRespected'
  <2>1. Cardinality(roster[r]) \in Nat /\ Cardinality(roster[r]) < MaxPeers
    BY <1>2, RostersFinite DEF Enters, IsFull
  <2>2. Cardinality(roster[r] \cup {p}) <= Cardinality(roster[r]) + 1
    BY RostersFinite, AddOne
  <2>3. Cardinality(roster[r] \cup {p}) \in Nat
    BY RostersFinite, AddOne
  <2>4. Cardinality(roster[r] \cup {p}) <= MaxPeers
    BY <2>1, <2>2, <2>3
  <2>5. /\ roster'[r] = roster[r] \cup {p}
        /\ \A x \in Rooms \ {r} : roster'[x] = roster[x]
    BY <1>2 DEF Enters, TypeOK
  <2> QED BY <2>4, <2>5 DEF CapacityRespected
<1>3. ASSUME NEW p \in Peers, Exits(p)
      PROVE  CapacityRespected'
  <2>1. SUFFICES ASSUME NEW x \in Rooms
                 PROVE  Cardinality(roster'[x]) <= MaxPeers
    BY DEF CapacityRespected
  <2>2. roster'[x] \subseteq roster[x]
    BY <1>3 DEF Exits, Vacates, TypeOK
  <2>3. /\ Cardinality(roster'[x]) <= Cardinality(roster[x])
        /\ Cardinality(roster'[x]) \in Nat
    BY <2>2, RostersFinite, FS_Subset, FS_CardinalityType
  <2>4. Cardinality(roster[x]) <= MaxPeers /\ Cardinality(roster[x]) \in Nat
    BY RostersFinite DEF CapacityRespected
  <2> QED BY <2>3, <2>4
<1> QED BY <1>1, <1>2, <1>3, StepKinds

(* No step makes a peer able to join again.                                 *)
LEMMA StartStep ==
  ASSUME IInv, [Next]_vars, NEW x \in Peers
  PROVE  /\ st'[x] = "none" => x \notin fresh' /\ pending'[x] = NONE
         /\ x \in fresh' => pending'[x] = NONE
         /\ Unstarted(x)' => Unstarted(x)
<1> USE DEF IInv, Unstarted, conns, JoinsAtMostOnce
<1> DEFINE Goal == /\ st'[x] = "none" => x \notin fresh' /\ pending'[x] = NONE
                   /\ x \in fresh' => pending'[x] = NONE
                   /\ Unstarted(x)' => Unstarted(x)
<1>1. ASSUME NEW p \in Peers, Connect(p) PROVE Goal
  BY <1>1 DEF Connect, TypeOK
<1>2. ASSUME NEW p \in Peers, WrongFirstMessage(p) PROVE Goal
  BY <1>2 DEF WrongFirstMessage, FirstMessage, ClosePeers, TypeOK
<1>3. ASSUME NEW p \in Peers, Join(p) \/ ReconnectRefused(p) PROVE Goal
  <2>1. PICK r \in Rooms : HandleJoin(p, r)
    BY <1>3 DEF Join, ReconnectRefused
  <2>2. p \in fresh /\ fresh' = fresh \ {p}
    BY <1>3 DEF Join, ReconnectRefused, FirstMessage
  <2>3. /\ pending' = pending \/ pending' = [pending EXCEPT ![p] = r]
        /\ \A y \in Peers : st'[y] = "none" => st[y] = "none"
    BY <2>1 DEF HandleJoin, AddPeerToRoom, AddPeer, ClosePeers, TypeOK
  <2> QED BY <2>2, <2>3 DEF TypeOK
<1>4. ASSUME NEW p \in Peers, NEW q \in Peers, Reconnect(p, q) PROVE Goal
  BY <1>4 DEF Reconnect, FirstMessage, TypeOK
<1>5. ASSUME NEW p \in Peers, HookAllows(p) PROVE Goal
  BY <1>5 DEF HookAllows, AddPeerToRoom, AddPeer, ClosePeers, TypeOK
<1>6. ASSUME NEW p \in Peers, HookRefuses(p) PROVE Goal
  BY <1>6 DEF HookRefuses, ClosePeers, TypeOK
<1>7. ASSUME NEW p \in Peers,
             \/ Relay(p) \/ (\E m \in Meta : UpdateMeta(p, m)) \/ Leave(p)
             \/ CloseFrame(p)
      PROVE  Goal
  BY <1>7 DEF Relay, UpdateMeta, Leave, CloseFrame
<1>8. ASSUME NEW p \in Peers, SocketClosed(p) PROVE Goal
  BY <1>8 DEF SocketClosed, TypeOK
<1>9. ASSUME NEW p \in Peers, GraceExpires(p) PROVE Goal
  BY <1>9 DEF GraceExpires, TypeOK
<1>10. ASSUME NEW p \in Peers, Kick(p) \/ AppClose(p) PROVE Goal
  BY <1>10 DEF Kick, AppClose, ClosePeers, TypeOK
<1>11. CASE ServerClose
  BY <1>11 DEF ServerClose, ClosePeers, TypeOK
<1>12. CASE (\E r \in Rooms : CreateRoom(r)) \/ UNCHANGED vars
  BY <1>12 DEF CreateRoom, vars
<1> QED
  BY <1>1, <1>2, <1>3, <1>4, <1>5, <1>6, <1>7, <1>8, <1>9, <1>10, <1>11, <1>12
     DEF Next, PeerStep

(* A peer that enters has used up its only way in.                          *)
LEMMA EntryIsSpent ==
  ASSUME IInv, [Next]_vars, NEW p \in Peers, joins'[p] # joins[p]
  PROVE  ~Unstarted(p)'
<1> USE DEF IInv, Unstarted, conns, counts, JoinsAtMostOnce
<1>1. ASSUME NEW q \in Peers, NEW r \in Rooms, AddPeerToRoom(q, r)
      PROVE  q = p /\ AddPeer(q, r) /\ st'[p] = "joined"
  BY <1>1 DEF AddPeerToRoom, AddPeer, TypeOK
<1>2. ASSUME NEW q \in Peers, Join(q) \/ ReconnectRefused(q)
      PROVE  ~Unstarted(p)'
  <2>1. PICK r \in Rooms : HandleJoin(q, r)
    BY <1>2 DEF Join, ReconnectRefused
  <2>2. AddPeerToRoom(q, r) /\ UNCHANGED pending
    BY <2>1 DEF HandleJoin
  <2>3. q \in fresh /\ fresh' = fresh \ {q}
    BY <1>2 DEF Join, ReconnectRefused, FirstMessage
  <2> QED BY <1>1, <2>2, <2>3
<1>3. ASSUME NEW q \in Peers, HookAllows(q)
      PROVE  ~Unstarted(p)'
  <2>1. /\ pending[q] \in Rooms
        /\ AddPeerToRoom(q, pending[q])
        /\ pending' = [pending EXCEPT ![q] = NONE]
        /\ fresh' = fresh
    BY <1>3 DEF HookAllows, TypeOK
  <2> QED BY <1>1, <2>1 DEF TypeOK
<1> QED
  BY <1>2, <1>3
     DEF Next, PeerStep, Connect, WrongFirstMessage, Reconnect, HookRefuses,
         Relay, UpdateMeta, Leave, CloseFrame, SocketClosed, GraceExpires, Kick,
         AppClose, ServerClose, CreateRoom, vars

LEMMA OnceStep ==
  ASSUME IInv, [Next]_vars
  PROVE  JoinsAtMostOnce'
<1> SUFFICES ASSUME NEW x \in Peers
             PROVE  /\ st'[x] = "none" => x \notin fresh' /\ pending'[x] = NONE
                    /\ x \in fresh' => pending'[x] = NONE
                    /\ Unstarted(x)' => joins'[x] = 0
                    /\ joins'[x] = 0 => lefts'[x] = 0
                    /\ joins'[x] <= 1
  BY DEF JoinsAtMostOnce, Unstarted
<1>1. /\ st'[x] = "none" => x \notin fresh' /\ pending'[x] = NONE
      /\ x \in fresh' => pending'[x] = NONE
  BY StartStep
<1>2. Unstarted(x) => joins[x] = 0
  BY DEF IInv, JoinsAtMostOnce
<1>3. Unstarted(x)' => joins'[x] = 0
  BY <1>2, StartStep, EntryIsSpent
<1>4. (joins'[x] = 0 => lefts'[x] = 0) /\ joins'[x] <= 1
  <2>1. CASE Stays
    BY <2>1 DEF Stays, IInv, JoinsAtMostOnce
  <2>2. ASSUME NEW p \in Peers, NEW r \in Rooms, Enters(p, r)
        PROVE  (joins'[x] = 0 => lefts'[x] = 0) /\ joins'[x] <= 1
    <3>1. joins[p] = 0 /\ lefts[p] = 0
      BY <2>2, UnstartedOut DEF Enters
    <3> QED BY <2>2, <3>1 DEF Enters, IInv, JoinsAtMostOnce, TypeOK
  <2>3. ASSUME NEW p \in Peers, Exits(p)
        PROVE  (joins'[x] = 0 => lefts'[x] = 0) /\ joins'[x] <= 1
    <3>1. p \in Members
      BY <2>3 DEF Exits, Members, IInv, RosterAgrees, TypeOK
    <3>2. joins[p] = 1
      BY <3>1 DEF IInv, EventsTellMembership
    <3> QED BY <2>3, <3>2 DEF Exits, IInv, JoinsAtMostOnce, TypeOK
  <2> QED BY <2>1, <2>2, <2>3, StepKinds DEF IInv
<1> QED BY <1>1, <1>3, <1>4

LEMMA EventsStep ==
  ASSUME IInv, TypeOK', RosterAgrees', [Next]_vars
  PROVE  EventsTellMembership'
<1> SUFFICES ASSUME NEW x \in Peers
             PROVE  (roomId'[x] # NONE) <=> (joins'[x] = 1 /\ lefts'[x] = 0)
  <2>1. \A x \in Peers : x \in Members' <=> roomId'[x] # NONE
    BY DEF Members, RosterAgrees, TypeOK
  <2> QED BY <2>1 DEF EventsTellMembership
<1>1. (roomId[x] # NONE) <=> (joins[x] = 1 /\ lefts[x] = 0)
  BY DEF IInv, EventsTellMembership, Members, RosterAgrees, TypeOK
<1>2. CASE Stays
  BY <1>1, <1>2 DEF Stays
<1>3. ASSUME NEW p \in Peers, NEW r \in Rooms, Enters(p, r)
      PROVE  (roomId'[x] # NONE) <=> (joins'[x] = 1 /\ lefts'[x] = 0)
  <2>1. joins[p] = 0 /\ lefts[p] = 0
    BY <1>3, UnstartedOut DEF Enters
  <2> QED BY <1>1, <1>3, <2>1 DEF Enters, IInv, TypeOK
<1>4. ASSUME NEW p \in Peers, Exits(p)
      PROVE  (roomId'[x] # NONE) <=> (joins'[x] = 1 /\ lefts'[x] = 0)
  BY <1>1, <1>4 DEF Exits, Vacates, IInv, TypeOK
<1> QED BY <1>2, <1>3, <1>4, StepKinds DEF IInv

-----------------------------------------------------------------------------
(* The invariants. *)

LEMMA IInvInductive == Spec => []IInv
<1>1. Init => IInv
  <2>1. ASSUME Init PROVE TypeOK
    BY <2>1 DEF Init, TypeOK, PeerState, SocketState
  <2>2. ASSUME Init PROVE CapacityRespected
    BY <2>2, FS_EmptySet DEF Init, CapacityRespected
  <2>3. ASSUME Init PROVE RosterAgrees /\ JoinsAtMostOnce /\ EventsTellMembership
    BY <2>3 DEF Init, RosterAgrees, JoinsAtMostOnce, Unstarted,
                EventsTellMembership, Members
  <2> QED BY <2>1, <2>2, <2>3 DEF IInv
<1>2. IInv /\ [Next]_vars => IInv'
  <2> SUFFICES ASSUME IInv, [Next]_vars
               PROVE  IInv'
    OBVIOUS
  <2>1. TypeOK'
    BY TypeStep DEF IInv
  <2>2. RosterAgrees'
    BY <2>1, RosterStep
  <2> QED BY <2>1, <2>2, CapacityStep, OnceStep, EventsStep DEF IInv
<1> QED BY <1>1, <1>2, PTL DEF Spec

(* Peer.roomId, Room.peers and SignalingServer.rooms always agree.          *)
THEOREM RosterAlwaysAgrees == Spec => []RosterAgrees
<1>1. IInv => RosterAgrees
  BY DEF IInv
<1> QED BY <1>1, IInvInductive, PTL

(* No room ever holds more than MaxPeers peers, whatever hooks, grace       *)
(* periods and resumptions do, for every number of connections.             *)
THEOREM CapacityAlwaysRespected == Spec => []CapacityRespected
<1>1. IInv => CapacityRespected
  BY DEF IInv
<1> QED BY <1>1, IInvInductive, PTL

(* peer:joined and peer:left tell the listeners of the server who is in.    *)
THEOREM EventsAlwaysTellMembership == Spec => []EventsTellMembership
<1>1. IInv => EventsTellMembership
  BY DEF IInv
<1> QED BY <1>1, IInvInductive, PTL
=============================================================================
