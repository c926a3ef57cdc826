------------------------------ MODULE Signaling ------------------------------
(***************************************************************************)
(* The signaling core: SignalingServer.js, Room.js and Peer.js, the three  *)
(* classes every other part of the repository listens to.                  *)
(*                                                                         *)
(* Node runs one callback at a time, so an action is one callback: a       *)
(* WebSocket event, a timer, the continuation of an awaited hook, or a     *)
(* call of the public API.  What interleaves is the callbacks.             *)
(*                                                                         *)
(* Connection c brings a socket c and a peer c, so one constant names      *)
(* both.  A resumed peer moves to the socket of a later connection: sock.  *)
(*                                                                         *)
(* An operator whose name no action uses (TimersKept, EveryMessage)        *)
(* is the operator below it with a plausible mistake in it.                *)
(***************************************************************************)
EXTENDS Naturals, FiniteSets, SequencesExt

CONSTANTS
  Peers,        \* connections the server accepts; bounds a behaviour
  Rooms,        \* room ids clients ask for
  MaxPeers,     \* options.maxPeersPerRoom
  QueueMax,     \* SEND_QUEUE_MAX (32 in the code)
  Meta,         \* metadata a client can give itself
  NoMeta,       \* the empty metadata of a new peer
  NONE,         \* null: no room, no hook pending, a peer a client does not list
  GONE,         \* a Room object the server has dropped
  Ttl,          \* options.reconnectTtl > 0
  Hook,         \* options.beforeJoin is set
  AutoCreate,   \* options.autoCreateRooms
  AutoDestroy,  \* options.autoDestroyRooms
  Forget,       \* clients drop their reconnect token when they leave
  Closes        \* the application calls Peer.close or SignalingServer.close

ASSUME MaxPeersAssumption == MaxPeers \in Nat \ {0}
ASSUME QueueMaxAssumption == QueueMax \in Nat
ASSUME PeersAssumption == IsFiniteSet(Peers)
ASSUME MetaAssumption == NoMeta \in Meta /\ NONE \notin Meta
ASSUME RoomsAssumption == NONE \notin Rooms /\ GONE \notin Rooms /\ NONE # GONE
ASSUME OptionsAssumption ==
  {Ttl, Hook, AutoCreate, AutoDestroy, Forget, Closes} \subseteq BOOLEAN

VARIABLES
  up,           \* the server still accepts connections
  st,           \* Peer.state, "none" before the connection
  sock,         \* Peer.socket, named by the connection that opened it
  sockSt,       \* readyState of a socket, and which side began to close it
  fresh,        \* peers whose once("signal") listener has not fired
  pending,      \* the room whose beforeJoin hook is awaited for a peer
  token,        \* peers whose reconnectToken is not null
  timer,        \* peers whose grace-period timer is armed
  registered,   \* SignalingServer.peers
  tokIdx,       \* SignalingServer._reconnectTokens, by the peer of the token
  rooms,        \* SignalingServer.rooms
  roster,       \* Room.peers of each room
  roomId,       \* Peer.roomId
  bound,        \* the Room object whose listeners a peer carries
  meta,         \* Peer.metadata
  queue,        \* Peer._sendQueue
  view,         \* the peers a client lists once it has read all it was sent
  holders,      \* peers whose client has kept its reconnect token
  joins,        \* peer:joined events of the server, counted per peer
  lefts         \* peer:left events of the server, counted per peer

conns == <<up, fresh, pending>>
tokens == <<token, tokIdx, holders>>
places == <<rooms, roster, roomId, bound>>
clients == <<queue, view>>
counts == <<joins, lefts>>
vars == <<conns, st, sock, sockSt, tokens, timer, registered, places, meta,
          clients, counts>>

PeerState == {"none", "connecting", "joined", "reconnecting", "closed"}

(* "closing": the server called close(), frames from the client are still  *)
(* read.  "ending": the client's close frame arrived, nothing more is read. *)
SocketState == {"none", "open", "closing", "ending", "closed"}

Message ==
  [type : {"joined", "reconnected", "updated"}, peer : Peers, meta : Meta]
    \cup [type : {"left", "data"}, peer : Peers]

TypeOK ==
  /\ up \in BOOLEAN
  /\ st \in [Peers -> PeerState]
  /\ sock \in [Peers -> Peers]
  /\ sockSt \in [Peers -> SocketState]
  /\ pending \in [Peers -> Rooms \cup {NONE}]
  /\ fresh \subseteq Peers /\ token \subseteq Peers /\ timer \subseteq Peers
  /\ registered \subseteq Peers /\ tokIdx \subseteq Peers
  /\ holders \subseteq Peers
  /\ rooms \subseteq Rooms
  /\ roster \in [Rooms -> SUBSET Peers]
  /\ roomId \in [Peers -> Rooms \cup {NONE}]
  /\ bound \in [Peers -> Rooms \cup {NONE, GONE}]
  /\ meta \in [Peers -> Meta]
  /\ queue \in [Peers -> Seq(Message)]
  /\ \A p \in Peers : Len(queue[p]) <= QueueMax
  /\ view \in [Peers -> [Peers -> Meta \cup {NONE}]]
  /\ joins \in [Peers -> Nat]
  /\ lefts \in [Peers -> Nat]

Init ==
  /\ up = TRUE
  /\ st = [p \in Peers |-> "none"]
  /\ sock = [p \in Peers |-> p]
  /\ sockSt = [p \in Peers |-> "none"]
  /\ pending = [p \in Peers |-> NONE]
  /\ fresh = {} /\ token = {} /\ timer = {}
  /\ registered = {} /\ tokIdx = {} /\ holders = {}
  /\ rooms = {}
  /\ roster = [r \in Rooms |-> {}]
  /\ roomId = [p \in Peers |-> NONE]
  /\ bound = [p \in Peers |-> NONE]
  /\ meta = [p \in Peers |-> NoMeta]
  /\ queue = [p \in Peers |-> << >>]
  /\ view = [p \in Peers |-> [q \in Peers |-> NONE]]
  /\ joins = [p \in Peers |-> 0]
  /\ lefts = [p \in Peers |-> 0]

-----------------------------------------------------------------------------
(* Sending.  What a client lists is examples/client.html's knownPeers.      *)

Members == UNION {roster[r] : r \in Rooms}

Open(p) == sockSt[sock[p]] = "open"

(* Frames of the client of p are still read. *)
Heard(p) == sockSt[sock[p]] \in {"open", "closing"}

(* The peers a client lists after one message more. *)
Receive(known, m) ==
  CASE m.type \in {"joined", "reconnected"} -> [known EXCEPT ![m.peer] = m.meta]
    [] m.type = "updated" /\ known[m.peer] # NONE ->
         [known EXCEPT ![m.peer] = m.meta]
    [] m.type = "left" -> [known EXCEPT ![m.peer] = NONE]
    [] m.type = "state" -> m.known
    [] OTHER -> known

(* The roster carried by room:joined and room:state, without p itself. *)
Snapshot(r, p) ==
  [q \in Peers |-> IF q \in roster[r] \ {p} THEN meta[q] ELSE NONE]

(* Peer.send to each of the peers in to: queued in the grace period while   *)
(* the queue has room, written to an open socket, dropped otherwise.        *)
Queued(to, m) ==
  [q \in Peers |->
     IF q \in to /\ st[q] = "reconnecting" /\ Len(queue[q]) < QueueMax
       THEN Append(queue[q], m) ELSE queue[q]]

Seen(to, m) ==
  [q \in Peers |->
     IF q \in to /\ st[q] # "reconnecting" /\ Open(q)
       THEN Receive(view[q], m) ELSE view[q]]

Send(to, m) == queue' = Queued(to, m) /\ view' = Seen(to, m)

AfterResumeLateFlush(p, state) == FoldLeft(Receive, state, queue[p])

(* replaceSocket flushes the queue, then _onPeerReconnected sends the whole *)
(* state, which replaces whatever the flushed messages left in the list.    *)
AfterResume(p, state) ==
  Receive(FoldLeft(Receive, view[p], queue[p]), [type |-> "state", known |-> state])

-----------------------------------------------------------------------------
(* Parts of handlers. *)

TimersKept(ps) == UNCHANGED timer

(* clearTimeout(_reconnectTimer) *)
ClearTimers(ps) == timer' = timer \ ps

TimersOnFirstDrop(ps) == timer' = timer \cup {p \in ps : sock[p] = p}

(* setTimeout of the grace period *)
ArmTimers(ps) == timer' = timer \cup ps

TokenKept(p) == UNCHANGED tokIdx

(* _reconnectTokens.delete(token) *)
SpendToken(p) == tokIdx' = tokIdx \ {p}

(* Peer.close *)
CloseSockets(ps) ==
  sockSt' = [s \in Peers |->
    IF sockSt[s] = "open" /\ \E p \in ps : sock[p] = s
      THEN "closing" ELSE sockSt[s]]

ClosePeers(ps) ==
  /\ ClearTimers(ps)
  /\ token' = token \ ps
  /\ st' = [p \in Peers |-> IF p \in ps THEN "closed" ELSE st[p]]
  /\ CloseSockets(ps)

EmptyTooSoon(p, r) == Cardinality(roster[r]) <= 2

(* Room.isEmpty once p is deleted. *)
EmptyWithout(p, r) == roster[r] \subseteq {p}

(* Room._removePeer, with the peer:left listener of _createRoom that counts *)
(* the event and destroys a room left empty.  Listeners are never removed.  *)
RemoveFromRoom(p, r) ==
  /\ roster' = [roster EXCEPT ![r] = @ \ {p}]
  /\ roomId' = [roomId EXCEPT ![p] = NONE]
  /\ Send(roster[r] \ {p}, [type |-> "left", peer |-> p])
  /\ IF AutoDestroy /\ EmptyWithout(p, r)
       THEN /\ rooms' = rooms \ {r}
            /\ bound' = [q \in Peers |-> IF bound[q] = r THEN GONE ELSE bound[q]]
       ELSE UNCHANGED <<rooms, bound>>

DisconnectedServerOnly(p) ==
  /\ registered' = registered \ {p}
  /\ lefts' = IF roomId[p] # NONE THEN [lefts EXCEPT ![p] = @ + 1] ELSE lefts
  /\ UNCHANGED <<places, clients>>

(* The "disconnect" listeners, in their order: the server forgets the peer  *)
(* and announces peer:left, then the room removes it and announces it again. *)
Disconnected(p) ==
  /\ registered' = registered \ {p}
  /\ IF roomId[p] # NONE
       THEN /\ RemoveFromRoom(p, roomId[p])
            /\ lefts' = [lefts EXCEPT ![p] = @ + 2]
       ELSE UNCHANGED <<places, clients, lefts>>

IsFullOffByOne(r) == Cardinality(roster[r]) > MaxPeers

(* Room.addPeer's test *)
IsFull(r) == Cardinality(roster[r]) >= MaxPeers

(* Room.addPeer on success, and the server's peer:joined. *)
AddPeer(p, r) ==
  /\ rooms' = rooms \cup {r}
  /\ roomId' = [roomId EXCEPT ![p] = r]
  /\ st' = [st EXCEPT ![p] = "joined"]
  /\ holders' = IF p \in token /\ Open(p) THEN holders \cup {p} ELSE holders
  /\ LET m == [type |-> "joined", peer |-> p, meta |-> meta'[p]] IN
     /\ queue' = Queued(roster[r], m)
     /\ view' = [Seen(roster[r], m) EXCEPT
                   ![p] = IF Open(p) THEN Snapshot(r, p) ELSE @]
  /\ roster' = [roster EXCEPT ![r] = @ \cup {p}]
  /\ bound' = [bound EXCEPT ![p] = r]
  /\ joins' = [joins EXCEPT ![p] = @ + 1]
  /\ UNCHANGED <<sockSt, token, timer>>

(* _addPeerToRoom: the peer's state is not looked at. *)
AddPeerToRoom(p, r) ==
  \/ /\ r \notin rooms /\ ~AutoCreate
     /\ ClosePeers({p})
     /\ UNCHANGED <<holders, places, clients, joins>>
  \/ /\ r \in rooms \/ AutoCreate
     /\ IsFull(r)                       \* ROOM_FULL: the socket stays open
     /\ rooms' = rooms \cup {r}
     /\ UNCHANGED <<st, sockSt, holders, token, timer, roster, roomId, bound,
                    clients, joins>>
  \/ /\ r \in rooms \/ AutoCreate
     /\ ~IsFull(r)
     /\ AddPeer(p, r)

(* _handleJoin: a request refused for its room id or its RoomToken closes   *)
(* the peer; otherwise the hook is awaited, or the peer added at once.      *)
HandleJoin(p, r) ==
  /\ \E m \in Meta : meta' = [meta EXCEPT ![p] = m]
  /\ \/ /\ ClosePeers({p})
        /\ UNCHANGED <<pending, holders, places, clients, joins>>
     \/ /\ Hook
        /\ pending' = [pending EXCEPT ![p] = r]
        /\ UNCHANGED <<st, sockSt, token, timer, holders, places, clients, joins>>
     \/ /\ ~Hook
        /\ AddPeerToRoom(p, r)
        /\ UNCHANGED pending

-----------------------------------------------------------------------------
(* Connections and their first message. *)

(* _onConnection *)
Connect(p) ==
  /\ up /\ st[p] = "none"
  /\ st' = [st EXCEPT ![p] = "connecting"]
  /\ sockSt' = [sockSt EXCEPT ![p] = "open"]
  /\ registered' = registered \cup {p}
  /\ fresh' = fresh \cup {p}
  /\ token' = IF Ttl THEN token \cup {p} ELSE token
  /\ tokIdx' = IF Ttl THEN tokIdx \cup {p} ELSE tokIdx
  /\ UNCHANGED <<up, pending, sock, holders, timer, places, meta, clients, counts>>

EveryMessage(p) ==
  /\ p \in fresh /\ Heard(p)
  /\ UNCHANGED fresh

(* once("signal"): the listener is gone after one message. *)
FirstMessage(p) ==
  /\ p \in fresh /\ Heard(p)
  /\ fresh' = fresh \ {p}

(* Any type but join and reconnect: MUST_JOIN_FIRST. *)
WrongFirstMessage(p) ==
  /\ FirstMessage(p)
  /\ ClosePeers({p})
  /\ UNCHANGED <<up, pending, sock, tokIdx, holders, registered, places, meta,
                 clients, counts>>

Join(p) ==
  /\ FirstMessage(p)
  /\ \E r \in Rooms : HandleJoin(p, r)
  /\ UNCHANGED <<up, sock, tokIdx, registered, lefts>>

ResumableAnyState(q, r) ==
  /\ q \in tokIdx
  /\ (IF roomId[q] # NONE THEN roomId[q] ELSE r) \in rooms

(* _handleReconnect honours the token of q for a client that names room r:  *)
(* the room that must stand is that of the peer, else the one named.        *)
Resumable(q, r) ==
  /\ q \in tokIdx
  /\ st[q] = "reconnecting"
  /\ (IF roomId[q] # NONE THEN roomId[q] ELSE r) \in rooms

ReconnectRefusedSpends(p) ==
  /\ FirstMessage(p)
  /\ \E r \in Rooms, q \in holders :
       /\ ~Resumable(q, r)
       /\ HandleJoin(p, r)
       /\ SpendToken(q)
  /\ UNCHANGED <<up, sock, registered, lefts>>

(* A token that cannot be honoured (any reconnect, without a grace period)  *)
(* falls back to a join.                                                    *)
ReconnectRefused(p) ==
  /\ FirstMessage(p)
  /\ \E r \in Rooms :
       /\ Ttl => \E q \in holders : ~Resumable(q, r)
       /\ HandleJoin(p, r)
  /\ UNCHANGED <<up, sock, tokIdx, registered, lefts>>

(* _onPeerReconnected runs in every room object whose listeners q carries,  *)
(* whether or not q is still in its roster.                                 *)
AnnounceReturn(q) ==
  LET r == bound[q]
      m == [type |-> "reconnected", peer |-> q, meta |-> meta[q]]
      here == IF r \in Rooms THEN roster[r] \ {q} ELSE {}
      state == [x \in Peers |-> IF x \in here THEN meta[x] ELSE NONE]
  IN  /\ queue' = [Queued(here, m) EXCEPT ![q] = << >>]
      /\ view' = [Seen(here, m) EXCEPT
                    ![q] = IF sockSt[sock'[q]] = "open"
                             THEN AfterResume(q, state) ELSE @]

(* _handleReconnect on success: the temporary peer p is discarded and its   *)
(* socket spliced into q.                                                   *)
Reconnect(p, q) ==
  /\ FirstMessage(p)
  /\ q \in holders /\ \E r \in Rooms : Resumable(q, r)
  /\ SpendToken(q)
  /\ registered' = (registered \ {p}) \cup {q}
  /\ ClearTimers({q})
  /\ sock' = [sock EXCEPT ![q] = p]
  /\ st' = [st EXCEPT ![q] = "joined"]
  /\ AnnounceReturn(q)
  /\ UNCHANGED <<up, pending, sockSt, token, holders, places, meta, counts>>

-----------------------------------------------------------------------------
(* The continuation of an awaited beforeJoin. *)

HookAllows(p) ==
  /\ pending[p] # NONE
  /\ pending' = [pending EXCEPT ![p] = NONE]
  /\ \E m \in Meta : meta' = [meta EXCEPT ![p] = m]  \* the hook may set it
  /\ AddPeerToRoom(p, pending[p])
  /\ UNCHANGED <<up, fresh, sock, tokIdx, registered, lefts>>

HookRefuses(p) ==
  /\ pending[p] # NONE
  /\ pending' = [pending EXCEPT ![p] = NONE]
  /\ ClosePeers({p})
  /\ UNCHANGED <<up, fresh, sock, tokIdx, holders, registered, places, meta,
                 clients, counts>>

-----------------------------------------------------------------------------
(* Room._handleSignal, run by the room object whose listeners p carries. *)

Signals(p) == bound[p] # NONE /\ Heard(p)

BoundRoster(p) == IF bound[p] \in Rooms THEN roster[bound[p]] ELSE {}

(* offer, answer, ice-candidate and data: to one member, or data to all. *)
Relay(p) ==
  /\ Signals(p)
  /\ \E to \in {{q} : q \in BoundRoster(p)} \cup {BoundRoster(p) \ {p}} :
       Send(to, [type |-> "data", peer |-> p])
  /\ UNCHANGED <<conns, st, sock, sockSt, tokens, timer, registered, places,
                 meta, counts>>

UpdateMeta(p, m) ==
  /\ Signals(p)
  /\ meta' = [meta EXCEPT ![p] = m]
  /\ Send(BoundRoster(p) \ {p}, [type |-> "updated", peer |-> p, meta |-> m])
  /\ UNCHANGED <<conns, st, sock, sockSt, tokens, timer, registered, places,
                 counts>>

Leave(p) ==
  /\ Signals(p) /\ p \in BoundRoster(p)
  /\ RemoveFromRoom(p, bound[p])
  /\ lefts' = [lefts EXCEPT ![p] = @ + 1]
  /\ holders' = IF Forget THEN holders \ {p} ELSE holders
  /\ UNCHANGED <<conns, st, sock, sockSt, token, tokIdx, timer, registered, meta,
                 joins>>

-----------------------------------------------------------------------------
(* Sockets and the grace period. *)

(* The client's close frame: readyState is CLOSING, "close" comes later. *)
CloseFrame(s) ==
  /\ sockSt[s] = "open"
  /\ sockSt' = [sockSt EXCEPT ![s] = "ending"]
  /\ UNCHANGED <<conns, st, sock, tokens, timer, registered, places, meta,
                 clients, counts>>

(* The "close" event reaches every peer on the socket: the temporary peer   *)
(* of a reconnect keeps its listener.  Those with a token start their grace *)
(* period, those without are disconnected.                                  *)
OnSocket(s) == {p \in Peers : sock[p] = s /\ st[p] # "closed"}

SocketClosed(s) ==
  /\ sockSt[s] \in {"open", "closing", "ending"}
  /\ sockSt' = [sockSt EXCEPT ![s] = "closed"]
  /\ LET graced == OnSocket(s) \cap token
         gone == OnSocket(s) \ token
     IN  /\ st' = [p \in Peers |-> IF p \in graced THEN "reconnecting"
                                   ELSE IF p \in gone THEN "closed" ELSE st[p]]
         /\ ArmTimers(graced)
         /\ \/ /\ gone = {}
               /\ UNCHANGED <<registered, places, clients, lefts>>
            \/ \E p \in gone : gone = {p} /\ Disconnected(p)
  /\ UNCHANGED <<conns, sock, tokens, meta, joins>>

(* A closing handshake ends: by the other side, or by the timeout of ws. *)
CloseCompletes(s) == sockSt[s] \in {"closing", "ending"} /\ SocketClosed(s)

(* The timer of the grace period: the token is nulled before "disconnect"   *)
(* runs, so the index entry is not found and stays.                         *)
GraceExpires(p) ==
  /\ p \in timer
  /\ timer' = timer \ {p}
  /\ token' = token \ {p}
  /\ st' = [st EXCEPT ![p] = "closed"]
  /\ Disconnected(p)
  /\ UNCHANGED <<conns, sock, sockSt, tokIdx, holders, meta, joins>>

-----------------------------------------------------------------------------
(* The public API. *)

CreateRoom(r) ==
  /\ r \notin rooms
  /\ rooms' = rooms \cup {r}
  /\ UNCHANGED <<conns, st, sock, sockSt, tokens, timer, registered, roster,
                 roomId, bound, meta, clients, counts>>

(* SignalingServer.kick *)
Kick(p) ==
  /\ p \in registered
  /\ ClosePeers({p})
  /\ IF roomId[p] # NONE
       THEN /\ RemoveFromRoom(p, roomId[p])
            /\ lefts' = [lefts EXCEPT ![p] = @ + 1]
       ELSE UNCHANGED <<places, clients, lefts>>
  /\ UNCHANGED <<conns, sock, tokIdx, holders, registered, meta, joins>>

(* Peer.close called directly, as BackpressureController and ThreatDetector *)
(* do: nothing tells the room.                                              *)
AppClose(p) ==
  /\ Closes /\ p \in registered
  /\ ClosePeers({p})
  /\ UNCHANGED <<conns, sock, tokIdx, holders, registered, places, meta,
                 clients, counts>>

(* SignalingServer.close *)
ServerClose ==
  /\ Closes /\ up
  /\ up' = FALSE
  /\ ClosePeers(registered)
  /\ UNCHANGED <<fresh, pending, sock, tokIdx, holders, registered, places, meta,
                 clients, counts>>

-----------------------------------------------------------------------------
PeerStep(p) ==
  \/ Connect(p) \/ WrongFirstMessage(p) \/ Join(p) \/ ReconnectRefused(p)
  \/ \E q \in Peers : Reconnect(p, q)
  \/ HookAllows(p) \/ HookRefuses(p)
  \/ Relay(p) \/ Leave(p)
  \/ \E m \in Meta : UpdateMeta(p, m)
  \/ CloseFrame(p) \/ SocketClosed(p) \/ GraceExpires(p)
  \/ Kick(p) \/ AppClose(p)

Next ==
  \/ \E p \in Peers : PeerStep(p)
  \/ \E r \in Rooms : CreateRoom(r)
  \/ ServerClose

Spec == Init /\ [][Next]_vars

(* Timers fire and closing handshakes end: Node's timers and the closing    *)
(* timeout of ws see to it.  Nothing is assumed of clients, hooks or the    *)
(* application.                                                             *)
Fairness ==
  \A p \in Peers : WF_vars(GraceExpires(p)) /\ WF_vars(CloseCompletes(p))

FairSpec == Spec /\ Fairness

-----------------------------------------------------------------------------
(* Properties. *)

(* Peer.roomId, Room.peers and SignalingServer.rooms agree, whatever path   *)
(* put the peer in or out: kick, leave, expiry and close all trust roomId,  *)
(* relaying trusts the map, and an emptied Room object is dropped.          *)
RosterAgrees ==
  /\ \A p \in Peers, r \in Rooms : p \in roster[r] <=> roomId[p] = r
  /\ \A r \in Rooms : roster[r] # {} => r \in rooms
  /\ \A p \in Peers : roomId[p] # NONE => bound[p] = roomId[p]

(* A room never holds more than maxPeersPerRoom peers, those in their grace *)
(* period and those admitted by a hook that was slow to answer included.    *)
CapacityRespected == \A r \in Rooms : Cardinality(roster[r]) <= MaxPeers

(* What every listener of the server counts on: a peer is a member exactly  *)
(* when its peer:joined was emitted and no peer:left yet.  A departure is   *)
(* announced at least once on every path that empties the slot.             *)
EventsTellMembership ==
  \A p \in Peers : p \in Members <=> (joins[p] = 1 /\ lefts[p] = 0)

(* Why no peer joins twice: a join spends the once("signal") listener or    *)
(* the one pending hook, and neither comes back.                            *)
Unstarted(p) == st[p] = "none" \/ p \in fresh \/ pending[p] # NONE

JoinsAtMostOnce ==
  \A p \in Peers :
    /\ st[p] = "none" => p \notin fresh /\ pending[p] = NONE
    /\ p \in fresh => pending[p] = NONE
    /\ Unstarted(p) => joins[p] = 0
    /\ joins[p] = 0 => lefts[p] = 0
    /\ joins[p] <= 1

IInv ==
  /\ TypeOK
  /\ RosterAgrees
  /\ CapacityRespected
  /\ JoinsAtMostOnce
  /\ EventsTellMembership

(* No two members are ever on one socket, although the temporary peer of a  *)
(* reconnect keeps its listeners on the socket it gives away.               *)
SocketExclusive ==
  \A p, q \in Members : sock[p] = sock[q] => p = q

(* A member's client lists exactly the other members, with their metadata,  *)
(* once it has read all it was sent: whatever was queued, dropped for lack  *)
(* of room in the queue or lost in a closing socket while it was away.      *)
ViewExact ==
  \A r \in Rooms : \A p \in roster[r] :
    st[p] = "joined" /\ Open(p) => view[p] = Snapshot(r, p)

(* A member whose first socket dropped can come back: its token is indexed  *)
(* and its room stands.                                                     *)
FirstDropResumable ==
  \A p \in Members :
    st[p] = "reconnecting" /\ sock[p] = p =>
      p \in token /\ p \in tokIdx /\ p \in timer /\ roomId[p] \in rooms

(* Without hooks and direct closes a slot is held by a live socket with no  *)
(* grace period running against it, or by a running grace period, and the   *)
(* server can still find the peer to kick it.                               *)
SlotIsHeld ==
  \A p \in Members :
    /\ p \in registered
    /\ \/ /\ st[p] = "joined" /\ p \notin timer
          /\ sockSt[sock[p]] \in {"open", "closing", "ending"}
       \/ st[p] = "reconnecting" /\ p \in timer

(* A reconnect token moves its peer to another socket once, however many    *)
(* clients present it and whatever happens between.                         *)
TokenIsOneTime == [][\A p \in Peers : sock'[p] # sock[p] => sock[p] = p]_vars

(* A member whose socket is gone is resumed or gives its slot back.         *)
SlotIsReleased ==
  \A p \in Peers :
    (p \in Members /\ sockSt[sock[p]] = "closed")
      ~> (p \notin Members \/ sockSt[sock[p]] # "closed")
-----------------------------------------------------------------------------
(* The membership the core implements: a place is an entry of a roster, and *)
(* Peer.state tells how it is held.                                         *)
StatusOf(p) ==
  IF p \in Members
    THEN CASE st[p] = "reconnecting" -> "away"
           [] st[p] = "closed" -> "stranded"
           [] OTHER -> "present"
    ELSE IF joins[p] = 0 THEN "outside" ELSE "left"

M == INSTANCE Membership
       WITH members <- roster, status <- [p \in Peers |-> StatusOf(p)]

(* Every behaviour of the core is one of Membership: no path (hook, resume, *)
(* kick, expiry, close) admits a peer twice, over capacity, or after it     *)
(* left, and none moves a member to another room.                           *)
ImplementsMembership == M!MSpec

(* With fair timers a member that is away returns or gives its place back.  *)
ImplementsFairMembership == M!MFairSpec

-----------------------------------------------------------------------------
(* With one room, what RoomLife tells the listening parts of the server.    *)
RoomStatusOf(p) ==
  IF p \notin Members THEN IF joins[p] = 0 THEN "outside" ELSE "left"
    ELSE IF p \notin registered THEN "ghost"
    ELSE CASE st[p] = "reconnecting" -> "away"
           [] st[p] = "closed" -> "stranded"
           [] OTHER -> IF Open(p) THEN "present" ELSE "fading"

L == INSTANCE RoomLife
       WITH status <- [p \in Peers |-> RoomStatusOf(p)],
            alive <- rooms # {},
            current <- {p \in Peers : bound[p] \in Rooms}

(* A part that is correct over RoomLife is correct over the core: a room    *)
(* that empties is destroyed with its last peer:left, a room that stands    *)
(* handles the messages of those that joined it and of no one else, and no  *)
(* frame is handled of a peer that is away or never joined.                 *)
ImplementsRoomLife ==
  L!RoomSpec /\ [](\A p \in Peers : Signals(p) => p \in L!Speakers)
=============================================================================
