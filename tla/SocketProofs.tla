---------------------------- MODULE SocketProofs -----------------------------
(***************************************************************************)
(* Proofs about the sockets of Signaling: tokens and resumption, the slots *)
(* members hold, what clients list, and that the core implements Membership *)
(* and RoomLife.                                                           *)
(***************************************************************************)
EXTENDS SignalingProofs

(* A temporary peer that gave its socket away never had a place and cannot  *)
(* get one; the peer it gave it to has spent its token.                     *)
SocketsMoveOnce ==
  \A p, q \in Peers : sock[q] = p /\ p # q =>
    /\ q \notin tokIdx /\ joins[q] = 1
    /\ joins[p] = 0 /\ ~Unstarted(p) /\ p \notin registered
    /\ \A x \in Peers : sock[x] = p => x \in {p, q}

(* Nothing of a peer exists before its connection.                          *)
UnbornOwn ==
  \A p \in Peers : st[p] = "none" => sock[p] = p /\ sockSt[p] = "none"

(* The grace period runs on a dead socket, against a peer with a token.     *)
GraceOnDeadSocket ==
  \A p \in Peers :
    /\ st[p] = "reconnecting" => p \in token /\ p \in timer
    /\ p \in timer => sockSt[sock[p]] = "closed"

(* A token is indexed until it is spent, and known to clients that joined.  *)
TokensIndexed ==
  \A p \in Peers :
    /\ p \in token /\ sock[p] = p => p \in tokIdx
    /\ p \in holders => joins[p] = 1

(* The server forgets a peer that joined, or still may, with its socket,    *)
(* and not while the grace period runs.                                     *)
ForgottenOnDeadSocket ==
  \A p \in Peers : p \notin registered =>
    \/ st[p] = "none"
    \/ sockSt[sock[p]] = "closed" /\ p \notin timer
    \/ joins[p] = 0 /\ ~Unstarted(p)

SockInv ==
  /\ SocketsMoveOnce
  /\ UnbornOwn
  /\ GraceOnDeadSocket
  /\ TokensIndexed
  /\ ForgottenOnDeadSocket

-----------------------------------------------------------------------------
(* The kinds of step, as far as sockets, tokens and places are concerned.   *)

Quiet ==
  /\ UNCHANGED <<st, sock, sockSt, token, tokIdx, timer, registered, holders,
                 roster, roomId, bound, joins>>
  /\ rooms \subseteq rooms'

(* No client is told anything, and who is or was a member keeps its         *)
(* metadata.                                                                *)
KeepsLists ==
  /\ UNCHANGED clients
  /\ \A q \in Peers : meta'[q] # meta[q] => Unstarted(q)

(* Peers are closed and their places left alone: those refused never had    *)
(* one, the others are closed by the application.                           *)
ShutOut(ps) ==
  /\ ClosePeers(ps)
  /\ (\A p \in ps : p \in fresh \/ pending[p] # NONE) \/ (Closes /\ ps \subseteq registered)
  /\ UNCHANGED <<sock, tokIdx, registered, holders, places, joins>>
  /\ KeepsLists

Admits(p, r) ==
  /\ Unstarted(p)
  /\ pending[p] # NONE \/ (p \in fresh /\ Heard(p))
  /\ ~IsFull(r)
  /\ AddPeer(p, r)
  /\ meta' \in [Peers -> Meta]
  /\ \A q \in Peers \ {p} : meta'[q] = meta[q]
  /\ UNCHANGED <<sock, tokIdx, registered>>

LEMMA AddPeerToRoomCases ==
  ASSUME TypeOK, NEW p \in Peers, NEW r \in Rooms, Unstarted(p),
         pending[p] # NONE \/ (p \in fresh /\ Heard(p)),
         \E m \in Meta : meta' = [meta EXCEPT ![p] = m],
         AddPeerToRoom(p, r), UNCHANGED <<sock, tokIdx, registered>>
  PROVE  (Quiet /\ KeepsLists) \/ ShutOut({p}) \/ Admits(p, r)
<1>m. \A q \in Peers : meta'[q] # meta[q] => Unstarted(q)
  BY DEF TypeOK
<1>1. CASE /\ ClosePeers({p})
           /\ UNCHANGED <<holders, places, clients, joins>>
  BY <1>1, <1>m DEF ShutOut, KeepsLists
<1>2. CASE /\ rooms' = rooms \cup {r}
           /\ UNCHANGED <<st, sockSt, holders, token, timer, roster, roomId,
                          bound, clients, joins>>
  BY <1>2, <1>m DEF Quiet, KeepsLists
<1>3. CASE ~IsFull(r) /\ AddPeer(p, r)
  <2>1. /\ meta' \in [Peers -> Meta]
        /\ \A q \in Peers \ {p} : meta'[q] = meta[q]
    BY DEF TypeOK
  <2> QED BY <1>3, <2>1 DEF Admits
<1> QED BY <1>1, <1>2, <1>3 DEF AddPeerToRoom

LEMMA CoreKinds ==
  ASSUME TypeOK, [Next]_vars
  PROVE  \/ Quiet /\ KeepsLists
         \/ Quiet /\ \E p \in Peers : Relay(p) \/ \E m \in Meta : UpdateMeta(p, m)
         \/ \E ps \in SUBSET Peers : ShutOut(ps)
         \/ \E p \in Peers :
              \/ Connect(p) \/ (\E r \in Rooms : Admits(p, r))
              \/ (\E q \in Peers : Reconnect(p, q))
              \/ Leave(p) \/ CloseFrame(p) \/ SocketClosed(p) \/ GraceExpires(p)
              \/ Kick(p)
<1> DEFINE Kinds ==
       \/ Quiet /\ KeepsLists
       \/ \E ps \in SUBSET Peers : ShutOut(ps)
       \/ \E p \in Peers, r \in Rooms : Admits(p, r)
<1>1. ASSUME NEW p \in Peers, WrongFirstMessage(p) PROVE Kinds
  <2>1. ShutOut({p})
    BY <1>1 DEF WrongFirstMessage, FirstMessage, ShutOut, KeepsLists, counts
  <2> QED BY <2>1
<1>2. ASSUME NEW p \in Peers, Join(p) \/ ReconnectRefused(p) PROVE Kinds
  <2>1. Unstarted(p) /\ p \in fresh /\ Heard(p) /\ UNCHANGED <<sock, tokIdx, registered>>
    BY <1>2 DEF Join, ReconnectRefused, FirstMessage, Unstarted
  <2>2. PICK r \in Rooms : HandleJoin(p, r)
    BY <1>2 DEF Join, ReconnectRefused
  <2>m. \A q \in Peers : meta'[q] # meta[q] => Unstarted(q)
    BY <2>1, <2>2 DEF HandleJoin, TypeOK
  <2>3. CASE /\ ClosePeers({p})
             /\ UNCHANGED <<pending, holders, places, clients, joins>>
    BY <2>1, <2>3, <2>m DEF ShutOut, KeepsLists
  <2>4. CASE UNCHANGED <<st, sockSt, token, timer, holders, places, clients, joins>>
    BY <2>1, <2>4, <2>m DEF Quiet, KeepsLists, places
  <2>5. CASE AddPeerToRoom(p, r)
    <3>1. \E m \in Meta : meta' = [meta EXCEPT ![p] = m]
      BY <2>2 DEF HandleJoin
    <3> QED BY <2>1, <2>5, <3>1, AddPeerToRoomCases
  <2> QED BY <2>2, <2>3, <2>4, <2>5 DEF HandleJoin
<1>3. ASSUME NEW p \in Peers, HookAllows(p) PROVE Kinds
  <2>1. /\ pending[p] \in Rooms /\ pending[p] # NONE /\ Unstarted(p)
        /\ UNCHANGED <<sock, tokIdx, registered>>
        /\ \E m \in Meta : meta' = [meta EXCEPT ![p] = m]
        /\ AddPeerToRoom(p, pending[p])
    BY <1>3 DEF HookAllows, Unstarted, TypeOK
  <2> QED BY <2>1, AddPeerToRoomCases
<1>4. ASSUME NEW p \in Peers, HookRefuses(p) PROVE Kinds
  <2>1. ShutOut({p})
    BY <1>4 DEF HookRefuses, ShutOut, KeepsLists, counts
  <2> QED BY <2>1
<1>5. ASSUME NEW p \in Peers, Relay(p) \/ (\E m \in Meta : UpdateMeta(p, m))
      PROVE  Quiet
  BY <1>5 DEF Relay, UpdateMeta, Quiet, tokens, places, counts
<1>6. ASSUME NEW p \in Peers, AppClose(p) PROVE Kinds
  <2>1. ShutOut({p})
    BY <1>6 DEF AppClose, ShutOut, KeepsLists, counts
  <2> QED BY <2>1
<1>7. CASE ServerClose
  <2>1. ShutOut(registered)
    BY <1>7 DEF ServerClose, ShutOut, KeepsLists, counts
  <2> QED BY <2>1 DEF TypeOK
<1>8. CASE (\E r \in Rooms : CreateRoom(r)) \/ UNCHANGED vars
  BY <1>8 DEF CreateRoom, Quiet, KeepsLists, vars, tokens, places, counts
<1> QED
  BY <1>1, <1>2, <1>3, <1>4, <1>5, <1>6, <1>7, <1>8 DEF Next, PeerStep

-----------------------------------------------------------------------------
(* Every step keeps the invariant of the sockets, one case per kind.        *)

LEMMA NoOneReadied ==
  ASSUME IInv, [Next]_vars
  PROVE  \A x \in Peers : /\ Unstarted(x)' => Unstarted(x)
                          /\ joins'[x] # joins[x] => Unstarted(x) /\ ~Unstarted(x)'
<1>1. ASSUME NEW x \in Peers
      PROVE  Unstarted(x)' => Unstarted(x)
  BY StartStep
<1>2. ASSUME NEW x \in Peers, joins'[x] # joins[x]
      PROVE  Unstarted(x) /\ ~Unstarted(x)'
  <2>1. PICK p \in Peers, r \in Rooms : Enters(p, r)
    BY <1>2, StepKinds DEF IInv, Stays, Exits
  <2>2. x = p
    BY <1>2, <2>1 DEF Enters, IInv, TypeOK
  <2> QED BY <1>2, <2>1, <2>2, EntryIsSpent DEF Enters
<1> QED BY <1>1, <1>2

LEMMA SockInvStep ==
  ASSUME IInv, SockInv, [Next]_vars
  PROVE  SockInv'
<1> USE DEF SockInv, ClearTimers, ArmTimers, SpendToken
<1>u. \A x \in Peers : /\ Unstarted(x)' => Unstarted(x)
                       /\ joins'[x] # joins[x] => Unstarted(x) /\ ~Unstarted(x)'
  BY NoOneReadied
<1>t. TypeOK /\ TypeOK'
  BY TypeStep DEF IInv
<1>s. \A x \in Peers : sock[x] \in Peers
  BY <1>t DEF TypeOK
<1>z. \A x \in Peers : /\ Unstarted(x) => joins[x] = 0
                       /\ joins[x] \in {0, 1}
  BY <1>t DEF IInv, JoinsAtMostOnce, TypeOK
<1>1. CASE Quiet
  BY <1>1, <1>u DEF Quiet, SocketsMoveOnce, UnbornOwn, GraceOnDeadSocket,
                    TokensIndexed, ForgottenOnDeadSocket
<1>2. ASSUME NEW ps \in SUBSET Peers, ShutOut(ps)
      PROVE  SockInv'
  <2>1. /\ UNCHANGED <<sock, tokIdx, registered, holders, joins>>
        /\ token' = token \ ps /\ timer' = timer \ ps
        /\ \A x \in Peers : st'[x] = IF x \in ps THEN "closed" ELSE st[x]
        /\ \A x \in Peers : sockSt'[x] # sockSt[x] => sockSt[x] = "open"
        /\ \A x \in ps : st[x] # "none" \/ x \in registered
    BY <1>2, <1>t DEF ShutOut, ClosePeers, CloseSockets, TypeOK, IInv,
                      JoinsAtMostOnce
  <2> QED
    BY <2>1, <1>s, <1>u DEF SocketsMoveOnce, UnbornOwn, GraceOnDeadSocket,
                      TokensIndexed, ForgottenOnDeadSocket
<1>3. ASSUME NEW p \in Peers, Connect(p)
      PROVE  SockInv'
  <2>1. /\ UNCHANGED <<sock, timer, holders, joins>>
        /\ st[p] = "none" /\ st'[p] = "connecting" /\ sockSt'[p] = "open"
        /\ \A x \in Peers \ {p} : st'[x] = st[x] /\ sockSt'[x] = sockSt[x]
        /\ registered' = registered \cup {p}
        /\ (tokIdx' = tokIdx /\ token' = token)
           \/ (tokIdx' = tokIdx \cup {p} /\ token' = token \cup {p})
    BY <1>3, <1>t DEF Connect, TypeOK, counts
  <2>2. \A x \in Peers : sock[x] = p <=> x = p
    BY <2>1 DEF SocketsMoveOnce, UnbornOwn, Unstarted
  <2>3. SocketsMoveOnce' /\ UnbornOwn'
    BY <2>1, <2>2, <1>u DEF SocketsMoveOnce, UnbornOwn
  <2>4. GraceOnDeadSocket'
    BY <2>1, <2>2, <1>s DEF GraceOnDeadSocket, UnbornOwn
  <2>6. TokensIndexed'
    BY <2>1 DEF TokensIndexed
  <2>5. ForgottenOnDeadSocket'
    BY <2>1, <2>2, <1>u, <1>t DEF ForgottenOnDeadSocket, TypeOK
  <2> QED BY <2>3, <2>4, <2>5, <2>6
<1>4. ASSUME NEW p \in Peers, NEW r \in Rooms, Admits(p, r)
      PROVE  SockInv'
  <2>1. /\ UNCHANGED <<sock, sockSt, tokIdx, token, timer, registered>>
        /\ st'[p] = "joined" /\ joins'[p] = joins[p] + 1
        /\ \A x \in Peers \ {p} : st'[x] = st[x] /\ joins'[x] = joins[x]
        /\ holders' \in {holders, holders \cup {p}}
        /\ Unstarted(p)
    BY <1>4, <1>t DEF Admits, AddPeer, TypeOK
  <2>2. p \in fresh \/ pending[p] # NONE
    BY <1>4 DEF Admits
  <2>3. st[p] # "none"
    BY <2>2 DEF IInv, JoinsAtMostOnce
  <2>4. SocketsMoveOnce' /\ UnbornOwn'
    BY <2>1, <1>u, <1>z DEF SocketsMoveOnce, UnbornOwn
  <2>5. GraceOnDeadSocket' /\ TokensIndexed'
    BY <2>1, <1>z DEF GraceOnDeadSocket, TokensIndexed
  <2>6. ForgottenOnDeadSocket'
    BY <2>1, <2>3, <1>u DEF ForgottenOnDeadSocket
  <2> QED BY <2>4, <2>5, <2>6
<1>5. ASSUME NEW p \in Peers, NEW q \in Peers, Reconnect(p, q)
      PROVE  SockInv'
  <2>1. /\ UNCHANGED <<sockSt, token, holders, joins>>
        /\ tokIdx' = tokIdx \ {q} /\ timer' = timer \ {q}
        /\ sock'[q] = p /\ st'[q] = "joined"
        /\ \A x \in Peers \ {q} : sock'[x] = sock[x] /\ st'[x] = st[x]
        /\ registered' = (registered \ {p}) \cup {q}
        /\ p \in fresh /\ p \notin fresh' /\ pending' = pending
        /\ Heard(p) /\ q \in holders /\ q \in tokIdx /\ st[q] = "reconnecting"
    BY <1>5, <1>t DEF Reconnect, FirstMessage, Resumable, TypeOK, conns, counts
  <2>2. joins[p] = 0 /\ joins[q] = 1 /\ p # q
    BY <2>1, <1>z DEF TokensIndexed, Unstarted
  <2>3. Unstarted(p) /\ st[p] # "none" /\ pending[p] = NONE
    BY <2>1 DEF Unstarted, IInv, JoinsAtMostOnce
  <2>4. ~Unstarted(p)'
    BY <2>1, <2>2, <2>3 DEF Unstarted
  <2>5. sock[p] = p
    BY <2>2, <1>t DEF SocketsMoveOnce, TypeOK
  <2>6. \A x \in Peers : sock[x] = p => x = p
    BY <2>3 DEF SocketsMoveOnce
  <2>7. SocketsMoveOnce'
    BY <2>1, <2>2, <2>4, <2>5, <2>6, <1>u DEF SocketsMoveOnce
  <2>8. UnbornOwn'
    BY <2>1, <2>2 DEF UnbornOwn
  <2>9. GraceOnDeadSocket' /\ TokensIndexed'
    BY <2>1, <2>2 DEF GraceOnDeadSocket, TokensIndexed
  <2>10. ForgottenOnDeadSocket'
    BY <2>1, <2>2, <2>4, <1>u DEF ForgottenOnDeadSocket
  <2> QED BY <2>7, <2>8, <2>9, <2>10
<1>6. ASSUME NEW p \in Peers, Leave(p)
      PROVE  SockInv'
  <2>1. /\ UNCHANGED <<st, sock, sockSt, token, tokIdx, timer, registered, joins>>
        /\ holders' \subseteq holders
    BY <1>6 DEF Leave
  <2> QED
    BY <2>1, <1>s, <1>u DEF SocketsMoveOnce, UnbornOwn, GraceOnDeadSocket,
                      TokensIndexed, ForgottenOnDeadSocket
<1>7. ASSUME NEW s \in Peers, CloseFrame(s)
      PROVE  SockInv'
  <2>1. /\ UNCHANGED <<st, sock, token, tokIdx, timer, registered, holders, joins>>
        /\ \A x \in Peers : sockSt'[x] # sockSt[x] => sockSt[x] = "open"
    BY <1>7 DEF CloseFrame, tokens, counts, TypeOK
  <2> QED
    BY <2>1, <1>s, <1>u DEF SocketsMoveOnce, UnbornOwn, GraceOnDeadSocket,
                      TokensIndexed, ForgottenOnDeadSocket
<1>8. ASSUME NEW s \in Peers, SocketClosed(s)
      PROVE  SockInv'
  <2>1. /\ UNCHANGED <<sock, token, tokIdx, holders, joins>>
        /\ sockSt[s] \notin {"none", "closed"} /\ sockSt'[s] = "closed"
        /\ \A x \in Peers \ {s} : sockSt'[x] = sockSt[x]
        /\ timer' = timer \cup (OnSocket(s) \cap token)
        /\ \A x \in Peers :
             st'[x] = IF x \in OnSocket(s) \cap token THEN "reconnecting"
                      ELSE IF x \in OnSocket(s) THEN "closed" ELSE st[x]
        /\ \/ registered' = registered
           \/ \E x \in OnSocket(s) \ token : registered' = registered \ {x}
    BY <1>8, <1>t DEF SocketClosed, Disconnected, tokens, TypeOK, OnSocket
  <2>2. SocketsMoveOnce' /\ UnbornOwn'
    BY <2>1, <1>u DEF SocketsMoveOnce, UnbornOwn
  <2>3. GraceOnDeadSocket' /\ TokensIndexed'
    BY <2>1, <1>s DEF GraceOnDeadSocket, TokensIndexed, OnSocket
  <2>4. ForgottenOnDeadSocket'
    BY <2>1, <1>s, <1>u
       DEF ForgottenOnDeadSocket, UnbornOwn, GraceOnDeadSocket, OnSocket
  <2> QED BY <2>2, <2>3, <2>4
<1>9. ASSUME NEW p \in Peers, GraceExpires(p)
      PROVE  SockInv'
  <2>1. /\ UNCHANGED <<sock, sockSt, tokIdx, holders, joins>>
        /\ p \in timer /\ timer' = timer \ {p} /\ token' = token \ {p}
        /\ st'[p] = "closed" /\ \A x \in Peers \ {p} : st'[x] = st[x]
        /\ registered' = registered \ {p}
    BY <1>9, <1>t DEF GraceExpires, Disconnected, TypeOK
  <2> QED
    BY <2>1, <1>s, <1>u DEF SocketsMoveOnce, UnbornOwn, GraceOnDeadSocket,
                      TokensIndexed, ForgottenOnDeadSocket
<1>10. ASSUME NEW p \in Peers, Kick(p)
      PROVE  SockInv'
  <2>1. /\ UNCHANGED <<sock, tokIdx, registered, holders, joins>>
        /\ token' = token \ {p} /\ timer' = timer \ {p} /\ p \in registered
        /\ \A x \in Peers : st'[x] = IF x = p THEN "closed" ELSE st[x]
        /\ \A x \in Peers : sockSt'[x] # sockSt[x] => sockSt[x] = "open"
    BY <1>10, <1>t DEF Kick, ClosePeers, CloseSockets, TypeOK
  <2> QED
    BY <2>1, <1>s, <1>u DEF SocketsMoveOnce, UnbornOwn, GraceOnDeadSocket,
                      TokensIndexed, ForgottenOnDeadSocket
<1> QED
  BY <1>1, <1>2, <1>3, <1>4, <1>5, <1>6, <1>7, <1>8, <1>9, <1>10, <1>t, CoreKinds
LEMMA SockInvInductive == Spec => [](IInv /\ SockInv)
<1>1. Init => SockInv
  BY DEF Init, SockInv, SocketsMoveOnce, UnbornOwn, GraceOnDeadSocket,
         TokensIndexed, ForgottenOnDeadSocket
<1>2. IInv /\ SockInv /\ [Next]_vars => SockInv'
  BY SockInvStep
<1> QED BY <1>1, <1>2, IInvInductive, PTL DEF Spec

(* A token moves its peer to another socket once, whoever presents it, in   *)
(* every instance of the core and with every option.                        *)
THEOREM TokenAlwaysOneTime == Spec => TokenIsOneTime
<1>1. IInv /\ SockInv /\ [Next]_vars
        => [\A p \in Peers : sock'[p] # sock[p] => sock[p] = p]_vars
  <2> SUFFICES ASSUME IInv, SockInv, [Next]_vars,
                      NEW q \in Peers, sock'[q] # sock[q]
               PROVE  sock[q] = q
    OBVIOUS
  <2>1. PICK p \in Peers, x \in Peers : Reconnect(p, x)
    BY CoreKinds DEF IInv, Quiet, ShutOut, Connect, Admits, Leave, CloseFrame,
                     SocketClosed, GraceExpires, Kick
  <2>2. sock' = [sock EXCEPT ![x] = p] /\ x \in tokIdx
    BY <2>1 DEF Reconnect, Resumable
  <2>3. x = q
    BY <2>2 DEF IInv, TypeOK
  <2> QED BY <2>2, <2>3 DEF SockInv, SocketsMoveOnce, IInv, TypeOK
<1> QED BY <1>1, SockInvInductive, PTL DEF Spec, TokenIsOneTime

(* Members joined, those who gave their socket away did not.                *)
LEMMA MembersJoined ==
  ASSUME IInv, NEW p \in Members
  PROVE  p \in Peers /\ joins[p] = 1 /\ roomId[p] \in Rooms /\ p \in roster[roomId[p]]
         /\ ~Unstarted(p)
<1>1. PICK r \in Rooms : p \in roster[r]
  BY DEF Members
<1>2. p \in Peers /\ roomId[p] = r
  BY <1>1 DEF IInv, TypeOK, RosterAgrees
<1>3. joins[p] = 1
  BY <1>2 DEF IInv, EventsTellMembership
<1> QED BY <1>1, <1>2, <1>3 DEF IInv, JoinsAtMostOnce

LEMMA ExclusiveFromInv ==
  ASSUME IInv, SockInv
  PROVE  SocketExclusive
<1> SUFFICES ASSUME NEW p \in Members, NEW q \in Members, sock[p] = sock[q]
             PROVE  p = q
  BY DEF SocketExclusive
<1>1. p \in Peers /\ q \in Peers /\ joins[p] = 1 /\ joins[q] = 1
  BY MembersJoined
<1>2. sock[p] \in Peers
  BY <1>1 DEF IInv, TypeOK
<1> QED BY <1>1, <1>2 DEF SockInv, SocketsMoveOnce

(* No two members are ever on one socket, the temporary peers of reconnects *)
(* notwithstanding.                                                         *)
THEOREM SocketAlwaysExclusive == Spec => []SocketExclusive
BY SockInvInductive, ExclusiveFromInv, PTL

(* A member dropped from its first socket has what a resume asks for: its   *)
(* token, the entry of the token, a running timer and a standing room.      *)
THEOREM FirstDropAlwaysResumable == Spec => []FirstDropResumable
<1>1. IInv /\ SockInv => FirstDropResumable
  <2> SUFFICES ASSUME IInv, SockInv, NEW p \in Members,
                      st[p] = "reconnecting", sock[p] = p
               PROVE  p \in token /\ p \in tokIdx /\ p \in timer /\ roomId[p] \in rooms
    BY DEF FirstDropResumable
  <2>1. p \in Peers /\ roomId[p] \in Rooms /\ p \in roster[roomId[p]]
    BY MembersJoined
  <2>2. roomId[p] \in rooms
    BY <2>1 DEF IInv, RosterAgrees
  <2> QED BY <2>1, <2>2 DEF SockInv, GraceOnDeadSocket, TokensIndexed
<1> QED BY <1>1, SockInvInductive, PTL

-----------------------------------------------------------------------------
(* Slots.  Without hooks and direct closes every member holds its slot.     *)

NoHookPending == ~Hook => \A p \in Peers : pending[p] = NONE

LEMMA NoHookPendingStep ==
  ASSUME TypeOK, NoHookPending, [Next]_vars
  PROVE  NoHookPending'
<1> SUFFICES ASSUME ~Hook
             PROVE  pending' = pending
  BY DEF NoHookPending
<1>1. \A p \in Peers : ~HookAllows(p) /\ ~HookRefuses(p)
  BY DEF HookAllows, HookRefuses, NoHookPending
<1>2. ASSUME NEW p \in Peers, Join(p) \/ ReconnectRefused(p)
      PROVE  pending' = pending
  BY <1>2 DEF Join, ReconnectRefused, HandleJoin
<1> QED
  BY <1>1, <1>2
     DEF Next, PeerStep, Connect, WrongFirstMessage, Reconnect, Relay, UpdateMeta,
         Leave, CloseFrame, SocketClosed, GraceExpires, Kick, AppClose, ServerClose,
         CreateRoom, vars, conns

SlotHeldBy(p) ==
  /\ p \in registered
  /\ \/ /\ st[p] = "joined" /\ p \notin timer
        /\ sockSt[sock[p]] \in {"open", "closing", "ending"}
     \/ st[p] = "reconnecting" /\ p \in timer

(* Removal from a room takes one peer out and lets no one in.               *)
LEMMA RemovedOut ==
  ASSUME TypeOK, NEW p \in Peers, NEW r \in Rooms, RemoveFromRoom(p, r)
  PROVE  /\ Members' \subseteq Members /\ roomId'[p] = NONE
         /\ \A y \in Rooms : roster[y] \subseteq roster'[y] \cup {p}
<1>1. \A y \in Rooms : roster'[y] \subseteq roster[y]
  BY DEF RemoveFromRoom, TypeOK
<1>2. roomId'[p] = NONE
  BY DEF RemoveFromRoom, TypeOK
<1>3. \A y \in Rooms : roster[y] \subseteq roster'[y] \cup {p}
  BY DEF RemoveFromRoom, TypeOK
<1> QED BY <1>1, <1>2, <1>3 DEF Members

LEMMA SlotStep ==
  ASSUME ~Hook, ~Closes, IInv, IInv', SockInv, NoHookPending, SlotIsHeld, [Next]_vars
  PROVE  SlotIsHeld'
<1> SUFFICES ASSUME NEW x \in Members'
             PROVE  SlotHeldBy(x)'
  BY DEF SlotIsHeld, SlotHeldBy
<1> USE DEF SlotHeldBy
<1>t. TypeOK /\ x \in Peers
  <2>1. x \in Peers
    BY DEF Members, IInv, TypeOK
  <2> QED BY <2>1 DEF IInv
<1>m. x \in Members => SlotHeldBy(x) /\ ~Unstarted(x) /\ joins[x] = 1
  BY MembersJoined DEF SlotIsHeld
<1>1. CASE Quiet
  BY <1>1, <1>m DEF Quiet, Members
<1>2. ASSUME NEW ps \in SUBSET Peers, ShutOut(ps)
      PROVE  SlotHeldBy(x)'
  <2>1. x \in Members /\ x \notin ps
    BY <1>2, <1>m DEF ShutOut, Members, places, Unstarted
  <2> QED BY <1>2, <1>m, <1>t, <2>1
        DEF ShutOut, ClosePeers, CloseSockets, ClearTimers, TypeOK
<1>3. ASSUME NEW p \in Peers, Connect(p)
      PROVE  SlotHeldBy(x)'
  <2>1. x \in Members /\ x # p
    BY <1>3, <1>m DEF Connect, Members, places, Unstarted
  <2> QED BY <1>3, <1>m, <1>t, <2>1 DEF Connect, TypeOK
<1>4. ASSUME NEW p \in Peers, NEW r \in Rooms, Admits(p, r)
      PROVE  SlotHeldBy(x)'
  <2>1. p \in fresh /\ Heard(p)
    BY <1>4 DEF Admits, NoHookPending
  <2>2. Unstarted(p) /\ st[p] # "none"
    BY <2>1 DEF Unstarted, IInv, JoinsAtMostOnce
  <2>3. CASE x = p
    <3>1. p \in registered /\ p \notin timer
      BY <2>1, <2>2 DEF Heard, SockInv, ForgottenOnDeadSocket, GraceOnDeadSocket
    <3> QED BY <1>4, <1>t, <2>1, <2>3, <3>1 DEF Admits, AddPeer, Heard, TypeOK
  <2>4. CASE x # p
    <3>1. x \in Members
      BY <1>4, <1>t, <2>4 DEF Admits, AddPeer, Members, TypeOK
    <3> QED BY <1>4, <1>t, <1>m, <2>4, <3>1 DEF Admits, AddPeer, TypeOK
  <2> QED BY <2>3, <2>4
<1>5. ASSUME NEW p \in Peers, NEW q \in Peers, Reconnect(p, q)
      PROVE  SlotHeldBy(x)'
  <2>1. x \in Members /\ x # p
    BY <1>5, <1>m DEF Reconnect, FirstMessage, Members, places, Unstarted
  <2>2. Heard(p) /\ sock[p] = p
    <3>1. joins[p] = 0 /\ Heard(p)
      BY <1>5 DEF Reconnect, FirstMessage, IInv, JoinsAtMostOnce, Unstarted
    <3> QED BY <3>1, <1>t DEF SockInv, SocketsMoveOnce, TypeOK
  <2> QED BY <1>5, <1>m, <1>t, <2>1, <2>2
        DEF Reconnect, ClearTimers, Heard, TypeOK
<1>6. ASSUME NEW p \in Peers, Leave(p)
      PROVE  SlotHeldBy(x)'
  <2>1. x \in Members
    BY <1>6, <1>t DEF Leave, RemoveFromRoom, Members, BoundRoster, TypeOK
  <2> QED BY <1>6, <1>m, <2>1 DEF Leave
<1>7. ASSUME NEW s \in Peers, CloseFrame(s)
      PROVE  SlotHeldBy(x)'
  BY <1>7, <1>m, <1>t DEF CloseFrame, Members, places, TypeOK
<1>8. ASSUME NEW p \in Peers, Disconnected(p), UNCHANGED joins
      PROVE  x # p /\ x \in Members /\ registered' = registered \ {p}
  <2>1. roomId[p] # NONE => roomId[p] \in Rooms
    BY <1>t DEF TypeOK
  <2>2. /\ x \in Members /\ registered' = registered \ {p}
        /\ roomId'[p] = NONE
    BY <1>8, <1>t, <2>1, RemovedOut DEF Disconnected, Members, places
  <2> QED BY <2>1, <2>2, MembersJoined, RoomsAssumption DEF Members, IInv, RosterAgrees
<1>9. ASSUME NEW s \in Peers, SocketClosed(s)
      PROVE  SlotHeldBy(x)'
  <2>1. CASE x \in Members /\ registered' = registered /\ OnSocket(s) \ token = {}
    BY <1>9, <1>m, <1>t, <2>1 DEF SocketClosed, ArmTimers, OnSocket, TypeOK
  <2>2. ASSUME NEW p \in Peers, OnSocket(s) \ token = {p}, Disconnected(p)
        PROVE  SlotHeldBy(x)'
    <3>1. x # p /\ x \in Members /\ registered' = registered \ {p}
      BY <1>8, <1>9, <2>2 DEF SocketClosed
    <3> QED BY <1>9, <1>m, <1>t, <2>2, <3>1
          DEF SocketClosed, ArmTimers, OnSocket, TypeOK
  <2> QED BY <1>9, <2>1, <2>2 DEF SocketClosed, Members, places, OnSocket
<1>10. ASSUME NEW p \in Peers, GraceExpires(p)
      PROVE  SlotHeldBy(x)'
  <2>1. x # p /\ x \in Members /\ registered' = registered \ {p}
    BY <1>8, <1>10 DEF GraceExpires
  <2> QED BY <1>10, <1>m, <1>t, <2>1 DEF GraceExpires, TypeOK
<1>11. ASSUME NEW p \in Peers, Kick(p)
      PROVE  SlotHeldBy(x)'
  <2>0. roomId[p] # NONE => roomId[p] \in Rooms
    BY <1>t DEF TypeOK
  <2>1. x \in Members /\ roomId'[p] = NONE
    BY <1>11, <1>t, <2>0, RemovedOut DEF Kick, Members, places
  <2>2. x # p
    BY <2>1, RoomsAssumption DEF Members, IInv, RosterAgrees
  <2> QED BY <1>11, <1>m, <1>t, <2>1, <2>2
        DEF Kick, ClosePeers, CloseSockets, ClearTimers, TypeOK
<1> QED
  BY <1>1, <1>2, <1>3, <1>4, <1>5, <1>6, <1>7, <1>9, <1>10, <1>11, <1>t, CoreKinds

(* Without hooks and direct closes no slot is held by a peer that is gone:  *)
(* a member is on a live socket with no timer against it, or its grace      *)
(* period runs, and the server can find it.                                 *)
THEOREM SlotAlwaysHeld == ~Hook /\ ~Closes => (Spec => []SlotIsHeld)
<1> SUFFICES ASSUME ~Hook, ~Closes
             PROVE  Spec => []SlotIsHeld
  OBVIOUS
<1>1. Init => NoHookPending /\ SlotIsHeld
  BY DEF Init, NoHookPending, SlotIsHeld, Members
<1>2. IInv /\ NoHookPending /\ [Next]_vars => NoHookPending'
  BY NoHookPendingStep DEF IInv
<1>3. IInv /\ IInv' /\ SockInv /\ NoHookPending /\ SlotIsHeld /\ [Next]_vars
        => SlotIsHeld'
  BY SlotStep
<1> QED BY <1>1, <1>2, <1>3, SockInvInductive, PTL DEF Spec
-----------------------------------------------------------------------------
(* The core implements Membership.                                          *)

(* The instance counts sets as this module does.                            *)
LEMMA SameCardinality ==
  ASSUME NEW S
  PROVE  M!Cardinality(S) = Cardinality(S)
BY DEF M!Cardinality, Cardinality

(* A step that touches no place and no member's state is a stutter.         *)
LEMMA MembershipStutters ==
  ASSUME UNCHANGED <<roster, joins>>, \A x \in Members : st'[x] = st[x]
  PROVE  UNCHANGED M!mvars
<1>1. ASSUME NEW x \in Peers
      PROVE  StatusOf(x)' = StatusOf(x)
  BY DEF StatusOf, Members
<1> QED BY <1>1 DEF M!mvars

(* A departure, whatever becomes of the peer itself.                        *)
LEMMA MembershipExit ==
  ASSUME IInv, NEW p \in Peers, roomId[p] # NONE,
         roster' = [roster EXCEPT ![roomId[p]] = @ \ {p}],
         joins' = joins, \A x \in Members \ {p} : st'[x] = st[x]
  PROVE  M!Exit(p)
<1>1. roomId[p] \in Rooms /\ p \in roster[roomId[p]]
  BY DEF IInv, TypeOK, RosterAgrees
<1>2. \A r \in Rooms : roster'[r] = roster[r] \ {p}
  BY <1>1 DEF IInv, TypeOK, RosterAgrees
<1>3. p \in Members /\ Members' = Members \ {p} /\ joins[p] = 1
  BY <1>1, <1>2, MembersJoined DEF Members
<1>4. StatusOf(p) \in M!Inside
  BY <1>3 DEF StatusOf, M!Inside
<1>5. StatusOf(p)' = "left"
  BY <1>3 DEF StatusOf
<1>6. ASSUME NEW x \in Peers \ {p}
      PROVE  StatusOf(x)' = StatusOf(x)
  BY <1>3 DEF StatusOf
<1>7. roster' = [r \in Rooms |-> roster[r] \ {p}]
  BY <1>1, <1>2 DEF IInv, TypeOK
<1> QED BY <1>4, <1>5, <1>6, <1>7 DEF M!Exit

(* One member's state changes and no place does.                            *)
LEMMA MembershipTurns ==
  ASSUME NEW p \in Members, p \in Peers, UNCHANGED <<roster, joins>>,
         \A x \in Members \ {p} : st'[x] = st[x]
  PROVE  /\ st[p] \notin {"reconnecting", "closed"} /\ st'[p] = "reconnecting"
              => M!Drop(p)
         /\ st[p] = "reconnecting" /\ st'[p] = "joined" => M!Return(p)
<1>1. ASSUME NEW x \in Peers \ {p}
      PROVE  StatusOf(x)' = StatusOf(x)
  BY DEF StatusOf, Members
<1>2. Members' = Members
  BY DEF Members
<1>3. CASE st[p] \notin {"reconnecting", "closed"} /\ st'[p] = "reconnecting"
  <2>1. StatusOf(p) = "present" /\ StatusOf(p)' = "away"
    BY <1>2, <1>3 DEF StatusOf
  <2> QED BY <1>1, <1>3, <2>1 DEF M!Drop
<1>4. CASE st[p] = "reconnecting" /\ st'[p] = "joined"
  <2>1. StatusOf(p) = "away" /\ StatusOf(p)' = "present"
    BY <1>2, <1>4 DEF StatusOf
  <2> QED BY <1>1, <1>4, <2>1 DEF M!Return
<1> QED BY <1>3, <1>4

LEMMA MembershipStep ==
  ASSUME IInv, SockInv, [Next]_vars
  PROVE  [M!MNext]_(M!mvars)
<1> DEFINE Goal == M!MNext \/ UNCHANGED M!mvars
<1>t. TypeOK
  BY DEF IInv
<1>m. \A x \in Members : x \in Peers /\ ~Unstarted(x) /\ joins[x] = 1
                         /\ roomId[x] # NONE
  BY MembersJoined, RoomsAssumption
<1>r. \A x \in Peers : /\ roomId[x] # NONE => roomId[x] \in Rooms
                       /\ roomId[x] = NONE => x \notin Members
  BY <1>m DEF IInv, TypeOK
<1>1. CASE Quiet
  BY <1>1, MembershipStutters DEF Quiet
<1>2. ASSUME NEW ps \in SUBSET Peers, ShutOut(ps)
      PROVE  Goal
  <2> DEFINE qs == ps \cap Members
  <2>1. /\ UNCHANGED <<roster, joins>>
        /\ \A x \in Peers : st'[x] = IF x \in ps THEN "closed" ELSE st[x]
    BY <1>2, <1>t DEF ShutOut, ClosePeers, places, TypeOK
  <2>2. CASE qs = {}
    BY <2>1, <2>2, <1>m, MembershipStutters
  <2>3. CASE qs # {}
    <3>1. \A x \in Peers : StatusOf(x)' = IF x \in qs THEN "stranded" ELSE StatusOf(x)
      BY <2>1 DEF StatusOf, Members
    <3>2. \A x \in qs : StatusOf(x) \in M!Inside
      BY DEF StatusOf, M!Inside
    <3>3. M!Strand(qs)
      BY <2>1, <2>3, <3>1, <3>2 DEF M!Strand
    <3> QED BY <3>3 DEF M!MNext
  <2> QED BY <2>2, <2>3
<1>3. ASSUME NEW p \in Peers, Connect(p)
      PROVE  Goal
  <2>1. p \notin Members
    BY <1>3, <1>m DEF Connect, Unstarted
  <2> QED BY <1>3, <1>m, <1>t, <2>1, MembershipStutters
        DEF Connect, places, counts, TypeOK
<1>4. ASSUME NEW p \in Peers, NEW r \in Rooms, Admits(p, r)
      PROVE  Goal
  <2>1. /\ roster' = [roster EXCEPT ![r] = @ \cup {p}]
        /\ st'[p] = "joined" /\ \A x \in Peers \ {p} : st'[x] = st[x]
        /\ joins'[p] = 1 /\ \A x \in Peers \ {p} : joins'[x] = joins[x]
        /\ joins[p] = 0 /\ roomId[p] = NONE
    BY <1>4, <1>t, UnstartedOut DEF Admits, AddPeer, TypeOK
  <2>2. Members' = Members \cup {p} /\ p \notin Members
    BY <2>1, <1>t, <1>r DEF Members, TypeOK
  <2>3. StatusOf(p) = "outside" /\ StatusOf(p)' = "present"
    BY <2>1, <2>2 DEF StatusOf
  <2>4. \A x \in Peers \ {p} : StatusOf(x)' = StatusOf(x)
    BY <2>1, <2>2 DEF StatusOf
  <2>5. Cardinality(roster[r]) < MaxPeers
    BY <1>4, <1>t, RostersFinite, MaxPeersAssumption DEF Admits, IsFull
  <2>6. M!Enter(p, r)
    <3>1. [x \in Peers |-> StatusOf(x)]'
            = [[x \in Peers |-> StatusOf(x)] EXCEPT ![p] = "present"]
      BY <2>3, <2>4
    <3>2. roster' = [roster EXCEPT ![r] = @ \cup {p}]
      BY <2>1
    <3> QED BY <2>3, <2>5, <3>1, <3>2, SameCardinality DEF M!Enter
  <2> QED BY <2>6 DEF M!MNext
<1>5. ASSUME NEW p \in Peers, NEW q \in Peers, Reconnect(p, q)
      PROVE  Goal
  <2>1. /\ UNCHANGED <<roster, joins>>
        /\ st[q] = "reconnecting" /\ st'[q] = "joined"
        /\ \A x \in Peers \ {q} : st'[x] = st[x]
    BY <1>5, <1>t DEF Reconnect, Resumable, places, counts, TypeOK
  <2>2. CASE q \in Members
    <3>1. M!Return(q)
      BY <2>1, <2>2, <1>m, MembershipTurns
    <3> QED BY <3>1 DEF M!MNext
  <2>3. CASE q \notin Members
    BY <2>1, <2>3, <1>m, MembershipStutters
  <2> QED BY <2>2, <2>3
<1>6. ASSUME NEW p \in Peers, roomId[p] # NONE, RemoveFromRoom(p, roomId[p]),
             joins' = joins, \A x \in Members \ {p} : st'[x] = st[x]
      PROVE  Goal
  <2>1. M!Exit(p)
    BY <1>6, MembershipExit DEF RemoveFromRoom
  <2> QED BY <2>1 DEF M!MNext
<1>7. ASSUME NEW p \in Peers, Leave(p)
      PROVE  Goal
  <2>1. roomId[p] = bound[p] /\ roomId[p] # NONE
    BY <1>7, RoomsAssumption DEF Leave, BoundRoster, IInv, RosterAgrees
  <2> QED BY <1>6, <1>7, <2>1 DEF Leave
<1>8. ASSUME NEW s \in Peers, CloseFrame(s)
      PROVE  Goal
  BY <1>8, MembershipStutters DEF CloseFrame, places, counts
<1>9. ASSUME NEW s \in Peers, SocketClosed(s)
      PROVE  Goal
  <2>1. /\ joins' = joins /\ sockSt[s] # "closed"
        /\ \A x \in Peers :
             st'[x] = IF x \in OnSocket(s) \cap token THEN "reconnecting"
                      ELSE IF x \in OnSocket(s) THEN "closed" ELSE st[x]
    BY <1>9, <1>t DEF SocketClosed
  <2>2. \A x, y \in Members : x \in OnSocket(s) /\ y \in OnSocket(s) => x = y
    BY ExclusiveFromInv DEF SocketExclusive, OnSocket
  <2>3. \A x \in OnSocket(s) : st[x] \notin {"reconnecting", "closed"}
    BY <2>1 DEF OnSocket, SockInv, GraceOnDeadSocket
  <2>4. ASSUME UNCHANGED <<roster, joins>>, (OnSocket(s) \ token) \cap Members = {}
        PROVE  Goal
    <3>1. CASE OnSocket(s) \cap Members = {}
      BY <2>1, <2>4, <3>1, <1>m, MembershipStutters
    <3>2. ASSUME NEW y \in OnSocket(s) \cap Members
          PROVE  Goal
      <4>1. M!Drop(y)
        BY <2>1, <2>2, <2>3, <2>4, <3>2, <1>m, MembershipTurns
      <4> QED BY <4>1, <1>m DEF M!MNext
    <3> QED BY <3>1, <3>2
  <2>5. CASE OnSocket(s) \ token = {} /\ UNCHANGED <<registered, places, clients, lefts>>
    BY <2>1, <2>4, <2>5 DEF places
  <2>6. ASSUME NEW p \in Peers, OnSocket(s) \ token = {p}, Disconnected(p)
        PROVE  Goal
    <3>1. CASE roomId[p] = NONE
      BY <2>1, <2>4, <2>6, <3>1, <1>r DEF Disconnected, places
    <3>2. CASE roomId[p] # NONE
      <4>1. p \in Members /\ p \in OnSocket(s)
        BY <2>6, <3>2, <1>r DEF Members, IInv, RosterAgrees
      <4>2. \A x \in Members \ {p} : st'[x] = st[x]
        BY <2>1, <2>2, <4>1, <1>m
      <4> QED BY <1>6, <2>1, <2>6, <3>2, <4>2 DEF Disconnected
    <3> QED BY <3>1, <3>2
  <2> QED BY <1>9, <2>5, <2>6 DEF SocketClosed, OnSocket
<1>10. ASSUME NEW p \in Peers, GraceExpires(p)
       PROVE  Goal
  <2>1. joins' = joins /\ (\A x \in Peers \ {p} : st'[x] = st[x]) /\ Disconnected(p)
    BY <1>10, <1>t DEF GraceExpires, TypeOK
  <2>2. CASE roomId[p] = NONE
    BY <2>1, <2>2, <1>m, <1>r, MembershipStutters DEF Disconnected, places
  <2>3. CASE roomId[p] # NONE
    BY <1>6, <1>m, <2>1, <2>3 DEF Disconnected
  <2> QED BY <2>2, <2>3
<1>11. ASSUME NEW p \in Peers, Kick(p)
       PROVE  Goal
  <2>1. joins' = joins /\ \A x \in Peers \ {p} : st'[x] = st[x]
    BY <1>11, <1>t DEF Kick, ClosePeers, TypeOK
  <2>2. CASE roomId[p] = NONE
    BY <1>11, <2>1, <2>2, <1>m, <1>r, MembershipStutters DEF Kick, places
  <2>3. CASE roomId[p] # NONE
    BY <1>6, <1>11, <1>m, <2>1, <2>3 DEF Kick
  <2> QED BY <2>2, <2>3
<1> QED
  BY <1>1, <1>2, <1>3, <1>4, <1>5, <1>7, <1>8, <1>9, <1>10, <1>11, <1>t, CoreKinds

(* The core implements Membership: with any number of connections and       *)
(* rooms and any options, every step of the server is a step of Membership  *)
(* or leaves places and statuses as they were.                              *)
THEOREM MembershipImplemented == Spec => ImplementsMembership
<1>1. Init => M!MInit
  BY DEF Init, M!MInit, StatusOf, Members
<1>2. IInv /\ SockInv /\ [Next]_vars => [M!MNext]_(M!mvars)
  BY MembershipStep
<1> QED BY <1>1, <1>2, SockInvInductive, PTL DEF Spec, ImplementsMembership, M!MSpec
-----------------------------------------------------------------------------
(* What clients list.                                                       *)

(* A client that kept its token is inside, or its peer is closed for good.  *)
HoldersInside == \A p \in holders : p \in Members \/ st[p] = "closed"

LEMMA HoldersStep ==
  ASSUME Forget, IInv, SockInv, HoldersInside, [Next]_vars
  PROVE  HoldersInside'
<1> SUFFICES ASSUME NEW x \in holders'
             PROVE  x \in Members' \/ st'[x] = "closed"
  BY DEF HoldersInside
<1>t. TypeOK
  BY DEF IInv
<1>h. x \in holders => /\ x \in Peers /\ joins[x] = 1 /\ ~Unstarted(x)
                       /\ x \in Members \/ st[x] = "closed"
  BY <1>t DEF HoldersInside, SockInv, TokensIndexed, IInv, JoinsAtMostOnce, TypeOK
<1>1. CASE Quiet
  BY <1>1, <1>h DEF Quiet, Members
<1>2. ASSUME NEW ps \in SUBSET Peers, ShutOut(ps)
      PROVE  x \in Members' \/ st'[x] = "closed"
  BY <1>2, <1>h, <1>t DEF ShutOut, ClosePeers, Members, places, TypeOK
<1>3. ASSUME NEW p \in Peers, Connect(p)
      PROVE  x \in Members' \/ st'[x] = "closed"
  BY <1>3, <1>h, <1>t DEF Connect, Members, places, TypeOK, Unstarted
<1>4. ASSUME NEW p \in Peers, NEW r \in Rooms, Admits(p, r)
      PROVE  x \in Members' \/ st'[x] = "closed"
  <2>1. /\ \A y \in Rooms : roster[y] \subseteq roster'[y]
        /\ p \in roster'[r]
        /\ x \in holders \/ x = p
        /\ \A y \in Peers \ {p} : st'[y] = st[y]
    BY <1>4, <1>t DEF Admits, AddPeer, TypeOK
  <2> QED BY <2>1, <1>h DEF Members
<1>5. ASSUME NEW p \in Peers, NEW q \in Peers, Reconnect(p, q)
      PROVE  x \in Members' \/ st'[x] = "closed"
  BY <1>5, <1>h, <1>t DEF Reconnect, Resumable, Members, places, TypeOK
<1>6. ASSUME NEW p \in Peers, Leave(p)
      PROVE  x \in Members' \/ st'[x] = "closed"
  <2>1. x \in holders /\ x # p /\ st' = st
    BY <1>6 DEF Leave
  <2>2. \A y \in Rooms : roster[y] \subseteq roster'[y] \cup {p}
    BY <1>6, <1>t DEF Leave, RemoveFromRoom, BoundRoster, TypeOK
  <2> QED BY <2>1, <2>2, <1>h DEF Members
<1>7. ASSUME NEW s \in Peers, CloseFrame(s)
      PROVE  x \in Members' \/ st'[x] = "closed"
  BY <1>7, <1>h DEF CloseFrame, tokens, Members, places
<1>8. ASSUME NEW p \in Peers, Disconnected(p) \/ (Kick(p) /\ roomId[p] # NONE),
             UNCHANGED holders, st'[p] = "closed",
             \A y \in Peers : st[y] = "closed" => st'[y] = "closed"
      PROVE  x \in Members' \/ st'[x] = "closed"
  <2>1. roomId[p] # NONE => roomId[p] \in Rooms
    BY <1>t DEF TypeOK
  <2>2. \A y \in Rooms : roster[y] \subseteq roster'[y] \cup {p}
    BY <1>8, <2>1, <1>t, RemovedOut DEF Disconnected, Kick, places
  <2> QED BY <1>8, <2>2, <1>h DEF Members
<1>9. ASSUME NEW s \in Peers, SocketClosed(s)
      PROVE  x \in Members' \/ st'[x] = "closed"
  <2>1. /\ UNCHANGED holders
        /\ \A y \in Peers : st[y] = "closed" => st'[y] = "closed"
        /\ \A y \in OnSocket(s) \ token : st'[y] = "closed"
    BY <1>9, <1>t DEF SocketClosed, OnSocket, tokens, TypeOK
  <2> QED BY <1>8, <1>9, <1>h, <2>1 DEF SocketClosed, Members, places, OnSocket
<1>10. ASSUME NEW p \in Peers, GraceExpires(p)
      PROVE  x \in Members' \/ st'[x] = "closed"
  BY <1>8, <1>10, <1>t DEF GraceExpires, TypeOK
<1>11. ASSUME NEW p \in Peers, Kick(p)
      PROVE  x \in Members' \/ st'[x] = "closed"
  <2>1. /\ UNCHANGED holders /\ st'[p] = "closed"
        /\ \A y \in Peers : st[y] = "closed" => st'[y] = "closed"
    BY <1>11, <1>t DEF Kick, ClosePeers, TypeOK
  <2>2. CASE roomId[p] = NONE
    BY <1>11, <1>h, <2>1, <2>2 DEF Kick, Members, places
  <2> QED BY <1>8, <1>11, <2>1, <2>2
<1> QED
  BY <1>1, <1>2, <1>3, <1>4, <1>5, <1>6, <1>7, <1>9, <1>10, <1>11, <1>t, CoreKinds
(* The client of p reads what it is sent.                                   *)
Reads(p) == st[p] = "joined" /\ Open(p)

(* Those a message does not reach keep their list.                          *)
LEMMA SeenCases ==
  ASSUME NEW to, NEW m, NEW x \in Peers
  PROVE  /\ x \notin to => Seen(to, m)[x] = view[x]
         /\ x \in to /\ Reads(x) => Seen(to, m)[x] = Receive(view[x], m)
BY DEF Seen, Reads

(* A departure is told to all who stay.                                     *)
LEMMA RemovedViews ==
  ASSUME IInv, ViewExact, NEW p \in Peers, NEW r \in Rooms, RemoveFromRoom(p, r),
         meta' = meta, NEW y \in Rooms, NEW x \in roster'[y], Reads(x)
  PROVE  view'[x] = Snapshot(y, x)'
<1> DEFINE m == [type |-> "left", peer |-> p]
<1>1. /\ roster' = [roster EXCEPT ![r] = @ \ {p}]
      /\ view' = Seen(roster[r] \ {p}, m)
  BY DEF RemoveFromRoom, Send
<1>2. /\ x \in Peers /\ x \in roster[y]
      /\ y # r => roster'[y] = roster[y]
      /\ y = r => x # p /\ roster'[y] = roster[r] \ {p}
  BY <1>1 DEF IInv, TypeOK
<1>3. view[x] = Snapshot(y, x)
  BY <1>2 DEF ViewExact, Reads
<1> HIDE DEF m
<1>4. CASE y = r
  <2>1. view'[x] = Receive(view[x], m)
    BY <1>1, <1>2, <1>4, SeenCases
  <2>2. view'[x] = [Snapshot(y, x) EXCEPT ![p] = NONE]
    BY <1>3, <2>1 DEF Receive, m
  <2> QED BY <1>2, <1>4, <2>2 DEF Snapshot
<1>5. CASE y # r
  <2>1. x \notin roster[r]
    BY <1>2, <1>5 DEF IInv, RosterAgrees
  <2>2. view'[x] = view[x]
    BY <1>1, <1>2, <2>1, SeenCases
  <2> QED BY <1>2, <1>3, <1>5, <2>2 DEF Snapshot
<1> QED BY <1>4, <1>5

(* Nothing changes in the rooms: neither do the lists.                      *)
LEMMA KeptViews ==
  ASSUME IInv, ViewExact, roster' = roster, view' = view,
         \A q \in Members : meta'[q] = meta[q],
         NEW y \in Rooms, NEW x \in roster'[y], Reads(x)
  PROVE  view'[x] = Snapshot(y, x)'
<1>1. view[x] = Snapshot(y, x)
  BY DEF ViewExact, Reads
<1>2. \A q \in roster[y] : meta'[q] = meta[q]
  BY DEF Members
<1> QED BY <1>1, <1>2 DEF Snapshot

(* New metadata reaches those who list the peer, and only them.             *)
LEMMA UpdatedViews ==
  ASSUME IInv, ViewExact, NEW p \in Peers, NEW m \in Meta, UpdateMeta(p, m),
         NEW y \in Rooms, NEW x \in roster'[y], Reads(x)
  PROVE  view'[x] = Snapshot(y, x)'
<1> DEFINE msg == [type |-> "updated", peer |-> p, meta |-> m]
           to == BoundRoster(p) \ {p}
<1>1. /\ roster' = roster /\ meta' = [meta EXCEPT ![p] = m]
      /\ view' = Seen(to, msg)
  BY DEF UpdateMeta, Send, places
<1>2. x \in Peers /\ x \in roster[y] /\ view[x] = Snapshot(y, x)
  BY <1>1 DEF IInv, TypeOK, ViewExact, Reads
<1>3. meta' \in [Peers -> Meta] /\ meta \in [Peers -> Meta]
  BY <1>1 DEF IInv, TypeOK
<1>4. view'[x] = view[x] \/ view'[x] = Receive(view[x], msg)
  BY <1>1, <1>2, SeenCases
<1>5. p \in roster[y] /\ p # x => view'[x] = Receive(view[x], msg)
  <2>1. p \in roster[y] => BoundRoster(p) = roster[y]
    BY RoomsAssumption DEF BoundRoster, IInv, RosterAgrees
  <2> QED BY <1>1, <1>2, <2>1, SeenCases
<1> HIDE DEF to
<1>6. Receive(view[x], msg)
        = IF view[x][p] # NONE THEN [view[x] EXCEPT ![p] = m] ELSE view[x]
  BY DEF Receive
<1> HIDE DEF msg
<1>7. CASE p \in roster[y] /\ p # x
  <2>1. view[x][p] # NONE
    BY <1>2, <1>3, <1>7, MetaAssumption DEF Snapshot
  <2>2. view'[x] = [Snapshot(y, x) EXCEPT ![p] = m]
    BY <1>2, <1>5, <1>6, <1>7, <2>1
  <2> QED BY <1>1, <1>3, <1>7, <2>2 DEF Snapshot
<1>8. CASE ~(p \in roster[y] /\ p # x)
  <2>1. view[x][p] = NONE
    BY <1>2, <1>8 DEF Snapshot
  <2>2. view'[x] = Snapshot(y, x)
    BY <1>2, <1>4, <1>6, <2>1
  <2> QED BY <1>1, <1>3, <1>8, <2>2 DEF Snapshot
<1> QED BY <1>7, <1>8

(* A new member is announced to the others and given their roster.          *)
LEMMA AdmittedViews ==
  ASSUME IInv, ViewExact, NEW p \in Peers, NEW r \in Rooms, Admits(p, r),
         NEW y \in Rooms, NEW x \in roster'[y], Reads(x)'
  PROVE  view'[x] = Snapshot(y, x)'
<1> DEFINE m == [type |-> "joined", peer |-> p, meta |-> meta'[p]]
<1>1. /\ roster' = [roster EXCEPT ![r] = @ \cup {p}]
      /\ view' = [Seen(roster[r], m) EXCEPT ![p] = IF Open(p) THEN Snapshot(r, p) ELSE @]
      /\ UNCHANGED <<sock, sockSt>> /\ st' = [st EXCEPT ![p] = "joined"]
      /\ meta' \in [Peers -> Meta] /\ \A q \in Peers \ {p} : meta'[q] = meta[q]
  BY DEF Admits, AddPeer
<1>2. \A z \in Rooms : p \notin roster[z]
  BY UnstartedOut, RoomsAssumption DEF Admits, IInv, RosterAgrees
<1>3. x \in Peers /\ (x = p => y = r) /\ (x # p => x \in roster[y])
  BY <1>1, <1>2 DEF IInv, TypeOK
<1>r. /\ roster'[y] = IF y = r THEN roster[y] \cup {p} ELSE roster[y]
      /\ \A q \in Peers \ {p} : meta'[q] = meta[q]
  BY <1>1 DEF IInv, TypeOK
<1> HIDE DEF m
<1>4. CASE x = p
  <2>1. Open(p)
    BY <1>1, <1>4 DEF Reads, Open
  <2>2. view'[p] = Snapshot(r, p)
    BY <1>1, <2>1 DEF Seen
  <2>3. y = r /\ roster'[r] \ {p} = roster[r] \ {p}
    BY <1>3, <1>4, <1>r
  <2>4. \A z \in roster[r] \ {p} : z \in Peers => meta'[z] = meta[z]
    BY <1>r
  <2>5. Snapshot(r, p) = [z \in Peers |-> IF z \in roster'[r] \ {p} THEN meta'[z] ELSE NONE]
    BY <2>3, <2>4 DEF Snapshot
  <2>6. Snapshot(y, x)' = [z \in Peers |-> IF z \in roster'[r] \ {p} THEN meta'[z] ELSE NONE]
    BY <1>4, <2>3 DEF Snapshot
  <2> QED BY <1>4, <2>2, <2>5, <2>6
<1>5. CASE x # p
  <2>1. Reads(x)
    BY <1>1, <1>3, <1>5 DEF Reads, Open, IInv, TypeOK
  <2>2. view[x] = Snapshot(y, x)
    BY <1>3, <1>5, <2>1 DEF ViewExact, Reads
  <2>3. view'[x] = Seen(roster[r], m)[x]
    BY <1>1, <1>3, <1>5 DEF Seen
  <2>4. CASE y = r
    <3>1. view'[x] = Receive(view[x], m)
      BY <1>3, <1>5, <2>1, <2>3, <2>4, SeenCases
    <3>2. view'[x] = [Snapshot(r, x) EXCEPT ![p] = meta'[p]]
      BY <2>2, <2>4, <3>1 DEF Receive, m
    <3> QED BY <1>r, <1>2, <1>5, <2>4, <3>2 DEF Snapshot
  <2>5. CASE y # r
    <3>1. x \notin roster[r]
      BY <1>3, <1>5, <2>5 DEF IInv, RosterAgrees
    <3>2. view'[x] = Snapshot(y, x)
      BY <1>3, <2>2, <2>3, <3>1, SeenCases
    <3> QED BY <1>r, <1>2, <2>5, <3>2 DEF Snapshot
  <2> QED BY <2>4, <2>5
<1> QED BY <1>4, <1>5

(* A return is announced to the others, and room:state replaces the list of *)
(* the peer that returns.                                                   *)
LEMMA ReturnedViews ==
  ASSUME IInv, SockInv, HoldersInside, ViewExact,
         NEW p \in Peers, NEW q \in Peers, Reconnect(p, q),
         NEW y \in Rooms, NEW x \in roster'[y], Reads(x)'
  PROVE  view'[x] = Snapshot(y, x)'
<1> DEFINE r == roomId[q]
           here == IF bound[q] \in Rooms THEN roster[bound[q]] \ {q} ELSE {}
           m == [type |-> "reconnected", peer |-> q, meta |-> meta[q]]
           state == [z \in Peers |-> IF z \in here THEN meta[z] ELSE NONE]
<1>1. /\ UNCHANGED <<roster, sockSt, meta>>
      /\ sock' = [sock EXCEPT ![q] = p] /\ st' = [st EXCEPT ![q] = "joined"]
      /\ q \in holders /\ st[q] = "reconnecting"
      /\ view' = [Seen(here, m) EXCEPT
                    ![q] = IF sockSt[sock'[q]] = "open" THEN AfterResume(q, state) ELSE @]
  BY DEF Reconnect, AnnounceReturn, Resumable, places
<1>2. q \in Members
  BY <1>1 DEF HoldersInside
<1>3. r \in Rooms /\ q \in roster[r] /\ bound[q] = r
  BY <1>2, MembersJoined, RoomsAssumption DEF IInv, RosterAgrees
<1>4. here = roster[r] \ {q} /\ state = Snapshot(r, q)
  BY <1>3 DEF Snapshot
<1>5. x \in Peers /\ x \in roster[y] /\ Snapshot(y, x)' = Snapshot(y, x)
  BY <1>1 DEF IInv, TypeOK, Snapshot
<1> HIDE DEF here, state, m
<1>6. CASE x = q
  <2>1. y = r
    BY <1>3, <1>5, <1>6 DEF IInv, RosterAgrees
  <2>2. sockSt[sock'[q]] = "open"
    BY <1>1, <1>6 DEF Reads, Open
  <2>3. view'[q] = state
    BY <1>1, <2>2, ResumeType DEF Seen
  <2> QED BY <1>4, <1>5, <1>6, <2>1, <2>3
<1>7. CASE x # q
  <2>1. Reads(x)
    BY <1>1, <1>5, <1>7 DEF Reads, Open, IInv, TypeOK
  <2>2. view[x] = Snapshot(y, x)
    BY <1>5, <2>1 DEF ViewExact, Reads
  <2>3. view'[x] = Seen(here, m)[x]
    BY <1>1, <1>5, <1>7 DEF Seen
  <2>4. CASE y = r
    <3>1. view'[x] = Receive(view[x], m)
      BY <1>4, <1>5, <1>7, <2>1, <2>3, <2>4, SeenCases
    <3>2. view'[x] = [Snapshot(y, x) EXCEPT ![q] = meta[q]]
      BY <2>2, <3>1 DEF Receive, m
    <3>3. Snapshot(y, x)[q] = meta[q]
      BY <1>3, <1>7, <2>4 DEF Snapshot
    <3> QED BY <1>5, <3>2, <3>3 DEF Snapshot
  <2>5. CASE y # r
    <3>1. x \notin here
      BY <1>3, <1>4, <1>5, <2>5 DEF IInv, RosterAgrees
    <3> QED BY <1>5, <2>2, <2>3, <3>1, SeenCases
  <2> QED BY <2>4, <2>5
<1> QED BY <1>6, <1>7
(* Relayed messages are not about the roster.                               *)
LEMMA RelayedViews ==
  ASSUME IInv, ViewExact, NEW p \in Peers, Relay(p),
         NEW y \in Rooms, NEW x \in roster'[y], Reads(x)
  PROVE  view'[x] = Snapshot(y, x)'
<1> DEFINE m == [type |-> "data", peer |-> p]
<1>1. PICK to : view' = Seen(to, m)
  BY DEF Relay, Send
<1>2. \A known : Receive(known, m) = known
  BY DEF Receive
<1>3. x \in Peers /\ roster' = roster /\ meta' = meta
  BY DEF Relay, places, IInv, TypeOK
<1> HIDE DEF m
<1>4. view'[x] = view[x]
  BY <1>1, <1>2, <1>3, SeenCases
<1>5. view[x] = Snapshot(y, x)
  BY <1>3 DEF ViewExact, Reads
<1> QED BY <1>3, <1>4, <1>5 DEF Snapshot

LEMMA ViewStep ==
  ASSUME Forget, IInv, IInv', SockInv, HoldersInside, ViewExact, [Next]_vars
  PROVE  ViewExact'
<1> SUFFICES ASSUME NEW y \in Rooms, NEW x \in roster'[y], Reads(x)'
             PROVE  view'[x] = Snapshot(y, x)'
  BY DEF ViewExact, Reads
<1>t. TypeOK /\ x \in Peers /\ x \in Members'
  BY DEF IInv, TypeOK, Members
<1>m. \A q \in Members : ~Unstarted(q) /\ st[q] # "none"
  BY MembersJoined DEF Unstarted
<1>1. CASE Quiet /\ KeepsLists
  <2>1. Reads(x) /\ roster' = roster /\ view' = view
    BY <1>1 DEF Quiet, KeepsLists, Reads, Open, clients
  <2>2. \A q \in Members : meta'[q] = meta[q]
    BY <1>1, MembersJoined DEF KeepsLists
  <2> QED BY <2>1, <2>2, KeptViews
<1>2. ASSUME Quiet, NEW p \in Peers, Relay(p) \/ \E m \in Meta : UpdateMeta(p, m)
      PROVE  view'[x] = Snapshot(y, x)'
  <2>1. Reads(x)
    BY <1>2 DEF Quiet, Reads, Open
  <2> QED BY <1>2, <2>1, RelayedViews, UpdatedViews
<1>3. ASSUME NEW ps \in SUBSET Peers, ShutOut(ps)
      PROVE  view'[x] = Snapshot(y, x)'
  <2>1. roster' = roster /\ view' = view /\ \A q \in Members : meta'[q] = meta[q]
    BY <1>3, MembersJoined DEF ShutOut, KeepsLists, clients, places
  <2>2. Reads(x)
    BY <1>3, <1>t DEF ShutOut, ClosePeers, CloseSockets, Reads, Open, TypeOK
  <2> QED BY <2>1, <2>2, KeptViews
<1>4. ASSUME NEW p \in Peers, Connect(p)
      PROVE  view'[x] = Snapshot(y, x)'
  <2>1. roster' = roster /\ view' = view /\ meta' = meta /\ sock' = sock /\ x # p
    BY <1>4, <1>m DEF Connect, clients, places, Members
  <2>2. sock[x] # p /\ sock[x] \in Peers
    BY <1>4, <1>t, <2>1 DEF Connect, SockInv, SocketsMoveOnce, Unstarted, TypeOK
  <2>3. Reads(x)
    BY <1>4, <1>t, <2>1, <2>2 DEF Connect, Reads, Open, TypeOK
  <2> QED BY <2>1, <2>3, KeptViews
<1>5. ASSUME NEW p \in Peers, NEW r \in Rooms, Admits(p, r)
      PROVE  view'[x] = Snapshot(y, x)'
  BY <1>5, AdmittedViews
<1>6. ASSUME NEW p \in Peers, NEW q \in Peers, Reconnect(p, q)
      PROVE  view'[x] = Snapshot(y, x)'
  BY <1>6, ReturnedViews
<1>7. ASSUME NEW p \in Peers, Leave(p)
      PROVE  view'[x] = Snapshot(y, x)'
  <2>1. bound[p] \in Rooms /\ RemoveFromRoom(p, bound[p]) /\ meta' = meta /\ Reads(x)
    BY <1>7 DEF Leave, BoundRoster, Reads, Open
  <2> QED BY <2>1, RemovedViews
<1>8. ASSUME NEW s \in Peers, CloseFrame(s)
      PROVE  view'[x] = Snapshot(y, x)'
  <2>1. roster' = roster /\ view' = view /\ meta' = meta
    BY <1>8 DEF CloseFrame, clients, places
  <2>2. Reads(x)
    BY <1>8, <1>t DEF CloseFrame, Reads, Open, TypeOK
  <2> QED BY <2>1, <2>2, KeptViews
<1>9. ASSUME NEW p \in Peers, Disconnected(p), meta' = meta, Reads(x)
      PROVE  view'[x] = Snapshot(y, x)'
  <2>1. CASE roomId[p] # NONE
    <3>1. roomId[p] \in Rooms /\ RemoveFromRoom(p, roomId[p])
      BY <1>9, <1>t, <2>1 DEF Disconnected, TypeOK
    <3> QED BY <1>9, <3>1, RemovedViews
  <2>2. CASE roomId[p] = NONE
    BY <1>9, <2>2, KeptViews DEF Disconnected, places, clients
  <2> QED BY <2>1, <2>2
<1>10. ASSUME NEW s \in Peers, SocketClosed(s)
       PROVE  view'[x] = Snapshot(y, x)'
  <2>1. meta' = meta /\ sock' = sock
    BY <1>10 DEF SocketClosed
  <2>2. Reads(x)
    BY <1>10, <1>t, <2>1 DEF SocketClosed, Reads, Open, TypeOK
  <2>3. CASE UNCHANGED <<registered, places, clients, lefts>>
    BY <2>1, <2>2, <2>3, KeptViews DEF places, clients
  <2> QED BY <1>9, <1>10, <2>1, <2>2, <2>3 DEF SocketClosed, OnSocket
<1>11. ASSUME NEW p \in Peers, GraceExpires(p)
       PROVE  view'[x] = Snapshot(y, x)'
  <2>1. Disconnected(p) /\ meta' = meta
    BY <1>11 DEF GraceExpires
  <2>2. Reads(x)
    BY <1>11, <1>t DEF GraceExpires, Reads, Open, TypeOK
  <2> QED BY <1>9, <2>1, <2>2
<1>12. ASSUME NEW p \in Peers, Kick(p)
       PROVE  view'[x] = Snapshot(y, x)'
  <2>1. meta' = meta
    BY <1>12 DEF Kick
  <2>2. Reads(x)
    BY <1>12, <1>t DEF Kick, ClosePeers, CloseSockets, Reads, Open, TypeOK
  <2>3. CASE roomId[p] # NONE
    <3>1. roomId[p] \in Rooms /\ RemoveFromRoom(p, roomId[p])
      BY <1>12, <1>t, <2>3 DEF Kick, TypeOK
    <3> QED BY <2>1, <2>2, <3>1, RemovedViews
  <2>4. CASE roomId[p] = NONE
    BY <1>12, <2>1, <2>2, <2>4, KeptViews DEF Kick, places, clients
  <2> QED BY <2>3, <2>4
<1> QED
  BY <1>1, <1>2, <1>3, <1>4, <1>5, <1>6, <1>7, <1>8, <1>10, <1>11, <1>12, <1>t,
     CoreKinds

(* With clients that drop their token when they leave, as the client of the *)
(* repository does, what a member lists once it has read all it was sent is *)
(* the roster of its room: with any queue length, hooks, closes and options *)
(* for creating and destroying rooms.                                       *)
THEOREM ViewAlwaysExact == Forget => (Spec => []ViewExact)
<1> SUFFICES ASSUME Forget
             PROVE  Spec => []ViewExact
  OBVIOUS
<1>1. Init => HoldersInside /\ ViewExact
  BY DEF Init, HoldersInside, ViewExact
<1>2. IInv /\ SockInv /\ HoldersInside /\ [Next]_vars => HoldersInside'
  BY HoldersStep
<1>3. IInv /\ IInv' /\ SockInv /\ HoldersInside /\ ViewExact /\ [Next]_vars
        => ViewExact'
  BY ViewStep
<1> QED BY <1>1, <1>2, <1>3, SockInvInductive, PTL DEF Spec
-----------------------------------------------------------------------------
(* With one room and autoDestroyRooms the core implements RoomLife.         *)

LEMMA SameLifeCardinality ==
  ASSUME NEW S
  PROVE  L!Cardinality(S) = Cardinality(S)
BY DEF L!Cardinality, Cardinality

LEMMA LifeMembers ==
  ASSUME IInv
  PROVE  /\ L!RoomMembers = Members
         /\ L!Reachable = Members \cap registered
<1>1. Members \subseteq Peers
  BY MembersJoined
<1>2. ASSUME NEW x \in Peers
      PROVE  /\ RoomStatusOf(x) \in L!Inside <=> x \in Members
             /\ x \in Members => (RoomStatusOf(x) # "ghost" <=> x \in registered)
  <2>1. CASE x \in Members /\ x \in registered
    <3>1. RoomStatusOf(x) \in {"away", "stranded", "present", "fading"}
      BY <2>1 DEF RoomStatusOf
    <3> QED BY <2>1, <3>1 DEF L!Inside
  <2>2. CASE x \in Members /\ x \notin registered
    <3>1. RoomStatusOf(x) = "ghost"
      BY <2>2 DEF RoomStatusOf
    <3> QED BY <2>2, <3>1 DEF L!Inside
  <2>3. CASE x \notin Members
    <3>1. RoomStatusOf(x) \in {"outside", "left"}
      BY <2>3 DEF RoomStatusOf
    <3> QED BY <2>3, <3>1 DEF L!Inside
  <2> QED BY <2>1, <2>2, <2>3
<1>3. L!RoomMembers = Members
  BY <1>1, <1>2 DEF L!RoomMembers
<1> QED BY <1>1, <1>2, <1>3 DEF L!Reachable

(* To the room, the peer is as it was.                                      *)
Alike(x) ==
  /\ x \in registered' <=> x \in registered
  /\ st'[x] = st[x]
  /\ st[x] \notin {"reconnecting", "closed"} => (Open(x)' <=> Open(x))

LEMMA AlikeStatus ==
  ASSUME joins' = joins, NEW x, (x \in Members') <=> (x \in Members),
         x \in Members => Alike(x)
  PROVE  RoomStatusOf(x)' = RoomStatusOf(x)
BY DEF RoomStatusOf, Alike

LEMMA LifeStutters ==
  ASSUME UNCHANGED <<roster, bound, rooms, joins>>, \A x \in Members : Alike(x)
  PROVE  UNCHANGED L!roomVars
<1>1. \A x \in Peers : RoomStatusOf(x)' = RoomStatusOf(x)
  BY AlikeStatus DEF Members
<1> QED BY <1>1 DEF L!roomVars

(* Only the temporary peer of its reconnect is ever on the socket of a      *)
(* member, and the server has forgotten that one.                           *)
LEMMA Sharers ==
  ASSUME IInv, SockInv, NEW x \in Members, NEW z \in Peers, z # x, sock[z] = sock[x]
  PROVE  z \notin registered /\ z \notin Members /\ ~Unstarted(z)
<1>1. x \in Peers /\ joins[x] = 1 /\ sock[x] \in Peers
  BY MembersJoined DEF IInv, TypeOK
<1>2. z \notin Members
  BY ExclusiveFromInv DEF SocketExclusive
<1>3. sock[z] = x => joins[x] = 0
  BY <1>1 DEF SockInv, SocketsMoveOnce
<1>4. sock[x] = z
  BY <1>1, <1>3 DEF SockInv, SocketsMoveOnce
<1> QED BY <1>1, <1>2, <1>4 DEF SockInv, SocketsMoveOnce

(* One member's connection changes and no place does.                       *)
LEMMA LifeTurns ==
  ASSUME NEW p \in Members, p \in Peers, p \in registered, p \in registered',
         UNCHANGED <<roster, bound, rooms, joins>>,
         \A x \in Members \ {p} : Alike(x)
  PROVE  /\ st[p] \notin {"reconnecting", "closed"} /\ st'[p] = "reconnecting"
              => L!Drop(p)
         /\ st[p] = "reconnecting" /\ st'[p] = "joined" => L!Return(p)
         /\ st[p] \notin {"reconnecting", "closed"} /\ st'[p] = st[p]
                /\ Open(p) /\ ~Open(p)'
              => L!Fade(p)
<1>1. \A x \in Peers \ {p} : RoomStatusOf(x)' = RoomStatusOf(x)
  BY AlikeStatus DEF Members
<1>2. Members' = Members
  BY DEF Members
<1>3. UNCHANGED <<rooms # {}, {x \in Peers : bound[x] \in Rooms}>>
  OBVIOUS
<1>4. CASE st[p] \notin {"reconnecting", "closed"} /\ st'[p] = "reconnecting"
  <2>1. RoomStatusOf(p) \in {"present", "fading"} /\ RoomStatusOf(p)' = "away"
    BY <1>2, <1>4 DEF RoomStatusOf
  <2>2. L!Become(p, "away")
    BY <1>1, <2>1 DEF L!Become
  <2>3. [x \in Peers |-> RoomStatusOf(x)][p] \in {"present", "fading"}
    BY <2>1
  <2>4. L!Drop(p)
    BY <1>3, <2>2, <2>3, Zenon DEF L!Drop
  <2> QED BY <1>4, <2>4
<1>5. CASE st[p] = "reconnecting" /\ st'[p] = "joined"
  <2>1. RoomStatusOf(p) = "away" /\ RoomStatusOf(p)' \in {"present", "fading"}
    BY <1>2, <1>5 DEF RoomStatusOf
  <2>2. L!Become(p, "present") \/ L!Become(p, "fading")
    BY <1>1, <2>1 DEF L!Become
  <2>3. [x \in Peers |-> RoomStatusOf(x)][p] \in {"away"}
    BY <2>1
  <2>4. L!Return(p)
    BY <1>3, <2>2, <2>3, Zenon DEF L!Return
  <2> QED BY <1>5, <2>4
<1>6. CASE /\ st[p] \notin {"reconnecting", "closed"} /\ st'[p] = st[p]
           /\ Open(p) /\ ~Open(p)'
  <2>1. RoomStatusOf(p) = "present" /\ RoomStatusOf(p)' = "fading"
    BY <1>2, <1>6 DEF RoomStatusOf
  <2>2. L!Become(p, "fading")
    BY <1>1, <2>1 DEF L!Become
  <2>3. [x \in Peers |-> RoomStatusOf(x)][p] \in {"present"}
    BY <2>1
  <2>4. L!Fade(p)
    BY <1>3, <2>2, <2>3, Zenon DEF L!Fade
  <2> QED BY <1>6, <2>4
<1> QED BY <1>4, <1>5, <1>6

(* A departure destroys the room exactly when it empties it.                *)
LEMMA LifeExit ==
  ASSUME IInv, AutoDestroy, NEW rm, Rooms = {rm},
         NEW p \in Peers, roomId[p] # NONE, p \in registered,
         RemoveFromRoom(p, roomId[p]), joins' = joins,
         \A x \in Members \ {p} : Alike(x)
  PROVE  L!Exit(p)
<1>1. roomId[p] = rm /\ p \in roster[rm] /\ rooms = {rm} /\ Members = roster[rm]
  BY DEF IInv, TypeOK, RosterAgrees, Members
<1>2. roster'[rm] = roster[rm] \ {p} /\ Members' = Members \ {p} /\ joins[p] = 1
  BY <1>1, MembersJoined DEF RemoveFromRoom, Members, IInv, TypeOK
<1>3. RoomStatusOf(p)' = "left"
  BY <1>2 DEF RoomStatusOf
<1>4. \A x \in Peers \ {p} : RoomStatusOf(x)' = RoomStatusOf(x)
  BY <1>2, AlikeStatus
<1>5. L!Become(p, "left")
  BY <1>3, <1>4 DEF L!Become
<1>6. p \in L!Reachable
  BY <1>1, LifeMembers
<1>7. L!Remaining(p) = {} <=> EmptyWithout(p, rm)
  BY <1>1, LifeMembers DEF L!Remaining, EmptyWithout
<1>8. CASE EmptyWithout(p, rm)
  <2>1. /\ rooms' = {}
        /\ bound' = [q \in Peers |-> IF bound[q] = rm THEN GONE ELSE bound[q]]
    BY <1>1, <1>8 DEF RemoveFromRoom
  <2>2. \A q \in Peers : bound'[q] \notin Rooms
    BY <2>1, RoomsAssumption
  <2> QED BY <1>5, <1>6, <1>7, <1>8, <2>1, <2>2 DEF L!Exit
<1>9. CASE ~EmptyWithout(p, rm)
  <2>1. UNCHANGED <<rooms, bound>>
    BY <1>1, <1>9 DEF RemoveFromRoom
  <2> QED BY <1>5, <1>6, <1>7, <1>9, <2>1 DEF L!Exit
<1> QED BY <1>8, <1>9
LEMMA LifeStep ==
  ASSUME IInv, SockInv, AutoDestroy, NEW rm, Rooms = {rm}, rooms' \subseteq Rooms,
         [Next]_vars
  PROVE  [L!RoomNext]_(L!roomVars)
<1> DEFINE Goal == L!RoomNext \/ UNCHANGED L!roomVars
<1>t. TypeOK
  BY DEF IInv
<1>m. \A x \in Members : /\ x \in Peers /\ ~Unstarted(x) /\ joins[x] = 1
                         /\ roomId[x] # NONE /\ st[x] # "none"
                         /\ sock[x] \in Peers /\ bound[x] = roomId[x]
  <2>1. \A x \in Members : x \in Peers /\ ~Unstarted(x) /\ joins[x] = 1
                           /\ roomId[x] # NONE
    BY MembersJoined, RoomsAssumption
  <2> QED BY <2>1, <1>t DEF Unstarted, IInv, RosterAgrees, TypeOK
<1>r. \A x \in Peers : /\ roomId[x] # NONE => roomId[x] \in Rooms /\ x \in Members
                       /\ roomId[x] = NONE => x \notin Members
  BY <1>m DEF IInv, TypeOK, RosterAgrees, Members
<1>f. \A x \in Members :
        /\ sockSt[sock[x]] # "closed" => x \in registered
        /\ x \in timer => x \in registered
        /\ st[x] = "reconnecting" => x \in timer /\ sockSt[sock[x]] = "closed"
  BY <1>m DEF SockInv, ForgottenOnDeadSocket, GraceOnDeadSocket
<1>1. CASE Quiet
  <2>1. /\ UNCHANGED <<roster, bound, joins>> /\ rooms \subseteq rooms'
        /\ \A x \in Members : Alike(x)
    BY <1>1 DEF Quiet, Alike, Open
  <2>2. CASE rooms' = rooms
    BY <2>1, <2>2, LifeStutters
  <2>3. CASE rooms' # rooms
    <3>1. rooms = {} /\ rooms' # {}
      BY <2>1, <2>3
    <3>2. \A x \in Peers : RoomStatusOf(x)' = RoomStatusOf(x)
      BY <2>1, AlikeStatus DEF Members
    <3>3. UNCHANGED <<[x \in Peers |-> RoomStatusOf(x)], {x \in Peers : bound[x] \in Rooms}>>
      BY <2>1, <3>2
    <3>4. ~(rooms # {}) /\ (rooms # {})'
      BY <3>1
    <3>5. L!Make
      BY <3>3, <3>4 DEF L!Make
    <3> QED BY <3>5 DEF L!RoomNext
  <2> QED BY <2>2, <2>3
<1>2. ASSUME NEW ps \in SUBSET Peers, ShutOut(ps)
      PROVE  Goal
  <2> DEFINE qs == ps \cap Members
  <2>1. /\ UNCHANGED <<roster, bound, rooms, joins, sock, registered>>
        /\ \A x \in Peers : st'[x] = IF x \in ps THEN "closed" ELSE st[x]
        /\ \A s \in Peers : (\A z \in ps : sock[z] # s) => sockSt'[s] = sockSt[s]
    BY <1>2, <1>t DEF ShutOut, ClosePeers, CloseSockets, places, TypeOK
  <2>2. \A z \in ps : z \in registered \/ Unstarted(z)
    BY <1>2 DEF ShutOut, Unstarted
  <2>3. ASSUME NEW x \in Members \ ps
        PROVE  Alike(x)
    <3>1. \A z \in ps : sock[z] # sock[x]
      BY <2>2, <2>3, Sharers
    <3> QED BY <1>m, <2>1, <2>3, <3>1 DEF Alike, Open
  <2>4. CASE qs = {}
    BY <2>1, <2>3, <2>4, LifeStutters
  <2>5. CASE qs # {}
    <3>1. qs \subseteq L!Reachable
      BY <1>m, <2>2, LifeMembers
    <3>2. \A x \in Peers \ qs : RoomStatusOf(x)' = RoomStatusOf(x)
      BY <2>1, <2>3, AlikeStatus DEF Members
    <3>3. \A x \in qs : RoomStatusOf(x)' = "stranded"
      BY <2>1, <3>1, <1>m, LifeMembers DEF RoomStatusOf, Members
    <3>4. [x \in Peers |-> RoomStatusOf(x)]'
            = [x \in Peers |-> IF x \in qs THEN "stranded"
                                 ELSE [y \in Peers |-> RoomStatusOf(y)][x]]
      BY <3>2, <3>3
    <3>5. UNCHANGED <<rooms # {}, {x \in Peers : bound[x] \in Rooms}>>
      BY <2>1
    <3> HIDE DEF qs
    <3>6. L!Strand(qs)
      BY <2>5, <3>1, <3>4, <3>5, Zenon DEF L!Strand
    <3>7. qs \in SUBSET Peers
      BY DEF qs
    <3> QED BY <3>6, <3>7 DEF L!RoomNext
  <2> QED BY <2>4, <2>5
<1>3. ASSUME NEW p \in Peers, Connect(p)
      PROVE  Goal
  <2>1. p \notin Members
    BY <1>3, <1>m DEF Connect
  <2>2. \A x \in Members : sock[x] # p
    BY <1>3, <1>m, <2>1 DEF Connect, SockInv, SocketsMoveOnce, Unstarted
  <2>3. \A x \in Members : Alike(x)
    BY <1>3, <1>m, <1>t, <2>1, <2>2 DEF Connect, Alike, Open, TypeOK
  <2> QED BY <1>3, <2>3, LifeStutters DEF Connect, places, counts
<1>4. ASSUME NEW p \in Peers, NEW r \in Rooms, Admits(p, r)
      PROVE  Goal
  <2>1. /\ roster' = [roster EXCEPT ![rm] = @ \cup {p}] /\ rooms' = {rm} /\ r = rm
        /\ st'[p] = "joined" /\ \A x \in Peers \ {p} : st'[x] = st[x]
        /\ joins'[p] = 1 /\ \A x \in Peers \ {p} : joins'[x] = joins[x]
        /\ joins[p] = 0 /\ roomId[p] = NONE
        /\ bound' = [bound EXCEPT ![p] = rm]
        /\ UNCHANGED <<sock, sockSt, registered>>
    BY <1>4, <1>t, UnstartedOut DEF Admits, AddPeer, TypeOK
  <2>2. Members' = Members \cup {p} /\ p \notin Members /\ Members = roster[rm]
    BY <2>1, <1>t, <1>r DEF Members, TypeOK
  <2>3. /\ RoomStatusOf(p) = "outside"
        /\ RoomStatusOf(p)' \in {"present", "fading", "ghost"}
    BY <2>1, <2>2 DEF RoomStatusOf
  <2>4. \A x \in Peers \ {p} : RoomStatusOf(x)' = RoomStatusOf(x)
    BY <2>1, <2>2 DEF RoomStatusOf, Open
  <2>5. L!Cardinality(L!RoomMembers) < MaxPeers
    <3>1. Cardinality(roster[rm]) < MaxPeers
      BY <1>4, <1>t, <2>1, RostersFinite, MaxPeersAssumption DEF Admits, IsFull
    <3> QED BY <2>2, <3>1, LifeMembers, SameLifeCardinality
  <2>6. \E s \in {"present", "fading", "ghost"} : L!Become(p, s)
    BY <2>3, <2>4 DEF L!Become
  <2>7. {x \in Peers : bound[x] \in Rooms}' = {x \in Peers : bound[x] \in Rooms} \cup {p}
    BY <2>1, <1>t DEF TypeOK
  <2>8. (rooms # {})' = TRUE
    BY <2>1
  <2>9. [x \in Peers |-> RoomStatusOf(x)][p] = "outside"
    BY <2>3
  <2>10. L!Enter(p)
    BY <2>5, <2>6, <2>7, <2>8, <2>9, Zenon DEF L!Enter
  <2> QED BY <2>10 DEF L!RoomNext
<1>5. ASSUME NEW p \in Peers, NEW q \in Peers, Reconnect(p, q)
      PROVE  Goal
  <2>1. /\ UNCHANGED <<roster, bound, rooms, joins, sockSt>>
        /\ st[q] = "reconnecting" /\ st'[q] = "joined"
        /\ \A x \in Peers \ {q} : st'[x] = st[x] /\ sock'[x] = sock[x]
        /\ registered' = (registered \ {p}) \cup {q} /\ Unstarted(p)
    BY <1>5, <1>t DEF Reconnect, Resumable, FirstMessage, places, counts, TypeOK, Unstarted
  <2>2. \A x \in Members \ {q} : Alike(x)
    BY <2>1, <1>m DEF Alike, Open
  <2>3. CASE q \in Members
    <3>1. q \in registered /\ q \in registered'
      BY <2>1, <2>3, <1>f
    <3>2. L!Return(q)
      BY <2>1, <2>2, <2>3, <3>1, LifeTurns
    <3> QED BY <3>2 DEF L!RoomNext
  <2>4. CASE q \notin Members
    BY <2>1, <2>2, <2>4, LifeStutters
  <2> QED BY <2>3, <2>4
<1>6. ASSUME NEW p \in Peers, roomId[p] # NONE, RemoveFromRoom(p, roomId[p]),
             joins' = joins, p \in registered, \A x \in Members \ {p} : Alike(x)
      PROVE  Goal
  <2>1. L!Exit(p)
    BY <1>6, LifeExit
  <2> QED BY <2>1 DEF L!RoomNext
<1>7. ASSUME NEW p \in Peers, Leave(p)
      PROVE  Goal
  <2>1. /\ bound[p] \in Rooms /\ p \in roster[bound[p]] /\ Heard(p)
        /\ RemoveFromRoom(p, bound[p])
        /\ UNCHANGED <<st, sock, sockSt, registered, joins>>
    BY <1>7 DEF Leave, BoundRoster, Signals
  <2>2. p \in Members /\ roomId[p] = bound[p]
    BY <1>m, <2>1 DEF Members
  <2>3. p \in registered
    BY <2>1, <2>2, <1>f DEF Heard
  <2> QED BY <1>6, <1>m, <2>1, <2>2, <2>3 DEF Alike, Open
<1>8. ASSUME NEW s \in Peers, CloseFrame(s)
      PROVE  Goal
  <2>1. /\ UNCHANGED <<roster, bound, rooms, joins, st, sock, registered>>
        /\ sockSt[s] = "open" /\ sockSt'[s] = "ending"
        /\ \A x \in Peers \ {s} : sockSt'[x] = sockSt[x]
    BY <1>8, <1>t DEF CloseFrame, places, counts, TypeOK
  <2>2. CASE \E y \in Members : sock[y] = s /\ st[y] \notin {"reconnecting", "closed"}
    <3>1. PICK y \in Members : sock[y] = s /\ st[y] \notin {"reconnecting", "closed"}
      BY <2>2
    <3>2. \A x \in Members \ {y} : sock[x] # s
      BY <3>1, ExclusiveFromInv DEF SocketExclusive
    <3>3. \A x \in Members \ {y} : Alike(x)
      BY <2>1, <3>2, <1>m DEF Alike, Open
    <3>4. y \in registered /\ Open(y) /\ ~Open(y)'
      BY <2>1, <3>1, <1>f DEF Open
    <3>5. L!Fade(y)
      BY <1>m, <2>1, <3>1, <3>3, <3>4, LifeTurns
    <3> QED BY <1>m, <3>5 DEF L!RoomNext
  <2>3. CASE \A y \in Members : sock[y] = s => st[y] \in {"reconnecting", "closed"}
    <3>1. \A x \in Members : Alike(x)
      BY <2>1, <2>3, <1>m DEF Alike, Open
    <3> QED BY <2>1, <3>1, LifeStutters
  <2> QED BY <2>2, <2>3
<1>9. ASSUME NEW s \in Peers, SocketClosed(s)
      PROVE  Goal
  <2>1. /\ UNCHANGED <<sock, joins>> /\ sockSt[s] # "closed"
        /\ \A x \in Peers \ {s} : sockSt'[x] = sockSt[x]
        /\ \A x \in Peers :
             st'[x] = IF x \in OnSocket(s) \cap token THEN "reconnecting"
                      ELSE IF x \in OnSocket(s) THEN "closed" ELSE st[x]
    BY <1>9, <1>t DEF SocketClosed, TypeOK
  <2>2. \A x, y \in Members : x \in OnSocket(s) /\ y \in OnSocket(s) => x = y
    BY ExclusiveFromInv DEF SocketExclusive, OnSocket
  <2>3. \A x \in Members \cap OnSocket(s) :
          st[x] \notin {"reconnecting", "closed"} /\ x \in registered
    BY <2>1, <1>f DEF OnSocket
  <2>4. \A x \in Members \ OnSocket(s) : (x \in registered' <=> x \in registered)
                                            => Alike(x)
    BY <2>1, <1>m DEF Alike, OnSocket, Open
  <2>5. ASSUME UNCHANGED <<roster, bound, rooms>>,
               (OnSocket(s) \ token) \cap Members = {},
               \A x \in Members : x \in registered' <=> x \in registered
        PROVE  Goal
    <3>1. CASE OnSocket(s) \cap Members = {}
      BY <2>1, <2>4, <2>5, <3>1, LifeStutters
    <3>2. ASSUME NEW y \in OnSocket(s) \cap Members
          PROVE  Goal
      <4>1. \A x \in Members \ {y} : Alike(x)
        BY <2>2, <2>4, <2>5, <3>2
      <4>2. st'[y] = "reconnecting"
        BY <2>1, <2>5, <3>2, <1>m
      <4>3. L!Drop(y)
        BY <2>1, <2>3, <2>5, <3>2, <4>1, <4>2, <1>m, LifeTurns
      <4> QED BY <4>3, <1>m DEF L!RoomNext
    <3> QED BY <3>1, <3>2
  <2>6. CASE OnSocket(s) \ token = {} /\ UNCHANGED <<registered, places, clients, lefts>>
    BY <2>5, <2>6 DEF places
  <2>7. ASSUME NEW p \in Peers, OnSocket(s) \ token = {p}, Disconnected(p)
        PROVE  Goal
    <3>1. CASE roomId[p] = NONE
      <4>1. /\ UNCHANGED <<roster, bound, rooms>> /\ p \notin Members
            /\ registered' = registered \ {p}
        BY <2>7, <3>1, <1>r DEF Disconnected, places
      <4> QED BY <2>5, <2>7, <4>1
    <3>2. CASE roomId[p] # NONE
      <4>1. p \in Members /\ p \in OnSocket(s)
        BY <2>7, <3>2, <1>r
      <4>2. registered' = registered \ {p} /\ RemoveFromRoom(p, roomId[p])
        BY <2>7, <3>2 DEF Disconnected
      <4>3. \A x \in Members \ {p} : Alike(x)
        BY <2>2, <2>4, <4>1, <4>2
      <4> QED BY <1>6, <2>1, <2>3, <2>7, <3>2, <4>1, <4>2, <4>3
    <3> QED BY <3>1, <3>2
  <2> QED BY <1>9, <2>6, <2>7 DEF SocketClosed, OnSocket
<1>10. ASSUME NEW p \in Peers, GraceExpires(p)
       PROVE  Goal
  <2>1. /\ UNCHANGED <<sock, sockSt, joins>> /\ p \in timer
        /\ \A x \in Peers \ {p} : st'[x] = st[x]
        /\ registered' = registered \ {p}
    BY <1>10, <1>t DEF GraceExpires, Disconnected, TypeOK
  <2>2. \A x \in Members \ {p} : Alike(x)
    BY <2>1, <1>m DEF Alike, Open
  <2>3. CASE roomId[p] = NONE
    <3>1. UNCHANGED <<roster, bound, rooms>> /\ p \notin Members
      BY <1>10, <2>3, <1>r DEF GraceExpires, Disconnected, places
    <3> QED BY <2>1, <2>2, <3>1, LifeStutters
  <2>4. CASE roomId[p] # NONE
    <3>1. RemoveFromRoom(p, roomId[p]) /\ p \in registered
      BY <1>10, <2>1, <2>4, <1>r, <1>f DEF GraceExpires, Disconnected
    <3> QED BY <1>6, <2>1, <2>2, <2>4, <3>1
  <2> QED BY <2>3, <2>4
<1>11. ASSUME NEW p \in Peers, Kick(p)
       PROVE  Goal
  <2>1. /\ UNCHANGED <<sock, registered, joins>> /\ p \in registered
        /\ \A x \in Peers \ {p} : st'[x] = st[x]
        /\ \A s \in Peers : sock[p] # s => sockSt'[s] = sockSt[s]
    BY <1>11, <1>t DEF Kick, ClosePeers, CloseSockets, TypeOK
  <2>2. ASSUME NEW x \in Members \ {p}
        PROVE  Alike(x)
    <3>1. sock[p] # sock[x]
      BY <2>1, <2>2, Sharers
    <3> QED BY <1>m, <2>1, <2>2, <3>1 DEF Alike, Open
  <2>3. CASE roomId[p] = NONE
    <3>1. UNCHANGED <<roster, bound, rooms>> /\ p \notin Members
      BY <1>11, <2>3, <1>r DEF Kick, places
    <3> QED BY <2>1, <2>2, <3>1, LifeStutters
  <2>4. CASE roomId[p] # NONE
    <3>1. RemoveFromRoom(p, roomId[p])
      BY <1>11, <2>4 DEF Kick
    <3> QED BY <1>6, <2>1, <2>2, <2>4, <3>1
  <2> QED BY <2>3, <2>4
<1> QED
  BY <1>1, <1>2, <1>3, <1>4, <1>5, <1>7, <1>8, <1>9, <1>10, <1>11, <1>t, CoreKinds

(* Listeners are carried by peers that joined.                              *)
BoundJoined == \A p \in Peers : bound[p] # NONE => joins[p] = 1

LEMMA BoundJoinedStep ==
  ASSUME IInv, BoundJoined, [Next]_vars
  PROVE  BoundJoined'
<1> USE RoomsAssumption DEF IInv, BoundJoined
<1>1. CASE Stays
  BY <1>1 DEF Stays
<1>2. ASSUME NEW p \in Peers, NEW r \in Rooms, Enters(p, r)
      PROVE  BoundJoined'
  <2>1. joins[p] = 0
    BY <1>2, UnstartedOut DEF Enters
  <2> QED BY <1>2, <2>1 DEF Enters, TypeOK
<1>3. ASSUME NEW p \in Peers, Exits(p)
      PROVE  BoundJoined'
  BY <1>3 DEF Exits, Vacates, TypeOK
<1> QED BY <1>1, <1>2, <1>3, StepKinds

(* Frames are handled of those RoomLife says may speak, and of no one else. *)
LEMMA OnlySpeakersHeard ==
  ASSUME IInv, SockInv, BoundJoined, NEW p \in Peers, Signals(p)
  PROVE  p \in L!Speakers
<1>1. joins[p] = 1 /\ sockSt[sock[p]] # "closed"
  BY DEF Signals, Heard, BoundJoined
<1>2. st[p] # "reconnecting"
  BY <1>1 DEF SockInv, GraceOnDeadSocket
<1>3. st[p] # "none"
  BY <1>1 DEF IInv, JoinsAtMostOnce, Unstarted
<1>4. p \in registered
  BY <1>1, <1>3 DEF SockInv, ForgottenOnDeadSocket
<1>5. CASE p \in Members
  <2>1. RoomStatusOf(p) \in {"stranded", "present", "fading"}
    BY <1>2, <1>4, <1>5 DEF RoomStatusOf
  <2> QED BY <2>1 DEF L!Speakers
<1>6. CASE p \notin Members
  <2>1. RoomStatusOf(p) = "left"
    BY <1>1, <1>6 DEF RoomStatusOf
  <2> QED BY <2>1 DEF L!Speakers
<1> QED BY <1>5, <1>6

(* With one room, destroyed when it empties, every step of the core is a    *)
(* step of RoomLife or changes nothing the listening parts see, and the     *)
(* server handles frames of the peers RoomLife calls Speakers only: what is *)
(* correct over RoomLife is correct over the core.                          *)
THEOREM RoomLifeImplemented ==
  AutoDestroy /\ (\E r : Rooms = {r}) => (Spec => ImplementsRoomLife)
<1> SUFFICES ASSUME AutoDestroy, NEW rm, Rooms = {rm}
             PROVE  Spec => ImplementsRoomLife
  OBVIOUS
<1>1. Init => L!RoomInit /\ BoundJoined
  <2> SUFFICES ASSUME Init
               PROVE  L!RoomInit /\ BoundJoined
    OBVIOUS
  <2>1. \A p \in Peers : RoomStatusOf(p) = "outside" /\ bound[p] = NONE
    BY DEF Init, RoomStatusOf, Members
  <2>2. [p \in Peers |-> RoomStatusOf(p)] = [p \in Peers |-> "outside"]
    BY <2>1
  <2>3. (rooms # {}) = FALSE /\ {p \in Peers : bound[p] \in Rooms} = {}
    BY <2>1, RoomsAssumption DEF Init
  <2> QED BY <2>1, <2>2, <2>3 DEF L!RoomInit, BoundJoined
<1>2. IInv /\ IInv' /\ SockInv /\ [Next]_vars => [L!RoomNext]_(L!roomVars)
  <2> SUFFICES ASSUME IInv, IInv', SockInv, [Next]_vars
               PROVE  [L!RoomNext]_(L!roomVars)
    OBVIOUS
  <2>1. rooms' \subseteq Rooms
    BY DEF IInv, TypeOK
  <2> QED BY <2>1, LifeStep
<1>3. IInv /\ BoundJoined /\ [Next]_vars => BoundJoined'
  BY BoundJoinedStep
<1>4. IInv /\ SockInv /\ BoundJoined => \A p \in Peers : Signals(p) => p \in L!Speakers
  BY OnlySpeakersHeard
<1> QED
  BY <1>1, <1>2, <1>3, <1>4, SockInvInductive, PTL
     DEF Spec, ImplementsRoomLife, L!RoomSpec
-----------------------------------------------------------------------------
(* A socket that closes disconnects one peer at most: SocketClosed, which   *)
(* is an action for none and for one, leaves no closing socket out.         *)

TokensKept ==
  \A p \in Peers :
    /\ Ttl /\ p \notin token => st[p] \in {"none", "closed"} \/ joins[p] = 1
    /\ ~Ttl => sock[p] = p /\ tokIdx = {}

LEMMA TokensKeptStep ==
  ASSUME IInv, SockInv, TokensKept, [Next]_vars
  PROVE  TokensKept'
<1> USE DEF TokensKept
<1>t. TypeOK
  BY DEF IInv
<1>j. \A x \in Peers : joins[x] = 1 => joins'[x] = 1
  BY NoOneReadied DEF IInv, JoinsAtMostOnce
<1>1. CASE Quiet
  BY <1>1 DEF Quiet
<1>2. ASSUME NEW ps \in SUBSET Peers, ShutOut(ps) PROVE TokensKept'
  BY <1>2, <1>t DEF ShutOut, ClosePeers, TypeOK
<1>3. ASSUME NEW p \in Peers, Connect(p) PROVE TokensKept'
  BY <1>3, <1>t DEF Connect, counts, TypeOK
<1>4. ASSUME NEW p \in Peers, NEW r \in Rooms, Admits(p, r) PROVE TokensKept'
  <2>1. /\ UNCHANGED <<sock, tokIdx, token>>
        /\ \A x \in Peers \ {p} : st'[x] = st[x] /\ joins'[x] = joins[x]
        /\ joins'[p] = 1
    BY <1>4, <1>t, UnstartedOut DEF Admits, AddPeer, TypeOK
  <2> QED BY <2>1
<1>5. ASSUME NEW p \in Peers, NEW q \in Peers, Reconnect(p, q) PROVE TokensKept'
  BY <1>5, <1>t DEF Reconnect, Resumable, SockInv, GraceOnDeadSocket, counts, TypeOK
<1>6. ASSUME NEW p \in Peers, Leave(p) \/ CloseFrame(p) PROVE TokensKept'
  BY <1>6 DEF Leave, CloseFrame, tokens, counts
<1>7. ASSUME NEW s \in Peers, SocketClosed(s) PROVE TokensKept'
  BY <1>7, <1>t DEF SocketClosed, OnSocket, tokens, TypeOK
<1>8. ASSUME NEW p \in Peers, GraceExpires(p) PROVE TokensKept'
  BY <1>8, <1>t DEF GraceExpires, TypeOK
<1>9. ASSUME NEW p \in Peers, Kick(p) PROVE TokensKept'
  BY <1>9, <1>t DEF Kick, ClosePeers, TypeOK
<1> QED
  BY <1>1, <1>2, <1>3, <1>4, <1>5, <1>6, <1>7, <1>8, <1>9, <1>t, CoreKinds

OneGone ==
  \A s \in Peers : sockSt[s] \in {"open", "closing", "ending"} =>
    \A p, q \in OnSocket(s) \ token : p = q

(* Of the peers on a socket that is still to close, at most one would be    *)
(* disconnected rather than given a grace period: the temporary peer of a   *)
(* reconnect keeps its own token.                                           *)
THEOREM OneGoneAtMost == Spec => []OneGone
<1>1. Init => TokensKept
  BY DEF Init, TokensKept
<1>2. IInv /\ SockInv /\ TokensKept /\ [Next]_vars => TokensKept'
  BY TokensKeptStep
<1>3. IInv /\ SockInv /\ TokensKept => OneGone
  <2> SUFFICES ASSUME IInv, SockInv, TokensKept, NEW s \in Peers,
                      sockSt[s] # "none",
                      NEW p \in OnSocket(s) \ token, NEW q \in OnSocket(s) \ token
               PROVE  p = q
    BY DEF OneGone
  <2>1. p \in Peers /\ q \in Peers /\ sock[p] = s /\ sock[q] = s
        /\ st[p] # "closed" /\ st[q] # "closed"
    BY DEF OnSocket
  <2>2. st[p] # "none" /\ st[q] # "none"
    BY <2>1 DEF SockInv, UnbornOwn
  <2>3. CASE Ttl
    <3>1. joins[p] = 1 /\ joins[q] = 1
      BY <2>1, <2>2, <2>3 DEF TokensKept
    <3> QED BY <2>1, <3>1 DEF SockInv, SocketsMoveOnce
  <2>4. CASE ~Ttl
    BY <2>1, <2>4 DEF TokensKept
  <2> QED BY <2>3, <2>4
<1> QED BY <1>1, <1>2, <1>3, SockInvInductive, PTL DEF Spec
=============================================================================
