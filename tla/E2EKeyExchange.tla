---------------------------- MODULE E2EKeyExchange ----------------------------
(***************************************************************************)
(* crypto/E2EKeyExchange.js over the life of one room: the public keys the *)
(* server stores, the timers that enforce an announcement, and the keys    *)
(* each client holds.  Its handlers are asynchronous functions without an  *)
(* await that waits, so each is one action.                                *)
(*                                                                         *)
(* A message to a peer that is away may be queued or dropped: the queue of *)
(* Peer is shared with everything else that is sent.                       *)
(***************************************************************************)
EXTENDS RoomLife

CONSTANTS
  Keys,        \* public keys, each with its curve
  NONE,        \* no key
  MaxVersion,  \* bounds the rotations of a behaviour
  Require      \* options.requireKeyOnJoin

ASSUME KeysAssumption == MaxVersion \in Nat \ {0} /\ Require \in BOOLEAN

Entry == [key : Keys, version : 1..MaxVersion]

ASSUME NoEntryAssumption == NONE \notin Entry

VARIABLES
  store,    \* _roomKeys of the room, by peer
  timers,   \* peers with an enforcement timer
  held,     \* the keys each client holds of the others
  lapsed    \* history: peers whose socket has not stayed open since the join

keyVars == <<store, timers, held, lapsed>>
vars == <<roomVars, keyVars>>

TypeOK ==
  /\ RoomTypeOK
  /\ store \in [Peers -> Entry \cup {NONE}]
  /\ timers \subseteq Peers
  /\ held \in [Peers -> [Peers -> Entry \cup {NONE}]]
  /\ lapsed \subseteq Peers

Empty == [p \in Peers |-> NONE]

Init ==
  /\ RoomInit
  /\ store = Empty
  /\ timers = {}
  /\ held = [p \in Peers |-> Empty]
  /\ lapsed = {}

(* What the clients hold once those of to, but the ones that missed it, are *)
(* told that peer's key is e; NONE revokes it.                              *)
Told(to, missed, peer, e) ==
  [q \in Peers |-> IF q \in to \ missed /\ status[q] \in {"present", "away"}
                     THEN [held[q] EXCEPT ![peer] = e] ELSE held[q]]

Away == {q \in Peers : status[q] = "away"}

(* Room.broadcast: some of the peers that are away miss it. *)
Broadcast(to, peer, e) ==
  \E missed \in SUBSET Away : held' = Told(to, missed, peer, e)

(* The members a Room object sends to for p: none once p's object is gone.  *)
Audience(p) == IF p \in current THEN Remaining(p) ELSE {}

-----------------------------------------------------------------------------
(* Listeners of the server's events. *)

SnapshotOfSeveral(p) ==
  IF status'[p] = "present" /\ Cardinality({q \in Peers : store[q] # NONE}) > 1
    THEN [held EXCEPT ![p] = store] ELSE held

(* _onPeerJoined: the keys already stored, if there is one. *)
SnapshotTo(p) ==
  IF status'[p] = "present" /\ store # Empty
    THEN [held EXCEPT ![p] = store] ELSE held

PeerJoined(p) ==
  /\ Enter(p)
  /\ held' = SnapshotTo(p)
  /\ timers' = IF Require THEN timers \cup {p} ELSE timers
  /\ lapsed' = IF status'[p] = "present" THEN lapsed ELSE lapsed \cup {p}
  /\ UNCHANGED store

(* _onPeerLeft, then room:destroyed when the room empties.  Nothing is      *)
(* broadcast of a peer that had no key; what its own client goes on holding *)
(* is left out.                                                             *)
PeerLeft(p) ==
  /\ timers' = timers \ {p}
  /\ store' = IF alive' THEN [store EXCEPT ![p] = NONE] ELSE Empty
  /\ LET told == IF store[p] # NONE THEN Remaining(p) ELSE {}
     IN  \E missed \in SUBSET Away :
           held' = [Told(told, missed, p, NONE) EXCEPT ![p] = Empty]

Leaves(p) ==
  /\ Exit(p)
  /\ PeerLeft(p)
  /\ UNCHANGED lapsed

(* What the exchange does not listen to. *)
Elsewhere ==
  /\ \/ \E p \in Peers : (Fade(p) \/ Drop(p)) /\ lapsed' = lapsed \cup {p}
     \/ \E p \in Peers : Return(p) /\ UNCHANGED lapsed
     \/ \E ps \in SUBSET Peers : Strand(ps) /\ lapsed' = lapsed \cup ps
     \/ Make /\ UNCHANGED lapsed
  /\ UNCHANGED <<store, timers, held>>

-----------------------------------------------------------------------------
(* Messages of the data relay tagged __e2e.  The store is that of the room  *)
(* id, whichever Room object the message came through.                      *)

AnnounceKeepsTimer(p, k) ==
  /\ p \in Speakers /\ alive /\ store[p] = NONE
  /\ store' = [store EXCEPT ![p] = [key |-> k, version |-> 1]]
  /\ Broadcast(Audience(p), p, store'[p])
  /\ UNCHANGED <<roomVars, timers, lapsed>>

(* _handleKeyAnnounce *)
Announce(p, k) ==
  /\ p \in Speakers /\ alive /\ store[p] = NONE
  /\ store' = [store EXCEPT ![p] = [key |-> k, version |-> 1]]
  /\ timers' = timers \ {p}
  /\ Broadcast(Audience(p), p, store'[p])
  /\ UNCHANGED <<roomVars, lapsed>>

(* _handleKeyRotate *)
Rotate(p, k) ==
  /\ p \in Speakers /\ alive /\ store[p] # NONE
  /\ store[p].version < MaxVersion
  /\ store' = [store EXCEPT ![p] = [key |-> k, version |-> @.version + 1]]
  /\ Broadcast(Audience(p), p, store'[p])
  /\ UNCHANGED <<roomVars, timers, lapsed>>

(* _handleKeyRequest: the answer is the stored key, if there is one. *)
Request(p, q) ==
  /\ p \in Speakers /\ alive /\ store[q] # NONE
  /\ held' = IF status[p] = "present"
               THEN [held EXCEPT ![p][q] = store[q]] ELSE held
  /\ UNCHANGED <<roomVars, store, timers, lapsed>>

-----------------------------------------------------------------------------
(* The enforcement timer: kick, which finds no ghost.  A kick is also a     *)
(* departure.                                                               *)
Enforce(p) ==
  /\ p \in timers
  /\ IF store[p] = NONE /\ p \in Reachable
       THEN Exit(p) /\ PeerLeft(p)
       ELSE timers' = timers \ {p} /\ UNCHANGED <<roomVars, store, held>>
  /\ UNCHANGED lapsed

Next ==
  \/ \E p \in Peers :
       \/ PeerJoined(p) \/ Leaves(p) \/ Enforce(p)
       \/ \E k \in Keys : Announce(p, k) \/ Rotate(p, k)
       \/ \E q \in Peers : Request(p, q)
  \/ Elsewhere

Spec == Init /\ [][Next]_vars

-----------------------------------------------------------------------------
(* A client whose socket has stayed open since it joined holds exactly the  *)
(* stored keys of the other members, whatever the order of joins,           *)
(* announcements, rotations and departures, and nothing of who is absent    *)
(* and has no key: the snapshot and the broadcasts leave no gap.            *)
KeysExact ==
  \A p, q \in RoomMembers :
    status[p] = "present" /\ p \notin lapsed /\ q # p => held[p][q] = store[q]

(* A member that is away or resumed may hold an old key, never a key of a   *)
(* version the server has not stored.                                       *)
NeverAhead ==
  \A p, q \in RoomMembers :
    q # p /\ held[p][q] # NONE =>
      store[q] # NONE /\ held[p][q].version <= store[q].version

(* With requireKeyOnJoin each member the server can find has announced a    *)
(* key or has a timer that will remove it, not both, and no timer outlives  *)
(* a membership to kick nobody.                                             *)
Enforced ==
  Require =>
    \A p \in Peers :
      status[p] # "ghost" => (p \in timers <=> p \in RoomMembers /\ store[p] = NONE)

(* Versions start at 1, and clients hold the stored keys, or older ones     *)
(* where they missed something, never others (_handleKeyAnnounce,           *)
(* _handleKeyRotate and the snapshot of _onPeerJoined).                     *)
KeysHold == TypeOK /\ KeysExact /\ NeverAhead
=============================================================================
