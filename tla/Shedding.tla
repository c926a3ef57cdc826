------------------------------ MODULE Shedding -------------------------------
(***************************************************************************)
(* reliability/BackpressureController.js with the map of connections it    *)
(* measures, server.peers, in its order: who asks for the room under load, *)
(* and whom a sample at the level SHEDDING closes.  A connection the       *)
(* server has closed keeps its entry, since its close event returns early. *)
(* What a hook of the application answers is a choice of any.              *)
(***************************************************************************)
EXTENDS RoomLife, SequencesExt

CONSTANT PeersCap    \* options.maxPeers

ASSUME PeersCapAssumption == PeersCap \in Nat \ {0}

VARIABLES
  entries,   \* server.peers, the oldest connection first
  joining,   \* of the join of each connection
  shut,      \* peers whose state is CLOSED by Peer.close
  staff,     \* __role is moderator or admin
  strain,    \* _currentLevel refuses joins
  victims,   \* history: peers _shedPeers has closed
  demoted    \* history: peers that have lost a role they had or claimed

histories == <<victims, demoted>>
sheddingVars == <<entries, joining, shut, staff, strain, histories>>

(* The levels below CRITICAL let joins pass and differ in a warning.        *)
Levels == <<"below", "critical", "shedding">>

SheddingTypeOK ==
  /\ RoomTypeOK
  /\ entries \in Seq(Peers) /\ IsInjective(entries)
  /\ joining \in [Peers -> {"new", "connected", "asking", "over"}]
  /\ shut \cup staff \cup victims \cup demoted \subseteq Peers
  /\ strain \in BOOLEAN

SheddingInit ==
  /\ RoomInit
  /\ entries = <<>> /\ joining = [p \in Peers |-> "new"]
  /\ shut = {} /\ staff = {} /\ victims = {} /\ demoted = {}
  /\ strain = FALSE

Moves(p, s) == joining' = [joining EXCEPT ![p] = s]

Unlists(p) ==
  \/ p \notin ToSet(entries) /\ UNCHANGED entries
  \/ \E i \in DOMAIN entries : entries[i] = p /\ entries' = RemoveAt(entries, i)

-----------------------------------------------------------------------------
Connects(p) ==
  /\ joining[p] = "new" /\ Moves(p, "connected")
  /\ entries' = Append(entries, p)
  /\ UNCHANGED <<shut, staff, strain, histories, roomVars>>

(* The connection of a peer that is in no room ends: the disconnect         *)
(* listener of the server.                                                  *)
Vanishes(p) ==
  /\ p \in ToSet(entries) \ shut /\ p \notin RoomMembers
  /\ Unlists(p)
  /\ Moves(p, IF joining[p] = "asking" THEN "asking" ELSE "over")
  /\ UNCHANGED <<shut, staff, strain, histories, roomVars>>

(* _checkJoinAllowed, after the metadata of the message, which may claim a  *)
(* role, is set.                                                            *)
Claims(p) == staff' = staff \/ staff' = staff \cup {p}

Disclaims(p) ==
  /\ p \in staff /\ staff' = staff \ {p}
  /\ demoted' = demoted \cup {p}

AsksUnderLoad(p) ==
  /\ joining[p] = "connected" /\ Claims(p)
  /\ ~strain /\ Moves(p, "asking")
  /\ UNCHANGED <<entries, shut, strain, histories, roomVars>>

(* Whoever is refused, by the level or by the wrapped hook, is closed. *)
IsRefused(p) ==
  /\ \/ joining[p] = "asking" /\ UNCHANGED staff
     \/ joining[p] = "connected" /\ strain /\ Claims(p)
  /\ Moves(p, "over") /\ shut' = shut \cup {p}
  /\ UNCHANGED <<entries, strain, histories, roomVars>>

(* A full room refuses without closing. *)
FindsFull(p) ==
  /\ joining[p] = "asking" /\ Cardinality(RoomMembers) >= MaxPeers
  /\ Moves(p, "over")
  /\ UNCHANGED <<entries, shut, staff, strain, histories, roomVars>>

(* A policy sets the role; addPeer: a peer that was closed meanwhile is no  *)
(* longer CLOSED.                                                           *)
IsLetIn(p) ==
  /\ joining[p] = "asking" /\ Moves(p, "over")
  /\ Enter(p)
  /\ status'[p] = "ghost" <=> p \notin ToSet(entries)
  /\ p \in shut => status'[p] = "fading"
  /\ shut' = shut \ {p}
  /\ \/ Claims(p) /\ UNCHANGED demoted
     \/ Disclaims(p)
  /\ UNCHANGED <<entries, strain, victims>>

(* A metadata message may set any key, and that of the role is no other:    *)
(* whoever is heard in a room takes a role or drops it.                     *)
ChangesRole(p) ==
  /\ p \in Speakers
  /\ \/ p \notin staff /\ staff' = staff \cup {p} /\ UNCHANGED demoted
     \/ Disclaims(p)
  /\ UNCHANGED <<entries, joining, shut, strain, victims, roomVars>>

(* A departure by disconnect, by a kick, or by leave. *)
GoesAway(p) ==
  /\ Exit(p)
  /\ \/ p \notin shut /\ Unlists(p) /\ UNCHANGED shut
     \/ shut' = shut \cup {p} /\ UNCHANGED entries
     \/ UNCHANGED <<entries, shut>>
  /\ UNCHANGED <<joining, staff, strain, histories>>

(* A peer that was closed while it asked has no token to come back with. *)
Drifts ==
  /\ \E p \in Peers :
       Fade(p) \/ (p \notin victims /\ (Drop(p) \/ Return(p)))
  /\ UNCHANGED sheddingVars

ClosedByApp ==
  /\ \E ps \in SUBSET Peers : Strand(ps) /\ shut' = shut \cup ps
  /\ UNCHANGED <<entries, joining, staff, strain, histories>>

-----------------------------------------------------------------------------
(* The thresholds of the number of peers, 0.95 and 1.0 of the cap *)
LevelOf(n) ==
  CASE 100 * n < 95 * PeersCap -> 1
    [] 100 * n \in 95 * PeersCap .. 100 * PeersCap - 1 -> 2
    [] n >= PeersCap -> 3

(* A twentieth of the connections, rounded up. *)
Quota(n) == (n + 19) \div 20

Sheddable == ToSet(entries) \ staff

(* the entries i..j without a role *)
Between(i, j) == {entries[k] : k \in i..j} \ staff

Least(m, n) == IF m < n THEN m ELSE n

Shed(ps) ==
  /\ shut' = shut \cup ps /\ victims' = victims \cup ps
  /\ IF ps \cap Reachable = {} THEN UNCHANGED roomVars ELSE Strand(ps \cap Reachable)

ShedNewest(n) ==
  \E i \in 0..Len(entries) :
    /\ Cardinality(Between(i + 1, Len(entries))) = Least(n, Cardinality(Sheddable))
    /\ Shed(Between(i + 1, Len(entries)))

(* _shedPeers walks the map from the oldest entry, closed ones included, as *)
(* far as entry i.                                                          *)
ShedPeers(n) ==
  \E i \in 0..Len(entries) :
    /\ Cardinality(Between(1, i)) = Least(n, Cardinality(Sheddable))
    /\ Shed(Between(1, i))

(* _sample: the heap may ask for a higher level. *)
Measure ==
  \E n \in LevelOf(Len(entries))..Len(Levels) :
    /\ strain' = (Levels[n] # "below")
    /\ IF Levels[n] = "shedding"
         THEN ShedPeers(Quota(Len(entries)))
         ELSE UNCHANGED <<shut, victims, roomVars>>
    /\ UNCHANGED <<entries, joining, staff, demoted>>

SheddingNext ==
  \/ \E p \in Peers :
       \/ Connects(p) \/ Vanishes(p)
       \/ AsksUnderLoad(p) \/ IsRefused(p) \/ FindsFull(p) \/ IsLetIn(p)
       \/ ChangesRole(p) \/ GoesAway(p)
  \/ Drifts \/ ClosedByApp \/ Measure

SheddingSpec == SheddingInit /\ [][SheddingNext]_<<sheddingVars, roomVars>>

-----------------------------------------------------------------------------
(* A connection that was shed stays in the count it was shed for, unless    *)
(* its hook let it into a room afterwards, which it has left (Peer.close,   *)
(* the disconnect listener).                                                *)
ShedAreCounted == \A p \in victims : p \in ToSet(entries) \/ status[p] = "left"

(* Therefore shedding takes the same few again, the oldest, however many    *)
(* samples ask for it and whoever joins, leaves or takes a role: of those   *)
(* that have no role and never lost one, no more than a twentieth of the    *)
(* connections ever stand closed by it.  One that drops its role when       *)
(* others have been shed in its place comes on top (_shedPeers, the         *)
(* metadata message of Room).                                               *)
ShedAreFew ==
  Cardinality((victims \ demoted) \cap Sheddable) <= Quota(Cardinality(Peers))

SheddingHolds == SheddingTypeOK /\ ShedAreCounted /\ ShedAreFew
=============================================================================
