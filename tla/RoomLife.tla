------------------------------ MODULE RoomLife -------------------------------
(***************************************************************************)
(* One room as the parts that listen to the server see it: who is a member *)
(* and how its connection fares, and whether the Room object stands.  It   *)
(* is the signaling core without messages, tokens and timers; Signaling    *)
(* implements it (ImplementsRoomLife there).  The modules of the listening *)
(* parts extend it: each of their actions is an action of this module with *)
(* what the part's handlers do in the same callback.                       *)
(***************************************************************************)
EXTENDS Naturals, FiniteSets

CONSTANTS
  Peers,      \* connections the server accepts; bounds a behaviour
  MaxPeers    \* options.maxPeersPerRoom

ASSUME RoomLifeAssumption == IsFiniteSet(Peers) /\ MaxPeers \in Nat \ {0}

VARIABLES
  status,   \* of each peer, towards the room
  alive,    \* the room id names a Room object
  current   \* peers whose messages that Room object still handles

roomVars == <<status, alive, current>>

(* present: the socket is open; fading: it is closing or closed and the     *)
(* peer does not know; away: in its grace period; stranded: closed by       *)
(* Peer.close with its place still taken; ghost: admitted by a hook that    *)
(* answered after the server had forgotten the connection.                  *)
Inside == {"present", "fading", "away", "stranded", "ghost"}
Status == Inside \cup {"outside", "left"}

RoomTypeOK ==
  /\ status \in [Peers -> Status]
  /\ alive \in BOOLEAN
  /\ current \subseteq Peers

RoomInit ==
  /\ status = [p \in Peers |-> "outside"]
  /\ alive = FALSE
  /\ current = {}

RoomMembers == {p \in Peers : status[p] \in Inside}

Become(p, s) == status' = [status EXCEPT ![p] = s]

(* peer:joined, after room:created when the room is new *)
Enter(p) ==
  /\ status[p] = "outside"
  /\ Cardinality(RoomMembers) < MaxPeers
  /\ \E s \in {"present", "fading", "ghost"} : Become(p, s)
  /\ alive' = TRUE
  /\ current' = current \cup {p}

(* The socket starts to close: what is sent from here on is lost. *)
Fade(p) ==
  /\ status[p] = "present"
  /\ Become(p, "fading")
  /\ UNCHANGED <<alive, current>>

(* The socket is gone and the grace period runs: messages are queued. *)
Drop(p) ==
  /\ status[p] \in {"present", "fading"}
  /\ Become(p, "away")
  /\ UNCHANGED <<alive, current>>

(* peer:reconnected *)
Return(p) ==
  /\ status[p] = "away"
  /\ Become(p, "present") \/ Become(p, "fading")
  /\ UNCHANGED <<alive, current>>

(* Members the server can find: all but the ghosts. *)
Reachable == {p \in RoomMembers : status[p] # "ghost"}

(* Peer.close by the application or by SignalingServer.close. *)
Strand(ps) ==
  /\ ps # {} /\ ps \subseteq Reachable
  /\ status' = [p \in Peers |-> IF p \in ps THEN "stranded" ELSE status[p]]
  /\ UNCHANGED <<alive, current>>

Remaining(p) == RoomMembers \ {p}

(* peer:left, by leave, kick, expiry or close; then room:destroyed if the   *)
(* room is empty.                                                           *)
Exit(p) ==
  /\ p \in Reachable
  /\ Become(p, "left")
  /\ IF Remaining(p) = {}
       THEN alive' = FALSE /\ current' = {}
       ELSE UNCHANGED <<alive, current>>

(* createRoom by the application *)
Make ==
  /\ ~alive
  /\ alive' = TRUE
  /\ UNCHANGED <<status, current>>

(* Peers whose frames may still be read and handled by the room they        *)
(* joined: those that left it are among them.                               *)
Speakers == {p \in Peers : status[p] \notin {"outside", "away", "ghost"}}

RoomNext ==
  \/ \E p \in Peers : Enter(p) \/ Fade(p) \/ Drop(p) \/ Return(p) \/ Exit(p)
  \/ \E ps \in SUBSET Peers : Strand(ps)
  \/ Make

RoomSpec == RoomInit /\ [][RoomNext]_roomVars
=============================================================================
