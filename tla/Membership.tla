----------------------------- MODULE Membership ------------------------------
(***************************************************************************)
(* What the signaling core promises its listeners about membership, with   *)
(* no sockets, tokens, timers or messages: a peer enters at most one room, *)
(* once, while there is space; it may be away and come back without its    *)
(* place being touched; it may be stranded, its connection closed by the   *)
(* application with the place still taken; and once out it stays out.      *)
(***************************************************************************)
EXTENDS Naturals, FiniteSets

CONSTANTS Peers, Rooms, MaxPeers

VARIABLES
  members,   \* the peers with a place in each room
  status     \* of each peer

mvars == <<members, status>>

Status == {"outside", "present", "away", "stranded", "left"}

Inside == {"present", "away", "stranded"}

MembershipTypeOK ==
  /\ members \in [Rooms -> SUBSET Peers]
  /\ status \in [Peers -> Status]

MInit ==
  /\ members = [r \in Rooms |-> {}]
  /\ status = [p \in Peers |-> "outside"]

Enter(p, r) ==
  /\ status[p] = "outside"
  /\ Cardinality(members[r]) < MaxPeers
  /\ members' = [members EXCEPT ![r] = @ \cup {p}]
  /\ status' = [status EXCEPT ![p] = "present"]

Drop(p) ==
  /\ status[p] = "present"
  /\ status' = [status EXCEPT ![p] = "away"]
  /\ UNCHANGED members

Return(p) ==
  /\ status[p] = "away"
  /\ status' = [status EXCEPT ![p] = "present"]
  /\ UNCHANGED members

(* The application closes some connections and leaves the places taken. *)
Strand(ps) ==
  /\ ps # {}
  /\ \A p \in ps : status[p] \in Inside
  /\ status' = [p \in Peers |-> IF p \in ps THEN "stranded" ELSE status[p]]
  /\ UNCHANGED members

Exit(p) ==
  /\ status[p] \in Inside
  /\ members' = [r \in Rooms |-> members[r] \ {p}]
  /\ status' = [status EXCEPT ![p] = "left"]

(* A peer that is away is not away for ever. *)
Settle(p) ==
  /\ status[p] = "away"
  /\ Return(p) \/ Exit(p) \/ Strand({p})

MNext ==
  \/ \E p \in Peers, r \in Rooms : Enter(p, r)
  \/ \E p \in Peers : Drop(p) \/ Return(p) \/ Exit(p)
  \/ \E ps \in SUBSET Peers : Strand(ps)

MSpec == MInit /\ [][MNext]_mvars

MFairSpec == MSpec /\ \A p \in Peers : WF_mvars(Settle(p))
=============================================================================
