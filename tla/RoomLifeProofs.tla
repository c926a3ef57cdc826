---------------------------- MODULE RoomLifeProofs ----------------------------
(***************************************************************************)
(* What every step of a room preserves, for the proofs about the parts     *)
(* whose actions contain the room's.                                       *)
(***************************************************************************)
EXTENDS RoomLife, TLAPS

(* The room's part of the state keeps its type whatever acts on it. *)
LEMMA RoomTypeStep ==
  ASSUME RoomTypeOK, RoomNext
  PROVE  RoomTypeOK'
<1>1. ASSUME NEW p \in Peers, NEW s \in Status, Become(p, s)
      PROVE  status' \in [Peers -> Status]
  BY <1>1 DEF RoomTypeOK, Become
<1>2. ASSUME NEW p \in Peers, Enter(p)
      PROVE  RoomTypeOK'
  BY <1>1, <1>2 DEF RoomTypeOK, Enter, Status, Inside
<1>3. ASSUME NEW p \in Peers, Fade(p) \/ Drop(p) \/ Return(p)
      PROVE  RoomTypeOK'
  BY <1>1, <1>3 DEF RoomTypeOK, Fade, Drop, Return, Status, Inside
<1>4. ASSUME NEW p \in Peers, Exit(p)
      PROVE  RoomTypeOK'
  BY <1>1, <1>4 DEF RoomTypeOK, Exit, Status, Inside
<1>5. ASSUME NEW ps \in SUBSET Peers, Strand(ps)
      PROVE  RoomTypeOK'
  BY <1>5 DEF RoomTypeOK, Strand, Status, Inside
<1>6. CASE Make
  BY <1>6 DEF RoomTypeOK, Make
<1> QED
  BY <1>2, <1>3, <1>4, <1>5, <1>6 DEF RoomNext

(* A room with members stands: only the last departure empties the store.   *)
Standing == RoomMembers # {} => alive

(* No step takes the Room object away from under its members.               *)
LEMMA StandingStep ==
  ASSUME RoomTypeOK, Standing, RoomNext \/ UNCHANGED roomVars
  PROVE  Standing'
<1>1. ASSUME NEW p \in Peers, Enter(p)
      PROVE  Standing'
  BY <1>1 DEF Enter, Standing
<1>2. ASSUME NEW p \in Peers, Fade(p) \/ Drop(p) \/ Return(p)
      PROVE  Standing'
  <2>1. p \in RoomMembers
    BY <1>2 DEF Fade, Drop, Return, RoomMembers, Inside
  <2> QED
    BY <1>2, <2>1 DEF Fade, Drop, Return, Standing
<1>3. ASSUME NEW p \in Peers, Exit(p)
      PROVE  Standing'
  <2>1. RoomMembers' = Remaining(p)
    BY <1>3 DEF Exit, Become, Remaining, RoomMembers, Inside, RoomTypeOK
  <2>2. p \in RoomMembers
    BY <1>3 DEF Exit, Reachable
  <2> QED
    BY <1>3, <2>1, <2>2 DEF Exit, Standing
<1>4. ASSUME NEW ps \in SUBSET Peers, Strand(ps)
      PROVE  Standing'
  BY <1>4 DEF Strand, Reachable, Standing
<1>5. CASE Make
  BY <1>5 DEF Make, Standing
<1>6. CASE UNCHANGED roomVars
  BY <1>6 DEF roomVars, Standing, RoomMembers
<1> QED
  BY <1>1, <1>2, <1>3, <1>4, <1>5, <1>6 DEF RoomNext

(* Whom the Room object does not hear any more is not a member of it: a     *)
(* room is replaced only when it is empty.                                  *)
Heard == RoomMembers \subseteq current

LEMMA HeardStep ==
  ASSUME RoomTypeOK, Heard, RoomNext \/ UNCHANGED roomVars
  PROVE  Heard'
<1>1. ASSUME NEW p \in Peers, Enter(p)
      PROVE  Heard'
  BY <1>1 DEF Enter, Become, RoomTypeOK, Heard, RoomMembers
<1>2. ASSUME NEW p \in Peers, Fade(p) \/ Drop(p) \/ Return(p)
      PROVE  Heard'
  BY <1>2 DEF Fade, Drop, Return, Become, RoomTypeOK, Heard, RoomMembers, Inside
<1>3. ASSUME NEW p \in Peers, Exit(p)
      PROVE  Heard'
  <2>1. RoomMembers' = Remaining(p)
    BY <1>3 DEF Exit, Become, Remaining, RoomMembers, Inside, RoomTypeOK
  <2> QED
    BY <1>3, <2>1 DEF Exit, Heard, Remaining
<1>4. ASSUME NEW ps \in SUBSET Peers, Strand(ps)
      PROVE  Heard'
  BY <1>4 DEF Strand, Reachable, Heard, RoomMembers
<1>5. CASE Make
  BY <1>5 DEF Make, Heard, RoomMembers
<1>6. CASE UNCHANGED roomVars
  BY <1>6 DEF roomVars, Heard, RoomMembers
<1> QED
  BY <1>1, <1>2, <1>3, <1>4, <1>5, <1>6 DEF RoomNext
=============================================================================
