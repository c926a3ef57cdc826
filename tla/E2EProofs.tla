------------------------------ MODULE E2EProofs -------------------------------
(***************************************************************************)
(* Theorems about E2EKeyExchange for any number of peers, keys and places. *)
(* The step proofs treat the actions of the room once, in RoomStep, and    *)
(* then what the exchange adds to each.                                    *)
(***************************************************************************)
EXTENDS E2EKeyExchange, RoomLifeProofs

-----------------------------------------------------------------------------
(* Types. *)

(* Telling some clients a key, or its end, keeps their lists well-typed. *)
LEMMA ToldType ==
  ASSUME held \in [Peers -> [Peers -> Entry \cup {NONE}]],
         NEW to, NEW missed, NEW p \in Peers, NEW e \in Entry \cup {NONE}
  PROVE  Told(to, missed, p, e) \in [Peers -> [Peers -> Entry \cup {NONE}]]
  BY DEF Told

LEMMA BroadcastType ==
  ASSUME held \in [Peers -> [Peers -> Entry \cup {NONE}]],
         NEW to, NEW p \in Peers, NEW e \in Entry \cup {NONE},
         Broadcast(to, p, e)
  PROVE  held' \in [Peers -> [Peers -> Entry \cup {NONE}]]
<1>1. PICK missed \in SUBSET Away : held' = Told(to, missed, p, e)
  BY DEF Broadcast
<1> QED
  BY <1>1, ToldType

LEMMA PeerLeftType ==
  ASSUME TypeOK, NEW p \in Peers, PeerLeft(p)
  PROVE  /\ store' \in [Peers -> Entry \cup {NONE}]
         /\ timers' \subseteq Peers
         /\ held' \in [Peers -> [Peers -> Entry \cup {NONE}]]
<1>1. Empty \in [Peers -> Entry \cup {NONE}]
  BY DEF Empty
<1>2. store' \in [Peers -> Entry \cup {NONE}] /\ timers' \subseteq Peers
  BY <1>1 DEF TypeOK, PeerLeft
<1>3. PICK to, missed :
        held' = [Told(to, missed, p, NONE) EXCEPT ![p] = Empty]
  BY DEF PeerLeft
<1>4. Told(to, missed, p, NONE) \in [Peers -> [Peers -> Entry \cup {NONE}]]
  BY ToldType DEF TypeOK
<1> QED
  BY <1>1, <1>2, <1>3, <1>4

(* The actions of the room that the exchange's actions contain. *)
LEMMA RoomStep ==
  ASSUME Next
  PROVE  RoomNext \/ UNCHANGED roomVars
  BY DEF Next, Elsewhere, PeerJoined, Leaves, Enforce, Announce, Rotate, Request,
         RoomNext

(* Every variable keeps its type: what the clients hold are stored keys with *)
(* versions from 1 on (_handleKeyAnnounce, _handleKeyRotate).                *)
THEOREM TypeCorrect == Spec => []TypeOK
<1>1. Init => TypeOK
  BY DEF Init, TypeOK, RoomInit, RoomTypeOK, Status, Inside, Empty
<1>2. TypeOK /\ [Next]_vars => TypeOK'
  <2> SUFFICES ASSUME TypeOK, [Next]_vars PROVE TypeOK'
    OBVIOUS
  <2>1. RoomTypeOK'
    BY RoomTypeStep, RoomStep DEF TypeOK, vars, roomVars, RoomTypeOK
  <2>2. ASSUME NEW p \in Peers, PeerJoined(p)
        PROVE  TypeOK'
    BY <2>1, <2>2 DEF TypeOK, PeerJoined, SnapshotTo
  <2>3. ASSUME NEW p \in Peers, Leaves(p)
        PROVE  TypeOK'
    BY <2>1, <2>3, PeerLeftType DEF TypeOK, Leaves
  <2>4. ASSUME NEW p \in Peers, Enforce(p)
        PROVE  TypeOK'
    BY <2>1, <2>4, PeerLeftType DEF TypeOK, Enforce
  <2>5. ASSUME NEW p \in Peers, NEW k \in Keys, Announce(p, k)
        PROVE  TypeOK'
    <3>1. [key |-> k, version |-> 1] \in Entry
      BY KeysAssumption DEF Entry
    <3>2. store' \in [Peers -> Entry \cup {NONE}]
      BY <2>5, <3>1 DEF Announce, TypeOK
    <3>3. held' \in [Peers -> [Peers -> Entry \cup {NONE}]]
      BY <2>5, <3>2, BroadcastType DEF Announce, TypeOK
    <3> QED
      BY <2>1, <2>5, <3>2, <3>3 DEF Announce, TypeOK
  <2>6. ASSUME NEW p \in Peers, NEW k \in Keys, Rotate(p, k)
        PROVE  TypeOK'
    <3>1. store[p] \in Entry
      BY <2>6 DEF Rotate, TypeOK
    <3>2. [store[p] EXCEPT !.key = k] \in Entry /\ store[p].version + 1 \in 1..MaxVersion
      BY <2>6, <3>1, KeysAssumption DEF Rotate, Entry
    <3>3. [key |-> k, version |-> store[p].version + 1] \in Entry
      BY <3>2 DEF Entry
    <3>4. store' \in [Peers -> Entry \cup {NONE}]
      BY <2>6, <3>3 DEF Rotate, TypeOK
    <3>5. held' \in [Peers -> [Peers -> Entry \cup {NONE}]]
      BY <2>6, <3>4, BroadcastType DEF Rotate, TypeOK
    <3> QED
      BY <2>1, <2>6, <3>4, <3>5 DEF Rotate, TypeOK
  <2>7. ASSUME NEW p \in Peers, NEW q \in Peers, Request(p, q)
        PROVE  TypeOK'
    BY <2>1, <2>7 DEF TypeOK, Request
  <2>8. CASE Elsewhere
    BY <2>1, <2>8 DEF TypeOK, Elsewhere
  <2>9. CASE UNCHANGED vars
    BY <2>1, <2>9 DEF TypeOK, vars, keyVars
  <2> QED
    BY <2>2, <2>3, <2>4, <2>5, <2>6, <2>7, <2>8, <2>9 DEF Next
<1> QED
  BY <1>1, <1>2, PTL DEF Spec

-----------------------------------------------------------------------------
(* Enforcement. *)

(* Enforced is not inductive: a peer that joins must have no key, though    *)
(* peers that have left may announce one.  No frame of a peer reaches the   *)
(* room before its join.                                                    *)
Unheard == \A p \in Peers : status[p] = "outside" => store[p] = NONE

EInv == TypeOK /\ Unheard /\ Standing /\ Enforced

LEMMA EnforcedStep ==
  ASSUME EInv, TypeOK', [Next]_vars, Require
  PROVE  Unheard' /\ Enforced'
<1> USE DEF EInv
<1>1. ASSUME NEW p \in Peers, PeerJoined(p)
      PROVE  Unheard' /\ Enforced'
  BY <1>1 DEF PeerJoined, Enter, Become, TypeOK, RoomTypeOK, Unheard, Enforced,
              RoomMembers, Inside
<1>2. ASSUME NEW p \in Peers, Exit(p), PeerLeft(p)
      PROVE  Unheard' /\ Enforced'
  <2>1. \A q \in Peers : q # p => status'[q] = status[q]
    BY <1>2 DEF Exit, Become, TypeOK, RoomTypeOK
  <2>2. status'[p] = "left" /\ status[p] # "ghost"
    BY <1>2 DEF Exit, Become, Reachable, TypeOK, RoomTypeOK
  <2>3. \A q \in Peers : q # p =>
           \/ store'[q] = store[q]
           \/ store'[q] = NONE /\ q \notin RoomMembers
    <3>1. CASE Remaining(p) = {}
      BY <1>2, <3>1 DEF Exit, PeerLeft, Remaining, Empty
    <3>2. CASE Remaining(p) # {}
      <4>1. alive'
        BY <1>2, <3>2 DEF Exit, Standing, Remaining, Reachable
      <4> QED
        BY <1>2, <4>1 DEF PeerLeft, TypeOK
    <3> QED
      BY <3>1, <3>2
  <2> QED
    BY <1>2, <2>1, <2>2, <2>3
       DEF PeerLeft, Unheard, Enforced, RoomMembers, Inside
<1>3. ASSUME NEW p \in Peers, Enforce(p)
      PROVE  Unheard' /\ Enforced'
  <2>1. CASE store[p] = NONE /\ p \in Reachable
    BY <1>2, <1>3, <2>1 DEF Enforce
  <2>2. CASE ~ (store[p] = NONE /\ p \in Reachable)
    BY <1>3, <2>2 DEF Enforce, Reachable, Unheard, Enforced, RoomMembers, roomVars
  <2> QED
    BY <2>1, <2>2
<1>4. ASSUME NEW p \in Peers, NEW k \in Keys, Announce(p, k)
      PROVE  Unheard' /\ Enforced'
  <2>1. store'[p] # NONE
    BY <1>4, NoEntryAssumption, KeysAssumption DEF Announce, TypeOK, Entry
  <2> QED
    BY <1>4, <2>1 DEF Announce, Speakers, Unheard, Enforced, RoomMembers, TypeOK,
                      roomVars
<1>5. ASSUME NEW p \in Peers, NEW k \in Keys, Rotate(p, k)
      PROVE  Unheard' /\ Enforced'
  <2>1. store'[p] # NONE
    <3>1. store'[p] = [key |-> k, version |-> store[p].version + 1]
      BY <1>5 DEF Rotate, TypeOK
    <3>2. store[p] \in Entry
      BY <1>5 DEF Rotate, TypeOK
    <3>3. store'[p] \in Entry
      BY <1>5, <3>1, <3>2, KeysAssumption DEF Rotate, Entry
    <3> QED
      BY <3>3, NoEntryAssumption
  <2> QED
    BY <1>5, <2>1 DEF Rotate, Speakers, Unheard, Enforced, RoomMembers, TypeOK,
                      roomVars
<1>6. ASSUME NEW p \in Peers, NEW q \in Peers, Request(p, q)
      PROVE  Unheard' /\ Enforced'
  BY <1>6 DEF Request, Unheard, Enforced, RoomMembers, roomVars
<1>7. CASE Elsewhere
  <2>1. store' = store /\ timers' = timers
    BY <1>7 DEF Elsewhere
  <2>2. \A q \in Peers : \/ status'[q] = status[q]
                         \/ status[q] \in Inside \ {"ghost"}
                            /\ status'[q] \in Inside \ {"ghost"}
    BY <1>7 DEF Elsewhere, Fade, Drop, Return, Strand, Make, Become, Reachable,
                RoomMembers, Inside, TypeOK, RoomTypeOK
  <2> QED
    BY <2>1, <2>2 DEF Unheard, Enforced, RoomMembers, Inside
<1>8. CASE UNCHANGED vars
  BY <1>8 DEF vars, roomVars, keyVars, Unheard, Enforced, RoomMembers
<1> QED
  BY <1>1, <1>2, <1>3, <1>4, <1>5, <1>6, <1>7, <1>8 DEF Next, Leaves

(* With requireKeyOnJoin, exactly the reachable members without a key have  *)
(* an enforcement timer (attach, _onPeerJoined, _handleKeyAnnounce).        *)
THEOREM AlwaysEnforced == Spec => []Enforced
<1>1. Init => Unheard /\ Standing /\ Enforced
  BY DEF Init, RoomInit, Unheard, Standing, Enforced, RoomMembers, Inside, Empty
<1>2. CASE ~ Require
  <2>1. Enforced
    BY <1>2 DEF Enforced
  <2> QED
    BY <2>1, PTL
<1>3. CASE Require
  <2>1. EInv /\ TypeOK' /\ [Next]_vars => Unheard' /\ Standing' /\ Enforced'
    BY <1>3, EnforcedStep, StandingStep, RoomStep DEF EInv, TypeOK, vars
  <2> QED
    BY <1>1, <2>1, TypeCorrect, PTL DEF Spec, EInv
<1> QED
  BY <1>2, <1>3
-----------------------------------------------------------------------------
(* What the clients hold. *)

(* KeysExact and NeverAhead speak of members.  Over a join they need that no *)
(* key is stored or held of a stranger, nor anything held by one, and over a *)
(* return that who was away is not taken for one that has heard everything.  *)
Strangers ==
  \A p \in Peers : status[p] = "outside" =>
    store[p] = NONE /\ held[p] = Empty /\ \A q \in Peers : held[q][p] = NONE

AwayLapsed == Away \subseteq lapsed

KeysKnown == Strangers /\ AwayLapsed /\ KeysExact /\ NeverAhead

KInv == TypeOK /\ Standing /\ Heard /\ KeysKnown

LEMMA ToldIs ==
  ASSUME held \in [Peers -> [Peers -> Entry \cup {NONE}]],
         NEW to, NEW missed, NEW p \in Peers, NEW e,
         NEW q \in Peers, NEW x \in Peers
  PROVE  Told(to, missed, p, e)[q][x] =
           IF x = p /\ q \in to \ missed /\ status[q] \in {"present", "away"}
             THEN e ELSE held[q][x]
  BY DEF Told

(* A key that is announced or rotated reaches who must have it.             *)
LEMMA SpokenStep ==
  ASSUME KInv, NEW p \in Speakers, NEW e \in Entry,
         store[p] = NONE \/ store[p].version <= e.version,
         store' = [store EXCEPT ![p] = e], Broadcast(Audience(p), p, e),
         UNCHANGED <<roomVars, lapsed>>
  PROVE  KeysKnown'
<1> PICK missed \in SUBSET Away : held' = Told(Audience(p), missed, p, e)
  BY DEF Broadcast
<1>1. p \in Peers /\ status[p] # "outside" /\ store \in [Peers -> Entry \cup {NONE}]
      /\ held \in [Peers -> [Peers -> Entry \cup {NONE}]]
  BY DEF Speakers, KInv, TypeOK
<1>2. /\ store'[p] = e
      /\ \A x \in Peers \ {p} : store'[x] = store[x]
  BY <1>1
<1>3. \A q, x \in Peers :
        held'[q][x] = IF x = p /\ q \in Audience(p) \ missed
                               /\ status[q] \in {"present", "away"}
                        THEN e ELSE held[q][x]
  BY <1>1, ToldIs
<1>4. status' = status /\ lapsed' = lapsed /\ RoomMembers' = RoomMembers /\ Away' = Away
  BY DEF roomVars, RoomMembers, Away
<1>5. Strangers'
  <2> SUFFICES ASSUME NEW x \in Peers, status[x] = "outside"
               PROVE  store'[x] = NONE /\ held'[x] = Empty
                      /\ \A q \in Peers : held'[q][x] = NONE
    BY <1>4 DEF Strangers, Empty
  <2>1. x # p /\ store[x] = NONE /\ held[x] = Empty /\ \A q \in Peers : held[q][x] = NONE
    BY <1>1 DEF KInv, KeysKnown, Strangers
  <2>2. held'[x] = held[x]
    BY <1>1 DEF Told
  <2> QED
    BY <1>2, <1>3, <2>1, <2>2
<1>6. AwayLapsed'
  BY <1>4 DEF KInv, KeysKnown, AwayLapsed
<1>7. KeysExact'
  <2> SUFFICES ASSUME NEW x \in RoomMembers, NEW q \in RoomMembers,
                      status[x] = "present", x \notin lapsed, q # x
               PROVE  held'[x][q] = store'[q]
    BY <1>4 DEF KeysExact
  <2>1. x \in Peers /\ q \in Peers /\ held[x][q] = store[q]
    BY DEF KInv, KeysKnown, KeysExact, RoomMembers
  <2>2. CASE q = p
    <3>1. x \in Audience(p)
      BY <2>2 DEF Audience, Remaining, KInv, Heard
    <3>2. x \notin missed
      BY DEF Away
    <3> QED
      BY <1>2, <1>3, <2>1, <2>2, <3>1, <3>2
  <2> QED
    BY <1>2, <1>3, <2>1, <2>2
<1>8. NeverAhead'
  <2> SUFFICES ASSUME NEW x \in RoomMembers, NEW q \in RoomMembers,
                      q # x, held'[x][q] # NONE
               PROVE  store'[q] # NONE /\ held'[x][q].version <= store'[q].version
    BY <1>4 DEF NeverAhead
  <2>1. /\ x \in Peers /\ q \in Peers
        /\ held[x][q] # NONE =>
             store[q] # NONE /\ held[x][q].version <= store[q].version
    BY DEF KInv, KeysKnown, NeverAhead, RoomMembers
  <2>2. e # NONE /\ e.version \in Nat
    BY KeysAssumption, NoEntryAssumption DEF Entry
  <2>3. CASE q # p
    BY <1>2, <1>3, <2>1, <2>3
  <2>4. CASE q = p /\ held'[x][q] = e
    BY <1>2, <2>2, <2>4
  <2>5. CASE q = p /\ held'[x][q] = held[x][q] /\ held[x][q] # NONE
    <3>1. held[x][q] \in Entry /\ store[q] \in Entry
      BY <1>1, <2>1, <2>5
    <3>2. held[x][q].version \in Nat /\ store[q].version \in Nat
      BY <3>1, KeysAssumption DEF Entry
    <3> QED
      BY <1>2, <2>1, <2>2, <2>5, <3>2
  <2> QED
    BY <1>3, <2>1, <2>3, <2>4, <2>5
<1> QED
  BY <1>5, <1>6, <1>7, <1>8 DEF KeysKnown

(* A departure takes the peer's key away and leaves those of the others.    *)
LEMMA DepartureStep ==
  ASSUME KInv, NEW p \in Peers, Exit(p), PeerLeft(p), UNCHANGED lapsed
  PROVE  KeysKnown'
<1>1. /\ status \in [Peers -> Status] /\ store \in [Peers -> Entry \cup {NONE}]
      /\ held \in [Peers -> [Peers -> Entry \cup {NONE}]]
  BY DEF KInv, TypeOK, RoomTypeOK
<1>2. status'[p] = "left" /\ \A q \in Peers \ {p} : status'[q] = status[q]
  BY <1>1 DEF Exit, Become
<1>3. RoomMembers' = Remaining(p) /\ status[p] # "outside"
  BY <1>1 DEF Exit, Become, Reachable, Remaining, RoomMembers, Inside
<1>4. PICK to, missed : held' = [Told(to, missed, p, NONE) EXCEPT ![p] = Empty]
  BY DEF PeerLeft
<1>5. \A q \in Peers \ {p} : \A x \in Peers \ {p} : held'[q][x] = held[q][x]
  BY <1>1, <1>4, ToldIs DEF Told
<1>6. \A q \in Peers \ {p} : held'[q] = held[q] \/ held'[q] = [held[q] EXCEPT ![p] = NONE]
  BY <1>1, <1>4 DEF Told
<1>7. held'[p] = Empty
  BY <1>4 DEF Told
<1>8. \A q \in Peers \ {p} : store'[q] = store[q] \/ (store'[q] = NONE /\ Remaining(p) = {})
  <2>1. Remaining(p) # {} => alive'
    BY DEF Exit, KInv, Standing, Remaining
  <2>2. store' = IF alive' THEN [store EXCEPT ![p] = NONE] ELSE Empty
    BY DEF PeerLeft
  <2>3. CASE alive'
    BY <1>1, <2>2, <2>3
  <2>4. CASE ~ alive'
    BY <2>1, <2>2, <2>4 DEF Empty
  <2> QED
    BY <2>3, <2>4
<1>9. Strangers'
  <2> SUFFICES ASSUME NEW x \in Peers \ {p}, status[x] = "outside"
               PROVE  store'[x] = NONE /\ held'[x] = Empty
                      /\ \A q \in Peers : held'[q][x] = NONE
    BY <1>2 DEF Strangers, Empty
  <2>1. store[x] = NONE /\ held[x] = Empty /\ \A q \in Peers : held[q][x] = NONE
    BY DEF KInv, KeysKnown, Strangers
  <2>2. [held[x] EXCEPT ![p] = NONE] = Empty
    BY <2>1 DEF Empty
  <2> QED
    BY <1>5, <1>6, <1>7, <1>8, <2>1, <2>2 DEF Empty
<1>10. AwayLapsed'
  BY <1>2 DEF KInv, KeysKnown, AwayLapsed, Away
<1>11. KeysExact'
  BY <1>2, <1>3, <1>5, <1>8 DEF KInv, KeysKnown, KeysExact, Remaining, RoomMembers
<1>12. NeverAhead'
  BY <1>3, <1>5, <1>8 DEF KInv, KeysKnown, NeverAhead, Remaining, RoomMembers
<1> QED
  BY <1>9, <1>10, <1>11, <1>12 DEF KeysKnown

(* A newcomer holds what is stored, and nobody holds a key of it.           *)
LEMMA ArrivalStep ==
  ASSUME KInv, NEW p \in Peers, PeerJoined(p)
  PROVE  KeysKnown'
<1>1. /\ status \in [Peers -> Status] /\ store \in [Peers -> Entry \cup {NONE}]
      /\ held \in [Peers -> [Peers -> Entry \cup {NONE}]]
  BY DEF KInv, TypeOK, RoomTypeOK
<1>2. /\ status[p] = "outside" /\ status'[p] \in {"present", "fading", "ghost"}
      /\ \A q \in Peers \ {p} : status'[q] = status[q]
  BY <1>1 DEF PeerJoined, Enter, Become
<1>3. RoomMembers' = RoomMembers \cup {p} /\ p \notin RoomMembers
  BY <1>1, <1>2 DEF RoomMembers, Inside
<1>4. /\ store[p] = NONE /\ held[p] = Empty /\ \A q \in Peers : held[q][p] = NONE
      /\ store' = store
  BY <1>2 DEF KInv, KeysKnown, Strangers, PeerJoined
<1>5. /\ \A q \in Peers \ {p} : held'[q] = held[q]
      /\ held'[p] = Empty \/ held'[p] = store
      /\ status'[p] = "present" => held'[p] = store
      /\ status'[p] # "present" => p \in lapsed'
      /\ lapsed \subseteq lapsed'
  BY <1>1, <1>4 DEF PeerJoined, SnapshotTo
<1>6. Strangers'
  BY <1>2, <1>4, <1>5 DEF KInv, KeysKnown, Strangers, Empty
<1>7. AwayLapsed'
  BY <1>2, <1>5 DEF KInv, KeysKnown, AwayLapsed, Away
<1>8. KeysExact'
  <2> SUFFICES ASSUME NEW x \in RoomMembers \cup {p}, NEW q \in RoomMembers \cup {p},
                      status'[x] = "present", x \notin lapsed', q # x
               PROVE  held'[x][q] = store[q]
    BY <1>3, <1>4 DEF KeysExact
  <2>1. x \in Peers /\ q \in Peers
    BY DEF RoomMembers
  <2>2. CASE x = p
    BY <1>5, <2>2
  <2>3. CASE x # p /\ q = p
    BY <1>4, <1>5, <2>1, <2>3
  <2>4. CASE x # p /\ q # p
    BY <1>2, <1>5, <2>1, <2>4 DEF KInv, KeysKnown, KeysExact
  <2> QED
    BY <2>2, <2>3, <2>4
<1>9. NeverAhead'
  <2> SUFFICES ASSUME NEW x \in RoomMembers \cup {p}, NEW q \in RoomMembers \cup {p},
                      q # x, held'[x][q] # NONE
               PROVE  store[q] # NONE /\ held'[x][q].version <= store[q].version
    BY <1>3, <1>4 DEF NeverAhead
  <2>1. x \in Peers /\ q \in Peers
    BY DEF RoomMembers
  <2>2. CASE x = p
    <3>1. held'[x][q] = store[q]
      BY <1>5, <2>1, <2>2 DEF Empty
    <3>2. store[q] \in Entry
      BY <1>1, <2>1, <3>1
    <3>3. store[q].version \in Nat
      BY <3>2, KeysAssumption DEF Entry
    <3> QED
      BY <3>1, <3>3
  <2>3. CASE x # p /\ q = p
    BY <1>4, <1>5, <2>1, <2>3
  <2>4. CASE x # p /\ q # p
    BY <1>5, <2>1, <2>4 DEF KInv, KeysKnown, NeverAhead
  <2> QED
    BY <2>2, <2>3, <2>4
<1> QED
  BY <1>6, <1>7, <1>8, <1>9 DEF KeysKnown

LEMMA KeysStep ==
  ASSUME KInv, [Next]_vars
  PROVE  KeysKnown'
<1>1. /\ status \in [Peers -> Status] /\ store \in [Peers -> Entry \cup {NONE}]
      /\ held \in [Peers -> [Peers -> Entry \cup {NONE}]]
  BY DEF KInv, TypeOK, RoomTypeOK
<1>2. CASE UNCHANGED vars
  BY <1>2 DEF vars, roomVars, keyVars, KInv, KeysKnown, Strangers, AwayLapsed, Away,
              KeysExact, NeverAhead, RoomMembers, Empty
<1>3. ASSUME NEW p \in Peers, Enforce(p)
      PROVE  KeysKnown'
  <2>1. CASE store[p] = NONE /\ p \in Reachable
    BY <1>3, <2>1, DepartureStep DEF Enforce
  <2>2. CASE ~ (store[p] = NONE /\ p \in Reachable)
    BY <1>3, <2>2 DEF Enforce, roomVars, KInv, KeysKnown, Strangers, AwayLapsed, Away,
                      KeysExact, NeverAhead, RoomMembers, Empty
  <2> QED
    BY <2>1, <2>2
<1>4. ASSUME NEW p \in Peers, NEW k \in Keys, Announce(p, k)
      PROVE  KeysKnown'
  <2> DEFINE e == [key |-> k, version |-> 1]
  <2>1. e \in Entry
    BY KeysAssumption DEF Entry
  <2>2. store' = [store EXCEPT ![p] = e] /\ store'[p] = e /\ store[p] = NONE
        /\ p \in Speakers /\ UNCHANGED <<roomVars, lapsed>>
        /\ Broadcast(Audience(p), p, store'[p])
    BY <1>1, <1>4 DEF Announce
  <2> QED
    BY <2>1, <2>2, SpokenStep
<1>5. ASSUME NEW p \in Peers, NEW k \in Keys, Rotate(p, k)
      PROVE  KeysKnown'
  <2> DEFINE e == [key |-> k, version |-> store[p].version + 1]
  <2>1. store[p] \in Entry /\ store[p].version < MaxVersion
    BY <1>1, <1>5 DEF Rotate
  <2>2. e \in Entry /\ store[p].version <= e.version
    BY <2>1, KeysAssumption DEF Entry
  <2>3. store' = [store EXCEPT ![p] = e] /\ store'[p] = e
        /\ p \in Speakers /\ UNCHANGED <<roomVars, lapsed>>
        /\ Broadcast(Audience(p), p, store'[p])
    BY <1>1, <1>5 DEF Rotate
  <2> HIDE DEF e
  <2> QED
    BY <2>2, <2>3, SpokenStep
<1>6. ASSUME NEW p \in Peers, NEW r \in Peers, Request(p, r)
      PROVE  KeysKnown'
  <2>1. /\ p \in Speakers /\ store[r] # NONE /\ UNCHANGED <<roomVars, store, lapsed>>
        /\ held' = held \/ held' = [held EXCEPT ![p][r] = store[r]]
    BY <1>6 DEF Request
  <2>2. store[r] \in Entry /\ status[r] # "outside" /\ status[p] # "outside"
    BY <1>1, <2>1 DEF Speakers, KInv, KeysKnown, Strangers
  <2>3. store[r].version \in Nat
    BY <2>2, KeysAssumption DEF Entry
  <2>4. /\ \A x, q \in Peers : \/ held'[x][q] = held[x][q]
                               \/ x = p /\ q = r /\ held'[x][q] = store[q]
        /\ \A x \in Peers \ {p} : held'[x] = held[x]
    BY <1>1, <2>1
  <2>5. status' = status /\ lapsed' = lapsed /\ store' = store /\ RoomMembers' = RoomMembers
        /\ RoomMembers \subseteq Peers
    BY <2>1 DEF roomVars, RoomMembers
  <2>6. Strangers'
    BY <2>2, <2>4, <2>5 DEF KInv, KeysKnown, Strangers, Empty
  <2>7. AwayLapsed'
    BY <2>5 DEF KInv, KeysKnown, AwayLapsed, Away
  <2>8. KeysExact'
    BY <2>4, <2>5 DEF KInv, KeysKnown, KeysExact
  <2>9. NeverAhead'
    BY <2>1, <2>3, <2>4, <2>5 DEF KInv, KeysKnown, NeverAhead
  <2> QED
    BY <2>6, <2>7, <2>8, <2>9 DEF KeysKnown
<1>7. CASE Elsewhere
  <2>1. store' = store /\ held' = held
    BY <1>7 DEF Elsewhere
  <2>2. /\ lapsed \subseteq lapsed'
        /\ \A q \in Peers :
             \/ status'[q] = status[q]
             \/ status[q] = "away" /\ status'[q] \in {"present", "fading"}
             \/ status[q] \in Inside /\ status'[q] \in {"fading", "away"} /\ q \in lapsed'
             \/ status[q] \in Inside /\ status'[q] = "stranded"
    BY <1>1, <1>7 DEF Elsewhere, Fade, Drop, Return, Strand, Make, Become, Reachable,
                      RoomMembers, Inside
  <2>3. RoomMembers' = RoomMembers
    BY <2>2 DEF RoomMembers, Inside
  <2>4. \A q \in Peers : (status'[q] = "outside" => status[q] = "outside")
                         /\ (status'[q] = "away" => q \in lapsed')
                         /\ (status'[q] = "present" /\ q \notin lapsed' =>
                               status[q] = "present" /\ q \notin lapsed)
    BY <2>2 DEF KInv, KeysKnown, AwayLapsed, Away
  <2>5. Strangers' /\ AwayLapsed'
    BY <2>1, <2>4 DEF KInv, KeysKnown, Strangers, AwayLapsed, Away, Empty
  <2>6. KeysExact'
    BY <2>1, <2>3, <2>4 DEF KInv, KeysKnown, KeysExact, RoomMembers
  <2>7. NeverAhead'
    BY <2>1, <2>3 DEF KInv, KeysKnown, NeverAhead
  <2> QED
    BY <2>5, <2>6, <2>7 DEF KeysKnown
<1> QED
  BY <1>2, <1>3, <1>4, <1>5, <1>6, <1>7, ArrivalStep, DepartureStep DEF Next, Leaves

(* A client whose socket has stayed open holds exactly the stored keys of   *)
(* the other members, and no client one the server has not stored, for any  *)
(* order of joins, announcements, rotations, departures and requests        *)
(* (_onPeerJoined, _handleKeyAnnounce, _handleKeyRotate, _onPeerLeft).      *)
THEOREM AlwaysKeysHold == Spec => []KeysHold
<1>1. Init => Standing /\ Heard /\ KeysKnown
  BY DEF Init, RoomInit, Standing, Heard, KeysKnown, Strangers, AwayLapsed, Away,
         KeysExact, NeverAhead, RoomMembers, Inside, Empty
<1>2. KInv /\ [Next]_vars => Standing' /\ Heard' /\ KeysKnown'
  <2> SUFFICES ASSUME KInv, [Next]_vars PROVE Standing' /\ Heard' /\ KeysKnown'
    OBVIOUS
  <2>1. RoomNext \/ UNCHANGED roomVars
    BY RoomStep DEF vars
  <2>2. Standing' /\ Heard'
    BY <2>1, StandingStep, HeardStep DEF KInv, TypeOK
  <2> QED
    BY <2>2, KeysStep
<1>3. KInv => KeysHold
  BY DEF KInv, KeysKnown, KeysHold
<1> QED
  BY <1>1, <1>2, <1>3, TypeCorrect, PTL DEF Spec, KInv
=============================================================================
