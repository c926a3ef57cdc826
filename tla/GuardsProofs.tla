----------------------------- MODULE GuardsProofs -----------------------------
(***************************************************************************)
(* Theorems about the parts of MCGuards, for any number of peers, places,  *)
(* processes and records.                                                  *)
(***************************************************************************)
EXTENDS MCGuards, RoomLifeProofs, SequenceTheorems, FiniteSetTheorems

-----------------------------------------------------------------------------
(* Sequences of commands. *)

LEMMA Popped ==
  ASSUME NEW S, NEW s \in Seq(S), s # << >>
  PROVE  /\ Len(s) \in Nat \ {0} /\ Head(s) = s[1] /\ s[1] \in S
         /\ Tail(s) \in Seq(S) /\ Len(Tail(s)) = Len(s) - 1
         /\ \A i \in 1..Len(s) - 1 : Tail(s)[i] = s[i + 1]
<1>1. Len(s) \in Nat \ {0}
  BY EmptySeq
<1>2. /\ Tail(s) \in Seq(S) /\ Len(Tail(s)) = Len(s) - 1
      /\ \A i \in 1..Len(Tail(s)) : Tail(s)[i] = s[i + 1]
  BY HeadTailProperties
<1>3. s[1] \in S
  BY <1>1, ElementOfSeq
<1> QED BY <1>1, <1>2, <1>3

LEMMA Appended ==
  ASSUME NEW S, NEW s \in Seq(S), NEW x \in S
  PROVE  /\ Len(s) \in Nat
         /\ Append(s, x) \in Seq(S) /\ Len(Append(s, x)) = Len(s) + 1
         /\ \A i \in 1..Len(s) : Append(s, x)[i] = s[i]
         /\ Append(s, x)[Len(s) + 1] = x
BY AppendProperties, LenProperties

(* The first command is done and another one of its chain issued.           *)
LEMMA Continued ==
  ASSUME NEW S, NEW s \in Seq(S), s # << >>, NEW x \in S
  PROVE  /\ Append(Tail(s), x) \in Seq(S) /\ Len(Append(Tail(s), x)) = Len(s)
         /\ \A i \in 1..Len(s) - 1 : Append(Tail(s), x)[i] = s[i + 1]
         /\ Append(Tail(s), x)[Len(s)] = x
<1>1. /\ Len(s) \in Nat \ {0} /\ Tail(s) \in Seq(S) /\ Len(Tail(s)) = Len(s) - 1
      /\ \A i \in 1..Len(s) - 1 : Tail(s)[i] = s[i + 1]
  BY Popped
<1>2. /\ Append(Tail(s), x) \in Seq(S) /\ Len(Append(Tail(s), x)) = Len(Tail(s)) + 1
      /\ \A i \in 1..Len(Tail(s)) : Append(Tail(s), x)[i] = Tail(s)[i]
      /\ Append(Tail(s), x)[Len(Tail(s)) + 1] = x
  BY <1>1, Appended
<1> QED BY <1>1, <1>2

LEMMA Concatenated ==
  ASSUME NEW S, NEW s \in Seq(S), NEW t \in Seq(S)
  PROVE  /\ Len(s) \in Nat /\ Len(t) \in Nat
         /\ s \o t \in Seq(S) /\ Len(s \o t) = Len(s) + Len(t)
         /\ \A i \in 1..Len(s) : (s \o t)[i] = s[i]
         /\ \A i \in 1..Len(s \o t) :
              i > Len(s) => i - Len(s) \in 1..Len(t) /\ (s \o t)[i] = t[i - Len(s)]
<1>1. Len(s) \in Nat /\ Len(t) \in Nat
  BY LenProperties
<1>2. /\ s \o t \in Seq(S) /\ Len(s \o t) = Len(s) + Len(t)
      /\ \A i \in 1..Len(s) + Len(t) :
           (s \o t)[i] = IF i <= Len(s) THEN s[i] ELSE t[i - Len(s)]
  BY ConcatProperties
<1>3. \A i \in 1..Len(s) : (s \o t)[i] = s[i]
  BY <1>1, <1>2
<1>4. ASSUME NEW i \in 1..Len(s) + Len(t), i > Len(s)
      PROVE  i - Len(s) \in 1..Len(t) /\ (s \o t)[i] = t[i - Len(s)]
  BY <1>1, <1>2, <1>4
<1> QED BY <1>1, <1>2, <1>3, <1>4

-----------------------------------------------------------------------------
(* Consents. *)

(* ConsentEnforced needs of a join that the newcomer's time is not over yet. *)
TimeBeginsAtJoin == \A p \in Peers : status[p] = "outside" => p \notin overdue

ConsentInv == ConsentHolds /\ TimeBeginsAtJoin

(* The actions of the room that those of the consents contain.              *)
LEMMA ConsentRoomStep ==
  ASSUME ConsentNext
  PROVE  RoomNext \/ UNCHANGED roomVars
  BY DEF ConsentNext, ConsentMake, ConsentEnter, ConsentExit, Unrecord, TimeIsOver,
         Grant, Withdraw, RecordConsent, RoomNext

(* A departure takes record and timer of the peer away, and no others' timer. *)
LEMMA UnrecordKeeps ==
  ASSUME ConsentInv, NEW p \in Peers, Unrecord(p)
  PROVE  /\ granted' \in [Peers -> SUBSET Types]
         /\ timer' \subseteq RoomMembers'
         /\ Reachable' \subseteq Reachable \ {p}
         /\ \A q \in Peers : status'[q] = "outside" => status[q] = "outside"
         /\ timer' = timer \ {p} /\ spoke' = spoke
<1>1. status \in [Peers -> Status] /\ granted \in [Peers -> SUBSET Types]
      /\ timer \subseteq RoomMembers
  BY DEF ConsentInv, ConsentHolds, RoomTypeOK, ConsentTypeOK
<1>2. status' = [status EXCEPT ![p] = "left"] /\ timer' = timer \ {p} /\ spoke' = spoke
  BY DEF Unrecord, Exit, Become
<1>3. granted' \in [Peers -> SUBSET Types]
  BY <1>1 DEF Unrecord, NoRecords
<1>4. status'[p] = "left" /\ \A q \in Peers \ {p} : status'[q] = status[q]
  BY <1>1, <1>2
<1>5. timer' \subseteq RoomMembers'
  BY <1>1, <1>2, <1>4 DEF RoomMembers
<1>6. Reachable' \subseteq Reachable \ {p}
  BY <1>4 DEF Reachable, RoomMembers, Inside
<1> QED
  BY <1>2, <1>3, <1>4, <1>5, <1>6

LEMMA ConsentStep ==
  ASSUME ConsentInv, ConsentNext
  PROVE  ConsentInv'
<1> USE DEF ConsentInv, ConsentHolds
<1>1. /\ status \in [Peers -> Status] /\ granted \in [Peers -> SUBSET Types]
      /\ timer \subseteq RoomMembers /\ overdue \subseteq Peers
      /\ lacking \subseteq overdue /\ spoke \subseteq Peers
  BY DEF RoomTypeOK, ConsentTypeOK
<1>2. RoomTypeOK'
  BY ConsentRoomStep, RoomTypeStep DEF roomVars, RoomTypeOK
<1>3. ASSUME UNCHANGED <<roomVars, overdue, lacking>>,
             granted' \in [Peers -> SUBSET Types],
             spoke' \subseteq Peers, spoke \subseteq spoke',
             timer' \subseteq timer, timer \ timer' \subseteq spoke'
      PROVE  ConsentInv'
  <2>1. status' = status /\ RoomMembers' = RoomMembers /\ Reachable' = Reachable
    BY <1>3 DEF roomVars, RoomMembers, Reachable
  <2>2. ConsentTypeOK'
    BY <1>1, <1>3, <2>1 DEF ConsentTypeOK
  <2>3. ConsentEnforced'
    BY <1>3, <2>1 DEF ConsentEnforced
  <2>4. TimeBeginsAtJoin'
    BY <1>3, <2>1 DEF TimeBeginsAtJoin
  <2> QED
    BY <1>2, <2>2, <2>3, <2>4
<1>4. ASSUME NEW p \in Peers, Grant(p) \/ Withdraw(p) \/ RecordConsent(p)
      PROVE  ConsentInv'
  <2>1. granted' \in [Peers -> SUBSET Types]
    BY <1>1, <1>4 DEF Grant, Record, Withdraw, RecordConsent
  <2>2. /\ spoke' \subseteq Peers /\ spoke \subseteq spoke' /\ timer' \subseteq timer
        /\ timer \ timer' \subseteq spoke' /\ UNCHANGED <<roomVars, overdue, lacking>>
    BY <1>1, <1>4 DEF Grant, Record, Withdraw, RecordConsent
  <2> QED
    BY <1>3, <2>1, <2>2
<1>5. CASE ConsentMake
  <2>1. /\ status' = status /\ granted' \in [Peers -> SUBSET Types]
        /\ UNCHANGED <<timer, overdue, lacking, spoke>>
    BY <1>5 DEF ConsentMake, Make, NoRecords
  <2> QED
    BY <1>1, <1>2, <2>1 DEF ConsentTypeOK, ConsentEnforced, TimeBeginsAtJoin, RoomMembers,
                            Reachable
<1>6. ASSUME NEW p \in Peers, ConsentEnter(p)
      PROVE  ConsentInv'
  <2>1. /\ status[p] = "outside" /\ status'[p] \in {"present", "fading", "ghost"}
        /\ \A q \in Peers \ {p} : status'[q] = status[q]
        /\ timer' = timer \cup {p} /\ UNCHANGED <<overdue, lacking, spoke>>
    BY <1>1, <1>6 DEF ConsentEnter, Enter, Become
  <2>2. granted' \in [Peers -> SUBSET Types]
    BY <1>1, <1>6 DEF ConsentEnter, NoRecords
  <2>3. RoomMembers' = RoomMembers \cup {p} /\ Reachable' \subseteq Reachable \cup {p}
    BY <2>1 DEF RoomMembers, Reachable, Inside
  <2>4. p \notin overdue
    BY <2>1 DEF TimeBeginsAtJoin
  <2>5. ConsentTypeOK'
    BY <1>1, <2>1, <2>2, <2>3 DEF ConsentTypeOK
  <2>6. ConsentEnforced'
    BY <1>1, <2>1, <2>3, <2>4 DEF ConsentEnforced
  <2>7. TimeBeginsAtJoin'
    BY <2>1 DEF TimeBeginsAtJoin
  <2> QED
    BY <1>2, <2>5, <2>6, <2>7
<1>7. ASSUME NEW p \in Peers, ConsentExit(p)
      PROVE  ConsentInv'
  <2>1. Unrecord(p) /\ UNCHANGED <<overdue, lacking>>
    BY <1>7 DEF ConsentExit
  <2>2. ConsentTypeOK'
    BY <1>1, <2>1, UnrecordKeeps DEF ConsentTypeOK
  <2>3. ConsentEnforced' /\ TimeBeginsAtJoin'
    BY <2>1, UnrecordKeeps DEF ConsentEnforced, TimeBeginsAtJoin
  <2> QED
    BY <1>2, <2>2, <2>3
<1>8. ASSUME NEW p \in Peers, TimeIsOver(p)
      PROVE  ConsentInv'
  <2>1. /\ p \in RoomMembers \ overdue /\ overdue' = overdue \cup {p}
        /\ lacking' = IF HasAllRequired(p) THEN lacking ELSE lacking \cup {p}
    BY <1>8 DEF TimeIsOver
  <2>2. status[p] # "outside"
    BY <2>1 DEF RoomMembers, Inside
  <2>3. CASE p \in timer /\ ~HasAllRequired(p) /\ p \in Reachable
    <3>1. Unrecord(p)
      BY <1>8, <2>3 DEF TimeIsOver
    <3>2. ConsentTypeOK'
      BY <1>1, <2>1, <3>1, UnrecordKeeps DEF ConsentTypeOK
    <3>3. ConsentEnforced' /\ TimeBeginsAtJoin'
      BY <2>1, <2>2, <3>1, UnrecordKeeps DEF ConsentEnforced, TimeBeginsAtJoin
    <3> QED
      BY <1>2, <3>2, <3>3
  <2>4. CASE ~ (p \in timer /\ ~HasAllRequired(p) /\ p \in Reachable)
    <3>1. timer' = timer \ {p} /\ UNCHANGED <<granted, spoke, roomVars>>
      BY <1>8, <2>4 DEF TimeIsOver
    <3>2. status' = status /\ RoomMembers' = RoomMembers /\ Reachable' = Reachable
      BY <3>1 DEF roomVars, RoomMembers, Reachable
    <3>3. ConsentTypeOK'
      BY <1>1, <2>1, <3>1, <3>2 DEF ConsentTypeOK
    <3>4. ConsentEnforced' /\ TimeBeginsAtJoin'
      BY <2>1, <2>2, <2>4, <3>1, <3>2 DEF ConsentEnforced, TimeBeginsAtJoin
    <3> QED
      BY <1>2, <3>3, <3>4
  <2> QED
    BY <2>3, <2>4
<1> QED
  BY <1>4, <1>5, <1>6, <1>7, <1>8 DEF ConsentNext

(* A member that lacked a required consent when its time was over had       *)
(* granted something by a message of its own, for any departures, rooms of  *)
(* one id and records of the application (_onPeerJoined,                    *)
(* _handleConsentSignal).                                                   *)
THEOREM ConsentAlwaysSafe == GuardsSpec => []ConsentSafe
<1> DEFINE Inv == part = "consent" => ConsentInv
<1>1. GuardsInit => Inv
  <2> SUFFICES ASSUME ConsentInit PROVE ConsentInv
    BY DEF GuardsInit
  <2>1. /\ status = [p \in Peers |-> "outside"] /\ alive = FALSE /\ current = {}
        /\ granted = NoRecords /\ timer = {} /\ overdue = {} /\ lacking = {} /\ spoke = {}
    BY DEF ConsentInit, RoomInit
  <2>2. RoomTypeOK
    BY <2>1 DEF RoomTypeOK, Status
  <2>3. ConsentTypeOK
    BY <2>1 DEF ConsentTypeOK, NoRecords
  <2>4. Reachable = {}
    BY <2>1 DEF Reachable, RoomMembers, Inside
  <2> QED
    BY <2>1, <2>2, <2>3, <2>4 DEF ConsentInv, ConsentHolds, ConsentEnforced, TimeBeginsAtJoin
<1>2. Inv /\ [GuardsNext]_<<part, gates, stores, onRoom, roomVars>> => Inv'
  <2> SUFFICES ASSUME Inv, [GuardsNext]_<<part, gates, stores, onRoom, roomVars>>,
                      part' = "consent"
               PROVE  ConsentInv'
    OBVIOUS
  <2>1. CASE ConsentNext /\ part = "consent"
    BY <2>1, ConsentStep
  <2>2. CASE UNCHANGED <<part, consentVars, roomVars>>
    BY <2>2 DEF consentVars, roomVars, ConsentInv, ConsentHolds, RoomTypeOK, ConsentTypeOK,
       ConsentEnforced, TimeBeginsAtJoin, Reachable, RoomMembers
  <2> QED
    BY <2>1, <2>2 DEF GuardsNext, onRoom
<1>3. Inv => ConsentSafe
  BY DEF ConsentSafe, ConsentInv
<1> QED
  BY <1>1, <1>2, <1>3, PTL DEF GuardsSpec
-----------------------------------------------------------------------------
(* Mutes and the lock. *)

(* LockHolds needs that, while the lock stands, nobody begins to ask.       *)
AskedBefore == locked => asking \subseteq askedAtLock

(* ClientsKnow needs that a room without an object has no members, hence no *)
(* followed client, when the mutes of a former room are dropped.            *)
ModerationInv == ModerationHolds /\ AskedBefore /\ Standing

LEMMA ModerationRoomStep ==
  ASSUME ModerationNext
  PROVE  RoomNext \/ UNCHANGED roomVars
  BY DEF ModerationNext, AskToJoin, Enters, Exits, Mute, Unmute, RoomMade, LosesTouch,
         LockRoom, UnlockRoom, RoomNext

(* Whom nobody follows any more may be left out of what clients know.       *)
LEMMA FollowingFewer ==
  ASSUME ClientsKnow, ModerationTypeOK, NEW ps, NoLongerFollow(ps),
         followed' \subseteq RoomMembers', UNCHANGED <<muted, locked>>
  PROVE  /\ followed' \subseteq RoomMembers'
         /\ feelsMuted' \subseteq followed' /\ feelsLocked' \subseteq followed'
         /\ ClientsKnow'
  BY DEF ClientsKnow, ModerationTypeOK, NoLongerFollow

LEMMA ModerationStep ==
  ASSUME ModerationInv, ModerationNext
  PROVE  ModerationInv'
<1> USE DEF ModerationInv, ModerationHolds
<1>1. /\ status \in [Peers -> Status]
      /\ asking \subseteq Peers /\ muted \subseteq Peers /\ locked \in BOOLEAN
      /\ followed \subseteq RoomMembers
      /\ feelsMuted \subseteq followed /\ feelsLocked \subseteq followed
      /\ askedAtLock \subseteq Peers /\ cameLocked \subseteq Peers
  BY DEF RoomTypeOK, ModerationTypeOK
<1>2. RoomTypeOK' /\ Standing'
  BY ModerationRoomStep, RoomTypeStep, StandingStep DEF roomVars, RoomTypeOK
<1>3. RoomMembers \subseteq Peers
  BY DEF RoomMembers
<1>4. UNCHANGED roomVars => RoomMembers' = RoomMembers
  BY DEF roomVars, RoomMembers
<1>5. ASSUME NEW p \in Peers, AskToJoin(p)
      PROVE  ModerationInv'
  BY <1>1, <1>2, <1>4, <1>5 DEF AskToJoin, clientViews, lockHistory, ModerationTypeOK,
     ClientsKnow, LockHolds, AskedBefore
<1>6. ASSUME NEW p \in Peers, Mute(p) \/ Unmute(p)
      PROVE  ModerationInv'
  <2>1. /\ UNCHANGED <<asking, locked, followed, feelsLocked, askedAtLock, cameLocked, roomVars>>
        /\ muted' \subseteq muted \cup {p} /\ feelsMuted' \subseteq followed
    BY <1>1, <1>6 DEF Mute, Unmute, lockHistory
  <2>2. ModerationTypeOK'
    BY <1>1, <1>4, <2>1 DEF ModerationTypeOK
  <2>3. ClientsKnow'
    <3>1. CASE Mute(p)
      <4>1. followed # {} => alive
        BY <1>1 DEF Standing
      <4> QED
        BY <1>1, <2>1, <3>1, <4>1 DEF Mute, ClientsKnow
    <3>2. CASE Unmute(p)
      BY <2>1, <3>2 DEF Unmute, ClientsKnow
    <3> QED
      BY <1>6, <3>1, <3>2
  <2> QED
    BY <1>2, <2>1, <2>2, <2>3 DEF LockHolds, AskedBefore
<1>7. CASE LockRoom \/ UnlockRoom
  <2>1. /\ UNCHANGED <<asking, muted, followed, feelsMuted, roomVars>>
        /\ locked' \in BOOLEAN /\ feelsLocked' = IF locked' THEN followed ELSE {}
        /\ \/ askedAtLock' = asking /\ cameLocked' = {}
           \/ ~ locked' /\ UNCHANGED <<askedAtLock, cameLocked>>
    BY <1>7 DEF LockRoom, UnlockRoom, lockHistory
  <2>2. ModerationTypeOK'
    BY <1>1, <1>4, <2>1 DEF ModerationTypeOK
  <2>3. ClientsKnow'
    BY <2>1 DEF ClientsKnow
  <2>4. LockHolds' /\ AskedBefore'
    BY <2>1 DEF LockHolds, AskedBefore
  <2> QED
    BY <1>2, <2>2, <2>3, <2>4
<1>8. CASE RoomMade
  <2>1. /\ RoomMembers' = RoomMembers /\ RoomMembers = {} /\ muted' = {}
        /\ UNCHANGED <<asking, locked, followed, feelsMuted, feelsLocked, askedAtLock, cameLocked>>
    BY <1>8 DEF RoomMade, Make, RoomMembers, Standing, clientViews, lockHistory
  <2> QED
    BY <1>1, <1>2, <2>1 DEF ModerationTypeOK, ClientsKnow, LockHolds, AskedBefore
<1>9. ASSUME NEW p \in Peers, Enters(p)
      PROVE  ModerationInv'
  <2>1. /\ status' = [status EXCEPT ![p] = status'[p]] /\ status[p] = "outside"
        /\ status'[p] \in {"present", "fading", "ghost"}
        /\ p \in asking /\ asking' = asking \ {p}
        /\ muted' = IF alive THEN muted ELSE {}
        /\ followed' = IF status'[p] = "present" /\ p \notin muted' /\ ~locked
                         THEN followed \cup {p} ELSE followed
        /\ cameLocked' = IF locked THEN cameLocked \cup {p} ELSE cameLocked
        /\ UNCHANGED <<locked, feelsMuted, feelsLocked, askedAtLock>>
    BY <1>1, <1>9 DEF Enters, Enter, Become
  <2>2. RoomMembers' = RoomMembers \cup {p} /\ p \notin RoomMembers
    BY <1>1, <2>1 DEF RoomMembers, Inside
  <2>3. ModerationTypeOK'
    BY <1>1, <2>1, <2>2 DEF ModerationTypeOK
  <2>4. followed # {} => muted' = muted
    BY <1>1, <2>1 DEF Standing
  <2>5. ClientsKnow'
    BY <1>1, <2>1, <2>2, <2>4 DEF ClientsKnow
  <2>6. LockHolds' /\ AskedBefore'
    BY <2>1 DEF LockHolds, AskedBefore
  <2> QED
    BY <1>2, <2>3, <2>5, <2>6
<1>10. ASSUME NEW p \in Peers, Exits(p)
       PROVE  ModerationInv'
  <2>1. /\ muted' = IF alive' THEN muted ELSE {}
        /\ locked' = (locked /\ alive') /\ NoLongerFollow({p})
        /\ UNCHANGED <<asking, askedAtLock, cameLocked>>
    BY <1>10 DEF Exits, lockHistory
  <2>2. RoomMembers' = RoomMembers \ {p}
    BY <1>1, <1>10 DEF Exits, Exit, Become, RoomMembers, Inside
  <2>3. ModerationTypeOK'
    BY <1>1, <2>1, <2>2 DEF ModerationTypeOK, NoLongerFollow
  <2>4. alive' \/ followed' = {}
    BY <1>2, <2>3 DEF Standing, ModerationTypeOK
  <2>5. ClientsKnow'
    BY <1>1, <2>1, <2>4 DEF ClientsKnow, NoLongerFollow
  <2>6. LockHolds' /\ AskedBefore'
    BY <2>1 DEF LockHolds, AskedBefore
  <2> QED
    BY <1>2, <2>3, <2>5, <2>6
<1>11. CASE LosesTouch
  <2>1. /\ UNCHANGED <<asking, muted, locked, askedAtLock, cameLocked>>
        /\ \A q \in Peers : \/ status'[q] = status[q]
                            \/ status[q] \in Inside /\ status'[q] \in Inside
    BY <1>1, <1>11 DEF LosesTouch, Fade, Drop, Return, Strand, Become, Reachable, RoomMembers,
       Inside, lockHistory
  <2>2. RoomMembers' = RoomMembers
    BY <2>1 DEF RoomMembers
  <2>3. \E ps : NoLongerFollow(ps)
    <3>1. CASE UNCHANGED clientViews
      <4>1. NoLongerFollow({})
        BY <3>1 DEF NoLongerFollow, clientViews
      <4> QED
        BY <4>1
    <3> QED
      BY <1>11, <3>1 DEF LosesTouch
  <2>4. PICK ps : NoLongerFollow(ps)
    BY <2>3
  <2>5. followed' \subseteq RoomMembers'
    BY <1>1, <2>2, <2>4 DEF NoLongerFollow
  <2>6. ModerationTypeOK' /\ ClientsKnow'
    BY <1>1, <2>1, <2>2, <2>4, <2>5, FollowingFewer DEF ModerationTypeOK
  <2> QED
    BY <1>2, <2>1, <2>6 DEF LockHolds, AskedBefore
<1> QED
  BY <1>5, <1>6, <1>7, <1>8, <1>9, <1>10, <1>11 DEF ModerationNext

(* Clients that have missed nothing know of mutes and the lock, and whoever *)
(* enters a locked room was asking when it was locked, for any peers, locks *)
(* and rooms of one id (attach, _applyMute, lockRoom).                      *)
THEOREM ModerationAlwaysSafe == GuardsSpec => []ModerationSafe
<1> DEFINE Inv == part = "moderation" => ModerationInv
<1>1. GuardsInit => Inv
  <2> SUFFICES ASSUME ModerationInit PROVE ModerationInv
    BY DEF GuardsInit
  <2>1. RoomTypeOK /\ RoomMembers = {}
    BY DEF ModerationInit, RoomInit, RoomTypeOK, Status, RoomMembers, Inside
  <2> QED
    BY <2>1 DEF ModerationInit, ModerationInv, ModerationHolds, ModerationTypeOK,
       ClientsKnow, LockHolds, AskedBefore, Standing
<1>2. Inv /\ [GuardsNext]_<<part, gates, stores, onRoom, roomVars>> => Inv'
  <2> SUFFICES ASSUME Inv, [GuardsNext]_<<part, gates, stores, onRoom, roomVars>>,
                      part' = "moderation"
               PROVE  ModerationInv'
    OBVIOUS
  <2>1. CASE ModerationNext /\ part = "moderation"
    BY <2>1, ModerationStep
  <2>2. CASE UNCHANGED <<part, moderationVars, roomVars>>
    BY <2>2 DEF moderationVars, roomVars, ModerationInv, ModerationHolds, RoomTypeOK,
       ModerationTypeOK, ClientsKnow, LockHolds, AskedBefore, Standing, RoomMembers
  <2> QED
    BY <2>1, <2>2 DEF GuardsNext, onRoom
<1>3. Inv => ModerationSafe
  BY DEF ModerationSafe, ModerationInv
<1> QED
  BY <1>1, <1>2, <1>3, PTL DEF GuardsSpec

-----------------------------------------------------------------------------
(* Threats. *)

(* MembersAreCounted needs it of those that have not joined yet.            *)
OpenAreCounted ==
  \A p \in Peers : link[p] = "open" /\ status[p] # "left" => p \in counted

ThreatsInv == ThreatsTypeOK /\ TracesAreSwept /\ OpenAreCounted

LEMMA ThreatsRoomStep ==
  ASSUME ThreatsNext
  PROVE  RoomNext \/ UNCHANGED roomVars
<1>1. ASSUME NEW p \in Peers,
             Connect(p) \/ Disconnect(p) \/ Joins(p) \/ Departs(p)
               \/ Passes(p) \/ KickedOut(p) \/ GetsIdle(p)
      PROVE  RoomNext \/ UNCHANGED roomVars
  BY <1>1 DEF Connect, Disconnect, Joins, Departs, Passes, KickedOut, GetsIdle, RoomNext
<1>2. CASE Unseen
  BY <1>2 DEF Unseen, RoomNext
<1>3. CASE Sweep
  <2>1. UNCHANGED roomVars \/ \E ps : Strand(ps) /\ ps \subseteq Reachable
    BY <1>3 DEF Sweep
  <2>2. Reachable \subseteq Peers
    BY DEF Reachable, RoomMembers
  <2> QED BY <2>1, <2>2 DEF RoomNext
<1> QED BY <1>1, <1>2, <1>3 DEF ThreatsNext

LEMMA ThreatsStep ==
  ASSUME ThreatsInv, ThreatsNext
  PROVE  ThreatsInv'
<1> USE DEF ThreatsInv
<1>1. /\ status \in [Peers -> Status]
      /\ link \in [Peers -> {"new", "open", "shut", "gone"}]
      /\ counted \subseteq Peers /\ paced \subseteq Peers
      /\ heard \subseteq Peers /\ idle \subseteq heard
      /\ counted \subseteq heard /\ paced \subseteq heard
  BY DEF ThreatsTypeOK, RoomTypeOK, TracesAreSwept
<1>2. RoomTypeOK'
  BY ThreatsRoomStep, RoomTypeStep DEF roomVars, RoomTypeOK, ThreatsTypeOK
<1>t. ASSUME NEW p \in Peers, NEW to \in {"open", "shut", "gone"}, Links(p, to)
      PROVE  /\ link' \in [Peers -> {"new", "open", "shut", "gone"}] /\ link'[p] = to
             /\ \A q \in Peers \ {p} : link'[q] = link[q]
  BY <1>1, <1>t DEF Links
<1>3. ASSUME NEW p \in Peers, Connect(p) PROVE ThreatsInv'
  BY <1>1, <1>2, <1>3, <1>t DEF Connect, roomVars, ThreatsTypeOK, TracesAreSwept, OpenAreCounted
<1>4. ASSUME NEW p \in Peers, Disconnect(p) PROVE ThreatsInv'
  BY <1>1, <1>2, <1>4, <1>t
     DEF Disconnect, perPeer, roomVars, ThreatsTypeOK, TracesAreSwept, OpenAreCounted
<1>5. ASSUME NEW p \in Peers, Joins(p) PROVE ThreatsInv'
  <2>1. /\ status[p] = "outside" /\ UNCHANGED <<link, counted, paced, heard, idle>>
        /\ \A q \in Peers \ {p} : status'[q] = status[q]
    BY <1>1, <1>5 DEF Joins, Enter, Become, perPeer
  <2> QED BY <1>1, <1>2, <2>1 DEF ThreatsTypeOK, TracesAreSwept, OpenAreCounted
<1>6. ASSUME NEW p \in Peers, Exit(p), Cleanup({p}),
             Links(p, "gone") \/ Links(p, "shut") \/ UNCHANGED link
      PROVE  ThreatsInv'
  <2>1. /\ status'[p] = "left" /\ \A q \in Peers \ {p} : status'[q] = status[q]
    BY <1>1, <1>6 DEF Exit, Become
  <2>2. /\ link' \in [Peers -> {"new", "open", "shut", "gone"}]
        /\ \A q \in Peers \ {p} : link'[q] = link[q]
    BY <1>1, <1>6, <1>t
  <2>3. OpenAreCounted'
    BY <1>6, <2>1, <2>2 DEF Cleanup, OpenAreCounted
  <2>4. /\ counted' \subseteq heard' /\ paced' \subseteq heard'
        /\ heard' \subseteq Peers /\ idle' \subseteq heard'
    BY <1>1, <1>6 DEF Cleanup
  <2> QED BY <1>1, <1>2, <2>2, <2>3, <2>4 DEF ThreatsTypeOK, TracesAreSwept
<1>7. CASE Unseen
  <2>1. /\ UNCHANGED <<link, counted, paced, heard, idle>>
        /\ \A q \in Peers : status[q] = "left" => status'[q] = "left"
    BY <1>1, <1>7 DEF Unseen, threatsVars, perPeer, Fade, Drop, Return, Become
  <2>2. \A q \in Peers : status'[q] # "left" => status[q] # "left"
    BY <2>1
  <2> QED BY <1>1, <1>2, <2>1, <2>2 DEF ThreatsTypeOK, TracesAreSwept, OpenAreCounted
<1>8. ASSUME NEW p \in Peers, Passes(p) PROVE ThreatsInv'
  <2>1. /\ counted' = counted /\ link' = link /\ status' = status
        /\ heard' = heard \cup {p} /\ idle' = idle \ {p}
        /\ paced' \subseteq paced \cup {p}
    BY <1>8 DEF Passes, Notes, roomVars
  <2> QED BY <1>1, <1>2, <2>1 DEF ThreatsTypeOK, TracesAreSwept, OpenAreCounted
<1>9. ASSUME NEW p \in Peers, KickedOut(p) PROVE ThreatsInv'
  <2>1. CASE p \in Reachable
    BY <1>6, <1>9, <2>1 DEF KickedOut
  <2>2. CASE p \notin Reachable
    <3>1. /\ counted' = counted /\ Links(p, "shut") /\ status' = status
          /\ heard' = heard \cup {p} /\ idle' = idle \ {p}
          /\ paced' \subseteq paced \cup {p}
      BY <1>9, <2>2 DEF KickedOut, Notes, roomVars
    <3>2. OpenAreCounted'
      BY <1>t, <3>1 DEF OpenAreCounted
    <3> QED BY <1>1, <1>2, <1>t, <3>1, <3>2 DEF ThreatsTypeOK, TracesAreSwept
  <2> QED BY <2>1, <2>2
<1>10. ASSUME NEW p \in Peers, GetsIdle(p) PROVE ThreatsInv'
  BY <1>1, <1>2, <1>10 DEF GetsIdle, roomVars, ThreatsTypeOK, TracesAreSwept, OpenAreCounted
<1>11. CASE Sweep
  <2> DEFINE found == {p \in idle : link[p] \in {"open", "shut"}}
  <2>1. /\ link' = [p \in Peers |-> IF p \in found THEN "shut" ELSE link[p]]
        /\ Cleanup(idle)
        /\ UNCHANGED roomVars \/ \E ps : Strand(ps)
    BY <1>11 DEF Sweep
  <2>2. /\ link' \in [Peers -> {"new", "open", "shut", "gone"}]
        /\ \A p \in Peers : link'[p] = "open" => link[p] = "open" /\ p \notin idle
    BY <1>1, <2>1
  <2>3. \A p \in Peers : status'[p] # "left" => status[p] # "left"
    <3>1. CASE UNCHANGED roomVars
      BY <3>1 DEF roomVars
    <3>2. ASSUME NEW ps, Strand(ps)
          PROVE  \A p \in Peers : status'[p] # "left" => status[p] # "left"
      <4>1. \A p \in ps : status[p] # "left"
        BY <3>2 DEF Strand, Reachable, RoomMembers, Inside
      <4> QED BY <1>1, <3>2, <4>1 DEF Strand
    <3> QED BY <2>1, <3>1, <3>2
  <2>4. OpenAreCounted'
    BY <2>1, <2>2, <2>3 DEF Cleanup, OpenAreCounted
  <2>5. /\ counted' \subseteq heard' /\ paced' \subseteq heard'
        /\ heard' \subseteq Peers /\ idle' \subseteq heard'
    BY <1>1, <2>1 DEF Cleanup
  <2> QED BY <1>1, <1>2, <2>2, <2>4, <2>5 DEF ThreatsTypeOK, TracesAreSwept
<1>12. ASSUME NEW p \in Peers, Departs(p) PROVE ThreatsInv'
  BY <1>6, <1>12 DEF Departs
<1> HIDE DEF ThreatsInv
<1> QED
  BY <1>3, <1>4, <1>5, <1>7, <1>8, <1>9, <1>10, <1>11, <1>12 DEF ThreatsNext

(* Nothing is kept of a peer that the sweep cannot find, and the frames of  *)
(* a member on an open connection are counted, whatever joins, kicks, late  *)
(* frames and sweeps come between (attach, _cleanupPeer, _sweep).           *)
THEOREM ThreatsAlwaysSafe == GuardsSpec => []ThreatsSafe
<1> DEFINE Inv == part = "threats" => ThreatsInv
<1>1. GuardsInit => Inv
  <2> SUFFICES ASSUME ThreatsInit PROVE ThreatsInv
    BY DEF GuardsInit
  <2>1. RoomTypeOK
    BY DEF ThreatsInit, RoomInit, RoomTypeOK, Status
  <2> QED
    BY <2>1 DEF ThreatsInit, ThreatsInv, ThreatsTypeOK, TracesAreSwept, OpenAreCounted
<1>2. Inv /\ [GuardsNext]_<<part, gates, stores, onRoom, roomVars>> => Inv'
  <2> SUFFICES ASSUME Inv, [GuardsNext]_<<part, gates, stores, onRoom, roomVars>>,
                      part' = "threats"
               PROVE  ThreatsInv'
    OBVIOUS
  <2>1. CASE ThreatsNext /\ part = "threats"
    BY <2>1, ThreatsStep
  <2>2. CASE UNCHANGED <<part, threatsVars, roomVars>>
    BY <2>2 DEF threatsVars, perPeer, roomVars, ThreatsInv, RoomTypeOK, ThreatsTypeOK,
       TracesAreSwept, OpenAreCounted
  <2> QED
    BY <2>1, <2>2 DEF GuardsNext, onRoom
<1>3. Inv => ThreatsSafe
  BY DEF ThreatsSafe, ThreatsInv, ThreatsHold, ThreatsTypeOK, RoomTypeOK, OpenAreCounted,
     MembersAreCounted, RoomMembers, Inside
<1> QED
  BY <1>1, <1>2, <1>3, PTL DEF GuardsSpec

-----------------------------------------------------------------------------
(* The registry. *)

(* The commands of a peer are in the pipe of its process; a departure's     *)
(* come after it.                                                           *)
CommandsPlaced ==
  \A h \in Procs : \A i \in 1..Len(pipe[h]) :
    /\ place[pipe[h][i].peer] \in {h, "gone"}
    /\ pipe[h][i].op \in LeaveOps => place[pipe[h][i].peer] = "gone"

OneHome ==
  \A g, h \in Procs : \A i \in 1..Len(pipe[g]) : \A j \in 1..Len(pipe[h]) :
    pipe[g][i].peer = pipe[h][j].peer => g = h

(* NoGhosts needs that a departure's hDel is behind the hSet of the join.   *)
SetsAhead ==
  \A h \in Procs : \A i \in 1..Len(pipe[h]) :
    pipe[h][i].op = "hSet" /\ place[pipe[h][i].peer] = "gone" =>
      \/ \E j \in i + 1..Len(pipe[h]) : pipe[h][j] = [op |-> "hDel", peer |-> pipe[h][i].peer]
      \/ Failed({"hDel"}, pipe[h][i].peer)

HashFits ==
  \A p \in hash :
    /\ place[p] # "outside"
    /\ place[p] = "gone" => Pending("hDel", p) \/ Failed({"hDel"}, p)

(* How many commands at least a chain has still to issue.                   *)
StepsLeft ==
  [op \in JoinOps \cup LeaveOps |->
     CASE op \in {"joined", "left"} -> 1
       [] op \in {"expire", "sAdd", "hLen", "sRem"} -> 2
       [] op \in {"hSet", "hDel", "del"} -> 3]

(* Without a TTL the chain of a join stays ahead of those of the departure: *)
(* every round of the pipe takes a step of each.                            *)
NoOvertaking ==
  \A h \in Procs : \A i, j \in 1..Len(pipe[h]) :
    pipe[h][i].op \in JoinOps /\ pipe[h][j].op \in LeaveOps /\ pipe[h][i].peer = pipe[h][j].peer =>
      \/ StepsLeft[pipe[h][i].op] < StepsLeft[pipe[h][j].op]
      \/ StepsLeft[pipe[h][i].op] = StepsLeft[pipe[h][j].op] /\ i < j

Coming(ops, p) ==
  \E h \in Procs : \E i \in 1..Len(pipe[h]) : pipe[h][i].op \in ops /\ pipe[h][i].peer = p

RemoteFits ==
  \A p \in Clients :
    /\ p \in remote => place[p] # "outside"
    /\ place[p] \in Procs => p \in remote \/ Coming(JoinOps, p) \/ Failed(JoinOps, p)
    /\ place[p] = "gone" /\ (p \in remote \/ Coming(JoinOps, p)) =>
         Coming(LeaveOps, p) \/ Failed(LeaveOps, p)

(* A TTL is given only where the option says so.                            *)
ExpireMeant == \A h \in Procs : \A i \in 1..Len(pipe[h]) : pipe[h][i].op = "expire" => ttl

RegistryInv ==
  /\ TypeOK /\ ExpireMeant
  /\ ~crashed => CommandsPlaced /\ OneHome /\ SetsAhead /\ HashFits
  /\ ~crashed /\ ~ttl => NoOvertaking /\ RemoteFits

LEMMA CommandFields ==
  ASSUME NEW cmd \in Command
  PROVE  cmd.op \in JoinOps \cup LeaveOps /\ cmd.peer \in Clients
BY DEF Command

(* Commands of p are issued by h: the last ones of the pipe.                *)
LEMMA RegistryIssued ==
  ASSUME TypeOK, NEW h \in Procs, NEW cmds \in Seq(Command), Issue(h, cmds)
  PROVE  /\ pipe' \in [Procs -> Seq(Command)]
         /\ \A g \in Procs \ {h} : pipe'[g] = pipe[g]
         /\ \A g \in Procs : Len(pipe[g]) \in Nat
         /\ Len(pipe'[h]) = Len(pipe[h]) + Len(cmds) /\ Len(cmds) \in Nat
         /\ \A g \in Procs : \A i \in 1..Len(pipe[g]) :
              i \in 1..Len(pipe'[g]) /\ pipe'[g][i] = pipe[g][i] /\ pipe[g][i] \in Command
         /\ \A g \in Procs : \A i \in 1..Len(pipe'[g]) :
              \/ i \in 1..Len(pipe[g])
              \/ g = h /\ i > Len(pipe[h]) /\ i - Len(pipe[h]) \in 1..Len(cmds)
                 /\ pipe'[h][i] = cmds[i - Len(pipe[h])]
<1>1. \A g \in Procs : pipe[g] \in Seq(Command)
  BY DEF TypeOK
<1>2. pipe' = [pipe EXCEPT ![h] = pipe[h] \o cmds]
  BY DEF Issue
<1>3. /\ Len(pipe[h]) \in Nat /\ Len(cmds) \in Nat
      /\ pipe[h] \o cmds \in Seq(Command) /\ Len(pipe[h] \o cmds) = Len(pipe[h]) + Len(cmds)
      /\ \A i \in 1..Len(pipe[h]) : (pipe[h] \o cmds)[i] = pipe[h][i]
      /\ \A i \in 1..Len(pipe[h] \o cmds) :
           i > Len(pipe[h]) => i - Len(pipe[h]) \in 1..Len(cmds)
                               /\ (pipe[h] \o cmds)[i] = cmds[i - Len(pipe[h])]
  BY <1>1, Concatenated
<1>4. /\ pipe' \in [Procs -> Seq(Command)] /\ pipe'[h] = pipe[h] \o cmds
      /\ \A g \in Procs \ {h} : pipe'[g] = pipe[g]
  BY <1>1, <1>2, <1>3 DEF TypeOK
<1>5. \A g \in Procs : Len(pipe[g]) \in Nat
  BY <1>1, LenProperties
<1>6. \A g \in Procs : \A i \in 1..Len(pipe[g]) : pipe[g][i] \in Command
  BY <1>1, ElementOfSeq
<1>7. \A g \in Procs : \A i \in 1..Len(pipe[g]) :
        i \in 1..Len(pipe'[g]) /\ pipe'[g][i] = pipe[g][i]
  BY <1>3, <1>4
<1>8. ASSUME NEW g \in Procs, NEW i \in 1..Len(pipe'[g])
      PROVE  \/ i \in 1..Len(pipe[g])
             \/ g = h /\ i > Len(pipe[h]) /\ i - Len(pipe[h]) \in 1..Len(cmds)
                /\ pipe'[h][i] = cmds[i - Len(pipe[h])]
  <2>1. CASE g # h
    BY <1>4, <2>1
  <2>2. CASE g = h
    BY <1>3, <1>4, <2>2
  <2> QED BY <2>1, <2>2
<1> QED BY <1>3, <1>4, <1>5, <1>6, <1>7, <1>8

LEMMA RegisterStep ==
  ASSUME RegistryInv, NEW p \in Clients, NEW h \in Procs, Register(p, h)
  PROVE  RegistryInv'
<1> USE PlacesAssumption
<1> DEFINE cmd == [op |-> "hSet", peer |-> p]
           cmds == <<cmd>>
<1>c. cmd \in Command /\ cmd.op = "hSet" /\ cmd.peer = p
  BY DEF Command, JoinOps
<1> HIDE DEF cmd
<1>1. cmds \in Seq(Command) /\ Len(cmds) = 1 /\ cmds[1] = cmd
  BY <1>c
<1>2. /\ place[p] = "outside" /\ place' = [place EXCEPT ![p] = h] /\ Issue(h, cmds)
      /\ UNCHANGED <<ttl, hash, volatile, index, remote, crashed, failed>>
  BY DEF Register, registry, cmd
<1>3. TypeOK
  BY DEF RegistryInv
<1> HIDE DEF cmds
<1>4. /\ pipe' \in [Procs -> Seq(Command)]
      /\ \A g \in Procs \ {h} : pipe'[g] = pipe[g]
      /\ \A g \in Procs : \A i \in 1..Len(pipe[g]) :
           i \in 1..Len(pipe'[g]) /\ pipe'[g][i] = pipe[g][i] /\ pipe[g][i] \in Command
      /\ Len(pipe'[h]) = Len(pipe[h]) + Len(cmds)
      /\ \A g \in Procs : Len(pipe[g]) \in Nat
  BY <1>1, <1>2, <1>3, RegistryIssued
<1>5. ASSUME NEW g \in Procs, NEW i \in 1..Len(pipe'[g]), i \notin 1..Len(pipe[g])
      PROVE  g = h /\ pipe'[g][i] = cmd /\ i = Len(pipe[h]) + 1
  <2>1. /\ g = h /\ i > Len(pipe[h]) /\ i - Len(pipe[h]) \in 1..Len(cmds)
        /\ pipe'[h][i] = cmds[i - Len(pipe[h])]
    <3>1. \A f \in Procs : \A k \in 1..Len(pipe'[f]) : k \notin 1..Len(pipe[f]) =>
            /\ f = h /\ k > Len(pipe[h]) /\ k - Len(pipe[h]) \in 1..Len(cmds)
            /\ pipe'[h][k] = cmds[k - Len(pipe[h])]
      BY <1>1, <1>2, <1>3, RegistryIssued
    <3> QED BY <1>5, <3>1
  <2>2. i - Len(pipe[h]) = 1
    BY <1>1, <1>4, <2>1
  <2> QED BY <1>1, <1>4, <2>1, <2>2
<1>6. place' \in [Clients -> Procs \cup {"outside", "gone"}] /\ place'[p] = h
      /\ \A q \in Clients \ {p} : place'[q] = place[q]
  BY <1>2, <1>3 DEF TypeOK
<1>7. TypeOK'
  BY <1>2, <1>3, <1>4, <1>6 DEF TypeOK
<1>e. ExpireMeant'
  <2> SUFFICES ASSUME NEW g \in Procs, NEW i \in 1..Len(pipe'[g]), pipe'[g][i].op = "expire"
               PROVE  ttl
    BY <1>2 DEF ExpireMeant
  <2>1. i \in 1..Len(pipe[g])
    BY <1>5, <1>c
  <2> QED BY <1>4, <2>1 DEF ExpireMeant, RegistryInv
<1>8. ASSUME ~crashed
      PROVE  /\ CommandsPlaced' /\ OneHome' /\ SetsAhead' /\ HashFits'
             /\ ~ttl => NoOvertaking' /\ RemoteFits'
  <2>a. CommandsPlaced /\ OneHome /\ SetsAhead /\ HashFits
    BY <1>8 DEF RegistryInv
  <2>1. ASSUME NEW g \in Procs, NEW i \in 1..Len(pipe[g])
        PROVE  /\ pipe[g][i].peer \in Clients \ {p}
               /\ place'[pipe[g][i].peer] = place[pipe[g][i].peer]
    <3>1. pipe[g][i] \in Command
      BY <1>4
    <3>2. pipe[g][i].peer \in Clients
      BY <3>1, CommandFields
    <3>3. place[pipe[g][i].peer] \in {g, "gone"}
      BY <2>a DEF CommandsPlaced
    <3> QED BY <1>2, <1>6, <3>2, <3>3
  <2>2. CommandsPlaced'
    <3> SUFFICES ASSUME NEW g \in Procs, NEW i \in 1..Len(pipe'[g])
                 PROVE  /\ place'[pipe'[g][i].peer] \in {g, "gone"}
                        /\ pipe'[g][i].op \in LeaveOps => place'[pipe'[g][i].peer] = "gone"
      BY DEF CommandsPlaced
    <3>1. CASE i \in 1..Len(pipe[g])
      <4>1. pipe'[g][i] = pipe[g][i]
        BY <1>4, <3>1
      <4>2. place'[pipe[g][i].peer] = place[pipe[g][i].peer]
        BY <2>1, <3>1
      <4>3. /\ place[pipe[g][i].peer] \in {g, "gone"}
            /\ pipe[g][i].op \in LeaveOps => place[pipe[g][i].peer] = "gone"
        BY <2>a, <3>1 DEF CommandsPlaced
      <4> QED BY <4>1, <4>2, <4>3
    <3>2. CASE i \notin 1..Len(pipe[g])
      BY <1>5, <1>6, <1>c, <3>2 DEF LeaveOps
    <3> QED BY <3>1, <3>2
  <2>3. OneHome'
    <3> SUFFICES ASSUME NEW g \in Procs, NEW k \in Procs, NEW i \in 1..Len(pipe'[g]),
                        NEW j \in 1..Len(pipe'[k]), pipe'[g][i].peer = pipe'[k][j].peer
                 PROVE  g = k
      BY DEF OneHome
    <3>1. CASE i \in 1..Len(pipe[g]) /\ j \in 1..Len(pipe[k])
      <4>1. pipe'[g][i] = pipe[g][i] /\ pipe'[k][j] = pipe[k][j]
        BY <1>4, <3>1
      <4> QED BY <2>a, <3>1, <4>1 DEF OneHome
    <3>2. CASE i \notin 1..Len(pipe[g])
      <4>1. g = h /\ pipe'[k][j].peer = p
        BY <1>5, <1>c, <3>2
      <4>2. j \in 1..Len(pipe[k]) => pipe'[k][j].peer # p
        BY <1>4, <2>1
      <4> QED BY <1>5, <4>1, <4>2
    <3>3. CASE j \notin 1..Len(pipe[k])
      <4>1. k = h /\ pipe'[g][i].peer = p
        BY <1>5, <1>c, <3>3
      <4>2. i \in 1..Len(pipe[g]) => pipe'[g][i].peer # p
        BY <1>4, <2>1
      <4> QED BY <1>5, <4>1, <4>2
    <3> QED BY <3>1, <3>2, <3>3
  <2>4. SetsAhead'
    <3> SUFFICES ASSUME NEW g \in Procs, NEW i \in 1..Len(pipe'[g]),
                        pipe'[g][i].op = "hSet", place'[pipe'[g][i].peer] = "gone"
                 PROVE  \/ \E j \in i + 1..Len(pipe'[g]) :
                             pipe'[g][j] = [op |-> "hDel", peer |-> pipe'[g][i].peer]
                        \/ Failed({"hDel"}, pipe'[g][i].peer)
      BY <1>2 DEF SetsAhead, Failed
    <3>1. i \in 1..Len(pipe[g])
      BY <1>5, <1>6, <1>c
    <3>p. pipe'[g][i] = pipe[g][i]
      BY <1>4, <3>1
    <3>2. pipe'[g][i] = pipe[g][i] /\ place[pipe[g][i].peer] = "gone"
      BY <2>1, <3>1, <3>p
    <3> SUFFICES ASSUME ~Failed({"hDel"}, pipe[g][i].peer)
                 PROVE  \E j \in i + 1..Len(pipe'[g]) :
                          pipe'[g][j] = [op |-> "hDel", peer |-> pipe'[g][i].peer]
      BY <3>2
    <3>3. PICK j \in i + 1..Len(pipe[g]) :
            pipe[g][j] = [op |-> "hDel", peer |-> pipe[g][i].peer]
      BY <2>a, <3>1, <3>2 DEF SetsAhead
    <3>4. j \in 1..Len(pipe[g])
      BY <1>4, <3>1, <3>3
    <3>5. j \in 1..Len(pipe'[g]) /\ pipe'[g][j] = pipe[g][j]
      BY <1>4, <3>4
    <3>6. j \in i + 1..Len(pipe'[g])
      BY <3>3, <3>5
    <3> QED BY <3>2, <3>3, <3>5, <3>6
  <2>5. HashFits'
    <3> SUFFICES ASSUME NEW q \in hash
                 PROVE  /\ place'[q] # "outside"
                        /\ place'[q] = "gone" => Pending("hDel", q)' \/ Failed({"hDel"}, q)
      BY <1>2 DEF HashFits, Failed
    <3>1. /\ place[q] # "outside"
          /\ place[q] = "gone" => Pending("hDel", q) \/ Failed({"hDel"}, q)
      BY <2>a DEF HashFits
    <3>2. q \in Clients \ {p}
      BY <1>2, <1>3, <3>1 DEF TypeOK
    <3>3. Pending("hDel", q) => Pending("hDel", q)'
      BY <1>4 DEF Pending
    <3> QED BY <1>6, <3>1, <3>2, <3>3
  <2>6. ASSUME ~ttl PROVE NoOvertaking'
    <3> SUFFICES ASSUME NEW g \in Procs, NEW i \in 1..Len(pipe'[g]), NEW j \in 1..Len(pipe'[g]),
                        pipe'[g][i].op \in JoinOps, pipe'[g][j].op \in LeaveOps,
                        pipe'[g][i].peer = pipe'[g][j].peer
                 PROVE  \/ StepsLeft[pipe'[g][i].op] < StepsLeft[pipe'[g][j].op]
                        \/ StepsLeft[pipe'[g][i].op] = StepsLeft[pipe'[g][j].op] /\ i < j
      BY DEF NoOvertaking
    <3>1. j \in 1..Len(pipe[g])
      BY <1>5, <1>c DEF LeaveOps
    <3>2. i \in 1..Len(pipe[g])
      BY <1>4, <1>5, <1>c, <2>1, <3>1
    <3>3. pipe'[g][i] = pipe[g][i] /\ pipe'[g][j] = pipe[g][j]
      BY <1>4, <3>1, <3>2
    <3>4. NoOvertaking
      BY <1>8, <2>6 DEF RegistryInv
    <3> QED BY <3>1, <3>2, <3>3, <3>4 DEF NoOvertaking
  <2>7. ASSUME ~ttl PROVE RemoteFits'
    <3>1. RemoteFits
      BY <1>8, <2>7 DEF RegistryInv
    <3>2. \A q \in Clients : /\ Coming(JoinOps, q) => Coming(JoinOps, q)'
                             /\ Coming(LeaveOps, q) => Coming(LeaveOps, q)'
      <4>1. ASSUME NEW ops, NEW q, Coming(ops, q)
            PROVE  Coming(ops, q)'
        <5>1. PICK g \in Procs : \E i \in 1..Len(pipe[g]) :
                pipe[g][i].op \in ops /\ pipe[g][i].peer = q
          BY <4>1 DEF Coming
        <5>2. PICK i \in 1..Len(pipe[g]) : pipe[g][i].op \in ops /\ pipe[g][i].peer = q
          BY <5>1
        <5>3. i \in 1..Len(pipe'[g]) /\ pipe'[g][i] = pipe[g][i]
          BY <1>4, <5>2
        <5> QED BY <5>2, <5>3 DEF Coming
      <4> QED BY <4>1
    <3>3. ASSUME NEW q \in Clients \ {p}, Coming(JoinOps, q)' PROVE Coming(JoinOps, q)
      <4>1. PICK g \in Procs : \E i \in 1..Len(pipe'[g]) :
                   pipe'[g][i].op \in JoinOps /\ pipe'[g][i].peer = q
        BY <3>3 DEF Coming
      <4>2. PICK i \in 1..Len(pipe'[g]) : pipe'[g][i].op \in JoinOps /\ pipe'[g][i].peer = q
        BY <4>1
      <4>3. i \in 1..Len(pipe[g])
        BY <1>5, <1>c, <4>2
      <4> QED BY <1>4, <4>2, <4>3 DEF Coming
    <3>4. Coming(JoinOps, p)'
      <4>1. Len(pipe[h]) + 1 \in 1..Len(pipe'[h]) /\ Len(pipe[h]) + 1 \notin 1..Len(pipe[h])
        BY <1>1, <1>4
      <4>2. pipe'[h][Len(pipe[h]) + 1] = cmd
        BY <1>5, <4>1
      <4> QED BY <1>c, <4>1, <4>2 DEF Coming, JoinOps
    <3>5. ASSUME NEW q \in Clients
          PROVE  /\ q \in remote' => place'[q] # "outside"
                 /\ place'[q] \in Procs => q \in remote' \/ Coming(JoinOps, q)' \/ Failed(JoinOps, q)
                 /\ place'[q] = "gone" /\ (q \in remote' \/ Coming(JoinOps, q)')
                      => Coming(LeaveOps, q)' \/ Failed(LeaveOps, q)
      <4>1. CASE q = p
        BY <1>2, <1>6, <3>4, <4>1
      <4>2. CASE q # p
        BY <1>2, <1>6, <3>1, <3>2, <3>3, <4>2 DEF RemoteFits
      <4> QED BY <4>1, <4>2
    <3> QED BY <1>2, <3>5 DEF RemoteFits, Failed
  <2> QED BY <2>2, <2>3, <2>4, <2>5, <2>6, <2>7
<1> QED BY <1>2, <1>7, <1>8, <1>e DEF RegistryInv

LEMMA DeregisterStep ==
  ASSUME RegistryInv, NEW p \in Clients, Deregister(p)
  PROVE  RegistryInv'
<1> USE PlacesAssumption
<1> DEFINE cmd == [op |-> "hDel", peer |-> p]
           h == place[p]
<1>c. cmd \in Command /\ cmd.op = "hDel" /\ cmd.peer = p
  BY DEF Command, LeaveOps
<1>d. cmd = [op |-> "hDel", peer |-> p]
  OBVIOUS
<1>h. h \in Procs
  BY DEF Deregister, Members
<1>2. PICK times \in 1..2 : Issue(h, [i \in 1..times |-> cmd])
  BY DEF Deregister
<1> DEFINE cmds == [i \in 1..times |-> cmd]
<1> HIDE DEF cmd
<1>1. cmds \in Seq(Command) /\ Len(cmds) = times /\ \A i \in 1..times : cmds[i] = cmd
  BY <1>c
<1>3. /\ place' = [place EXCEPT ![p] = "gone"] /\ Issue(h, cmds)
      /\ UNCHANGED <<ttl, hash, volatile, index, remote, crashed, failed>>
  BY <1>2 DEF Deregister, registry
<1>s. TypeOK
  BY DEF RegistryInv
<1> HIDE DEF cmds, h
<1>4. /\ pipe' \in [Procs -> Seq(Command)]
      /\ \A g \in Procs : \A i \in 1..Len(pipe[g]) :
           i \in 1..Len(pipe'[g]) /\ pipe'[g][i] = pipe[g][i] /\ pipe[g][i] \in Command
      /\ Len(pipe'[h]) = Len(pipe[h]) + times
      /\ \A g \in Procs : Len(pipe[g]) \in Nat
  BY <1>1, <1>3, <1>h, <1>s, RegistryIssued
<1>5. ASSUME NEW g \in Procs, NEW i \in 1..Len(pipe'[g]), i \notin 1..Len(pipe[g])
      PROVE  g = h /\ pipe'[g][i] = cmd /\ i > Len(pipe[h])
  <2>1. /\ g = h /\ i > Len(pipe[h]) /\ i - Len(pipe[h]) \in 1..Len(cmds)
        /\ pipe'[h][i] = cmds[i - Len(pipe[h])]
    BY <1>1, <1>3, <1>h, <1>s, <1>5, RegistryIssued
  <2> QED BY <1>1, <2>1
<1>l. /\ Len(pipe[h]) + 1 \in 1..Len(pipe'[h]) /\ pipe'[h][Len(pipe[h]) + 1] = cmd
      /\ \A i \in 1..Len(pipe[h]) : Len(pipe[h]) + 1 \in i + 1..Len(pipe'[h])
  <2>1. Len(pipe[h]) + 1 \in 1..Len(pipe'[h]) /\ Len(pipe[h]) + 1 \notin 1..Len(pipe[h])
    BY <1>4, <1>h
  <2>2. \A i \in 1..Len(pipe[h]) : Len(pipe[h]) + 1 \in i + 1..Len(pipe'[h])
    BY <1>4, <1>h
  <2> QED BY <1>5, <1>h, <2>1, <2>2
<1>6. /\ place' \in [Clients -> Procs \cup {"outside", "gone"}] /\ place'[p] = "gone"
      /\ \A q \in Clients \ {p} : place'[q] = place[q]
      /\ place[p] = h
  BY <1>3, <1>s DEF TypeOK, h
<1>7. TypeOK'
  BY <1>3, <1>4, <1>6, <1>s DEF TypeOK
<1>e. ExpireMeant'
  <2> SUFFICES ASSUME NEW g \in Procs, NEW i \in 1..Len(pipe'[g]), pipe'[g][i].op = "expire"
               PROVE  ttl
    BY <1>3 DEF ExpireMeant
  <2>1. i \in 1..Len(pipe[g])
    BY <1>5, <1>c
  <2> QED BY <1>4, <2>1 DEF ExpireMeant, RegistryInv
<1>8. ASSUME ~crashed
      PROVE  /\ CommandsPlaced' /\ OneHome' /\ SetsAhead' /\ HashFits'
             /\ ~ttl => NoOvertaking' /\ RemoteFits'
  <2>a. CommandsPlaced /\ OneHome /\ SetsAhead /\ HashFits
    BY <1>8 DEF RegistryInv
  <2>1. ASSUME NEW g \in Procs, NEW i \in 1..Len(pipe[g])
        PROVE  /\ pipe[g][i].peer \in Clients /\ pipe[g][i].op \in JoinOps \cup LeaveOps
               /\ pipe[g][i].peer = p => g = h
               /\ place'[pipe[g][i].peer] \in {g, "gone"}
    <3>1. pipe[g][i] \in Command
      BY <1>4
    <3>2. pipe[g][i].peer \in Clients /\ pipe[g][i].op \in JoinOps \cup LeaveOps
      BY <3>1, CommandFields
    <3>3. place[pipe[g][i].peer] \in {g, "gone"}
      BY <2>a DEF CommandsPlaced
    <3> QED BY <1>6, <1>h, <3>2, <3>3
  <2>2. CommandsPlaced'
    <3> SUFFICES ASSUME NEW g \in Procs, NEW i \in 1..Len(pipe'[g])
                 PROVE  /\ place'[pipe'[g][i].peer] \in {g, "gone"}
                        /\ pipe'[g][i].op \in LeaveOps => place'[pipe'[g][i].peer] = "gone"
      BY DEF CommandsPlaced
    <3>1. CASE i \in 1..Len(pipe[g])
      <4>1. pipe'[g][i] = pipe[g][i]
        BY <1>4, <3>1
      <4>2. pipe[g][i].op \in LeaveOps => place[pipe[g][i].peer] = "gone"
        BY <2>a, <3>1 DEF CommandsPlaced
      <4> QED BY <1>6, <2>1, <3>1, <4>1, <4>2
    <3>2. CASE i \notin 1..Len(pipe[g])
      BY <1>5, <1>6, <1>c, <3>2
    <3> QED BY <3>1, <3>2
  <2>3. OneHome'
    <3> SUFFICES ASSUME NEW g \in Procs, NEW k \in Procs, NEW i \in 1..Len(pipe'[g]),
                        NEW j \in 1..Len(pipe'[k]), pipe'[g][i].peer = pipe'[k][j].peer
                 PROVE  g = k
      BY DEF OneHome
    <3>1. CASE i \in 1..Len(pipe[g]) /\ j \in 1..Len(pipe[k])
      <4>1. pipe'[g][i] = pipe[g][i] /\ pipe'[k][j] = pipe[k][j]
        BY <1>4, <3>1
      <4> QED BY <2>a, <3>1, <4>1 DEF OneHome
    <3>2. CASE i \notin 1..Len(pipe[g])
      <4>1. g = h /\ pipe'[k][j].peer = p
        BY <1>5, <1>c, <3>2
      <4>2. j \in 1..Len(pipe[k]) => k = h
        BY <1>4, <2>1, <4>1
      <4> QED BY <1>5, <4>1, <4>2
    <3>3. CASE j \notin 1..Len(pipe[k])
      <4>1. k = h /\ pipe'[g][i].peer = p
        BY <1>5, <1>c, <3>3
      <4>2. i \in 1..Len(pipe[g]) => g = h
        BY <1>4, <2>1, <4>1
      <4> QED BY <1>5, <4>1, <4>2
    <3> QED BY <3>1, <3>2, <3>3
  <2>4. SetsAhead'
    <3> SUFFICES ASSUME NEW g \in Procs, NEW i \in 1..Len(pipe'[g]),
                        pipe'[g][i].op = "hSet", place'[pipe'[g][i].peer] = "gone"
                 PROVE  \/ \E j \in i + 1..Len(pipe'[g]) :
                             pipe'[g][j] = [op |-> "hDel", peer |-> pipe'[g][i].peer]
                        \/ Failed({"hDel"}, pipe'[g][i].peer)
      BY <1>3 DEF SetsAhead, Failed
    <3>1. i \in 1..Len(pipe[g])
      BY <1>5, <1>c
    <3>2. pipe'[g][i] = pipe[g][i]
      BY <1>4, <3>1
    <3>3. CASE pipe[g][i].peer = p
      <4>1. g = h
        BY <2>1, <3>1, <3>3
      <4> QED BY <1>d, <1>l, <3>1, <3>2, <3>3, <4>1
    <3>4. CASE pipe[g][i].peer # p
      <4>1. place[pipe[g][i].peer] = "gone"
        BY <1>6, <2>1, <3>1, <3>2, <3>4
      <4> SUFFICES ASSUME ~Failed({"hDel"}, pipe[g][i].peer)
                   PROVE  \E j \in i + 1..Len(pipe'[g]) :
                            pipe'[g][j] = [op |-> "hDel", peer |-> pipe'[g][i].peer]
        BY <3>2
      <4>3. PICK j \in i + 1..Len(pipe[g]) :
              pipe[g][j] = [op |-> "hDel", peer |-> pipe[g][i].peer]
        BY <2>a, <3>1, <3>2, <4>1 DEF SetsAhead
      <4>4. j \in 1..Len(pipe[g])
        BY <1>4, <3>1, <4>3
      <4>5. j \in 1..Len(pipe'[g]) /\ pipe'[g][j] = pipe[g][j]
        BY <1>4, <4>4
      <4>6. j \in i + 1..Len(pipe'[g])
        BY <4>3, <4>5
      <4> QED BY <3>2, <4>3, <4>5, <4>6
    <3> QED BY <3>3, <3>4
  <2>5. HashFits'
    <3> SUFFICES ASSUME NEW q \in hash
                 PROVE  /\ place'[q] # "outside"
                        /\ place'[q] = "gone" => Pending("hDel", q)' \/ Failed({"hDel"}, q)
      BY <1>3 DEF HashFits, Failed
    <3>1. /\ place[q] # "outside"
          /\ place[q] = "gone" => Pending("hDel", q) \/ Failed({"hDel"}, q)
      BY <2>a DEF HashFits
    <3>2. q \in Clients
      BY <1>s DEF TypeOK
    <3>3. Pending("hDel", q) => Pending("hDel", q)'
      BY <1>4 DEF Pending
    <3>4. Pending("hDel", p)'
      BY <1>d, <1>h, <1>l DEF Pending
    <3> QED BY <1>6, <3>1, <3>2, <3>3, <3>4
  <2>6. ASSUME ~ttl PROVE NoOvertaking'
    <3> SUFFICES ASSUME NEW g \in Procs, NEW i \in 1..Len(pipe'[g]), NEW j \in 1..Len(pipe'[g]),
                        pipe'[g][i].op \in JoinOps, pipe'[g][j].op \in LeaveOps,
                        pipe'[g][i].peer = pipe'[g][j].peer
                 PROVE  \/ StepsLeft[pipe'[g][i].op] < StepsLeft[pipe'[g][j].op]
                        \/ StepsLeft[pipe'[g][i].op] = StepsLeft[pipe'[g][j].op] /\ i < j
      BY DEF NoOvertaking
    <3>1. i \in 1..Len(pipe[g]) /\ pipe'[g][i] = pipe[g][i]
      <4>1. i \in 1..Len(pipe[g])
        BY <1>5, <1>c DEF JoinOps
      <4> QED BY <1>4, <4>1
    <3>2. CASE j \in 1..Len(pipe[g])
      <4>1. pipe'[g][j] = pipe[g][j]
        BY <1>4, <3>2
      <4> QED BY <1>8, <2>6, <3>1, <3>2, <4>1 DEF RegistryInv, NoOvertaking
    <3>3. CASE j \notin 1..Len(pipe[g])
      <4>1. g = h /\ pipe'[g][j].op = "hDel" /\ j > Len(pipe[g])
        BY <1>5, <1>c, <3>3
      <4>2. i < j
        BY <1>4, <3>1, <4>1
      <4>3. \A op \in JoinOps : \/ StepsLeft[op] < StepsLeft["hDel"]
                                \/ StepsLeft[op] = StepsLeft["hDel"]
        BY DEF JoinOps, LeaveOps, StepsLeft
      <4> QED BY <4>1, <4>2, <4>3
    <3> QED BY <3>2, <3>3
  <2>7. ASSUME ~ttl PROVE RemoteFits'
    <3>1. RemoteFits
      BY <1>8, <2>7 DEF RegistryInv
    <3>2. \A q \in Clients : /\ Coming(JoinOps, q) => Coming(JoinOps, q)'
                             /\ Coming(LeaveOps, q) => Coming(LeaveOps, q)'
      BY <1>4 DEF Coming
    <3>3. ASSUME NEW q \in Clients, Coming(JoinOps, q)' PROVE Coming(JoinOps, q)
      <4>1. PICK g \in Procs : \E i \in 1..Len(pipe'[g]) :
                   pipe'[g][i].op \in JoinOps /\ pipe'[g][i].peer = q
        BY <3>3 DEF Coming
      <4>2. PICK i \in 1..Len(pipe'[g]) : pipe'[g][i].op \in JoinOps /\ pipe'[g][i].peer = q
        BY <4>1
      <4>3. i \in 1..Len(pipe[g])
        BY <1>5, <1>c, <4>2 DEF JoinOps
      <4> QED BY <1>4, <4>2, <4>3 DEF Coming
    <3>4. Coming(LeaveOps, p)'
      BY <1>c, <1>h, <1>l DEF Coming, LeaveOps
    <3>5. ASSUME NEW q \in Clients
          PROVE  /\ q \in remote' => place'[q] # "outside"
                 /\ place'[q] \in Procs => q \in remote' \/ Coming(JoinOps, q)' \/ Failed(JoinOps, q)
                 /\ place'[q] = "gone" /\ (q \in remote' \/ Coming(JoinOps, q)')
                      => Coming(LeaveOps, q)' \/ Failed(LeaveOps, q)
      <4>1. CASE q = p
        BY <1>6, <3>4, <4>1
      <4>2. CASE q # p
        BY <1>3, <1>6, <3>1, <3>2, <3>3, <4>2 DEF RemoteFits
      <4> QED BY <4>1, <4>2
    <3> QED BY <1>3, <3>5 DEF RemoteFits, Failed
  <2> QED BY <2>2, <2>3, <2>4, <2>5, <2>6, <2>7
<1> QED BY <1>3, <1>7, <1>8, <1>e DEF RegistryInv

(* What a command of h does to the pipe of h: it is followed by the next    *)
(* one of its chain, if it has one and is not rejected.                     *)
ChainGoesOn(done, next) ==
  \/ /\ done \in JoinOps /\ next \in JoinOps \ {"hSet"}
     /\ ~ttl => StepsLeft[next] < StepsLeft[done]
     /\ next = "expire" => ttl
  \/ /\ done \in LeaveOps /\ next \in LeaveOps \ {"hDel"}
     /\ StepsLeft[done] <= StepsLeft[next] + 1

LEMMA StepsOrdered ==
  /\ ttl => ChainGoesOn("sAdd", "expire")
  /\ ~ttl => ChainGoesOn("sAdd", "joined")
  /\ ChainGoesOn("hSet", "sAdd") /\ ChainGoesOn("expire", "joined")
  /\ ChainGoesOn("hDel", "hLen") /\ ChainGoesOn("hLen", "del") /\ ChainGoesOn("hLen", "left")
  /\ ChainGoesOn("del", "sRem") /\ ChainGoesOn("sRem", "left")
<1>1. StepsLeft \in [JoinOps \cup LeaveOps -> Nat]
  BY DEF StepsLeft, JoinOps, LeaveOps
<1>2. /\ StepsLeft["joined"] = 1 /\ StepsLeft["left"] = 1
      /\ StepsLeft["expire"] = 2 /\ StepsLeft["sAdd"] = 2
      /\ StepsLeft["hLen"] = 2 /\ StepsLeft["sRem"] = 2
      /\ StepsLeft["hSet"] = 3 /\ StepsLeft["hDel"] = 3 /\ StepsLeft["del"] = 3
  BY DEF StepsLeft, JoinOps, LeaveOps
<1> QED BY <1>2 DEF ChainGoesOn, JoinOps, LeaveOps

LEMMA RegistryExecuted ==
  ASSUME TypeOK, ExpireMeant, NEW h \in Procs, Execute(h)
  PROVE  /\ Len(pipe[h]) \in Nat \ {0} /\ pipe[h][1] \in Command
         /\ \A g \in Procs \ {h} : pipe'[g] = pipe[g]
         /\ TypeOK'
         /\ \A i \in 1..Len(pipe[h]) - 1 : pipe'[h][i] = pipe[h][i + 1]
         /\ \/ /\ Len(pipe'[h]) = Len(pipe[h])
               /\ ChainGoesOn(pipe[h][1].op, pipe'[h][Len(pipe[h])].op)
               /\ pipe'[h][Len(pipe[h])].peer = pipe[h][1].peer
            \/ /\ Len(pipe'[h]) = Len(pipe[h]) - 1
               /\ pipe[h][1].op \in {"joined", "left"} \/ pipe[h][1] \in failed'
         /\ hash' \subseteq hash \cup {pipe[h][1].peer}
         /\ pipe[h][1].op = "hDel" => hash' = hash \ {pipe[h][1].peer} \/ pipe[h][1] \in failed'
         /\ pipe[h][1].op # "hSet" => hash' \subseteq hash
         /\ CASE pipe[h][1].op = "joined" -> remote' = remote \cup {pipe[h][1].peer}
                                              \/ (remote' = remote /\ pipe[h][1] \in failed')
              [] pipe[h][1].op = "left" -> remote' = remote \ {pipe[h][1].peer}
                                            \/ (remote' = remote /\ pipe[h][1] \in failed')
              [] OTHER -> remote' = remote
         /\ failed \subseteq failed'
         /\ UNCHANGED <<ttl, place, crashed>>
<1> DEFINE c == Head(pipe[h])
<1>1. /\ Len(pipe[h]) \in Nat \ {0} /\ c = pipe[h][1] /\ c \in Command
      /\ Tail(pipe[h]) \in Seq(Command) /\ Len(Tail(pipe[h])) = Len(pipe[h]) - 1
      /\ \A i \in 1..Len(pipe[h]) - 1 : Tail(pipe[h])[i] = pipe[h][i + 1]
  <2>1. pipe[h] \in Seq(Command) /\ pipe[h] # << >>
    BY DEF TypeOK, Execute
  <2> QED BY <2>1, Popped
<1>2. c.op \in JoinOps \cup LeaveOps /\ c.peer \in Clients
  BY <1>1, CommandFields
<1>3. UNCHANGED <<ttl, place, crashed>>
  BY DEF Execute
<1>t. /\ pipe \in [Procs -> Seq(Command)] /\ hash \subseteq Clients /\ remote \subseteq Clients
      /\ ttl \in BOOLEAN /\ index \in BOOLEAN /\ volatile \in BOOLEAN /\ crashed \in BOOLEAN
      /\ (volatile => ttl /\ hash # {}) /\ place \in [Clients -> Procs \cup {"outside", "gone"}]
      /\ failed \subseteq Command
  BY DEF TypeOK
<1>p. c.op = "expire" => ttl
  <2>1. 1 \in 1..Len(pipe[h])
    BY <1>1
  <2> QED BY <1>1, <2>1 DEF ExpireMeant
<1> HIDE DEF c
(* The end of a chain.                                                      *)
<1>4. ASSUME pipe' = [pipe EXCEPT ![h] = Tail(pipe[h])]
      PROVE  /\ pipe' \in [Procs -> Seq(Command)]
             /\ \A g \in Procs \ {h} : pipe'[g] = pipe[g]
             /\ \A i \in 1..Len(pipe[h]) - 1 : pipe'[h][i] = pipe[h][i + 1]
             /\ Len(pipe'[h]) = Len(pipe[h]) - 1
  <2>1. pipe' \in [Procs -> Seq(Command)] /\ pipe'[h] = Tail(pipe[h])
        /\ \A g \in Procs \ {h} : pipe'[g] = pipe[g]
    BY <1>1, <1>4, <1>t
  <2> QED BY <1>1, <2>1
<1>r. ASSUME IsRejected(h, Tail(pipe[h]))
      PROVE  /\ pipe' = [pipe EXCEPT ![h] = Tail(pipe[h])]
             /\ failed' = failed \cup {c} /\ failed' \subseteq Command /\ c \in failed'
  BY <1>1, <1>r, <1>t DEF IsRejected, c
(* Its next command.                                                        *)
<1>5. ASSUME NEW next \in JoinOps \cup LeaveOps, Then(h, Tail(pipe[h]), next, c.peer)
      PROVE  /\ pipe' \in [Procs -> Seq(Command)]
             /\ \A g \in Procs \ {h} : pipe'[g] = pipe[g]
             /\ \A i \in 1..Len(pipe[h]) - 1 : pipe'[h][i] = pipe[h][i + 1]
             /\ \/ /\ Len(pipe'[h]) = Len(pipe[h])
                   /\ pipe'[h][Len(pipe[h])].peer = c.peer /\ pipe'[h][Len(pipe[h])].op = next
                   /\ failed' = failed
                \/ /\ Len(pipe'[h]) = Len(pipe[h]) - 1
                   /\ failed' = failed \cup {c} /\ failed' \subseteq Command /\ c \in failed'
  <2> DEFINE x == [op |-> next, peer |-> c.peer]
  <2>r. CASE IsRejected(h, Tail(pipe[h]))
    BY <1>4, <1>r, <2>r
  <2>n. CASE pipe' = [pipe EXCEPT ![h] = Append(Tail(pipe[h]), x)] /\ failed' = failed
    <3>1. x \in Command /\ x.peer = c.peer /\ x.op = next
      BY <1>2 DEF Command
    <3> HIDE DEF x
    <3>2. /\ Append(Tail(pipe[h]), x) \in Seq(Command)
          /\ Len(Append(Tail(pipe[h]), x)) = Len(pipe[h])
          /\ \A i \in 1..Len(pipe[h]) - 1 : Append(Tail(pipe[h]), x)[i] = pipe[h][i + 1]
          /\ Append(Tail(pipe[h]), x)[Len(pipe[h])] = x
      <4>1. pipe[h] \in Seq(Command) /\ pipe[h] # << >>
        BY DEF TypeOK, Execute
      <4> QED BY <3>1, <4>1, Continued
    <3>3. pipe' \in [Procs -> Seq(Command)] /\ pipe'[h] = Append(Tail(pipe[h]), x)
          /\ \A g \in Procs \ {h} : pipe'[g] = pipe[g]
      BY <1>t, <2>n, <3>2
    <3> QED BY <2>n, <3>1, <3>2, <3>3
  <2> QED BY <1>5, <2>n, <2>r DEF Then
(* What a rejected command may leave as it was.                             *)
<1>x. CASE IsRejected(h, Tail(pipe[h])) /\ UNCHANGED <<registry, remote>>
  <2>1. UNCHANGED <<hash, volatile, index, remote>>
    BY <1>x DEF registry
  <2>2. TypeOK'
    BY <1>3, <1>4, <1>r, <1>t, <1>x, <2>1 DEF TypeOK
  <2>3. failed \subseteq failed' /\ pipe[h][1] \in failed'
    BY <1>1, <1>r, <1>x
  <2> QED BY <1>1, <1>3, <1>4, <1>r, <1>x, <2>1, <2>2, <2>3
<1>y. CASE ~ (IsRejected(h, Tail(pipe[h])) /\ UNCHANGED <<registry, remote>>)
  <2>a. /\ c.op = "hSet" => HSet(h, c.peer, Tail(pipe[h]))
        /\ c.op = "sAdd" => SAdd(h, c.peer, Tail(pipe[h]))
        /\ c.op = "expire" => SetExpiry(h, c.peer, Tail(pipe[h]))
        /\ c.op = "hDel" => HDel(h, c.peer, Tail(pipe[h]))
        /\ c.op = "hLen" => HLen(h, c.peer, Tail(pipe[h]))
        /\ c.op = "del" => Del(h, c.peer, Tail(pipe[h]))
        /\ c.op = "sRem" => SRem(h, c.peer, Tail(pipe[h]))
        /\ c.op = "joined" => Announce(h, remote \cup {c.peer}, Tail(pipe[h]))
        /\ c.op = "left" => Announce(h, remote \ {c.peer}, Tail(pipe[h]))
    BY <1>y DEF Execute, c
(* The chain.                                                               *)
  <2>6. CASE c.op \in {"joined", "left"}
    <3>1. /\ pipe' = [pipe EXCEPT ![h] = Tail(pipe[h])]
          /\ UNCHANGED <<hash, volatile, index, failed>>
          /\ remote' = IF c.op = "joined" THEN remote \cup {c.peer} ELSE remote \ {c.peer}
      BY <2>6, <2>a DEF Announce, End
    <3>2. TypeOK'
      BY <1>2, <1>3, <1>4, <1>t, <3>1 DEF TypeOK
    <3> QED BY <1>1, <1>3, <1>4, <2>6, <3>1, <3>2
  <2>7. CASE c.op \notin {"joined", "left"}
    <3>1. PICK next \in JoinOps \cup LeaveOps :
            Then(h, Tail(pipe[h]), next, c.peer) /\ ChainGoesOn(c.op, next)
      <4>1. /\ c.op = "hSet" => Then(h, Tail(pipe[h]), "sAdd", c.peer)
            /\ c.op = "sAdd" => Then(h, Tail(pipe[h]), IF ttl THEN "expire" ELSE "joined", c.peer)
            /\ c.op = "expire" => Then(h, Tail(pipe[h]), "joined", c.peer)
            /\ c.op = "hDel" => Then(h, Tail(pipe[h]), "hLen", c.peer)
            /\ c.op = "hLen" => Then(h, Tail(pipe[h]), IF hash = {} THEN "del" ELSE "left", c.peer)
            /\ c.op = "del" => Then(h, Tail(pipe[h]), "sRem", c.peer)
            /\ c.op = "sRem" => Then(h, Tail(pipe[h]), "left", c.peer)
        BY <2>a DEF HSet, SAdd, SetExpiry, HDel, HLen, Del, SRem
      <4>2. {"sAdd", "expire", "joined", "hLen", "del", "left", "sRem"} \subseteq JoinOps \cup LeaveOps
        BY DEF JoinOps, LeaveOps
      <4>3. c.op \in {"hSet", "sAdd", "expire", "hDel", "hLen", "del", "sRem"}
        BY <1>2, <2>7 DEF JoinOps, LeaveOps
      <4>4. CASE c.op = "hSet"
        BY <4>1, <4>2, <4>4, StepsOrdered
      <4>5. CASE c.op = "sAdd"
        <5>1. CASE ttl
          BY <4>1, <4>2, <4>5, <5>1, StepsOrdered
        <5>2. CASE ~ttl
          BY <4>1, <4>2, <4>5, <5>2, StepsOrdered
        <5> QED BY <5>1, <5>2
      <4>6. CASE c.op \in {"expire", "hDel", "del", "sRem"}
        BY <4>1, <4>2, <4>6, StepsOrdered
      <4>7. CASE c.op = "hLen"
        <5>1. CASE hash = {}
          BY <4>1, <4>2, <4>7, <5>1, StepsOrdered
        <5>2. CASE hash # {}
          BY <4>1, <4>2, <4>7, <5>2, StepsOrdered
        <5> QED BY <5>1, <5>2
      <4> QED BY <4>3, <4>4, <4>5, <4>6, <4>7
    <3>2. /\ c.op = "hSet" => hash' = hash \cup {c.peer}
          /\ c.op = "hDel" => hash' = hash \ {c.peer}
          /\ c.op # "hSet" => hash' \subseteq hash
          /\ remote' = remote
      BY <1>2, <2>7, <2>a DEF HSet, SAdd, SetExpiry, HDel, HLen, Del, SRem, JoinOps, LeaveOps
    <3>3. /\ hash' \subseteq Clients /\ index' \in BOOLEAN /\ volatile' \in BOOLEAN
          /\ volatile' => ttl /\ hash' # {}
      <4>1. hash' \subseteq Clients
        BY <1>2, <1>t, <3>2
      <4>2. index' = TRUE \/ index' = FALSE \/ index' = index
        BY <1>2, <2>7, <2>a DEF HSet, SAdd, SetExpiry, HDel, HLen, Del, SRem, JoinOps, LeaveOps
      <4>3. CASE c.op = "hSet"
        <5>1. volatile' = volatile /\ hash' # {}
          BY <2>a, <3>2, <4>3 DEF HSet
        <5> QED BY <1>t, <4>1, <4>2, <5>1
      <4>4. CASE c.op \in {"sAdd", "hLen", "sRem"}
        <5>1. volatile' = volatile /\ hash' = hash
          BY <2>a, <4>4 DEF SAdd, HLen, SRem
        <5> QED BY <1>t, <4>1, <4>2, <5>1
      <4>5. CASE c.op = "expire"
        <5>1. volatile' = (hash # {}) /\ hash' = hash
          BY <2>a, <4>5 DEF SetExpiry
        <5>2. volatile' \in BOOLEAN /\ (volatile' => hash # {})
          BY <5>1
        <5> QED BY <1>p, <1>t, <4>1, <4>2, <4>5, <5>1, <5>2
      <4>6. CASE c.op = "hDel"
        <5>1. volatile' = (volatile /\ hash' # {})
          BY <2>a, <4>6 DEF HDel
        <5>2. volatile' \in BOOLEAN /\ (volatile' => volatile /\ hash' # {})
          BY <5>1
        <5> QED BY <1>t, <4>1, <4>2, <5>2
      <4>7. CASE c.op = "del"
        <5>1. volatile' = FALSE
          BY <2>a, <4>7 DEF Del
        <5> QED BY <1>t, <4>1, <4>2, <5>1
      <4> QED BY <1>2, <2>7, <4>3, <4>4, <4>5, <4>6, <4>7 DEF JoinOps, LeaveOps
    <3>4. TypeOK'
      BY <1>3, <1>5, <1>t, <3>1, <3>2, <3>3 DEF TypeOK
    <3> QED BY <1>1, <1>3, <1>5, <2>7, <3>1, <3>2, <3>4
  <2> QED BY <2>6, <2>7
<1> QED BY <1>x, <1>y

LEMMA RegistryExecuteStep ==
  ASSUME RegistryInv, NEW h \in Procs, Execute(h)
  PROVE  RegistryInv'
<1> USE PlacesAssumption
<1> DEFINE L == Len(pipe[h])
           c == pipe[h][1]
<1>1. /\ TypeOK /\ ExpireMeant
      /\ ~crashed => CommandsPlaced /\ OneHome /\ SetsAhead /\ HashFits
      /\ ~crashed /\ ~ttl => NoOvertaking /\ RemoteFits
  BY DEF RegistryInv
<1>2. /\ L \in Nat \ {0} /\ c \in Command
      /\ \A g \in Procs \ {h} : pipe'[g] = pipe[g]
      /\ TypeOK'
      /\ \A i \in 1..L - 1 : pipe'[h][i] = pipe[h][i + 1]
      /\ \/ Len(pipe'[h]) = L /\ ChainGoesOn(c.op, pipe'[h][L].op) /\ pipe'[h][L].peer = c.peer
         \/ Len(pipe'[h]) = L - 1 /\ (c.op \in {"joined", "left"} \/ c \in failed')
      /\ hash' \subseteq hash \cup {c.peer}
      /\ c.op = "hDel" => hash' = hash \ {c.peer} \/ c \in failed'
      /\ c.op # "hSet" => hash' \subseteq hash
      /\ CASE c.op = "joined" -> remote' = remote \cup {c.peer} \/ (remote' = remote /\ c \in failed')
           [] c.op = "left" -> remote' = remote \ {c.peer} \/ (remote' = remote /\ c \in failed')
           [] OTHER -> remote' = remote
      /\ failed \subseteq failed'
      /\ UNCHANGED <<ttl, place, crashed>>
  BY <1>1, RegistryExecuted
<1>c. c.op \in JoinOps \cup LeaveOps /\ c.peer \in Clients
  BY <1>2, CommandFields
<1>n. \A g \in Procs : Len(pipe[g]) \in Nat /\ pipe[g] \in Seq(Command)
  BY <1>1, LenProperties DEF TypeOK
<1>o. \A g \in Procs : \A i \in 1..Len(pipe[g]) :
        pipe[g][i].op \in JoinOps \cup LeaveOps /\ pipe[g][i].peer \in Clients
  BY <1>n, ElementOfSeq, CommandFields
(* What was rejected stays so.                                              *)
<1>f. /\ \A ops, q : Failed(ops, q) => Failed(ops, q)'
      /\ \A ops, q : c.op \in ops /\ c.peer = q /\ c \in failed' => Failed(ops, q)'
  BY <1>2 DEF Failed
<1> HIDE DEF L, c
<1> DEFINE from(g, i) == IF g = h THEN i + 1 ELSE i
(* Where a command of the new pipes was, and where one of the old is.       *)
<1>3. ASSUME NEW g \in Procs, NEW i \in 1..Len(pipe'[g])
      PROVE  \/ from(g, i) \in 1..Len(pipe[g]) /\ pipe'[g][i] = pipe[g][from(g, i)]
             \/ /\ g = h /\ i = L
                /\ ChainGoesOn(c.op, pipe'[g][i].op) /\ pipe'[g][i].peer = c.peer
                /\ L = Len(pipe'[h])
  BY <1>2 DEF L
<1>4. ASSUME NEW g \in Procs, NEW i \in 1..Len(pipe[g]), ~ (g = h /\ i = 1)
      PROVE  \E j \in 1..Len(pipe'[g]) : from(g, j) = i /\ pipe'[g][j] = pipe[g][i]
  <2>1. CASE g = h
    <3>1. i - 1 \in 1..L - 1 /\ i - 1 \in 1..Len(pipe'[h]) /\ (i - 1) + 1 = i
      BY <1>2, <1>4, <2>1 DEF L
    <3> QED BY <1>2, <2>1, <3>1
  <2>2. CASE g # h
    BY <1>2, <2>2
  <2> QED BY <2>1, <2>2
<1>5. 1 \in 1..Len(pipe[h]) /\ pipe[h][1] = c
  BY <1>2 DEF L, c
<1>6. ASSUME NEW g \in Procs, NEW i \in 1..Len(pipe'[g]), NEW j \in 1..Len(pipe'[g]),
             from(g, i) < from(g, j)
      PROVE  i < j
  <2>1. i \in Int /\ j \in Int
    OBVIOUS
  <2> QED BY <1>6, <2>1
<1>7. \A g \in Procs : \A i \in 1..Len(pipe'[g]) : from(g, i) \in Nat
  OBVIOUS
(* The command a new one continues.                                         *)
<1> DEFINE of(g, i) == IF g = h /\ i = L /\ L = Len(pipe'[h]) THEN 1 ELSE from(g, i)
<1>8. ASSUME NEW g \in Procs, NEW i \in 1..Len(pipe'[g])
      PROVE  /\ of(g, i) \in 1..Len(pipe[g])
             /\ pipe'[g][i].peer = pipe[g][of(g, i)].peer
             /\ \/ pipe'[g][i] = pipe[g][of(g, i)] /\ of(g, i) = from(g, i)
                \/ /\ g = h /\ of(g, i) = 1 /\ i = L /\ L = Len(pipe'[h])
                   /\ ChainGoesOn(c.op, pipe'[g][i].op)
  <2>1. CASE g = h /\ i = L /\ L = Len(pipe'[h])
    <3>1. ~ (from(g, i) \in 1..Len(pipe[g]))
      BY <1>2, <2>1 DEF L
    <3> QED BY <1>3, <1>5, <2>1, <3>1
  <2>2. CASE ~ (g = h /\ i = L /\ L = Len(pipe'[h]))
    BY <1>3, <2>2
  <2> QED BY <2>1, <2>2
<1>9. ASSUME NEW g \in Procs, NEW i \in 1..Len(pipe'[g])
      PROVE  /\ pipe'[g][i].op \in JoinOps <=> pipe[g][of(g, i)].op \in JoinOps
             /\ pipe'[g][i].op \in LeaveOps <=> pipe[g][of(g, i)].op \in LeaveOps
             /\ pipe'[g][i].op = "hSet" =>
                  pipe'[g][i] = pipe[g][of(g, i)] /\ of(g, i) = from(g, i)
             /\ pipe'[g][i].op = "expire" => ttl
  <2>1. CASE pipe'[g][i] = pipe[g][of(g, i)] /\ of(g, i) = from(g, i)
    BY <1>1, <1>8, <2>1 DEF ExpireMeant
  <2>2. CASE g = h /\ of(g, i) = 1 /\ ChainGoesOn(c.op, pipe'[g][i].op)
    BY <1>5, <2>2 DEF ChainGoesOn, JoinOps, LeaveOps
  <2> QED BY <1>8, <2>1, <2>2
<1> HIDE DEF of, from
<1>10. ExpireMeant'
  BY <1>2, <1>9 DEF ExpireMeant
<1>11. ASSUME ~crashed PROVE CommandsPlaced'
  <2> SUFFICES ASSUME NEW g \in Procs, NEW i \in 1..Len(pipe'[g])
               PROVE  /\ place[pipe'[g][i].peer] \in {g, "gone"}
                      /\ pipe'[g][i].op \in LeaveOps => place[pipe'[g][i].peer] = "gone"
    BY <1>2 DEF CommandsPlaced
  <2>1. /\ place[pipe[g][of(g, i)].peer] \in {g, "gone"}
        /\ pipe[g][of(g, i)].op \in LeaveOps => place[pipe[g][of(g, i)].peer] = "gone"
    BY <1>1, <1>8, <1>11 DEF CommandsPlaced
  <2> QED BY <1>8, <1>9, <2>1
<1>12. ASSUME ~crashed PROVE OneHome'
  <2> SUFFICES ASSUME NEW g \in Procs, NEW k \in Procs, NEW i \in 1..Len(pipe'[g]),
                      NEW j \in 1..Len(pipe'[k]), pipe'[g][i].peer = pipe'[k][j].peer
               PROVE  g = k
    BY DEF OneHome
  <2>1. pipe[g][of(g, i)].peer = pipe[k][of(k, j)].peer
    BY <1>8
  <2>2. of(g, i) \in 1..Len(pipe[g]) /\ of(k, j) \in 1..Len(pipe[k]) /\ OneHome
    BY <1>1, <1>8, <1>12
  <2> QED BY <2>1, <2>2 DEF OneHome
<1>13. ASSUME ~crashed PROVE SetsAhead'
  <2> SUFFICES ASSUME NEW g \in Procs, NEW i \in 1..Len(pipe'[g]), NEW q,
                      pipe'[g][i].op = "hSet", pipe'[g][i].peer = q, place[q] = "gone",
                      ~Failed({"hDel"}, q)'
               PROVE  \E j \in i + 1..Len(pipe'[g]) : pipe'[g][j] = [op |-> "hDel", peer |-> q]
    BY <1>2 DEF SetsAhead, Failed
  <2>1. /\ of(g, i) \in 1..Len(pipe[g]) /\ pipe'[g][i] = pipe[g][of(g, i)]
        /\ of(g, i) = from(g, i)
    BY <1>8, <1>9
  <2>f. ~Failed({"hDel"}, q)
    BY <1>f
  <2>2. PICK k \in of(g, i) + 1..Len(pipe[g]) : pipe[g][k] = [op |-> "hDel", peer |-> q]
    BY <1>1, <1>13, <2>1, <2>f DEF SetsAhead
  <2>3. k \in 1..Len(pipe[g]) /\ k # 1 /\ of(g, i) < k
    BY <1>n, <2>1, <2>2
  <2>4. PICK j \in 1..Len(pipe'[g]) : from(g, j) = k /\ pipe'[g][j] = pipe[g][k]
    BY <1>4, <2>3
  <2>5. i < j
    BY <1>6, <2>1, <2>3, <2>4
  <2>6. j \in i + 1..Len(pipe'[g])
    BY <2>4, <2>5
  <2> QED BY <2>1, <2>2, <2>4, <2>6
<1>14. ASSUME ~crashed PROVE HashFits'
  <2> SUFFICES ASSUME NEW q \in hash'
               PROVE  /\ place[q] # "outside"
                      /\ place[q] = "gone" => Pending("hDel", q)' \/ Failed({"hDel"}, q)'
    BY <1>2 DEF HashFits, Failed
  <2>0. CASE c.op = "hDel" /\ c.peer = q
    <3>1. place[q] # "outside"
      BY <1>1, <1>5, <1>14, <2>0 DEF CommandsPlaced
    <3>2. c \in failed'
      BY <1>2, <2>0
    <3> QED BY <1>f, <2>0, <3>1, <3>2
  <2>1. CASE q \in hash /\ ~ (c.op = "hDel" /\ c.peer = q)
    <3>1. /\ place[q] # "outside"
          /\ place[q] = "gone" => Pending("hDel", q) \/ Failed({"hDel"}, q)
      BY <1>1, <1>14, <2>1 DEF HashFits
    <3>2. ASSUME Pending("hDel", q) PROVE Pending("hDel", q)'
      <4>1. PICK g \in Procs : \E i \in 1..Len(pipe[g]) : pipe[g][i] = [op |-> "hDel", peer |-> q]
        BY <3>2 DEF Pending
      <4>2. PICK i \in 1..Len(pipe[g]) : pipe[g][i] = [op |-> "hDel", peer |-> q]
        BY <4>1
      <4>3. ~ (g = h /\ i = 1)
        BY <1>5, <2>1, <4>2
      <4>4. \E j \in 1..Len(pipe'[g]) : pipe'[g][j] = [op |-> "hDel", peer |-> q]
        BY <1>4, <4>2, <4>3
      <4> QED BY <4>4 DEF Pending
    <3> QED BY <1>f, <3>1, <3>2
  <2>2. CASE c.op = "hSet" /\ c.peer = q
    <3>1. place[q] \in {h, "gone"}
      BY <1>1, <1>5, <1>14, <2>2 DEF CommandsPlaced
    <3>2. ASSUME place[q] = "gone", ~Failed({"hDel"}, q) PROVE Pending("hDel", q)'
      <4>1. PICK k \in 1 + 1..Len(pipe[h]) : pipe[h][k] = [op |-> "hDel", peer |-> q]
        BY <1>1, <1>5, <1>14, <2>2, <3>2 DEF SetsAhead
      <4>2. k \in 1..Len(pipe[h]) /\ k # 1
        BY <1>n, <4>1
      <4>3. \E j \in 1..Len(pipe'[h]) : pipe'[h][j] = [op |-> "hDel", peer |-> q]
        BY <1>4, <4>1, <4>2
      <4> QED BY <4>3 DEF Pending
    <3> QED BY <1>f, <3>1, <3>2
  <2> QED BY <1>2, <2>0, <2>1, <2>2
<1>15. ASSUME ~crashed, ~ttl PROVE NoOvertaking'
  <2> SUFFICES ASSUME NEW g \in Procs, NEW i \in 1..Len(pipe'[g]), NEW j \in 1..Len(pipe'[g]),
                      pipe'[g][i].op \in JoinOps, pipe'[g][j].op \in LeaveOps,
                      pipe'[g][i].peer = pipe'[g][j].peer
               PROVE  \/ StepsLeft[pipe'[g][i].op] < StepsLeft[pipe'[g][j].op]
                      \/ StepsLeft[pipe'[g][i].op] = StepsLeft[pipe'[g][j].op] /\ i < j
    BY DEF NoOvertaking
  <2> DEFINE a == of(g, i)
             b == of(g, j)
             r == StepsLeft[pipe'[g][i].op]
             s == StepsLeft[pipe'[g][j].op]
  <2>1. /\ a \in 1..Len(pipe[g]) /\ b \in 1..Len(pipe[g])
        /\ pipe[g][a].op \in JoinOps /\ pipe[g][b].op \in LeaveOps
        /\ pipe[g][a].peer = pipe[g][b].peer
    BY <1>8, <1>9
  <2>2. \/ StepsLeft[pipe[g][a].op] < StepsLeft[pipe[g][b].op]
        \/ StepsLeft[pipe[g][a].op] = StepsLeft[pipe[g][b].op] /\ a < b
    BY <1>1, <1>15, <2>1 DEF NoOvertaking
  <2>3. r \in Nat /\ s \in Nat
        /\ StepsLeft[pipe[g][a].op] \in Nat /\ StepsLeft[pipe[g][b].op] \in Nat
    <3>1. \A op \in JoinOps \cup LeaveOps : StepsLeft[op] \in Nat
      BY DEF StepsLeft, JoinOps, LeaveOps
    <3> QED BY <2>1, <3>1
  <2>4. \/ pipe'[g][i] = pipe[g][a] /\ a = from(g, i)
        \/ a = 1 /\ g = h /\ i = L /\ L = Len(pipe'[h]) /\ r < StepsLeft[pipe[g][a].op]
    <3>1. JoinOps \cap LeaveOps = {}
      BY DEF JoinOps, LeaveOps
    <3> QED BY <1>5, <1>8, <1>15, <2>1, <3>1 DEF ChainGoesOn
  <2>5. \/ pipe'[g][j] = pipe[g][b] /\ b = from(g, j)
        \/ b = 1 /\ g = h /\ j = L /\ L = Len(pipe'[h]) /\ StepsLeft[pipe[g][b].op] <= s + 1
    <3>1. JoinOps \cap LeaveOps = {}
      BY DEF JoinOps, LeaveOps
    <3> QED BY <1>5, <1>8, <2>1, <3>1 DEF ChainGoesOn
  <2> HIDE DEF a, b, r, s
  <2>6. CASE pipe'[g][i] = pipe[g][a] /\ a = from(g, i) /\ pipe'[g][j] = pipe[g][b] /\ b = from(g, j)
    BY <1>6, <2>2, <2>6 DEF r, s
  <2>7. CASE a = 1 /\ r < StepsLeft[pipe[g][a].op]
    <3>1. CASE pipe'[g][j] = pipe[g][b]
      <4>1. s = StepsLeft[pipe[g][b].op]
        BY <3>1 DEF s
      <4>2. r < s
        BY <2>2, <2>3, <2>7, <4>1
      <4> QED BY <4>2 DEF r, s
    <3>2. CASE b = 1
      <4>1. pipe[g][1].op \in JoinOps /\ pipe[g][1].op \in LeaveOps
        BY <2>1, <2>7, <3>2
      <4> QED BY <4>1 DEF JoinOps, LeaveOps
    <3> QED BY <2>5, <3>1, <3>2
  <2>8. CASE /\ pipe'[g][i] = pipe[g][a] /\ a = from(g, i)
             /\ b = 1 /\ g = h /\ j = L /\ L = Len(pipe'[h]) /\ StepsLeft[pipe[g][b].op] <= s + 1
    <3>1. r = StepsLeft[pipe[g][a].op] /\ ~ (a < b)
      BY <2>1, <2>8 DEF r
    <3>2. r <= s
      BY <2>2, <2>3, <2>8, <3>1
    <3>3. i # j
      <4>1. JoinOps \cap LeaveOps = {}
        BY DEF JoinOps, LeaveOps
      <4> QED BY <4>1
    <3>4. i < j
      BY <1>2, <2>8, <3>3
    <3> QED BY <2>3, <3>2, <3>4 DEF r, s
  <2> QED BY <2>4, <2>5, <2>6, <2>7, <2>8
<1>16. ASSUME ~crashed, ~ttl PROVE RemoteFits'
  <2>1. RemoteFits /\ CommandsPlaced /\ NoOvertaking /\ OneHome
    BY <1>1, <1>16
(* What comes of a peer still does, but at the end of a chain.              *)
  <2>2. ASSUME NEW ops \in {JoinOps, LeaveOps}, NEW q \in Clients, Coming(ops, q),
               ~ (c.peer = q /\ c.op \in ops /\ c.op \in {"joined", "left"})
        PROVE  Coming(ops, q)' \/ Failed(ops, q)'
    <3>1. PICK g \in Procs : \E i \in 1..Len(pipe[g]) : pipe[g][i].op \in ops /\ pipe[g][i].peer = q
      BY <2>2 DEF Coming
    <3>2. PICK i \in 1..Len(pipe[g]) : pipe[g][i].op \in ops /\ pipe[g][i].peer = q
      BY <3>1
    <3>3. CASE g = h /\ i = 1
      <4>1. c.op \in ops /\ c.peer = q /\ c.op \notin {"joined", "left"}
        BY <1>5, <2>2, <3>2, <3>3
      <4> SUFFICES ASSUME ~Failed(ops, q)' PROVE Coming(ops, q)'
        OBVIOUS
      <4>f. c \notin failed'
        BY <1>f, <4>1
      <4>2. L \in 1..Len(pipe'[h]) /\ pipe'[h][L].peer = q /\ ChainGoesOn(c.op, pipe'[h][L].op)
        BY <1>2, <4>1, <4>f
      <4>3. pipe'[h][L].op \in ops
        BY <4>1, <4>2 DEF ChainGoesOn, JoinOps, LeaveOps
      <4> QED BY <4>2, <4>3 DEF Coming
    <3>4. CASE ~ (g = h /\ i = 1)
      BY <1>4, <3>2, <3>4 DEF Coming
    <3> QED BY <3>3, <3>4
  <2>3. ASSUME NEW ops \in {JoinOps, LeaveOps}, NEW q \in Clients, Coming(ops, q)'
        PROVE  Coming(ops, q)
    <3>1. PICK g \in Procs :
            \E i \in 1..Len(pipe'[g]) : pipe'[g][i].op \in ops /\ pipe'[g][i].peer = q
      BY <2>3 DEF Coming
    <3>2. PICK i \in 1..Len(pipe'[g]) : pipe'[g][i].op \in ops /\ pipe'[g][i].peer = q
      BY <3>1
    <3>3. pipe[g][of(g, i)].op \in ops
      BY <1>9, <3>2
    <3> QED BY <1>8, <3>2, <3>3 DEF Coming
(* The last command of a departure finds none of the join.                  *)
  <2>4. ASSUME c.op = "left" PROVE ~Coming(JoinOps, c.peer)
    <3> SUFFICES ASSUME NEW g \in Procs, NEW i \in 1..Len(pipe[g]),
                        pipe[g][i].op \in JoinOps, pipe[g][i].peer = c.peer
                 PROVE  FALSE
      BY DEF Coming
    <3>1. g = h
      BY <1>5, <2>1 DEF OneHome
    <3>2. c.op \in LeaveOps
      BY <2>4 DEF LeaveOps
    <3>3. \/ StepsLeft[pipe[h][i].op] < StepsLeft["left"]
          \/ StepsLeft[pipe[h][i].op] = StepsLeft["left"] /\ i < 1
      BY <1>5, <2>1, <2>4, <3>1, <3>2 DEF NoOvertaking
    <3>4. StepsLeft["left"] = 1 /\ \A op \in JoinOps : StepsLeft[op] >= 1 /\ StepsLeft[op] \in Nat
      BY DEF StepsLeft, JoinOps, LeaveOps
    <3> QED BY <1>n, <3>1, <3>3, <3>4
  <2>5. place[c.peer] \in {h, "gone"} /\ (c.op = "left" => place[c.peer] = "gone")
    BY <1>5, <2>1 DEF CommandsPlaced, LeaveOps
  <2>6. /\ c.op = "joined" =>
             /\ remote' = remote \cup {c.peer} \/ (remote' = remote /\ c \in failed')
             /\ c.op \notin LeaveOps /\ c.op \in JoinOps
        /\ c.op = "left" =>
             /\ remote' = remote \ {c.peer} \/ (remote' = remote /\ c \in failed')
             /\ c.op \notin JoinOps /\ c.op \in LeaveOps
        /\ c.op \notin {"joined", "left"} => remote' = remote
    BY <1>2 DEF JoinOps, LeaveOps
  <2>7. c.op = "joined" => Coming(JoinOps, c.peer)
    BY <1>5 DEF Coming, JoinOps
  <2>8. ASSUME NEW q \in Clients
        PROVE  /\ q \in remote' => place[q] # "outside"
               /\ place[q] \in Procs => q \in remote' \/ Coming(JoinOps, q)' \/ Failed(JoinOps, q)'
               /\ place[q] = "gone" /\ (q \in remote' \/ Coming(JoinOps, q)')
                    => Coming(LeaveOps, q)' \/ Failed(LeaveOps, q)'
    <3>0. /\ q \in remote => place[q] # "outside"
          /\ place[q] \in Procs => q \in remote \/ Coming(JoinOps, q) \/ Failed(JoinOps, q)
          /\ place[q] = "gone" /\ (q \in remote \/ Coming(JoinOps, q)) =>
               Coming(LeaveOps, q) \/ Failed(LeaveOps, q)
      BY <2>1 DEF RemoteFits
    <3>1. CASE c.op = "left" /\ c.peer = q
      <4>1. place[q] = "gone" /\ ~Coming(JoinOps, q)'
        BY <2>3, <2>4, <2>5, <3>1
      <4>2. q \notin remote' \/ Failed(LeaveOps, q)'
        BY <1>f, <2>6, <3>1
      <4> QED BY <4>1, <4>2, PlacesAssumption
    <3>2. CASE c.op = "joined" /\ c.peer = q
      <4>1. (q \in remote' \/ Failed(JoinOps, q)') /\ place[q] # "outside"
        BY <1>f, <2>5, <2>6, <3>2
      <4>2. place[q] = "gone" => Coming(LeaveOps, q) \/ Failed(LeaveOps, q)
        BY <2>7, <3>0, <3>2
      <4>3. Coming(LeaveOps, q) => Coming(LeaveOps, q)' \/ Failed(LeaveOps, q)'
        BY <2>2, <2>6, <3>2
      <4> QED BY <1>f, <4>1, <4>2, <4>3
    <3>3. CASE ~ (c.op \in {"joined", "left"} /\ c.peer = q)
      <4>1. q \in remote' <=> q \in remote
        BY <2>6, <3>3
      <4>2. /\ Coming(JoinOps, q) => Coming(JoinOps, q)' \/ Failed(JoinOps, q)'
            /\ Coming(LeaveOps, q) => Coming(LeaveOps, q)' \/ Failed(LeaveOps, q)'
            /\ Coming(JoinOps, q)' => Coming(JoinOps, q)
        BY <2>2, <2>3, <3>3
      <4> QED BY <1>f, <3>0, <4>1, <4>2
    <3> QED BY <3>1, <3>2, <3>3
  <2> QED BY <1>2, <2>8 DEF RemoteFits, Failed
<1> QED BY <1>2, <1>10, <1>11, <1>12, <1>13, <1>14, <1>15, <1>16 DEF RegistryInv

LEMMA RegistryStep ==
  ASSUME RegistryInv, [Next]_vars
  PROVE  RegistryInv'
<1>1. TypeOK /\ ExpireMeant
  BY DEF RegistryInv
<1>2. ASSUME NEW h \in Procs, Crash(h) PROVE RegistryInv'
  <2>1. pipe' \in [Procs -> Seq(Command)] /\ pipe'[h] = << >>
        /\ \A g \in Procs \ {h} : pipe'[g] = pipe[g]
    <3>1. << >> \in Seq(Command)
      BY EmptySeq
    <3> QED BY <1>1, <1>2, <3>1 DEF Crash, TypeOK
  <2>2. TypeOK'
    BY <1>1, <1>2, <2>1 DEF Crash, TypeOK, registry
  <2>3. ExpireMeant'
    <3>1. Len(pipe'[h]) = 0
      BY <2>1
    <3> QED BY <1>1, <1>2, <2>1, <3>1 DEF Crash, ExpireMeant
  <2> QED BY <1>2, <2>2, <2>3 DEF Crash, RegistryInv
<1>3. CASE Expire
  <2>1. TypeOK'
    BY <1>1, <1>3 DEF Expire, TypeOK
  <2>2. UNCHANGED <<pipe, place, ttl, remote, crashed, failed>> /\ hash' = {}
    BY <1>3 DEF Expire
  <2> QED
    BY <2>1, <2>2 DEF RegistryInv, ExpireMeant, CommandsPlaced, OneHome, SetsAhead, HashFits,
                      NoOvertaking, RemoteFits, Coming, Failed
<1>4. CASE UNCHANGED vars
  <2>1. UNCHANGED <<ttl, place, pipe, hash, volatile, index, remote, crashed, failed>>
    BY <1>4 DEF vars, registry
  <2>2. TypeOK' /\ ExpireMeant'
    BY <1>1, <2>1 DEF TypeOK, ExpireMeant
  <2>3. /\ CommandsPlaced' <=> CommandsPlaced
        /\ OneHome' <=> OneHome
        /\ NoOvertaking' <=> NoOvertaking
    BY <2>1 DEF CommandsPlaced, OneHome, NoOvertaking
  <2>4. (SetsAhead' <=> SetsAhead) /\ (HashFits' <=> HashFits)
    BY <2>1 DEF SetsAhead, HashFits, Pending, Failed
  <2>5. RemoteFits' <=> RemoteFits
    BY <2>1 DEF RemoteFits, Coming, Failed
  <2> QED BY <2>1, <2>2, <2>3, <2>4, <2>5 DEF RegistryInv
<1> QED
  BY <1>2, <1>3, <1>4, RegisterStep, DeregisterStep, RegistryExecuteStep DEF Next

LEMMA RegistryInit == Init => RegistryInv
<1> SUFFICES ASSUME Init PROVE RegistryInv
  OBVIOUS
<1>1. /\ place = [p \in Clients |-> "outside"] /\ pipe = [h \in Procs |-> << >>]
      /\ hash = {} /\ remote = {} /\ failed = {} /\ ttl \in BOOLEAN
      /\ volatile = FALSE /\ index = FALSE /\ crashed = FALSE
  BY DEF Init
<1>2. \A h \in Procs : Len(pipe[h]) = 0 /\ pipe[h] \in Seq(Command)
  BY <1>1, EmptySeq
<1>3. TypeOK
  <2>1. pipe \in [Procs -> Seq(Command)]
    BY <1>1, <1>2
  <2> QED BY <1>1, <2>1 DEF TypeOK
<1>4. \A h \in Procs : 1..Len(pipe[h]) = {}
  BY <1>2
<1> QED
  BY <1>1, <1>3, <1>4, PlacesAssumption
     DEF RegistryInv, ExpireMeant, CommandsPlaced, OneHome, SetsAhead, HashFits,
         NoOvertaking, RemoteFits, Coming

LEMMA RegistryImplied == RegistryInv => RegistryHolds
<1> SUFFICES ASSUME RegistryInv PROVE RegistryHolds
  OBVIOUS
<1>1. TypeOK
  BY DEF RegistryInv
<1>2. NoGhosts
  <2> SUFFICES ASSUME ~crashed, NEW p \in hash \ Members
               PROVE  Pending("hDel", p) \/ Failed({"hDel"}, p)
    BY DEF NoGhosts
  <2>1. p \in Clients /\ place[p] \notin Procs
    BY <1>1 DEF TypeOK, Members
  <2> QED BY <1>1, <2>1 DEF RegistryInv, HashFits, TypeOK
<1>3. RemoteAgrees
  <2> SUFFICES ASSUME ~ttl, ~crashed, Quiet, NEW p \in Clients
               PROVE  /\ p \in Members \ remote => Failed(JoinOps, p)
                      /\ p \in remote \ Members => Failed(LeaveOps, p)
    BY <1>1 DEF RemoteAgrees, Members, TypeOK
  <2>1. \A h \in Procs : 1..Len(pipe[h]) = {}
    BY DEF Quiet
  <2>2. ~Coming(JoinOps, p) /\ ~Coming(LeaveOps, p)
    BY <2>1 DEF Coming
  <2>3. /\ place[p] \in Procs => p \in remote \/ Failed(JoinOps, p)
        /\ place[p] = "gone" /\ p \in remote => Failed(LeaveOps, p)
        /\ p \in remote => place[p] # "outside"
    BY <2>2 DEF RegistryInv, RemoteFits
  <2> QED BY <1>1, <2>3 DEF Members, TypeOK
<1> QED BY <1>1, <1>2, <1>3 DEF RegistryHolds

(* While no process crashes the shared hash keeps a ghost only for as long  *)
(* as its hDel is under way, or if that one was rejected; and with peerTtl  *)
(* 0 whoever follows the bus, once the commands are done, misses a member   *)
(* only if a command of its join was rejected, and keeps one that is gone   *)
(* only if one of its departure was: for any number of processes, peers and *)
(* failures, however the chains interleave (_registerPeer,                  *)
(* _deregisterPeer).                                                        *)
THEOREM RegistryAlwaysSafe == GuardsSpec => []RegistrySafe
<1> DEFINE Inv == part = "registry" => RegistryInv
<1>1. GuardsInit => Inv
  BY RegistryInit DEF GuardsInit
<1>2. Inv /\ [GuardsNext]_<<part, gates, stores, onRoom, roomVars>> => Inv'
  <2> SUFFICES ASSUME Inv, [GuardsNext]_<<part, gates, stores, onRoom, roomVars>>,
                      part' = "registry"
               PROVE  RegistryInv'
    OBVIOUS
  <2>1. CASE Next /\ part = "registry"
    BY <2>1, RegistryStep
  <2>2. CASE UNCHANGED <<part, vars>>
    BY <2>2, RegistryStep
  <2> QED
    BY <2>1, <2>2 DEF GuardsNext, stores
<1>3. Inv => RegistrySafe
  BY RegistryImplied DEF RegistrySafe
<1> QED
  BY <1>1, <1>2, <1>3, PTL DEF GuardsSpec

-----------------------------------------------------------------------------
(* Snapshots. *)

(* The commands that begin a chain write or delete the snapshot.            *)
Begins(cmd) == cmd.op \in {"hSet", "del"}
Ends(cmd) == cmd.op \in {"sRem", "del"}

SavesMeant ==
  /\ \A i \in 1..Len(line) :
       /\ line[i].op = "expire" => keepsFor
       /\ ~Ends(line[i]) => line[i].of <= made
  /\ line # << >> \/ snapshot # NONE \/ room # NONE => made > 0
  /\ phase # "serving" => line = << >> /\ (room = NONE \/ missed)
  /\ phase = "hash" => indexed

(* What the command writes is what the server has.                          *)
Agrees(cmd) ==
  IF room = NONE THEN cmd.op = "del" ELSE cmd.op = "hSet" /\ cmd.meta = room

(* The last chain has the last word, unless it is cut off: the chains go on *)
(* in the order in which they began.                                        *)
LastWord ==
  /\ \A i \in 1..Len(line) :
       Begins(line[i]) /\ (\A j \in i + 1..Len(line) : ~Begins(line[j])) => Agrees(line[i])
  /\ ~missed /\ line # << >> /\ (\A i \in 1..Len(line) : ~Begins(line[i])) =>
       /\ snapshot = room
       /\ line[Len(line)].op = IF room = NONE THEN "sRem" ELSE "sAdd"
  /\ ~missed /\ line = << >> /\ phase = "serving" =>
       /\ indexed <=> room # NONE
       /\ room # NONE => snapshot = room

Saves(cmd, op) == cmd.op = op /\ cmd.of = made

(* The deletions of the rooms before are ahead of the saves of the room.    *)
DeletionsAhead ==
  room # NONE =>
    \A i, j \in 1..Len(line) :
      /\ line[i].op = "del" /\ Saves(line[j], "hSet") => i < j
      /\ line[i].op = "sRem" /\ Saves(line[j], "sAdd") => i < j
      /\ Saves(line[j], "sAdd") => line[i].op # "del" /\ snapshot # NONE

EventsMeant ==
  /\ settled = "saved" =>
       /\ indexed /\ snapshot # NONE
       /\ \A i \in 1..Len(line) : ~Ends(line[i])
  /\ settled = "deleted" => ~indexed /\ room = NONE /\ line = << >>

SnapshotsInv ==
  /\ SnapshotsTypeOK /\ SavesMeant
  /\ ~keepsFor /\ ~late => LastWord /\ DeletionsAhead /\ EventsMeant

LEMMA SnapshotFields ==
  ASSUME NEW cmd \in Save \cup Deletion
  PROVE  /\ cmd.op \in {"hSet", "sAdd", "expire", "del", "sRem"}
         /\ ~Ends(cmd) =>
              /\ cmd \in Save /\ cmd.of \in 1..MaxRooms /\ cmd.meta \in Meta
              /\ \A op \in {"sAdd", "expire"} :
                   LET next == [cmd EXCEPT !.op = op]
                   IN next \in Save /\ next.op = op /\ next.of = cmd.of /\ next.meta = cmd.meta
BY DEF Save, Deletion, Ends

(* A chain begins: its first command is the last one of the line.           *)
LEMMA SnapshotsIssued ==
  ASSUME SnapshotsTypeOK, NEW cmd \in Save \cup Deletion, IssueSave(cmd)
  PROVE  /\ line' \in Seq(Save \cup Deletion) /\ Len(line) \in Nat /\ Len(line') = Len(line) + 1
         /\ \A i \in 1..Len(line) : line'[i] = line[i]
         /\ line'[Len(line')] = cmd /\ line' # << >> /\ missed' = FALSE
<1>1. line \in Seq(Save \cup Deletion) /\ line' = Append(line, cmd) /\ missed' = FALSE
  BY DEF SnapshotsTypeOK, IssueSave
<1>2. /\ line' \in Seq(Save \cup Deletion) /\ Len(line) \in Nat /\ Len(line') = Len(line) + 1
      /\ \A i \in 1..Len(line) : line'[i] = line[i]
      /\ line'[Len(line) + 1] = cmd
  BY <1>1, Appended
<1> QED BY <1>1, <1>2, EmptySeq

(* A change of the room or of its metadata, or a chain of a room destroyed. *)
LEMMA SnapshotsBegin ==
  ASSUME SnapshotsInv, Create \/ Destroy \/ SetMetadata \/ SetMetadataLate
  PROVE  SnapshotsInv'
<1> USE MetaAssumption, BoundAssumption
<1>1. SnapshotsTypeOK /\ SavesMeant
  BY DEF SnapshotsInv
<1>2. PICK cmd \in Save \cup Deletion :
        /\ IssueSave(cmd)
        /\ \/ /\ Create /\ cmd.op = "hSet" /\ cmd.of = made + 1 /\ room' = cmd.meta
           \/ /\ Destroy /\ cmd.op = "del"
           \/ /\ SetMetadata /\ cmd.op = "hSet" /\ cmd.of = made /\ room' = cmd.meta
           \/ /\ SetMetadataLate /\ cmd.op = "hSet" /\ cmd.of = made
  <2>1. ASSUME NEW n \in 1..MaxRooms, NEW meta \in Meta
        PROVE  /\ SetSnapshot(n, meta) \in Save \cup Deletion
               /\ SetSnapshot(n, meta).op = "hSet" /\ SetSnapshot(n, meta).of = n
               /\ SetSnapshot(n, meta).meta = meta
    BY DEF SetSnapshot, Save
  <2>2. CASE Create
    <3>1. made + 1 \in 1..MaxRooms
      BY <1>1, <2>2 DEF Create, SnapshotsTypeOK
    <3>2. PICK meta \in Meta : room' = meta /\ IssueSave(SetSnapshot(made + 1, meta))
      BY <2>2 DEF Create
    <3> QED BY <2>1, <2>2, <3>1, <3>2
  <2>3. CASE Destroy
    <3>1. [op |-> "del"] \in Save \cup Deletion /\ [op |-> "del"].op = "del"
      BY DEF Deletion
    <3> QED BY <2>3, <3>1 DEF Destroy
  <2>4. CASE SetMetadata
    <3>1. made \in 1..MaxRooms
      BY <1>1, <2>4 DEF SetMetadata, SnapshotsTypeOK, SavesMeant
    <3>2. PICK meta \in Meta : room' = meta /\ IssueSave(SetSnapshot(made, meta))
      BY <2>4 DEF SetMetadata
    <3> QED BY <2>1, <2>4, <3>1, <3>2
  <2>5. CASE SetMetadataLate
    <3>1. made \in 1..MaxRooms
      BY <1>1, <2>5 DEF SetMetadataLate, SnapshotsTypeOK
    <3>2. PICK meta \in Meta : IssueSave(SetSnapshot(made, meta))
      BY <2>5 DEF SetMetadataLate
    <3> QED BY <2>1, <2>5, <3>1, <3>2
  <2> QED BY <2>2, <2>3, <2>4, <2>5
<1>3. /\ line' \in Seq(Save \cup Deletion) /\ Len(line) \in Nat /\ Len(line') = Len(line) + 1
      /\ \A i \in 1..Len(line) : line'[i] = line[i]
      /\ line'[Len(line')] = cmd /\ line' # << >> /\ missed' \in BOOLEAN
  BY <1>1, <1>2, SnapshotsIssued
<1>4. /\ UNCHANGED <<keepsFor, snapshot, fades, indexed, phase>> /\ phase = "serving"
      /\ made' \in 1..MaxRooms /\ made <= made' /\ (~Ends(cmd) => cmd.of = made')
  BY <1>1, <1>2 DEF Create, Destroy, SetMetadata, SetMetadataLate, store, SnapshotsTypeOK,
     SavesMeant, Ends
<1>5. SnapshotsTypeOK'
  <2>1. room' \in Meta \cup {NONE} /\ settled' \in {"saved", "deleted", "no"} /\ late' \in BOOLEAN
    <3>1. cmd.op = "hSet" => cmd.meta \in Meta
      BY SnapshotFields DEF Ends
    <3> QED BY <1>1, <1>2, <3>1 DEF Create, Destroy, SetMetadata, SetMetadataLate, SnapshotsTypeOK
  <2> QED BY <1>1, <1>3, <1>4, <2>1 DEF SnapshotsTypeOK
<1>6. SavesMeant'
  <2>1. ASSUME NEW i \in 1..Len(line')
        PROVE  /\ line'[i].op = "expire" => keepsFor'
               /\ ~Ends(line'[i]) => line'[i].of <= made'
    <3>1. CASE i \in 1..Len(line)
      <4>1. line[i] \in Save \cup Deletion
        BY <1>1, <3>1, ElementOfSeq DEF SnapshotsTypeOK
      <4>2. ~Ends(line[i]) => line[i].of \in 1..MaxRooms /\ line[i].of <= made
        BY <1>1, <3>1, <4>1, SnapshotFields DEF SavesMeant
      <4>3. made \in Nat /\ made' \in Nat
        BY <1>1, <1>4 DEF SnapshotsTypeOK
      <4> QED BY <1>1, <1>3, <1>4, <3>1, <4>2, <4>3 DEF SavesMeant
    <3>2. CASE i \notin 1..Len(line)
      <4>1. i = Len(line')
        BY <1>3, <3>2
      <4> QED BY <1>2, <1>3, <1>4, <4>1
    <3> QED BY <3>1, <3>2
  <2>2. (\A i \in 1..Len(line) : ~Ends(line[i])) /\ ~Ends(cmd)
          => \A i \in 1..Len(line') : ~Ends(line'[i])
    BY <1>3
  <2> QED BY <1>4, <2>1 DEF SavesMeant, Ends
<1>7. ASSUME ~keepsFor', ~late' PROVE LastWord' /\ DeletionsAhead' /\ EventsMeant'
  <2>1. ~keepsFor /\ ~late /\ ~SetMetadataLate
    BY <1>1, <1>2, <1>4, <1>7 DEF Create, Destroy, SetMetadata, SetMetadataLate
  <2>2. LastWord /\ DeletionsAhead /\ EventsMeant
    BY <2>1 DEF SnapshotsInv
  <2>3. Begins(cmd) /\ Agrees(cmd)'
    <3>1. cmd.op = "hSet" => cmd.meta \in Meta
      BY SnapshotFields DEF Ends
    <3> QED BY <1>2, <2>1, <3>1 DEF Begins, Agrees, Destroy
  <2>4. LastWord'
    <3>1. ASSUME NEW i \in 1..Len(line'), \A j \in i + 1..Len(line') : ~Begins(line'[j])
          PROVE  i = Len(line')
      <4>1. Len(line') \notin i + 1..Len(line')
        BY <1>3, <2>3, <3>1
      <4> QED BY <1>3, <4>1
    <3>2. Len(line') \in 1..Len(line')
      BY <1>3
    <3> QED BY <1>3, <2>3, <3>1, <3>2 DEF LastWord, Begins, Agrees
  <2>5. DeletionsAhead'
    <3> SUFFICES ASSUME room' # NONE, NEW i \in 1..Len(line'), NEW j \in 1..Len(line')
                 PROVE  /\ line'[i].op = "del" /\ Saves(line[j], "hSet")' => i < j
                        /\ line'[i].op = "sRem" /\ Saves(line[j], "sAdd")' => i < j
                        /\ Saves(line[j], "sAdd")' => line'[i].op # "del" /\ snapshot' # NONE
      BY DEF DeletionsAhead, Saves
    <3>1. ~Destroy /\ cmd.op = "hSet"
      BY <1>2, <2>1 DEF Destroy
    <3>2. CASE j = Len(line')
      <4>1. line'[j] = cmd /\ (line'[i].op # "hSet" => i # j)
        BY <1>3, <3>1, <3>2
      <4> QED BY <1>3, <3>1, <3>2, <4>1 DEF Saves
    <3>3. CASE j # Len(line')
      <4>1. j \in 1..Len(line) /\ line'[j] = line[j] /\ line[j] \in Save \cup Deletion
        BY <1>1, <1>3, <3>3, ElementOfSeq DEF SnapshotsTypeOK
      <4>2. CASE Create
        <5>1. Saves(line[j], "hSet")' \/ Saves(line[j], "sAdd")' => line[j].of = made + 1 /\ ~Ends(line[j])
          BY <4>1, <4>2 DEF Saves, Create, Ends
        <5>2. line[j].of = made + 1 /\ ~Ends(line[j]) => FALSE
          BY <1>1, <4>1 DEF SavesMeant, SnapshotsTypeOK
        <5> QED BY <5>1, <5>2
      <4>3. CASE SetMetadata
        <5>1. made' = made /\ room # NONE
          BY <4>3 DEF SetMetadata
        <5>2. CASE i = Len(line')
          <6>1. line'[i].op = "hSet"
            BY <1>3, <3>1, <5>2
          <6>2. Saves(line[j], "sAdd") => snapshot # NONE
            BY <2>2, <4>1, <5>1 DEF DeletionsAhead
          <6> QED BY <1>4, <4>1, <5>1, <6>1, <6>2 DEF Saves
        <5>3. CASE i # Len(line')
          <6>1. i \in 1..Len(line) /\ line'[i] = line[i]
            BY <1>3, <5>3
          <6> QED BY <1>4, <2>2, <4>1, <5>1, <6>1 DEF DeletionsAhead, Saves
        <5> QED BY <5>2, <5>3
      <4> QED BY <1>2, <2>1, <3>1, <4>2, <4>3
    <3> QED BY <3>2, <3>3
  <2>6. EventsMeant'
    <3>1. CASE Create \/ Destroy
      BY <3>1 DEF Create, Destroy, EventsMeant
    <3>2. CASE SetMetadata
      <4>1. room # NONE /\ room' # NONE /\ settled' = settled /\ cmd.op = "hSet"
        <5>1. cmd.op = "hSet" => cmd.meta \in Meta
          BY SnapshotFields DEF Ends
        <5>2. \E meta \in Meta : room' = meta
          BY <3>2 DEF SetMetadata
        <5>3. cmd.op = "hSet"
          BY <1>2, <3>2 DEF SetMetadata, SetMetadataLate, Destroy
        <5> QED BY <3>2, <5>2, <5>3 DEF SetMetadata
      <4>2. ASSUME settled = "saved", NEW i \in 1..Len(line') PROVE ~Ends(line'[i])
        <5>1. CASE i = Len(line')
          BY <1>3, <4>1, <5>1 DEF Ends
        <5>2. CASE i # Len(line')
          BY <1>3, <2>2, <4>2, <5>2, SMTT(40) DEF EventsMeant
        <5> QED BY <5>1, <5>2
      <4> QED BY <1>4, <2>2, <4>1, <4>2 DEF EventsMeant, Ends
    <3> QED BY <1>2, <2>1, <3>1, <3>2
  <2> QED BY <2>4, <2>5, <2>6
<1> QED BY <1>5, <1>6, <1>7 DEF SnapshotsInv

(* Redis executes the first command; the others move up, and next is what   *)
(* its chain issues.                                                        *)
LEMMA SnapshotsMoved ==
  ASSUME SnapshotsTypeOK, ExecuteSave, ~ (CutOff(Tail(line)) /\ UNCHANGED <<store, settled>>)
  PROVE  LET cmd == line[1]
         IN /\ Len(line) \in Nat \ {0} /\ cmd \in Save \cup Deletion
            /\ line' \in Seq(Save \cup Deletion)
            /\ \A i \in 1..Len(line) - 1 : i \in 1..Len(line') /\ line'[i] = line[i + 1]
            /\ Len(line') = Len(line) - 1 \/ Len(line') = Len(line)
            /\ Len(line') = Len(line) =>
                 cmd.op \in {"hSet", "del"} \/ (cmd.op = "sAdd" /\ keepsFor)
            /\ cmd.op \in {"hSet", "del"} => Len(line') = Len(line) \/ missed' = TRUE
            /\ missed' = missed \/ missed' = TRUE
            /\ Len(line') = Len(line) =>
                 line'[Len(line)] = IF cmd.op = "del" THEN [op |-> "sRem"]
                                    ELSE [cmd EXCEPT !.op = IF cmd.op = "hSet" THEN "sAdd"
                                                            ELSE "expire"]
            /\ \/ cmd.op = "hSet" /\ ToIndex(cmd, Tail(line))
               \/ cmd.op = "sAdd" /\ Indexed(cmd, Tail(line))
               \/ cmd.op = "expire" /\ ExpireSnapshot(cmd, Tail(line))
               \/ cmd.op = "del" /\ Delete(Tail(line))
               \/ cmd.op = "sRem" /\ Unindex(Tail(line))
            /\ Tail(line) = << >> <=> Len(line) = 1
<1> DEFINE cmd == line[1]
           behind == Tail(line)
<1>1. line \in Seq(Save \cup Deletion) /\ line # << >>
  BY DEF SnapshotsTypeOK, ExecuteSave
<1>2. /\ Len(line) \in Nat \ {0} /\ Head(line) = cmd /\ cmd \in Save \cup Deletion
      /\ behind \in Seq(Save \cup Deletion) /\ Len(behind) = Len(line) - 1
      /\ \A i \in 1..Len(line) - 1 : behind[i] = line[i + 1]
  BY <1>1, Popped
<1>3. \/ cmd.op = "hSet" /\ ToIndex(cmd, behind)
      \/ cmd.op = "sAdd" /\ Indexed(cmd, behind)
      \/ cmd.op = "expire" /\ ExpireSnapshot(cmd, behind)
      \/ cmd.op = "del" /\ Delete(behind)
      \/ cmd.op = "sRem" /\ Unindex(behind)
  <2>1. \/ Head(line).op = "hSet" /\ ToIndex(Head(line), behind)
        \/ Head(line).op = "sAdd" /\ Indexed(Head(line), behind)
        \/ Head(line).op = "expire" /\ ExpireSnapshot(Head(line), behind)
        \/ Head(line).op = "del" /\ Delete(behind)
        \/ Head(line).op = "sRem" /\ Unindex(behind)
    BY Zenon DEF ExecuteSave
  <2> QED BY <1>2, <2>1
<1> HIDE DEF behind
<1>g. \A x : GoesOn(x, behind) =>
        \/ line' = Append(behind, x) /\ missed' = missed
        \/ line' = behind /\ missed' = TRUE
  BY DEF GoesOn, CutOff
<1>s. Settle(cmd, behind) \/ Unindex(behind) =>
        line' = behind /\ (missed' = missed \/ missed' = TRUE)
  BY DEF Settle, Unindex, CutOff
<1>m. missed' = missed \/ missed' = TRUE
  BY <1>3, <1>g, <1>s DEF ToIndex, Indexed, ExpireSnapshot, Delete
<1>4. behind = << >> <=> Len(line) = 1
  <2>1. behind = << >> <=> Len(behind) = 0
    BY <1>2, EmptySeq
  <2> QED BY <1>2, <2>1
<1>5. ASSUME NEW x \in Save \cup Deletion, line' = Append(behind, x)
      PROVE  /\ line' \in Seq(Save \cup Deletion) /\ Len(line') = Len(line)
             /\ \A i \in 1..Len(line) - 1 : i \in 1..Len(line') /\ line'[i] = line[i + 1]
             /\ line'[Len(line)] = x
  <2>1. /\ Append(behind, x) \in Seq(Save \cup Deletion) /\ Len(Append(behind, x)) = Len(line)
        /\ \A i \in 1..Len(line) - 1 : Append(behind, x)[i] = line[i + 1]
        /\ Append(behind, x)[Len(line)] = x
    BY <1>1, Continued DEF behind
  <2> QED BY <1>2, <1>5, <2>1
<1>6. ASSUME line' = behind
      PROVE  /\ line' \in Seq(Save \cup Deletion) /\ Len(line') = Len(line) - 1
             /\ \A i \in 1..Len(line) - 1 : i \in 1..Len(line') /\ line'[i] = line[i + 1]
  BY <1>2, <1>6, SMTT(40)
<1>7. CASE line' # behind /\ (cmd.op = "hSet" \/ (cmd.op = "sAdd" /\ keepsFor))
  <2> DEFINE op == IF cmd.op = "hSet" THEN "sAdd" ELSE "expire"
             next == [cmd EXCEPT !.op = op]
  <2>1. op \in {"sAdd", "expire"} /\ ~Ends(cmd)
    BY <1>7 DEF Ends
  <2>2. next \in Save \cup Deletion
    BY <1>2, <2>1, SnapshotFields
  <2>3. line' = Append(behind, next)
    BY <1>3, <1>7, <1>g, <1>s DEF ToIndex, Indexed
  <2> HIDE DEF op, next
  <2>4. /\ line' \in Seq(Save \cup Deletion) /\ Len(line') = Len(line)
        /\ \A i \in 1..Len(line) - 1 : i \in 1..Len(line') /\ line'[i] = line[i + 1]
        /\ line'[Len(line)] = next
    BY <1>5, <2>2, <2>3, SMTT(40)
  <2> QED BY <1>2, <1>3, <1>4, <1>7, <1>m, <2>4 DEF op, next, behind
<1>8. CASE line' # behind /\ cmd.op = "del"
  <2>1. [op |-> "sRem"] \in Save \cup Deletion
    BY DEF Deletion
  <2>2. line' = Append(behind, [op |-> "sRem"])
    BY <1>3, <1>8, <1>g DEF Delete
  <2> QED BY <1>2, <1>3, <1>4, <1>5, <1>8, <1>m, <2>1, <2>2 DEF behind
<1>9. CASE line' = behind
  <2>1. cmd.op \in {"hSet", "del"} => missed' = TRUE
    <3>1. ASSUME NEW x \in Save \cup Deletion PROVE Append(behind, x) # behind
      <4>1. Len(Append(behind, x)) = Len(behind) + 1 /\ Len(behind) \in Nat
        BY <1>2, Appended
      <4> QED BY <4>1
    <3>2. CASE cmd.op = "hSet"
      <4>1. [cmd EXCEPT !.op = "sAdd"] \in Save \cup Deletion
        BY <1>2, <3>2, SnapshotFields DEF Ends
      <4>2. GoesOn([cmd EXCEPT !.op = "sAdd"], behind)
        BY <1>3, <3>2 DEF ToIndex
      <4> QED BY <1>9, <1>g, <3>1, <4>1, <4>2
    <3>3. CASE cmd.op = "del"
      <4>1. [op |-> "sRem"] \in Save \cup Deletion
        BY DEF Deletion
      <4>2. GoesOn([op |-> "sRem"], behind)
        BY <1>3, <3>3 DEF Delete
      <4> QED BY <1>9, <1>g, <3>1, <4>1, <4>2
    <3> QED BY <3>2, <3>3
  <2>2. /\ line' \in Seq(Save \cup Deletion) /\ Len(line') = Len(line) - 1
        /\ \A i \in 1..Len(line) - 1 : i \in 1..Len(line') /\ line'[i] = line[i + 1]
        /\ ~(Len(line') = Len(line))
    <3>1. Len(line) \in Nat
      BY <1>2
    <3>2. Len(line) - 1 # Len(line)
      BY <3>1
    <3> QED BY <1>6, <1>9, <3>2
  <2> QED BY <1>2, <1>3, <1>4, <1>m, <2>1, <2>2 DEF behind
<1>e. line' # behind => cmd.op \in {"hSet", "del"} \/ (cmd.op = "sAdd" /\ keepsFor)
  BY <1>3, <1>s DEF Indexed, ExpireSnapshot
<1> QED BY <1>7, <1>8, <1>9, <1>e

(* A command that is rejected and does nothing: the others move up.         *)
LEMMA SnapshotsRefused ==
  ASSUME SnapshotsInv, ExecuteSave, CutOff(Tail(line)), UNCHANGED <<store, settled>>
  PROVE  SnapshotsInv'
<1>1. /\ SnapshotsTypeOK /\ SavesMeant /\ line # << >> /\ line' = Tail(line) /\ missed' = TRUE
      /\ UNCHANGED <<keepsFor, room, made, late, phase, snapshot, fades, indexed, settled>>
  BY DEF SnapshotsInv, ExecuteSave, CutOff, server, store
<1>2. /\ Len(line) \in Nat \ {0} /\ line' \in Seq(Save \cup Deletion) /\ Len(line') = Len(line) - 1
      /\ \A i \in 1..Len(line) - 1 : line'[i] = line[i + 1]
  <2>1. line \in Seq(Save \cup Deletion)
    BY <1>1 DEF SnapshotsTypeOK
  <2> QED BY <1>1, <2>1, Popped
<1>3. \A i \in 1..Len(line') : line'[i] = line[i + 1] /\ i + 1 \in 1..Len(line)
  BY <1>2
<1>4. SnapshotsTypeOK'
  BY <1>1, <1>2 DEF SnapshotsTypeOK
<1>5. SavesMeant'
  <2>1. phase = "serving" /\ made > 0
    BY <1>1 DEF SavesMeant
  <2> QED BY <1>1, <1>3, <2>1 DEF SavesMeant, Ends
<1>6. ASSUME ~keepsFor, ~late PROVE LastWord' /\ DeletionsAhead' /\ EventsMeant'
  <2>1. LastWord /\ DeletionsAhead /\ EventsMeant
    BY <1>6 DEF SnapshotsInv
  <2>2. LastWord'
    <3> SUFFICES ASSUME NEW i \in 1..Len(line'), Begins(line'[i]),
                        \A j \in i + 1..Len(line') : ~Begins(line'[j])
                 PROVE  Agrees(line[i + 1])
      BY <1>1, <1>3 DEF LastWord, Begins, Agrees
    <3>1. ASSUME NEW j \in (i + 1) + 1..Len(line) PROVE ~Begins(line[j])
      <4>1. j - 1 \in i + 1..Len(line') /\ j - 1 \in 1..Len(line') /\ (j - 1) + 1 = j
        BY <1>2, <3>1
      <4> QED BY <1>3, <4>1
    <3> QED BY <1>3, <2>1, <3>1 DEF LastWord
  <2>3. DeletionsAhead'
    <3> SUFFICES ASSUME room # NONE, NEW i \in 1..Len(line'), NEW j \in 1..Len(line')
                 PROVE  /\ line'[i].op = "del" /\ Saves(line[j], "hSet")' => i < j
                        /\ line'[i].op = "sRem" /\ Saves(line[j], "sAdd")' => i < j
                        /\ Saves(line[j], "sAdd")' => line'[i].op # "del" /\ snapshot' # NONE
      BY <1>1 DEF DeletionsAhead, Saves
    <3>1. /\ line'[i] = line[i + 1] /\ i + 1 \in 1..Len(line)
          /\ line'[j] = line[j + 1] /\ j + 1 \in 1..Len(line)
          /\ i + 1 < j + 1 <=> i < j
      BY <1>3
    <3>2. /\ line[i + 1].op = "del" /\ Saves(line[j + 1], "hSet") => i < j
          /\ line[i + 1].op = "sRem" /\ Saves(line[j + 1], "sAdd") => i < j
          /\ Saves(line[j + 1], "sAdd") => line[i + 1].op # "del" /\ snapshot # NONE
      BY <2>1, <3>1 DEF DeletionsAhead
    <3> QED BY <1>1, <3>1, <3>2 DEF Saves
  <2>4. EventsMeant'
    <3>1. settled # "deleted"
      BY <1>1, <2>1 DEF EventsMeant
    <3> QED BY <1>1, <1>3, <2>1, <3>1 DEF EventsMeant, Ends
  <2> QED BY <2>2, <2>3, <2>4
<1> QED BY <1>1, <1>4, <1>5, <1>6 DEF SnapshotsInv

LEMMA SnapshotsExecuted ==
  ASSUME SnapshotsInv, ExecuteSave, ~ (CutOff(Tail(line)) /\ UNCHANGED <<store, settled>>)
  PROVE  SnapshotsInv'
<1> USE MetaAssumption, BoundAssumption
<1> DEFINE cmd == line[1]
           n == Len(line)
<1>1. SnapshotsTypeOK /\ SavesMeant /\ UNCHANGED <<keepsFor, room, made, late, phase>>
  BY DEF SnapshotsInv, ExecuteSave, server
<1>2. /\ n \in Nat \ {0} /\ cmd \in Save \cup Deletion
      /\ line' \in Seq(Save \cup Deletion)
      /\ \A i \in 1..n - 1 : i \in 1..Len(line') /\ line'[i] = line[i + 1]
      /\ Len(line') = n - 1 \/ Len(line') = n
      /\ Len(line') = n => cmd.op \in {"hSet", "del"} \/ (cmd.op = "sAdd" /\ keepsFor)
      /\ cmd.op \in {"hSet", "del"} => Len(line') = n \/ missed' = TRUE
      /\ missed' = missed \/ missed' = TRUE
      /\ Len(line') = n => line'[n] = IF cmd.op = "del" THEN [op |-> "sRem"]
                                ELSE [cmd EXCEPT !.op = IF cmd.op = "hSet" THEN "sAdd" ELSE "expire"]
      /\ Tail(line) = << >> <=> n = 1
  BY <1>1, SnapshotsMoved
<1>3. \/ cmd.op = "hSet" /\ ToIndex(cmd, Tail(line))
      \/ cmd.op = "sAdd" /\ Indexed(cmd, Tail(line))
      \/ cmd.op = "expire" /\ ExpireSnapshot(cmd, Tail(line))
      \/ cmd.op = "del" /\ Delete(Tail(line))
      \/ cmd.op = "sRem" /\ Unindex(Tail(line))
  BY <1>1, SnapshotsMoved
<1>4. ASSUME Len(line') = n
      PROVE  /\ cmd.op = "del" => line'[n].op = "sRem"
             /\ cmd.op # "del" =>
                  /\ line'[n].op = IF cmd.op = "hSet" THEN "sAdd" ELSE "expire"
                  /\ line'[n].of = cmd.of /\ line'[n].meta = cmd.meta
  <2>1. ASSUME cmd.op = "del" PROVE line'[n].op = "sRem"
    <3>1. line'[n] = [op |-> "sRem"]
      BY <1>2, <1>4, <2>1
    <3> QED BY <3>1
  <2>2. ASSUME cmd.op # "del"
        PROVE  /\ line'[n].op = IF cmd.op = "hSet" THEN "sAdd" ELSE "expire"
               /\ line'[n].of = cmd.of /\ line'[n].meta = cmd.meta
    <3> DEFINE op == IF cmd.op = "hSet" THEN "sAdd" ELSE "expire"
    <3>1. cmd.op \in {"hSet", "sAdd"}
      BY <1>2, <1>4, <2>2
    <3>2. ~Ends(cmd) /\ op \in {"sAdd", "expire"}
      BY <3>1 DEF Ends
    <3>3. line'[n] = [cmd EXCEPT !.op = op]
      BY <1>2, <1>4, <2>2
    <3> HIDE DEF op
    <3>4. line'[n].op = op /\ line'[n].of = cmd.of /\ line'[n].meta = cmd.meta
      BY <1>2, <3>2, <3>3, SnapshotFields
    <3> QED BY <3>4 DEF op
  <2> QED BY <2>1, <2>2
<1>5. ~Ends(cmd) => cmd.of \in 1..MaxRooms /\ cmd.of <= made /\ cmd.meta \in Meta
  <2>1. ~Ends(cmd) => cmd.of \in 1..MaxRooms /\ cmd.meta \in Meta
    BY <1>2, SnapshotFields
  <2>2. 1 \in 1..Len(line)
    BY <1>2
  <2>3. ~Ends(line[1]) => line[1].of <= made
    BY <1>1, <2>2 DEF SavesMeant
  <2> QED BY <2>1, <2>3
<1>6. \A i \in 1..n : line[i] \in Save \cup Deletion
  BY <1>1, ElementOfSeq DEF SnapshotsTypeOK
<1> HIDE DEF cmd, n
<1>c. n = Len(line) /\ cmd = line[1] /\ 1 \in 1..n /\ \A i \in 1..n - 1 : i + 1 \in 1..n
  BY <1>2 DEF cmd, n
<1>7. SnapshotsTypeOK'
  <2>1. /\ snapshot' \in Meta \cup {NONE} /\ indexed' \in BOOLEAN /\ settled' \in {"saved", "deleted", "no"}
    BY <1>1, <1>3, <1>5 DEF SnapshotsTypeOK, ToIndex, Indexed, ExpireSnapshot, Settle, Delete,
       Unindex, Ends
  <2>2. fades' \in BOOLEAN /\ (fades' => keepsFor /\ snapshot' # NONE)
    <3>1. CASE cmd.op = "hSet"
      BY <1>1, <1>3, <1>5, <3>1 DEF SnapshotsTypeOK, ToIndex, Ends
    <3>2. CASE cmd.op = "sAdd"
      BY <1>1, <1>3, <3>2 DEF SnapshotsTypeOK, Indexed
    <3>3. CASE cmd.op = "expire"
      <4>1. fades' = (snapshot # NONE) /\ snapshot' = snapshot
        BY <1>3, <3>3 DEF ExpireSnapshot
      <4>2. fades' \in BOOLEAN /\ (fades' => snapshot' # NONE)
        BY <4>1
      <4>3. keepsFor
        BY <1>1, <1>c, <3>3 DEF SavesMeant
      <4> QED BY <4>2, <4>3
    <3>4. CASE cmd.op = "del"
      BY <1>3, <3>4 DEF Delete
    <3>5. CASE cmd.op = "sRem"
      BY <1>1, <1>3, <3>5 DEF SnapshotsTypeOK, Unindex
    <3> QED BY <1>3, <3>1, <3>2, <3>3, <3>4, <3>5
  <2> QED BY <1>1, <1>2, <2>1, <2>2 DEF SnapshotsTypeOK
<1>8. made > 0 /\ phase = "serving"
  <2>1. line # << >>
    BY DEF ExecuteSave
  <2> QED BY <1>1, <2>1 DEF SavesMeant
<1>9. SavesMeant'
  <2>1. ASSUME NEW i \in 1..Len(line')
        PROVE  /\ line'[i].op = "expire" => keepsFor'
               /\ ~Ends(line'[i]) => line'[i].of <= made'
    <3>1. CASE i \in 1..n - 1
      <4>1. line'[i] = line[i + 1] /\ i + 1 \in 1..Len(line)
        BY <1>2, <1>c, <3>1
      <4> QED BY <1>1, <4>1 DEF SavesMeant
    <3>2. CASE i \notin 1..n - 1
      <4>1. i = n /\ Len(line') = n
        BY <1>2, <3>2
      <4>2. cmd.op = "hSet" \/ cmd.op = "del" \/ (cmd.op = "sAdd" /\ keepsFor)
        BY <1>2, <4>1
      <4> QED BY <1>1, <1>4, <1>5, <4>1, <4>2 DEF Ends
    <3> QED BY <3>1, <3>2
  <2> QED BY <1>1, <1>8, <2>1 DEF SavesMeant, Ends
<1>10. ASSUME ~keepsFor', ~late' PROVE LastWord' /\ DeletionsAhead' /\ EventsMeant'
  <2>1. ~keepsFor /\ ~late /\ cmd.op # "expire"
    BY <1>1, <1>c, <1>10 DEF SavesMeant
  <2>2. LastWord /\ DeletionsAhead /\ EventsMeant
    BY <2>1 DEF SnapshotsInv
  <2>3. /\ cmd.op \in {"hSet", "del"} => Len(line') = n \/ missed' = TRUE
        /\ cmd.op \in {"sAdd", "sRem"} => Len(line') = n - 1
        /\ cmd.op \in {"hSet", "del", "sAdd", "sRem"}
    BY <1>2, <1>3, <2>1
  <2>4. ASSUME NEW i \in 1..Len(line'), i \notin 1..n - 1
        PROVE  /\ i = n /\ Len(line') = n
               /\ cmd.op \in {"hSet", "del"}
               /\ line'[i].op = IF cmd.op = "del" THEN "sRem" ELSE "sAdd"
               /\ cmd.op = "hSet" => line'[i].of = cmd.of
    <3>1. i = n /\ Len(line') = n
      BY <1>2, <2>4
    <3> QED BY <1>2, <1>4, <2>1, <3>1
  <2>5. LastWord'
    <3>1. ASSUME NEW i \in 1..Len(line'), Begins(line'[i]),
                 \A j \in i + 1..Len(line') : ~Begins(line'[j])
          PROVE  Agrees(line[i])'
      <4>1. i \in 1..n - 1
        BY <2>4, <3>1 DEF Begins
      <4>2. ASSUME NEW j \in (i + 1) + 1..Len(line) PROVE ~Begins(line[j])
        <5>1. j - 1 \in i + 1..Len(line') /\ j - 1 \in 1..n - 1 /\ (j - 1) + 1 = j
          BY <1>2, <1>c, <4>1, <4>2
        <5> QED BY <1>2, <3>1, <5>1
      <4>3. i + 1 \in 1..Len(line) /\ line'[i] = line[i + 1]
        BY <1>2, <1>c, <4>1
      <4>4. Agrees(line[i + 1])
        BY <2>2, <3>1, <4>2, <4>3 DEF LastWord
      <4> QED BY <1>1, <4>3, <4>4 DEF Agrees
    <3>2. ASSUME \A i \in 1..Len(line') : ~Begins(line'[i])
          PROVE  \A i \in 1 + 1..Len(line) : ~Begins(line[i])
      <4>1. ASSUME NEW i \in 1 + 1..Len(line) PROVE ~Begins(line[i])
        <5>1. i - 1 \in 1..Len(line') /\ i - 1 \in 1..n - 1 /\ (i - 1) + 1 = i
          BY <1>2, <1>c, <4>1
        <5> QED BY <1>2, <3>2, <5>1
      <4> QED BY <4>1
    <3>3. ASSUME ~missed', \A i \in 1..Len(line') : ~Begins(line'[i]), ~Begins(cmd)
          PROVE  /\ snapshot = room
                 /\ line[n].op = IF room = NONE THEN "sRem" ELSE "sAdd"
      <4>1. ASSUME NEW i \in 1..Len(line) PROVE ~Begins(line[i])
        <5>1. i = 1 \/ i \in 1 + 1..Len(line)
          BY <1>2, <1>c, <4>1
        <5> QED BY <1>c, <3>2, <3>3, <5>1
      <4>2. line # << >> /\ ~missed
        BY <1>2, <3>3 DEF ExecuteSave
      <4> QED BY <1>c, <2>2, <4>1, <4>2 DEF LastWord
    <3>4. ASSUME \A i \in 1..Len(line') : ~Begins(line'[i]), Begins(cmd)
          PROVE  Agrees(cmd)
      BY <1>c, <2>2, <3>2, <3>4 DEF LastWord
    <3>5. ASSUME ~missed', line' # << >>, \A i \in 1..Len(line') : ~Begins(line'[i])
          PROVE  /\ snapshot' = room'
                 /\ line'[Len(line')].op = IF room' = NONE THEN "sRem" ELSE "sAdd"
      <4>1. CASE cmd.op \in {"hSet", "del"}
        <5>1. Agrees(cmd)
          BY <3>4, <3>5, <4>1 DEF Begins
        <5>2. line'[Len(line')].op = IF cmd.op = "del" THEN "sRem" ELSE "sAdd"
          BY <1>4, <2>3, <3>5, <4>1
        <5>3. cmd.op = "hSet" => snapshot' = cmd.meta
          BY <1>3 DEF ToIndex
        <5>4. cmd.op = "del" => snapshot' = NONE
          BY <1>3 DEF Delete
        <5> QED BY <1>1, <4>1, <5>1, <5>2, <5>3, <5>4 DEF Agrees
      <4>2. CASE cmd.op \in {"sAdd", "sRem"}
        <5>1. snapshot = room /\ line[n].op = IF room = NONE THEN "sRem" ELSE "sAdd"
          BY <3>3, <3>5, <4>2 DEF Begins
        <5>2. snapshot' = snapshot
          BY <1>3, <4>2 DEF Indexed, Unindex
        <5>3. Len(line') = n - 1 /\ n - 1 \in 1..n - 1
          <6>1. Len(line') # 0
            BY <1>2, <3>5, EmptySeq
          <6> QED BY <1>2, <2>3, <4>2, <6>1
        <5>4. line'[n - 1] = line[n]
          <6>1. line'[n - 1] = line[(n - 1) + 1] /\ (n - 1) + 1 = n
            BY <1>2, <5>3
          <6> QED BY <6>1
        <5> QED BY <1>1, <5>1, <5>2, <5>3, <5>4
      <4> QED BY <2>3, <4>1, <4>2
    <3>6. ASSUME ~missed', line' = << >>
          PROVE  (indexed' <=> room' # NONE) /\ (room' # NONE => snapshot' = room')
      <4>1. Len(line') = 0 /\ n = 1 /\ cmd.op \in {"sAdd", "sRem"} /\ 1..Len(line') = {}
        BY <1>2, <2>3, <3>6
      <4>2. snapshot = room /\ cmd.op = IF room = NONE THEN "sRem" ELSE "sAdd"
        BY <1>c, <3>3, <3>6, <4>1 DEF Begins
      <4>3. snapshot' = snapshot /\ (indexed' <=> cmd.op = "sAdd")
        <5>1. CASE cmd.op = "sAdd"
          BY <1>3, <5>1 DEF Indexed
        <5>2. CASE cmd.op = "sRem"
          BY <1>3, <5>2 DEF Unindex
        <5> QED BY <4>1, <5>1, <5>2
      <4> QED BY <1>1, <4>2, <4>3
    <3> QED BY <3>1, <3>5, <3>6 DEF LastWord, Begins, Agrees
  <2>6. DeletionsAhead'
    <3> SUFFICES ASSUME room # NONE, NEW i \in 1..Len(line'), NEW j \in 1..Len(line')
                 PROVE  /\ line'[i].op = "del" /\ Saves(line[j], "hSet")' => i < j
                        /\ line'[i].op = "sRem" /\ Saves(line[j], "sAdd")' => i < j
                        /\ Saves(line[j], "sAdd")' => line'[i].op # "del" /\ snapshot' # NONE
      BY <1>1 DEF DeletionsAhead, Saves
    <3>a. \A op : Saves(line[j], op)' <=> line'[j].op = op /\ line'[j].of = made
      BY <1>1 DEF Saves
    <3>1. \A k, l \in 1..n :
            /\ line[k].op = "del" /\ line[l].op = "hSet" /\ line[l].of = made => k < l
            /\ line[k].op = "sRem" /\ line[l].op = "sAdd" /\ line[l].of = made => k < l
            /\ line[l].op = "sAdd" /\ line[l].of = made => line[k].op # "del" /\ snapshot # NONE
      BY <1>c, <2>2 DEF DeletionsAhead, Saves
    <3>2. \A k \in 1..n - 1 : k \in 1..Len(line') => line'[k] = line[k + 1] /\ k + 1 \in 1..n
      BY <1>2, <1>c
    <3>3. CASE i \in 1..n - 1 /\ j \in 1..n - 1
      <4>1. /\ line'[i] = line[i + 1] /\ line'[j] = line[j + 1] /\ i + 1 \in 1..n /\ j + 1 \in 1..n
            /\ i + 1 < j + 1 <=> i < j
        BY <1>2, <3>2, <3>3
      <4>2. line[j + 1].op = "sAdd" /\ line[j + 1].of = made => snapshot' # NONE
        <5>1. cmd.op = "hSet" => snapshot' # NONE
          BY <1>1, <1>3, <1>5 DEF ToIndex, Ends
        <5>2. cmd.op \in {"sAdd", "sRem"} => snapshot' = snapshot
          BY <1>3 DEF Indexed, Unindex
        <5> QED BY <1>c, <2>3, <3>1, <4>1, <5>1, <5>2
      <4> QED BY <3>1, <3>a, <4>1, <4>2
    <3>4. CASE i \notin 1..n - 1 /\ j \in 1..n - 1
      <4>1. /\ i = n /\ cmd.op \in {"hSet", "del"}
            /\ line'[i].op = IF cmd.op = "del" THEN "sRem" ELSE "sAdd"
        BY <2>4, <3>4
      <4>2. line'[j] = line[j + 1] /\ j + 1 \in 1..n
        BY <3>2, <3>4
      <4>3. CASE cmd.op = "del"
        <5>1. ~(line[j + 1].op = "sAdd" /\ line[j + 1].of = made)
          BY <1>c, <3>1, <4>2, <4>3
        <5> QED BY <3>a, <4>1, <4>2, <4>3, <5>1
      <4>4. CASE cmd.op = "hSet"
        <5>1. snapshot' # NONE
          BY <1>1, <1>3, <1>5, <4>4 DEF ToIndex, Ends
        <5> QED BY <3>a, <4>1, <4>2, <4>4, <5>1
      <4> QED BY <4>1, <4>3, <4>4
    <3>5. CASE j \notin 1..n - 1
      <4>1. /\ j = n /\ cmd.op \in {"hSet", "del"}
            /\ line'[j].op = IF cmd.op = "del" THEN "sRem" ELSE "sAdd"
            /\ cmd.op = "hSet" => line'[j].of = cmd.of
        BY <2>4, <3>5
      <4>2. CASE cmd.op = "del"
        BY <3>a, <4>1, <4>2
      <4>3. CASE cmd.op = "hSet"
        <5>1. snapshot' # NONE
          BY <1>1, <1>3, <1>5, <4>3 DEF ToIndex, Ends
        <5>2. CASE i \in 1..n - 1
          <6>1. line'[i] = line[i + 1] /\ i + 1 \in 1..n /\ i < n /\ ~(i + 1 < 1)
            BY <1>2, <3>2, <5>2
          <6>2. line'[j].of = made => line'[i].op # "del"
            BY <1>c, <3>1, <4>1, <4>3, <6>1
          <6> QED BY <3>a, <4>1, <4>3, <5>1, <6>1, <6>2
        <5>3. CASE i \notin 1..n - 1
          <6>1. line'[i].op = "sAdd"
            BY <2>4, <4>3, <5>3
          <6> QED BY <3>a, <4>1, <4>3, <5>1, <6>1
        <5> QED BY <5>2, <5>3
      <4> QED BY <4>1, <4>2, <4>3
    <3> QED BY <3>3, <3>4, <3>5
  <2>7. EventsMeant'
    <3>1. settled # "deleted"
      BY <2>2 DEF EventsMeant, ExecuteSave
    <3>2. ASSUME settled' = "saved"
          PROVE  /\ indexed' /\ snapshot' # NONE
                 /\ \A i \in 1..Len(line') : ~Ends(line'[i])
      <4>1. \A i \in 1..n : ~Ends(line[i])
        <5>1. CASE settled = "saved"
          BY <1>c, <2>2, <5>1 DEF EventsMeant
        <5>2. CASE settled # "saved"
          <6>1. cmd.op = "sAdd" /\ cmd.of = made /\ room # NONE
            BY <1>3, <2>1, <3>2, <5>2 DEF ToIndex, Indexed, Settle, Delete, Unindex, ExpireSnapshot
          <6>2. \A i \in 1..n : (line[i].op = "sRem" => i < 1) /\ line[i].op # "del"
            BY <1>c, <2>2, <6>1 DEF DeletionsAhead, Saves
          <6>3. \A i \in 1..n : ~(i < 1)
            BY <1>2
          <6> QED BY <6>2, <6>3 DEF Ends
        <5> QED BY <5>1, <5>2
      <4>2. cmd.op \in {"hSet", "sAdd"}
        BY <1>c, <2>3, <4>1 DEF Ends
      <4>3. indexed' /\ snapshot' # NONE
        <5>1. CASE cmd.op = "sAdd"
          <6>1. indexed' /\ snapshot' = snapshot
            BY <1>3, <5>1 DEF Indexed
          <6>2. snapshot # NONE
            <7>1. CASE settled = "saved"
              BY <2>2, <7>1 DEF EventsMeant
            <7>2. CASE settled # "saved"
              <8>1. cmd.of = made /\ room # NONE
                BY <1>3, <3>2, <5>1, <7>2 DEF Indexed, Settle
              <8> QED BY <1>c, <2>2, <5>1, <8>1 DEF DeletionsAhead, Saves
            <7> QED BY <7>1, <7>2
          <6> QED BY <6>1, <6>2
        <5>2. CASE cmd.op = "hSet"
          <6>1. indexed' = indexed /\ settled' = settled /\ snapshot' = cmd.meta
            BY <1>3, <5>2 DEF ToIndex
          <6> QED BY <1>1, <1>5, <2>2, <3>2, <5>2, <6>1 DEF EventsMeant, Ends
        <5> QED BY <4>2, <5>1, <5>2
      <4>4. ASSUME NEW i \in 1..Len(line') PROVE ~Ends(line'[i])
        <5>1. CASE i \in 1..n - 1
          BY <1>2, <1>c, <4>1, <5>1
        <5>2. CASE i \notin 1..n - 1
          BY <2>4, <4>2, <5>2 DEF Ends
        <5> QED BY <5>1, <5>2
      <4> QED BY <4>3, <4>4
    <3>4. settled' = "deleted" => ~indexed' /\ room = NONE /\ line' = << >>
      BY <1>3, <3>1 DEF ToIndex, Indexed, Settle, Delete, Unindex, ExpireSnapshot
    <3> QED BY <1>1, <3>2, <3>4 DEF EventsMeant, Ends
  <2> QED BY <2>5, <2>6, <2>7
<1> QED BY <1>7, <1>9, <1>10 DEF SnapshotsInv

LEMMA SnapshotsStep ==
  ASSUME SnapshotsInv, [SnapshotsNext]_snapshotsVars
  PROVE  SnapshotsInv'
<1>1. SnapshotsTypeOK /\ SavesMeant
  BY DEF SnapshotsInv
<1>2. CASE SnapshotExpires
  <2>1. /\ UNCHANGED <<keepsFor, room, made, late, indexed, line, phase, missed, settled>>
        /\ snapshot' = NONE /\ fades' = FALSE /\ keepsFor
    BY <1>1, <1>2 DEF SnapshotExpires, server, SnapshotsTypeOK
  <2> QED BY <1>1, <2>1 DEF SnapshotsInv, SnapshotsTypeOK, SavesMeant, Ends
<1>3. CASE StopAndStart
  <2>1. /\ UNCHANGED <<keepsFor, late, snapshot, fades, indexed>> /\ phase' = "index"
        /\ room' \in Meta \cup {NONE} /\ missed' = (room' # NONE)
        /\ made' = (IF missed' THEN made + 1 ELSE made) /\ made' <= MaxRooms
        /\ settled' = (IF missed' /\ settled = "deleted" THEN "no" ELSE settled)
        /\ line' \in Seq(Save \cup Deletion) /\ 1..Len(line') = {} /\ line' = << >>
    <3>1. << >> \in Seq(Save \cup Deletion) /\ Len(<< >>) = 0
      BY EmptySeq
    <3> QED BY <1>3, <3>1 DEF StopAndStart, store
  <2>2. missed' \in BOOLEAN /\ (missed' <=> room' # NONE)
    BY <2>1
  <2>3. made' \in 0..MaxRooms /\ made <= made' /\ (room' # NONE => made' > 0)
    BY <1>1, <2>1, <2>2, BoundAssumption DEF SnapshotsTypeOK
  <2>4. SnapshotsTypeOK'
    BY <1>1, <2>1, <2>2, <2>3 DEF SnapshotsTypeOK
  <2>5. SavesMeant'
    BY <1>1, <2>1, <2>2, <2>3 DEF SavesMeant, SnapshotsTypeOK
  <2>6. ASSUME ~keepsFor, ~late PROVE LastWord' /\ DeletionsAhead' /\ EventsMeant'
    <3>1. EventsMeant
      BY <2>6 DEF SnapshotsInv
    <3> QED BY <2>1, <2>2, <3>1 DEF LastWord, DeletionsAhead, EventsMeant
  <2> QED BY <2>1, <2>4, <2>5, <2>6 DEF SnapshotsInv
<1>4. CASE ReadIndex
  <2>1. /\ UNCHANGED <<keepsFor, room, made, late, snapshot, fades, indexed, line, missed, settled>>
        /\ phase' = IF indexed THEN "hash" ELSE "serving"
        /\ line = << >> /\ (room = NONE \/ missed) /\ phase # "serving"
    BY <1>1, <1>4 DEF ReadIndex, server, store, SavesMeant
  <2>2. SnapshotsTypeOK' /\ SavesMeant'
    BY <1>1, <2>1 DEF SnapshotsTypeOK, SavesMeant, Ends
  <2>3. ~keepsFor /\ ~late => LastWord /\ DeletionsAhead /\ EventsMeant
    BY DEF SnapshotsInv
  <2>4. 1..Len(line) = {}
    BY <2>1
  <2> QED BY <2>1, <2>2, <2>3, <2>4 DEF SnapshotsInv, LastWord, DeletionsAhead, EventsMeant, Ends
<1>5. CASE Restore
  <2>1. /\ UNCHANGED <<keepsFor, made, late, snapshot, fades, line, missed, settled>>
        /\ room' = (IF room = NONE THEN snapshot ELSE room)
        /\ indexed' = (snapshot # NONE) /\ phase' = "serving"
        /\ line = << >> /\ indexed /\ (room = NONE \/ missed)
    BY <1>1, <1>5 DEF Restore, SavesMeant
  <2>2. indexed' \in BOOLEAN /\ (indexed' <=> snapshot # NONE)
    BY <2>1
  <2>3. SnapshotsTypeOK' /\ SavesMeant'
    BY <1>1, <2>1, <2>2 DEF SnapshotsTypeOK, SavesMeant, Ends
  <2>4. ~keepsFor /\ ~late => EventsMeant
    BY DEF SnapshotsInv
  <2>5. 1..Len(line') = {} /\ line' = << >>
    BY <2>1
  <2>6. ASSUME ~keepsFor', ~late' PROVE LastWord' /\ DeletionsAhead' /\ EventsMeant'
    <3>1. LastWord'
      BY <2>1, <2>2, <2>5 DEF LastWord
    <3>2. DeletionsAhead'
      BY <2>5 DEF DeletionsAhead
    <3>3. EventsMeant'
      BY <2>1, <2>2, <2>4, <2>5, <2>6 DEF EventsMeant
    <3> QED BY <3>1, <3>2, <3>3
  <2> QED BY <2>3, <2>6 DEF SnapshotsInv
<1>r. CASE RestoreFails
  <2>1. /\ UNCHANGED <<keepsFor, room, made, late, snapshot, fades, line, settled>>
        /\ phase # "serving" /\ phase' = "serving" /\ missed' = TRUE
        /\ indexed' \in BOOLEAN /\ (indexed' # indexed => phase = "hash" /\ snapshot = NONE)
        /\ line = << >>
    BY <1>1, <1>r DEF RestoreFails, server, SavesMeant, SnapshotsTypeOK
  <2>2. SnapshotsTypeOK' /\ SavesMeant'
    BY <1>1, <2>1 DEF SnapshotsTypeOK, SavesMeant, Ends
  <2>3. 1..Len(line') = {} /\ line' = << >>
    BY <2>1
  <2>4. ASSUME ~keepsFor, ~late PROVE LastWord' /\ DeletionsAhead' /\ EventsMeant'
    <3>1. EventsMeant
      BY <2>4 DEF SnapshotsInv
    <3>2. settled = "deleted" => phase # "hash"
      BY <1>1, <3>1 DEF EventsMeant, SavesMeant
    <3>3. EventsMeant'
      BY <2>1, <2>3, <3>1, <3>2 DEF EventsMeant
    <3> QED BY <2>1, <2>3, <3>3 DEF LastWord, DeletionsAhead
  <2> QED BY <2>1, <2>2, <2>4 DEF SnapshotsInv
<1>6. CASE UNCHANGED snapshotsVars
  BY <1>6 DEF snapshotsVars, server, store, SnapshotsInv, SnapshotsTypeOK, SavesMeant, LastWord,
              Begins, Ends, Agrees, DeletionsAhead, Saves, EventsMeant
<1>7. CASE ExecuteSave
  BY <1>7, SnapshotsExecuted, SnapshotsRefused
<1> QED BY <1>2, <1>3, <1>4, <1>5, <1>6, <1>7, <1>r, SnapshotsBegin DEF SnapshotsNext

LEMMA SnapshotsBegun == SnapshotsInit => SnapshotsInv
<1> SUFFICES ASSUME SnapshotsInit PROVE SnapshotsInv
  OBVIOUS
<1>1. /\ room \in Meta \cup {NONE} /\ missed = (room # NONE) /\ made = IF missed THEN 1 ELSE 0
      /\ line = << >> /\ snapshot = NONE /\ keepsFor \in BOOLEAN
      /\ fades = FALSE /\ indexed = FALSE /\ late = FALSE /\ phase = "serving" /\ settled = "no"
  BY DEF SnapshotsInit
<1>m. missed \in BOOLEAN /\ (missed <=> room # NONE) /\ (missed <=> made > 0)
  <2>1. CASE room = NONE
    <3>1. missed = FALSE
      BY <1>1, <2>1
    <3> QED BY <1>1, <2>1, <3>1
  <2>2. CASE room # NONE
    <3>1. missed = TRUE
      BY <1>1, <2>2
    <3> QED BY <1>1, <2>2, <3>1
  <2> QED BY <2>1, <2>2
<1>2. line \in Seq(Save \cup Deletion) /\ 1..Len(line) = {}
  <2>1. << >> \in Seq(Save \cup Deletion) /\ 1..Len(<< >>) = {}
    BY EmptySeq
  <2> QED BY <1>1, <2>1
<1>3. SnapshotsTypeOK
  <2>1. {keepsFor, fades, indexed, late, missed} \subseteq BOOLEAN /\ (fades => keepsFor /\ snapshot # NONE)
    BY <1>1, <1>m
  <2>2. made \in 0..MaxRooms
    BY <1>1, BoundAssumption
  <2> QED BY <1>1, <1>2, <2>1, <2>2 DEF SnapshotsTypeOK
<1>4. SavesMeant
  BY <1>1, <1>2, <1>m DEF SavesMeant
<1>5. LastWord /\ DeletionsAhead /\ EventsMeant
  BY <1>1, <1>2, <1>m DEF LastWord, DeletionsAhead, EventsMeant
<1> QED BY <1>3, <1>4, <1>5 DEF SnapshotsInv

LEMMA SnapshotsImplied == SnapshotsInv => SnapshotsHold
<1> SUFFICES ASSUME SnapshotsInv PROVE SnapshotsHold
  OBVIOUS
<1>1. SnapshotAgrees
  BY DEF SnapshotsInv, LastWord, SnapshotAgrees, Restorable
<1>2. EventsAreKept
  BY DEF SnapshotsInv, EventsMeant, EventsAreKept, Restorable
<1> QED BY <1>1, <1>2 DEF SnapshotsInv, SnapshotsHold

(* Without a TTL, and but for metadata set on a destroyed room: Redis and   *)
(* the server agree whenever the commands are done, unless one was rejected *)
(* since the last save or deletion began, restore was, or the room was made *)
(* before attach and is not changed yet; and what room:saved and            *)
(* room:deleted told holds through any crash, restore and failure: for any  *)
(* number of rooms made under the id and any length of the line             *)
(* (RoomPersistence._persistRoom, _deleteSnapshot, restore).                *)
THEOREM SnapshotsAlwaysSafe == GuardsSpec => []SnapshotsSafe
<1> DEFINE Inv == part = "snapshots" => SnapshotsInv
<1>1. GuardsInit => Inv
  BY SnapshotsBegun DEF GuardsInit
<1>2. Inv /\ [GuardsNext]_<<part, gates, stores, onRoom, roomVars>> => Inv'
  <2> SUFFICES ASSUME Inv, [GuardsNext]_<<part, gates, stores, onRoom, roomVars>>,
                      part' = "snapshots"
               PROVE  SnapshotsInv'
    OBVIOUS
  <2>1. CASE SnapshotsNext /\ part = "snapshots"
    BY <2>1, SnapshotsStep
  <2>2. CASE UNCHANGED <<part, snapshotsVars>>
    BY <2>2, SnapshotsStep
  <2> QED
    BY <2>1, <2>2 DEF GuardsNext, stores
<1>3. Inv => SnapshotsSafe
  BY SnapshotsImplied DEF SnapshotsSafe
<1> QED
  BY <1>1, <1>2, <1>3, PTL DEF GuardsSpec

-----------------------------------------------------------------------------
(* Retention. *)

(* A loop has to do with records that were registered; the one under an id  *)
(* is the last of them.                                                     *)
RecordsMeant ==
  /\ kept \in [Ids -> 0..Versions] /\ wanted \in Subjects \cup {ANON}
  /\ \A i \in Ids : kept[i] \in {0, issued[i]}
  /\ \A l \in Loops : \A o \in todo[l] : o[2] <= issued[o[1]]
  /\ \A l \in Loops : busy[l] # NOBODY => busy[l][2] <= issued[busy[l][1]]

(* HoldsRespected needs that the flags and a purge's list miss no hold but  *)
(* one that came too late, NothingDroppedUnnoticed of a loop that waits     *)
(* what it has destroyed.                                                   *)
HoldsMissed ==
  \A o \in Objects :
     subject[o] \in holds /\ (~onHold[o] \/ o \in todo["purge"]) => o \in overlooked
AwaitedExpired == \A l \in Loops : busy[l] # NOBODY => busy[l] \in expired

RetentionInv ==
  /\ RetentionTypeOK /\ RecordsMeant
  /\ HoldsMarked
  /\ HoldsMissed /\ HoldsRespected
  /\ AwaitedExpired /\ NothingDroppedUnnoticed

(* What a loop does when it comes to the next of the records found: those   *)
(* that a purge has collected are under no hold, but for one that came too  *)
(* late, and a sweep looks at their flags.                                  *)
LEMMA RetentionAdvanced ==
  ASSUME RetentionInv, NEW l \in Loops, NEW found \in SUBSET Objects, Advance(l, found),
         l = "purge" => \A o \in found : subject[o] \in holds => o \in overlooked,
         \A o \in found : o[2] <= issued[o[1]],
         UNCHANGED <<issued, subject, onHold, holds, overlooked>>
  PROVE  /\ todo' \in [Loops -> SUBSET Objects] /\ busy' \in [Loops -> Objects \cup {NOBODY}]
         /\ \A m \in Loops : busy'[m] = NOBODY => todo'[m] = {}
         /\ \A m \in Loops : \A o \in todo'[m] : o[2] <= issued'[o[1]]
         /\ \A m \in Loops : busy'[m] # NOBODY => busy'[m][2] <= issued'[busy'[m][1]]
         /\ HoldsMissed' /\ HoldsRespected' /\ AwaitedExpired'
         /\ expired \subseteq expired'
<1>1. RetentionTypeOK /\ RecordsMeant /\ HoldsMissed /\ HoldsRespected /\ AwaitedExpired
  BY DEF RetentionInv
<1>2. /\ todo \in [Loops -> SUBSET Objects] /\ busy \in [Loops -> Objects \cup {NOBODY}]
      /\ \A m \in Loops : busy[m] = NOBODY => todo[m] = {}
      /\ \A m \in Loops : \A o \in todo[m] : o[2] <= issued[o[1]]
      /\ \A m \in Loops : busy[m] # NOBODY => busy[m][2] <= issued[busy[m][1]]
      /\ broken \subseteq overlooked
      /\ \A m \in Loops : busy[m] # NOBODY => busy[m] \in expired
      /\ "purge" \in Loops
  BY <1>1 DEF RetentionTypeOK, RecordsMeant, HoldsRespected, AwaitedExpired, Loops
<1>3. ASSUME NEW left \in SUBSET found, NEW next \in found \cup {NOBODY},
             todo' = [todo EXCEPT ![l] = left], busy' = [busy EXCEPT ![l] = next],
             next = NOBODY => left = {},
             next # NOBODY => next \in expired',
             expired \subseteq expired', broken' \subseteq overlooked
      PROVE  /\ todo' \in [Loops -> SUBSET Objects] /\ busy' \in [Loops -> Objects \cup {NOBODY}]
             /\ \A m \in Loops : busy'[m] = NOBODY => todo'[m] = {}
             /\ \A m \in Loops : \A o \in todo'[m] : o[2] <= issued'[o[1]]
             /\ \A m \in Loops : busy'[m] # NOBODY => busy'[m][2] <= issued'[busy'[m][1]]
             /\ HoldsMissed' /\ HoldsRespected' /\ AwaitedExpired'
  <2>1. /\ todo'[l] = left /\ busy'[l] = next
        /\ \A m \in Loops \ {l} : todo'[m] = todo[m] /\ busy'[m] = busy[m]
    BY <1>2, <1>3
  <2>2. todo' \in [Loops -> SUBSET Objects] /\ busy' \in [Loops -> Objects \cup {NOBODY}]
    BY <1>2, <1>3
  <2>3. \A m \in Loops : /\ busy'[m] = NOBODY => todo'[m] = {}
                         /\ \A o \in todo'[m] : o[2] <= issued'[o[1]]
                         /\ busy'[m] # NOBODY => busy'[m][2] <= issued'[busy'[m][1]]
    <3> SUFFICES ASSUME NEW m \in Loops
                 PROVE  /\ busy'[m] = NOBODY => todo'[m] = {}
                        /\ \A o \in todo'[m] : o[2] <= issued'[o[1]]
                        /\ busy'[m] # NOBODY => busy'[m][2] <= issued'[busy'[m][1]]
      OBVIOUS
    <3>1. CASE m = l
      BY <1>3, <2>1, <3>1
    <3>2. CASE m # l
      BY <1>2, <2>1, <3>2
    <3> QED BY <3>1, <3>2
  <2>4. HoldsMissed'
    <3> SUFFICES ASSUME NEW o \in Objects, subject[o] \in holds,
                        ~onHold[o] \/ o \in todo'["purge"]
                 PROVE  o \in overlooked
      BY DEF HoldsMissed
    <3>1. CASE ~onHold[o] \/ o \in todo["purge"]
      BY <1>1, <3>1 DEF HoldsMissed
    <3>2. CASE o \notin todo["purge"] /\ o \in todo'["purge"]
      BY <1>2, <1>3, <2>1, <3>2
    <3> QED BY <3>1, <3>2
  <2>5. AwaitedExpired'
    <3> SUFFICES ASSUME NEW m \in Loops, busy'[m] # NOBODY PROVE busy'[m] \in expired'
      BY DEF AwaitedExpired
    <3>1. CASE m = l
      BY <1>3, <2>1, <3>1
    <3>2. CASE m # l
      BY <1>2, <1>3, <2>1, <3>2
    <3> QED BY <3>1, <3>2
  <2> QED BY <1>3, <2>2, <2>3, <2>4, <2>5 DEF HoldsRespected
<1> DEFINE wants == {o \in found : Wants(l, o)}
<1>4. CASE wants = {}
  <2>1. /\ todo' = [todo EXCEPT ![l] = {}] /\ busy' = [busy EXCEPT ![l] = NOBODY]
        /\ UNCHANGED <<expired, broken>>
    BY <1>4 DEF Advance
  <2> QED BY <1>2, <1>3, <2>1
<1>5. CASE wants # {}
  <2>1. PICK o \in wants :
          /\ \E skipped \in SUBSET (found \ wants) :
               todo' = [todo EXCEPT ![l] = found \ (skipped \cup {o})]
          /\ busy' = [busy EXCEPT ![l] = o]
          /\ expired' = expired \cup {o}
          /\ broken' = IF subject[o] \in holds THEN broken \cup {o} ELSE broken
    BY <1>5 DEF Advance
  <2>2. PICK skipped \in SUBSET (found \ wants) :
          todo' = [todo EXCEPT ![l] = found \ (skipped \cup {o})]
    BY <2>1
  <2>3. o \in found /\ (l = "purge" \/ ~onHold[o]) /\ found \ (skipped \cup {o}) \in SUBSET found
    BY <2>1 DEF Wants
  <2>4. o # NOBODY
    BY <2>3 DEF Objects, NOBODY
  <2>5. broken' \subseteq overlooked
    BY <1>1, <1>2, <2>1, <2>3 DEF HoldsMissed
  <2>6. o \in expired' /\ expired \subseteq expired'
    BY <2>1
  <2> QED BY <1>3, <2>1, <2>2, <2>3, <2>4, <2>5, <2>6
<1> QED BY <1>4, <1>5

(* No loop goes on.                                                         *)
LEMMA RetentionUnlooped ==
  ASSUME RetentionInv, UNCHANGED <<loops, expired, broken, dropped>>,
         overlooked \subseteq overlooked', \A i \in Ids : issued[i] <= issued'[i], issued' \in [Ids -> 0..Versions]
  PROVE  /\ todo' \in [Loops -> SUBSET Objects] /\ busy' \in [Loops -> Objects \cup {NOBODY}]
         /\ wanted' \in Subjects \cup {ANON}
         /\ \A l \in Loops : busy'[l] = NOBODY => todo'[l] = {}
         /\ \A l \in Loops : \A o \in todo'[l] : o[2] <= issued'[o[1]]
         /\ \A l \in Loops : busy'[l] # NOBODY => busy'[l][2] <= issued'[busy'[l][1]]
         /\ HoldsRespected' /\ AwaitedExpired' /\ NothingDroppedUnnoticed'
<1>1. RetentionTypeOK /\ RecordsMeant /\ Versions \in Nat
  BY SubjectAssumption DEF RetentionInv
<1>2. UNCHANGED <<todo, busy, wanted>>
  BY DEF loops
<1>3. /\ todo \in [Loops -> SUBSET Objects] /\ busy \in [Loops -> Objects \cup {NOBODY}]
      /\ issued \in [Ids -> 0..Versions]
  BY <1>1 DEF RetentionTypeOK
<1>4. \A o \in Objects : o[1] \in Ids /\ o[2] \in 1..Versions
  BY DEF Objects
<1>5. \A o \in Objects : o[2] <= issued[o[1]] => o[2] <= issued'[o[1]]
  <2> SUFFICES ASSUME NEW o \in Objects, o[2] <= issued[o[1]] PROVE o[2] <= issued'[o[1]]
    OBVIOUS
  <2>1. o[2] \in Nat /\ issued[o[1]] \in Nat /\ issued'[o[1]] \in Nat /\ issued[o[1]] <= issued'[o[1]]
    BY <1>1, <1>3, <1>4
  <2> QED BY <2>1
<1>6. \A l \in Loops : \A o \in todo'[l] : o[2] <= issued'[o[1]]
  BY <1>1, <1>2, <1>3, <1>5 DEF RecordsMeant
<1>7. \A l \in Loops : busy'[l] # NOBODY => busy'[l][2] <= issued'[busy'[l][1]]
  <2> SUFFICES ASSUME NEW l \in Loops, busy[l] # NOBODY
               PROVE  busy[l][2] <= issued'[busy[l][1]]
    BY <1>2
  <2>1. busy[l] \in Objects /\ busy[l][2] <= issued[busy[l][1]]
    BY <1>1, <1>3 DEF RecordsMeant
  <2> QED BY <1>5, <2>1
<1>8. HoldsRespected' /\ AwaitedExpired' /\ NothingDroppedUnnoticed'
  BY <1>2 DEF RetentionInv, HoldsRespected, AwaitedExpired, NothingDroppedUnnoticed
<1> QED BY <1>1, <1>2, <1>3, <1>6, <1>7, <1>8 DEF RetentionTypeOK, RecordsMeant

LEMMA RegisterRecordStep ==
  ASSUME RetentionInv, NEW i \in Ids, NEW s \in Subjects, RegisterRecord(i, s)
  PROVE  RetentionInv'
<1> DEFINE n == issued[i] + 1
           o == <<i, n>>
<1>1. RetentionTypeOK /\ RecordsMeant /\ HoldsMarked /\ Versions \in Nat
  BY SubjectAssumption DEF RetentionInv
<1>2. /\ issued[i] \in 0..Versions /\ issued[i] < Versions
      /\ subject' = [subject EXCEPT ![o] = s]
      /\ onHold' = [onHold EXCEPT ![o] = s \in holds]
      /\ issued' = [issued EXCEPT ![i] = n] /\ kept' = [kept EXCEPT ![i] = n]
      /\ UNCHANGED <<due, holds, loops, history>>
  BY <1>1 DEF RegisterRecord, RetentionTypeOK
<1>3. n \in 1..Versions /\ issued[i] < n
  BY <1>1, <1>2
<1> HIDE DEF n
<1>4. o \in Objects
  BY <1>3 DEF Objects
<1>5. issued' \in [Ids -> 0..Versions] /\ kept' \in [Ids -> 0..Versions]
      /\ \A j \in Ids : issued[j] <= issued'[j] /\ kept'[j] \in {0, issued'[j]}
  <2>1. issued \in [Ids -> 0..Versions] /\ kept \in [Ids -> 0..Versions] /\ n \in 0..Versions
    BY <1>1, <1>3 DEF RetentionTypeOK, RecordsMeant
  <2>2. /\ issued' \in [Ids -> 0..Versions] /\ kept' \in [Ids -> 0..Versions]
        /\ issued'[i] = n /\ kept'[i] = n
        /\ \A j \in Ids \ {i} : issued'[j] = issued[j] /\ kept'[j] = kept[j]
    BY <1>2, <2>1
  <2>3. ASSUME NEW j \in Ids PROVE issued[j] <= issued'[j] /\ kept'[j] \in {0, issued'[j]}
    <3>1. CASE j = i
      BY <1>1, <1>3, <2>1, <2>2, <3>1
    <3>2. CASE j # i
      <4>1. issued[j] \in Nat /\ issued'[j] = issued[j] /\ kept'[j] = kept[j]
        BY <1>1, <2>1, <2>2, <3>2
      <4> QED BY <1>1, <4>1 DEF RecordsMeant
    <3> QED BY <3>1, <3>2
  <2> QED BY <2>2, <2>3
<1>6. \A j \in Ids : kept'[j] \in 0..issued'[j]
  BY <1>1, <1>5
<1>7. subject' \in [Objects -> Subjects \cup {ANON}] /\ onHold' \in [Objects -> BOOLEAN]
  <2>1. (s \in holds) \in BOOLEAN
    OBVIOUS
  <2> QED BY <1>1, <1>2, <1>4, <2>1 DEF RetentionTypeOK
<1>8. HoldsMarked'
  <2> SUFFICES ASSUME NEW r \in Kept' PROVE onHold'[r] <=> subject'[r] \in holds'
    BY DEF HoldsMarked
  <2>1. r \in Objects /\ kept'[r[1]] = r[2]
    BY DEF Kept
  <2>2. CASE r = o
    <3>1. onHold'[r] = (s \in holds) /\ subject'[r] = s /\ holds' = holds
      BY <1>1, <1>2, <1>4, <2>2 DEF RetentionTypeOK
    <3> QED BY <3>1
  <2>3. CASE r # o
    <3>1. onHold'[r] = onHold[r] /\ subject'[r] = subject[r] /\ holds' = holds
      BY <1>1, <1>2, <1>4, <2>1, <2>3 DEF RetentionTypeOK
    <3>2. r[1] # i
      <4> SUFFICES ASSUME r[1] = i PROVE FALSE
        OBVIOUS
      <4>1. r[2] = n
        BY <1>1, <1>2, <2>1 DEF RecordsMeant
      <4> QED BY <2>1, <2>3, <4>1 DEF Objects
    <3>3. kept[r[1]] = r[2]
      BY <1>1, <1>2, <2>1, <3>2 DEF RecordsMeant, Objects
    <3> QED BY <1>1, <2>1, <3>1, <3>3 DEF HoldsMarked, Kept
  <2> QED BY <2>2, <2>3
<1>9. due' \in [Objects -> BOOLEAN] /\ holds' \subseteq Subjects
  BY <1>1, <1>2 DEF RetentionTypeOK
<1>10. /\ todo' \in [Loops -> SUBSET Objects] /\ busy' \in [Loops -> Objects \cup {NOBODY}]
       /\ wanted' \in Subjects \cup {ANON}
       /\ \A l \in Loops : busy'[l] = NOBODY => todo'[l] = {}
       /\ \A l \in Loops : \A r \in todo'[l] : r[2] <= issued'[r[1]]
       /\ \A l \in Loops : busy'[l] # NOBODY => busy'[l][2] <= issued'[busy'[l][1]]
       /\ HoldsRespected' /\ AwaitedExpired' /\ NothingDroppedUnnoticed'
  BY <1>2, <1>5, RetentionUnlooped DEF history
<1>11. HoldsMissed'
  <2> SUFFICES ASSUME NEW r \in Objects, subject'[r] \in holds', ~onHold'[r] \/ r \in todo'["purge"]
               PROVE  r \in overlooked'
    BY DEF HoldsMissed
  <2>1. UNCHANGED <<todo, holds, overlooked>>
    BY <1>2 DEF loops, history
  <2>2. CASE r = o
    <3>1. onHold'[r] = (s \in holds) /\ subject'[r] = s
      BY <1>1, <1>2, <1>4, <2>2 DEF RetentionTypeOK
    <3>2. r[2] <= issued[r[1]]
      BY <1>1, <2>1, <3>1 DEF RecordsMeant, Loops
    <3> QED BY <1>2, <1>3, <2>2, <3>2
  <2>3. CASE r # o
    <3>1. onHold'[r] = onHold[r] /\ subject'[r] = subject[r]
      BY <1>1, <1>2, <1>4, <2>3 DEF RetentionTypeOK
    <3> QED BY <2>1, <3>1 DEF HoldsMissed, RetentionInv
  <2> QED BY <2>2, <2>3
<1> QED
  BY <1>5, <1>6, <1>7, <1>8, <1>9, <1>10, <1>11 DEF RetentionInv, RetentionTypeOK, RecordsMeant

(* Holds, anonymisation and the passing of time touch no record's place.    *)
LEMMA RetentionMarked ==
  ASSUME RetentionInv, UNCHANGED <<kept, issued, loops, expired, broken, dropped>>,
         overlooked \subseteq overlooked', HoldsMissed',
         subject' \in [Objects -> Subjects \cup {ANON}], onHold' \in [Objects -> BOOLEAN],
         due' \in [Objects -> BOOLEAN], holds' \subseteq Subjects,
         \A o \in Kept : onHold'[o] <=> subject'[o] \in holds'
  PROVE  RetentionInv'
<1>1. RetentionTypeOK /\ RecordsMeant /\ Versions \in Nat
  BY SubjectAssumption DEF RetentionInv
<1>2. issued' \in [Ids -> 0..Versions] /\ \A i \in Ids : issued[i] <= issued'[i]
  BY <1>1 DEF RetentionTypeOK
<1>3. /\ todo' \in [Loops -> SUBSET Objects] /\ busy' \in [Loops -> Objects \cup {NOBODY}]
      /\ wanted' \in Subjects \cup {ANON}
      /\ \A l \in Loops : busy'[l] = NOBODY => todo'[l] = {}
      /\ \A l \in Loops : \A r \in todo'[l] : r[2] <= issued'[r[1]]
      /\ \A l \in Loops : busy'[l] # NOBODY => busy'[l][2] <= issued'[busy'[l][1]]
      /\ HoldsRespected' /\ AwaitedExpired' /\ NothingDroppedUnnoticed'
  BY <1>2, RetentionUnlooped
<1>4. HoldsMarked'
  BY DEF HoldsMarked, Kept
<1> QED BY <1>1, <1>2, <1>3, <1>4 DEF RetentionInv, RetentionTypeOK, RecordsMeant

LEMMA RetentionMarkStep ==
  ASSUME RetentionInv, NEW s \in Subjects, PlaceLegalHold(s) \/ ReleaseLegalHold(s) \/ Anonymise(s)
  PROVE  RetentionInv'
<1>1. RetentionTypeOK /\ HoldsMarked /\ HoldsMissed /\ ANON \notin Subjects
  BY SubjectAssumption DEF RetentionInv
<1>2. /\ subject \in [Objects -> Subjects \cup {ANON}] /\ onHold \in [Objects -> BOOLEAN]
      /\ due \in [Objects -> BOOLEAN] /\ holds \subseteq Subjects
      /\ \A o \in Kept : o \in Objects /\ (onHold[o] <=> subject[o] \in holds)
  BY <1>1 DEF RetentionTypeOK, HoldsMarked, Kept
<1>3. ASSUME NEW flag \in BOOLEAN, Mark(s, flag)
      PROVE  /\ onHold' \in [Objects -> BOOLEAN]
             /\ \A o \in Kept : onHold'[o] = IF subject[o] = s THEN flag ELSE onHold[o]
  BY <1>2, <1>3 DEF Mark, Of
<1>4. CASE PlaceLegalHold(s)
  <2> DEFINE missing == {o \in Objects : subject[o] = s /\ (o \notin Kept \/ o \in todo["purge"])}
  <2>1. /\ UNCHANGED <<subject, due, kept, issued, loops, expired, broken, dropped>>
        /\ holds' = holds \cup {s} /\ Mark(s, TRUE) /\ overlooked' = overlooked \cup missing
    BY <1>4 DEF PlaceLegalHold
  <2>2. onHold' \in [Objects -> BOOLEAN]
    BY <1>3, <2>1
  <2>3. ASSUME NEW o \in Kept PROVE onHold'[o] <=> subject'[o] \in holds'
    BY <1>2, <1>3, <2>1
  <2>4. HoldsMissed'
    <3> SUFFICES ASSUME NEW o \in Objects, subject[o] \in holds', ~onHold'[o] \/ o \in todo["purge"],
                        o \notin missing
                 PROVE  o \in overlooked
      BY <2>1 DEF HoldsMissed, loops
    <3>1. CASE subject[o] = s
      BY <1>3, <2>1, <3>1
    <3>2. CASE subject[o] # s
      <4>1. subject[o] \in holds /\ onHold'[o] = onHold[o]
        BY <2>1, <3>2 DEF Mark, Of
      <4> QED BY <1>1, <4>1 DEF HoldsMissed
    <3> QED BY <3>1, <3>2
  <2> QED BY <1>2, <2>1, <2>2, <2>3, <2>4, RetentionMarked
<1>5. CASE ReleaseLegalHold(s)
  <2>1. /\ UNCHANGED <<subject, due, kept, issued, loops, history>>
        /\ holds' = holds \ {s} /\ Mark(s, FALSE)
    BY <1>5 DEF ReleaseLegalHold
  <2>2. onHold' \in [Objects -> BOOLEAN]
    BY <1>3, <2>1
  <2>3. ASSUME NEW o \in Kept PROVE onHold'[o] <=> subject'[o] \in holds'
    BY <1>2, <1>3, <2>1
  <2>4. HoldsMissed'
    <3> SUFFICES ASSUME NEW o \in Objects, subject[o] \in holds', ~onHold'[o] \/ o \in todo["purge"]
                 PROVE  o \in overlooked
      BY <2>1 DEF HoldsMissed, loops, history
    <3>1. subject[o] \in holds /\ onHold'[o] = onHold[o]
      BY <2>1 DEF Mark, Of
    <3> QED BY <1>1, <3>1 DEF HoldsMissed
  <2> QED BY <1>2, <2>1, <2>2, <2>3, <2>4, RetentionMarked DEF history
<1>6. CASE Anonymise(s)
  <2>1. /\ UNCHANGED <<onHold, due, kept, issued, holds, loops, history>>
        /\ subject' = [o \in Objects |-> IF o \in Of(s) /\ ~onHold[o] THEN ANON ELSE subject[o]]
    BY <1>6 DEF Anonymise
  <2>2. subject' \in [Objects -> Subjects \cup {ANON}]
    BY <1>2, <2>1
  <2>3. ASSUME NEW o \in Kept PROVE onHold'[o] <=> subject'[o] \in holds'
    <3>1. o \in Objects /\ (onHold[o] <=> subject[o] \in holds)
      BY <1>2
    <3>2. subject'[o] = IF o \in Of(s) /\ ~onHold[o] THEN ANON ELSE subject[o]
      BY <2>1, <3>1
    <3>3. ANON \notin holds
      BY <1>1, <1>2
    <3> QED BY <2>1, <3>1, <3>2, <3>3
  <2>4. HoldsMissed'
    <3> SUFFICES ASSUME NEW o \in Objects, subject'[o] \in holds, ~onHold[o] \/ o \in todo["purge"]
                 PROVE  o \in overlooked
      BY <2>1 DEF HoldsMissed, loops, history
    <3>1. subject'[o] = subject[o]
      BY <1>1, <1>2, <2>1
    <3> QED BY <1>1, <3>1 DEF HoldsMissed
  <2> QED BY <1>2, <2>1, <2>2, <2>3, <2>4, RetentionMarked DEF history
<1> QED BY <1>4, <1>5, <1>6

LEMMA RetentionStep ==
  ASSUME RetentionInv, [RetentionNext]_retentionVars
  PROVE  RetentionInv'
<1>1. /\ RetentionTypeOK /\ RecordsMeant /\ HoldsMarked /\ HoldsMissed /\ AwaitedExpired
      /\ NothingDroppedUnnoticed /\ Versions \in Nat
  BY SubjectAssumption DEF RetentionInv
<1>2. ASSUME NEW o \in Objects, Lapse(o) PROVE RetentionInv'
  <2>1. due' \in [Objects -> BOOLEAN]
    BY <1>1, <1>2 DEF Lapse, RetentionTypeOK
  <2>2. UNCHANGED <<subject, onHold, kept, issued, holds, loops, history>>
    BY <1>2 DEF Lapse
  <2>3. HoldsMissed'
    BY <1>1, <2>2 DEF HoldsMissed, loops, history
  <2> QED BY <1>1, <2>1, <2>2, <2>3, RetentionMarked DEF RetentionTypeOK, HoldsMarked, history
<1>3. Kept \subseteq Objects /\ \A o \in Kept : o[2] <= issued[o[1]]
  <2>1. \A o \in Kept : o \in Objects /\ o[1] \in Ids /\ kept[o[1]] = o[2]
    BY DEF Kept, Objects
  <2>2. \A i \in Ids : kept[i] <= issued[i]
    BY <1>1 DEF RetentionTypeOK
  <2> QED BY <2>1, <2>2
<1>4. ASSUME NEW s \in Subjects, Purge(s) PROVE RetentionInv'
  <2> DEFINE found == {o \in Of(s) : ~onHold[o]}
  <2>1. /\ UNCHANGED <<objects, kept, issued, holds, dropped>> /\ wanted' = s
        /\ UNCHANGED overlooked /\ Advance("purge", found)
    BY <1>4 DEF Purge
  <2>2. /\ found \in SUBSET Objects /\ \A o \in found : o[2] <= issued[o[1]]
        /\ \A o \in found : subject[o] \notin holds
    BY <1>1, <1>3 DEF Of, HoldsMarked
  <2> HIDE DEF found
  <2>3. /\ todo' \in [Loops -> SUBSET Objects] /\ busy' \in [Loops -> Objects \cup {NOBODY}]
        /\ \A m \in Loops : busy'[m] = NOBODY => todo'[m] = {}
        /\ \A m \in Loops : \A o \in todo'[m] : o[2] <= issued'[o[1]]
        /\ \A m \in Loops : busy'[m] # NOBODY => busy'[m][2] <= issued'[busy'[m][1]]
        /\ HoldsMissed' /\ HoldsRespected' /\ AwaitedExpired'
        /\ expired \subseteq expired'
    BY <2>1, <2>2, RetentionAdvanced DEF Loops, objects
  <2>4. HoldsMarked' /\ NothingDroppedUnnoticed'
    BY <1>1, <2>1, <2>3 DEF HoldsMarked, Kept, objects, NothingDroppedUnnoticed
  <2> QED BY <1>1, <2>1, <2>3, <2>4 DEF RetentionInv, RetentionTypeOK, RecordsMeant, objects
<1>5. ASSUME RetentionSweep PROVE RetentionInv'
  <2> DEFINE found == {o \in Kept : due[o]}
  <2>1. /\ UNCHANGED <<objects, kept, issued, holds, wanted, overlooked, dropped>>
        /\ Advance("sweep", found)
    BY <1>5 DEF RetentionSweep
  <2>2. found \in SUBSET Objects /\ \A o \in found : o[2] <= issued[o[1]]
    BY <1>3
  <2> HIDE DEF found
  <2>3. /\ todo' \in [Loops -> SUBSET Objects] /\ busy' \in [Loops -> Objects \cup {NOBODY}]
        /\ \A m \in Loops : busy'[m] = NOBODY => todo'[m] = {}
        /\ \A m \in Loops : \A o \in todo'[m] : o[2] <= issued'[o[1]]
        /\ \A m \in Loops : busy'[m] # NOBODY => busy'[m][2] <= issued'[busy'[m][1]]
        /\ HoldsMissed' /\ HoldsRespected' /\ AwaitedExpired'
        /\ expired \subseteq expired'
    BY <2>1, <2>2, RetentionAdvanced DEF Loops, objects
  <2>4. HoldsMarked' /\ NothingDroppedUnnoticed'
    BY <1>1, <2>1, <2>3 DEF HoldsMarked, Kept, objects, NothingDroppedUnnoticed
  <2> QED BY <1>1, <2>1, <2>3, <2>4 DEF RetentionInv, RetentionTypeOK, RecordsMeant, objects
<1>6. ASSUME NEW l \in Loops, HookDone(l) PROVE RetentionInv'
  <2> DEFINE i == busy[l][1]
             gone == <<i, kept[i]>>
  <2>1. /\ UNCHANGED <<objects, issued, holds, wanted, overlooked>> /\ Advance(l, todo[l])
        /\ kept' = [kept EXCEPT ![i] = 0] /\ busy[l] # NOBODY
        /\ dropped' = IF kept[i] = 0 \/ gone \in expired THEN dropped ELSE dropped \cup {gone}
    BY <1>6 DEF HookDone
  <2>2. /\ todo[l] \in SUBSET Objects /\ \A o \in todo[l] : o[2] <= issued[o[1]]
        /\ l = "purge" => \A o \in todo[l] : subject[o] \in holds => o \in overlooked
    BY <1>1 DEF RetentionTypeOK, RecordsMeant, HoldsMissed
  <2>3. /\ todo' \in [Loops -> SUBSET Objects] /\ busy' \in [Loops -> Objects \cup {NOBODY}]
        /\ \A m \in Loops : busy'[m] = NOBODY => todo'[m] = {}
        /\ \A m \in Loops : \A o \in todo'[m] : o[2] <= issued'[o[1]]
        /\ \A m \in Loops : busy'[m] # NOBODY => busy'[m][2] <= issued'[busy'[m][1]]
        /\ HoldsMissed' /\ HoldsRespected' /\ AwaitedExpired'
        /\ expired \subseteq expired'
    BY <2>1, <2>2, RetentionAdvanced DEF objects
  <2>4. /\ busy[l] \in Objects /\ busy[l] \in expired /\ i \in Ids /\ busy[l][2] \in 1..Versions
        /\ busy[l] = <<i, busy[l][2]>> /\ busy[l][2] <= issued[i]
    BY <1>1, <2>1 DEF RetentionTypeOK, RecordsMeant, AwaitedExpired, Objects
  <2>5. /\ kept' \in [Ids -> 0..Versions] /\ kept'[i] = 0 /\ \A j \in Ids \ {i} : kept'[j] = kept[j]
    BY <1>1, <2>1, <2>4 DEF RecordsMeant
  <2>6. \A j \in Ids : kept'[j] \in {0, issued'[j]} /\ kept'[j] \in 0..issued'[j]
    <3> SUFFICES ASSUME NEW j \in Ids PROVE kept'[j] \in {0, issued'[j]} /\ kept'[j] \in 0..issued'[j]
      OBVIOUS
    <3>1. issued'[j] = issued[j] /\ issued[j] \in Nat
      BY <1>1, <2>1 DEF RetentionTypeOK
    <3>2. kept[j] \in {0, issued[j]} /\ kept[j] \in 0..issued[j]
      BY <1>1 DEF RetentionTypeOK, RecordsMeant
    <3> QED BY <2>5, <3>1, <3>2
  <2>7. HoldsMarked'
    <3>1. ASSUME NEW r \in Kept' PROVE r \in Kept
      <4>1. r \in Objects /\ kept'[r[1]] = r[2] /\ r[1] \in Ids /\ r[2] \in 1..Versions
        BY DEF Kept, Objects
      <4>2. r[1] # i
        BY <1>1, <2>5, <4>1
      <4> QED BY <2>5, <4>1, <4>2 DEF Kept
    <3> QED BY <1>1, <2>1, <3>1 DEF HoldsMarked, objects
  <2>8. NothingDroppedUnnoticed'
    <3> SUFFICES ASSUME NEW r \in dropped'
                 PROVE  \E v \in 1..Versions : v < r[2] /\ <<r[1], v>> \in expired'
      BY DEF NothingDroppedUnnoticed
    <3>1. CASE r \in dropped
      BY <1>1, <2>3, <3>1 DEF NothingDroppedUnnoticed
    <3>2. CASE r \notin dropped
      <4>1. r = gone /\ kept[i] # 0 /\ gone \notin expired
        BY <2>1, <3>2
      <4>2. kept[i] = issued[i] /\ kept[i] # busy[l][2]
        BY <1>1, <2>4, <4>1 DEF RecordsMeant
      <4>3. issued[i] \in Nat
        BY <1>1, <2>4 DEF RetentionTypeOK
      <4>4. busy[l][2] < r[2] /\ r[1] = i
        BY <1>1, <2>4, <4>1, <4>2, <4>3
      <4> QED BY <2>3, <2>4, <4>4
    <3> QED BY <3>1, <3>2
  <2> QED BY <1>1, <2>1, <2>3, <2>5, <2>6, <2>7, <2>8
          DEF RetentionInv, RetentionTypeOK, RecordsMeant, objects
<1>7. CASE UNCHANGED retentionVars
  BY <1>7 DEF retentionVars, objects, loops, history, RetentionInv, RetentionTypeOK, RecordsMeant,
              HoldsMarked, Kept, HoldsMissed, HoldsRespected, AwaitedExpired,
              NothingDroppedUnnoticed
<1> QED
  BY <1>2, <1>4, <1>5, <1>6, <1>7, RegisterRecordStep, RetentionMarkStep DEF RetentionNext

LEMMA RetentionBegun == RetentionInit => RetentionInv
<1> SUFFICES ASSUME RetentionInit PROVE RetentionInv
  OBVIOUS
<1>1. /\ Versions \in Nat
      /\ subject = [o \in Objects |-> ANON] /\ onHold = [o \in Objects |-> FALSE]
      /\ due = [o \in Objects |-> FALSE]
      /\ kept = [i \in Ids |-> 0] /\ issued = [i \in Ids |-> 0]
      /\ todo = [l \in Loops |-> {}] /\ busy = [l \in Loops |-> NOBODY]
      /\ holds = {} /\ wanted = ANON
      /\ overlooked = {} /\ expired = {} /\ broken = {} /\ dropped = {}
  BY SubjectAssumption DEF RetentionInit
<1>2. RetentionTypeOK /\ RecordsMeant
  BY <1>1 DEF RetentionTypeOK, RecordsMeant
<1>3. HoldsMarked /\ HoldsMissed /\ HoldsRespected /\ AwaitedExpired /\ NothingDroppedUnnoticed
  BY <1>1 DEF HoldsMarked, Kept, HoldsMissed, HoldsRespected, AwaitedExpired,
              NothingDroppedUnnoticed, Loops
<1> QED BY <1>2, <1>3 DEF RetentionInv

(* A loop destroys data of a subject under a hold only where the hold came  *)
(* too late, as a purge had collected the record or it had gone from the    *)
(* map: for any ids, subjects and number of records under an id, whatever   *)
(* is registered, held, released or anonymised while the loops wait (purge, *)
(* _sweep, placeLegalHold).                                                 *)
THEOREM RetentionAlwaysSafe == GuardsSpec => []RetentionSafe
<1> DEFINE Inv == part = "retention" => RetentionInv
<1>1. GuardsInit => Inv
  BY RetentionBegun DEF GuardsInit
<1>2. Inv /\ [GuardsNext]_<<part, gates, stores, onRoom, roomVars>> => Inv'
  <2> SUFFICES ASSUME Inv, [GuardsNext]_<<part, gates, stores, onRoom, roomVars>>,
                      part' = "retention"
               PROVE  RetentionInv'
    OBVIOUS
  <2>1. CASE RetentionNext /\ part = "retention"
    BY <2>1, RetentionStep
  <2>2. CASE UNCHANGED <<part, retentionVars>>
    BY <2>2, RetentionStep
  <2> QED
    BY <2>1, <2>2 DEF GuardsNext, stores
<1>3. Inv => RetentionSafe
  BY DEF RetentionInv, RetentionHolds, RetentionSafe
<1> QED
  BY <1>1, <1>2, <1>3, PTL DEF GuardsSpec

-----------------------------------------------------------------------------
(* Dead letters. *)

(* The endpoint has at most the requests that were sent.                    *)
Requests(e) ==
  /\ handled[e] + straying[e] <= attempt[e] + 1
  /\ course[e] = "unsent" \/ (course[e] = "posting" /\ e \notin answering) =>
       handled[e] + straying[e] <= attempt[e]
  /\ e \in answering => course[e] = "posting" /\ handled[e] > 0
  /\ course[e] = "waiting" => attempt[e] < Retries
  /\ course[e] = "delivered" => handled[e] > 0

RequestsMeant == \A e \in Events : Requests(e)

(* The letters of q are different ones, and above has of each those behind. *)
InOrder(q, above) ==
  \A i, j \in 1..Len(q) : i < j => q[j] \in above[q[i]] /\ q[i] # q[j]

(* A letter is written once; the queue has the letters as they came.        *)
LettersPlaced ==
  /\ \A e \in pushing \cup ToSet(dlq) : course[e] = "dead"
  /\ pushing \cap ToSet(dlq) = {}
  /\ \A e \in Events : IsFiniteSet(newer[e])
  /\ InOrder(dlq, newer)

(* WebhooksHold needs what is behind an entry in the queue: newer counts it. *)
LettersKept ==
  \A e \in Events :
    course[e] = "dead" =>
      \/ e \in ToSet(dlq) \cup pushing \cup lost
      \/ Cardinality(newer[e]) >= maxSize /\ (inRedis => maxSize > 0)

WebhooksInv == WebhooksTypeOK /\ RequestsMeant /\ LettersPlaced /\ LettersKept

LEMMA BehindCounted ==
  ASSUME NEW q \in Seq(Events), NEW above \in [Events -> SUBSET Events], InOrder(q, above),
         NEW k \in 1..Len(q), IsFiniteSet(above[q[k]])
  PROVE  Cardinality(above[q[k]]) \in Nat /\ Cardinality(above[q[k]]) >= Len(q) - k
<1> DEFINE S == k + 1..Len(q)
           f == [i \in S |-> q[i]]
<1>1. Len(q) \in Nat /\ \A i \in 1..Len(q) : q[i] \in Events
  BY LenProperties, ElementOfSeq
<1>2. ASSUME NEW i \in S PROVE i \in 1..Len(q) /\ q[i] \in above[q[k]]
  BY <1>1, <1>2 DEF InOrder
<1>3. ASSUME NEW i \in S, NEW j \in S, i # j PROVE q[i] # q[j]
  <2>1. CASE i < j
    BY <1>2, <2>1 DEF InOrder
  <2>2. CASE j < i
    BY <1>2, <2>2 DEF InOrder
  <2> QED BY <1>1, <1>3, <2>1, <2>2
<1>4. f \in Injection(S, above[q[k]])
  BY <1>2, <1>3 DEF Injection, IsInjective
<1>5. IsFiniteSet(S) /\ Cardinality(S) = Len(q) - k
  <2>1. k + 1 \in Int /\ Len(q) \in Int
    BY <1>1
  <2>2. IsFiniteSet(S) /\ Cardinality(S) = IF k + 1 > Len(q) THEN 0 ELSE Len(q) - (k + 1) + 1
    BY <2>1, FS_Interval
  <2> QED BY <1>1, <2>2
<1> HIDE DEF f, S
<1>6. Cardinality(S) <= Cardinality(above[q[k]])
  BY <1>4, FS_Injection
<1>7. Cardinality(above[q[k]]) \in Nat
  BY FS_CardinalityType
<1> QED BY <1>1, <1>5, <1>6, <1>7

(* The oldest letters go; cut is what stays of q.                           *)
LEMMA LettersCut ==
  ASSUME NEW q \in Seq(Events), NEW above \in [Events -> SUBSET Events], InOrder(q, above),
         \A e \in Events : IsFiniteSet(above[e]),
         NEW k \in 0..Len(q), NEW cut \in Seq(Events), Len(cut) = Len(q) - k,
         \A i \in 1..Len(cut) : cut[i] = q[i + k]
  PROVE  /\ InOrder(cut, above) /\ ToSet(cut) \subseteq ToSet(q)
         /\ \A e \in ToSet(q) \ ToSet(cut) :
              Cardinality(above[e]) \in Nat /\ Cardinality(above[e]) >= Len(q) - k
<1>1. /\ Len(q) \in Nat /\ Len(cut) \in Nat /\ \A i \in 1..Len(q) : q[i] \in Events
      /\ DOMAIN q = 1..Len(q) /\ DOMAIN cut = 1..Len(cut)
  BY LenProperties, ElementOfSeq
<1>2. \A i \in 1..Len(cut) : i + k \in 1..Len(q)
  BY <1>1
<1>3. InOrder(cut, above)
  <2> SUFFICES ASSUME NEW i \in 1..Len(cut), NEW j \in 1..Len(cut), i < j
               PROVE  cut[j] \in above[cut[i]] /\ cut[i] # cut[j]
    BY DEF InOrder
  <2>1. i + k < j + k
    BY <1>1
  <2> QED BY <1>2, <2>1 DEF InOrder
<1>4. ToSet(cut) \subseteq ToSet(q)
  BY <1>1, <1>2 DEF ToSet
<1>5. ASSUME NEW e \in ToSet(q) \ ToSet(cut)
      PROVE  Cardinality(above[e]) \in Nat /\ Cardinality(above[e]) >= Len(q) - k
  <2>1. PICK i \in 1..Len(q) : q[i] = e
    BY <1>1 DEF ToSet
  <2>2. i <= k
    <3> SUFFICES ASSUME i > k PROVE FALSE
      BY <1>1
    <3>1. i - k \in 1..Len(cut) /\ (i - k) + k = i
      BY <1>1
    <3>2. cut[i - k] = e
      BY <2>1, <3>1
    <3> QED BY <1>1, <1>5, <3>1, <3>2 DEF ToSet
  <2>3. Cardinality(above[e]) \in Nat /\ Cardinality(above[e]) >= Len(q) - i
    BY <1>1, <2>1, BehindCounted
  <2> QED BY <1>1, <2>2, <2>3
<1> QED BY <1>3, <1>4, <1>5

(* A letter comes in behind all others.                                     *)
LEMMA LettersAppended ==
  ASSUME WebhooksInv, NEW e \in Events, e \notin ToSet(dlq), Behind(e), NEW q, q = Append(dlq, e)
  PROVE  /\ q \in Seq(Events) /\ Len(dlq) \in Nat /\ Len(q) = Len(dlq) + 1
         /\ ToSet(q) = ToSet(dlq) \cup {e}
         /\ newer' \in [Events -> SUBSET Events] /\ InOrder(q, newer')
         /\ \A d \in Events :
              /\ IsFiniteSet(newer'[d])
              /\ Cardinality(newer[d]) \in Nat /\ Cardinality(newer'[d]) \in Nat
              /\ Cardinality(newer[d]) <= Cardinality(newer'[d])
<1>1. /\ dlq \in Seq(Events) /\ newer \in [Events -> SUBSET Events] /\ InOrder(dlq, newer)
      /\ \A d \in Events : IsFiniteSet(newer[d])
  BY DEF WebhooksInv, WebhooksTypeOK, LettersPlaced
<1>2. /\ Len(dlq) \in Nat /\ q \in Seq(Events) /\ Len(q) = Len(dlq) + 1
      /\ \A i \in 1..Len(dlq) : q[i] = dlq[i]
      /\ q[Len(dlq) + 1] = e
  BY <1>1, Appended
<1>3. DOMAIN q = 1..Len(q) /\ DOMAIN dlq = 1..Len(dlq) /\ \A i \in 1..Len(dlq) : dlq[i] \in Events
  BY <1>1, <1>2, LenProperties, ElementOfSeq
<1>4. ToSet(q) = ToSet(dlq) \cup {e}
  <2>1. \A i \in 1..Len(q) : q[i] \in ToSet(dlq) \cup {e}
    BY <1>2, <1>3 DEF ToSet
  <2>2. Len(q) \in 1..Len(q) /\ \A i \in 1..Len(dlq) : i \in 1..Len(q)
    BY <1>2
  <2> QED BY <1>2, <1>3, <2>1, <2>2 DEF ToSet
<1>5. newer' = [d \in Events |-> IF d \in ToSet(dlq) THEN newer[d] \cup {e} ELSE newer[d]]
  BY DEF Behind
<1>6. newer' \in [Events -> SUBSET Events]
  BY <1>1, <1>5
<1>7. InOrder(q, newer')
  <2> SUFFICES ASSUME NEW i \in 1..Len(q), NEW j \in 1..Len(q), i < j
               PROVE  q[j] \in newer'[q[i]] /\ q[i] # q[j]
    BY DEF InOrder
  <2>1. i \in 1..Len(dlq) /\ q[i] = dlq[i] /\ dlq[i] \in ToSet(dlq) /\ dlq[i] \in Events
    BY <1>2, <1>3 DEF ToSet
  <2>2. newer'[q[i]] = newer[q[i]] \cup {e}
    BY <1>5, <2>1
  <2>3. CASE j \in 1..Len(dlq)
    BY <1>1, <1>2, <2>1, <2>2, <2>3 DEF InOrder
  <2>4. CASE j \notin 1..Len(dlq)
    <3>1. q[j] = e
      BY <1>2, <2>4
    <3> QED BY <2>1, <2>2, <3>1
  <2> QED BY <2>3, <2>4
<1>8. ASSUME NEW d \in Events
      PROVE  /\ IsFiniteSet(newer'[d])
             /\ Cardinality(newer[d]) \in Nat /\ Cardinality(newer'[d]) \in Nat
             /\ Cardinality(newer[d]) <= Cardinality(newer'[d])
  <2>1. IsFiniteSet(newer[d]) /\ Cardinality(newer[d]) \in Nat
    BY <1>1, FS_CardinalityType
  <2>2. /\ IsFiniteSet(newer[d] \cup {e})
        /\ Cardinality(newer[d] \cup {e}) = IF e \in newer[d] THEN Cardinality(newer[d])
                                            ELSE Cardinality(newer[d]) + 1
    BY <2>1, FS_AddElement
  <2>3. newer'[d] = newer[d] \cup {e} \/ newer'[d] = newer[d]
    BY <1>5
  <2>4. CASE newer'[d] = newer[d]
    BY <2>1, <2>4
  <2>5. CASE newer'[d] = newer[d] \cup {e}
    BY <2>1, <2>2, <2>5
  <2> QED BY <2>3, <2>4, <2>5
<1> QED BY <1>2, <1>4, <1>6, <1>7, <1>8

(* Nothing comes in or goes.                                                *)
LEMMA WebhooksUnqueued ==
  ASSUME WebhooksInv, UNCHANGED queue, UNCHANGED <<inRedis, maxSize>>,
         \A d \in Events : course'[d] = "dead" <=> course[d] = "dead"
  PROVE  /\ dlq' \in Seq(Events) /\ pushing' \cup trimming' \cup lost' \subseteq Events
         /\ newer' \in [Events -> SUBSET Events]
         /\ LettersPlaced' /\ LettersKept'
<1>1. UNCHANGED <<dlq, pushing, trimming, newer, lost>> /\ WebhooksTypeOK /\ LettersPlaced /\ LettersKept
  BY DEF queue, WebhooksInv
<1>2. \A d \in pushing \cup ToSet(dlq) : d \in Events
  <2>1. \A i \in 1..Len(dlq) : dlq[i] \in Events
    BY <1>1, ElementOfSeq DEF WebhooksTypeOK
  <2>2. DOMAIN dlq = 1..Len(dlq)
    BY <1>1, LenProperties DEF WebhooksTypeOK
  <2> QED BY <1>1, <2>1, <2>2 DEF WebhooksTypeOK, ToSet
<1>3. LettersPlaced'
  BY <1>1, <1>2 DEF LettersPlaced
<1>4. LettersKept'
  BY <1>1 DEF LettersKept
<1> QED BY <1>1, <1>3, <1>4 DEF WebhooksTypeOK

(* What a step does to one delivery but for the queue.                      *)
LEMMA RequestsStep ==
  ASSUME WebhooksInv, NEW e \in Events,
         \/ Dispatch(e) \/ Arrives(e) \/ Strays(e) \/ Succeeds(e) \/ IsCut(e)
         \/ Refused(e) \/ Retry(e)
  PROVE  /\ course' \in [Events -> {"unsent", "posting", "waiting", "delivered", "dead", "cut"}]
         /\ attempt' \in [Events -> 0..Retries]
         /\ straying' \in [Events -> 0..Retries + 1] /\ handled' \in [Events -> 0..Retries + 1]
         /\ answering' \subseteq Events /\ inRedis' \in BOOLEAN /\ maxSize' \in 0..MaxDead
         /\ RequestsMeant'
         /\ \A d \in Events \ {e} : course'[d] = course[d]
<1>1. /\ WebhooksTypeOK /\ RequestsMeant /\ Retries \in Nat
  BY WebhooksAssumption DEF WebhooksInv
<1>2. /\ course \in [Events -> {"unsent", "posting", "waiting", "delivered", "dead", "cut"}]
      /\ attempt \in [Events -> 0..Retries]
      /\ straying \in [Events -> 0..Retries + 1] /\ handled \in [Events -> 0..Retries + 1]
      /\ answering \subseteq Events /\ inRedis \in BOOLEAN /\ maxSize \in 0..MaxDead
  BY <1>1 DEF WebhooksTypeOK
<1>3. \A d \in Events : Requests(d)
  BY <1>1 DEF RequestsMeant
<1>4. /\ course[e] \in {"unsent", "posting", "waiting", "delivered", "dead", "cut"}
      /\ attempt[e] \in 0..Retries /\ straying[e] \in 0..Retries + 1 /\ handled[e] \in 0..Retries + 1
      /\ handled[e] + straying[e] <= attempt[e] + 1
      /\ course[e] = "unsent" \/ (course[e] = "posting" /\ e \notin answering) =>
           handled[e] + straying[e] <= attempt[e]
      /\ e \in answering => course[e] = "posting" /\ handled[e] > 0
      /\ course[e] = "waiting" => attempt[e] < Retries
      /\ course[e] = "delivered" => handled[e] > 0
  BY <1>2, <1>3 DEF Requests
<1>5. ASSUME NEW c \in {"unsent", "posting", "waiting", "delivered", "dead", "cut"},
             NEW a \in 0..Retries, NEW s \in 0..Retries + 1, NEW h \in 0..Retries + 1,
             course' = [course EXCEPT ![e] = c], attempt' = [attempt EXCEPT ![e] = a],
             straying' = [straying EXCEPT ![e] = s], handled' = [handled EXCEPT ![e] = h],
             answering' \subseteq Events, \A d \in Events \ {e} : d \in answering' <=> d \in answering,
             UNCHANGED <<inRedis, maxSize>>,
             h + s <= a + 1,
             c = "unsent" \/ (c = "posting" /\ e \notin answering') => h + s <= a,
             e \in answering' => c = "posting" /\ h > 0,
             c = "waiting" => a < Retries,
             c = "delivered" => h > 0
      PROVE  /\ course' \in [Events -> {"unsent", "posting", "waiting", "delivered", "dead", "cut"}]
             /\ attempt' \in [Events -> 0..Retries]
             /\ straying' \in [Events -> 0..Retries + 1] /\ handled' \in [Events -> 0..Retries + 1]
             /\ answering' \subseteq Events /\ inRedis' \in BOOLEAN /\ maxSize' \in 0..MaxDead
             /\ RequestsMeant'
             /\ \A d \in Events \ {e} : course'[d] = course[d]
  <2>1. /\ course' \in [Events -> {"unsent", "posting", "waiting", "delivered", "dead", "cut"}]
        /\ attempt' \in [Events -> 0..Retries]
        /\ straying' \in [Events -> 0..Retries + 1] /\ handled' \in [Events -> 0..Retries + 1]
        /\ answering' \subseteq Events /\ inRedis' \in BOOLEAN /\ maxSize' \in 0..MaxDead
    BY <1>2, <1>5
  <2>2. course'[e] = c /\ attempt'[e] = a /\ straying'[e] = s /\ handled'[e] = h
    BY <1>2, <1>5
  <2>3. \A d \in Events \ {e} : /\ course'[d] = course[d] /\ attempt'[d] = attempt[d]
                                /\ straying'[d] = straying[d] /\ handled'[d] = handled[d]
    BY <1>2, <1>5
  <2>4. Requests(e)'
    BY <1>5, <2>2 DEF Requests
  <2>5. \A d \in Events \ {e} : Requests(d)'
    BY <1>3, <1>5, <2>3 DEF Requests
  <2> QED BY <2>1, <2>3, <2>4, <2>5 DEF RequestsMeant
<1>6. /\ course = [course EXCEPT ![e] = course[e]] /\ attempt = [attempt EXCEPT ![e] = attempt[e]]
      /\ straying = [straying EXCEPT ![e] = straying[e]]
      /\ handled = [handled EXCEPT ![e] = handled[e]]
  BY <1>2
<1>7. CASE Dispatch(e)
  <2>1. /\ course' = [course EXCEPT ![e] = "posting"] /\ course[e] = "unsent"
        /\ UNCHANGED <<attempt, answering, straying, handled, inRedis, maxSize>>
    BY <1>7 DEF Dispatch, Goes, options
  <2> QED BY <1>2, <1>4, <1>5, <1>6, <2>1
<1>8. CASE Arrives(e)
  <2>1. /\ course[e] = "posting" /\ e \notin answering /\ answering' = answering \cup {e}
        /\ handled' = [handled EXCEPT ![e] = handled[e] + 1]
        /\ UNCHANGED <<course, attempt, straying, inRedis, maxSize>>
    BY <1>8 DEF Arrives, options
  <2>2. /\ handled[e] + 1 \in 0..Retries + 1 /\ handled[e] + 1 + straying[e] <= attempt[e] + 1
        /\ handled[e] + 1 > 0
    BY <1>1, <1>4, <2>1
  <2>3. \A d \in Events \ {e} : d \in answering' <=> d \in answering
    BY <2>1
  <2>4. answering' \subseteq Events /\ e \in answering'
    BY <1>2, <2>1
  <2> QED BY <1>4, <1>5, <1>6, <2>1, <2>2, <2>3, <2>4
<1>9. CASE Strays(e)
  <2>1. /\ straying[e] > 0 /\ straying' = [straying EXCEPT ![e] = straying[e] - 1]
        /\ handled' = [handled EXCEPT ![e] = handled[e] + 1]
        /\ UNCHANGED <<course, attempt, answering, inRedis, maxSize>>
    BY <1>9 DEF Strays, options
  <2>2. /\ handled[e] + 1 \in 0..Retries + 1 /\ straying[e] - 1 \in 0..Retries + 1
        /\ (handled[e] + 1) + (straying[e] - 1) = handled[e] + straying[e]
        /\ handled[e] + 1 > 0
    BY <1>1, <1>4, <2>1
  <2> QED BY <1>2, <1>4, <1>5, <1>6, <2>1, <2>2
<1>10. CASE Succeeds(e)
  <2>1. /\ course[e] = "posting" /\ e \in answering /\ answering' = answering \ {e}
        /\ UNCHANGED <<attempt, straying, handled, inRedis, maxSize>>
        /\ \/ course' = [course EXCEPT ![e] = "delivered"]
           \/ attempt[e] < Retries /\ course' = [course EXCEPT ![e] = "waiting"]
           \/ course' = [course EXCEPT ![e] = "dead"]
    BY <1>10 DEF Succeeds, Fails, Goes, options
  <2>2. \A d \in Events \ {e} : d \in answering' <=> d \in answering
    BY <2>1
  <2>3. answering' \subseteq Events /\ e \notin answering'
    BY <1>2, <2>1
  <2>4. PICK c \in {"delivered", "waiting", "dead"} :
          course' = [course EXCEPT ![e] = c] /\ (c = "waiting" => attempt[e] < Retries)
    BY <2>1
  <2>5. /\ attempt' = [attempt EXCEPT ![e] = attempt[e]]
        /\ straying' = [straying EXCEPT ![e] = straying[e]]
        /\ handled' = [handled EXCEPT ![e] = handled[e]]
        /\ UNCHANGED <<inRedis, maxSize>>
    BY <1>6, <2>1
  <2>6. /\ attempt[e] \in 0..Retries /\ straying[e] \in 0..Retries + 1
        /\ handled[e] \in 0..Retries + 1 /\ handled[e] > 0
        /\ handled[e] + straying[e] <= attempt[e] + 1
    BY <1>4, <2>1
  <2>7. c \in {"unsent", "posting", "waiting", "delivered", "dead", "cut"} /\ c # "unsent" /\ c # "posting"
    OBVIOUS
  <2> QED BY <1>5, <2>2, <2>3, <2>4, <2>5, <2>6, <2>7
<1>11. CASE IsCut(e)
  <2>1. /\ course[e] = "posting" /\ e \in answering /\ answering' = answering \ {e}
        /\ course' = [course EXCEPT ![e] = "cut"]
        /\ UNCHANGED <<attempt, straying, handled, inRedis, maxSize>>
    BY <1>11 DEF IsCut, Goes, options
  <2>2. \A d \in Events \ {e} : d \in answering' <=> d \in answering
    BY <2>1
  <2>3. answering' \subseteq Events /\ e \notin answering'
    BY <1>2, <2>1
  <2> QED BY <1>4, <1>5, <1>6, <2>1, <2>2, <2>3
<1>12. CASE Refused(e)
  <2>1. /\ course[e] = "posting" /\ answering' = answering \ {e}
        /\ UNCHANGED <<attempt, handled, inRedis, maxSize>>
        /\ \/ attempt[e] < Retries /\ course' = [course EXCEPT ![e] = "waiting"]
           \/ course' = [course EXCEPT ![e] = "dead"]
    BY <1>12 DEF Refused, Fails, Goes, options
  <2>2. \/ straying' = [straying EXCEPT ![e] = straying[e]]
        \/ e \notin answering /\ straying' = [straying EXCEPT ![e] = straying[e] + 1]
    BY <1>6, <1>12 DEF Refused
  <2>3. PICK s \in {straying[e], straying[e] + 1} :
          /\ straying' = [straying EXCEPT ![e] = s]
          /\ s = straying[e] \/ e \notin answering
    BY <2>2
  <2>4. s \in 0..Retries + 1 /\ handled[e] + s <= attempt[e] + 1
    BY <1>1, <1>4, <2>1, <2>3
  <2>5. \A d \in Events \ {e} : d \in answering' <=> d \in answering
    BY <2>1
  <2>6. answering' \subseteq Events /\ e \notin answering'
    BY <1>2, <2>1
  <2>7. PICK c \in {"waiting", "dead"} :
          course' = [course EXCEPT ![e] = c] /\ (c = "waiting" => attempt[e] < Retries)
    BY <2>1
  <2> QED BY <1>4, <1>5, <1>6, <2>1, <2>3, <2>4, <2>5, <2>6, <2>7
<1>13. CASE Retry(e)
  <2>1. /\ course[e] = "waiting" /\ course' = [course EXCEPT ![e] = "posting"]
        /\ attempt' = [attempt EXCEPT ![e] = attempt[e] + 1]
        /\ UNCHANGED <<answering, straying, handled, inRedis, maxSize>>
    BY <1>13 DEF Retry, Goes, options
  <2>2. attempt[e] + 1 \in 0..Retries /\ handled[e] + straying[e] <= attempt[e] + 1
        /\ handled[e] + straying[e] <= (attempt[e] + 1) + 1
    BY <1>1, <1>4, <2>1
  <2> DEFINE again == attempt[e] + 1
  <2>3. /\ again \in 0..Retries /\ handled[e] \in 0..Retries + 1 /\ straying[e] \in 0..Retries + 1
        /\ handled[e] + straying[e] <= again /\ handled[e] + straying[e] <= again + 1
        /\ attempt' = [attempt EXCEPT ![e] = again]
        /\ straying' = [straying EXCEPT ![e] = straying[e]]
        /\ handled' = [handled EXCEPT ![e] = handled[e]]
    BY <1>4, <1>6, <2>1, <2>2
  <2> HIDE DEF again
  <2>4. /\ e \notin answering' /\ answering' \subseteq Events
        /\ \A d \in Events \ {e} : d \in answering' <=> d \in answering
    BY <1>2, <1>4, <2>1
  <2> QED BY <1>5, <2>1, <2>3, <2>4
<1> QED BY <1>7, <1>8, <1>9, <1>10, <1>11, <1>12, <1>13

(* A letter that is written has its place, whichever store it is in.        *)
LEMMA LettersWritten ==
  ASSUME WebhooksInv, NEW e \in Events, e \notin ToSet(dlq), Behind(e),
         course' \in [Events -> {"unsent", "posting", "waiting", "delivered", "dead", "cut"}],
         course'[e] = "dead", \A d \in Events \ {e} : course'[d] = course[d],
         course[e] = "dead" => e \in pushing,
         pushing' = pushing \ {e}, UNCHANGED lost,
         UNCHANGED <<inRedis, maxSize>>,
         \/ dlq' = Append(dlq, e)
         \/ ~inRedis /\ Len(dlq) + 1 > maxSize /\ dlq' = Tail(Append(dlq, e))
  PROVE  /\ dlq' \in Seq(Events) /\ newer' \in [Events -> SUBSET Events]
         /\ LettersPlaced' /\ LettersKept'
<1> DEFINE q == Append(dlq, e)
<1>1. WebhooksTypeOK /\ LettersPlaced /\ LettersKept /\ maxSize \in Nat /\ inRedis \in BOOLEAN
  BY WebhooksAssumption DEF WebhooksInv, WebhooksTypeOK
<1>2. /\ q \in Seq(Events) /\ Len(dlq) \in Nat /\ Len(q) = Len(dlq) + 1
      /\ ToSet(q) = ToSet(dlq) \cup {e}
      /\ newer' \in [Events -> SUBSET Events] /\ InOrder(q, newer')
      /\ \A d \in Events :
           /\ IsFiniteSet(newer'[d])
           /\ Cardinality(newer[d]) \in Nat /\ Cardinality(newer'[d]) \in Nat
           /\ Cardinality(newer[d]) <= Cardinality(newer'[d])
  BY LettersAppended
<1> HIDE DEF q
<1>3. /\ dlq' \in Seq(Events) /\ InOrder(dlq', newer') /\ ToSet(dlq') \subseteq ToSet(q)
      /\ \A d \in ToSet(q) \ ToSet(dlq') : Cardinality(newer'[d]) >= maxSize /\ ~inRedis
  <2>1. CASE dlq' = q
    BY <1>2, <2>1, SMTT(40)
  <2>2. CASE ~inRedis /\ Len(dlq) + 1 > maxSize /\ dlq' = Tail(q)
    <3>1. q # << >>
      BY <1>2, EmptySeq
    <3>2. /\ Tail(q) \in Seq(Events) /\ Len(Tail(q)) = Len(q) - 1
          /\ \A i \in 1..Len(q) - 1 : Tail(q)[i] = q[i + 1]
      BY <1>2, <3>1, Popped
    <3>3. 1 \in 0..Len(q) /\ \A i \in 1..Len(Tail(q)) : Tail(q)[i] = q[i + 1]
      BY <1>2, <3>2
    <3>4. /\ InOrder(Tail(q), newer') /\ ToSet(Tail(q)) \subseteq ToSet(q)
          /\ \A d \in ToSet(q) \ ToSet(Tail(q)) :
               Cardinality(newer'[d]) \in Nat /\ Cardinality(newer'[d]) >= Len(q) - 1
      BY <1>2, <3>2, <3>3, LettersCut
    <3>5. Len(q) - 1 >= maxSize
      BY <1>1, <1>2, <2>2
    <3>6. \A d \in ToSet(q) \ ToSet(Tail(q)) : Cardinality(newer'[d]) >= maxSize
      BY <1>1, <1>2, <3>4, <3>5
    <3> QED BY <2>2, <3>2, <3>4, <3>6
  <2> QED BY <2>1, <2>2 DEF q
<1>4. \A d \in pushing \cup ToSet(dlq) : d \in Events
  <2>1. \A i \in 1..Len(dlq) : dlq[i] \in Events
    BY <1>1, ElementOfSeq DEF WebhooksTypeOK
  <2>2. DOMAIN dlq = 1..Len(dlq)
    BY <1>1, LenProperties DEF WebhooksTypeOK
  <2> QED BY <1>1, <2>1, <2>2 DEF WebhooksTypeOK, ToSet
<1>5. \A d \in pushing \cup ToSet(q) : course'[d] = "dead"
  BY <1>1, <1>2, <1>4 DEF LettersPlaced
<1>6. LettersPlaced'
  BY <1>1, <1>2, <1>3, <1>5 DEF LettersPlaced
<1>7. LettersKept'
  <2> SUFFICES ASSUME NEW d \in Events, course'[d] = "dead"
               PROVE  \/ d \in ToSet(dlq') \cup pushing' \cup lost'
                      \/ Cardinality(newer'[d]) >= maxSize /\ (inRedis => maxSize > 0)
    BY DEF LettersKept
  <2>1. CASE d \in ToSet(q)
    BY <1>3, <2>1
  <2>2. CASE d \notin ToSet(q)
    <3>1. d # e /\ course[d] = "dead" /\ d \notin ToSet(dlq)
      BY <1>2, <2>2
    <3>2. d \in pushing \cup lost \/ (Cardinality(newer[d]) >= maxSize /\ (inRedis => maxSize > 0))
      BY <1>1, <3>1 DEF LettersKept
    <3> QED BY <1>1, <1>2, <3>1, <3>2
  <2> QED BY <2>1, <2>2
<1> QED BY <1>2, <1>3, <1>6, <1>7

LEMMA WebhooksStep ==
  ASSUME WebhooksInv, [WebhooksNext]_webhooksVars
  PROVE  WebhooksInv'
<1>1. /\ WebhooksTypeOK /\ RequestsMeant /\ LettersPlaced /\ LettersKept
      /\ Retries \in Nat /\ maxSize \in Nat /\ maxSize \in 0..MaxDead /\ inRedis \in BOOLEAN
  BY WebhooksAssumption DEF WebhooksInv, WebhooksTypeOK
<1>2. \A d \in pushing \cup ToSet(dlq) : d \in Events /\ course[d] = "dead"
  <2>1. \A i \in 1..Len(dlq) : dlq[i] \in Events
    BY <1>1, ElementOfSeq DEF WebhooksTypeOK
  <2>2. DOMAIN dlq = 1..Len(dlq)
    BY <1>1, LenProperties DEF WebhooksTypeOK
  <2> QED BY <1>1, <2>1, <2>2 DEF WebhooksTypeOK, ToSet, LettersPlaced
<1>3. ASSUME NEW e \in Events,
             Dispatch(e) \/ Arrives(e) \/ Strays(e) \/ IsCut(e) \/ Retry(e)
      PROVE  WebhooksInv'
  <2>1. /\ course' \in [Events -> {"unsent", "posting", "waiting", "delivered", "dead", "cut"}]
        /\ attempt' \in [Events -> 0..Retries]
        /\ straying' \in [Events -> 0..Retries + 1] /\ handled' \in [Events -> 0..Retries + 1]
        /\ answering' \subseteq Events /\ inRedis' \in BOOLEAN /\ maxSize' \in 0..MaxDead
        /\ RequestsMeant'
        /\ \A d \in Events \ {e} : course'[d] = course[d]
    BY <1>3, RequestsStep
  <2>2. /\ UNCHANGED queue /\ UNCHANGED options
        /\ course'[e] = "dead" <=> course[e] = "dead"
    BY <1>1, <1>3 DEF Dispatch, Arrives, Strays, IsCut, Retry, Goes, WebhooksTypeOK
  <2>3. \A d \in Events : course'[d] = "dead" <=> course[d] = "dead"
    BY <2>1, <2>2
  <2>4. /\ dlq' \in Seq(Events) /\ pushing' \cup trimming' \cup lost' \subseteq Events
        /\ newer' \in [Events -> SUBSET Events]
        /\ LettersPlaced' /\ LettersKept'
    BY <2>2, <2>3, WebhooksUnqueued DEF options
  <2> QED BY <2>1, <2>4 DEF WebhooksInv, WebhooksTypeOK
<1>4. ASSUME NEW e \in Events, Refused(e) \/ Succeeds(e) PROVE WebhooksInv'
  <2>1. /\ course' \in [Events -> {"unsent", "posting", "waiting", "delivered", "dead", "cut"}]
        /\ attempt' \in [Events -> 0..Retries]
        /\ straying' \in [Events -> 0..Retries + 1] /\ handled' \in [Events -> 0..Retries + 1]
        /\ answering' \subseteq Events /\ inRedis' \in BOOLEAN /\ maxSize' \in 0..MaxDead
        /\ RequestsMeant'
        /\ \A d \in Events \ {e} : course'[d] = course[d]
    BY <1>4, RequestsStep
  <2>2. /\ course[e] = "posting" /\ e \notin pushing \cup ToSet(dlq)
        /\ UNCHANGED <<inRedis, maxSize>>
        /\ \/ course'[e] \in {"waiting", "delivered"} /\ UNCHANGED queue
           \/ course'[e] = "dead" /\ Bury(e)
    BY <1>1, <1>2, <1>4 DEF Refused, Succeeds, Fails, Goes, options, WebhooksTypeOK
  <2>3. /\ dlq' \in Seq(Events) /\ pushing' \cup trimming' \cup lost' \subseteq Events
        /\ newer' \in [Events -> SUBSET Events]
        /\ LettersPlaced' /\ LettersKept'
    <3>1. CASE course'[e] \in {"waiting", "delivered"} /\ UNCHANGED queue
      <4>1. \A d \in Events : course'[d] = "dead" <=> course[d] = "dead"
        BY <2>1, <2>2, <3>1
      <4> QED BY <2>2, <3>1, <4>1, WebhooksUnqueued
    <3>2. CASE course'[e] = "dead" /\ Bury(e) /\ inRedis
      <4>1. pushing' = pushing \cup {e} /\ UNCHANGED <<dlq, newer, trimming, lost>>
        BY <3>2 DEF Bury
      <4>2. \A d \in pushing' \cup ToSet(dlq) : course'[d] = "dead"
        BY <1>2, <2>1, <3>2, <4>1
      <4>3. LettersPlaced'
        BY <1>1, <2>2, <4>1, <4>2 DEF LettersPlaced
      <4>4. LettersKept'
        <5> SUFFICES ASSUME NEW d \in Events, course'[d] = "dead"
                     PROVE  \/ d \in ToSet(dlq) \cup pushing' \cup lost
                            \/ Cardinality(newer[d]) >= maxSize /\ (inRedis => maxSize > 0)
          BY <2>2, <4>1 DEF LettersKept
        <5> QED BY <1>1, <2>1, <4>1 DEF LettersKept
      <4> QED BY <1>1, <4>1, <4>3, <4>4 DEF WebhooksTypeOK
    <3>3. CASE course'[e] = "dead" /\ Bury(e) /\ ~inRedis
      <4>1. /\ \/ dlq' = Append(dlq, e)
               \/ ~inRedis /\ Len(dlq) + 1 > maxSize /\ dlq' = Tail(Append(dlq, e))
            /\ Behind(e) /\ pushing' = pushing \ {e} /\ UNCHANGED <<trimming, lost>>
        BY <2>2, <3>3 DEF Bury
      <4>2. /\ dlq' \in Seq(Events) /\ newer' \in [Events -> SUBSET Events]
            /\ LettersPlaced' /\ LettersKept'
        BY <2>1, <2>2, <3>3, <4>1, LettersWritten
      <4> QED BY <1>1, <4>1, <4>2 DEF WebhooksTypeOK
    <3> QED BY <2>2, <3>1, <3>2, <3>3
  <2> QED BY <2>1, <2>3 DEF WebhooksInv, WebhooksTypeOK
<1>5. ASSUME NEW e \in Events, Push(e) PROVE WebhooksInv'
  <2>1. /\ e \in pushing /\ pushing' = pushing \ {e}
        /\ UNCHANGED <<course, attempt, answering, straying, handled, inRedis, maxSize>>
    BY <1>5 DEF Push, options
  <2>2. RequestsMeant'
    BY <1>1, <2>1 DEF RequestsMeant, Requests
  <2>3. e \notin ToSet(dlq) /\ course[e] = "dead"
    BY <1>1, <2>1 DEF LettersPlaced
  <2>4. /\ dlq' \in Seq(Events) /\ pushing' \cup trimming' \cup lost' \subseteq Events
        /\ newer' \in [Events -> SUBSET Events]
        /\ LettersPlaced' /\ LettersKept'
    <3>1. CASE dlq' = Append(dlq, e) /\ Behind(e) /\ trimming' = trimming \cup {e} /\ UNCHANGED lost
      <4>1. course' \in [Events -> {"unsent", "posting", "waiting", "delivered", "dead", "cut"}]
        BY <1>1, <2>1 DEF WebhooksTypeOK
      <4>2. /\ dlq' \in Seq(Events) /\ newer' \in [Events -> SUBSET Events]
            /\ LettersPlaced' /\ LettersKept'
        BY <2>1, <2>3, <3>1, <4>1, LettersWritten
      <4> QED BY <1>1, <2>1, <3>1, <4>2 DEF WebhooksTypeOK
    <3>2. CASE lost' = lost \cup {e} /\ UNCHANGED <<dlq, newer, trimming>>
      <4>1. LettersPlaced'
        BY <1>1, <2>1, <3>2 DEF LettersPlaced
      <4>2. LettersKept'
        BY <1>1, <2>1, <3>2 DEF LettersKept
      <4> QED BY <1>1, <2>1, <3>2, <4>1, <4>2 DEF WebhooksTypeOK
    <3> QED BY <1>5, <3>1, <3>2 DEF Push
  <2> QED BY <1>1, <2>1, <2>2, <2>4 DEF WebhooksInv, WebhooksTypeOK
<1>6. ASSUME NEW e \in Events, TrimLetters(e) PROVE WebhooksInv'
  <2> DEFINE k == IF Len(dlq) > maxSize THEN Len(dlq) - maxSize ELSE 0
             cut == SubSeq(dlq, IF Len(dlq) > maxSize THEN Len(dlq) - maxSize + 1 ELSE 1, Len(dlq))
  <2>1. /\ trimming' = trimming \ {e}
        /\ \/ maxSize > 0 /\ dlq' = cut
           \/ dlq' = dlq
        /\ UNCHANGED <<course, attempt, answering, straying, handled, inRedis, maxSize, pushing, newer, lost>>
    BY <1>6 DEF TrimLetters, options
  <2>2. RequestsMeant'
    BY <1>1, <2>1 DEF RequestsMeant, Requests
  <2>3. Len(dlq) \in Nat /\ k \in 0..Len(dlq) /\ (k # 0 => Len(dlq) - k >= maxSize)
    BY <1>1, LenProperties DEF WebhooksTypeOK
  <2>4. /\ dlq' \in Seq(Events) /\ InOrder(dlq', newer) /\ ToSet(dlq') \subseteq ToSet(dlq)
        /\ \A d \in ToSet(dlq) \ ToSet(dlq') : Cardinality(newer[d]) >= maxSize /\ maxSize > 0
    <3>1. CASE dlq' = dlq
      BY <1>1, <3>1 DEF WebhooksTypeOK, LettersPlaced
    <3>2. CASE maxSize > 0 /\ dlq' = cut
      <4>1. cut = SubSeq(dlq, k + 1, Len(dlq))
        BY <2>3
      <4> HIDE DEF cut, k
      <4>2. \A i \in k + 1..Len(dlq) : dlq[i] \in Events
        BY <1>1, <2>3, ElementOfSeq DEF WebhooksTypeOK
      <4>3. k + 1 \in Int /\ Len(dlq) \in Int
        BY <2>3
      <4>4. /\ cut \in Seq(Events)
            /\ Len(cut) = IF k + 1 <= Len(dlq) THEN Len(dlq) - (k + 1) + 1 ELSE 0
            /\ \A i \in 1..Len(dlq) - (k + 1) + 1 : cut[i] = dlq[(k + 1) + i - 1]
        BY <4>1, <4>2, <4>3, SubSeqProperties
      <4>5. Len(cut) = Len(dlq) - k /\ \A i \in 1..Len(cut) : cut[i] = dlq[i + k]
        <5>1. Len(cut) = Len(dlq) - k
          BY <2>3, <4>4
        <5>2. \A i \in 1..Len(cut) : i \in 1..Len(dlq) - (k + 1) + 1 /\ (k + 1) + i - 1 = i + k
          BY <2>3, <5>1
        <5> QED BY <4>4, <5>1, <5>2
      <4>6. /\ newer \in [Events -> SUBSET Events] /\ InOrder(dlq, newer)
            /\ \A d \in Events : IsFiniteSet(newer[d])
            /\ dlq \in Seq(Events)
        BY <1>1 DEF WebhooksTypeOK, LettersPlaced
      <4>7. /\ InOrder(cut, newer) /\ ToSet(cut) \subseteq ToSet(dlq)
            /\ \A d \in ToSet(dlq) \ ToSet(cut) :
                 Cardinality(newer[d]) \in Nat /\ Cardinality(newer[d]) >= Len(dlq) - k
        BY <2>3, <4>4, <4>5, <4>6, LettersCut
      <4>8. k = 0 => cut = dlq
        <5> SUFFICES ASSUME k = 0 PROVE cut = dlq
          OBVIOUS
        <5>1. Len(cut) = Len(dlq) /\ \A i \in 1..Len(cut) : cut[i] = dlq[i]
          BY <2>3, <4>5
        <5> QED BY <4>4, <4>6, <5>1, SeqEqual
      <4>9. \A d \in ToSet(dlq) \ ToSet(cut) : Cardinality(newer[d]) >= maxSize
        BY <1>1, <2>3, <4>7, <4>8
      <4> QED BY <3>2, <4>4, <4>7, <4>9
    <3> QED BY <2>1, <3>1, <3>2
  <2>5. LettersPlaced'
    BY <1>1, <2>1, <2>4 DEF LettersPlaced
  <2>6. LettersKept'
    BY <1>1, <2>1, <2>4 DEF LettersKept
  <2> QED BY <1>1, <2>1, <2>2, <2>4, <2>5, <2>6 DEF WebhooksInv, WebhooksTypeOK
<1>7. ASSUME ClearDlq PROVE WebhooksInv'
  <2>1. /\ dlq' = << >> /\ lost' = lost \cup ToSet(dlq)
        /\ UNCHANGED <<course, attempt, answering, straying, handled, inRedis, maxSize, pushing, trimming, newer>>
    BY <1>7 DEF ClearDlq, options
  <2>2. dlq' \in Seq(Events) /\ ToSet(dlq') = {} /\ 1..Len(dlq') = {}
    <3>1. << >> \in Seq(Events) /\ Len(<< >>) = 0
      BY EmptySeq
    <3>2. DOMAIN << >> = {}
      OBVIOUS
    <3> QED BY <2>1, <3>1, <3>2 DEF ToSet
  <2>3. RequestsMeant'
    BY <1>1, <2>1 DEF RequestsMeant, Requests
  <2>4. LettersPlaced'
    BY <1>1, <2>1, <2>2 DEF LettersPlaced, InOrder
  <2>5. LettersKept'
    BY <1>1, <2>1, <2>2 DEF LettersKept
  <2> QED BY <1>1, <1>2, <2>1, <2>2, <2>3, <2>4, <2>5 DEF WebhooksInv, WebhooksTypeOK
<1>8. CASE UNCHANGED webhooksVars
  <2>1. UNCHANGED <<course, attempt, answering, straying, handled, inRedis, maxSize, dlq, pushing, trimming,
                    newer, lost>>
    BY <1>8 DEF webhooksVars, queue, options
  <2>2. RequestsMeant'
    BY <1>1, <2>1 DEF RequestsMeant, Requests
  <2> QED BY <1>1, <2>1, <2>2 DEF WebhooksInv, WebhooksTypeOK, LettersPlaced, LettersKept
<1> QED BY <1>3, <1>4, <1>5, <1>6, <1>7, <1>8 DEF WebhooksNext

LEMMA WebhooksBegun == WebhooksInit => WebhooksInv
<1> SUFFICES ASSUME WebhooksInit PROVE WebhooksInv
  OBVIOUS
<1>1. /\ course = [e \in Events |-> "unsent"] /\ attempt = [e \in Events |-> 0]
      /\ straying = [e \in Events |-> 0] /\ handled = [e \in Events |-> 0]
      /\ inRedis \in BOOLEAN /\ maxSize \in 0..MaxDead /\ dlq = << >>
      /\ answering = {} /\ pushing = {} /\ trimming = {} /\ lost = {}
      /\ newer = [e \in Events |-> {}] /\ Retries \in Nat
  BY WebhooksAssumption DEF WebhooksInit
<1>2. dlq \in Seq(Events) /\ ToSet(dlq) = {} /\ 1..Len(dlq) = {}
  <2>1. << >> \in Seq(Events) /\ Len(<< >>) = 0
    BY EmptySeq
  <2>2. DOMAIN << >> = {}
    OBVIOUS
  <2> QED BY <1>1, <2>1, <2>2 DEF ToSet
<1>3. WebhooksTypeOK
  BY <1>1, <1>2 DEF WebhooksTypeOK
<1>4. RequestsMeant
  BY <1>1 DEF RequestsMeant, Requests
<1>5. LettersPlaced /\ LettersKept
  BY <1>1, <1>2, FS_EmptySet DEF LettersPlaced, LettersKept, InOrder
<1> QED BY <1>3, <1>4, <1>5 DEF WebhooksInv

LEMMA WebhooksImplied == WebhooksInv => WebhooksHold
<1> SUFFICES ASSUME WebhooksInv PROVE WebhooksHold
  OBVIOUS
<1>1. WebhooksTypeOK /\ RequestsMeant /\ LettersPlaced /\ LettersKept
  BY DEF WebhooksInv
<1>2. Len(dlq) \in Nat /\ DOMAIN dlq = 1..Len(dlq)
  BY <1>1, LenProperties DEF WebhooksTypeOK
<1>3. ASSUME NEW i \in DOMAIN dlq, NEW j \in DOMAIN dlq, dlq[i] = dlq[j] PROVE i = j
  <2>1. i \in 1..Len(dlq) /\ j \in 1..Len(dlq) /\ ~(i < j) /\ ~(j < i)
    BY <1>1, <1>2, <1>3 DEF LettersPlaced, InOrder
  <2> QED BY <1>2, <2>1
<1> QED BY <1>1, <1>3 DEF WebhooksHold, PushedOut, LettersPlaced, LettersKept, RequestsMeant, Requests

(* The endpoint gets an event as often as it was tried at most.  A delivery *)
(* given up is among the dead letters, once, until maxSize others came      *)
(* behind it, Redis failed or the queue was cleared, and one that ended as  *)
(* delivered never is: for any number of deliveries, any size of the queue, *)
(* listeners of delivery:success that throw, and any interleaving of pushes *)
(* and trims (_deliverWithRetry, _writeToDlq).                              *)
THEOREM WebhooksAlwaysSafe == GuardsSpec => []WebhooksSafe
<1> DEFINE Inv == part = "webhooks" => WebhooksInv
<1>1. GuardsInit => Inv
  BY WebhooksBegun DEF GuardsInit
<1>2. Inv /\ [GuardsNext]_<<part, gates, stores, onRoom, roomVars>> => Inv'
  <2> SUFFICES ASSUME Inv, [GuardsNext]_<<part, gates, stores, onRoom, roomVars>>,
                      part' = "webhooks"
               PROVE  WebhooksInv'
    OBVIOUS
  <2>1. CASE WebhooksNext /\ part = "webhooks"
    BY <2>1, WebhooksStep
  <2>2. CASE UNCHANGED <<part, webhooksVars>>
    BY <2>2, WebhooksStep
  <2> QED
    BY <2>1, <2>2 DEF GuardsNext, stores
<1>3. Inv => WebhooksSafe
  BY WebhooksImplied DEF WebhooksSafe
<1> QED
  BY <1>1, <1>2, <1>3, PTL DEF GuardsSpec

-----------------------------------------------------------------------------
(* Admission. *)

(* EveryPartLooked needs of a join that waits which parts it has passed.    *)
Looked(p) ==
  /\ stage[p] = "hook" => Parts \cap First \subseteq passed[p]
  /\ stage[p] = "lookup" =>
       IsNext("region", rest[p]) /\ rest[p] \subseteq Later /\ Parts \ rest[p] \subseteq passed[p]
  /\ stage[p] = "in" => passed[p] = Parts

AdmissionInv == AdmissionTypeOK /\ \A p \in Askers : Looked(p)

LEMMA PartsFinite == IsFiniteSet(Parts)
<1>1. IsFiniteSet({"lock"})
  BY FS_Singleton
<1>2. IsFiniteSet({"lock"} \cup {"load"})
  BY <1>1, FS_AddElement
<1>3. IsFiniteSet({"lock"} \cup {"load"} \cup {"policy"})
  BY <1>2, FS_AddElement
<1>4. IsFiniteSet({"lock"} \cup {"load"} \cup {"policy"} \cup {"region"})
  BY <1>3, FS_AddElement
<1>5. Parts \subseteq {"lock"} \cup {"load"} \cup {"policy"} \cup {"region"}
  BY PartsAssumption DEF AllParts
<1> QED BY <1>4, <1>5, FS_Subset

(* Every part wraps the hook once: of two, one is inward of the other.      *)
LEMMA PartsOrdered ==
  ASSUME inward \in SetToSeqs(Parts), NEW a \in Parts, NEW b \in Parts, a # b
  PROVE  Before(a, b) \/ Before(b, a)
<1> DEFINE D == 1..Cardinality(Parts)
<1>1. Cardinality(Parts) \in Nat /\ IsFiniteSet(D) /\ Cardinality(D) = Cardinality(Parts)
  <2>1. Cardinality(Parts) \in Nat
    BY PartsFinite, FS_CardinalityType
  <2>2. 1 \in Int /\ Cardinality(Parts) \in Int
    BY <2>1
  <2>3. IsFiniteSet(D) /\ Cardinality(D) = IF 1 > Cardinality(Parts) THEN 0 ELSE Cardinality(Parts) - 1 + 1
    BY <2>2, FS_Interval
  <2> QED BY <2>1, <2>3
<1>2. inward \in [D -> Parts] /\ \A i, j \in D : i # j => inward[i] # inward[j]
  BY DEF SetToSeqs
<1>3. inward \in Injection(D, Parts)
  BY <1>2 DEF Injection, IsInjective
<1>4. inward \in Surjection(D, Parts)
  BY <1>1, <1>3, PartsFinite, FS_Injection
<1>5. PICK i \in D : inward[i] = a
  BY <1>4 DEF Surjection
<1>6. PICK j \in D : inward[j] = b
  BY <1>4 DEF Surjection
<1>7. DOMAIN inward = D /\ (i < j \/ j < i)
  BY <1>1, <1>2, <1>5, <1>6
<1> QED BY <1>5, <1>6, <1>7 DEF Before

(* The join of one peer goes on.                                            *)
LEMMA AdmissionMoved ==
  ASSUME AdmissionInv, NEW p \in Askers, NEW c \in Stage, NEW r \in SUBSET Parts,
         NEW s \in SUBSET Parts,
         stage' = [stage EXCEPT ![p] = c], rest' = [rest EXCEPT ![p] = r],
         passed' = [passed EXCEPT ![p] = s],
         r # {} => c = "lookup",
         c = "hook" => Parts \cap First \subseteq s,
         c = "lookup" => IsNext("region", r) /\ r \subseteq Later /\ Parts \ r \subseteq s,
         c = "in" => s = Parts,
         inward' = inward, lockHeld' \in BOOLEAN, level' \in Level
  PROVE  AdmissionInv'
<1>1. AdmissionTypeOK /\ \A q \in Askers : Looked(q)
  BY DEF AdmissionInv
<1>2. /\ stage'[p] = c /\ rest'[p] = r /\ passed'[p] = s
      /\ \A q \in Askers \ {p} : stage'[q] = stage[q] /\ rest'[q] = rest[q] /\ passed'[q] = passed[q]
      /\ stage' \in [Askers -> Stage] /\ rest' \in [Askers -> SUBSET Parts]
      /\ passed' \in [Askers -> SUBSET Parts]
  BY <1>1 DEF AdmissionTypeOK
<1>3. ASSUME NEW q \in Askers PROVE Looked(q)' /\ (rest'[q] # {} => stage'[q] = "lookup")
  <2>1. CASE q = p
    BY <1>2, <2>1 DEF Looked, IsNext, Before
  <2>2. CASE q # p
    BY <1>1, <1>2, <2>2 DEF Looked, IsNext, Before, AdmissionTypeOK
  <2> QED BY <2>1, <2>2
<1>4. AdmissionTypeOK'
  BY <1>1, <1>2, <1>3 DEF AdmissionTypeOK
<1> QED BY <1>3, <1>4 DEF AdmissionInv

LEMMA AdmissionRefused ==
  ASSUME AdmissionInv, NEW p \in Askers, Refuse(p), UNCHANGED <<inward, lockHeld, level>>
  PROVE  AdmissionInv'
<1>1. AdmissionTypeOK
  BY DEF AdmissionInv
<1>2. /\ stage' = [stage EXCEPT ![p] = "refused"] /\ rest' = [rest EXCEPT ![p] = {}]
      /\ passed' = [passed EXCEPT ![p] = passed[p]] /\ passed[p] \in SUBSET Parts
  BY <1>1 DEF Refuse, AdmissionTypeOK
<1>3. "refused" \in Stage /\ lockHeld' \in BOOLEAN /\ level' \in Level
  BY <1>1 DEF Stage, AdmissionTypeOK
<1> QED BY <1>2, <1>3, AdmissionMoved

(* The parts that looked are those in by, and those that are not ahead.      *)
LEMMA AdmissionProceeds ==
  ASSUME AdmissionInv, NEW p \in Askers, NEW ahead \in SUBSET Parts, NEW by \in SUBSET Parts,
         Proceed(p, ahead, by), UNCHANGED <<inward, lockHeld, level>>,
         ahead \subseteq Later, Parts \ ahead \subseteq passed[p] \cup by
  PROVE  AdmissionInv'
<1> DEFINE verified == IF IsNext("policy", ahead) THEN {"policy"} ELSE {}
           after == ahead \ verified
           looked == by \cup verified
<1>1. AdmissionTypeOK
  BY DEF AdmissionInv
<1>2. \/ Refuse(p)
      \/ after = {} /\ Admit(p, looked)
      \/ /\ after # {} /\ stage' = [stage EXCEPT ![p] = "lookup"]
         /\ rest' = [rest EXCEPT ![p] = after]
         /\ passed' = [passed EXCEPT ![p] = passed[p] \cup looked]
  BY DEF Proceed
<1>3. verified \subseteq ahead
  BY DEF IsNext
<1>4. /\ passed[p] \cup looked \in SUBSET Parts /\ Parts \ after \subseteq passed[p] \cup looked
      /\ lockHeld' \in BOOLEAN /\ level' \in Level /\ {"in", "lookup"} \subseteq Stage
  BY <1>1, <1>3 DEF AdmissionTypeOK, Stage
<1>5. CASE after = {} /\ Admit(p, looked)
  <2>1. /\ stage' = [stage EXCEPT ![p] = "in"] /\ rest' = [rest EXCEPT ![p] = {}]
        /\ passed' = [passed EXCEPT ![p] = passed[p] \cup looked]
    BY <1>5 DEF Admit
  <2>2. passed[p] \cup looked = Parts
    BY <1>4, <1>5
  <2> HIDE DEF looked, after
  <2> QED BY <1>4, <2>1, <2>2, AdmissionMoved
<1>6. CASE /\ after # {} /\ stage' = [stage EXCEPT ![p] = "lookup"]
           /\ rest' = [rest EXCEPT ![p] = after]
           /\ passed' = [passed EXCEPT ![p] = passed[p] \cup looked]
  <2>1. ahead \subseteq {"policy", "region"}
    BY PartsAssumption DEF Later, First, AllParts
  <2>2. IsNext("region", after)
    <3>1. CASE IsNext("policy", ahead)
      <4>1. after = {"region"}
        BY <1>6, <2>1, <3>1
      <4> QED BY <4>1 DEF IsNext
    <3>2. CASE ~IsNext("policy", ahead)
      <4>1. after = ahead
        BY <3>2
      <4>2. "region" \in ahead
        BY <1>6, <2>1, <3>2, <4>1 DEF IsNext
      <4>3. "policy" \in ahead => Before("region", "policy")
        <5> SUFFICES ASSUME "policy" \in ahead PROVE Before("region", "policy")
          OBVIOUS
        <5>1. ~Before("policy", "region")
          BY <2>1, <3>2 DEF IsNext
        <5> QED BY <1>1, <4>2, <5>1, PartsOrdered DEF AdmissionTypeOK
      <4> QED BY <2>1, <4>1, <4>2, <4>3 DEF IsNext
    <3> QED BY <3>1, <3>2
  <2>3. after \in SUBSET Parts /\ after \subseteq Later
    OBVIOUS
  <2> HIDE DEF looked, after
  <2> QED BY <1>4, <1>6, <2>2, <2>3, AdmissionMoved
<1> QED BY <1>2, <1>5, <1>6, AdmissionRefused

(* The application's hook returns true or refuses.                          *)
AnswersPlainly == Answers \subseteq {"true"} \cup Refusals

LEMMA AdmissionStep ==
  ASSUME AnswersPlainly, AdmissionInv, [AdmissionNext]_admissionVars
  PROVE  AdmissionInv'
<1>1. AdmissionTypeOK /\ \A p \in Askers : Looked(p)
  BY DEF AdmissionInv
<1>2. Parts \ Later \subseteq Parts \cap First /\ Later \subseteq Parts
  BY DEF Later
<1>3. ASSUME NEW p \in Askers, Ask(p) PROVE AdmissionInv'
  <2>1. UNCHANGED <<inward, lockHeld, level>>
    BY <1>3 DEF Ask
  <2>2. CASE RefusedAtOnce
    BY <1>3, <2>1, <2>2, AdmissionRefused DEF Ask
  <2>3. CASE ~RefusedAtOnce /\ AppHook
    <3> DEFINE looked == Parts \cap First
    <3>1. rest[p] = {}
      BY <1>1, <1>3 DEF Ask, AdmissionTypeOK
    <3>2. /\ stage' = [stage EXCEPT ![p] = "hook"] /\ passed' = [passed EXCEPT ![p] = looked]
          /\ rest' = [rest EXCEPT ![p] = {}]
      BY <1>1, <1>3, <2>3, <3>1 DEF Ask, AdmissionTypeOK
    <3>3. /\ "hook" \in Stage /\ lockHeld' \in BOOLEAN /\ level' \in Level
          /\ looked \in SUBSET Parts /\ Parts \cap First \subseteq looked
      BY <1>1, <2>1 DEF Stage, AdmissionTypeOK
    <3> HIDE DEF looked
    <3> QED BY <2>1, <3>2, <3>3, AdmissionMoved
  <2>4. CASE ~RefusedAtOnce /\ ~AppHook
    <3>1. Proceed(p, Later, Parts \cap First)
      BY <1>3, <2>4 DEF Ask
    <3> QED BY <1>2, <2>1, <3>1, AdmissionProceeds
  <2> QED BY <2>2, <2>3, <2>4
<1>4. ASSUME NEW p \in Askers, Answer(p) PROVE AdmissionInv'
  <2>1. UNCHANGED <<inward, lockHeld, level>> /\ Parts \cap First \subseteq passed[p]
    BY <1>1, <1>4 DEF Answer, Looked
  <2>2. Refuse(p) \/ Proceed(p, Later, {})
    BY <1>4 DEF Answer, AnswersPlainly, Refusals
  <2> QED BY <1>2, <2>1, <2>2, AdmissionRefused, AdmissionProceeds
<1>5. ASSUME NEW p \in Askers, Located(p) PROVE AdmissionInv'
  <2>1. /\ UNCHANGED <<inward, lockHeld, level>>
        /\ Refuse(p) \/ Proceed(p, rest[p] \ {"region"}, {"region"})
        /\ IsNext("region", rest[p]) /\ rest[p] \subseteq Later /\ Parts \ rest[p] \subseteq passed[p]
        /\ rest[p] \subseteq Parts
    BY <1>1, <1>5 DEF Located, Looked, AdmissionTypeOK
  <2>2. /\ rest[p] \ {"region"} \in SUBSET Parts /\ {"region"} \in SUBSET Parts
        /\ rest[p] \ {"region"} \subseteq Later
        /\ Parts \ (rest[p] \ {"region"}) \subseteq passed[p] \cup {"region"}
    BY <2>1 DEF IsNext
  <2> QED BY <2>1, <2>2, AdmissionRefused, AdmissionProceeds
<1>6. ASSUME NEW p \in Askers, Leave(p) PROVE AdmissionInv'
  <2>1. /\ stage' = [stage EXCEPT ![p] = "gone"] /\ rest' = [rest EXCEPT ![p] = rest[p]]
        /\ passed' = [passed EXCEPT ![p] = passed[p]] /\ rest[p] = {} /\ passed[p] \in SUBSET Parts
        /\ inward' = inward /\ level' \in Level /\ "gone" \in Stage
    BY <1>1, <1>6 DEF Leave, AdmissionTypeOK, Stage
  <2>2. lockHeld' \in BOOLEAN
    BY <1>6 DEF Leave
  <2> QED BY <2>1, <2>2, AdmissionMoved
<1>7. CASE SetLock \/ ClearLock \/ Sample \/ UNCHANGED admissionVars
  <2>1. UNCHANGED <<inward, stage, rest, passed>>
    BY <1>7 DEF SetLock, ClearLock, Sample, admissionVars
  <2>2. lockHeld' \in BOOLEAN /\ level' \in Level
    BY <1>1, <1>7 DEF SetLock, ClearLock, Sample, admissionVars, AdmissionTypeOK
  <2> QED BY <1>1, <2>1, <2>2 DEF AdmissionInv, AdmissionTypeOK, Looked, IsNext, Before
<1> QED BY <1>3, <1>4, <1>5, <1>6, <1>7 DEF AdmissionNext

LEMMA AdmissionBegun == AdmissionInit => AdmissionInv
BY DEF AdmissionInit, AdmissionInv, AdmissionTypeOK, Looked, Stage, Level

LEMMA AdmissionImplied == AdmissionInv => AdmissionHolds
BY DEF AdmissionInv, Looked, AdmissionHolds, EveryPartLooked, Admitted, LookupComesAfterInner

(* If the application's hook returns true or refuses, whoever is admitted   *)
(* has been looked at by every part, in whatever order any of the parts     *)
(* were attached and whatever waited for the hook or for a region (attach   *)
(* of ModerationBus, BackpressureController, PolicyEngine, DataResidency).  *)
THEOREM AdmissionAlwaysSafe == AnswersPlainly => (GuardsSpec => []AdmissionSafe)
<1> SUFFICES ASSUME AnswersPlainly PROVE GuardsSpec => []AdmissionSafe
  OBVIOUS
<1> DEFINE Inv == part = "admission" => AdmissionInv
<1>1. GuardsInit => Inv
  BY AdmissionBegun DEF GuardsInit
<1>2. Inv /\ [GuardsNext]_<<part, gates, stores, onRoom, roomVars>> => Inv'
  <2> SUFFICES ASSUME Inv, [GuardsNext]_<<part, gates, stores, onRoom, roomVars>>,
                      part' = "admission"
               PROVE  AdmissionInv'
    OBVIOUS
  <2>1. CASE AdmissionNext /\ part = "admission"
    BY <2>1, AdmissionStep
  <2>2. CASE UNCHANGED <<part, admissionVars>>
    BY <2>2, AdmissionStep
  <2> QED
    BY <2>1, <2>2 DEF GuardsNext, gates
<1>3. Inv => AdmissionSafe
  BY AdmissionImplied DEF AdmissionSafe
<1> QED
  BY <1>1, <1>2, <1>3, PTL DEF GuardsSpec
-----------------------------------------------------------------------------
(* The windows of the rate limiter. *)

(* Entries of a log are those of the present window and those of the one     *)
(* before it: an entry came while its window lasted; those since the window  *)
(* began are among the counted; of those before it, the ones that are not    *)
(* older than a window are from one window.                                  *)
WindowKept(w, length, max, book) ==
  /\ \A t \in Ages : book[t] # 0 => w.age <= t + length
  /\ Cardinality(Logged(book, {t \in Ages : t <= w.age})) <= w.count
  /\ Cardinality(Logged(book, {t \in Ages : t <= w.age})) <= max
  /\ Cardinality(Logged(book, {t \in 0..length : w.age < t})) <= max

(* What is counted was tried, while the window lasts.                        *)
CountedTried ==
  arrivals.age <= Minute => arrivals.count <= Cardinality(Logged(tried, 0..arrivals.age))

LimitsInv ==
  /\ LimitsTypeOK /\ BansEarned
  /\ WindowKept(arrivals, Minute, Connections, admitted)
  /\ WindowKept(second, Second, PerSecond, letThrough)
  /\ WindowKept(minute, Minute, PerMinute, letThrough)
  /\ CountedTried

(* What the entries of a log number: there are finitely many, one more when  *)
(* one is noted, and as many as before when all grow older.                  *)
LEMMA LoggedFinite ==
  ASSUME NEW book \in [Ages -> Nat], NEW S \in SUBSET Ages
  PROVE  IsFiniteSet(Logged(book, S)) /\ Cardinality(Logged(book, S)) \in Nat
<1>0. 0 \in Int /\ Minute \in Int /\ Ages = 0..Minute
  BY LimitsAssumption DEF Ages
<1>1. IsFiniteSet(Ages)
  BY <1>0, FS_Interval
<1>2. IsFiniteSet(S)
  BY <1>1, FS_Subset
<1>3. \A t \in S : IsFiniteSet({t} \X (1..book[t]))
  <2> TAKE t \in S
  <2>1. 1 \in Int /\ book[t] \in Int
    OBVIOUS
  <2>2. IsFiniteSet({t})
    BY FS_Singleton
  <2>3. IsFiniteSet(1..book[t])
    BY <2>1, FS_Interval
  <2> QED
    BY <2>2, <2>3, FS_Product
<1> DEFINE parts == {{t} \X (1..book[t]) : t \in S}
<1>4. IsFiniteSet(parts)
  <2> DEFINE f == [t \in S |-> {t} \X (1..book[t])]
  <2>1. f \in Surjection(S, parts)
    BY DEF Surjection
  <2> HIDE DEF f, parts
  <2> QED
    BY <1>2, <2>1, FS_Surjection
<1>5. \A T \in parts : IsFiniteSet(T)
  BY <1>3
<1>6. IsFiniteSet(UNION parts)
  BY <1>4, <1>5, FS_UNION
<1>7. IsFiniteSet(Logged(book, S))
  BY <1>6 DEF Logged
<1> QED
  BY <1>7, FS_CardinalityType

LEMMA LoggedIn ==
  \A book, S : /\ \A e \in Logged(book, S) : /\ e = <<e[1], e[2]>>
                                           /\ e[1] \in S /\ e[2] \in 1..book[e[1]]
              /\ \A t \in S : \A k \in 1..book[t] : <<t, k>> \in Logged(book, S)
  BY DEF Logged

LEMMA LoggedMonotone ==
  ASSUME NEW book \in [Ages -> Nat], NEW S \in SUBSET Ages, NEW T \in SUBSET S
  PROVE  Cardinality(Logged(book, T)) <= Cardinality(Logged(book, S))
<1>1. Logged(book, T) \subseteq Logged(book, S)
  BY DEF Logged
<1> QED
  BY <1>1, LoggedFinite, FS_Subset

LEMMA LoggedUnion ==
  ASSUME NEW book \in [Ages -> Nat], NEW S \in SUBSET Ages, NEW T \in SUBSET Ages
  PROVE  Cardinality(Logged(book, S \cup T))
           <= Cardinality(Logged(book, S)) + Cardinality(Logged(book, T))
<1>1. Logged(book, S \cup T) = Logged(book, S) \cup Logged(book, T)
  BY DEF Logged
<1>2. /\ IsFiniteSet(Logged(book, S)) /\ IsFiniteSet(Logged(book, T))
      /\ Cardinality(Logged(book, S)) \in Nat /\ Cardinality(Logged(book, T)) \in Nat
  BY LoggedFinite
<1>3. Cardinality(Logged(book, S) \cup Logged(book, T))
        = Cardinality(Logged(book, S)) + Cardinality(Logged(book, T))
            - Cardinality(Logged(book, S) \cap Logged(book, T))
  BY <1>2, FS_Union
<1>4. Cardinality(Logged(book, S) \cap Logged(book, T)) \in Nat
  BY <1>2, FS_Intersection, FS_CardinalityType
<1> PICK a, b, c : /\ a = Cardinality(Logged(book, S)) /\ b = Cardinality(Logged(book, T))
                   /\ c = Cardinality(Logged(book, S) \cap Logged(book, T))
  OBVIOUS
<1>5. a \in Nat /\ b \in Nat /\ c \in Nat
  BY <1>2, <1>4
<1>6. a + b - c <= a + b
  BY <1>5
<1> QED
  BY <1>1, <1>3, <1>6

LEMMA LoggedNone ==
  ASSUME NEW book, NEW S, \A t \in S : book[t] = 0
  PROVE  Logged(book, S) = {} /\ Cardinality(Logged(book, S)) = 0
<1>1. Logged(book, S) = {}
  BY DEF Logged
<1> QED
  BY <1>1, FS_EmptySet

LEMMA LoggedNoted ==
  ASSUME NEW book \in [Ages -> Nat], NEW S \in SUBSET Ages
  PROVE  /\ Noted(book) \in [Ages -> Nat]
         /\ Noted(book)[0] = book[0] + 1 /\ \A t \in Ages \ {0} : Noted(book)[t] = book[t]
         /\ 0 \in S => Cardinality(Logged(Noted(book), S)) = Cardinality(Logged(book, S)) + 1
         /\ 0 \notin S => Logged(Noted(book), S) = Logged(book, S)
<1>1. 0 \in Ages
  BY LimitsAssumption DEF Ages
<1>2. /\ Noted(book) \in [Ages -> Nat]
      /\ Noted(book)[0] = book[0] + 1 /\ \A t \in Ages \ {0} : Noted(book)[t] = book[t]
  BY <1>1 DEF Noted
<1>3. ASSUME 0 \in S
      PROVE  Cardinality(Logged(Noted(book), S)) = Cardinality(Logged(book, S)) + 1
  <2> DEFINE e == <<0, book[0] + 1>>
  <2>0. book[0] \in Nat
    BY <1>1
  <2>1. e \notin Logged(book, S)
    BY <2>0, LoggedIn
  <2>2. Logged(Noted(book), S) = Logged(book, S) \cup {e}
    <3>1. {0} \X (1..Noted(book)[0]) = ({0} \X (1..book[0])) \cup {e}
      BY <1>2, <2>0
    <3>2. \A t \in S \ {0} : {t} \X (1..Noted(book)[t]) = {t} \X (1..book[t])
      BY <1>2
    <3> HIDE DEF e
    <3> QED
      BY <1>3, <3>1, <3>2 DEF Logged
  <2>3. IsFiniteSet(Logged(book, S))
    BY LoggedFinite
  <2> HIDE DEF e
  <2> QED
    BY <2>1, <2>2, <2>3, FS_AddElement
<1>4. 0 \notin S => Logged(Noted(book), S) = Logged(book, S)
  BY <1>2 DEF Logged
<1> QED
  BY <1>2, <1>3, <1>4

LEMMA LoggedShifted ==
  ASSUME NEW book \in [Ages -> Nat], NEW S \in SUBSET Ages, NEW T \in SUBSET Ages
  PROVE  /\ Shifted(book) \in [Ages -> Nat]
         /\ Shifted(book)[0] = 0 /\ \A t \in Ages \ {0} : Shifted(book)[t] = book[t - 1]
         /\ (\A t \in T : t # 0 => t - 1 \in S) =>
              Cardinality(Logged(Shifted(book), T)) <= Cardinality(Logged(book, S))
         /\ (\A t \in S : t + 1 \in T) =>
              Cardinality(Logged(book, S)) <= Cardinality(Logged(Shifted(book), T))
<1>1. /\ Minute \in Nat /\ 0 \in Ages
      /\ \A t \in Ages : t \in Nat /\ t <= Minute
      /\ \A t \in Ages \ {0} : t - 1 \in Ages
  BY LimitsAssumption DEF Ages
<1>2. /\ Shifted(book) \in [Ages -> Nat]
      /\ Shifted(book)[0] = 0 /\ \A t \in Ages \ {0} : Shifted(book)[t] = book[t - 1]
  BY <1>1 DEF Shifted
<1> PICK old : old = Shifted(book)
  OBVIOUS
<1>3. IsFiniteSet(Logged(book, S)) /\ IsFiniteSet(Logged(old, T))
  BY <1>2, LoggedFinite
<1>4. ASSUME \A t \in T : t # 0 => t - 1 \in S
      PROVE  Cardinality(Logged(old, T)) <= Cardinality(Logged(book, S))
  <2> DEFINE f == [e \in Logged(old, T) |-> <<e[1] - 1, e[2]>>]
  <2>1. ASSUME NEW e \in Logged(old, T)
        PROVE  e = <<e[1], e[2]>> /\ e[1] \in Nat \ {0} /\ f[e] \in Logged(book, S)
    <3>1. e = <<e[1], e[2]>> /\ e[1] \in T /\ e[2] \in 1..old[e[1]]
      BY LoggedIn
    <3>2. e[1] # 0
      BY <1>2, <3>1
    <3>3. e[1] - 1 \in S /\ e[2] \in 1..book[e[1] - 1] /\ e[1] \in Nat
      BY <1>1, <1>2, <1>4, <3>1, <3>2
    <3>4. <<e[1] - 1, e[2]>> \in Logged(book, S)
      BY <3>3, LoggedIn
    <3> QED
      BY <3>1, <3>2, <3>3, <3>4
  <2>2. \A d, e \in Logged(old, T) : f[d] = f[e] => d = e
    <3> TAKE d, e \in Logged(old, T)
    <3> HAVE f[d] = f[e]
    <3>1. d[1] - 1 = e[1] - 1 /\ d[2] = e[2]
      OBVIOUS
    <3>2. d[1] = e[1]
      BY <2>1, <3>1
    <3> QED
      BY <2>1, <3>1, <3>2
  <2>3. f \in Injection(Logged(old, T), Logged(book, S))
    BY <2>1, <2>2 DEF Injection, IsInjective
  <2> HIDE DEF f
  <2> QED
    BY <1>3, <2>3, FS_Injection
<1>5. ASSUME \A t \in S : t + 1 \in T
      PROVE  Cardinality(Logged(book, S)) <= Cardinality(Logged(old, T))
  <2> DEFINE f == [e \in Logged(book, S) |-> <<e[1] + 1, e[2]>>]
  <2>1. ASSUME NEW e \in Logged(book, S)
        PROVE  e = <<e[1], e[2]>> /\ e[1] \in Nat /\ f[e] \in Logged(old, T)
    <3>1. e = <<e[1], e[2]>> /\ e[1] \in S /\ e[2] \in 1..book[e[1]]
      BY LoggedIn
    <3>2. e[1] \in Nat /\ e[1] + 1 \in T /\ (e[1] + 1) - 1 = e[1] /\ e[1] + 1 # 0
      BY <1>1, <1>5, <3>1
    <3>3. old[e[1] + 1] = book[e[1]]
      BY <1>2, <3>2
    <3>4. <<e[1] + 1, e[2]>> \in Logged(old, T)
      BY <3>1, <3>2, <3>3, LoggedIn
    <3> QED
      BY <3>1, <3>2, <3>4
  <2>2. \A d, e \in Logged(book, S) : f[d] = f[e] => d = e
    <3> TAKE d, e \in Logged(book, S)
    <3> HAVE f[d] = f[e]
    <3>1. d[1] + 1 = e[1] + 1 /\ d[2] = e[2]
      OBVIOUS
    <3>2. d[1] = e[1]
      BY <2>1, <3>1
    <3> QED
      BY <2>1, <3>1, <3>2
  <2>3. f \in Injection(Logged(book, S), Logged(old, T))
    BY <2>1, <2>2 DEF Injection, IsInjective
  <2> HIDE DEF f
  <2> QED
    BY <1>3, <2>3, FS_Injection
<1> QED
  BY <1>2, <1>4, <1>5

LEMMA LoggedNow ==
  ASSUME NEW book \in [Ages -> Nat], NEW S \in SUBSET Ages, 0 \in S
  PROVE  book[0] <= Cardinality(Logged(book, S))
<1>1. book[0] \in Nat /\ IsFiniteSet(Logged(book, S))
  BY LoggedFinite
<1> DEFINE f == [k \in 1..book[0] |-> <<0, k>>]
<1>2. \A k \in 1..book[0] : f[k] \in Logged(book, S)
  BY LoggedIn
<1>3. f \in Injection(1..book[0], Logged(book, S))
  BY <1>2 DEF Injection, IsInjective
<1>4. IsFiniteSet(1..book[0]) /\ Cardinality(1..book[0]) = book[0]
  <2>1. 1 \in Int /\ book[0] \in Int
    BY <1>1
  <2> QED
    BY <1>1, <2>1, FS_Interval
<1> HIDE DEF f
<1> QED
  BY <1>1, <1>3, <1>4, FS_Injection

(* Times and limits. *)
LEMMA LimitsConstants ==
  /\ Second \in Nat /\ Minute \in Nat /\ BanTime \in Nat
  /\ PerSecond \in Nat /\ PerMinute \in Nat /\ Connections \in Nat
  /\ Second > 0 /\ Minute > 0 /\ BanTime > 0 /\ PerSecond > 0 /\ PerMinute > 0 /\ Connections > 0
  /\ Second <= Minute /\ Oldest \in Nat /\ Oldest = 2 * Minute + 1
  /\ Ages = 0..Minute /\ 0 \in Ages
BY LimitsAssumption DEF Oldest, Ages

(* A window forgotten when no entry is as young as to matter. *)
LEMMA WindowAnew ==
  ASSUME NEW length, NEW max \in Nat \ {0}, NEW book \in [Ages -> Nat],
         \A t \in Ages : book[t] = 0, length \in Nat, length <= Minute
  PROVE  NoWindow \in Window(max) /\ WindowKept(NoWindow, length, max, book)
<1>1. \A S \in SUBSET Ages : Cardinality(Logged(book, S)) = 0
  BY LoggedNone
<1>2. NoWindow.count = 0 /\ NoWindow.age = Oldest /\ NoWindow \in Window(max)
  BY LimitsConstants DEF NoWindow, Window
<1>3. {t \in Ages : t <= NoWindow.age} \in SUBSET Ages
      /\ {t \in 0..length : NoWindow.age < t} \in SUBSET Ages
  BY LimitsConstants
<1> QED
  BY <1>1, <1>2, <1>3, LimitsConstants DEF WindowKept

LEMMA WindowOlder ==
  ASSUME NEW length \in Nat, length <= Minute, NEW max \in Nat \ {0}, NEW book \in [Ages -> Nat],
         NEW w \in Window(max), WindowKept(w, length, max, book)
  PROVE  Older(w) \in Window(max) /\ WindowKept(Older(w), length, max, Shifted(book))
<1>1. w.age \in Nat /\ w.age <= Oldest /\ w.count \in Nat /\ w.count <= max + 1
  BY LimitsConstants DEF Window
<1> PICK v : v = Older(w)
  OBVIOUS
<1>2. v.age = (IF w.age < Oldest THEN w.age + 1 ELSE Oldest) /\ v.count = w.count
      /\ v \in Window(max)
  <2>1. DOMAIN w = {"count", "age"} /\ w = [w EXCEPT !.age = w.age]
    BY DEF Window
  <2>2. (IF w.age < Oldest THEN w.age + 1 ELSE Oldest) \in 0..Oldest
    BY <1>1, LimitsConstants
  <2> PICK a : a = IF w.age < Oldest THEN w.age + 1 ELSE Oldest
    OBVIOUS
  <2>3. v = [w EXCEPT !.age = a] /\ a \in 0..Oldest
    BY <2>2 DEF Older
  <2>4. v.age = a /\ v.count = w.count /\ v \in Window(max)
    BY <2>3 DEF Window
  <2> QED
    BY <2>4
<1>3. v.age \in Nat /\ v.age <= w.age + 1 /\ (w.age < Oldest => v.age = w.age + 1) /\ (w.age = Oldest => v.age = Oldest)
  BY <1>1, <1>2, LimitsConstants
<1> PICK now : now = Shifted(book)
  OBVIOUS
<1>0. now \in [Ages -> Nat] /\ now[0] = 0 /\ \A t \in Ages \ {0} : now[t] = book[t - 1]
  <2>1. Ages \in SUBSET Ages
    OBVIOUS
  <2> QED
    BY <2>1, LoggedShifted
<1>4. \A t \in Ages : now[t] # 0 => v.age <= t + length
  <2> TAKE t \in Ages
  <2> HAVE now[t] # 0
  <2>1. t # 0 /\ now[t] = book[t - 1] /\ t - 1 \in Ages /\ t \in Nat
    BY <1>0, LimitsConstants
  <2>2. w.age <= (t - 1) + length
    BY <2>1 DEF WindowKept
  <2> QED
    BY <1>1, <1>3, <2>1, <2>2
<1> DEFINE since(a) == {t \in Ages : t <= a}
           before(a) == {t \in 0..length : a < t}
<1>5. Cardinality(Logged(now, since(v.age))) <= Cardinality(Logged(book, since(w.age)))
  <2>1. \A t \in since(v.age) : t # 0 => t - 1 \in since(w.age)
    <3> TAKE t \in since(v.age)
    <3> HAVE t # 0
    <3>1. t \in Nat /\ t - 1 \in Ages /\ t - 1 <= Minute /\ t <= v.age
      BY LimitsConstants
    <3>2. t - 1 <= w.age
      BY <1>1, <1>3, <3>1, LimitsConstants, SMTT(40)
    <3> QED
      BY <3>1, <3>2
  <2>2. since(v.age) \in SUBSET Ages /\ since(w.age) \in SUBSET Ages
    OBVIOUS
  <2> PICK S, T : S = since(w.age) /\ T = since(v.age)
    OBVIOUS
  <2>3. S \in SUBSET Ages /\ T \in SUBSET Ages /\ \A t \in T : t # 0 => t - 1 \in S
    BY <2>1, <2>2
  <2>4. Cardinality(Logged(Shifted(book), T)) <= Cardinality(Logged(book, S))
    BY <2>3, LoggedShifted
  <2> QED
    BY <2>4
<1>6. Cardinality(Logged(now, before(v.age))) <= Cardinality(Logged(book, before(w.age)))
  <2>1. \A t \in before(v.age) : t # 0 => t - 1 \in before(w.age)
    <3> TAKE t \in before(v.age)
    <3> HAVE t # 0
    <3>1. t \in Nat /\ t - 1 \in 0..length /\ t - 1 < Minute /\ v.age < t
      BY LimitsConstants
    <3>2. w.age < t - 1
      <4>1. w.age < Oldest \/ w.age = Oldest
        BY <1>1, LimitsConstants
      <4> QED
        BY <1>1, <1>3, <3>1, <4>1, LimitsConstants
    <3> QED
      BY <3>1, <3>2
  <2>2. before(v.age) \in SUBSET Ages /\ before(w.age) \in SUBSET Ages
    BY LimitsConstants
  <2> PICK S, T : S = before(w.age) /\ T = before(v.age)
    OBVIOUS
  <2>3. S \in SUBSET Ages /\ T \in SUBSET Ages /\ \A t \in T : t # 0 => t - 1 \in S
    BY <2>1, <2>2
  <2>4. Cardinality(Logged(Shifted(book), T)) <= Cardinality(Logged(book, S))
    BY <2>3, LoggedShifted
  <2> QED
    BY <2>4
<1>7. /\ Cardinality(Logged(book, since(w.age))) <= w.count
      /\ Cardinality(Logged(book, since(w.age))) <= max
      /\ Cardinality(Logged(book, before(w.age))) <= max
  BY DEF WindowKept
<1>8. /\ since(v.age) \in SUBSET Ages /\ since(w.age) \in SUBSET Ages
      /\ before(v.age) \in SUBSET Ages /\ before(w.age) \in SUBSET Ages
  BY <1>0, LimitsConstants
<1>9. /\ Cardinality(Logged(now, since(v.age))) \in Nat
      /\ Cardinality(Logged(now, before(v.age))) \in Nat
      /\ Cardinality(Logged(book, since(w.age))) \in Nat
      /\ Cardinality(Logged(book, before(w.age))) \in Nat
  BY <1>0, <1>8, LoggedFinite
<1>10. /\ Cardinality(Logged(now, since(v.age))) <= w.count
       /\ Cardinality(Logged(now, since(v.age))) <= max
       /\ Cardinality(Logged(now, before(v.age))) <= max
  BY <1>1, <1>5, <1>6, <1>7, <1>9
<1> QED
  BY <1>2, <1>4, <1>10 DEF WindowKept

(* One more is counted, and noted if it is among the first. *)
LEMMA WindowCounts ==
  ASSUME NEW length \in Nat, length <= Minute, NEW max \in Nat \ {0}, NEW book \in [Ages -> Nat],
         NEW w \in Window(max), WindowKept(w, length, max, book),
         NEW next, next = book \/ (next = Noted(book) /\ Counted(w, length, max).count <= max)
  PROVE  Counted(w, length, max) \in Window(max)
         /\ WindowKept(Counted(w, length, max), length, max, next)
<1>1. w.age \in Nat /\ w.age <= Oldest /\ w.count \in Nat /\ w.count <= max + 1
  BY LimitsConstants DEF Window
<1> PICK v : v = Counted(w, length, max)
  OBVIOUS
<1>2. /\ w.age > length => v.count = 1 /\ v.age = 0
      /\ w.age <= length => v.age = w.age /\ v.count >= w.count
                            /\ (v.count <= max => v.count = w.count + 1)
      /\ v.count \in 0..max + 1 /\ v.age \in 0..Oldest /\ v \in Window(max)
  BY <1>1, LimitsConstants DEF Counted, Window
<1> DEFINE since(a) == {t \in Ages : t <= a}
           before(a) == {t \in 0..length : a < t}
<1>3. next \in [Ages -> Nat]
  BY LoggedNoted
<1>4. /\ since(v.age) \in SUBSET Ages /\ since(w.age) \in SUBSET Ages
      /\ before(v.age) \in SUBSET Ages /\ before(w.age) \in SUBSET Ages
      /\ 0 \in since(v.age) /\ 0 \notin before(v.age)
  BY <1>1, <1>2, LimitsConstants
<1>5. /\ Cardinality(Logged(book, since(w.age))) <= w.count
      /\ Cardinality(Logged(book, since(w.age))) <= max
      /\ Cardinality(Logged(book, before(w.age))) <= max
      /\ \A t \in Ages : book[t] # 0 => w.age <= t + length
  BY DEF WindowKept
<1>6. Logged(next, before(v.age)) = Logged(book, before(v.age))
  BY <1>4, LoggedNoted
<1>7. \/ next = book
      \/ /\ v.count <= max /\ next = Noted(book) /\ next[0] = book[0] + 1
         /\ \A t \in Ages \ {0} : next[t] = book[t]
         /\ Cardinality(Logged(next, since(v.age))) = Cardinality(Logged(book, since(v.age))) + 1
  BY <1>4, LoggedNoted
<1>8. /\ Cardinality(Logged(next, since(v.age))) \in Nat
      /\ Cardinality(Logged(book, since(v.age))) \in Nat
      /\ Cardinality(Logged(book, since(w.age))) \in Nat
      /\ Cardinality(Logged(book, before(v.age))) \in Nat
      /\ Cardinality(Logged(book, before(w.age))) \in Nat
  BY <1>3, <1>4, LoggedFinite
<1>9. CASE w.age > length
  <2>1. v.count = 1 /\ v.age = 0
    BY <1>2, <1>9
  <2>2. book[0] = 0 /\ since(v.age) = {0}
    BY <1>1, <1>5, <1>9, <2>1, LimitsConstants
  <2>3. Cardinality(Logged(book, since(v.age))) = 0
    BY <2>2, LoggedNone
  <2>4. Cardinality(Logged(next, since(v.age))) <= 1
    BY <1>7, <2>3
  <2>5. Cardinality(Logged(book, before(v.age))) <= Cardinality(Logged(book, since(w.age)))
    <3>1. before(v.age) \subseteq since(w.age)
      BY <1>1, <1>9, <2>1, LimitsConstants
    <3> QED
      BY <1>4, <3>1, LoggedMonotone
  <2>6. \A t \in Ages : v.age <= t + length
    BY <2>1, LimitsConstants
  <2>7. /\ Cardinality(Logged(next, since(v.age))) <= v.count
        /\ Cardinality(Logged(next, since(v.age))) <= max
        /\ Cardinality(Logged(next, before(v.age))) <= max
    BY <1>5, <1>6, <1>8, <2>1, <2>4, <2>5
  <2> QED
    BY <1>2, <2>6, <2>7 DEF WindowKept
<1>10. CASE w.age <= length
  <2>1. v.age = w.age /\ v.count >= w.count /\ (v.count <= max => v.count = w.count + 1)
        /\ v.count \in Nat
    BY <1>2, <1>10
  <2>2. \A t \in Ages : next[t] # 0 => v.age <= t + length
    <3> TAKE t \in Ages
    <3> HAVE next[t] # 0
    <3>1. CASE t = 0
      BY <1>1, <1>10, <2>1, <3>1
    <3>2. CASE t # 0
      BY <1>5, <1>7, <2>1, <3>2
    <3> QED
      BY <3>1, <3>2
  <2>3. /\ Cardinality(Logged(next, since(v.age))) <= v.count
        /\ Cardinality(Logged(next, since(v.age))) <= max
    <3>1. CASE next = book
      BY <1>1, <1>5, <1>8, <2>1, <3>1
    <3>2. CASE next # book
      BY <1>1, <1>5, <1>7, <1>8, <2>1, <3>2
    <3> QED
      BY <3>1, <3>2
  <2>4. Cardinality(Logged(next, before(v.age))) <= max
    BY <1>5, <1>6, <2>1
  <2> QED
    BY <1>2, <2>2, <2>3, <2>4 DEF WindowKept
<1> QED
  BY <1>1, <1>9, <1>10

LEMMA WindowTwice ==
  ASSUME NEW length \in Nat, length <= Minute, NEW max \in Nat \ {0}, NEW book \in [Ages -> Nat],
         NEW w \in Window(max), WindowKept(w, length, max, book)
  PROVE  Within(book, length) <= 2 * max
<1>1. w.age \in Nat
  BY LimitsConstants DEF Window
<1> DEFINE S == {t \in 0..length : t <= w.age}
           T == {t \in 0..length : w.age < t}
           R == {t \in Ages : t <= w.age}
<1>2. S \cup T = 0..length /\ S \subseteq R /\ R \in SUBSET Ages /\ T \in SUBSET Ages
      /\ S \in SUBSET Ages
  BY <1>1, LimitsConstants
<1>3. Cardinality(Logged(book, R)) <= max /\ Cardinality(Logged(book, T)) <= max
  BY DEF WindowKept
<1> HIDE DEF S, T, R
<1>4. Within(book, length) <= Cardinality(Logged(book, S)) + Cardinality(Logged(book, T))
  BY <1>2, LoggedUnion DEF Within
<1>5. Cardinality(Logged(book, S)) <= Cardinality(Logged(book, R))
  BY <1>2, LoggedMonotone
<1>6. /\ Cardinality(Logged(book, S)) \in Nat /\ Cardinality(Logged(book, T)) \in Nat
      /\ Cardinality(Logged(book, R)) \in Nat
  BY <1>2, LoggedFinite
<1>7. Within(book, length) \in Nat
  BY LimitsConstants, LoggedFinite DEF Within
<1> QED
  BY <1>3, <1>4, <1>5, <1>6, <1>7

LEMMA LimitsImplied == LimitsInv => LimitsHold
<1> SUFFICES ASSUME LimitsInv PROVE AtMostTwice
  BY DEF LimitsInv, LimitsHold
<1>1. /\ arrivals \in Window(Connections) /\ second \in Window(PerSecond)
      /\ minute \in Window(PerMinute)
      /\ admitted \in [Ages -> Nat] /\ letThrough \in [Ages -> Nat]
  BY DEF LimitsInv, LimitsTypeOK
<1>2. Connections \in Nat \ {0} /\ PerSecond \in Nat \ {0} /\ PerMinute \in Nat \ {0}
      /\ Second \in Nat /\ Minute \in Nat /\ Second <= Minute /\ Minute <= Minute
  BY LimitsConstants
<1>3. Within(admitted, Minute) <= 2 * Connections
  BY <1>1, <1>2, WindowTwice DEF LimitsInv
<1>4. Within(letThrough, Second) <= 2 * PerSecond
  BY <1>1, <1>2, WindowTwice DEF LimitsInv
<1>5. Within(letThrough, Minute) <= 2 * PerMinute
  BY <1>1, <1>2, WindowTwice DEF LimitsInv
<1> QED
  BY <1>3, <1>4, <1>5 DEF AtMostTwice

LEMMA ConnectionCounted ==
  ASSUME LimitsTypeOK, CountedTried,
         NEW a, a = Counted(arrivals, Minute, Connections),
         NEW now, now = IF tried[0] > Connections THEN tried ELSE Noted(tried)
  PROVE  /\ now \in [Ages -> Nat] /\ a.age \in 0..Minute
         /\ a.count <= Cardinality(Logged(now, 0..a.age))
         /\ a.count <= Within(now, Minute)
<1>1. /\ arrivals.age \in Nat /\ arrivals.count \in Nat /\ arrivals.count <= Connections + 1
      /\ tried \in [Ages -> Nat]
  BY LimitsConstants DEF LimitsTypeOK, Window
<1>2. now \in [Ages -> Nat]
  BY <1>1, LoggedNoted
<1>3. /\ a.age \in 0..Minute
      /\ \/ a.count = 1
         \/ /\ arrivals.age <= Minute /\ a.age = arrivals.age
            /\ a.count <= arrivals.count + 1 
      /\ a.count <= Connections + 1 /\ a.count \in Nat
  BY <1>1, LimitsConstants DEF Counted
<1> PICK S : S = 0..a.age
  OBVIOUS
<1>4. S \in SUBSET Ages /\ 0 \in S /\ 0..Minute = Ages
  BY <1>3, LimitsConstants
<1>5. tried[0] \in Nat /\ now[0] \in Nat /\ now[0] <= Cardinality(Logged(now, S))
      /\ Cardinality(Logged(now, S)) \in Nat /\ Cardinality(Logged(tried, S)) \in Nat
  BY <1>1, <1>2, <1>4, LoggedNow, LoggedFinite
<1>6. a.count <= Cardinality(Logged(now, S))
  <2>1. CASE tried[0] > Connections
    BY <1>3, <1>5, <2>1, LimitsConstants
  <2>2. CASE ~(tried[0] > Connections)
    <3>1. now[0] = tried[0] + 1
          /\ Cardinality(Logged(now, S)) = Cardinality(Logged(tried, S)) + 1
      BY <1>1, <1>4, <2>2, LoggedNoted
    <3>2. CASE a.count = 1
      BY <1>5, <3>1, <3>2
    <3>3. CASE arrivals.age <= Minute /\ a.age = arrivals.age /\ a.count <= arrivals.count + 1
      <4>1. arrivals.count <= Cardinality(Logged(tried, S))
        BY <3>3 DEF CountedTried
      <4> QED
        BY <1>1, <1>3, <1>5, <3>1, <3>3, <4>1
    <3> QED
      BY <1>3, <3>2, <3>3
  <2> QED
    BY <2>1, <2>2
<1>7. Cardinality(Logged(now, S)) <= Within(now, Minute) /\ Within(now, Minute) \in Nat
  BY <1>2, <1>4, LoggedMonotone, LoggedFinite DEF Within
<1> QED
  BY <1>2, <1>3, <1>5, <1>6, <1>7

LEMMA LimitsTicked ==
  ASSUME LimitsInv, Tick
  PROVE  LimitsInv'
<1>1. /\ arrivals \in Window(Connections) /\ second \in Window(PerSecond)
      /\ minute \in Window(PerMinute) /\ ban \in 0..BanTime /\ unearned = FALSE
      /\ tried \in [Ages -> Nat] /\ admitted \in [Ages -> Nat] /\ letThrough \in [Ages -> Nat]
  BY DEF LimitsInv, LimitsTypeOK, BansEarned
<1>2. /\ arrivals' = Older(arrivals) /\ second' = Older(second) /\ minute' = Older(minute)
      /\ ban' = (IF ban = 0 THEN 0 ELSE ban - 1) /\ unearned' = FALSE
      /\ tried' = Shifted(tried) /\ admitted' = Shifted(admitted)
      /\ letThrough' = Shifted(letThrough)
  BY <1>1 DEF Tick
<1>3. Connections \in Nat \ {0} /\ PerSecond \in Nat \ {0} /\ PerMinute \in Nat \ {0}
      /\ Second \in Nat /\ Minute \in Nat /\ Second <= Minute /\ Minute <= Minute /\ BanTime \in Nat
  BY LimitsConstants
<1>4. arrivals' \in Window(Connections) /\ WindowKept(arrivals', Minute, Connections, admitted')
  BY <1>1, <1>2, <1>3, WindowOlder DEF LimitsInv
<1>5. second' \in Window(PerSecond) /\ WindowKept(second', Second, PerSecond, letThrough')
  BY <1>1, <1>2, <1>3, WindowOlder DEF LimitsInv
<1>6. minute' \in Window(PerMinute) /\ WindowKept(minute', Minute, PerMinute, letThrough')
  BY <1>1, <1>2, <1>3, WindowOlder DEF LimitsInv
<1>7. ban' \in 0..BanTime
  BY <1>1, <1>2, <1>3
<1>8. tried' \in [Ages -> Nat] /\ admitted' \in [Ages -> Nat] /\ letThrough' \in [Ages -> Nat]
  BY <1>1, <1>2, LimitsConstants DEF Shifted
<1>9. LimitsTypeOK'
  BY <1>2, <1>4, <1>5, <1>6, <1>7, <1>8 DEF LimitsTypeOK, Window, Ages, Oldest
<1>10. CountedTried'
  <2> SUFFICES ASSUME arrivals'.age <= Minute
               PROVE  arrivals'.count <= Cardinality(Logged(tried', 0..arrivals'.age))
    BY DEF CountedTried, Logged
  <2>1. arrivals.age \in 0..Oldest /\ arrivals.count \in Nat
    BY <1>1, LimitsConstants DEF Window
  <2>2. arrivals'.count = arrivals.count
        /\ arrivals'.age = (IF arrivals.age < Oldest THEN arrivals.age + 1 ELSE Oldest)
    BY <1>1, <1>2 DEF Older, Window
  <2>3. arrivals'.age = arrivals.age + 1 /\ arrivals.age + 1 <= Minute
    BY <2>1, <2>2, LimitsConstants
  <2> PICK S, T : S = 0..arrivals.age /\ T = 0..(arrivals.age + 1)
    OBVIOUS
  <2>4. S \in SUBSET Ages /\ T \in SUBSET Ages /\ \A t \in S : t + 1 \in T
    BY <2>1, <2>3, LimitsConstants
  <2>5. Cardinality(Logged(tried, S)) <= Cardinality(Logged(Shifted(tried), T))
    BY <1>1, <2>4, LoggedShifted
  <2>6. arrivals.count <= Cardinality(Logged(tried, S))
    BY <2>1, <2>3, <1>3 DEF LimitsInv, CountedTried
  <2>7. Cardinality(Logged(tried, S)) \in Nat /\ Cardinality(Logged(tried', T)) \in Nat
    BY <1>1, <1>8, <2>4, LoggedFinite
  <2>8. arrivals.count <= Cardinality(Logged(tried', T))
    BY <1>2, <2>1, <2>5, <2>6, <2>7
  <2> QED
    BY <2>2, <2>3, <2>8
<1>11. WindowKept(arrivals, Minute, Connections, admitted)'
  BY <1>4 DEF WindowKept, Logged, Ages
<1>12. WindowKept(second, Second, PerSecond, letThrough)'
  BY <1>5 DEF WindowKept, Logged, Ages
<1>13. WindowKept(minute, Minute, PerMinute, letThrough)'
  BY <1>6 DEF WindowKept, Logged, Ages
<1> QED
  BY <1>2, <1>9, <1>10, <1>11, <1>12, <1>13 DEF LimitsInv, BansEarned

(* A connection or a message counts in its windows. *)
LEMMA ConnectionComes ==
  ASSUME LimitsInv, Connection
  PROVE  LimitsInv'
<1>1. /\ arrivals \in Window(Connections) /\ second \in Window(PerSecond)
      /\ minute \in Window(PerMinute) /\ ban = 0 /\ unearned = FALSE
      /\ tried \in [Ages -> Nat] /\ admitted \in [Ages -> Nat] /\ letThrough \in [Ages -> Nat]
  BY DEF LimitsInv, LimitsTypeOK, BansEarned, Connection
<1> PICK a, now : /\ a = Counted(arrivals, Minute, Connections)
                  /\ now = IF tried[0] > Connections THEN tried ELSE Noted(tried)
  OBVIOUS
<1>2. /\ now \in [Ages -> Nat] /\ a.age \in 0..Minute
      /\ a.count <= Cardinality(Logged(now, 0..a.age))
      /\ a.count <= Within(now, Minute)
  BY ConnectionCounted DEF LimitsInv
<1>3. /\ arrivals' = a /\ tried' = now
      /\ \/ a.count > Connections /\ ban' = BanTime /\ admitted' = admitted
            /\ unearned' \in BOOLEAN /\ (unearned' => Within(now, Minute) <= Connections)
         \/ ~(a.count > Connections) /\ ban' = ban /\ admitted' = Noted(admitted)
            /\ unearned' = FALSE
      /\ second' = second /\ minute' = minute /\ letThrough' = letThrough
  BY <1>1 DEF Connection, Within, Logged
<1>4. /\ Connections \in Nat \ {0} /\ Minute \in Nat /\ Minute <= Minute /\ BanTime \in Nat
  BY LimitsConstants
<1>5. a.count \in Nat /\ a \in Window(Connections)
  <2>1. a \in Window(Connections)
    BY <1>1, <1>4, WindowCounts DEF LimitsInv
  <2> QED
    BY <1>4, <2>1 DEF Window
<1>6. admitted' = admitted \/ (admitted' = Noted(admitted) /\ a.count <= Connections)
  BY <1>3, <1>4, <1>5
<1>7. WindowKept(a, Minute, Connections, admitted')
  BY <1>1, <1>4, <1>6, WindowCounts DEF LimitsInv
<1>8. Within(now, Minute) \in Nat
  BY <1>2, LimitsConstants, LoggedFinite DEF Within
<1>9. unearned' = FALSE
  <2>1. CASE a.count > Connections
    <3>1. ~(Within(now, Minute) <= Connections)
      BY <1>2, <1>4, <1>5, <1>8, <2>1
    <3> QED
      BY <1>3, <2>1, <3>1
  <2>2. CASE ~(a.count > Connections)
    BY <1>3, <2>2
  <2> QED
    BY <2>1, <2>2
<1>10. ban' \in 0..BanTime
  BY <1>1, <1>3, <1>4
<1>11. admitted' \in [Ages -> Nat]
  BY <1>1, <1>6, LoggedNoted
<1>12. LimitsTypeOK'
  BY <1>1, <1>2, <1>3, <1>5, <1>9, <1>10, <1>11 DEF LimitsTypeOK, Window, Ages, Oldest
<1>13. CountedTried'
  BY <1>2, <1>3 DEF CountedTried, Logged
<1>14. WindowKept(arrivals, Minute, Connections, admitted)'
  BY <1>3, <1>7 DEF WindowKept, Logged, Ages
<1>15. WindowKept(second, Second, PerSecond, letThrough)'
  BY <1>3 DEF LimitsInv, WindowKept, Logged, Ages
<1>16. WindowKept(minute, Minute, PerMinute, letThrough)'
  BY <1>3 DEF LimitsInv, WindowKept, Logged, Ages
<1> QED
  BY <1>9, <1>12, <1>13, <1>14, <1>15, <1>16 DEF LimitsInv, BansEarned

LEMMA MessageComes ==
  ASSUME LimitsInv, Message
  PROVE  LimitsInv'
<1>1. /\ second \in Window(PerSecond) /\ minute \in Window(PerMinute) /\ letThrough \in [Ages -> Nat]
  BY DEF LimitsInv, LimitsTypeOK
<1> PICK s, m : /\ s = Counted(second, Second, PerSecond) /\ m = Counted(minute, Minute, PerMinute)
  OBVIOUS
<1>2. /\ second' = s /\ minute' = m
      /\ letThrough' = IF s.count <= PerSecond /\ m.count <= PerMinute
                         THEN Noted(letThrough) ELSE letThrough
      /\ UNCHANGED <<arrivals, ban, tried, admitted, unearned>>
  BY DEF Message
<1>3. /\ PerSecond \in Nat \ {0} /\ PerMinute \in Nat \ {0}
      /\ Second \in Nat /\ Minute \in Nat /\ Second <= Minute /\ Minute <= Minute
  BY LimitsConstants
<1>4. /\ letThrough' = letThrough \/ (letThrough' = Noted(letThrough) /\ s.count <= PerSecond)
      /\ letThrough' = letThrough \/ (letThrough' = Noted(letThrough) /\ m.count <= PerMinute)
  BY <1>2
<1>5. s \in Window(PerSecond) /\ WindowKept(s, Second, PerSecond, letThrough')
  BY <1>1, <1>3, <1>4, WindowCounts DEF LimitsInv
<1>6. m \in Window(PerMinute) /\ WindowKept(m, Minute, PerMinute, letThrough')
  BY <1>1, <1>3, <1>4, WindowCounts DEF LimitsInv
<1>7. letThrough' \in [Ages -> Nat]
  BY <1>1, <1>4, LoggedNoted
<1>8. LimitsTypeOK'
  BY <1>2, <1>5, <1>6, <1>7 DEF LimitsInv, LimitsTypeOK, Window, Ages, Oldest
<1>9. WindowKept(arrivals, Minute, Connections, admitted)'
  BY <1>2 DEF LimitsInv, WindowKept, Logged, Ages
<1>10. WindowKept(second, Second, PerSecond, letThrough)'
  BY <1>2, <1>5 DEF WindowKept, Logged, Ages
<1>11. WindowKept(minute, Minute, PerMinute, letThrough)'
  BY <1>2, <1>6 DEF WindowKept, Logged, Ages
<1>12. CountedTried' /\ BansEarned'
  BY <1>2 DEF LimitsInv, CountedTried, Logged, BansEarned
<1> QED
  BY <1>8, <1>9, <1>10, <1>11, <1>12 DEF LimitsInv

LEMMA LimitsForgotten ==
  ASSUME LimitsInv, ForgetOld
  PROVE  LimitsInv'
<1>1. /\ arrivals \in Window(Connections) /\ minute \in Window(PerMinute)
      /\ admitted \in [Ages -> Nat] /\ letThrough \in [Ages -> Nat]
  BY DEF LimitsInv, LimitsTypeOK
<1>2. /\ arrivals' = arrivals \/ (arrivals' = NoWindow /\ arrivals.age > 2 * Minute)
      /\ \/ second' = second /\ minute' = minute
         \/ second' = NoWindow /\ minute' = NoWindow /\ minute.age > 2 * Minute
      /\ UNCHANGED <<ban, tried, admitted, letThrough, unearned>>
  BY DEF ForgetOld, logs
<1>3. /\ Connections \in Nat \ {0} /\ PerSecond \in Nat \ {0} /\ PerMinute \in Nat \ {0}
      /\ Second \in Nat /\ Minute \in Nat /\ Second <= Minute /\ Minute <= Minute
  BY LimitsConstants
<1>4. arrivals' \in Window(Connections) /\ WindowKept(arrivals', Minute, Connections, admitted)
  <2>1. CASE arrivals' = NoWindow /\ arrivals.age > 2 * Minute
    <3>1. \A t \in Ages : admitted[t] = 0
      BY <1>1, <2>1, LimitsConstants DEF LimitsInv, WindowKept, Window
    <3> QED
      BY <1>1, <1>3, <2>1, <3>1, WindowAnew
  <2> QED
    BY <1>1, <1>2, <2>1 DEF LimitsInv
<1>5. /\ second' \in Window(PerSecond) /\ WindowKept(second', Second, PerSecond, letThrough)
      /\ minute' \in Window(PerMinute) /\ WindowKept(minute', Minute, PerMinute, letThrough)
  <2>1. CASE second' = NoWindow /\ minute' = NoWindow /\ minute.age > 2 * Minute
    <3>1. \A t \in Ages : letThrough[t] = 0
      BY <1>1, <2>1, LimitsConstants DEF LimitsInv, WindowKept, Window
    <3>2. NoWindow \in Window(PerSecond) /\ WindowKept(NoWindow, Second, PerSecond, letThrough)
      BY <1>1, <1>3, <3>1, WindowAnew
    <3>3. NoWindow \in Window(PerMinute) /\ WindowKept(NoWindow, Minute, PerMinute, letThrough)
      BY <1>1, <1>3, <3>1, WindowAnew
    <3> QED
      BY <2>1, <3>2, <3>3
  <2> QED
    BY <1>2, <2>1 DEF LimitsInv, LimitsTypeOK
<1>6. LimitsTypeOK'
  BY <1>2, <1>4, <1>5 DEF LimitsInv, LimitsTypeOK, Window, Ages, Oldest
<1>7. WindowKept(arrivals, Minute, Connections, admitted)'
  BY <1>2, <1>4 DEF WindowKept, Logged, Ages
<1>8. WindowKept(second, Second, PerSecond, letThrough)'
  BY <1>2, <1>5 DEF WindowKept, Logged, Ages
<1>9. WindowKept(minute, Minute, PerMinute, letThrough)'
  BY <1>2, <1>5 DEF WindowKept, Logged, Ages
<1>10. CountedTried'
  <2>1. CASE arrivals' = arrivals
    BY <1>2, <2>1 DEF LimitsInv, CountedTried, Logged
  <2>2. CASE arrivals' = NoWindow
    BY <2>2, LimitsConstants DEF CountedTried, NoWindow
  <2> QED
    BY <1>2, <2>1, <2>2
<1> QED
  BY <1>2, <1>6, <1>7, <1>8, <1>9, <1>10 DEF LimitsInv, BansEarned

LEMMA LimitsStep == LimitsInv /\ [LimitsNext]_limitsVars => LimitsInv'
<1> SUFFICES ASSUME LimitsInv, [LimitsNext]_limitsVars PROVE LimitsInv'
  OBVIOUS
<1>1. CASE Ban \/ Unban \/ UNCHANGED limitsVars
  <2>1. /\ UNCHANGED <<arrivals, second, minute, tried, admitted, letThrough, unearned>>
        /\ ban' \in 0..BanTime
    BY <1>1, LimitsConstants, SMTT(40) DEF Ban, Unban, limitsVars, logs, LimitsInv, LimitsTypeOK
  <2>2. LimitsTypeOK'
    BY <2>1 DEF LimitsInv, LimitsTypeOK, Window, Ages, Oldest
  <2>3. CountedTried' /\ BansEarned'
    BY <2>1 DEF LimitsInv, CountedTried, Logged, BansEarned
  <2>4. WindowKept(arrivals, Minute, Connections, admitted)'
    BY <2>1 DEF LimitsInv, WindowKept, Logged, Ages
  <2>5. WindowKept(second, Second, PerSecond, letThrough)'
    BY <2>1 DEF LimitsInv, WindowKept, Logged, Ages
  <2>6. WindowKept(minute, Minute, PerMinute, letThrough)'
    BY <2>1 DEF LimitsInv, WindowKept, Logged, Ages
  <2> QED
    BY <2>2, <2>3, <2>4, <2>5, <2>6 DEF LimitsInv
<1> QED
  BY <1>1, LimitsTicked, ConnectionComes, MessageComes, LimitsForgotten DEF LimitsNext

LEMMA LimitsBegun == LimitsInit => LimitsInv
<1> SUFFICES ASSUME LimitsInit PROVE LimitsInv
  OBVIOUS
<1>1. /\ admitted \in [Ages -> Nat] /\ letThrough \in [Ages -> Nat] /\ tried \in [Ages -> Nat]
      /\ \A t \in Ages : admitted[t] = 0 /\ letThrough[t] = 0
  BY DEF LimitsInit
<1>2. /\ Connections \in Nat \ {0} /\ PerSecond \in Nat \ {0} /\ PerMinute \in Nat \ {0}
      /\ Second \in Nat /\ Minute \in Nat /\ Second <= Minute /\ Minute <= Minute
  BY LimitsConstants
<1>3. NoWindow \in Window(Connections) /\ WindowKept(NoWindow, Minute, Connections, admitted)
  BY <1>1, <1>2, WindowAnew
<1>4. NoWindow \in Window(PerSecond) /\ WindowKept(NoWindow, Second, PerSecond, letThrough)
  BY <1>1, <1>2, WindowAnew
<1>5. NoWindow \in Window(PerMinute) /\ WindowKept(NoWindow, Minute, PerMinute, letThrough)
  BY <1>1, <1>2, WindowAnew
<1>6. CountedTried
  BY LimitsConstants DEF LimitsInit, CountedTried, NoWindow
<1>7. LimitsTypeOK
  <2>0. ban = 0 /\ unearned = FALSE
    BY DEF LimitsInit
  <2>1. unearned \in BOOLEAN
    BY <2>0
  <2>3. 0 \in 0..BanTime
    BY LimitsConstants
  <2>4. ban \in 0..BanTime
    BY <2>0, <2>3
  <2>2. arrivals \in Window(Connections) /\ second \in Window(PerSecond)
        /\ minute \in Window(PerMinute)
    BY <1>3, <1>4, <1>5 DEF LimitsInit
  <2> QED
    BY <1>1, <2>1, <2>2, <2>4 DEF LimitsTypeOK
<1> QED
  BY <1>3, <1>4, <1>5, <1>6, <1>7 DEF LimitsInit, LimitsInv, BansEarned

(* Whatever the lengths of the windows and the limits, no stretch of the     *)
(* length of a window sees more than twice its limit, and no address is      *)
(* banned for fewer connections in a minute than it takes                    *)
(* (_allowConnection, _allowSignal, ban, unban and _cleanup of RateLimiter). *)
THEOREM LimitsAlwaysSafe == GuardsSpec => []LimitsSafe
<1> DEFINE Inv == part = "limits" => LimitsInv
<1>1. GuardsInit => Inv
  BY LimitsBegun DEF GuardsInit
<1>2. Inv /\ [GuardsNext]_<<part, gates, stores, onRoom, roomVars>> => Inv'
  <2> SUFFICES ASSUME Inv, [GuardsNext]_<<part, gates, stores, onRoom, roomVars>>,
                      part' = "limits"
               PROVE  LimitsInv'
    OBVIOUS
  <2>1. CASE LimitsNext /\ part = "limits"
    BY <2>1, LimitsStep
  <2>2. CASE UNCHANGED <<part, limitsVars>>
    BY <2>2, LimitsStep
  <2> QED
    BY <2>1, <2>2 DEF GuardsNext, gates
<1>3. Inv => LimitsSafe
  BY LimitsImplied DEF LimitsSafe
<1> QED
  BY <1>1, <1>2, <1>3, PTL DEF GuardsSpec

-----------------------------------------------------------------------------
(* Shedding. *)

(* Of a sequence one entry is taken out. *)
LEMMA TakenOut ==
  ASSUME NEW S, NEW s \in Seq(S), NEW i \in 1..Len(s)
  PROVE  /\ RemoveAt(s, i) \in Seq(S) /\ Len(RemoveAt(s, i)) = Len(s) - 1
         /\ \A k \in 1..Len(s) - 1 : RemoveAt(s, i)[k] = IF k < i THEN s[k] ELSE s[k + 1]
<1> PICK n : n = Len(s)
  OBVIOUS
<1>1. n \in Nat /\ i \in Nat /\ 1 <= i /\ i <= n
  BY LenProperties
<1> PICK a, b : a = SubSeq(s, 1, i - 1) /\ b = SubSeq(s, i + 1, n)
  OBVIOUS
<1>2. \A k \in 1..n : s[k] \in S
  BY ElementOfSeq
<1>3. a \in Seq(S) /\ Len(a) = i - 1 /\ \A k \in 1..i - 1 : a[k] = s[k]
  <2>1. 1 \in 1..n + 1 /\ i - 1 \in 1 - 1..n
    BY <1>1
  <2>2. \A k \in 1..i - 1 : s[k] \in S
    BY <1>1, <1>2
  <2>3. a \in Seq(S)
    BY <2>1, <2>2, SubSeqProperties
  <2>4. Len(a) = IF 1 <= i - 1 THEN (i - 1) - 1 + 1 ELSE 0
    BY <2>1, SubSeqProperties
  <2>5. Len(a) = i - 1
    BY <1>1, <2>4
  <2>6. \A k \in 1..Len(a) : a[k] = s[1 + k - 1]
    BY <2>1, SubSeqProperties
  <2> QED
    BY <1>1, <2>3, <2>5, <2>6
<1>4. b \in Seq(S) /\ Len(b) = n - i /\ \A k \in 1..n - i : b[k] = s[i + k]
  <2>1. i + 1 \in 1..n + 1 /\ n \in (i + 1) - 1..n
    BY <1>1
  <2>2. \A k \in i + 1..n : s[k] \in S
    BY <1>1, <1>2
  <2>3. b \in Seq(S)
    BY <2>1, <2>2, SubSeqProperties
  <2>4. Len(b) = IF i + 1 <= n THEN n - (i + 1) + 1 ELSE 0
    BY <2>1, SubSeqProperties
  <2>5. Len(b) = n - i
    BY <1>1, <2>4
  <2>6. \A k \in 1..Len(b) : b[k] = s[i + 1 + k - 1]
    BY <2>1, SubSeqProperties
  <2> QED
    BY <1>1, <2>3, <2>5, <2>6
<1> PICK r : r = a \o b
  OBVIOUS
<1>5. RemoveAt(s, i) = r
  BY DEF RemoveAt
<1>6. /\ r \in Seq(S) /\ Len(r) = Len(a) + Len(b)
      /\ \A k \in 1..Len(a) + Len(b) : r[k] = IF k <= Len(a) THEN a[k] ELSE b[k - Len(a)]
  <2>1. a \in Seq(S) /\ b \in Seq(S)
    BY <1>3, <1>4
  <2> QED
    BY <2>1, ConcatProperties, ZenonT(60)
<1> PICK v, w : v = Len(a) /\ w = Len(b)
  OBVIOUS
<1>l. v = i - 1 /\ w = n - i /\ v \in Nat /\ w \in Nat /\ v + w = n - 1
  <2>1. v = i - 1
    BY <1>3
  <2>2. w = n - i
    BY <1>4
  <2>3. \A m, j \in Nat : 1 <= j /\ j <= m =>
          j - 1 \in Nat /\ m - j \in Nat /\ (j - 1) + (m - j) = m - 1
    OBVIOUS
  <2> QED
    BY <1>1, <2>1, <2>2, <2>3, Zenon
<1>7. Len(r) = n - 1
  BY <1>6, <1>l
<1>8. ASSUME NEW k \in 1..n - 1 PROVE r[k] = IF k < i THEN s[k] ELSE s[k + 1]
  <2>0. Len(a) = i - 1 /\ k \in 1..Len(a) + Len(b) /\ k \in Int
    <3>1. k \in 1..v + w
      BY <1>l, Zenon
    <3>2. k \in Int
      OBVIOUS
    <3> QED
      BY <1>l, <3>1, <3>2, Zenon
  <2>1. CASE k < i
    <3>1. k <= i - 1 /\ k \in 1..i - 1
      BY <1>1, <2>0, <2>1
    <3>2. r[k] = a[k]
      BY <1>6, <2>0, <3>1
    <3>3. r[k] = s[k]
      BY <1>3, <3>1, <3>2
    <3> QED
      BY <2>1, <3>3
  <2>2. CASE ~(k < i)
    <3>1. k - (i - 1) \in 1..n - i /\ i + (k - (i - 1)) = k + 1 /\ ~(k <= i - 1)
      BY <1>1, <2>2
    <3>2. r[k] = b[k - (i - 1)]
      BY <1>6, <2>0, <3>1
    <3>3. b[k - (i - 1)] = s[k + 1]
      BY <1>4, <3>1
    <3> QED
      BY <2>2, <3>2, <3>3
  <2> QED
    BY <2>1, <2>2
<1> QED
  BY <1>5, <1>6, <1>7, <1>8

(* The victims outside xs stand in es before all but a few outside xs. *)
Covers(m, es, xs, vs) ==
  /\ m \in 0..Len(es)
  /\ Cardinality({es[k] : k \in 1..m} \ xs) <= Quota(Cardinality(Peers))
  /\ \A i \in 1..Len(es) : es[i] \in vs \ xs => i <= m

AmongFirst(es, xs, vs) == \E m \in Nat : Covers(m, es, xs, vs)

Listed(es) == es \in Seq(Peers) /\ \A i, j \in 1..Len(es) : es[i] = es[j] => i = j

Ones(es) == {es[k] : k \in 1..Len(es)}

LEMMA QuotaGrows ==
  ASSUME NEW m \in Nat, NEW n \in Nat, m <= n
  PROVE  Quota(m) \in Nat /\ Quota(m) <= Quota(n)
BY DEF Quota

LEMMA FewerFinite ==
  ASSUME NEW A, A \subseteq Peers, NEW B, B \subseteq A
  PROVE  /\ Cardinality(A) \in Nat /\ Cardinality(B) \in Nat /\ Cardinality(B) <= Cardinality(A)
BY RoomLifeAssumption, FS_Subset, FS_CardinalityType

(* Fewer are before fewer than the quota. *)
LEMMA FewerAreFew ==
  ASSUME NEW A, A \subseteq Peers, Cardinality(A) <= Quota(Cardinality(Peers)),
         NEW B, B \subseteq A
  PROVE  Cardinality(B) <= Quota(Cardinality(Peers))
<1>1. Quota(Cardinality(Peers)) \in Nat
  BY RoomLifeAssumption, FS_CardinalityType, QuotaGrows
<1>2. Cardinality(B) <= Cardinality(A) /\ Cardinality(A) \in Nat /\ Cardinality(B) \in Nat
  BY FewerFinite
<1> QED
  BY <1>1, <1>2

LEMMA FirstAppended ==
  ASSUME NEW es, Listed(es), NEW xs, NEW ys, NEW vs, AmongFirst(es, xs, vs), xs \subseteq ys,
         NEW p \in Peers, p \notin Ones(es), p \notin vs
  PROVE  /\ Listed(Append(es, p)) /\ AmongFirst(Append(es, p), ys, vs)
         /\ Ones(Append(es, p)) = Ones(es) \cup {p}
<1> PICK r, n : r = Append(es, p) /\ n = Len(es)
  OBVIOUS
<1>1. /\ n \in Nat /\ r \in Seq(Peers) /\ Len(r) = n + 1
      /\ \A i \in 1..n : r[i] = es[i] /\ es[i] \in Peers /\ es[i] # p
      /\ r[n + 1] = p
  BY Appended, ElementOfSeq DEF Listed, Ones
<1>2. Listed(r)
  <2> SUFFICES ASSUME NEW i \in 1..n + 1, NEW j \in 1..n + 1, r[i] = r[j] PROVE i = j
    BY <1>1 DEF Listed
  <2>1. (i \in 1..n \/ i = n + 1) /\ (j \in 1..n \/ j = n + 1)
    BY <1>1
  <2> QED
    BY <1>1, <2>1 DEF Listed
<1>3. PICK m \in Nat : Covers(m, es, xs, vs)
  BY DEF AmongFirst
<1>4. Covers(m, r, ys, vs)
  <2>1. m \in 0..n
    BY <1>3 DEF Covers
  <2>2. \A k \in 1..m : r[k] = es[k] /\ es[k] \in Peers
    BY <1>1, <2>1
  <2>3. Cardinality({r[k] : k \in 1..m} \ ys) <= Quota(Cardinality(Peers))
    <3> PICK A, B : A = {es[k] : k \in 1..m} \ xs /\ B = {r[k] : k \in 1..m} \ ys
      OBVIOUS
    <3>1. A \subseteq Peers /\ B \subseteq A
      BY <2>2
    <3>2. Cardinality(A) <= Quota(Cardinality(Peers))
      BY <1>3 DEF Covers
    <3> QED
      BY <3>1, <3>2, FewerAreFew
  <2>4. ASSUME NEW i \in 1..n + 1, r[i] \in vs \ ys PROVE i <= m
    <3>1. i \in 1..n /\ es[i] \in vs \ xs
      BY <1>1, <2>4
    <3> QED
      BY <1>3, <3>1 DEF Covers
  <2>5. m \in 0..Len(r) /\ 1..Len(r) = 1..n + 1
    BY <1>1, <2>1
  <2> QED
    BY <2>3, <2>4, <2>5 DEF Covers
<1>5. Ones(r) = Ones(es) \cup {p}
  <2>1. \A k \in 1..n + 1 : k \in 1..n \/ k = n + 1
    BY <1>1
  <2>2. n + 1 \in 1..n + 1 /\ \A k \in 1..n : k \in 1..n + 1
    BY <1>1
  <2> QED
    BY <1>1, <2>1, <2>2 DEF Ones
<1> QED
  BY <1>2, <1>4, <1>5 DEF AmongFirst

LEMMA FirstRemoved ==
  ASSUME NEW es, Listed(es), NEW xs, NEW ys, NEW vs, AmongFirst(es, xs, vs), xs \subseteq ys,
         NEW o \in 1..Len(es)
  PROVE  /\ Listed(RemoveAt(es, o)) /\ AmongFirst(RemoveAt(es, o), ys, vs)
         /\ Ones(RemoveAt(es, o)) \subseteq Ones(es)
         /\ Ones(es) \subseteq Ones(RemoveAt(es, o)) \cup {es[o]}
<1> PICK r, n : r = RemoveAt(es, o) /\ n = Len(es)
  OBVIOUS
<1>1. /\ n \in Nat /\ o \in 1..n /\ r \in Seq(Peers) /\ Len(r) = n - 1
      /\ \A i \in 1..n : es[i] \in Peers
      /\ \A k \in 1..n - 1 : r[k] = IF k < o THEN es[k] ELSE es[k + 1]
  BY TakenOut, ElementOfSeq, LenProperties DEF Listed
<1> DEFINE from == [k \in 1..n - 1 |-> IF k < o THEN k ELSE k + 1]
<1>2. \A k \in 1..n - 1 : from[k] \in 1..n /\ from[k] # o /\ r[k] = es[from[k]]
  BY <1>1
<1>3. \A i, j \in 1..n - 1 : from[i] = from[j] => i = j
  BY <1>1
<1>4. Listed(r)
  <2> SUFFICES ASSUME NEW i \in 1..n - 1, NEW j \in 1..n - 1, r[i] = r[j] PROVE i = j
    BY <1>1 DEF Listed
  <2>1. from[i] = from[j]
    BY <1>2 DEF Listed
  <2> QED
    BY <1>3, <2>1
<1>5. PICK m \in Nat : Covers(m, es, xs, vs)
  BY DEF AmongFirst
<1> PICK l : l = IF o <= m THEN m - 1 ELSE m
  OBVIOUS
<1>6. Covers(l, r, ys, vs)
  <2>1. m \in 0..n
    BY <1>5 DEF Covers
  <2>2. l \in 0..n - 1
    BY <1>1, <2>1
  <2>3. \A k \in 1..l : from[k] \in 1..m /\ r[k] = es[from[k]]
    <3> SUFFICES ASSUME NEW k \in 1..l PROVE from[k] \in 1..m /\ r[k] = es[from[k]]
      OBVIOUS
    <3>1. k \in 1..n - 1
      BY <1>1, <2>2
    <3>2. from[k] \in 1..m
      BY <1>1, <2>1, <3>1
    <3> QED
      BY <1>2, <3>1, <3>2
  <2>4. Cardinality({r[k] : k \in 1..l} \ ys) <= Quota(Cardinality(Peers))
    <3> HIDE DEF from
    <3> PICK A, B : A = {es[k] : k \in 1..m} \ xs /\ B = {r[k] : k \in 1..l} \ ys
      OBVIOUS
    <3>1. A \subseteq Peers
      BY <1>1, <2>1
    <3>2. B \subseteq A
      BY <2>3
    <3>3. Cardinality(A) <= Quota(Cardinality(Peers))
      BY <1>5 DEF Covers
    <3> QED
      BY <3>1, <3>2, <3>3, FewerAreFew
  <2>5. ASSUME NEW i \in 1..n - 1, r[i] \in vs \ ys PROVE i <= l
    <3>1. es[from[i]] \in vs \ xs /\ from[i] \in 1..n
      BY <1>2, <2>5
    <3>2. from[i] <= m
      <4> HIDE DEF from
      <4> QED
        BY <1>5, <3>1 DEF Covers
    <3> QED
      BY <1>1, <2>1, <3>2
  <2> QED
    BY <1>1, <2>2, <2>4, <2>5 DEF Covers
<1>7. l \in Nat
  BY <1>1, <1>6 DEF Covers
<1>8. Ones(r) \subseteq Ones(es)
  <2> HIDE DEF from
  <2> QED
    BY <1>1, <1>2 DEF Ones
<1>9. ASSUME NEW i \in 1..n, i # o PROVE es[i] \in Ones(r)
  <2>1. CASE i < o
    <3>1. i \in 1..n - 1 /\ r[i] = es[i]
      BY <1>1, <2>1
    <3> QED
      BY <1>1, <3>1 DEF Ones
  <2>2. CASE i > o
    <3> PICK k : k = i - 1
      OBVIOUS
    <3>1. k \in 1..n - 1 /\ ~(k < o) /\ k + 1 = i
      BY <1>1, <2>2
    <3>2. r[k] = es[i]
      BY <1>1, <3>1
    <3> QED
      BY <1>1, <3>1, <3>2 DEF Ones
  <2> QED
    BY <1>1, <1>9, <2>1, <2>2
<1>10. Ones(es) \subseteq Ones(r) \cup {es[o]}
  BY <1>9 DEF Ones
<1> QED
  BY <1>4, <1>6, <1>7, <1>8, <1>10 DEF AmongFirst

(* Who is shed stands before all but a few, with those shed before. *)
LEMMA FirstShed ==
  ASSUME NEW es, Listed(es), NEW xs, NEW ys, NEW vs, AmongFirst(es, xs, vs), ys \subseteq xs,
         NEW i \in 0..Len(es), NEW ps, ps = {es[k] : k \in 1..i} \ ys,
         Cardinality(ps) <= Quota(Cardinality(Peers))
  PROVE  AmongFirst(es, xs, vs \cup ps)
<1>1. Len(es) \in Nat /\ \A k \in 1..Len(es) : es[k] \in Peers
  BY ElementOfSeq, LenProperties DEF Listed
<1>2. PICK m \in Nat : Covers(m, es, xs, vs)
  BY DEF AmongFirst
<1>3. m \in 0..Len(es)
  BY <1>2 DEF Covers
<1>4. \A j \in 1..Len(es) : es[j] \in (vs \cup ps) \ xs => j <= m \/ j <= i
  <2> SUFFICES ASSUME NEW j \in 1..Len(es), es[j] \in (vs \cup ps) \ xs PROVE j <= m \/ j <= i
    OBVIOUS
  <2>1. CASE es[j] \in vs
    BY <1>2, <2>1 DEF Covers
  <2>2. CASE es[j] \in ps
    <3>1. PICK k \in 1..i : es[k] = es[j]
      BY <2>2
    <3>2. k \in 1..Len(es) /\ k <= i
      BY <1>1
    <3>3. k = j
      BY <3>1, <3>2 DEF Listed
    <3> QED
      BY <3>2, <3>3
  <2> QED
    BY <2>1, <2>2
<1>5. CASE i <= m
  <2>1. \A j \in 1..Len(es) : es[j] \in (vs \cup ps) \ xs => j <= m
    BY <1>1, <1>3, <1>4, <1>5
  <2> QED
    BY <1>2, <2>1 DEF Covers, AmongFirst
<1>6. CASE m < i
  <2>1. \A j \in 1..Len(es) : es[j] \in (vs \cup ps) \ xs => j <= i
    BY <1>1, <1>3, <1>4, <1>6
  <2>2. \A k \in 1..i : es[k] \in Peers
    BY <1>1
  <2> PICK B : B = {es[k] : k \in 1..i} \ xs
    OBVIOUS
  <2>3. ps \subseteq Peers /\ B \subseteq ps
    BY <2>2
  <2>4. Cardinality(B) <= Quota(Cardinality(Peers))
    BY <2>3, FewerAreFew
  <2>5. i \in Nat
    BY <1>1
  <2> QED
    BY <2>1, <2>4, <2>5 DEF Covers, AmongFirst
<1> QED
  BY <1>1, <1>3, <1>5, <1>6

(* Victims that stand before all but a few are few. *)
LEMMA FirstAreFew ==
  ASSUME NEW es, Listed(es), NEW xs, NEW vs, AmongFirst(es, xs, vs)
  PROVE  Cardinality((vs \ xs) \cap Ones(es)) <= Quota(Cardinality(Peers))
<1>1. Len(es) \in Nat /\ \A k \in 1..Len(es) : es[k] \in Peers
  BY ElementOfSeq, LenProperties DEF Listed
<1>2. PICK m \in Nat : Covers(m, es, xs, vs)
  BY DEF AmongFirst
<1>3. m \in 0..Len(es)
  BY <1>2 DEF Covers
<1> PICK A, V : A = {es[k] : k \in 1..m} \ xs /\ V = (vs \ xs) \cap Ones(es)
  OBVIOUS
<1>4. A \subseteq Peers
  <2>1. \A k \in 1..m : es[k] \in Peers
    BY <1>1, <1>3
  <2> QED
    BY <2>1
<1>5. V \subseteq A
  <2> SUFFICES ASSUME NEW p \in V PROVE p \in A
    OBVIOUS
  <2>1. PICK k \in 1..Len(es) : es[k] = p
    BY DEF Ones
  <2>2. k <= m
    BY <1>2, <2>1 DEF Covers
  <2>3. k \in 1..m
    BY <1>1, <1>3, <2>1, <2>2
  <2> QED
    BY <2>1, <2>3
<1>6. Cardinality(A) <= Quota(Cardinality(Peers))
  BY <1>2 DEF Covers
<1> QED
  BY <1>4, <1>5, <1>6, FewerAreFew

LEMMA FewEntries ==
  ASSUME NEW es, Listed(es)
  PROVE  /\ Len(es) \in Nat /\ Cardinality(Peers) \in Nat
         /\ Len(es) <= Cardinality(Peers)
<1> PICK n : n = Len(es)
  OBVIOUS
<1>1. n \in Nat /\ es \in [1..n -> Peers]
  BY ElementOfSeq, LenProperties DEF Listed
<1>2. es \in Injection(1..n, Peers)
  BY <1>1 DEF Listed, Injection, IsInjective
<1>3. IsFiniteSet(1..n) /\ Cardinality(1..n) = n
  <2>1. 1 \in Int /\ n \in Int
    BY <1>1
  <2>2. IsFiniteSet(1..n) /\ Cardinality(1..n) = IF 1 > n THEN 0 ELSE n - 1 + 1
    BY <2>1, FS_Interval
  <2> QED
    BY <1>1, <2>2
<1>4. Cardinality(1..n) <= Cardinality(Peers) /\ Cardinality(Peers) \in Nat
  BY <1>2, RoomLifeAssumption, FS_Injection, FS_CardinalityType
<1> QED
  BY <1>1, <1>3, <1>4

LEMMA EntriesListed ==
  ASSUME NEW es \in Seq(Peers)
  PROVE  (IsInjective(es) <=> Listed(es)) /\ ToSet(es) = Ones(es)
<1>1. DOMAIN es = 1..Len(es)
  OBVIOUS
<1> QED
  BY <1>1 DEF IsInjective, Listed, ToSet, Ones

(* What is over stays so, whatever happens to the room. *)
Onward ==
  \A p \in Peers : /\ status[p] = "left" => status'[p] = "left"
                   /\ status[p] # "outside" => status'[p] # "outside"

LEMMA RoomOnward ==
  ASSUME RoomTypeOK, RoomNext \/ UNCHANGED roomVars
  PROVE  RoomTypeOK' /\ Onward
<1>1. RoomTypeOK'
  BY RoomTypeStep DEF RoomTypeOK, roomVars
<1>2. ASSUME NEW p \in Peers, Enter(p) PROVE Onward
  BY <1>2 DEF Enter, Become, Onward, RoomTypeOK
<1>3. ASSUME NEW p \in Peers, Fade(p) \/ Drop(p) \/ Return(p) PROVE Onward
  BY <1>3 DEF Fade, Drop, Return, Become, Onward, RoomTypeOK
<1>4. ASSUME NEW p \in Peers, Exit(p) PROVE Onward
  BY <1>4 DEF Exit, Become, Onward, RoomTypeOK
<1>5. ASSUME NEW ps \in SUBSET Peers, Strand(ps) PROVE Onward
  <2>1. \A p \in ps : status[p] # "left"
    BY <1>5 DEF Strand, Reachable, RoomMembers, Inside
  <2> QED
    BY <1>5, <2>1 DEF Strand, Onward, RoomTypeOK
<1>6. CASE Make \/ UNCHANGED roomVars
  <2>1. status' = status
    BY <1>6 DEF Make, roomVars
  <2> QED
    BY <1>1, <2>1 DEF Onward
<1> QED
  BY <1>1, <1>2, <1>3, <1>4, <1>5, <1>6 DEF RoomNext

NewHaveNone == \A p \in Peers : joining[p] = "new" => p \notin Ones(entries) \cup victims

(* Only a hook that answers late takes CLOSED from a connection. *)
ShutOrIn == \A p \in victims \ shut : status[p] # "outside"

SheddingInv ==
  /\ SheddingTypeOK /\ ShedAreCounted /\ NewHaveNone /\ ShutOrIn
  /\ AmongFirst(entries, staff \cup demoted, victims)

LEMMA SheddingFields ==
  ASSUME SheddingInv
  PROVE  /\ RoomTypeOK /\ status \in [Peers -> Status]
         /\ Listed(entries) /\ entries \in Seq(Peers) /\ ToSet(entries) = Ones(entries)
         /\ Ones(entries) \subseteq Peers
         /\ joining \in [Peers -> {"new", "connected", "asking", "over"}]
         /\ shut \subseteq Peers /\ staff \subseteq Peers /\ victims \subseteq Peers
         /\ demoted \subseteq Peers /\ strain \in BOOLEAN
         /\ \A p \in victims : p \in Ones(entries) \/ status[p] = "left"
         /\ \A p \in victims \ shut : status[p] # "outside"
         /\ \A p \in Peers : joining[p] = "new" => p \notin Ones(entries) \cup victims
         /\ AmongFirst(entries, staff \cup demoted, victims)
<1>1. entries \in Seq(Peers) /\ IsInjective(entries)
  BY DEF SheddingInv, SheddingTypeOK
<1>2. Listed(entries) /\ ToSet(entries) = Ones(entries)
  BY <1>1, EntriesListed
<1>3. Ones(entries) \subseteq Peers
  BY <1>1, ElementOfSeq DEF Ones
<1> QED
  BY <1>1, <1>2, <1>3
     DEF SheddingInv, SheddingTypeOK, RoomTypeOK, ShedAreCounted, NewHaveNone, ShutOrIn

(* What a step has to keep. *)
LEMMA SheddingHeld ==
  ASSUME RoomTypeOK', Listed(entries'),
         joining' \in [Peers -> {"new", "connected", "asking", "over"}],
         shut' \cup staff' \cup victims' \cup demoted' \subseteq Peers, strain' \in BOOLEAN,
         \A p \in victims' : p \in Ones(entries') \/ status'[p] = "left",
         \A p \in victims' \ shut' : status'[p] # "outside",
         \A p \in Peers : joining'[p] = "new" => p \notin Ones(entries') \cup victims',
         AmongFirst(entries', staff' \cup demoted', victims')
  PROVE  SheddingInv'
<1>1. entries' \in Seq(Peers)
  BY DEF Listed
<1>2. IsInjective(entries') /\ ToSet(entries') = Ones(entries')
  BY <1>1, EntriesListed
<1> QED
  BY <1>1, <1>2
     DEF SheddingInv, SheddingTypeOK, ShedAreCounted, NewHaveNone, ShutOrIn

(* Steps that shed nobody. *)
LEMMA SheddingKept ==
  ASSUME SheddingInv, RoomNext \/ UNCHANGED roomVars,
         entries' = entries, victims' = victims, strain' = strain,
         joining' \in [Peers -> {"new", "connected", "asking", "over"}],
         \A p \in Peers : joining'[p] = "new" => joining[p] = "new",
         shut' \cup staff' \cup demoted' \subseteq Peers,
         staff \cup demoted \subseteq staff' \cup demoted',
         \A p \in shut \ shut' : status'[p] # "outside"
  PROVE  SheddingInv'
<1>1. RoomTypeOK' /\ Onward
  BY SheddingFields, RoomOnward
<1>2. AmongFirst(entries', staff' \cup demoted', victims')
  <2>1. PICK m \in Nat : Covers(m, entries, staff \cup demoted, victims)
    BY SheddingFields DEF AmongFirst
  <2>2. PICK xs, ys : xs = staff \cup demoted /\ ys = staff' \cup demoted'
    OBVIOUS
  <2>3. xs \subseteq ys
    BY <2>2
  <2>4. Covers(m, entries, ys, victims)
    <3>1. m \in 0..Len(entries) /\ Cardinality({entries[k] : k \in 1..m} \ xs) <= Quota(Cardinality(Peers))
      BY <2>1, <2>2 DEF Covers
    <3>2. \A k \in 1..m : entries[k] \in Peers
      BY <3>1, SheddingFields, ElementOfSeq
    <3> PICK A, B : A = {entries[k] : k \in 1..m} \ xs /\ B = {entries[k] : k \in 1..m} \ ys
      OBVIOUS
    <3>3. A \subseteq Peers /\ B \subseteq A
      BY <2>3, <3>2
    <3>4. Cardinality(B) <= Quota(Cardinality(Peers))
      BY <3>1, <3>3, FewerAreFew
    <3>5. \A i \in 1..Len(entries) : entries[i] \in victims \ ys => i <= m
      BY <2>1, <2>2, <2>3 DEF Covers
    <3> QED
      BY <3>1, <3>4, <3>5 DEF Covers
  <2> QED
    BY <2>2, <2>4 DEF AmongFirst
<1>3. /\ Listed(entries') /\ shut' \cup staff' \cup victims' \cup demoted' \subseteq Peers
      /\ strain' \in BOOLEAN
  BY SheddingFields
<1>4. \A p \in victims' : p \in Ones(entries') \/ status'[p] = "left"
  BY <1>1, SheddingFields DEF Onward
<1>5. \A p \in victims' \ shut' : status'[p] # "outside"
  BY <1>1, SheddingFields DEF Onward
<1>6. \A p \in Peers : joining'[p] = "new" => p \notin Ones(entries') \cup victims'
  BY SheddingFields
<1> QED
  BY <1>1, <1>2, <1>3, <1>4, <1>5, <1>6, SheddingHeld

(* An entry is taken out of a peer that is no victim or has left. *)
LEMMA SheddingUnlisted ==
  ASSUME SheddingInv, RoomNext \/ UNCHANGED roomVars, NEW p \in Peers, Unlists(p),
         p \in victims => status'[p] = "left",
         joining' \in [Peers -> {"new", "connected", "asking", "over"}],
         \A q \in Peers : joining'[q] = "new" => joining[q] = "new",
         UNCHANGED <<shut, staff, strain, victims, demoted>>
  PROVE  SheddingInv'
<1>1. RoomTypeOK' /\ Onward
  BY SheddingFields, RoomOnward
<1>2. CASE entries' = entries
  BY <1>2, SheddingKept, SheddingFields
<1>3. ASSUME NEW i \in DOMAIN entries, entries[i] = p, entries' = RemoveAt(entries, i)
      PROVE  SheddingInv'
  <2>0. i \in 1..Len(entries)
    BY SheddingFields
  <2>1. /\ Listed(entries') /\ AmongFirst(entries', staff \cup demoted, victims)
        /\ Ones(entries') \subseteq Ones(entries)
        /\ Ones(entries) \subseteq Ones(entries') \cup {p}
    <3> PICK xs, r : xs = staff \cup demoted /\ r = RemoveAt(entries, i)
      OBVIOUS
    <3>1. Listed(entries) /\ AmongFirst(entries, xs, victims) /\ xs \subseteq xs
      BY SheddingFields
    <3>2. /\ Listed(r) /\ AmongFirst(r, xs, victims)
          /\ Ones(r) \subseteq Ones(entries) /\ Ones(entries) \subseteq Ones(r) \cup {entries[i]}
      BY <2>0, <3>1, FirstRemoved
    <3> QED
      BY <1>3, <3>2
  <2>2. \A q \in victims' : q \in Ones(entries') \/ status'[q] = "left"
    <3> SUFFICES ASSUME NEW q \in victims, q \notin Ones(entries') PROVE status'[q] = "left"
      OBVIOUS
    <3>1. CASE q \in Ones(entries)
      BY <2>1, <3>1
    <3>2. CASE q \notin Ones(entries)
      BY <1>1, <3>2, SheddingFields DEF Onward
    <3> QED
      BY <3>1, <3>2
  <2>3. \A q \in victims' \ shut' : status'[q] # "outside"
    BY <1>1, SheddingFields DEF Onward
  <2>4. \A q \in Peers : joining'[q] = "new" => q \notin Ones(entries') \cup victims'
    BY <2>1, SheddingFields
  <2>5. /\ shut' \cup staff' \cup victims' \cup demoted' \subseteq Peers /\ strain' \in BOOLEAN
        /\ AmongFirst(entries', staff' \cup demoted', victims')
    BY <2>1, SheddingFields
  <2> QED
    BY <1>1, <2>1, <2>2, <2>3, <2>4, <2>5, SheddingHeld
<1> QED
  BY <1>2, <1>3 DEF Unlists

LEMMA SheddingMeasured ==
  ASSUME SheddingInv, Measure, RoomNext \/ UNCHANGED roomVars
  PROVE  SheddingInv'
<1>1. RoomTypeOK' /\ Onward
  BY SheddingFields, RoomOnward
<1>2. UNCHANGED <<entries, joining, staff, demoted>>
  BY DEF Measure
<1>3. strain' \in BOOLEAN
  BY DEF Measure
<1>4. CASE UNCHANGED <<shut, victims>>
  <2>1. \A p \in shut \ shut' : status'[p] # "outside"
    BY <1>4
  <2>2. Listed(entries') /\ AmongFirst(entries', staff' \cup demoted', victims')
    BY <1>2, <1>4, SheddingFields
  <2>3. \A p \in victims' : p \in Ones(entries') \/ status'[p] = "left"
    BY <1>1, <1>2, <1>4, SheddingFields DEF Onward
  <2>4. \A p \in victims' \ shut' : status'[p] # "outside"
    BY <1>1, <1>4, SheddingFields DEF Onward
  <2>5. /\ shut' \cup staff' \cup victims' \cup demoted' \subseteq Peers
        /\ joining' \in [Peers -> {"new", "connected", "asking", "over"}]
        /\ \A q \in Peers : joining'[q] = "new" => q \notin Ones(entries') \cup victims'
    BY <1>2, <1>4, SheddingFields
  <2> QED
    BY <1>1, <1>3, <2>2, <2>3, <2>4, <2>5, SheddingHeld
<1>5. CASE ShedPeers(Quota(Len(entries)))
  <2>1. PICK i \in 0..Len(entries) :
          /\ Cardinality(Between(1, i)) = Least(Quota(Len(entries)), Cardinality(Sheddable))
          /\ Shed(Between(1, i))
    BY <1>5 DEF ShedPeers
  <2> PICK ps : ps = Between(1, i)
    OBVIOUS
  <2>2. ps = {entries[k] : k \in 1..i} \ staff
    BY DEF Between
  <2>3. shut' = shut \cup ps /\ victims' = victims \cup ps
    BY <2>1 DEF Shed
  <2>4. ps \subseteq Ones(entries) /\ ps \subseteq Peers
    <3>1. Len(entries) \in Nat
      BY SheddingFields, LenProperties
    <3>2. \A k \in 1..i : k \in 1..Len(entries)
      BY <3>1
    <3>3. ps \subseteq Ones(entries)
      BY <2>2, <3>2 DEF Ones
    <3> QED
      BY <3>3, SheddingFields
  <2>5. Cardinality(ps) <= Quota(Cardinality(Peers))
    <3>1. Len(entries) \in Nat /\ Len(entries) <= Cardinality(Peers) /\ Cardinality(Peers) \in Nat
      BY SheddingFields, FewEntries
    <3>2. /\ Quota(Len(entries)) \in Nat /\ Quota(Len(entries)) <= Quota(Cardinality(Peers))
          /\ Quota(Cardinality(Peers)) \in Nat
      BY <3>1, QuotaGrows
    <3>3. Sheddable \subseteq Peers
      BY SheddingFields DEF Sheddable
    <3>4. Cardinality(Sheddable) \in Nat
      BY <3>3, FewerFinite
    <3> PICK c, l, n, s : /\ c = Cardinality(ps) /\ l = Quota(Len(entries))
                          /\ n = Quota(Cardinality(Peers)) /\ s = Cardinality(Sheddable)
      OBVIOUS
    <3>5. c = Least(l, s)
      BY <2>1
    <3>6. l \in Nat /\ n \in Nat /\ s \in Nat /\ l <= n
      BY <3>2, <3>4
    <3>7. c <= n
      BY <3>5, <3>6 DEF Least
    <3> QED
      BY <3>7
  <2>6. AmongFirst(entries, staff \cup demoted, victims \cup ps)
    <3> PICK xs, ys : xs = staff \cup demoted /\ ys = staff
      OBVIOUS
    <3>1. Listed(entries) /\ AmongFirst(entries, xs, victims) /\ ys \subseteq xs
      BY SheddingFields
    <3>2. i \in 0..Len(entries) /\ ps = {entries[k] : k \in 1..i} \ ys
      BY <2>2
    <3> QED
      BY <2>5, <3>1, <3>2, FirstShed
  <2>7. \A p \in victims' : p \in Ones(entries') \/ status'[p] = "left"
    BY <1>1, <1>2, <2>3, <2>4, SheddingFields DEF Onward
  <2>8. \A p \in victims' \ shut' : status'[p] # "outside"
    BY <1>1, <2>3, SheddingFields DEF Onward
  <2>9. /\ shut' \cup staff' \cup victims' \cup demoted' \subseteq Peers
        /\ joining' \in [Peers -> {"new", "connected", "asking", "over"}]
        /\ Listed(entries') /\ AmongFirst(entries', staff' \cup demoted', victims')
    BY <1>2, <2>3, <2>4, <2>6, SheddingFields
  <2>10. \A q \in Peers : joining'[q] = "new" => q \notin Ones(entries') \cup victims'
    BY <1>2, <2>3, <2>4, SheddingFields
  <2> QED
    BY <1>1, <1>3, <2>7, <2>8, <2>9, <2>10, SheddingHeld
<1> QED
  BY <1>4, <1>5 DEF Measure

LEMMA SheddingRoomStep ==
  ASSUME SheddingNext
  PROVE  RoomNext \/ UNCHANGED roomVars
<1>1. ASSUME NEW p \in Peers,
             Connects(p) \/ Vanishes(p) \/ AsksUnderLoad(p) \/ IsRefused(p) \/ FindsFull(p)
               \/ IsLetIn(p) \/ ChangesRole(p) \/ GoesAway(p)
      PROVE  RoomNext \/ UNCHANGED roomVars
  BY <1>1 DEF Connects, Vanishes, AsksUnderLoad, IsRefused, FindsFull, IsLetIn, ChangesRole, GoesAway,
     RoomNext
<1>2. CASE Drifts \/ ClosedByApp
  BY <1>2 DEF Drifts, ClosedByApp, RoomNext
<1>3. ASSUME NEW ps, Shed(ps) PROVE RoomNext \/ UNCHANGED roomVars
  <2>1. UNCHANGED roomVars \/ Strand(ps \cap Reachable)
    BY <1>3 DEF Shed
  <2>2. ps \cap Reachable \in SUBSET Peers
    BY DEF Reachable, RoomMembers
  <2> QED BY <2>1, <2>2 DEF RoomNext
<1>4. CASE Measure
  BY <1>3, <1>4 DEF Measure, ShedPeers
<1> QED BY <1>1, <1>2, <1>4 DEF SheddingNext

LEMMA SheddingMoves ==
  ASSUME SheddingInv, NEW p \in Peers, NEW s \in {"connected", "asking", "over"}, Moves(p, s)
  PROVE  /\ joining' \in [Peers -> {"new", "connected", "asking", "over"}]
         /\ \A q \in Peers : joining'[q] = "new" => joining[q] = "new" /\ q # p
BY SheddingFields DEF Moves

LEMMA SheddingStep ==
  ASSUME SheddingInv, SheddingNext
  PROVE  SheddingInv'
<1>0. RoomNext \/ UNCHANGED roomVars
  BY SheddingRoomStep
<1>1. RoomTypeOK' /\ Onward
  BY <1>0, SheddingFields, RoomOnward
<1>2. ASSUME NEW p \in Peers, Connects(p) PROVE SheddingInv'
  <2>1. /\ joining' \in [Peers -> {"new", "connected", "asking", "over"}]
        /\ \A q \in Peers : joining'[q] = "new" => joining[q] = "new" /\ q # p
    BY <1>2, SheddingMoves DEF Connects
  <2>2. /\ UNCHANGED <<shut, staff, strain, victims, demoted, roomVars>>
        /\ entries' = Append(entries, p) /\ p \notin Ones(entries) /\ p \notin victims
    BY <1>2, SheddingFields DEF Connects, histories
  <2>3. /\ Listed(entries') /\ AmongFirst(entries', staff \cup demoted, victims)
        /\ Ones(entries') = Ones(entries) \cup {p}
    <3> PICK xs, r : xs = staff \cup demoted /\ r = Append(entries, p)
      OBVIOUS
    <3>1. Listed(entries) /\ AmongFirst(entries, xs, victims) /\ xs \subseteq xs
      BY SheddingFields
    <3>2. Listed(r) /\ AmongFirst(r, xs, victims) /\ Ones(r) = Ones(entries) \cup {p}
      BY <2>2, <3>1, FirstAppended, ZenonT(60)
    <3> QED
      BY <2>2, <3>2
  <2>4. \A q \in victims' : q \in Ones(entries') \/ status'[q] = "left"
    BY <1>1, <2>2, <2>3, SheddingFields DEF Onward
  <2>5. \A q \in victims' \ shut' : status'[q] # "outside"
    BY <1>1, <2>2, SheddingFields DEF Onward
  <2>6. \A q \in Peers : joining'[q] = "new" => q \notin Ones(entries') \cup victims'
    BY <2>1, <2>2, <2>3, SheddingFields
  <2>7. /\ shut' \cup staff' \cup victims' \cup demoted' \subseteq Peers /\ strain' \in BOOLEAN
        /\ AmongFirst(entries', staff' \cup demoted', victims')
    BY <2>2, <2>3, SheddingFields
  <2> QED
    BY <1>1, <2>1, <2>3, <2>4, <2>5, <2>6, <2>7, SheddingHeld
<1>3. ASSUME NEW p \in Peers, Vanishes(p) PROVE SheddingInv'
  <2>1. /\ Unlists(p) /\ p \notin shut /\ p \notin RoomMembers
        /\ UNCHANGED <<shut, staff, strain, victims, demoted>>
        /\ Moves(p, "asking") \/ Moves(p, "over")
    BY <1>3 DEF Vanishes, histories
  <2>2. p \in victims => status'[p] = "left"
    <3> SUFFICES ASSUME p \in victims PROVE status'[p] = "left"
      OBVIOUS
    <3>1. status[p] # "outside" /\ status[p] \notin Inside /\ status[p] \in Status
      BY <2>1, SheddingFields DEF RoomMembers
    <3>2. status[p] = "left"
      BY <3>1 DEF Status
    <3> QED
      BY <1>1, <3>2 DEF Onward
  <2>3. /\ joining' \in [Peers -> {"new", "connected", "asking", "over"}]
        /\ \A q \in Peers : joining'[q] = "new" => joining[q] = "new"
    BY <2>1, SheddingMoves
  <2> QED
    BY <1>0, <2>1, <2>2, <2>3, SheddingUnlisted
<1>4. ASSUME NEW p \in Peers, AsksUnderLoad(p) \/ IsRefused(p) \/ FindsFull(p) PROVE SheddingInv'
  <2>1. /\ UNCHANGED <<entries, strain, victims, demoted>>
        /\ Moves(p, "asking") \/ Moves(p, "over")
        /\ staff' = staff \/ staff' = staff \cup {p}
        /\ shut' = shut \/ shut' = shut \cup {p}
    BY <1>4 DEF AsksUnderLoad, IsRefused, FindsFull, Claims, histories
  <2>2. /\ joining' \in [Peers -> {"new", "connected", "asking", "over"}]
        /\ \A q \in Peers : joining'[q] = "new" => joining[q] = "new"
    BY <2>1, SheddingMoves
  <2>3. /\ shut' \cup staff' \cup demoted' \subseteq Peers
        /\ staff \cup demoted \subseteq staff' \cup demoted'
        /\ \A q \in shut \ shut' : status'[q] # "outside"
    BY <2>1, SheddingFields
  <2> QED
    BY <1>0, <2>1, <2>2, <2>3, SheddingKept
<1>5. ASSUME NEW p \in Peers, IsLetIn(p) PROVE SheddingInv'
  <2>1. /\ UNCHANGED <<entries, strain, victims>> /\ Moves(p, "over") /\ Enter(p)
        /\ shut' = shut \ {p}
        /\ \/ (staff' = staff \/ staff' = staff \cup {p}) /\ demoted' = demoted
           \/ staff' = staff \ {p} /\ demoted' = demoted \cup {p}
    BY <1>5 DEF IsLetIn, Claims, Disclaims
  <2>2. status'[p] # "outside"
    BY <2>1, SheddingFields DEF Enter, Become
  <2>3. /\ joining' \in [Peers -> {"new", "connected", "asking", "over"}]
        /\ \A q \in Peers : joining'[q] = "new" => joining[q] = "new"
    BY <2>1, SheddingMoves
  <2>4. /\ shut' \cup staff' \cup demoted' \subseteq Peers
        /\ staff \cup demoted \subseteq staff' \cup demoted'
        /\ \A q \in shut \ shut' : status'[q] # "outside"
    BY <2>1, <2>2, SheddingFields
  <2> QED
    BY <1>0, <2>1, <2>3, <2>4, SheddingKept
<1>6. ASSUME NEW p \in Peers, GoesAway(p) PROVE SheddingInv'
  <2>1. /\ UNCHANGED <<joining, staff, strain, victims, demoted>> /\ Exit(p)
        /\ \/ Unlists(p) /\ shut' = shut
           \/ shut' = shut \cup {p} /\ entries' = entries
           \/ shut' = shut /\ entries' = entries
    BY <1>6 DEF GoesAway, histories
  <2>2. status'[p] = "left"
    BY <2>1, SheddingFields DEF Exit, Become
  <2>3. joining' \in [Peers -> {"new", "connected", "asking", "over"}]
    BY <2>1, SheddingFields
  <2>4. CASE Unlists(p) /\ shut' = shut
    BY <1>0, <2>1, <2>2, <2>3, <2>4, SheddingUnlisted
  <2>5. CASE entries' = entries /\ (shut' = shut \/ shut' = shut \cup {p})
    <3>1. /\ shut' \cup staff' \cup demoted' \subseteq Peers
          /\ staff \cup demoted \subseteq staff' \cup demoted'
          /\ \A q \in shut \ shut' : status'[q] # "outside"
      BY <2>1, <2>5, SheddingFields
    <3> QED
      BY <1>0, <2>1, <2>3, <2>5, <3>1, SheddingKept
  <2> QED
    BY <2>1, <2>4, <2>5
<1>7. CASE Drifts \/ ClosedByApp
  <2>1. /\ UNCHANGED <<entries, joining, staff, strain, victims, demoted>>
        /\ shut' = shut \/ \E ps : ps \subseteq Peers /\ shut' = shut \cup ps
    BY <1>7 DEF Drifts, ClosedByApp, sheddingVars, histories
  <2>2. /\ shut' \cup staff' \cup demoted' \subseteq Peers
        /\ staff \cup demoted \subseteq staff' \cup demoted'
        /\ \A q \in shut \ shut' : status'[q] # "outside"
    BY <2>1, SheddingFields
  <2>3. joining' \in [Peers -> {"new", "connected", "asking", "over"}]
    BY <2>1, SheddingFields
  <2> QED
    BY <1>0, <2>1, <2>2, <2>3, SheddingKept
<1>8. CASE Measure
  BY <1>0, <1>8, SheddingMeasured
<1>9. ASSUME NEW p \in Peers, ChangesRole(p) PROVE SheddingInv'
  <2>1. /\ UNCHANGED <<entries, joining, shut, strain, victims, roomVars>>
        /\ staff' \subseteq staff \cup {p} /\ demoted' \subseteq demoted \cup {p}
        /\ staff \cup demoted \subseteq staff' \cup demoted'
    BY <1>9 DEF ChangesRole, Disclaims
  <2>2. shut' \cup staff' \cup demoted' \subseteq Peers /\ shut \ shut' = {}
    BY <2>1, SheddingFields
  <2>3. joining' \in [Peers -> {"new", "connected", "asking", "over"}]
    BY <2>1, SheddingFields
  <2> QED
    BY <1>0, <2>1, <2>2, <2>3, SheddingKept
<1> QED
  BY <1>2, <1>3, <1>4, <1>5, <1>6, <1>7, <1>8, <1>9 DEF SheddingNext

LEMMA SheddingBegun == SheddingInit => SheddingInv
<1> SUFFICES ASSUME SheddingInit PROVE SheddingInv
  OBVIOUS
<1>1. RoomTypeOK
  BY DEF SheddingInit, RoomInit, RoomTypeOK, Status
<1>2. entries = <<>> /\ Len(entries) = 0 /\ entries \in Seq(Peers) /\ 1..0 = {} /\ DOMAIN entries = {}
  BY DEF SheddingInit
<1>3. Ones(entries) = {} /\ IsInjective(entries)
  BY <1>2 DEF Ones, IsInjective
<1>4. AmongFirst(entries, {}, {})
  <2>1. Quota(Cardinality(Peers)) \in Nat
    BY RoomLifeAssumption, FS_CardinalityType, QuotaGrows
  <2>2. {entries[k] : k \in 1..0} \ {} = {}
    BY <1>2
  <2>3. Cardinality({entries[k] : k \in 1..0} \ {}) = 0
    BY <2>2, FS_EmptySet
  <2>4. 0 \in 0..Len(entries) /\ \A i \in 1..Len(entries) : FALSE
    BY <1>2
  <2>5. Covers(0, entries, {}, {})
    BY <2>1, <2>3, <2>4 DEF Covers
  <2> QED
    BY <2>5 DEF AmongFirst
<1>5. FALSE \in BOOLEAN
  OBVIOUS
<1>6. /\ joining = [p \in Peers |-> "new"] /\ shut = {} /\ staff = {} /\ victims = {}
      /\ demoted = {} /\ strain = FALSE
  BY DEF SheddingInit
<1>7. SheddingTypeOK
  BY <1>1, <1>2, <1>3, <1>5, <1>6 DEF SheddingTypeOK
<1>8. AmongFirst(entries, staff \cup demoted, victims)
  BY <1>4, <1>6
<1> QED
  BY <1>3, <1>6, <1>7, <1>8 DEF SheddingInv, ShedAreCounted, NewHaveNone, ShutOrIn

LEMMA SheddingImplied == SheddingInv => SheddingHolds
<1> SUFFICES ASSUME SheddingInv PROVE SheddingHolds
  OBVIOUS
<1> PICK xs : xs = staff \cup demoted
  OBVIOUS
<1>1. Cardinality((victims \ xs) \cap Ones(entries)) <= Quota(Cardinality(Peers))
  BY SheddingFields, FirstAreFew
<1>2. (victims \ xs) \cap Ones(entries) = (victims \ demoted) \cap Sheddable
  BY SheddingFields DEF Sheddable
<1> QED
  BY <1>1, <1>2 DEF SheddingInv, SheddingHolds, ShedAreFew

(* Shedding takes the same few again: a connection that was shed stays in   *)
(* the count it was shed for unless a hook let it in afterwards and it left,*)
(* and of those that have no role and never lost one no more than a         *)
(* twentieth of the connections ever stand closed by it                     *)
(* (BackpressureController._shedPeers, the disconnect listener, the         *)
(* metadata message of Room).                                               *)
THEOREM SheddingAlwaysSafe == GuardsSpec => []SheddingSafe
<1> DEFINE Inv == part = "shedding" => SheddingInv
<1>1. GuardsInit => Inv
  BY SheddingBegun DEF GuardsInit
<1>2. Inv /\ [GuardsNext]_<<part, gates, stores, onRoom, roomVars>> => Inv'
  <2> SUFFICES ASSUME Inv, [GuardsNext]_<<part, gates, stores, onRoom, roomVars>>,
                      part' = "shedding"
               PROVE  SheddingInv'
    OBVIOUS
  <2>1. CASE SheddingNext /\ part = "shedding"
    BY <2>1, SheddingStep
  <2>2. CASE UNCHANGED <<part, sheddingVars, roomVars>>
    <3>1. SheddingInv /\ UNCHANGED roomVars
      BY <2>2
    <3>2. UNCHANGED <<entries, joining, shut, staff, strain, victims, demoted>>
      BY <2>2 DEF sheddingVars, histories
    <3>3. /\ shut' \cup staff' \cup demoted' \subseteq Peers
          /\ staff \cup demoted \subseteq staff' \cup demoted'
          /\ \A q \in shut \ shut' : status'[q] # "outside"
          /\ joining' \in [Peers -> {"new", "connected", "asking", "over"}]
      BY <3>1, <3>2, SheddingFields
    <3> QED
      BY <3>1, <3>2, <3>3, SheddingKept
  <2> QED
    BY <2>1, <2>2 DEF GuardsNext, onRoom
<1>3. Inv => SheddingSafe
  BY SheddingImplied DEF SheddingSafe
<1> QED
  BY <1>1, <1>2, <1>3, PTL DEF GuardsSpec

-----------------------------------------------------------------------------
(* The replay log. *)

(* Events are numbered from one. *)
Numbered == {e \in Event : e.seq > 0}
Writing == {w \in Write : w.event \in Numbered}

(* What the log l, the hashes hs and the number n of a process hold. *)
LogHolds(l, hs, n) ==
  /\ l \in Seq(Numbered) /\ hs \subseteq Hashes /\ n \in Nat
  /\ hs = {l[i].hash : i \in 1..Len(l)}
  /\ \A i, j \in 1..Len(l) : l[i].hash = l[j].hash => i = j
  /\ \A i \in 1..Len(l) : l[i].seq <= n

InRuns(l) == \A i, j \in 1..Len(l) : i < j => l[i].seq < l[j].seq

ReplayInv ==
  /\ \A r \in Processes : LogHolds(log[r], seen[r], seq[r]) /\ (r \notin mixed => InRuns(log[r]))
  /\ seq \in [Processes -> Nat] /\ seen \in [Processes -> SUBSET Hashes]
  /\ log \in [Processes -> Seq(Numbered)] /\ writes \in [Processes -> Seq(Writing)]
  /\ loading \in [Processes -> Seq(Numbered) \cup {IDLE}]
  /\ redis \subseteq Numbered /\ IsFiniteSet(redis)
  /\ past \subseteq Hashes /\ mixed \subseteq Processes
  /\ loads \in [Processes -> 0..MaxLoads]

LEMMA NumberedFields ==
  ASSUME NEW e \in Numbered
  PROVE  e.seq \in Nat /\ e.seq > 0 /\ e.hash \in Hashes
BY DEF Numbered, Event

LEMMA LogAppended ==
  ASSUME NEW l, NEW hs, NEW n, LogHolds(l, hs, n),
         NEW e, e = [seq |-> n + 1, hash |-> e.hash], e.hash \in Hashes \ hs
  PROVE  /\ e \in Numbered /\ LogHolds(Append(l, e), hs \cup {e.hash}, n + 1)
         /\ InRuns(l) => InRuns(Append(l, e))
<1> PICK m, r : m = Len(l) /\ r = Append(l, e)
  OBVIOUS
<1>1. n \in Nat /\ e \in Numbered /\ e.seq = n + 1
  <2>1. n \in Nat
    BY DEF LogHolds
  <2>2. e.seq = n + 1 /\ n + 1 \in Nat /\ n + 1 > 0
    BY <2>1
  <2> QED
    BY <2>1, <2>2 DEF Numbered, Event
<1>2. /\ m \in Nat /\ r \in Seq(Numbered) /\ Len(r) = m + 1 /\ r[m + 1] = e
      /\ \A i \in 1..m : r[i] = l[i]
  BY <1>1, Appended DEF LogHolds
<1>3. \A i \in 1..m : /\ l[i].hash \in hs /\ l[i].hash # e.hash /\ l[i].seq \in Nat /\ l[i].seq <= n
                      /\ l[i].hash \in Hashes
  BY NumberedFields, ElementOfSeq DEF LogHolds
<1>4. \A i \in 1..m + 1 : i \in 1..m \/ i = m + 1
  BY <1>2
<1>5. m + 1 \in 1..m + 1 /\ \A i \in 1..m : i \in 1..m + 1 /\ i # m + 1
  BY <1>2
<1>6. hs \cup {e.hash} = {r[i].hash : i \in 1..m + 1}
  <2>1. hs = {l[i].hash : i \in 1..m}
    BY DEF LogHolds
  <2> QED
    BY <1>2, <1>4, <1>5, <2>1
<1>7. ASSUME NEW i \in 1..m + 1, NEW j \in 1..m + 1, r[i].hash = r[j].hash PROVE i = j
  <2>1. CASE i \in 1..m /\ j \in 1..m
    BY <1>2, <1>7, <2>1 DEF LogHolds
  <2>2. CASE i = m + 1 \/ j = m + 1
    BY <1>2, <1>3, <1>4, <1>7, <2>2
  <2> QED
    BY <1>4, <2>1, <2>2
<1>8. \A i \in 1..m + 1 : r[i].seq <= n + 1
  <2> SUFFICES ASSUME NEW i \in 1..m + 1 PROVE r[i].seq <= n + 1
    OBVIOUS
  <2>1. CASE i \in 1..m
    <3>1. r[i].seq \in Nat /\ r[i].seq <= n
      BY <1>2, <1>3, <2>1
    <3> QED
      BY <1>1, <3>1
  <2>2. CASE i = m + 1
    BY <1>1, <1>2, <2>2
  <2> QED
    BY <1>4, <2>1, <2>2
<1>9. ASSUME InRuns(l) PROVE InRuns(r)
  <2> SUFFICES ASSUME NEW i \in 1..m + 1, NEW j \in 1..m + 1, i < j PROVE r[i].seq < r[j].seq
    BY <1>2 DEF InRuns
  <2>1. i \in 1..m
    BY <1>2
  <2>2. CASE j \in 1..m
    BY <1>2, <1>9, <2>1, <2>2 DEF InRuns
  <2>3. CASE j = m + 1
    <3>1. r[i].seq \in Nat /\ r[i].seq <= n /\ r[j].seq = n + 1
      BY <1>1, <1>2, <1>3, <2>1, <2>3
    <3> QED
      BY <1>1, <3>1
  <2> QED
    BY <1>4, <2>2, <2>3
<1>10. hs \cup {e.hash} \subseteq Hashes /\ n + 1 \in Nat
  BY <1>1 DEF LogHolds
<1>11. LogHolds(r, hs \cup {e.hash}, n + 1)
  BY <1>2, <1>6, <1>7, <1>8, <1>10 DEF LogHolds
<1> QED
  BY <1>1, <1>9, <1>11

(* The oldest event is evicted, with its hash. *)
LEMMA LogEvicted ==
  ASSUME NEW l, NEW hs, NEW n, LogHolds(l, hs, n), l # <<>>
  PROVE  /\ LogHolds(Tail(l), hs \ {Head(l).hash}, n)
         /\ InRuns(l) => InRuns(Tail(l))
<1> PICK m, r : m = Len(l) /\ r = Tail(l)
  OBVIOUS
<1>1. /\ m \in Nat \ {0} /\ Head(l) = l[1] /\ r \in Seq(Numbered) /\ Len(r) = m - 1
      /\ \A i \in 1..m - 1 : r[i] = l[i + 1]
  BY Popped DEF LogHolds
<1>2. \A i \in 1..m - 1 : i + 1 \in 1..m /\ i + 1 # 1
  BY <1>1
<1>3. 1 \in 1..m /\ \A j \in 1..m : j # 1 => j - 1 \in 1..m - 1 /\ (j - 1) + 1 = j
  BY <1>1
<1>4. hs \ {l[1].hash} = {r[i].hash : i \in 1..m - 1}
  <2>1. ASSUME NEW h \in hs \ {l[1].hash} PROVE h \in {r[i].hash : i \in 1..m - 1}
    <3>1. PICK j \in 1..m : l[j].hash = h
      BY DEF LogHolds
    <3>2. j # 1
      BY <2>1, <3>1
    <3>3. j - 1 \in 1..m - 1 /\ r[j - 1] = l[(j - 1) + 1] /\ (j - 1) + 1 = j
      BY <1>1, <1>3, <3>2
    <3>4. r[j - 1].hash = h
      BY <3>1, <3>3
    <3> QED
      BY <3>3, <3>4
  <2>2. ASSUME NEW i \in 1..m - 1 PROVE r[i].hash \in hs \ {l[1].hash}
    <3>1. i + 1 \in 1..m /\ i + 1 # 1 /\ r[i] = l[i + 1]
      BY <1>1, <1>2
    <3>2. l[i + 1].hash \in hs /\ l[i + 1].hash # l[1].hash
      BY <1>3, <3>1 DEF LogHolds
    <3> QED
      BY <3>1, <3>2
  <2> QED
    BY <2>1, <2>2
<1>5. ASSUME NEW i \in 1..m - 1, NEW j \in 1..m - 1, r[i].hash = r[j].hash PROVE i = j
  <2>1. i + 1 = j + 1
    BY <1>1, <1>2, <1>5 DEF LogHolds
  <2> QED
    BY <2>1
<1>6. \A i \in 1..m - 1 : r[i].seq <= n
  BY <1>1, <1>2 DEF LogHolds
<1>7. ASSUME InRuns(l) PROVE InRuns(r)
  <2> SUFFICES ASSUME NEW i \in 1..m - 1, NEW j \in 1..m - 1, i < j PROVE r[i].seq < r[j].seq
    BY <1>1 DEF InRuns
  <2>1. i + 1 < j + 1
    OBVIOUS
  <2> QED
    BY <1>1, <1>2, <1>7, <2>1 DEF InRuns
<1>8. LogHolds(r, hs \ {l[1].hash}, n)
  BY <1>1, <1>4, <1>5, <1>6 DEF LogHolds
<1> QED
  BY <1>1, <1>7, <1>8

LEMMA LogEmpty == LogHolds(<<>>, {}, 0) /\ InRuns(<<>>)
<1>1. <<>> \in Seq(Numbered) /\ Len(<<>>) = 0 /\ 1..0 = {}
  OBVIOUS
<1> QED
  BY <1>1 DEF LogHolds, InRuns

(* Unknown events, each once, come behind the log. *)
LEMMA LogLoaded ==
  ASSUME NEW l, NEW hs, NEW n, LogHolds(l, hs, n), NEW new \in Seq(Numbered),
         \A i \in 1..Len(new) : new[i].hash \notin hs,
         \A i, j \in 1..Len(new) : new[i].hash = new[j].hash => i = j,
         NEW t \in Nat, n <= t, \A i \in 1..Len(new) : new[i].seq <= t
  PROVE  /\ LogHolds(l \o new, hs \cup {new[i].hash : i \in 1..Len(new)}, t)
         /\ n = 0 /\ InRuns(new) => InRuns(l \o new)
<1> PICK m, k, r : m = Len(l) /\ k = Len(new) /\ r = l \o new
  OBVIOUS
<1>0. l \in Seq(Numbered) /\ n \in Nat /\ hs \subseteq Hashes
  BY DEF LogHolds
<1>1. /\ m \in Nat /\ k \in Nat /\ r \in Seq(Numbered) /\ Len(r) = m + k
      /\ \A i \in 1..m : r[i] = l[i]
      /\ \A i \in 1..m + k : i > m => i - m \in 1..k /\ r[i] = new[i - m]
  BY <1>0, Concatenated
<1>2. \A i \in 1..m : /\ l[i].seq \in Nat /\ l[i].seq > 0 /\ l[i].seq <= n
                      /\ l[i].hash \in hs
  BY <1>0, NumberedFields, ElementOfSeq DEF LogHolds
<1>3. \A i \in 1..k : new[i].hash \in Hashes /\ new[i].seq \in Nat
  BY NumberedFields, ElementOfSeq
<1>4. \A i \in 1..m + k : i \in 1..m \/ (i > m /\ i - m \in 1..k /\ r[i] = new[i - m])
  BY <1>1
<1>5. /\ \A i \in 1..m : i \in 1..m + k
      /\ \A i \in 1..k : m + i \in 1..m + k /\ m + i > m /\ (m + i) - m = i
  BY <1>1
<1>6. hs \cup {new[i].hash : i \in 1..k} = {r[i].hash : i \in 1..m + k}
  <2>1. ASSUME NEW h \in hs PROVE h \in {r[i].hash : i \in 1..m + k}
    <3>1. PICK i \in 1..m : l[i].hash = h
      BY DEF LogHolds
    <3>2. r[i].hash = h
      BY <1>1, <3>1
    <3> QED
      BY <1>5, <3>2
  <2>2. ASSUME NEW i \in 1..k PROVE new[i].hash \in {r[j].hash : j \in 1..m + k}
    <3>1. r[m + i] = new[i]
      BY <1>1, <1>5
    <3> QED
      BY <1>5, <3>1
  <2>3. ASSUME NEW i \in 1..m + k PROVE r[i].hash \in hs \cup {new[j].hash : j \in 1..k}
    <3>1. CASE i \in 1..m
      BY <1>1, <1>2, <3>1
    <3>2. CASE i > m /\ i - m \in 1..k /\ r[i] = new[i - m]
      BY <3>2
    <3> QED
      BY <1>4, <3>1, <3>2
  <2> PICK A, B : A = {new[i].hash : i \in 1..k} /\ B = {r[i].hash : i \in 1..m + k}
    OBVIOUS
  <2>4. hs \subseteq B
    BY <2>1
  <2>5. A \subseteq B
    BY <2>2
  <2>6. B \subseteq hs \cup A
    <3> SUFFICES ASSUME NEW b \in B PROVE b \in hs \cup A
      OBVIOUS
    <3>1. PICK i \in 1..m + k : b = r[i].hash
      OBVIOUS
    <3> QED
      BY <2>3, <3>1
  <2> QED
    BY <2>4, <2>5, <2>6
<1>7. ASSUME NEW i \in 1..m + k, NEW j \in 1..m + k, r[i].hash = r[j].hash PROVE i = j
  <2>1. CASE i \in 1..m /\ j \in 1..m
    BY <1>1, <1>7, <2>1 DEF LogHolds
  <2>2. CASE i \notin 1..m /\ j \notin 1..m
    <3>1. i - m \in 1..k /\ j - m \in 1..k /\ new[i - m].hash = new[j - m].hash
      BY <1>4, <1>7, <2>2
    <3>2. i - m = j - m
      BY <3>1
    <3> QED
      BY <1>1, <3>2
  <2>3. CASE i \in 1..m /\ j \notin 1..m
    BY <1>1, <1>2, <1>4, <1>7, <2>3
  <2>4. CASE i \notin 1..m /\ j \in 1..m
    BY <1>1, <1>2, <1>4, <1>7, <2>4
  <2> QED
    BY <2>1, <2>2, <2>3, <2>4
<1>8. \A i \in 1..m + k : r[i].seq <= t
  <2> SUFFICES ASSUME NEW i \in 1..m + k PROVE r[i].seq <= t
    OBVIOUS
  <2>1. CASE i \in 1..m
    <3>1. r[i].seq \in Nat /\ r[i].seq <= n
      BY <1>1, <1>2, <2>1
    <3> QED
      BY <1>0, <3>1
  <2>2. CASE i > m /\ i - m \in 1..k /\ r[i] = new[i - m]
    BY <2>2
  <2> QED
    BY <1>4, <2>1, <2>2
<1>9. hs \cup {new[i].hash : i \in 1..k} \subseteq Hashes
  BY <1>0, <1>3
<1>10. LogHolds(r, hs \cup {new[i].hash : i \in 1..k}, t)
  BY <1>1, <1>6, <1>7, <1>8, <1>9 DEF LogHolds
<1>11. ASSUME n = 0, InRuns(new) PROVE InRuns(r)
  <2>1. 1..m = {}
    <3> SUFFICES ASSUME NEW i \in 1..m PROVE FALSE
      OBVIOUS
    <3>1. l[i].seq \in Nat /\ l[i].seq > 0 /\ l[i].seq <= 0
      BY <1>2, <1>11
    <3> QED
      BY <3>1
  <2> SUFFICES ASSUME NEW i \in 1..m + k, NEW j \in 1..m + k, i < j PROVE r[i].seq < r[j].seq
    BY <1>1 DEF InRuns
  <2>2. i - m \in 1..k /\ j - m \in 1..k /\ r[i] = new[i - m] /\ r[j] = new[j - m]
    BY <1>4, <2>1
  <2>3. i - m < j - m
    BY <1>1
  <2> QED
    BY <1>11, <2>2, <2>3 DEF InRuns
<1> QED
  BY <1>10, <1>11

LEMMA ReplayFields ==
  ASSUME ReplayInv
  PROVE  /\ seq \in [Processes -> Nat] /\ seen \in [Processes -> SUBSET Hashes]
         /\ log \in [Processes -> Seq(Numbered)] /\ writes \in [Processes -> Seq(Writing)]
         /\ loading \in [Processes -> Seq(Numbered) \cup {IDLE}]
         /\ redis \subseteq Numbered /\ IsFiniteSet(redis)
         /\ past \subseteq Hashes /\ mixed \subseteq Processes
         /\ loads \in [Processes -> 0..MaxLoads]
         /\ \A r \in Processes : LogHolds(log[r], seen[r], seq[r])
         /\ \A r \in Processes : r \notin mixed => InRuns(log[r])
BY DEF ReplayInv

(* What the logs hold when that of one process has changed. *)
LEMMA ReplayHeld ==
  ASSUME ReplayInv, NEW r \in Processes, NEW l, NEW hs, NEW n, LogHolds(l, hs, n),
         log' = [log EXCEPT ![r] = l], seen' = [seen EXCEPT ![r] = hs], seq' = [seq EXCEPT ![r] = n],
         r \notin mixed' => InRuns(l), mixed \ {r} \subseteq mixed', mixed' \subseteq Processes,
         writes' \in [Processes -> Seq(Writing)],
         loading' \in [Processes -> Seq(Numbered) \cup {IDLE}],
         redis' \subseteq Numbered, IsFiniteSet(redis'), past' \subseteq Hashes,
         loads' \in [Processes -> 0..MaxLoads]
  PROVE  ReplayInv'
<1>1. l \in Seq(Numbered) /\ hs \in SUBSET Hashes /\ n \in Nat
  BY DEF LogHolds
<1>2. /\ seq' \in [Processes -> Nat] /\ seen' \in [Processes -> SUBSET Hashes]
      /\ log' \in [Processes -> Seq(Numbered)]
  BY <1>1, ReplayFields
<1>3. /\ log'[r] = l /\ seen'[r] = hs /\ seq'[r] = n
      /\ \A q \in Processes \ {r} : log'[q] = log[q] /\ seen'[q] = seen[q] /\ seq'[q] = seq[q]
  BY ReplayFields
<1>4. ASSUME NEW q \in Processes
      PROVE  LogHolds(log'[q], seen'[q], seq'[q]) /\ (q \notin mixed' => InRuns(log'[q]))
  <2>1. CASE q = r
    BY <1>3, <2>1
  <2>2. CASE q # r
    <3>1. /\ log'[q] = log[q] /\ seen'[q] = seen[q] /\ seq'[q] = seq[q]
          /\ q \notin mixed' => q \notin mixed
      BY <1>3, <2>2
    <3> QED
      BY <3>1, ReplayFields
  <2> QED
    BY <2>1, <2>2
<1> QED
  BY <1>2, <1>4 DEF ReplayInv

(* Steps that leave the memory alone. *)
LEMMA ReplayKept ==
  ASSUME ReplayInv, UNCHANGED <<memory, mixed>>,
         writes' \in [Processes -> Seq(Writing)],
         loading' \in [Processes -> Seq(Numbered) \cup {IDLE}],
         redis' \subseteq Numbered, IsFiniteSet(redis'), past' \subseteq Hashes,
         loads' \in [Processes -> 0..MaxLoads]
  PROVE  ReplayInv'
BY DEF ReplayInv, memory

LEMMA ReplayRecords ==
  ASSUME ReplayInv, NEW r \in Processes, NEW h \in Hashes, RecordEvent(r, h)
  PROVE  ReplayInv'
<1> PICK e, l, hs, n : /\ e = [seq |-> seq[r] + 1, hash |-> h]
                       /\ l = log[r] /\ hs = seen[r] /\ n = seq[r]
  OBVIOUS
<1>1. LogHolds(l, hs, n) /\ e = [seq |-> n + 1, hash |-> e.hash] /\ e.hash \in Hashes \ hs
  <2>1. e.hash = h /\ h \notin seen[r]
    BY DEF RecordEvent
  <2> QED
    BY <2>1, ReplayFields
<1>2. /\ seq' = [seq EXCEPT ![r] = n + 1]
      /\ log' = [log EXCEPT ![r] = Append(IF Len(l) >= Capacity THEN Tail(l) ELSE l, e)]
      /\ seen' = [seen EXCEPT ![r] = (hs \cup {e.hash}) \ Evicted(r)]
      /\ writes' = [writes EXCEPT ![r] = Append(@, [event |-> e, stage |-> "add", size |-> 0])]
      /\ past' = past \cup Evicted(r) /\ UNCHANGED <<redis, loading, loads, mixed>>
  <2>1. e.seq = n + 1
    OBVIOUS
  <2> QED
    BY <2>1, ReplayFields DEF RecordEvent, Keep
<1>3. Evicted(r) \subseteq Hashes
        /\ \E o, os : /\ LogHolds(o, os, n) /\ (InRuns(l) => InRuns(o)) /\ e.hash \notin os
                      /\ log' = [log EXCEPT ![r] = Append(o, e)]
                      /\ seen' = [seen EXCEPT ![r] = os \cup {e.hash}]
  <2>1. CASE Len(l) >= Capacity
    <3>1. l # <<>>
      <4>1. Capacity \in Nat /\ Capacity > 0 /\ Len(<<>>) = 0
        BY CapacityAssumption
      <4> QED
        BY <2>1, <4>1
    <3>2. LogHolds(Tail(l), hs \ {Head(l).hash}, n) /\ (InRuns(l) => InRuns(Tail(l)))
      BY <1>1, <3>1, LogEvicted
    <3>3. Evicted(r) = {Head(l).hash}
      BY <2>1 DEF Evicted
    <3>4. Head(l).hash \in hs
      <4>1. l \in Seq(Numbered)
        BY <1>1 DEF LogHolds
      <4>2. Head(l) = l[1] /\ 1 \in 1..Len(l)
        BY <3>1, <4>1, Popped
      <4> QED
        BY <1>1, <4>2 DEF LogHolds
    <3>5. (hs \cup {e.hash}) \ Evicted(r) = (hs \ {Head(l).hash}) \cup {e.hash}
      BY <1>1, <3>3, <3>4
    <3>6. Evicted(r) \subseteq Hashes
      BY <1>1, <3>3, <3>4 DEF LogHolds
    <3>7. /\ log' = [log EXCEPT ![r] = Append(Tail(l), e)]
          /\ seen' = [seen EXCEPT ![r] = (hs \ {Head(l).hash}) \cup {e.hash}]
      BY <1>2, <2>1, <3>5
    <3>8. e.hash \notin hs \ {Head(l).hash}
      BY <1>1
    <3> QED
      BY <3>2, <3>6, <3>7, <3>8
  <2>2. CASE ~(Len(l) >= Capacity)
    <3>1. Evicted(r) = {}
      BY <2>2 DEF Evicted
    <3>2. log' = [log EXCEPT ![r] = Append(l, e)] /\ seen' = [seen EXCEPT ![r] = hs \cup {e.hash}]
      BY <1>2, <2>2, <3>1
    <3> QED
      BY <1>1, <3>1, <3>2
  <2> QED
    BY <2>1, <2>2
<1>4. PICK o, os : /\ LogHolds(o, os, n) /\ (InRuns(l) => InRuns(o)) /\ e.hash \notin os
                   /\ log' = [log EXCEPT ![r] = Append(o, e)]
                   /\ seen' = [seen EXCEPT ![r] = os \cup {e.hash}]
  BY <1>3
<1>5. /\ e \in Numbered /\ LogHolds(Append(o, e), os \cup {e.hash}, n + 1)
      /\ InRuns(o) => InRuns(Append(o, e))
  <2>1. e.hash \in Hashes \ os
    BY <1>1, <1>4
  <2> QED
    BY <1>1, <1>4, <2>1, LogAppended
<1>6. writes' \in [Processes -> Seq(Writing)]
  <2>1. [event |-> e, stage |-> "add", size |-> 0] \in Writing
    BY <1>5 DEF Writing, Write, Numbered
  <2>2. Append(writes[r], [event |-> e, stage |-> "add", size |-> 0]) \in Seq(Writing)
    BY <2>1, ReplayFields, Appended
  <2> QED
    BY <1>2, <2>2, ReplayFields
<1>7. past' \subseteq Hashes /\ (r \notin mixed' => InRuns(Append(o, e)))
  BY <1>2, <1>3, <1>4, <1>5, ReplayFields
<1>8. /\ mixed \ {r} \subseteq mixed' /\ mixed' \subseteq Processes
      /\ loading' \in [Processes -> Seq(Numbered) \cup {IDLE}]
      /\ redis' \subseteq Numbered /\ IsFiniteSet(redis') /\ loads' \in [Processes -> 0..MaxLoads]
  BY <1>2, ReplayFields
<1> PICK o2, os2, n2 : o2 = Append(o, e) /\ os2 = os \cup {e.hash} /\ n2 = n + 1
  OBVIOUS
<1>9. LogHolds(o2, os2, n2) /\ (r \notin mixed' => InRuns(o2))
  BY <1>5, <1>7
<1>10. /\ log' = [log EXCEPT ![r] = o2] /\ seen' = [seen EXCEPT ![r] = os2]
       /\ seq' = [seq EXCEPT ![r] = n2]
  BY <1>2, <1>4
<1> QED
  BY <1>6, <1>7, <1>8, <1>9, <1>10, ReplayHeld

LEMMA ReplayExecutes ==
  ASSUME ReplayInv, NEW r \in Processes, Executes(r) \/ Rejected(r)
  PROVE  ReplayInv'
<1>1. UNCHANGED <<memory, loading, past, loads, mixed>>
  BY DEF Executes, Rejected
<1>2. PICK i \in DOMAIN writes[r] :
        Add(r, i) \/ Card(r, i) \/ Trim(r, i)
          \/ (writes' = [writes EXCEPT ![r] = RemoveAt(@, i)] /\ redis' = redis)
  BY DEF Executes, Rejected
<1>3. writes[r] \in Seq(Writing) /\ i \in 1..Len(writes[r]) /\ writes[r][i] \in Writing
  BY ReplayFields, ElementOfSeq
<1>4. RemoveAt(writes[r], i) \in Seq(Writing)
  BY <1>3, TakenOut
<1>5. ASSUME writes' = [writes EXCEPT ![r] = RemoveAt(@, i)]
      PROVE  writes' \in [Processes -> Seq(Writing)]
  BY <1>4, <1>5, ReplayFields
<1>6. ASSUME NEW w \in Writing, writes' = [writes EXCEPT ![r] = [@ EXCEPT ![i] = w]]
      PROVE  writes' \in [Processes -> Seq(Writing)]
  <2>1. [writes[r] EXCEPT ![i] = w] \in Seq(Writing)
    BY <1>3, ExceptSeq
  <2> QED
    BY <1>6, <2>1, ReplayFields
<1>7. CASE Add(r, i)
  <2> PICK w : w = [writes[r][i] EXCEPT !.stage = "card"]
    OBVIOUS
  <2>1. w \in Writing /\ writes[r][i].event \in Numbered
    BY <1>3 DEF Writing, Write
  <2>2. writes' = [writes EXCEPT ![r] = [@ EXCEPT ![i] = w]] /\ redis' = redis \cup {writes[r][i].event}
    BY <1>7, ReplayFields DEF Add
  <2>3. IsFiniteSet(redis') /\ redis' \subseteq Numbered
    BY <2>1, <2>2, ReplayFields, FS_AddElement
  <2> QED
    BY <1>1, <1>6, <2>1, <2>2, <2>3, ReplayFields, ReplayKept
<1>8. CASE Card(r, i)
  <2>1. redis' = redis
    BY <1>8 DEF Card
  <2>2. CASE writes' = [writes EXCEPT ![r] = RemoveAt(@, i)]
    BY <1>1, <1>5, <2>1, <2>2, ReplayFields, ReplayKept
  <2>3. CASE writes' = [writes EXCEPT ![r][i] = [@ EXCEPT !.stage = "trim", !.size = Cardinality(redis)]]
    <3> PICK w : w = [writes[r][i] EXCEPT !.stage = "trim", !.size = Cardinality(redis)]
      OBVIOUS
    <3>1. w \in Writing
      <4>1. Cardinality(redis) \in Nat
        BY ReplayFields, FS_CardinalityType
      <4> QED
        BY <1>3, <4>1 DEF Writing, Write
    <3>2. writes' = [writes EXCEPT ![r] = [@ EXCEPT ![i] = w]]
      BY <2>3, ReplayFields
    <3> QED
      BY <1>1, <1>6, <2>1, <3>1, <3>2, ReplayFields, ReplayKept
  <2> QED
    BY <1>8, <2>2, <2>3 DEF Card
<1>9. CASE Trim(r, i)
  <2>1. redis' \subseteq redis /\ writes' = [writes EXCEPT ![r] = RemoveAt(@, i)]
    BY <1>9 DEF Trim
  <2>2. IsFiniteSet(redis') /\ redis' \subseteq Numbered
    BY <2>1, ReplayFields, FS_Subset
  <2> QED
    BY <1>1, <1>5, <2>1, <2>2, ReplayFields, ReplayKept
<1>10. CASE writes' = [writes EXCEPT ![r] = RemoveAt(@, i)] /\ redis' = redis
  BY <1>1, <1>5, <1>10, ReplayFields, ReplayKept
<1> QED
  BY <1>2, <1>7, <1>8, <1>9, <1>10

LEMMA SeqOfFunction ==
  ASSUME NEW S, NEW n \in Nat, NEW f \in [1..n -> S]
  PROVE  f \in Seq(S) /\ Len(f) = n
<1>1. f \in Seq(S)
  <2>1. Seq(S) = UNION {[1..k -> S] : k \in Nat}
    BY SeqDef, Zenon
  <2>2. [1..n -> S] \in {[1..k -> S] : k \in Nat}
    BY Zenon
  <2> QED
    BY <2>1, <2>2, Zenon
<1>2. DOMAIN f = 1..Len(f) /\ Len(f) \in Nat /\ DOMAIN f = 1..n
  BY <1>1, LenProperties
<1> QED
  BY <1>1, <1>2

LEMMA ReplayReads ==
  ASSUME ReplayInv, NEW r \in Processes, ReadLog(r)
  PROVE  ReplayInv'
<1>1. PICK s \in SetToSeqs(redis) : loading' = [loading EXCEPT ![r] = s]
  BY DEF ReadLog
<1>2. s \in Seq(Numbered)
  <2> PICK n : n = Cardinality(redis)
    OBVIOUS
  <2>1. n \in Nat
    BY ReplayFields, FS_CardinalityType
  <2>2. s \in [1..n -> Numbered]
    BY ReplayFields DEF SetToSeqs
  <2> QED
    BY <2>1, <2>2, SeqOfFunction
<1>3. loads' \in [Processes -> 0..MaxLoads]
  <2>1. /\ loads[r] \in 0..MaxLoads /\ loads[r] < MaxLoads /\ MaxLoads \in Nat
        /\ loads' = [loads EXCEPT ![r] = loads[r] + 1]
    BY ReplayFields, CapacityAssumption DEF ReadLog
  <2>2. loads[r] + 1 \in 0..MaxLoads
    BY <2>1
  <2> QED
    BY <2>1, <2>2, ReplayFields
<1>4. UNCHANGED <<memory, writes, redis, past, mixed>>
  BY DEF ReadLog
<1>5. loading' \in [Processes -> Seq(Numbered) \cup {IDLE}]
  BY <1>1, <1>2, ReplayFields
<1> QED
  BY <1>3, <1>4, <1>5, ReplayFields, ReplayKept

(* What is unknown of an answer, in the order of the answer. *)
LEMMA UnknownNew ==
  ASSUME ReplayInv, NEW r \in Processes, loading[r] # IDLE, NEW new \in Unknown(r)
  PROVE  /\ new \in Seq(Numbered)
         /\ \A i \in 1..Len(new) : new[i].hash \notin seen[r]
         /\ \A i, j \in 1..Len(new) : new[i].hash = new[j].hash => i = j
         /\ OneRun(loading[r]) => InRuns(new)
<1> PICK s, c, F : s = loading[r] /\ c = Cardinality(Fresh(r)) /\ F = Fresh(r)
  OBVIOUS
<1>1. s \in Seq(Numbered) /\ DOMAIN s = 1..Len(s) /\ Len(s) \in Nat
  BY ReplayFields, LenProperties
<1>2. /\ F \subseteq 1..Len(s)
      /\ \A i \in F : s[i].hash \notin seen[r] /\ \A j \in 1..i - 1 : s[j].hash # s[i].hash
  BY <1>1 DEF Fresh
<1>3. c \in Nat
  <2>1. 1 \in Int /\ Len(s) \in Int
    BY <1>1
  <2>2. IsFiniteSet(1..Len(s))
    BY <2>1, FS_Interval
  <2> QED
    BY <1>2, <2>2, FS_Subset, FS_CardinalityType
<1>4. PICK at \in [1..c -> F] :
        /\ \A i, j \in 1..c : i < j => at[i] < at[j]
        /\ new = [k \in 1..c |-> s[at[k]]]
  BY DEF Unknown
<1>5. \A k \in 1..c : at[k] \in F /\ at[k] \in 1..Len(s) /\ new[k] = s[at[k]] /\ new[k] \in Numbered
  BY <1>1, <1>2, <1>4, ElementOfSeq
<1>6. new \in Seq(Numbered) /\ Len(new) = c
  <2>1. new \in [1..c -> Numbered]
    BY <1>4, <1>5
  <2> QED
    BY <1>3, <2>1, SeqOfFunction
<1>7. ASSUME NEW i \in 1..c, NEW j \in 1..c, i < j PROVE new[i].hash # new[j].hash
  <2>1. at[i] \in 1..at[j] - 1
    BY <1>1, <1>4, <1>5, <1>7
  <2> QED
    BY <1>2, <1>5, <2>1
<1>8. ASSUME NEW i \in 1..c, NEW j \in 1..c, new[i].hash = new[j].hash PROVE i = j
  <2>1. ~(i < j) /\ ~(j < i)
    BY <1>7, <1>8
  <2> QED
    BY <1>3, <2>1
<1>9. ASSUME OneRun(s) PROVE InRuns(new)
  <2> SUFFICES ASSUME NEW i \in 1..c, NEW j \in 1..c, i < j PROVE new[i].seq < new[j].seq
    BY <1>6 DEF InRuns
  <2>1. at[i] < at[j]
    BY <1>4
  <2> QED
    BY <1>1, <1>5, <1>9, <2>1 DEF OneRun
<1>10. \A i \in 1..c : new[i].hash \notin seen[r]
  BY <1>2, <1>5
<1> QED
  BY <1>6, <1>8, <1>9, <1>10

LEMMA ReplayLoads ==
  ASSUME ReplayInv, NEW r \in Processes, Loaded(r)
  PROVE  ReplayInv'
<1>0. /\ loading[r] # IDLE /\ Load(r) /\ loading' = [loading EXCEPT ![r] = IDLE]
      /\ mixed' = IF seq[r] > 0 \/ ~OneRun(loading[r]) THEN mixed \cup {r} ELSE mixed
      /\ UNCHANGED <<writes, redis, past, loads>>
  BY DEF Loaded
<1>1. PICK new \in Unknown(r) :
        /\ log' = [log EXCEPT ![r] = log[r] \o new]
        /\ seen' = [seen EXCEPT ![r] = seen[r] \cup HashesOf(new)]
        /\ \E n \in {seq[r]} \cup {e.seq : e \in ToSet(new)} :
             /\ \A e \in ToSet(new) : e.seq <= n
             /\ seq[r] <= n
             /\ seq' = [seq EXCEPT ![r] = n]
  BY <1>0, ReplayFields DEF Load
<1>2. PICK n : /\ n \in {seq[r]} \cup {e.seq : e \in ToSet(new)}
               /\ \A e \in ToSet(new) : e.seq <= n
               /\ seq[r] <= n
               /\ seq' = [seq EXCEPT ![r] = n]
  BY <1>1
<1>3. /\ new \in Seq(Numbered)
      /\ \A i \in 1..Len(new) : new[i].hash \notin seen[r]
      /\ \A i, j \in 1..Len(new) : new[i].hash = new[j].hash => i = j
      /\ OneRun(loading[r]) => InRuns(new)
  BY <1>0, UnknownNew
<1>4. ToSet(new) = {new[i] : i \in 1..Len(new)}
  BY <1>3 DEF ToSet
<1>5. HashesOf(new) = {new[i].hash : i \in 1..Len(new)}
  BY <1>4 DEF HashesOf
<1>6. n \in Nat /\ \A i \in 1..Len(new) : new[i].seq <= n
  <2>1. \A i \in 1..Len(new) : new[i].seq \in Nat
    BY <1>3, ElementOfSeq, NumberedFields
  <2>2. seq[r] \in Nat
    BY ReplayFields
  <2> QED
    BY <1>2, <1>4, <2>1, <2>2
<1>7. /\ LogHolds(log[r] \o new, seen[r] \cup HashesOf(new), n)
      /\ seq[r] = 0 /\ InRuns(new) => InRuns(log[r] \o new)
  <2> PICK l, hs, m : l = log[r] /\ hs = seen[r] /\ m = seq[r]
    OBVIOUS
  <2>1. LogHolds(l, hs, m) /\ m <= n /\ \A i \in 1..Len(new) : new[i].hash \notin hs
    BY <1>2, <1>3, ReplayFields
  <2>2. /\ LogHolds(l \o new, hs \cup {new[i].hash : i \in 1..Len(new)}, n)
        /\ m = 0 /\ InRuns(new) => InRuns(l \o new)
    BY <1>3, <1>6, <2>1, LogLoaded
  <2> QED
    BY <1>5, <2>2
<1>8. r \notin mixed' => InRuns(log[r] \o new)
  <2> SUFFICES ASSUME r \notin mixed' PROVE InRuns(log[r] \o new)
    OBVIOUS
  <2>1. seq[r] \in Nat /\ ~(seq[r] > 0) /\ OneRun(loading[r])
    BY <1>0, ReplayFields
  <2>2. seq[r] = 0
    BY <2>1
  <2> QED
    BY <1>3, <1>7, <2>1, <2>2
<1>9. /\ mixed \ {r} \subseteq mixed' /\ mixed' \subseteq Processes
      /\ writes' \in [Processes -> Seq(Writing)]
      /\ loading' \in [Processes -> Seq(Numbered) \cup {IDLE}]
      /\ redis' \subseteq Numbered /\ IsFiniteSet(redis') /\ past' \subseteq Hashes
      /\ loads' \in [Processes -> 0..MaxLoads]
  BY <1>0, ReplayFields
<1> QED
  BY <1>1, <1>2, <1>7, <1>8, <1>9, ReplayHeld

LEMMA ReplayStep ==
  ASSUME ReplayInv, ReplayNext \/ UNCHANGED replayVars
  PROVE  ReplayInv'
<1>1. ASSUME NEW r \in Processes, NEW h \in Hashes, RecordEvent(r, h) PROVE ReplayInv'
  BY <1>1, ReplayRecords
<1>2. ASSUME NEW r \in Processes, Executes(r) \/ Rejected(r) \/ ReadLog(r) \/ Loaded(r)
      PROVE ReplayInv'
  BY <1>2, ReplayExecutes, ReplayReads, ReplayLoads
<1>3. ASSUME NEW r \in Processes, ReplayCrash(r) PROVE ReplayInv'
  <2>1. /\ seq' = [seq EXCEPT ![r] = 0] /\ log' = [log EXCEPT ![r] = <<>>]
        /\ seen' = [seen EXCEPT ![r] = {}] /\ mixed' = mixed \ {r} /\ redis' = redis
    BY <1>3 DEF ReplayCrash
  <2>2. <<>> \in Seq(Writing)
    OBVIOUS
  <2>3. writes' \in [Processes -> Seq(Writing)]
    BY <1>3, <2>2, ReplayFields DEF ReplayCrash
  <2>4. loading' \in [Processes -> Seq(Numbered) \cup {IDLE}]
    BY <1>3, ReplayFields DEF ReplayCrash
  <2>5. 0 \in 0..MaxLoads
    BY CapacityAssumption
  <2>6. loads' \in [Processes -> 0..MaxLoads]
    BY <1>3, <2>5, ReplayFields DEF ReplayCrash
  <2>7. past' \subseteq Hashes
    BY <1>3, ReplayFields DEF ReplayCrash
  <2>8. /\ redis' \subseteq Numbered /\ IsFiniteSet(redis')
        /\ mixed \ {r} \subseteq mixed' /\ mixed' \subseteq Processes
    BY <2>1, ReplayFields
  <2> QED
    BY <2>1, <2>3, <2>4, <2>6, <2>7, <2>8, LogEmpty, ReplayHeld
<1>4. CASE MillisecondOver \/ UNCHANGED replayVars
  <2>1. UNCHANGED <<memory, writes, redis, loading, loads, mixed>>
    BY <1>4 DEF MillisecondOver, replayVars
  <2>2. past' \subseteq Hashes
    BY <1>4, ReplayFields DEF MillisecondOver, replayVars
  <2> QED
    BY <2>1, <2>2, ReplayFields, ReplayKept
<1> QED
  BY <1>1, <1>2, <1>3, <1>4 DEF ReplayNext

LEMMA ReplayBegun == ReplayInit => ReplayInv
<1> SUFFICES ASSUME ReplayInit PROVE ReplayInv
  OBVIOUS
<1>1. 0 \in 0..MaxLoads /\ <<>> \in Seq(Numbered) /\ <<>> \in Seq(Writing)
  BY CapacityAssumption
<1>2. /\ \A r \in Processes : seq[r] = 0 /\ log[r] = <<>> /\ seen[r] = {}
      /\ seq \in [Processes -> Nat] /\ seen \in [Processes -> SUBSET Hashes]
      /\ log \in [Processes -> Seq(Numbered)] /\ writes \in [Processes -> Seq(Writing)]
      /\ loading \in [Processes -> Seq(Numbered) \cup {IDLE}]
      /\ loads \in [Processes -> 0..MaxLoads]
  BY <1>1 DEF ReplayInit
<1>3. redis = {} /\ past = {} /\ mixed = {} /\ IsFiniteSet({})
  BY FS_EmptySet DEF ReplayInit
<1>4. \A r \in Processes : LogHolds(log[r], seen[r], seq[r]) /\ InRuns(log[r])
  BY <1>2, LogEmpty
<1> QED
  BY <1>2, <1>3, <1>4 DEF ReplayInv

LEMMA ReplayImplied == ReplayInv => ReplayHolds
<1> SUFFICES ASSUME ReplayInv PROVE ReplayHolds
  OBVIOUS
<1>1. Numbered \subseteq Event /\ Writing \subseteq Write
  BY DEF Numbered, Writing
<1>2. ASSUME NEW r \in Processes
      PROVE  /\ log[r] \in Seq(Event) /\ writes[r] \in Seq(Write)
             /\ loading[r] = IDLE \/ loading[r] \in Seq(Event)
  <2>1. Seq(Numbered) \subseteq Seq(Event) /\ Seq(Writing) \subseteq Seq(Write)
    BY <1>1
  <2>2. /\ log[r] \in Seq(Numbered) /\ writes[r] \in Seq(Writing)
        /\ loading[r] \in Seq(Numbered) \cup {IDLE}
    BY ReplayFields
  <2> QED
    BY <2>1, <2>2
<1>3. ReplayTypeOK
  BY <1>1, <1>2, ReplayFields DEF ReplayTypeOK
<1>4. ASSUME NEW r \in Processes
      PROVE  /\ DOMAIN log[r] = 1..Len(log[r])
             /\ ToSet(log[r]) = {log[r][i] : i \in 1..Len(log[r])}
  BY ReplayFields DEF ToSet
<1>5. ASSUME NEW r \in Processes PROVE HashesOf(log[r]) = {log[r][i].hash : i \in 1..Len(log[r])}
  BY <1>4 DEF HashesOf
<1>6. SeenIsLog
  BY <1>4, <1>5, ReplayFields DEF SeenIsLog, LogHolds
<1>7. SinceMissesNothing
  <2> SUFFICES ASSUME NEW r \in Processes
               PROVE  /\ \A e \in ToSet(log[r]) : e.seq <= seq[r]
                      /\ r \notin mixed => OneRun(log[r])
    BY DEF SinceMissesNothing
  <2>1. \A e \in ToSet(log[r]) : e.seq <= seq[r]
    BY <1>4, ReplayFields DEF LogHolds
  <2>2. r \notin mixed => OneRun(log[r])
    BY <1>4, ReplayFields DEF InRuns, OneRun
  <2> QED
    BY <2>1, <2>2
<1> QED
  BY <1>3, <1>6, <1>7 DEF ReplayHolds

(* Of each event of the log, and of no other, the hash is remembered, and   *)
(* who has read up to the current number misses nothing recorded later,     *)
(* whatever is evicted, reloaded, trimmed or lost in a crash (_record,      *)
(* loadFromRedis, since).                                                   *)
THEOREM ReplayAlwaysSafe == GuardsSpec => []ReplaySafe
<1> DEFINE Inv == part = "replay" => ReplayInv
<1>1. GuardsInit => Inv
  BY ReplayBegun DEF GuardsInit
<1>2. Inv /\ [GuardsNext]_<<part, gates, stores, onRoom, roomVars>> => Inv'
  <2> SUFFICES ASSUME Inv, [GuardsNext]_<<part, gates, stores, onRoom, roomVars>>,
                      part' = "replay"
               PROVE  ReplayInv'
    OBVIOUS
  <2>1. CASE ReplayNext /\ part = "replay"
    BY <2>1, ReplayStep
  <2>2. CASE UNCHANGED <<part, replayVars>>
    BY <2>2, ReplayStep
  <2> QED
    BY <2>1, <2>2 DEF GuardsNext, stores
<1>3. Inv => ReplaySafe
  BY ReplayImplied DEF ReplaySafe
<1> QED
  BY <1>1, <1>2, <1>3, PTL DEF GuardsSpec
=============================================================================
