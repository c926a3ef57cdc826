----------------------------- MODULE Moderation ------------------------------
(***************************************************************************)
(* moderation/ModerationBus.js over the life of one room id: mutes, kicks  *)
(* and the lock, and what the clients are told of them.  A message of a    *)
(* peer that may moderate and a call of the application do the same, and   *)
(* either may come at any time: who asked is left out.                     *)
(*                                                                         *)
(* Clients are followed while their socket is open, from a join at which   *)
(* they had nothing to be told.                                            *)
(***************************************************************************)
EXTENDS RoomLife

VARIABLES
  asking,     \* connections past the lock, whose hook has not answered
  muted,      \* _mutedPeers of the room
  locked,     \* _lockedRooms has the room
  followed,   \* clients that were sent all there was
  feelsMuted, feelsLocked,   \* followed clients that were told so last
  askedAtLock,   \* history: who was asking when the room was locked last
  cameLocked     \* history: who has entered since, the room still locked

moderationVars == <<asking, muted, locked, followed, feelsMuted, feelsLocked,
                    askedAtLock, cameLocked>>
clientViews == <<followed, feelsMuted, feelsLocked>>
lockHistory == <<askedAtLock, cameLocked>>

ModerationTypeOK ==
  /\ asking \subseteq Peers /\ muted \subseteq Peers
  /\ locked \in BOOLEAN
  /\ followed \subseteq RoomMembers
  /\ feelsMuted \subseteq followed /\ feelsLocked \subseteq followed
  /\ askedAtLock \subseteq Peers /\ cameLocked \subseteq Peers

ModerationInit ==
  /\ RoomInit
  /\ asking = {} /\ muted = {} /\ locked = FALSE
  /\ followed = {} /\ feelsMuted = {} /\ feelsLocked = {}
  /\ askedAtLock = {} /\ cameLocked = {}

NoLongerFollow(ps) ==
  /\ followed' = followed \ ps
  /\ feelsMuted' = feelsMuted \ ps
  /\ feelsLocked' = feelsLocked \ ps

AskAnyway(p) ==
  /\ status[p] = "outside"
  /\ asking' = asking \cup {p}
  /\ UNCHANGED <<muted, locked, clientViews, lockHistory, roomVars>>

-----------------------------------------------------------------------------
(* beforeJoin: the lock is looked at, then the hook of the application is   *)
(* awaited.                                                                 *)
AskToJoin(p) ==
  /\ status[p] = "outside" /\ ~locked
  /\ asking' = asking \cup {p}
  /\ UNCHANGED <<muted, locked, clientViews, lockHistory, roomVars>>

Enters(p) ==
  /\ p \in asking /\ Enter(p)
  /\ asking' = asking \ {p}
  /\ muted' = IF alive THEN muted ELSE {}
  /\ followed' = IF status'[p] = "present" /\ p \notin muted' /\ ~locked
                   THEN followed \cup {p} ELSE followed
  /\ cameLocked' = IF locked THEN cameLocked \cup {p} ELSE cameLocked
  /\ UNCHANGED <<locked, feelsMuted, feelsLocked, askedAtLock>>

RoomMade ==
  /\ Make
  /\ muted' = {}
  /\ UNCHANGED <<asking, locked, clientViews, lockHistory>>

(* A departure, _applyKick's included: the mutes and the lock go with the   *)
(* room, not with the peer.                                                 *)
Exits(p) ==
  /\ Exit(p)
  /\ muted' = IF alive' THEN muted ELSE {}
  /\ locked' = (locked /\ alive')
  /\ NoLongerFollow({p})
  /\ UNCHANGED <<asking, lockHistory>>

(* What the bus does not listen to. *)
LosesTouch ==
  /\ \/ \E p \in Peers : (Fade(p) \/ Drop(p)) /\ NoLongerFollow({p})
     \/ \E p \in Peers : Return(p) /\ UNCHANGED clientViews
     \/ \E ps \in SUBSET Peers : Strand(ps) /\ NoLongerFollow(ps)
  /\ UNCHANGED <<asking, muted, locked, lockHistory>>

-----------------------------------------------------------------------------
(* _applyMute: of any peer id, also of one that is not in the room; without *)
(* a room nothing is noted, but the peer is told.                           *)
Mute(p) ==
  /\ muted' = IF alive THEN muted \cup {p} ELSE muted
  /\ feelsMuted' = feelsMuted \cup ({p} \cap followed)
  /\ UNCHANGED <<asking, locked, followed, feelsLocked, lockHistory, roomVars>>

(* _applyUnmute, by the peer itself, too *)
Unmute(p) ==
  /\ muted' = muted \ {p}
  /\ feelsMuted' = feelsMuted \ {p}
  /\ UNCHANGED <<asking, locked, followed, feelsLocked, lockHistory, roomVars>>

(* lockRoom: the room need not exist yet. *)
LockRoom ==
  /\ locked' = TRUE
  /\ feelsLocked' = followed
  /\ askedAtLock' = asking /\ cameLocked' = {}
  /\ UNCHANGED <<asking, muted, followed, feelsMuted, roomVars>>

UnlockRoom ==
  /\ locked' = FALSE
  /\ feelsLocked' = {}
  /\ UNCHANGED <<asking, muted, followed, feelsMuted, lockHistory, roomVars>>

ModerationNext ==
  \/ \E p \in Peers :
       AskToJoin(p) \/ Enters(p) \/ Exits(p) \/ Mute(p) \/ Unmute(p)
  \/ RoomMade \/ LosesTouch \/ LockRoom \/ UnlockRoom

ModerationSpec == ModerationInit /\ [][ModerationNext]_<<moderationVars, roomVars>>

-----------------------------------------------------------------------------
(* A client that has missed nothing knows whether it is muted and whether   *)
(* its room is locked, over rooms of one id and whoever is muted meanwhile. *)
ClientsKnow ==
  \A p \in followed : (p \in feelsMuted <=> p \in muted) /\ (p \in feelsLocked <=> locked)

(* Those who enter a locked room had been asking when it was locked: the    *)
(* lock does not reach the joins whose hook is awaited, and no others slip  *)
(* through (attach, beforeJoin).                                            *)
LockHolds == cameLocked \subseteq askedAtLock

ModerationHolds == RoomTypeOK /\ ModerationTypeOK /\ ClientsKnow /\ LockHolds
=============================================================================
