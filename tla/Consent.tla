------------------------------- MODULE Consent -------------------------------
(***************************************************************************)
(* compliance/ConsentFlow.js: the consents recorded for one room id, and   *)
(* the timer that removes a member without the required ones.  The store   *)
(* of a room exists as long as the Room object does.  Messages of peers a  *)
(* former Room object still hears reach the store of the id.               *)
(***************************************************************************)
EXTENDS RoomLife

CONSTANTS
  Types,      \* consent types
  Required    \* options.required

ASSUME RequiredAssumption == Required \subseteq Types /\ Required # {}

VARIABLES
  granted,    \* the types in the record of each peer, {} for no record
  timer,      \* peers with an entry in _timeouts
  overdue,    \* members for longer than consentTimeoutMs
  lacking,    \* history: those that lacked a type when that time was over
  spoke       \* history: peers that have sent a grant

consentVars == <<granted, timer, overdue, lacking, spoke>>

ConsentTypeOK ==
  /\ granted \in [Peers -> SUBSET Types]
  /\ timer \subseteq RoomMembers
  /\ overdue \subseteq Peers /\ lacking \subseteq overdue
  /\ spoke \subseteq Peers

NoRecords == [p \in Peers |-> {}]

ConsentInit ==
  /\ RoomInit
  /\ granted = NoRecords
  /\ timer = {} /\ overdue = {} /\ lacking = {} /\ spoke = {}

HasAllRequired(p) == Required \subseteq granted[p]

-----------------------------------------------------------------------------
ConsentMake ==
  /\ Make
  /\ granted' = NoRecords
  /\ UNCHANGED <<timer, overdue, lacking, spoke>>

(* _onPeerJoined, behind room:created if the room is new *)
ConsentEnter(p) ==
  /\ Enter(p)
  /\ granted' = IF alive THEN granted ELSE NoRecords
  /\ timer' = timer \cup {p}
  /\ UNCHANGED <<overdue, lacking, spoke>>

(* _onPeerLeft, and room:destroyed with the last *)
Unrecord(p) ==
  /\ Exit(p)
  /\ granted' = IF alive' THEN [granted EXCEPT ![p] = {}] ELSE NoRecords
  /\ timer' = timer \ {p}
  /\ UNCHANGED spoke

ConsentExit(p) == Unrecord(p) /\ UNCHANGED <<overdue, lacking>>

(* consentTimeoutMs after the join: the timer, if it is still there, kicks  *)
(* whoever lacks a type; the server does not find a ghost.                  *)
TimeIsOver(p) ==
  /\ p \in RoomMembers \ overdue
  /\ overdue' = overdue \cup {p}
  /\ lacking' = IF HasAllRequired(p) THEN lacking ELSE lacking \cup {p}
  /\ IF p \in timer /\ ~HasAllRequired(p) /\ p \in Reachable
       THEN Unrecord(p)
       ELSE timer' = timer \ {p} /\ UNCHANGED <<granted, spoke, roomVars>>

-----------------------------------------------------------------------------
(* _grantConsent: there must be a store.  Here and below, types are those    *)
(* that make a difference to the record.                                    *)
Record(p, types) ==
  /\ granted' = IF alive THEN [granted EXCEPT ![p] = @ \cup types] ELSE granted
  /\ spoke' = spoke \cup {p}

(* _handleConsentSignal, a grant: it ends the timer, complete or not. *)
Grant(p) ==
  /\ p \in Speakers
  /\ \E types \in SUBSET (Types \ granted[p]) : Record(p, types)
  /\ timer' = timer \ {p}
  /\ UNCHANGED <<overdue, lacking, roomVars>>

(* _withdrawConsent: no timer is started again. *)
Withdraw(p) ==
  /\ p \in Speakers
  /\ \E types \in SUBSET granted[p] : granted' = [granted EXCEPT ![p] = @ \ types]
  /\ UNCHANGED <<timer, overdue, lacking, spoke, roomVars>>

RecordStopsTimer(p) ==
  /\ \E types \in SUBSET (Types \ granted[p]) :
       granted' = IF alive THEN [granted EXCEPT ![p] = @ \cup types] ELSE granted
  /\ timer' = timer \ {p}
  /\ UNCHANGED <<overdue, lacking, spoke, roomVars>>

(* recordConsent, by the application, of any peer id: the timer goes on. *)
RecordConsent(p) ==
  /\ \E types \in SUBSET (Types \ granted[p]) :
       granted' = IF alive THEN [granted EXCEPT ![p] = @ \cup types] ELSE granted
  /\ UNCHANGED <<timer, overdue, lacking, spoke, roomVars>>

ConsentNext ==
  \/ ConsentMake
  \/ \E p \in Peers :
       \/ ConsentEnter(p) \/ ConsentExit(p) \/ TimeIsOver(p)
       \/ Grant(p) \/ Withdraw(p) \/ RecordConsent(p)

ConsentSpec == ConsentInit /\ [][ConsentNext]_<<consentVars, roomVars>>

-----------------------------------------------------------------------------
(* A member the server can find that lacked a required type when its time   *)
(* was over is there only because a message of its own granted something    *)
(* before; one whose time runs has its timer, unless such a message ended   *)
(* it.  No departure, room of the same id or record of the application      *)
(* takes the timer away (_onPeerJoined, _handleConsentSignal).              *)
ConsentEnforced ==
  \A p \in Reachable \ spoke : p \notin lacking /\ (p \in timer \/ p \in overdue)

ConsentHolds == RoomTypeOK /\ ConsentTypeOK /\ ConsentEnforced
=============================================================================
