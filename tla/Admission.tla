------------------------------ MODULE Admission -------------------------------
(***************************************************************************)
(* The guards of a room: the beforeJoin hook of the application and the    *)
(* wrappers that ModerationBus, BackpressureController, PolicyEngine and   *)
(* DataResidency put around whatever hook they find when they attach, in   *)
(* whatever order the application attaches them.                           *)
(*                                                                         *)
(* "lock" and "load" look first and return what the wrapped hook returns;  *)
(* "policy" and "region" await the wrapped hook and look if it returned    *)
(* true.  Only the application's hook and the lookup of a region take      *)
(* time; the rest of a chain runs in one callback.                         *)
(***************************************************************************)
EXTENDS Naturals, FiniteSets, SequencesExt

CONSTANTS
  Askers,      \* connections that ask to join; bounds a behaviour
  Parts,       \* the wrapping parts that are attached
  AppHook,     \* options.beforeJoin is set
  Answers      \* what the application's hook may return or do

AllParts == {"lock", "load", "policy", "region"}
First == {"lock", "load"}            \* look before the wrapped hook
Refusals == {"false", "string", "throws"}

ASSUME PartsAssumption == Parts \subseteq AllParts /\ IsFiniteSet(Askers)
ASSUME HookAssumption ==
  AppHook \in BOOLEAN /\ Answers \subseteq {"true", "truthy"} \cup Refusals

VARIABLES
  inward,    \* the parts, innermost wrapper first: fixed once attached
  stage,     \* of each peer
  rest,      \* the parts that have still to look, of a peer whose region is awaited
  passed,    \* history: the parts that looked at a peer and let it pass
  lockHeld,  \* _lockedRooms has the room
  level      \* BackpressureController._currentLevel

admissionVars == <<inward, stage, rest, passed, lockHeld, level>>

Stage == {"outside", "hook", "lookup", "in", "refused", "gone"}
Level == {"normal", "elevated", "high", "critical", "shedding"}

AdmissionTypeOK ==
  /\ inward \in SetToSeqs(Parts)
  /\ stage \in [Askers -> Stage]
  /\ rest \in [Askers -> SUBSET Parts]
  /\ passed \in [Askers -> SUBSET Parts]
  /\ lockHeld \in BOOLEAN
  /\ level \in Level
  /\ \A p \in Askers : rest[p] # {} => stage[p] = "lookup"

AdmissionInit ==
  /\ inward \in SetToSeqs(Parts)
  /\ stage = [p \in Askers |-> "outside"]
  /\ rest = [p \in Askers |-> {}]
  /\ passed = rest
  /\ lockHeld = FALSE
  /\ level = "normal"

Admitted == {p \in Askers : stage[p] = "in"}

-----------------------------------------------------------------------------
(* What a call of the chain comes to. *)

(* The parts that look after the wrapped hook: the innermost is the next.   *)
Later == Parts \ First
Before(inner, outer) ==
  \E i, j \in DOMAIN inward : i < j /\ inward[i] = inner /\ inward[j] = outer
IsNext(part, todo) == part \in todo /\ \A other \in todo \ {part} : Before(part, other)

Refuse(p) ==
  /\ stage' = [stage EXCEPT ![p] = "refused"]
  /\ rest' = [rest EXCEPT ![p] = {}]
  /\ UNCHANGED passed

(* The chain's result is neither false nor a string: the peer is added. *)
Admit(p, by) ==
  /\ stage' = [stage EXCEPT ![p] = "in"]
  /\ rest' = [rest EXCEPT ![p] = {}]
  /\ passed' = [passed EXCEPT ![p] = @ \cup by]

(* The parts still to look are todo; those in by have just let p pass.  The *)
(* policy is verified at once, a region is looked up.                       *)
Proceed(p, todo, by) ==
  LET verified == IF IsNext("policy", todo) THEN {"policy"} ELSE {}
      after == todo \ verified
      seen == by \cup verified
  IN  \/ verified # {} /\ Refuse(p)
      \/ IF after = {}
           THEN Admit(p, seen)
           ELSE /\ stage' = [stage EXCEPT ![p] = "lookup"]
                /\ rest' = [rest EXCEPT ![p] = after]
                /\ passed' = [passed EXCEPT ![p] = @ \cup seen]

(* _checkJoinAllowed *)
LoadRefuses == level \in {"critical", "shedding"}

(* What the parts that look first say. *)
RefusedAtOnce ==
  \/ "lock" \in Parts /\ lockHeld
  \/ "load" \in Parts /\ LoadRefuses

-----------------------------------------------------------------------------
(* A join reaches the chain. *)
Ask(p) ==
  /\ stage[p] = "outside"
  /\ IF RefusedAtOnce
       THEN Refuse(p)
       ELSE IF AppHook
         THEN /\ stage' = [stage EXCEPT ![p] = "hook"]
              /\ passed' = [passed EXCEPT ![p] = Parts \cap First]
              /\ UNCHANGED rest
         ELSE Proceed(p, Later, Parts \cap First)
  /\ UNCHANGED <<inward, lockHeld, level>>

(* The application's hook answers: what is not true is returned by every    *)
(* wrapper as it is, and admits the peer unless it is false or a string.    *)
Answer(p) ==
  /\ stage[p] = "hook"
  /\ \E answer \in Answers :
       CASE answer \in Refusals -> Refuse(p)
         [] answer = "truthy" -> Admit(p, {})
         [] answer = "true" -> Proceed(p, Later, {})
  /\ UNCHANGED <<inward, lockHeld, level>>

LookupEndsChain(p) ==
  /\ stage[p] = "lookup"
  /\ Refuse(p) \/ Admit(p, {"region"})
  /\ UNCHANGED <<inward, lockHeld, level>>

(* The region of p is known, or cannot be: _checkPeerRegion goes on. *)
Located(p) ==
  /\ stage[p] = "lookup"
  /\ Refuse(p) \/ Proceed(p, rest[p] \ {"region"}, {"region"})
  /\ UNCHANGED <<inward, lockHeld, level>>

(* A departure; the room is destroyed, and its lock with it, with the last. *)
Leave(p) ==
  /\ stage[p] = "in"
  /\ stage' = [stage EXCEPT ![p] = "gone"]
  /\ lockHeld' = (lockHeld /\ Admitted # {p})
  /\ UNCHANGED <<inward, rest, passed, level>>

-----------------------------------------------------------------------------
(* lockRoom and unlockRoom, by a moderator's message or by the application: *)
(* neither asks whether the room exists.                                    *)
SetLock ==
  /\ "lock" \in Parts /\ ~lockHeld
  /\ lockHeld' = TRUE
  /\ UNCHANGED <<inward, stage, rest, passed, level>>

ClearLock ==
  /\ lockHeld
  /\ lockHeld' = FALSE
  /\ UNCHANGED <<inward, stage, rest, passed, level>>

(* BackpressureController._sample: the load is whatever it is. *)
Sample ==
  /\ "load" \in Parts
  /\ \E l \in Level : level' = l
  /\ UNCHANGED <<inward, stage, rest, passed, lockHeld>>

AdmissionNext ==
  \/ \E p \in Askers : Ask(p) \/ Answer(p) \/ Located(p) \/ Leave(p)
  \/ SetLock \/ ClearLock \/ Sample

AdmissionSpec == AdmissionInit /\ [][AdmissionNext]_admissionVars

-----------------------------------------------------------------------------
(* With a hook that answers true or refuses, whoever is admitted has been   *)
(* looked at by every part that is attached, in whatever order they were    *)
(* attached, whatever waited in between: no wrapper cuts another one off.   *)
EveryPartLooked == \A p \in Admitted : passed[p] = Parts

(* The lookup of a region is the last word of whoever waits for it: a peer  *)
(* waits there only with every part inward of the region satisfied.         *)
LookupComesAfterInner ==
  \A p \in Askers :
    stage[p] = "lookup" => IsNext("region", rest[p]) /\ Parts \ rest[p] \subseteq passed[p]

AdmissionHolds == AdmissionTypeOK /\ EveryPartLooked /\ LookupComesAfterInner
=============================================================================
