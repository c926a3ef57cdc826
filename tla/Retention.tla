------------------------------ MODULE Retention ------------------------------
(***************************************************************************)
(* compliance/RetentionPolicy.js: records of data kept under an id, legal  *)
(* holds on their subjects, and the two loops that expire records, purge   *)
(* and the periodic sweep.  Both await a hook of the application for each  *)
(* record; anything may happen meanwhile.  A record that is registered     *)
(* under an id in use is another object.                                   *)
(***************************************************************************)
EXTENDS Naturals, FiniteSets

CONSTANTS
  Ids,        \* ids of records
  Subjects,
  ANON,       \* the hash that replaces a subject
  Versions,   \* bounds the records registered under one id
  Records     \* bounds the records registered

ASSUME SubjectAssumption == ANON \notin Subjects /\ Versions \in Nat \ {0}

VARIABLES
  subject, onHold, due,   \* of each record object: sub, legalHold, and whether
                          \* expiresAt is past
  kept,       \* _records: the version under each id, 0 for none
  issued,       \* versions registered under each id
  holds,      \* _legalHolds
  todo,       \* of each loop, the records it has still to go through
  busy,       \* the record whose hook it awaits
  wanted,     \* of a purge, the subject
  overlooked, \* history: records that a hold on their subject came too late for
  expired,    \* history: records whose hook was called
  broken,     \* history: those of a subject under a hold at the time
  dropped     \* history: records removed without a call of the hook

objects == <<subject, onHold, due>>
loops == <<todo, busy, wanted>>
history == <<overlooked, expired, broken, dropped>>
retentionVars == <<objects, kept, issued, holds, loops, history>>

Loops == {"purge", "sweep"}
Objects == Ids \X (1..Versions)
NOBODY == <<>>

RetentionTypeOK ==
  /\ subject \in [Objects -> Subjects \cup {ANON}]
  /\ onHold \in [Objects -> BOOLEAN] /\ due \in [Objects -> BOOLEAN]
  /\ issued \in [Ids -> 0..Versions]
  /\ \A i \in Ids : kept[i] \in 0..issued[i]
  /\ holds \subseteq Subjects
  /\ todo \in [Loops -> SUBSET Objects]
  /\ busy \in [Loops -> Objects \cup {NOBODY}]
  /\ \A l \in Loops : busy[l] = NOBODY => todo[l] = {}

RetentionInit ==
  /\ subject = [o \in Objects |-> ANON]
  /\ onHold = [o \in Objects |-> FALSE] /\ due = onHold
  /\ kept = [i \in Ids |-> 0] /\ issued = kept
  /\ holds = {} /\ wanted = ANON
  /\ todo = [l \in Loops |-> {}] /\ busy = [l \in Loops |-> NOBODY]
  /\ overlooked = {} /\ expired = {} /\ broken = {} /\ dropped = {}

Kept == {o \in Objects : kept[o[1]] = o[2]}
Of(s) == {o \in Kept : subject[o] = s}

-----------------------------------------------------------------------------
(* register; the record takes the hold of its subject. *)
RegisterRecord(i, s) ==
  /\ issued[i] < Versions /\ Cardinality({o \in Objects : o[2] <= issued[o[1]]}) < Records
  /\ LET o == <<i, issued[i] + 1>> IN
     /\ subject' = [subject EXCEPT ![o] = s]
     /\ onHold' = [onHold EXCEPT ![o] = s \in holds]
     /\ issued' = [issued EXCEPT ![i] = @ + 1]
     /\ kept' = [kept EXCEPT ![i] = issued'[i]]
  /\ UNCHANGED <<due, holds, loops, history>>

Mark(s, flag) == onHold' = [o \in Objects |-> IF o \in Of(s) THEN flag ELSE onHold[o]]

(* placeLegalHold marks what is in the map; it comes too late for a record  *)
(* that has gone from it, or that a purge has collected.                    *)
PlaceLegalHold(s) ==
  /\ holds' = holds \cup {s} /\ Mark(s, TRUE)
  /\ overlooked' = overlooked \cup
                     {o \in Objects : subject[o] = s /\ (o \notin Kept \/ o \in todo["purge"])}
  /\ UNCHANGED <<subject, due, kept, issued, loops, expired, broken, dropped>>

ReleaseLegalHold(s) ==
  /\ holds' = holds \ {s} /\ Mark(s, FALSE)
  /\ UNCHANGED <<subject, due, kept, issued, loops, history>>

(* anonymise; records under a hold keep their subject. *)
Anonymise(s) ==
  /\ subject' = [o \in Objects |-> IF o \in Of(s) /\ ~onHold[o] THEN ANON ELSE subject[o]]
  /\ UNCHANGED <<onHold, due, kept, issued, holds, loops, history>>

Lapse(o) ==
  /\ o \in Kept /\ ~due[o]
  /\ due' = [due EXCEPT ![o] = TRUE]
  /\ UNCHANGED <<subject, onHold, kept, issued, holds, loops, history>>

-----------------------------------------------------------------------------
WantsAll(l, o) == TRUE

(* A loop comes to the next record and calls its hook, or ends: a purge     *)
(* goes through all it has collected, a sweep looks at the hold again.      *)
Wants(l, o) == l = "purge" \/ ~onHold[o]

Advance(l, rest) ==
  LET wants == {o \in rest : Wants(l, o)} IN
  IF wants = {}
    THEN /\ todo' = [todo EXCEPT ![l] = {}]
         /\ busy' = [busy EXCEPT ![l] = NOBODY]
         /\ UNCHANGED <<expired, broken>>
    ELSE \E o \in wants :
         /\ \E skipped \in SUBSET (rest \ wants) : todo' = [todo EXCEPT ![l] = rest \ (skipped \cup {o})]
         /\ busy' = [busy EXCEPT ![l] = o]
         /\ expired' = expired \cup {o}
         /\ broken' = IF subject[o] \in holds THEN broken \cup {o} ELSE broken

(* purge: it collects the records of s without a hold.  Bound: one purge    *)
(* and one sweep at a time.                                                 *)
Purge(s) ==
  /\ busy["purge"] = NOBODY
  /\ wanted' = s
  /\ LET found == {o \in Of(s) : ~onHold[o]} IN
     Advance("purge", found)
  /\ UNCHANGED <<objects, kept, issued, holds, overlooked, dropped>>

(* _sweep *)
RetentionSweep ==
  /\ busy["sweep"] = NOBODY
  /\ Advance("sweep", {o \in Kept : due[o]})
  /\ UNCHANGED <<objects, kept, issued, holds, wanted, overlooked, dropped>>

(* The hook has answered or failed: whatever is under the id by now goes.   *)
HookDone(l) ==
  /\ busy[l] # NOBODY
  /\ LET i == busy[l][1] IN
     /\ dropped' = IF kept[i] = 0 \/ <<i, kept[i]>> \in expired
                     THEN dropped ELSE dropped \cup {<<i, kept[i]>>}
     /\ kept' = [kept EXCEPT ![i] = 0]
  /\ Advance(l, todo[l])
  /\ UNCHANGED <<objects, issued, holds, wanted, overlooked>>

RetentionNext ==
  \/ \E i \in Ids, s \in Subjects : RegisterRecord(i, s)
  \/ \E s \in Subjects :
       PlaceLegalHold(s) \/ ReleaseLegalHold(s) \/ Anonymise(s) \/ Purge(s)
  \/ \E o \in Objects : Lapse(o)
  \/ RetentionSweep \/ \E l \in Loops : HookDone(l)

RetentionSpec == RetentionInit /\ [][RetentionNext]_retentionVars

-----------------------------------------------------------------------------
(* The flag a loop looks at is the hold of the record's subject, however    *)
(* registrations, holds and anonymisation are ordered (legalHold).          *)
HoldsMarked == \A o \in Kept : onHold[o] <=> subject[o] \in holds

(* No loop destroys data of a subject under a hold, but for a record that   *)
(* the hold came too late for: when it was placed, a purge that had still   *)
(* to come to the record had collected it (toDelete), or the record had     *)
(* been replaced in the map, or removed, while a loop kept it on its list.  *)
HoldsRespected == broken \subseteq overlooked

(* A record leaves the map without its data being destroyed only if it was  *)
(* registered under the id of one that a loop had still to destroy, or was  *)
(* destroying.                                                              *)
NothingDroppedUnnoticed ==
  \A o \in dropped : \E v \in 1..Versions : v < o[2] /\ <<o[1], v>> \in expired

RetentionHolds ==
  RetentionTypeOK /\ HoldsMarked /\ HoldsRespected /\ NothingDroppedUnnoticed
=============================================================================
