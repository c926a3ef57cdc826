------------------------------- MODULE MCGuards -------------------------------
(***************************************************************************)
(* The parts that let peers in or throw them out, and those that keep or   *)
(* pass on what happened, in memory, in Redis or to an endpoint, for TLC.  *)
(* They share no state but the life of the room, so each behaviour is one  *)
(* of one part, chosen in its first state, and the others stand still.     *)
(***************************************************************************)
EXTENDS Admission, Shedding, Consent, Moderation, Threats, Limits, Retention,
        Registry, Snapshots, Replay, Webhooks, TLC

VARIABLE part

gates == <<admissionVars, limitsVars>>
stores == <<retentionVars, vars, snapshotsVars, replayVars, webhooksVars>>
onRoom == <<consentVars, moderationVars, threatsVars, sheddingVars>>

(* What the variables of a part that stands still have: nothing of them. *)
NoAdmission ==
  inward = 0 /\ stage = 0 /\ rest = 0 /\ passed = 0 /\ lockHeld = 0 /\ level = 0
NoLimits ==
  /\ arrivals = 0 /\ second = 0 /\ minute = 0 /\ ban = 0
  /\ tried = 0 /\ admitted = 0 /\ letThrough = 0 /\ unearned = 0
NoConsent == granted = 0 /\ timer = 0 /\ overdue = 0 /\ lacking = 0 /\ spoke = 0
NoModeration ==
  /\ asking = 0 /\ muted = 0 /\ locked = 0 /\ askedAtLock = 0 /\ cameLocked = 0
  /\ followed = 0 /\ feelsMuted = 0 /\ feelsLocked = 0
NoThreats == link = 0 /\ counted = 0 /\ paced = 0 /\ heard = 0 /\ idle = 0
NoShedding ==
  /\ entries = 0 /\ joining = 0 /\ shut = 0 /\ staff = 0 /\ strain = 0
  /\ victims = 0 /\ demoted = 0
NoRetention ==
  /\ subject = 0 /\ onHold = 0 /\ due = 0 /\ kept = 0 /\ issued = 0 /\ holds = 0 /\ todo = 0
  /\ busy = 0 /\ wanted = 0 /\ overlooked = 0 /\ expired = 0 /\ broken = 0 /\ dropped = 0
NoRegistry ==
  /\ ttl = 0 /\ place = 0 /\ pipe = 0 /\ hash = 0 /\ volatile = 0 /\ index = 0
  /\ remote = 0 /\ crashed = 0 /\ failed = 0
NoSnapshots ==
  /\ keepsFor = 0 /\ room = 0 /\ made = 0 /\ line = 0 /\ snapshot = 0 /\ fades = 0
  /\ indexed = 0 /\ phase = 0 /\ late = 0 /\ missed = 0 /\ settled = 0
NoReplay ==
  /\ seq = 0 /\ log = 0 /\ seen = 0 /\ writes = 0 /\ redis = 0 /\ loading = 0
  /\ past = 0 /\ loads = 0 /\ mixed = 0
NoWebhooks ==
  /\ course = 0 /\ attempt = 0 /\ answering = 0 /\ straying = 0 /\ handled = 0 /\ inRedis = 0
  /\ maxSize = 0 /\ dlq = 0 /\ pushing = 0 /\ trimming = 0 /\ newer = 0 /\ lost = 0

GuardsInit ==
  /\ part \in {"admission", "limits", "consent", "moderation", "threats", "shedding",
               "retention", "registry", "snapshots", "replay", "webhooks"}
  /\ RoomInit
  /\ IF part = "admission" THEN AdmissionInit ELSE NoAdmission
  /\ IF part = "limits" THEN LimitsInit ELSE NoLimits
  /\ IF part = "consent" THEN ConsentInit ELSE NoConsent
  /\ IF part = "moderation" THEN ModerationInit ELSE NoModeration
  /\ IF part = "threats" THEN ThreatsInit ELSE NoThreats
  /\ IF part = "shedding" THEN SheddingInit ELSE NoShedding
  /\ IF part = "retention" THEN RetentionInit ELSE NoRetention
  /\ IF part = "registry" THEN Init ELSE NoRegistry
  /\ IF part = "snapshots" THEN SnapshotsInit ELSE NoSnapshots
  /\ IF part = "replay" THEN ReplayInit ELSE NoReplay
  /\ IF part = "webhooks" THEN WebhooksInit ELSE NoWebhooks

GuardsNext ==
  /\ UNCHANGED part
  /\ \/ /\ part = "admission" /\ AdmissionNext
        /\ UNCHANGED <<limitsVars, stores, onRoom, roomVars>>
     \/ /\ part = "limits" /\ LimitsNext
        /\ UNCHANGED <<admissionVars, stores, onRoom, roomVars>>
     \/ /\ part = "consent" /\ ConsentNext
        /\ UNCHANGED <<gates, stores, moderationVars, threatsVars, sheddingVars>>
     \/ /\ part = "moderation" /\ ModerationNext
        /\ UNCHANGED <<gates, stores, consentVars, threatsVars, sheddingVars>>
     \/ /\ part = "threats" /\ ThreatsNext
        /\ UNCHANGED <<gates, stores, consentVars, moderationVars, sheddingVars>>
     \/ /\ part = "shedding" /\ SheddingNext
        /\ UNCHANGED <<gates, stores, consentVars, moderationVars, threatsVars>>
     \/ /\ part = "retention" /\ RetentionNext
        /\ UNCHANGED <<gates, vars, snapshotsVars, replayVars, webhooksVars, onRoom, roomVars>>
     \/ /\ part = "registry" /\ Next
        /\ UNCHANGED <<gates, retentionVars, snapshotsVars, replayVars, webhooksVars, onRoom, roomVars>>
     \/ /\ part = "snapshots" /\ SnapshotsNext
        /\ UNCHANGED <<gates, retentionVars, vars, replayVars, webhooksVars, onRoom, roomVars>>
     \/ /\ part = "replay" /\ ReplayNext
        /\ UNCHANGED <<gates, retentionVars, vars, snapshotsVars, webhooksVars, onRoom, roomVars>>
     \/ /\ part = "webhooks" /\ WebhooksNext
        /\ UNCHANGED <<gates, retentionVars, vars, snapshotsVars, replayVars, onRoom, roomVars>>

GuardsSpec == GuardsInit /\ [][GuardsNext]_<<part, gates, stores, onRoom, roomVars>>

-----------------------------------------------------------------------------
(* What each part's module claims, of the behaviours of that part.          *)

(* Every attached part has looked at whoever is admitted (AdmissionHolds).  *)
AdmissionSafe == part = "admission" => AdmissionHolds

(* Fixed windows let twice the limit through and no more, and bans are      *)
(* earned (LimitsHold).                                                     *)
LimitsSafe == part = "limits" => LimitsHold

(* A member that lacked a required consent when its time was over had       *)
(* granted something (ConsentHolds).                                        *)
ConsentSafe == part = "consent" => ConsentHolds

(* Clients know of mutes and the lock, and a lock lets in only those who    *)
(* were asking before (ModerationHolds).                                    *)
ModerationSafe == part = "moderation" => ModerationHolds

(* The sweep finds all that is kept of peers, and members are counted       *)
(* (ThreatsHold).                                                           *)
ThreatsSafe == part = "threats" => ThreatsHold

(* Shedding lowers the count it looks at by nothing, and takes the same     *)
(* connections again (SheddingHolds).                                       *)
SheddingSafe == part = "shedding" => SheddingHolds

(* Data of a subject under a hold is destroyed only where the hold came too *)
(* late (RetentionHolds).                                                   *)
RetentionSafe == part = "retention" => RetentionHolds

(* The shared hash keeps no ghosts and the bus tells the members, but by a  *)
(* rejected command of the peer's own (RegistryHolds).                      *)
RegistrySafe == part = "registry" => RegistryHolds

(* What a restart restores is the room there was, unless a command was      *)
(* rejected since, and an event told what Redis keeps (SnapshotsHold).      *)
SnapshotsSafe == part = "snapshots" => SnapshotsHold

(* The log repeats nothing and misses nothing, but after a load on top of   *)
(* what was recorded (ReplayHolds).                                         *)
ReplaySafe == part = "replay" => ReplayHolds

(* What was given up is in the dead letters until others push it out        *)
(* (WebhooksHold).                                                          *)
WebhooksSafe == part = "webhooks" => WebhooksHold

-----------------------------------------------------------------------------
(* Peers are interchangeable, and so are the other things of which there    *)
(* are three, those that ask to join, events and their hashes; and so are   *)
(* both of the things there are two of.  As no part has both kinds, one     *)
(* group serves all: an odd permutation of the three swaps all the pairs.   *)
SwapIn(pair) == [x \in pair |-> CHOOSE y \in pair : y # x]

IsOdd(p) == Cardinality({x \in DOMAIN p : p[x] = x}) = 1

Symmetry ==
  {IF IsOdd(p)
     THEN p @@ SwapIn(Ids) @@ SwapIn(Clients) @@ SwapIn(Procs) @@ SwapIn(Meta)
     ELSE p : p \in Permutations(Peers)}
=============================================================================
