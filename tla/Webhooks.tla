------------------------------ MODULE Webhooks -------------------------------
(***************************************************************************)
(* webhooks/WebhookDispatcher.js: the deliveries to one endpoint, their    *)
(* retries, and the queue of those given up, in memory or in a Redis list. *)
(* Deliveries of several events and endpoints share nothing but the queue. *)
(***************************************************************************)
EXTENDS Naturals, FiniteSets, SequencesExt

CONSTANTS
  Events,     \* events dispatched; bounds a behaviour
  Retries,    \* Len(RETRY_DELAYS_MS)
  MaxDead     \* bounds dlq.maxSize

ASSUME WebhooksAssumption == Retries \in Nat /\ MaxDead \in Nat

VARIABLES
  course,      \* of each delivery
  attempt,    \* its index
  answering,  \* deliveries whose request the endpoint has
  straying,   \* requests given up that may still arrive
  handled,    \* how often the endpoint got the event
  inRedis,    \* options.dlq.redis: fixed
  maxSize,    \* options.dlq.maxSize: fixed
  dlq,        \* newest last
  pushing, trimming,   \* entries _writeToDlq awaits lPush or lTrim for
  newer,      \* history: of each entry, those that came into dlq behind it
  lost        \* history: entries cleared, or whose lPush failed

queue == <<dlq, pushing, trimming, newer, lost>>
options == <<inRedis, maxSize>>
webhooksVars == <<course, attempt, answering, straying, handled, options, queue>>

WebhooksTypeOK ==
  /\ course \in [Events -> {"unsent", "posting", "waiting", "delivered", "dead", "cut"}]
  /\ attempt \in [Events -> 0..Retries]
  /\ straying \in [Events -> 0..Retries + 1] /\ handled \in [Events -> 0..Retries + 1]
  /\ inRedis \in BOOLEAN /\ maxSize \in 0..MaxDead /\ dlq \in Seq(Events)
  /\ answering \cup pushing \cup trimming \cup lost \subseteq Events
  /\ newer \in [Events -> SUBSET Events]

WebhooksInit ==
  /\ course = [e \in Events |-> "unsent"]
  /\ attempt = [e \in Events |-> 0]
  /\ straying = attempt /\ handled = attempt
  /\ inRedis \in BOOLEAN /\ maxSize \in 0..MaxDead
  /\ dlq = <<>>
  /\ answering = {} /\ pushing = {} /\ trimming = {} /\ lost = {}
  /\ newer = [e \in Events |-> {}]

Goes(e, to) == course' = [course EXCEPT ![e] = to]

-----------------------------------------------------------------------------
(* _dispatch and the first _post *)
Dispatch(e) ==
  /\ course[e] = "unsent" /\ Goes(e, "posting")
  /\ UNCHANGED <<attempt, answering, straying, handled, options, queue>>

Arrives(e) ==
  /\ course[e] = "posting" /\ e \notin answering
  /\ answering' = answering \cup {e}
  /\ handled' = [handled EXCEPT ![e] = @ + 1]
  /\ UNCHANGED <<course, attempt, straying, options, queue>>

Strays(e) ==
  /\ straying[e] > 0
  /\ straying' = [straying EXCEPT ![e] = @ - 1]
  /\ handled' = [handled EXCEPT ![e] = @ + 1]
  /\ UNCHANGED <<course, attempt, answering, options, queue>>

(* A response is cut off: neither end nor error comes. *)
IsCut(e) ==
  /\ course[e] = "posting" /\ e \in answering
  /\ Goes(e, "cut")
  /\ answering' = answering \ {e}
  /\ UNCHANGED <<attempt, straying, handled, options, queue>>

Behind(e) == newer' = [d \in Events |-> IF d \in ToSet(dlq) THEN newer[d] \cup {e} ELSE newer[d]]

BuryFull(e) ==
  /\ IF inRedis
       THEN pushing' = pushing \cup {e} /\ UNCHANGED <<dlq, newer>>
       ELSE /\ dlq' = IF Len(dlq) + 1 >= maxSize THEN Tail(Append(dlq, e)) ELSE Append(dlq, e)
            /\ Behind(e) /\ UNCHANGED pushing
  /\ UNCHANGED <<trimming, lost>>

(* _writeToDlq: a ring in memory, or the first of two commands *)
Bury(e) ==
  /\ IF inRedis
       THEN pushing' = pushing \cup {e} /\ UNCHANGED <<dlq, newer>>
       ELSE /\ dlq' = IF Len(dlq) + 1 > maxSize THEN Tail(Append(dlq, e)) ELSE Append(dlq, e)
            /\ Behind(e) /\ UNCHANGED pushing
  /\ UNCHANGED <<trimming, lost>>

(* The .catch of an attempt: a retry later, or the end. *)
Fails(e) ==
  IF attempt[e] < Retries
    THEN Goes(e, "waiting") /\ UNCHANGED queue
    ELSE Goes(e, "dead") /\ Bury(e)

(* Another status, an error or the timeout *)
Refused(e) ==
  /\ course[e] = "posting" /\ Fails(e)
  /\ answering' = answering \ {e}
  /\ IF e \in answering THEN UNCHANGED straying
     ELSE straying' = straying \/ straying' = [straying EXCEPT ![e] = @ + 1]
  /\ UNCHANGED <<attempt, handled, options>>

(* A 2xx response ends; a listener of delivery:success that throws lands in *)
(* the same .catch. *)
Succeeds(e) ==
  /\ course[e] = "posting" /\ e \in answering
  /\ answering' = answering \ {e}
  /\ \/ Goes(e, "delivered") /\ UNCHANGED queue
     \/ Fails(e)
  /\ UNCHANGED <<attempt, straying, handled, options>>

Retry(e) ==
  /\ course[e] = "waiting" /\ Goes(e, "posting")
  /\ attempt' = [attempt EXCEPT ![e] = @ + 1]
  /\ UNCHANGED <<answering, straying, handled, options, queue>>

-----------------------------------------------------------------------------
(* lPush; when it fails the entry is gone *)
Push(e) ==
  /\ e \in pushing /\ pushing' = pushing \ {e}
  /\ \/ dlq' = Append(dlq, e) /\ Behind(e)
        /\ trimming' = trimming \cup {e} /\ UNCHANGED lost
     \/ lost' = lost \cup {e} /\ UNCHANGED <<dlq, newer, trimming>>
  /\ UNCHANGED <<course, attempt, answering, straying, handled, options>>

(* lTrim 0 maxSize - 1 keeps the newest, or fails; with 0 it keeps them all. *)
TrimLetters(e) ==
  /\ e \in trimming /\ trimming' = trimming \ {e}
  /\ \/ /\ maxSize > 0
        /\ dlq' = SubSeq(dlq, IF Len(dlq) > maxSize THEN Len(dlq) - maxSize + 1 ELSE 1, Len(dlq))
     \/ UNCHANGED dlq
  /\ UNCHANGED <<course, attempt, answering, straying, handled, options, pushing, newer, lost>>

(* clearDeadLetterQueue reaches the one in memory only. *)
ClearDlq ==
  /\ ~inRedis /\ dlq # <<>>
  /\ dlq' = <<>> /\ lost' = lost \cup ToSet(dlq)
  /\ UNCHANGED <<course, attempt, answering, straying, handled, options, pushing, trimming, newer>>

WebhooksNext ==
  \/ \E e \in Events :
       \/ Dispatch(e) \/ Arrives(e) \/ Strays(e) \/ Succeeds(e) \/ IsCut(e)
       \/ Refused(e) \/ Retry(e) \/ Push(e) \/ TrimLetters(e)
  \/ ClearDlq

WebhooksSpec == WebhooksInit /\ [][WebhooksNext]_webhooksVars

-----------------------------------------------------------------------------
(* maxSize entries came behind that of e; Redis drops none when it is 0.    *)
PushedOut(e) == Cardinality(newer[e]) >= maxSize /\ (inRedis => maxSize > 0)

(* A delivery given up is in the queue, once, until maxSize others have     *)
(* come behind it (with Redis too), it was cleared or Redis failed; one     *)
(* that ended as delivered never is, whatever its earlier attempts.  The    *)
(* endpoint gets an event no more often than it was tried and, when its     *)
(* delivery succeeded, at least once (_deliverWithRetry, _writeToDlq).      *)
WebhooksHold ==
  /\ WebhooksTypeOK
  /\ \A e \in Events :
       /\ e \in ToSet(dlq) => course[e] = "dead"
       /\ \A i, j \in DOMAIN dlq : dlq[i] = dlq[j] => i = j
       /\ course[e] = "dead" => e \in ToSet(dlq) \cup pushing \cup lost \/ PushedOut(e)
       /\ handled[e] + straying[e] <= attempt[e] + 1
       /\ course[e] = "delivered" => handled[e] > 0
=============================================================================
