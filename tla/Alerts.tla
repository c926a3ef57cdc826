-------------------------------- MODULE Alerts --------------------------------
(***************************************************************************)
(* reliability/HealthMonitor.js and observability/AlertManager.js: the     *)
(* monitor compares what the metrics say with its objectives and emits the *)
(* edges, slo:breach and slo:recovery; the manager turns them into alerts, *)
(* and so it does with what the orchestrator, the threat detector and the  *)
(* backpressure controller emit, but not with an event and context it has  *)
(* alerted within the suppression window.  The context of a breach holds   *)
(* the value that was read.  Objectives _extractValues has no value for    *)
(* take part in nothing.                                                   *)
(***************************************************************************)
EXTENDS Naturals, SequencesExt

CONSTANTS
  Slos,       \* the names of the objectives, in their order
  Bad,        \* values that miss the target
  Others,     \* contexts of the other sources: a region, a threat, the load
  MaxQueue    \* options.maxQueueSize

Names == ToSet(Slos)
Topics == Names \cup Others

ASSUME AlertsAssumption ==
  /\ MaxQueue \in Nat \ {0}
  /\ Slos \in Seq(Names) /\ Names \cap Others = {}

OK == "ok"    \* a value that meets the target

VARIABLES
  reading,    \* what the metrics say of each objective
  breached,   \* objectives whose entry in _breached is true, and what the
              \* other sources have found and not taken back
  recently,   \* keys in _lastAlerted, younger than the suppression window
  alerts,     \* _queue, the oldest first
  reported,   \* history: the last alert about each topic
  hushed      \* history: topics whose last change for the worse was suppressed

alertsVars == <<reading, breached, recently, alerts, reported, hushed>>

AlertsTypeOK ==
  /\ reading \in [Names -> Bad \cup {OK}]
  /\ breached \subseteq Topics /\ hushed \subseteq breached
  /\ recently \subseteq Topics \X (Bad \cup {OK})
  /\ alerts \in Seq([topic : Topics, worse : BOOLEAN]) /\ Len(alerts) <= MaxQueue
  /\ reported \in [Topics -> {"nothing", "breach", "recovery"}]

AlertsInit ==
  /\ reading = [s \in Names |-> OK]
  /\ breached = {} /\ recently = {} /\ alerts = <<>>
  /\ reported = [t \in Topics |-> "nothing"] /\ hushed = {}

-----------------------------------------------------------------------------
(* what the context says besides the topic *)
Value(t) == IF t \in Names THEN reading[t] ELSE OK

Suppressed(t) == <<t, Value(t)>> \in recently

(* A queue that is full loses its oldest alert to each that comes.          *)
Newest(queue) ==
  SubSeq(queue, IF Len(queue) > MaxQueue THEN Len(queue) - MaxQueue + 1 ELSE 1, Len(queue))

InOrder(topics) ==
  \A i, j \in DOMAIN topics : i < j =>
    \E a, b \in DOMAIN Slos : a < b /\ Slos[a] = topics[i] /\ Slos[b] = topics[j]

(* alert() of all these topics, one objective after the other: what gets    *)
(* better is never suppressed.                                              *)
Tell(worse, better) ==
  LET new == worse \ {t \in worse : Suppressed(t)}
      told == new \cup better
  IN /\ \E out \in [1..Cardinality(told) -> told] :
          /\ ToSet(out) = told /\ InOrder(out)
          /\ alerts' = Newest(alerts \o [i \in DOMAIN out |->
                                           [topic |-> out[i], worse |-> out[i] \in new]])
     /\ recently' = recently \cup {<<t, Value(t)>> : t \in new}
     /\ reported' = [t \in Topics |-> IF t \in new THEN "breach"
                                  ELSE IF t \in better THEN "recovery" ELSE reported[t]]
     /\ hushed' = (hushed \ (new \cup better))
                    \cup {t \in worse \ new : reported[t] # "breach"}

Missed == {s \in Names : reading[s] # OK}

EvaluateForgets ==
  /\ Tell(Missed \ breached, (breached \cap Names) \ Missed)
  /\ breached' = breached \cup Missed
  /\ UNCHANGED reading

(* _evaluateSLOs, by the interval and by report(): both emit the edges. *)
EvaluateSLOs ==
  /\ Tell(Missed \ breached, (breached \cap Names) \ Missed)
  /\ breached' = (breached \ Names) \cup Missed
  /\ UNCHANGED reading

Measure ==
  /\ \E s \in Names, v \in Bad \cup {OK} : reading' = [reading EXCEPT ![s] = v]
  /\ UNCHANGED <<breached, recently, alerts, reported, hushed>>

(* sfu:down, failover, threat, load:critical *)
OtherWorse(o) ==
  /\ Tell({o}, {})
  /\ breached' = breached \cup {o}
  /\ UNCHANGED reading

(* sfu:healthy, load:normal, whether or not it was worse *)
OtherBetter(o) ==
  /\ Tell({}, {o})
  /\ breached' = breached \ {o}
  /\ UNCHANGED reading

WindowEnds ==
  /\ \E k \in recently : recently' = recently \ {k}
  /\ UNCHANGED <<reading, breached, alerts, reported, hushed>>

ClearSuppression ==
  /\ recently' = {}
  /\ UNCHANGED <<reading, breached, alerts, reported, hushed>>

AlertsNext ==
  \/ EvaluateSLOs \/ Measure \/ WindowEnds \/ ClearSuppression
  \/ \E o \in Others : OtherWorse(o) \/ OtherBetter(o)

AlertsSpec == AlertsInit /\ [][AlertsNext]_alertsVars

-----------------------------------------------------------------------------
(* Whoever reads the alerts knows what stands: the last alert about a topic *)
(* says it is worse only while it is, and of one that is worse it says so   *)
(* unless that change was suppressed; no evaluation in between, by the      *)
(* interval or by report(), takes an edge away from the manager.            *)
AlertsTell ==
  \A t \in Topics :
    /\ reported[t] = "breach" => t \in breached
    /\ t \in breached \ hushed => reported[t] = "breach"

(* The newest alert of a topic in the queue is the last that was given.     *)
QueueTells ==
  \A i \in DOMAIN alerts :
    (\A j \in DOMAIN alerts : alerts[j].topic = alerts[i].topic => j <= i)
      => reported[alerts[i].topic] = IF alerts[i].worse THEN "breach" ELSE "recovery"

AlertsHold == AlertsTypeOK /\ AlertsTell /\ QueueTells
=============================================================================
