------------------------------- MODULE Layers --------------------------------
(***************************************************************************)
(* sfu/AdaptiveBitrateController.js: the quality score of one consumer and *)
(* the simulcast layer chosen for it.  Consumers share the marks of their  *)
(* producer and nothing else.  Scores are in hundredths: the rounding of   *)
(* binary fractions is left out.                                           *)
(***************************************************************************)
EXTENDS Naturals

CONSTANTS
  Counts,     \* counts of lost packets a message reports
  Starts,     \* initial scores, by device: 90, 55 and 75
  Reports     \* scores computed from reports of the browser

ASSUME ScoreAssumption == Counts \subseteq Nat /\ Starts \cup Reports \subseteq 0..100

VARIABLES
  tracked,    \* the consumer is in _subscribers
  score, layer,
  hold,       \* upgradeEligibleAt: not set, ahead, or reached
  idle,       \* no feedback for three seconds
  speaking, sharing,   \* the producer is in _activeSpeakers, _screenShares
  steered,    \* history: the layer or a mark was set since the last evaluation
  recent,     \* history: an evaluation upgraded less than a hold ago
  hasty       \* history: one upgraded while recent

marks == <<speaking, sharing>>
layersVars == <<tracked, score, layer, hold, idle, marks, steered, recent, hasty>>

Rank == [l \in {"low", "mid", "high"} |->
           CASE l = "low" -> 0 [] l = "mid" -> 1 [] l = "high" -> 2]

LayersTypeOK ==
  /\ {tracked, idle, speaking, sharing, steered, recent, hasty} \subseteq BOOLEAN
  /\ score \in 0..100
  /\ layer \in DOMAIN Rank
  /\ hold \in {"none", "ahead", "reached"}

(* _scoreToLayer *)
LayerOf(s) == CASE s >= 80 -> "high" [] s \in 50..79 -> "mid" [] s < 50 -> "low"

LayersInit ==
  /\ tracked = FALSE
  /\ score = 0 /\ layer = "low" /\ hold = "none"
  /\ idle = FALSE /\ speaking = FALSE /\ sharing = FALSE
  /\ steered = FALSE /\ recent = FALSE /\ hasty = FALSE

(* _applyProtections: who speaks or shares the screen does not fall to low. *)
Target(s) == IF LayerOf(s) = "low" /\ (speaking \/ sharing) THEN "mid" ELSE LayerOf(s)

-----------------------------------------------------------------------------
(* _evaluateLayer, of the score s *)
Keep == UNCHANGED <<layer, recent, hasty>>

UpgradeKeepsHold(s) ==
  \/ hold = "none" /\ hold' = "ahead" /\ Keep
  \/ hold = "ahead" /\ UNCHANGED hold /\ Keep
  \/ hold = "reached" /\ layer' = Target(s) /\ recent' = TRUE
     /\ hasty' = (hasty \/ recent) /\ UNCHANGED hold

Upgrade(s) ==
  \/ hold = "none" /\ hold' = "ahead" /\ Keep
  \/ hold = "ahead" /\ UNCHANGED hold /\ Keep
  \/ /\ hold = "reached" /\ hold' = "none"
     /\ layer' = Target(s)
     /\ recent' = TRUE /\ hasty' = (hasty \/ recent)

(* A score that falls back to the layer leaves the hold as it is. *)
Evaluate(s) ==
  /\ steered' = FALSE
  /\ \/ Target(s) = layer /\ UNCHANGED hold /\ Keep
     \/ Rank[Target(s)] > Rank[layer] /\ Upgrade(s)
     \/ /\ Rank[Target(s)] < Rank[layer]
        /\ layer' = Target(s) /\ hold' = "none"
        /\ UNCHANGED <<recent, hasty>>

Less(s, n) == IF s > n THEN s - n ELSE 0
More(s, n) == IF s + n < 100 THEN s + n ELSE 100

(* _adjustScore, of a message: pli and nack with a count, remb with a high  *)
(* bitrate, a low one or none, good.                                        *)
Adjusted ==
  {Less(score, n * c) : n \in {5, 15}, c \in Counts}
    \cup {More(score, n) : n \in {0, 3, 6}}

Receive(scores) ==
  /\ tracked
  /\ \E s \in scores : score' = s /\ Evaluate(s)
  /\ idle' = FALSE
  /\ UNCHANGED <<tracked, marks>>

(* _handleFeedback *)
Feedback == Receive(Adjusted)

(* _handleStatsReport sets the score instead. *)
StatsReport == Receive(Reports)

(* _decayAll: a score that is full is not evaluated. *)
Decay ==
  /\ tracked /\ idle /\ score < 100
  /\ score' = More(score, 2)
  /\ Evaluate(More(score, 2))
  /\ UNCHANGED <<tracked, idle, marks>>

TimePasses ==
  /\ tracked
  /\ hold' \in IF hold = "ahead" THEN {"ahead", "reached"} ELSE {hold}
  /\ idle' = TRUE /\ recent' = FALSE
  /\ UNCHANGED <<tracked, score, layer, marks, steered, hasty>>

-----------------------------------------------------------------------------
(* _registerSubscriber at consumer:created; consumer:closed *)
Track ==
  /\ ~tracked /\ tracked' = TRUE
  /\ \E s \in Starts : score' = s /\ layer' = LayerOf(s)
  /\ hold' = "none" /\ idle' = FALSE
  /\ recent' = FALSE /\ steered' = TRUE
  /\ UNCHANGED <<marks, hasty>>

Forget ==
  /\ tracked /\ tracked' = FALSE
  /\ UNCHANGED <<score, layer, hold, idle, marks, steered, recent, hasty>>

Steer(to) ==
  /\ layer' = IF tracked THEN to ELSE layer
  /\ steered' = TRUE
  /\ UNCHANGED <<tracked, score, hold, idle, recent, hasty>>

(* setActiveSpeaker: to high at once *)
SetSpeaker == speaking' = TRUE /\ Steer("high") /\ UNCHANGED sharing
ClearSpeaker == speaking /\ speaking' = FALSE /\ Steer(layer) /\ UNCHANGED sharing
MarkShare == ~sharing /\ sharing' = TRUE /\ Steer(layer) /\ UNCHANGED speaking

ForceLayer == tracked /\ \E l \in DOMAIN Rank : Steer(l) /\ UNCHANGED marks

LayersNext ==
  \/ Track \/ Forget \/ Feedback \/ StatsReport \/ Decay \/ TimePasses
  \/ SetSpeaker \/ ClearSpeaker \/ MarkShare \/ ForceLayer

LayersSpec == LayersInit /\ [][LayersNext]_layersVars

-----------------------------------------------------------------------------
(* After an evaluation, and until someone sets a layer or a mark, the layer *)
(* is what score and protections ask for; it lags behind only upwards, with *)
(* a hold under way, whatever holds earlier scores have left there.         *)
LayerFollows ==
  tracked /\ ~steered =>
    \/ layer = Target(score)
    \/ Rank[layer] < Rank[Target(score)] /\ hold # "none"

(* Two upgrades of one consumer by its score are never closer than a hold,  *)
(* however the score moves between them: a hold that a fallen score left    *)
(* running lets an upgrade come early, but only one (_evaluateLayer).       *)
UpgradesApart == ~hasty

LayersHold == LayersTypeOK /\ LayerFollows /\ UpgradesApart
=============================================================================
