----------------------------- MODULE MediaProofs ------------------------------
(***************************************************************************)
(* Theorems about the parts of MCMedia, for any values of the constants.   *)
(***************************************************************************)
EXTENDS MCMedia, RoomLifeProofs, FiniteSetTheorems, SequenceTheorems, TLAPS

-----------------------------------------------------------------------------
(* The layers of one consumer. *)

(* The strengthening UpgradesApart needs: the hold behind an upgrade has to  *)
(* begin anew, so it is not reached while the upgrade is recent.             *)
HoldBeginsAnew == recent => hold # "reached"

LayersInv == LayersHold /\ HoldBeginsAnew

LEMMA Scores ==
  ASSUME NEW s \in 0..100, NEW n \in Nat
  PROVE  Less(s, n) \in 0..100 /\ More(s, n) \in 0..100
  BY DEF Less, More

LEMMA AdjustedScores ==
  ASSUME LayersTypeOK
  PROVE  Adjusted \subseteq 0..100
<1> SUFFICES ASSUME NEW s \in Adjusted PROVE s \in 0..100
  OBVIOUS
<1>1. CASE \E n \in {5, 15}, c \in Counts : s = Less(score, n * c)
  <2> PICK n \in {5, 15}, c \in Counts : s = Less(score, n * c)
    BY <1>1
  <2> n * c \in Nat
    BY ScoreAssumption
  <2> QED
    BY Scores DEF LayersTypeOK
<1>2. CASE \E n \in {0, 3, 6} : s = More(score, n)
  BY <1>2, Scores DEF LayersTypeOK
<1> QED
  BY <1>1, <1>2 DEF Adjusted

LEMMA RankIs ==
  DOMAIN Rank = {"low", "mid", "high"} /\ Rank["low"] = 0 /\ Rank["mid"] = 1 /\ Rank["high"] = 2
  BY DEF Rank

LEMMA LayerOfType ==
  ASSUME NEW s \in 0..100
  PROVE  LayerOf(s) \in DOMAIN Rank /\ Target(s) \in DOMAIN Rank
  BY RankIs DEF LayerOf, Target

(* An evaluation leaves the layer where score and protections ask for it, or *)
(* below with a hold under way.                                              *)
LEMMA EvaluateKeeps ==
  ASSUME LayersInv, NEW s \in 0..100, Evaluate(s), score' = s,
         UNCHANGED marks
  PROVE  /\ layer' \in DOMAIN Rank
         /\ hold' \in {"none", "ahead", "reached"}
         /\ steered' \in BOOLEAN /\ recent' \in BOOLEAN /\ hasty' \in BOOLEAN
         /\ LayerFollows' /\ UpgradesApart' /\ HoldBeginsAnew'
<1> DEFINE T == Target(s)
<1>1. T \in DOMAIN Rank
  BY LayerOfType
<1>2. Target(score)' = T
  BY DEF Target, LayerOf, marks
<1>3. /\ layer \in DOMAIN Rank /\ hold \in {"none", "ahead", "reached"}
      /\ recent \in BOOLEAN /\ hasty = FALSE /\ (recent => hold # "reached")
      /\ steered' = FALSE
  BY DEF LayersInv, LayersHold, LayersTypeOK, UpgradesApart, HoldBeginsAnew, Evaluate
<1>4. \/ T = layer /\ UNCHANGED hold /\ Keep
      \/ Rank[T] > Rank[layer] /\ Upgrade(s)
      \/ Rank[T] < Rank[layer] /\ layer' = T /\ hold' = "none" /\ UNCHANGED <<recent, hasty>>
  BY DEF Evaluate
<1> HIDE DEF T
<1>5. CASE T = layer /\ UNCHANGED hold /\ Keep
  BY <1>1, <1>2, <1>3, <1>5 DEF Keep, LayerFollows, UpgradesApart, HoldBeginsAnew
<1>6. CASE Rank[T] > Rank[layer] /\ Upgrade(s)
  <2>1. Upgrade(s) /\ Target(s) = T
    BY <1>6 DEF T
  <2>2. CASE hold = "reached" /\ hold' = "none" /\ layer' = T /\ recent' = TRUE
             /\ hasty' = (hasty \/ recent)
    BY <1>1, <1>2, <1>3, <2>2 DEF LayerFollows, UpgradesApart, HoldBeginsAnew
  <2>3. CASE hold # "reached" /\ hold' = "ahead" /\ Keep
    BY <1>1, <1>2, <1>3, <1>6, <2>3 DEF Keep, LayerFollows, UpgradesApart, HoldBeginsAnew
  <2> QED
    BY <2>1, <2>2, <2>3 DEF Upgrade
<1>7. CASE Rank[T] < Rank[layer] /\ layer' = T /\ hold' = "none" /\ UNCHANGED <<recent, hasty>>
  BY <1>1, <1>2, <1>3, <1>7 DEF LayerFollows, UpgradesApart, HoldBeginsAnew
<1> QED
  BY <1>4, <1>5, <1>6, <1>7

LEMMA LayersStep ==
  ASSUME LayersInv, LayersNext
  PROVE  LayersInv'
<1>1. /\ {tracked, idle, speaking, sharing, steered, recent, hasty} \subseteq BOOLEAN
      /\ score \in 0..100 /\ layer \in DOMAIN Rank /\ hold \in {"none", "ahead", "reached"}
  BY DEF LayersInv, LayersHold, LayersTypeOK
<1>2. LayersTypeOK
  BY DEF LayersInv, LayersHold
<1>3. ASSUME NEW S, S \subseteq 0..100, Receive(S) PROVE LayersInv'
  <2> PICK s \in S : score' = s /\ Evaluate(s)
    BY <1>3 DEF Receive
  <2>1. s \in 0..100 /\ UNCHANGED <<tracked, marks>> /\ idle' = FALSE
    BY <1>3 DEF Receive
  <2>2. /\ layer' \in DOMAIN Rank /\ hold' \in {"none", "ahead", "reached"}
        /\ steered' \in BOOLEAN /\ recent' \in BOOLEAN /\ hasty' \in BOOLEAN
        /\ LayerFollows' /\ UpgradesApart' /\ HoldBeginsAnew'
    BY <2>1, EvaluateKeeps
  <2>3. LayersTypeOK'
    BY <1>1, <2>1, <2>2 DEF LayersTypeOK, marks
  <2> QED
    BY <2>2, <2>3 DEF LayersInv, LayersHold
<1>4. CASE Feedback
  BY <1>2, <1>3, <1>4, AdjustedScores DEF Feedback
<1>5. CASE StatsReport
  BY <1>3, <1>5, ScoreAssumption DEF StatsReport
<1>6. CASE Decay
  <2> DEFINE s == More(score, 2)
  <2>1. s \in 0..100 /\ score' = s /\ Evaluate(s) /\ UNCHANGED <<tracked, idle, marks>>
    BY <1>1, <1>6, Scores DEF Decay
  <2> HIDE DEF s
  <2> QED
    BY <1>1, <2>1, EvaluateKeeps DEF LayersInv, LayersHold, LayersTypeOK, marks
<1>7. CASE TimePasses
  <2>1. /\ hold' \in {"none", "ahead", "reached"} /\ (hold # "none" => hold' # "none")
        /\ UNCHANGED <<tracked, score, layer, marks, steered, hasty>>
        /\ idle' = TRUE /\ recent' = FALSE
    BY <1>1, <1>7 DEF TimePasses
  <2>2. LayersTypeOK'
    BY <1>1, <2>1 DEF LayersTypeOK, marks
  <2>3. Target(score)' = Target(score)
    BY <2>1 DEF Target, LayerOf, marks
  <2>4. LayerFollows' /\ UpgradesApart' /\ HoldBeginsAnew'
    BY <2>1, <2>3 DEF LayersInv, LayersHold, LayerFollows, UpgradesApart, HoldBeginsAnew
  <2> QED
    BY <2>2, <2>4 DEF LayersInv, LayersHold
<1>8. CASE Track
  <2>1. PICK s \in Starts : score' = s /\ layer' = LayerOf(s)
    BY <1>8 DEF Track
  <2>2. score' \in 0..100 /\ layer' \in DOMAIN Rank
    BY <2>1, LayerOfType, ScoreAssumption
  <2> QED
    BY <1>1, <1>8, <2>2 DEF LayersInv, LayersHold, LayersTypeOK, LayerFollows,
       UpgradesApart, HoldBeginsAnew, Track, marks
<1>9. CASE Forget
  BY <1>1, <1>9 DEF LayersInv, LayersHold, LayersTypeOK, LayerFollows, UpgradesApart,
     HoldBeginsAnew, Forget, marks
<1>10. ASSUME NEW to \in DOMAIN Rank, Steer(to), speaking' \in BOOLEAN, sharing' \in BOOLEAN
       PROVE  LayersInv'
  <2>1. LayersTypeOK'
    BY <1>1, <1>10 DEF LayersTypeOK, Steer
  <2>2. LayerFollows' /\ UpgradesApart' /\ HoldBeginsAnew'
    BY <1>10 DEF LayersInv, LayersHold, LayerFollows, UpgradesApart, HoldBeginsAnew, Steer
  <2> QED
    BY <2>1, <2>2 DEF LayersInv, LayersHold
<1>11. CASE SetSpeaker \/ ClearSpeaker \/ MarkShare \/ ForceLayer
  BY <1>1, <1>10, <1>11, RankIs DEF SetSpeaker, ClearSpeaker, MarkShare, ForceLayer, marks
<1> QED
  BY <1>4, <1>5, <1>6, <1>7, <1>8, <1>9, <1>11 DEF LayersNext

(* The layer lags behind its score only upwards, with a hold under way, and  *)
(* no consumer is upgraded twice within a hold, for any thresholds reached   *)
(* by any reports (_evaluateLayer).                                          *)
THEOREM LayersAlwaysSafe == MediaSpec => []LayersSafe
<1> DEFINE Inv == part = "layers" => LayersInv
<1>1. MediaInit => Inv
  <2> SUFFICES ASSUME LayersInit PROVE LayersInv
    BY DEF MediaInit
  <2>1. LayersTypeOK
    <3>1. {tracked, idle, speaking, sharing, steered, recent, hasty} \subseteq BOOLEAN
      BY DEF LayersInit
    <3>2. score \in 0..100 /\ layer \in DOMAIN Rank /\ hold \in {"none", "ahead", "reached"}
      BY RankIs DEF LayersInit
    <3> QED
      BY <3>1, <3>2 DEF LayersTypeOK
  <2>2. LayerFollows
    BY DEF LayersInit, LayerFollows
  <2>3. UpgradesApart /\ HoldBeginsAnew
    BY DEF LayersInit, UpgradesApart, HoldBeginsAnew
  <2> QED
    BY <2>1, <2>2, <2>3 DEF LayersInv, LayersHold
<1>2. Inv /\ [MediaNext]_<<part, apart, onRoom, roomVars>> => Inv'
  <2> SUFFICES ASSUME Inv, [MediaNext]_<<part, apart, onRoom, roomVars>>, part' = "layers"
               PROVE  LayersInv'
    OBVIOUS
  <2>1. CASE LayersNext /\ part = "layers"
    BY <2>1, LayersStep
  <2>2. CASE part = "layers" /\ UNCHANGED layersVars
    BY <2>2 DEF layersVars, marks, LayersInv, LayersHold, LayersTypeOK, LayerFollows,
       UpgradesApart, HoldBeginsAnew, Target, LayerOf
  <2> QED
    BY <2>1, <2>2 DEF MediaNext, apart
<1>3. Inv => LayersSafe
  BY DEF LayersSafe, LayersInv
<1> QED
  BY <1>1, <1>2, <1>3, PTL DEF MediaSpec
-----------------------------------------------------------------------------
(* The region of the room. *)

(* The strengthening RoutesExplained needs: router and metadata agree also   *)
(* while there is no room, so that a room starts with what they agree on.    *)
RegionsAgree == ~early => meta = roomRegion

RoutingInv == RoutingHolds /\ RegionsAgree

LEMMA RoutingStep ==
  ASSUME RoutingInv, RoutingNext
  PROVE  RoutingInv'
<1> USE PlacesAssumption DEF Region, Selectable
<1> RoutingTypeOK /\ RoomTypeOK
  BY DEF RoutingInv, RoutingHolds, RoutingTypeOK
<1>1. ASSUME NEW p \in Peers, Look(p)
      PROVE  RoutingInv'
  <2>1. RoutingTypeOK'
    BY <1>1 DEF Look, RoutingTypeOK, RoomTypeOK, roomVars
  <2> QED
    BY <1>1, <2>1 DEF Look, roomVars, RoutingInv, RoutingHolds, RoutesExplained, RegionsAgree
<1>2. ASSUME NEW p \in Peers, Found(p)
      PROVE  RoutingInv'
  <2>1. RoutingTypeOK'
    BY <1>2 DEF Found, RoutingTypeOK, RoomTypeOK, roomVars
  <2>2. ASSUME NEW q \in Peers, status'[q] = "left", peerRegion'[q] # UNSET
        PROVE  q \in late'
    <3>1. CASE q = p
      BY <1>2, <2>2, <3>1 DEF Found, roomVars
    <3>2. CASE q # p
      BY <1>2, <2>2, <3>2 DEF Found, roomVars, RoutingTypeOK, RoutingInv, RoutingHolds,
         RoutesExplained
    <3> QED
      BY <3>1, <3>2
  <2> QED
    BY <1>2, <2>1, <2>2 DEF Found, roomVars, RoutingInv, RoutingHolds, RoutesExplained,
       RegionsAgree
<1>3. ASSUME NEW p \in Peers, RoutingEnter(p)
      PROVE  RoutingInv'
  <2>1. RoomTypeOK'
    BY <1>3, RoomTypeStep DEF RoutingEnter, RoomNext
  <2>2. RoutingTypeOK'
    BY <1>3, <2>1 DEF RoutingEnter, RoutingTypeOK
  <2>3. RegionsAgree'
    BY <1>3 DEF RoutingEnter, RoutingInv, RegionsAgree
  <2>4. ASSUME NEW q \in Peers, status'[q] = "left"
        PROVE  status[q] = "left"
    BY <1>3, <2>4 DEF RoutingEnter, Enter, Become, RoomTypeOK
  <2> QED
    BY <1>3, <2>2, <2>3, <2>4 DEF RoutingEnter, RoutingInv, RoutingHolds, RoutesExplained,
       RegionsAgree
<1>4. ASSUME NEW p \in Peers, RoutingExit(p)
      PROVE  RoutingInv'
  <2>1. RoomTypeOK'
    BY <1>4, RoomTypeStep DEF RoutingExit, RoomNext
  <2>2. RoutingTypeOK'
    BY <1>4, <2>1 DEF RoutingExit, RoutingTypeOK
  <2>3. RegionsAgree'
    BY <1>4 DEF RoutingExit, RoutingInv, RegionsAgree
  <2>4. ASSUME NEW q \in Peers, status'[q] = "left", peerRegion'[q] # UNSET
        PROVE  q \in late'
    <3>1. q # p
      BY <1>4, <2>4 DEF RoutingExit, RoutingTypeOK
    <3>2. status[q] = "left" /\ peerRegion[q] # UNSET
      BY <1>4, <2>4, <3>1 DEF RoutingExit, Exit, Become, RoomTypeOK, RoutingTypeOK
    <3> QED
      BY <1>4, <3>2 DEF RoutingExit, RoutingInv, RoutingHolds, RoutesExplained
  <2> QED
    BY <2>2, <2>3, <2>4 DEF RoutingInv, RoutingHolds, RoutesExplained, RegionsAgree
<1>5. CASE RoutingMake
  <2>1. RoomTypeOK'
    BY <1>5, RoomTypeStep DEF RoutingMake, RoomNext
  <2> QED
    BY <1>5, <2>1 DEF RoutingMake, Make, routingVars, RoutingInv, RoutingHolds, RoutingTypeOK,
       RoutesExplained, RegionsAgree
<1>6. CASE AssignRoom
  <2>1. RoutingTypeOK'
    BY <1>6 DEF AssignRoom, RoutingTypeOK, RoomTypeOK, roomVars
  <2>2. RegionsAgree'
    BY <1>6 DEF AssignRoom, RoomTypeOK, RegionsAgree
  <2> QED
    BY <1>6, <2>1, <2>2 DEF AssignRoom, roomVars, RoutingInv, RoutingHolds, RoutesExplained,
       RegionsAgree
<1> QED
  BY <1>1, <1>2, <1>3, <1>4, <1>5, <1>6 DEF RoutingNext

(* The router and the members of the room know the same region, unless it    *)
(* was assigned before there was a room, and only late lookups leave entries *)
(* behind, for any peers, regions and orders of answers (_routeRoom).        *)
THEOREM RoutingAlwaysSafe == MediaSpec => []RoutingSafe
<1> DEFINE Inv == part = "routing" => RoutingInv
<1>1. MediaInit => Inv
  <2> SUFFICES ASSUME RoutingInit PROVE RoutingInv
    BY DEF MediaInit
  <2> USE DEF Region
  <2>1. RoomTypeOK
    BY DEF RoutingInit, RoomInit, RoomTypeOK, Status, Inside
  <2> QED
    BY <2>1 DEF RoutingInit, RoomInit, RoutingInv, RoutingHolds, RoutingTypeOK,
       RoutesExplained, RegionsAgree
<1>2. Inv /\ [MediaNext]_<<part, apart, onRoom, roomVars>> => Inv'
  <2> SUFFICES ASSUME Inv, [MediaNext]_<<part, apart, onRoom, roomVars>>, part' = "routing"
               PROVE  RoutingInv'
    OBVIOUS
  <2>1. CASE RoutingNext /\ part = "routing"
    BY <2>1, RoutingStep
  <2>2. CASE part = "routing" /\ UNCHANGED <<routingVars, roomVars>>
    BY <2>2 DEF routingVars, roomVars, RoutingInv, RoutingHolds, RoutingTypeOK, RoomTypeOK,
       RoutesExplained, RegionsAgree
  <2> QED
    BY <2>1, <2>2 DEF MediaNext, onRoom
<1>3. Inv => RoutingSafe
  BY DEF RoutingSafe, RoutingInv
<1> QED
  BY <1>1, <1>2, <1>3, PTL DEF MediaSpec

-----------------------------------------------------------------------------
(* Routers and transports. *)

(* The routers asked for are still unknown to everybody, and no two requests *)
(* get the same one.                                                         *)
RequestsFresh ==
  /\ \A a \in making :
       /\ a.router <= requested /\ a.router # entry
       /\ \A p \in Peers : within[p] # a.router
  /\ \A a, b \in making : a.router = b.router => a = b
  /\ entry <= requested
  /\ \A p \in Peers : within[p] <= requested

(* A peer waits for one router at most, and is waiting while it does.        *)
WaitingForOne ==
  /\ \A a \in making : a.by # "room" => setup[a.by] = "router"
  /\ \A a, b \in making : a.by = b.by /\ a.by # "room" => a = b

(* Set-ups are under way for members and for those that left in the middle,  *)
(* and for nobody who has not come yet.                                      *)
SetupsExplained ==
  \A p \in Peers :
    /\ setup[p] \in InProgress => p \in RoomMembers \cup hurried
    /\ status[p] = "outside" => setup[p] = "none"

(* Transports are in open routers, and a ready member has some in its own as *)
(* long as that is open.                                                     *)
HeldInOpen ==
  /\ \A pair \in held : pair[2] \in open
  /\ \A p \in RoomMembers :
       setup[p] = "ready" /\ within[p] \in open => <<p, within[p]>> \in held

(* What both transports were made for is explained without the half made.   *)
HeldExplained ==
  /\ \A pair \in held : \/ pair[1] \in RoomMembers \cup hurried
                        \/ pair[2] \in overtaken
  /\ open \subseteq {entry} \cup overtaken

TransportsInv ==
  /\ TransportsTypeOK /\ HeldExplained
  /\ RequestsFresh /\ WaitingForOne /\ SetupsExplained /\ HeldInOpen

(* Those that ask for a router as a peer joins: the room's set-up, the       *)
(* peer's, both or neither, each once.                                       *)
LEMMA Handlers ==
  ASSUME NEW S, NEW x \in S, NEW y \in S,
         NEW first, NEW second, first = << >> \/ first = <<x>>, second = << >> \/ second = <<y>>
  PROVE  /\ first \o second \in Seq(S)
         /\ \A i \in 1..Len(first \o second) :
              \/ (first \o second)[i] = x
              \/ (first \o second)[i] = y /\ second = <<y>>
         /\ \A i, j \in 1..Len(first \o second) :
              (first \o second)[i] = (first \o second)[j] /\ (first \o second)[i] # x => i = j
<1>1. /\ << >> \in Seq(S) /\ Len(<< >>) = 0
      /\ <<x>> \in Seq(S) /\ Len(<<x>>) = 1 /\ <<x>>[1] = x
      /\ <<y>> \in Seq(S) /\ Len(<<y>>) = 1 /\ <<y>>[1] = y
  BY EmptySeq
<1>2. first \in Seq(S) /\ second \in Seq(S)
  BY <1>1
<1>3. Len(first) \in {0, 1} /\ Len(second) \in {0, 1}
  BY <1>1
<1>4. /\ first \o second \in Seq(S) /\ Len(first \o second) = Len(first) + Len(second)
      /\ \A i \in 1..Len(first) + Len(second) :
           (first \o second)[i] = IF i <= Len(first) THEN first[i] ELSE second[i - Len(first)]
  BY <1>2, ConcatProperties
<1>5. Len(first) = 1 => first[1] = x
  BY <1>1
<1>6. Len(second) = 1 => second = <<y>> /\ second[1] = y
  BY <1>1
<1> DEFINE hs == first \o second
<1> HIDE DEF hs
<1>7. ASSUME NEW i \in 1..Len(hs)
      PROVE  \/ i = 1 /\ hs[i] = x
             \/ i = Len(first) + 1 /\ hs[i] = y /\ second = <<y>>
  <2>1. hs = first \o second
    BY DEF hs
  <2>2. i \in 1..Len(first) + Len(second)
        /\ hs[i] = IF i <= Len(first) THEN first[i] ELSE second[i - Len(first)]
    BY <1>4, <2>1
  <2>3. CASE Len(first) = 0
    BY <1>3, <1>6, <2>2, <2>3
  <2>4. CASE Len(first) = 1 /\ i = 1
    BY <1>5, <2>2, <2>4
  <2>5. CASE Len(first) = 1 /\ i # 1
    <3>1. i = 2 /\ Len(second) = 1
      BY <1>3, <2>2, <2>5
    <3>2. ~(i <= Len(first)) /\ i - Len(first) = 1
      BY <2>5, <3>1
    <3> QED
      BY <1>6, <2>2, <2>5, <3>1, <3>2
  <2> QED
    BY <1>3, <2>3, <2>4, <2>5
<1> QED
  BY <1>4, <1>7 DEF hs

(* What a request adds: of each handler one request, with the next number.   *)
LEMMA Requested ==
  ASSUME TransportsTypeOK, NEW hs \in Seq(Peers \cup {"room"}), Request(hs)
  PROVE  /\ requested' \in 0..MaxRouters /\ requested <= requested'
         /\ making' \subseteq [by : Peers \cup {"room"}, router : Routers]
         /\ making \subseteq making'
         /\ \A a \in making' \ making :
              /\ requested < a.router /\ a.router <= requested'
              /\ \E i \in 1..Len(hs) : a.by = hs[i] /\ a.router = requested + i
<1> USE RoutersAssumption
<1>1. requested \in Nat /\ Len(hs) \in Nat /\ requested + Len(hs) <= MaxRouters
  BY DEF TransportsTypeOK, Request
<1>2. requested' = requested + Len(hs)
  BY DEF Request
<1> DEFINE Asked(i) == [by |-> hs[i], router |-> requested + i]
<1>3. making' = making \cup {Asked(i) : i \in 1..Len(hs)}
  BY DEF Request
<1>4. ASSUME NEW i \in 1..Len(hs)
      PROVE  /\ Asked(i) \in [by : Peers \cup {"room"}, router : Routers]
             /\ requested < requested + i /\ requested + i <= requested'
             /\ Asked(i).by = hs[i] /\ Asked(i).router = requested + i
  <2>1. hs[i] \in Peers \cup {"room"}
    OBVIOUS
  <2>2. requested + i \in 1..MaxRouters /\ requested < requested + i
        /\ requested + i <= requested'
    BY <1>1, <1>2
  <2> QED
    BY <2>1, <2>2 DEF Routers
<1> HIDE DEF Asked
<1> QED
  BY <1>1, <1>2, <1>3, <1>4 DEF TransportsTypeOK

(* A request by a peer is made where no other one waits for it.              *)
LEMMA RequestKeeps ==
  ASSUME TransportsInv, NEW hs \in Seq(Peers \cup {"room"}), Request(hs),
         entry' = entry,
         \A p \in Peers : within'[p] \in {within[p], entry, 0},
         \A i \in 1..Len(hs) :
           hs[i] # "room" => setup[hs[i]] = "none" /\ setup'[hs[i]] = "router",
         \A i, j \in 1..Len(hs) : hs[i] = hs[j] /\ hs[i] # "room" => i = j,
         \A p \in Peers : setup[p] = "router" => setup'[p] = "router"
  PROVE  RequestsFresh' /\ WaitingForOne'
<1> USE RoutersAssumption
<1>1. TransportsTypeOK
  BY DEF TransportsInv
<1>2. /\ requested' \in 0..MaxRouters /\ requested <= requested'
      /\ making' \subseteq [by : Peers \cup {"room"}, router : Routers]
      /\ \A a \in making' \ making :
           /\ requested < a.router /\ a.router <= requested'
           /\ \E i \in 1..Len(hs) : a.by = hs[i] /\ a.router = requested + i
  BY <1>1, Requested
<1>3. /\ requested \in Nat /\ entry \in Nat /\ entry <= requested
      /\ \A p \in Peers : within[p] \in Nat /\ within[p] <= requested
  BY <1>1 DEF TransportsTypeOK, Routers, TransportsInv, RequestsFresh
<1>4. \A a \in making' : a.by \in Peers \cup {"room"} /\ a.router \in Nat /\ a.router > 0
  BY <1>2 DEF Routers
<1>5. ASSUME NEW p \in Peers
      PROVE  within'[p] \in Nat /\ within'[p] <= requested
  BY <1>3
<1>6. ASSUME NEW a \in making'
      PROVE  a.router <= requested' /\ a.router # entry
             /\ \A p \in Peers : within'[p] # a.router
  <2>1. CASE a \in making
    <3>1. a.router <= requested /\ a.router # entry /\ \A p \in Peers : within[p] # a.router
      BY <2>1 DEF TransportsInv, RequestsFresh
    <3> QED
      BY <1>2, <1>3, <1>4, <3>1
  <2>2. CASE a \notin making
    BY <1>2, <1>3, <1>4, <1>5, <2>2
  <2> QED
    BY <2>1, <2>2
<1>7. ASSUME NEW a \in making', NEW b \in making', a.router = b.router
      PROVE  a = b
  <2>1. a \in [by : Peers \cup {"room"}, router : Routers]
        /\ b \in [by : Peers \cup {"room"}, router : Routers]
    BY <1>2
  <2>2. CASE a \in making /\ b \in making
    BY <1>7, <2>2 DEF TransportsInv, RequestsFresh
  <2>3. ASSUME NEW c \in making, NEW d \in making' \ making, c.router = d.router
        PROVE  FALSE
    <3>1. c.router <= requested /\ requested < d.router
      BY <1>2 DEF TransportsInv, RequestsFresh
    <3>2. c \in making' /\ d \in making'
      BY DEF Request
    <3> QED
      BY <1>3, <1>4, <2>3, <3>1, <3>2
  <2>4. CASE a \notin making /\ b \notin making
    <3> PICK i \in 1..Len(hs) : a.by = hs[i] /\ a.router = requested + i
      BY <1>2, <2>4
    <3> PICK j \in 1..Len(hs) : b.by = hs[j] /\ b.router = requested + j
      BY <1>2, <2>4
    <3>1. i = j
      BY <1>3, <1>7
    <3> QED
      BY <1>7, <2>1, <3>1
  <2> QED
    BY <1>7, <2>2, <2>3, <2>4
<1>8. RequestsFresh'
  <2>1. \A p \in Peers : within'[p] <= requested'
    BY <1>2, <1>3, <1>5
  <2>2. entry' <= requested'
    BY <1>2, <1>3
  <2> QED
    BY <1>6, <1>7, <2>1, <2>2 DEF RequestsFresh
<1>9. ASSUME NEW a \in making', a.by # "room"
      PROVE  /\ setup'[a.by] = "router"
             /\ a \in making => setup[a.by] = "router"
             /\ a \notin making => setup[a.by] = "none"
  <2>1. a.by \in Peers
    BY <1>4, <1>9
  <2> QED
    BY <1>2, <1>9, <2>1 DEF TransportsInv, WaitingForOne
<1>10. ASSUME NEW a \in making', NEW b \in making', a.by = b.by, a.by # "room"
       PROVE  a = b
  <2>1. CASE a \in making /\ b \in making
    BY <1>10, <2>1 DEF TransportsInv, WaitingForOne
  <2>2. CASE a \notin making /\ b \notin making
    <3> PICK i \in 1..Len(hs) : a.by = hs[i] /\ a.router = requested + i
      BY <1>2, <2>2
    <3> PICK j \in 1..Len(hs) : b.by = hs[j] /\ b.router = requested + j
      BY <1>2, <2>2
    <3>1. hs[i] = hs[j] /\ hs[i] # "room"
      BY <1>10
    <3>2. i = j
      BY <3>1
    <3> QED
      BY <1>7, <3>2
  <2> QED
    BY <1>9, <1>10, <2>1, <2>2
<1> QED
  BY <1>8, <1>9, <1>10 DEF WaitingForOne

(* Closing a router, or a peer's transports in one, leaves what is open and  *)
(* held explained; of those who remain members nothing else changes.         *)
LEMMA ClosingKeeps ==
  ASSUME TransportsInv, RoomTypeOK',
         \A q \in Peers : status'[q] # status[q] => status'[q] = "left",
         open' \subseteq open, entry' \in {entry, 0}, open' \subseteq {entry'} \cup overtaken,
         held' \subseteq held,
         \A pair \in held : pair[2] \in open' /\ pair[1] \in RoomMembers' => pair \in held',
         \A pair \in held' : pair[2] \in open',
         UNCHANGED <<makesRouter, requested, making, setup, within, overtaken>>,
         hurried \subseteq hurried', hurried' \subseteq Peers,
         \A p \in RoomMembers \ RoomMembers' :
           /\ setup[p] \in InProgress => p \in hurried'
           /\ <<p, entry>> \notin held'
  PROVE  TransportsInv'
<1>1. TransportsTypeOK
  BY DEF TransportsInv
<1>2. TransportsTypeOK'
  BY <1>1 DEF TransportsTypeOK
<1>3. RoomMembers' \subseteq RoomMembers
  BY <1>1 DEF RoomMembers, Inside, TransportsTypeOK
<1>4. ASSUME NEW pair \in held'
      PROVE  pair[1] \in RoomMembers' \cup hurried' \/ pair[2] \in overtaken
  <2>1. pair \in held /\ pair[2] \in open /\ pair \in Peers \X Routers
    BY <1>1 DEF TransportsTypeOK, TransportsInv, HeldInOpen
  <2>2. pair[1] \in RoomMembers \cup hurried \/ pair[2] \in overtaken
    BY <2>1 DEF TransportsInv, HeldExplained
  <2>3. CASE pair[1] \in RoomMembers \ RoomMembers' /\ pair[2] \notin overtaken
    <3>1. pair[2] = entry
      BY <2>1, <2>3 DEF TransportsInv, HeldExplained
    <3>2. pair = <<pair[1], entry>>
      BY <2>1, <3>1
    <3> QED
      BY <2>3, <3>2
  <2> QED
    BY <2>2, <2>3
<1>5. HeldExplained'
  BY <1>4 DEF HeldExplained
<1>6. RequestsFresh'
  <2>1. 0 <= requested /\ \A a \in making : a.router # 0
    BY <1>1 DEF TransportsTypeOK, Routers
  <2> QED
    BY <2>1 DEF TransportsInv, RequestsFresh
<1>7. WaitingForOne'
  BY DEF TransportsInv, WaitingForOne
<1>8. SetupsExplained'
  BY DEF TransportsInv, SetupsExplained
<1>9. HeldInOpen'
  <2> SUFFICES ASSUME NEW p \in RoomMembers', setup[p] = "ready", within[p] \in open'
               PROVE  <<p, within[p]>> \in held'
    BY DEF HeldInOpen
  <2>1. <<p, within[p]>> \in held
    BY <1>3 DEF TransportsInv, HeldInOpen
  <2> QED
    BY <2>1
<1> QED
  BY <1>2, <1>5, <1>6, <1>7, <1>8, <1>9 DEF TransportsInv

LEMMA EnterKeeps ==
  ASSUME TransportsInv, NEW p \in Peers, TransportsEnter(p)
  PROVE  TransportsInv'
<1> DEFINE first == IF alive THEN << >> ELSE ForRoom
           second == IF makesRouter /\ entry = 0 THEN <<p>> ELSE << >>
           hs == first \o second
           stage == IF entry # 0 THEN "transports" ELSE IF makesRouter THEN "router" ELSE "failed"
<1>1. TransportsTypeOK /\ RoomTypeOK
  BY DEF TransportsInv, TransportsTypeOK
<1>2. /\ Enter(p) /\ Request(hs) /\ At(p, stage, entry)
      /\ UNCHANGED <<makesRouter, open, entry, held, overtaken, hurried>>
  BY DEF TransportsEnter
<1>3. RoomTypeOK'
  BY <1>1, <1>2, RoomTypeStep DEF RoomNext
<1>4. /\ p \notin RoomMembers /\ RoomMembers' = RoomMembers \cup {p} /\ setup[p] = "none"
      /\ \A q \in Peers : status'[q] = "outside" => status[q] = "outside" /\ q # p
  BY <1>1, <1>2 DEF Enter, Become, RoomMembers, Inside, RoomTypeOK, TransportsInv,
     SetupsExplained
<1>5. \A q \in Peers : /\ setup'[q] = IF q = p THEN stage ELSE setup[q]
                       /\ within'[q] = IF q = p THEN entry ELSE within[q]
  BY <1>1, <1>2 DEF At, TransportsTypeOK
<1>6. first \in {<< >>, <<"room">>} /\ second \in {<< >>, <<p>>}
      /\ (second = <<p>> => stage = "router")
  BY DEF ForRoom
<1>7. setup' \in [Peers -> InProgress \cup {"none", "ready", "half", "failed"}]
      /\ within' \in [Peers -> Routers \cup {0}] /\ stage \notin {"ready", "none"}
  BY <1>1, <1>2 DEF At, TransportsTypeOK, InProgress
<1>8. /\ hs \in Seq(Peers \cup {"room"})
      /\ \A i \in 1..Len(hs) : hs[i] # "room" => hs[i] = p /\ stage = "router"
      /\ \A i, j \in 1..Len(hs) : hs[i] = hs[j] /\ hs[i] # "room" => i = j
  <2> DEFINE S == Peers \cup {"room"}
             x == "room"
  <2>1. x \in S /\ p \in S 
        /\ (first = << >> \/ first = <<x>>) /\ (second = << >> \/ second = <<p>>)
    BY <1>6
  <2>2. x = "room" /\ S = Peers \cup {"room"}
    OBVIOUS
  <2> HIDE DEF first, second, S, x
  <2>3. /\ first \o second \in Seq(S)
        /\ \A i \in 1..Len(first \o second) :
             \/ (first \o second)[i] = x
             \/ (first \o second)[i] = p /\ second = <<p>>
        /\ \A i, j \in 1..Len(first \o second) :
             (first \o second)[i] = (first \o second)[j] /\ (first \o second)[i] # x => i = j
    BY <2>1, Handlers
  <2> QED
    BY <1>6, <2>2, <2>3
<1> HIDE DEF hs, stage
<1>9. RequestsFresh' /\ WaitingForOne'
  <2>1. \A i \in 1..Len(hs) :
          hs[i] # "room" => setup[hs[i]] = "none" /\ setup'[hs[i]] = "router"
    BY <1>4, <1>5, <1>8
  <2> QED
    BY <1>2, <1>4, <1>5, <1>8, <2>1, RequestKeeps
<1>10. TransportsTypeOK'
  BY <1>1, <1>2, <1>3, <1>7, <1>8, Requested DEF TransportsTypeOK
<1>11. HeldExplained'
  BY <1>2, <1>4 DEF TransportsInv, HeldExplained
<1>12. SetupsExplained'
  BY <1>2, <1>4, <1>5 DEF TransportsInv, SetupsExplained
<1>13. HeldInOpen'
  BY <1>2, <1>4, <1>5, <1>7 DEF TransportsInv, HeldInOpen, RoomMembers
<1> QED
  BY <1>9, <1>10, <1>11, <1>12, <1>13 DEF TransportsInv

(* A worker's answer, of a router or a failure, ends what waited for it.     *)
LEMMA AnswerKeeps ==
  ASSUME TransportsInv, NEW a \in making, RouterMade(a) \/ RouterFails(a)
  PROVE  TransportsInv'
<1>1. TransportsTypeOK /\ a \in [by : Peers \cup {"room"}, router : Routers]
  BY DEF TransportsInv, TransportsTypeOK
<1> DEFINE r == a.router
           stage == IF RouterMade(a) THEN "transports" ELSE "failed"
           place == IF RouterMade(a) THEN r ELSE 0
<1>2. /\ making' = making \ {a}
      /\ UNCHANGED <<roomVars, makesRouter, requested, held, hurried>>
  BY DEF RouterMade, RouterFails
<1>3. \/ a.by = "room" /\ UNCHANGED <<setup, within>>
      \/ /\ a.by # "room" /\ a.by \in Peers /\ setup[a.by] = "router"
         /\ setup' = [setup EXCEPT ![a.by] = stage]
         /\ within' = [within EXCEPT ![a.by] = place]
  <2>1. a.by # "room" => a.by \in Peers /\ setup[a.by] = "router"
    BY <1>1 DEF TransportsInv, WaitingForOne
  <2>2. CASE RouterMade(a)
    BY <2>1, <2>2 DEF RouterMade, At
  <2>3. CASE ~RouterMade(a)
    BY <2>1, <2>3 DEF RouterFails, At
  <2> QED
    BY <2>2, <2>3
<1>4. /\ r \in Routers /\ r # entry /\ r <= requested /\ r \notin open \ overtaken
      /\ \A q \in Peers : within[q] # r
  BY <1>1 DEF TransportsInv, RequestsFresh, HeldExplained
<1>5. /\ IF RouterMade(a)
           THEN /\ open' = open \cup {r} /\ entry' = r
                /\ overtaken' = overtaken \cup ({entry} \ {0})
           ELSE UNCHANGED <<open, entry, overtaken>>
      /\ stage \in {"transports", "failed"} /\ place \in {r, 0}
      /\ (stage = "transports" => place = r) /\ place # 0 => place = entry'
  <2>1. CASE RouterMade(a)
    BY <2>1 DEF RouterMade
  <2>2. CASE ~RouterMade(a)
    BY <2>2 DEF RouterFails
  <2> QED
    BY <2>1, <2>2
<1> HIDE DEF stage, place
<1>6. ASSUME NEW q \in Peers
      PROVE  \/ setup'[q] = setup[q] /\ within'[q] = within[q]
             \/ /\ setup[q] = "router" /\ a.by = q /\ q # "room"
                /\ setup'[q] = stage /\ within'[q] = place
  BY <1>1, <1>3 DEF TransportsTypeOK
<1>7. setup' \in [Peers -> InProgress \cup {"none", "ready", "half", "failed"}]
      /\ within' \in [Peers -> Routers \cup {0}]
  BY <1>1, <1>3, <1>4, <1>5 DEF TransportsTypeOK, InProgress
<1>8. TransportsTypeOK'
  BY <1>1, <1>2, <1>4, <1>5, <1>7 DEF TransportsTypeOK, RoomTypeOK, roomVars
<1>9. RoomMembers' = RoomMembers /\ UNCHANGED status
  BY <1>2 DEF roomVars, RoomMembers
<1>10. HeldExplained'
  <2>1. overtaken \subseteq overtaken' /\ open' \subseteq {entry'} \cup overtaken'
    <3>1. 0 \notin open /\ open \subseteq {entry} \cup overtaken
      BY <1>1 DEF TransportsInv, HeldExplained, TransportsTypeOK, Routers
    <3> QED
      BY <1>5, <3>1
  <2> QED
    BY <1>2, <1>9, <2>1 DEF TransportsInv, HeldExplained
<1>11. RequestsFresh'
  <2>1. ASSUME NEW b \in making'
        PROVE  /\ b.router <= requested' /\ b.router # entry'
               /\ \A q \in Peers : within'[q] # b.router
    <3>1. b \in making /\ b # a /\ b.router # r /\ b.router \in Routers
      BY <1>1, <1>2 DEF TransportsInv, RequestsFresh, TransportsTypeOK
    <3>2. b.router # 0
      BY <3>1 DEF Routers
    <3> QED
      BY <1>2, <1>5, <1>6, <3>1, <3>2 DEF TransportsInv, RequestsFresh
  <2>2. entry' <= requested' /\ 0 <= requested
    BY <1>1, <1>2, <1>4, <1>5 DEF TransportsInv, RequestsFresh, TransportsTypeOK
  <2>3. \A q \in Peers : within'[q] <= requested'
    BY <1>2, <1>4, <1>5, <1>6, <2>2 DEF TransportsInv, RequestsFresh
  <2> QED
    BY <1>2, <2>1, <2>2, <2>3 DEF TransportsInv, RequestsFresh
<1>12. WaitingForOne'
  <2>1. ASSUME NEW b \in making', b.by # "room"
        PROVE  setup'[b.by] = "router"
    <3>1. b \in making /\ b # a /\ b.by \in Peers /\ setup[b.by] = "router"
      BY <1>1, <1>2, <2>1 DEF TransportsInv, WaitingForOne, TransportsTypeOK
    <3>2. a.by # b.by
      BY <2>1, <3>1 DEF TransportsInv, WaitingForOne
    <3> QED
      BY <1>6, <3>1, <3>2
  <2> QED
    BY <1>2, <2>1 DEF TransportsInv, WaitingForOne
<1>13. SetupsExplained'
  <2> SUFFICES ASSUME NEW q \in Peers
               PROVE  /\ setup'[q] \in InProgress => q \in RoomMembers \cup hurried
                      /\ status[q] = "outside" => setup'[q] = "none"
    BY <1>2, <1>9 DEF SetupsExplained
  <2>1. setup[q] = "router" => setup[q] \in InProgress
    BY DEF InProgress
  <2> QED
    BY <1>6, <2>1 DEF TransportsInv, SetupsExplained
<1>14. HeldInOpen'
  <2>1. ASSUME NEW q \in RoomMembers, setup'[q] = "ready", within'[q] \in open'
        PROVE  <<q, within'[q]>> \in held
    <3>1. q \in Peers
      BY DEF RoomMembers
    <3>2. setup[q] = "ready" /\ within'[q] = within[q]
      BY <1>5, <1>6, <2>1, <3>1
    <3>3. within[q] \in open
      BY <1>4, <1>5, <2>1, <3>1, <3>2
    <3> QED
      BY <3>2, <3>3 DEF TransportsInv, HeldInOpen
  <2>2. open \subseteq open'
    BY <1>5
  <2> QED
    BY <1>2, <1>9, <2>1, <2>2 DEF TransportsInv, HeldInOpen
<1> QED
  BY <1>8, <1>10, <1>11, <1>12, <1>13, <1>14 DEF TransportsInv

LEMMA TransportsStep ==
  ASSUME TransportsInv, TransportsNext
  PROVE  TransportsInv'
<1>1. TransportsTypeOK /\ RoomTypeOK
  BY DEF TransportsInv, TransportsTypeOK
<1>2. CASE TransportsMake
  <2>1. /\ Request(ForRoom) /\ Make
        /\ UNCHANGED <<makesRouter, open, entry, setup, within, held, overtaken, hurried>>
    BY <1>2 DEF TransportsMake
  <2>2. ForRoom \in Seq(Peers \cup {"room"}) /\ \A i \in 1..Len(ForRoom) : ForRoom[i] = "room"
    <3>1. CASE entry = 0
      <4> ForRoom = <<"room">>
        BY <3>1 DEF ForRoom
      <4> QED
        OBVIOUS
    <3>2. CASE entry # 0
      <4> ForRoom = << >>
        BY <3>2 DEF ForRoom
      <4> QED
        BY EmptySeq
    <3> QED
      BY <3>1, <3>2
  <2>3. RoomTypeOK'
    BY <1>1, <2>1, RoomTypeStep DEF RoomNext
  <2>4. TransportsTypeOK'
    BY <1>1, <2>1, <2>2, <2>3, Requested DEF TransportsTypeOK
  <2>5. RequestsFresh' /\ WaitingForOne'
    BY <2>1, <2>2, RequestKeeps
  <2>6. UNCHANGED status /\ RoomMembers' = RoomMembers
    BY <2>1 DEF Make, RoomMembers
  <2> QED
    BY <2>1, <2>4, <2>5, <2>6 DEF TransportsInv, HeldExplained, SetupsExplained, HeldInOpen
<1>3. ASSUME NEW p \in Peers, TransportsEnter(p)
      PROVE  TransportsInv'
  BY <1>3, EnterKeeps
<1>4. ASSUME NEW p \in Peers, TransportsExit(p)
      PROVE  TransportsInv'
  <2> DEFINE left == held \ {<<p, entry>>}
  <2>1. /\ Exit(p)
        /\ UNCHANGED <<makesRouter, requested, making, setup, within, overtaken>>
        /\ hurried' = IF setup[p] \in InProgress THEN hurried \cup {p} ELSE hurried
    BY <1>4 DEF TransportsExit
  <2>2. RoomTypeOK'
    BY <1>1, <2>1, RoomTypeStep DEF RoomNext
  <2>3. RoomMembers' = RoomMembers \ {p}
        /\ \A q \in Peers : status'[q] # status[q] => status'[q] = "left"
    BY <1>1, <2>1, <2>2 DEF Exit, Become, RoomTypeOK, RoomMembers, Inside
  <2>4. open \subseteq {entry} \cup overtaken /\ \A pair \in held : pair[2] \in open
    BY DEF TransportsInv, HeldInOpen, HeldExplained
  <2>5. CASE Remaining(p) = {}
    <3>1. /\ open' = open \ {entry} /\ entry' = 0
          /\ held' = {pair \in left : pair[2] # entry}
      BY <1>4, <2>5 DEF TransportsExit, CloseRouter, TornDown
    <3>2. \A pair \in held : pair[2] \in open' /\ pair[1] \in RoomMembers' => pair \in held'
      BY <2>3, <3>1
    <3>3. held' \subseteq held /\ \A pair \in held' : pair[2] \in open'
      BY <2>4, <3>1
    <3>4. hurried \subseteq hurried' /\ hurried' \subseteq Peers
      BY <1>1, <2>1 DEF TransportsTypeOK
    <3>5. \A q \in RoomMembers \ RoomMembers' : /\ setup[q] \in InProgress => q \in hurried'
                                               /\ <<q, entry>> \notin held'
      BY <2>1, <2>3, <3>1
    <3> QED
      BY <2>1, <2>2, <2>3, <2>4, <3>1, <3>2, <3>3, <3>4, <3>5, ClosingKeeps
  <2>6. CASE Remaining(p) # {}
    <3>1. held' = left /\ UNCHANGED <<open, entry>>
      BY <1>4, <2>6 DEF TransportsExit, TornDown
    <3>2. \A pair \in held : pair[2] \in open' /\ pair[1] \in RoomMembers' => pair \in held'
      BY <2>3, <3>1
    <3>3. held' \subseteq held /\ \A pair \in held' : pair[2] \in open'
      BY <2>4, <3>1
    <3>4. hurried \subseteq hurried' /\ hurried' \subseteq Peers
      BY <1>1, <2>1 DEF TransportsTypeOK
    <3>5. \A q \in RoomMembers \ RoomMembers' : /\ setup[q] \in InProgress => q \in hurried'
                                               /\ <<q, entry>> \notin held'
      BY <2>1, <2>3, <3>1
    <3> QED
      BY <2>1, <2>2, <2>3, <2>4, <3>1, <3>2, <3>3, <3>4, <3>5, ClosingKeeps
  <2> QED
    BY <2>5, <2>6
<1>5. ASSUME NEW p \in Peers, TransportsMade(p)
      PROVE  TransportsInv'
  <2>1. /\ setup[p] = "transports" /\ within[p] \in open
        /\ setup' = [setup EXCEPT ![p] = "ready"] /\ within' = [within EXCEPT ![p] = within[p]]
        /\ held' = held \cup {<<p, within[p]>>}
        /\ UNCHANGED <<roomVars, makesRouter, requested, making, open, entry, overtaken, hurried>>
    BY <1>5 DEF TransportsMade, At
  <2>2. within' = within /\ \A q \in Peers : setup'[q] = IF q = p THEN "ready" ELSE setup[q]
    BY <1>1, <2>1 DEF TransportsTypeOK
  <2>3. TransportsTypeOK'
    BY <1>1, <2>1, <2>2 DEF TransportsTypeOK, RoomTypeOK, roomVars
  <2>4. UNCHANGED status /\ RoomMembers' = RoomMembers
    BY <2>1 DEF roomVars, RoomMembers
  <2>5. p \in RoomMembers \cup hurried /\ status[p] # "outside"
    BY <2>1 DEF TransportsInv, SetupsExplained, InProgress
  <2>6. HeldExplained'
    BY <2>1, <2>4, <2>5 DEF TransportsInv, HeldExplained
  <2>7. RequestsFresh'
    BY <2>1, <2>2 DEF TransportsInv, RequestsFresh
  <2>8. WaitingForOne'
    <3>1. \A a \in making : a.by # "room" => a.by \in Peers
      BY <1>1 DEF TransportsTypeOK
    <3> QED
      BY <2>1, <2>2, <3>1 DEF TransportsInv, WaitingForOne
  <2>9. SetupsExplained'
    BY <2>1, <2>2, <2>4, <2>5 DEF TransportsInv, SetupsExplained, InProgress
  <2>10. HeldInOpen'
    BY <2>1, <2>2, <2>4 DEF TransportsInv, HeldInOpen, RoomMembers
  <2> QED
    BY <2>3, <2>6, <2>7, <2>8, <2>9, <2>10 DEF TransportsInv
<1>6. ASSUME NEW p \in Peers, TransportsFail(p)
      PROVE  TransportsInv'
  <2> PICK stage \in {"failed", "half"}, place \in {0, within[p]} : At(p, stage, place)
    BY <1>6 DEF TransportsFail
  <2>1. /\ setup[p] = "transports"
        /\ setup' = [setup EXCEPT ![p] = stage] /\ within' = [within EXCEPT ![p] = place]
        /\ UNCHANGED <<roomVars, makesRouter, requested, making, open, entry, held, overtaken,
                       hurried>>
    BY <1>6 DEF TransportsFail, At
  <2>2. \A q \in Peers : IF q = p THEN setup'[q] = stage /\ within'[q] = place
                         ELSE setup'[q] = setup[q] /\ within'[q] = within[q]
    BY <1>1, <2>1 DEF TransportsTypeOK
  <2>3. TransportsTypeOK'
    BY <1>1, <2>1 DEF TransportsTypeOK, RoomTypeOK, roomVars
  <2>4. UNCHANGED status /\ RoomMembers' = RoomMembers
    BY <2>1 DEF roomVars, RoomMembers
  <2>5. HeldExplained'
    BY <2>1, <2>4 DEF TransportsInv, HeldExplained
  <2>6. RequestsFresh'
    <3>1. 0 <= requested /\ \A a \in making : a.router # 0
      BY <1>1 DEF TransportsTypeOK, Routers
    <3> QED
      BY <2>1, <2>2, <3>1 DEF TransportsInv, RequestsFresh
  <2>7. WaitingForOne'
    <3>1. \A a \in making : a.by # "room" => a.by \in Peers
      BY <1>1 DEF TransportsTypeOK
    <3> QED
      BY <2>1, <2>2, <3>1 DEF TransportsInv, WaitingForOne
  <2>8. SetupsExplained'
    BY <2>1, <2>2, <2>4 DEF TransportsInv, SetupsExplained, InProgress
  <2>9. HeldInOpen'
    BY <2>1, <2>2, <2>4 DEF TransportsInv, HeldInOpen, RoomMembers
  <2> QED
    BY <2>3, <2>5, <2>6, <2>7, <2>8, <2>9 DEF TransportsInv
<1>7. ASSUME NEW a \in making, RouterMade(a) \/ RouterFails(a)
      PROVE  TransportsInv'
  BY <1>7, AnswerKeeps
<1>8. ASSUME NEW r \in open, RouterDies(r)
      PROVE  TransportsInv'
  <2>1. /\ open' = open \ {r} /\ held' = {pair \in held : pair[2] # r}
        /\ UNCHANGED <<roomVars, makesRouter, requested, making, entry, setup, within, overtaken,
                       hurried>>
    BY <1>8 DEF RouterDies, CloseRouter
  <2>2. RoomTypeOK' /\ UNCHANGED status /\ RoomMembers' = RoomMembers
    BY <1>1, <2>1 DEF roomVars, RoomTypeOK, RoomMembers
  <2>3. \A pair \in held' : pair[2] \in open'
    BY <2>1 DEF TransportsInv, HeldInOpen
  <2>4. open' \subseteq open /\ open' \subseteq {entry} \cup overtaken /\ hurried \subseteq Peers
    BY <1>1, <2>1 DEF TransportsTypeOK, TransportsInv, HeldExplained
  <2>5. /\ held' \subseteq held
        /\ \A pair \in held : pair[2] \in open' /\ pair[1] \in RoomMembers' => pair \in held'
    BY <2>1
  <2>6. RoomMembers \ RoomMembers' = {} /\ \A q \in Peers : status'[q] = status[q]
    BY <2>2
  <2> QED
    BY <2>1, <2>2, <2>3, <2>4, <2>5, <2>6, ClosingKeeps
<1> QED
  BY <1>2, <1>3, <1>4, <1>5, <1>6, <1>7, <1>8 DEF TransportsNext

(* Transports outlive their peer in the three windows only, an open router   *)
(* that is not under the room's id was replaced by an overlapping set-up,    *)
(* and a member that is ready is found under the room's id, for either       *)
(* adapter and any number of requests that overlap (_setupPeer, _setupRoom,  *)
(* createPeerTransports, createRoom).                                        *)
THEOREM TransportsAlwaysSafe == MediaSpec => []TransportsSafe
<1> DEFINE Inv == part = "transports" => TransportsInv
<1>1. MediaInit => Inv
  <2> SUFFICES ASSUME TransportsInit PROVE TransportsInv
    BY DEF MediaInit
  <2>1. RoomTypeOK
    BY DEF TransportsInit, RoomInit, RoomTypeOK, Status, Inside
  <2>2. TransportsTypeOK
    BY <2>1, RoutersAssumption DEF TransportsInit, TransportsTypeOK
  <2> QED
    BY <2>2 DEF TransportsInit, TransportsInv, HeldExplained, RequestsFresh, WaitingForOne,
       SetupsExplained, HeldInOpen, InProgress
<1>2. Inv /\ [MediaNext]_<<part, apart, onRoom, roomVars>> => Inv'
  <2> SUFFICES ASSUME Inv, [MediaNext]_<<part, apart, onRoom, roomVars>>, part' = "transports"
               PROVE  TransportsInv'
    OBVIOUS
  <2>1. CASE TransportsNext /\ part = "transports"
    BY <2>1, TransportsStep
  <2>2. CASE part = "transports" /\ UNCHANGED <<transportsVars, roomVars>>
    BY <2>2 DEF transportsVars, roomVars, TransportsInv, TransportsTypeOK, RoomTypeOK,
       HeldExplained, RequestsFresh, WaitingForOne, SetupsExplained, HeldInOpen, RoomMembers
  <2> QED
    BY <2>1, <2>2 DEF MediaNext, onRoom
<1>3. Inv => TransportsSafe
  <2> SUFFICES ASSUME TransportsInv PROVE LeaksExplained /\ ReadyIsReachable
    BY DEF TransportsSafe, TransportsHold, TransportsInv
  <2>1. LeaksExplained
    BY DEF TransportsInv, HeldExplained, LeaksExplained, OpenTransports
  <2>2. ReadyIsReachable
    BY DEF TransportsInv, HeldExplained, HeldInOpen, ReadyIsReachable
  <2> QED
    BY <2>1, <2>2
<1> QED
  BY <1>1, <1>2, <1>3, PTL DEF MediaSpec

-----------------------------------------------------------------------------
(* The recorders of one room. *)

(* What is known of a session in each state of it: an unused one has no      *)
(* process, every other one has a peer, and a listed one has ended.          *)
SessionsRight ==
  \A s \in Sessions :
    /\ state[s] = "unused" => proc[s] = "none"
    /\ state[s] # "unused" => owner[s] \in Peers
    /\ state[s] = "done" => proc[s] = "ended"

(* An entry names a session of its peer that has gone on.                    *)
ActiveRight ==
  \A p \in Peers :
    active[p] # NONE =>
      owner[active[p]] = p /\ state[active[p]] \notin {"unused", "starting"}

(* Two starts of one peer overlap, and so does a start with whatever session *)
(* took the entry in its course.                                             *)
StartsOverlap ==
  \A s \in Sessions :
    state[s] = "starting" =>
      /\ \A t \in Sessions \ {s} :
           state[t] = "starting" /\ owner[t] = owner[s] => s \in overlapped
      /\ active[owner[s]] # NONE => active[owner[s]] \in overlapped
      /\ status[owner[s]] = "left" => s \in missed

(* What stopRoom waits for records no more.                                  *)
SweepsStopped ==
  sweeping \in Sessions => state[sweeping] \notin {"unused", "starting", "recording"}

RecordingInv ==
  /\ RecordingsHold
  /\ SessionsRight /\ ActiveRight /\ StartsOverlap /\ SweepsStopped

(* ffmpeg runs for entries only, and an entry whose ffmpeg crashed has none. *)
FfmpegRight ==
  /\ \A p \in Peers : ffmpeg[p] = "running" => p \in recordings
  /\ \A p \in crashed : ffmpeg[p] = "closed"
  /\ \A p \in recordings : ffmpeg[p] = "running" \/ p \in crashed

RoomRecordingInv == RoomRecordingHolds /\ FfmpegRight

(* An invariant of the sessions is one of each of them, and only the room's  *)
(* own steps change who is a member.                                         *)
LEMMA StartPeerKeeps ==
  ASSUME RecordingInv, RoomTypeOK', NEW p \in Peers, StartPeer(p), status'[p] # "left",
         \A q \in Peers : status'[q] = "left" => status[q] = "left"
  PROVE  RecordingInv'
<1> USE SessionsAssumption
<1> PICK s \in Sessions :
      /\ state[s] = "unused"
      /\ state' = [state EXCEPT ![s] = "starting"]
      /\ proc' = [proc EXCEPT ![s] = "spawning"]
      /\ owner' = [owner EXCEPT ![s] = p]
      /\ overlapped' = IF StartingOf(p) = {} THEN overlapped
                       ELSE overlapped \cup StartingOf(p) \cup {s}
  BY DEF StartPeer
<1>1. /\ active[p] = NONE
      /\ UNCHANGED <<active, sweeping, seen, indexed, struck, missed>>
  BY DEF StartPeer
<1>2. RecordingTypeOK
  BY DEF RecordingInv, RecordingsHold
<1>3. StartingOf(p) \subseteq Sessions
  BY DEF StartingOf
<1>4. overlapped \subseteq overlapped'
  OBVIOUS
<1>5. RecordingTypeOK'
  BY <1>1, <1>2, <1>3 DEF RecordingTypeOK
<1>6. ASSUME NEW t \in Sessions, t # s
      PROVE  state'[t] = state[t] /\ proc'[t] = proc[t] /\ owner'[t] = owner[t]
  BY <1>2, <1>6 DEF RecordingTypeOK
<1>7. state'[s] = "starting" /\ proc'[s] = "spawning" /\ owner'[s] = p
  BY <1>2 DEF RecordingTypeOK
<1>8. ASSUME NEW q \in Peers, active[q] # NONE
      PROVE  active[q] \in Sessions /\ active[q] # s
  BY <1>2, <1>8 DEF RecordingTypeOK, RecordingInv, ActiveRight
<1>9. ASSUME NEW t \in Sessions \ overlapped', state'[t] = "recording"
      PROVE  /\ active'[owner'[t]] = t \/ t \in struck'
             /\ status'[owner'[t]] = "left" => t \in missed' \cup struck'
  <2>1. t # s /\ state[t] = "recording" /\ t \notin overlapped
    BY <1>4, <1>6, <1>7, <1>9
  <2>2. owner[t] \in Peers
    BY <2>1 DEF RecordingInv, SessionsRight
  <2> QED
    BY <1>1, <1>6, <2>1, <2>2 DEF RecordingInv, RecordingsHold, RecordersExplained
<1>10. ListedOnce'
  BY <1>1, <1>6, <1>7 DEF RecordingInv, RecordingsHold, ListedOnce
<1>11. SessionsRight'
  BY <1>6, <1>7 DEF RecordingInv, SessionsRight
<1>12. ActiveRight'
  BY <1>1, <1>6, <1>8 DEF RecordingInv, ActiveRight
<1>13. SweepsStopped'
  BY <1>1, <1>6 DEF RecordingInv, SweepsStopped
<1>14. ASSUME NEW t \in Sessions, state'[t] = "starting"
       PROVE  /\ \A u \in Sessions \ {t} :
                   state'[u] = "starting" /\ owner'[u] = owner'[t] => t \in overlapped'
              /\ active'[owner'[t]] # NONE => active'[owner'[t]] \in overlapped'
              /\ status'[owner'[t]] = "left" => t \in missed'
  <2>1. CASE t = s
    <3>1. ASSUME NEW u \in Sessions \ {s}, state'[u] = "starting", owner'[u] = p
          PROVE  s \in overlapped'
      <4> u \in StartingOf(p)
        BY <1>6, <3>1 DEF StartingOf
      <4> QED
        OBVIOUS
    <3> QED
      BY <1>1, <1>7, <2>1, <3>1
  <2>2. CASE t # s
    <3>1. state[t] = "starting" /\ owner'[t] = owner[t]
      BY <1>6, <1>14, <2>2
    <3>2. owner[t] \in Peers
      BY <3>1 DEF RecordingInv, SessionsRight
    <3>3. ASSUME NEW u \in Sessions \ {t}, state'[u] = "starting", owner'[u] = owner'[t]
          PROVE  t \in overlapped'
      <4>1. CASE u = s
        <5> t \in StartingOf(p)
          BY <1>7, <3>1, <3>3, <4>1 DEF StartingOf
        <5> QED
          OBVIOUS
      <4>2. CASE u # s
        BY <1>4, <1>6, <3>1, <3>3, <4>2 DEF RecordingInv, StartsOverlap
      <4> QED
        BY <4>1, <4>2
    <3> QED
      BY <1>1, <1>4, <3>1, <3>2, <3>3 DEF RecordingInv, StartsOverlap
  <2> QED
    BY <2>1, <2>2
<1> QED
  BY <1>5, <1>9, <1>10, <1>11, <1>12, <1>13, <1>14 DEF RecordingInv, RecordingsHold,
     RecordersExplained, StartsOverlap

(* A stop takes the entry out and leaves its session alone unless it records. *)
LEMMA StopPeerKeeps ==
  ASSUME RecordingInv, RoomTypeOK', NEW p \in Peers, StopPeer(p),
         missed \subseteq missed', missed' \subseteq Sessions,
         \A q \in Peers \ {p} : status'[q] = "left" => status[q] = "left",
         status'[p] = "left" => status[p] = "left" \/ StartingOf(p) \subseteq missed'
  PROVE  RecordingInv'
<1> USE SessionsAssumption
<1> DEFINE a == active[p]
<1>1. RecordingTypeOK
  BY DEF RecordingInv, RecordingsHold
<1>2. a \in Sessions /\ owner[a] = p /\ state[a] \notin {"unused", "starting"}
  BY <1>1 DEF StopPeer, RecordingInv, ActiveRight, RecordingTypeOK
<1>3. UNCHANGED <<proc, owner, indexed, sweeping, seen, overlapped, struck>>
  BY DEF StopPeer
<1>4. active' = [active EXCEPT ![p] = NONE]
  BY DEF StopPeer
<1>5. state' \in [Sessions -> {"unused", "starting", "recording", "stopping", "done", "failed"}]
  BY <1>1 DEF StopPeer, StopSession, RecordingTypeOK
<1>6. ASSUME NEW t \in Sessions, t # a
      PROVE  state'[t] = state[t]
  BY <1>1, <1>6 DEF StopPeer, StopSession, RecordingTypeOK
<1>7. state'[a] # "recording" /\ state'[a] \notin {"unused", "starting"}
      /\ (state'[a] = "done" <=> state[a] = "done")
  BY <1>1, <1>2 DEF StopPeer, StopSession, RecordingTypeOK
<1> HIDE DEF a
<1>8. RecordingTypeOK'
  BY <1>1, <1>3, <1>4, <1>5 DEF RecordingTypeOK
<1>9. ASSUME NEW t \in Sessions \ overlapped, state'[t] = "recording"
      PROVE  /\ active'[owner[t]] = t \/ t \in struck
             /\ status'[owner[t]] = "left" => t \in missed' \cup struck
  <2>1. t # a /\ state[t] = "recording"
    BY <1>6, <1>7, <1>9
  <2>2. owner[t] \in Peers
    BY <2>1 DEF RecordingInv, SessionsRight
  <2>3. active[owner[t]] = t \/ t \in struck
    BY <2>1 DEF RecordingInv, RecordingsHold, RecordersExplained
  <2>4. CASE t \in struck
    BY <2>4
  <2>5. CASE active[owner[t]] = t /\ t \notin struck
    <3>1. owner[t] # p
      BY <2>1, <2>5 DEF a
    <3> QED
      BY <1>1, <1>4, <2>1, <2>2, <2>5, <3>1 DEF RecordingTypeOK, RecordingInv, RecordingsHold,
         RecordersExplained
  <2> QED
    BY <2>3, <2>4, <2>5
<1>10. ListedOnce'
  <2> SUFFICES ASSUME NEW t \in Sessions
               PROVE  indexed[t] = IF state'[t] = "done" THEN 1 ELSE 0
    BY <1>3 DEF ListedOnce
  <2>1. state'[t] = "done" <=> state[t] = "done"
    BY <1>6, <1>7
  <2> QED
    BY <2>1 DEF RecordingInv, RecordingsHold, ListedOnce
<1>11. SessionsRight'
  <2> SUFFICES ASSUME NEW t \in Sessions
               PROVE  /\ state'[t] = "unused" => proc[t] = "none"
                      /\ state'[t] # "unused" => owner[t] \in Peers
                      /\ state'[t] = "done" => proc[t] = "ended"
    BY <1>3 DEF SessionsRight
  <2>1. CASE t = a
    BY <1>2, <1>7, <2>1 DEF RecordingInv, SessionsRight
  <2>2. CASE t # a
    BY <1>6, <2>2 DEF RecordingInv, SessionsRight
  <2> QED
    BY <2>1, <2>2
<1>12. ActiveRight'
  <2> SUFFICES ASSUME NEW q \in Peers, active'[q] # NONE
               PROVE  /\ owner[active'[q]] = q
                      /\ state'[active'[q]] \notin {"unused", "starting"}
    BY <1>3 DEF ActiveRight
  <2>1. q # p /\ active'[q] = active[q]
    BY <1>1, <1>4 DEF RecordingTypeOK
  <2>2. /\ active[q] \in Sessions /\ owner[active[q]] = q
        /\ state[active[q]] \notin {"unused", "starting"}
    BY <1>1, <2>1 DEF RecordingInv, ActiveRight, RecordingTypeOK
  <2>3. active[q] # a
    BY <1>2, <2>1, <2>2
  <2> QED
    BY <1>6, <2>1, <2>2, <2>3
<1>13. SweepsStopped'
  <2> SUFFICES ASSUME sweeping \in Sessions
               PROVE  state'[sweeping] \notin {"unused", "starting", "recording"}
    BY <1>3 DEF SweepsStopped
  <2> QED
    BY <1>6, <1>7 DEF RecordingInv, SweepsStopped
<1>14. StartsOverlap'
  <2> SUFFICES ASSUME NEW t \in Sessions, state'[t] = "starting"
               PROVE  /\ \A u \in Sessions \ {t} :
                           state'[u] = "starting" /\ owner[u] = owner[t] => t \in overlapped
                      /\ active'[owner[t]] # NONE => active'[owner[t]] \in overlapped
                      /\ status'[owner[t]] = "left" => t \in missed'
    BY <1>3 DEF StartsOverlap
  <2>1. t # a /\ state[t] = "starting"
    BY <1>6, <1>7
  <2>2. owner[t] \in Peers
    BY <2>1 DEF RecordingInv, SessionsRight
  <2>3. ASSUME NEW u \in Sessions, state'[u] = "starting"
        PROVE  state[u] = "starting"
    BY <1>6, <1>7, <2>3
  <2>4. active'[owner[t]] # NONE => active'[owner[t]] \in overlapped
    BY <1>1, <1>4, <2>1, <2>2 DEF RecordingInv, StartsOverlap, RecordingTypeOK
  <2>5. status'[owner[t]] = "left" => t \in missed'
    <3>1. owner[t] = p => t \in StartingOf(p)
      BY <2>1 DEF StartingOf
    <3> QED
      BY <2>1, <2>2, <3>1 DEF RecordingInv, StartsOverlap
  <2> QED
    BY <2>1, <2>3, <2>4, <2>5 DEF RecordingInv, StartsOverlap
<1> QED
  BY <1>3, <1>8, <1>9, <1>10, <1>11, <1>12, <1>13, <1>14 DEF RecordingInv, RecordingsHold,
     RecordersExplained

(* Steps that change one session only, without its peer, and not the room.  *)
LEMMA OneSessionKeeps ==
  ASSUME RecordingInv, NEW s \in Sessions, state[s] # "unused",
         NEW x \in {"starting", "stopping", "done", "failed", "recording"},
         NEW y \in {"spawning", "running", "ended"},
         x = state[s] \/ x \in {"done", "failed"},
         x = "done" => y = "ended",
         state' = [state EXCEPT ![s] = x], proc' = [proc EXCEPT ![s] = y],
         indexed' = [indexed EXCEPT ![s] = IF x = "done" THEN 1 ELSE 0],
         UNCHANGED <<owner, active, sweeping, seen, overlapped, struck, missed, roomVars>>
  PROVE  RecordingInv'
<1> USE SessionsAssumption
<1>1. RecordingTypeOK
  BY DEF RecordingInv, RecordingsHold
<1>2. RecordingTypeOK'
  BY <1>1 DEF RecordingTypeOK, RoomTypeOK, roomVars
<1>3. ASSUME NEW t \in Sessions
      PROVE  IF t = s THEN /\ state'[t] = x /\ proc'[t] = y
                           /\ indexed'[t] = IF x = "done" THEN 1 ELSE 0
             ELSE state'[t] = state[t] /\ proc'[t] = proc[t] /\ indexed'[t] = indexed[t]
  BY <1>1 DEF RecordingTypeOK
<1>4. ASSUME NEW t \in Sessions, state'[t] \in {"unused", "starting", "recording"}
      PROVE  state[t] = state'[t]
  BY <1>3, <1>4
<1>5. RecordersExplained'
  BY <1>4 DEF RecordingInv, RecordingsHold, RecordersExplained, roomVars
<1>6. ListedOnce'
  BY <1>3 DEF RecordingInv, RecordingsHold, ListedOnce
<1>7. SessionsRight'
  BY <1>3 DEF RecordingInv, SessionsRight
<1>8. ActiveRight'
  <2> SUFFICES ASSUME NEW q \in Peers, active[q] # NONE
               PROVE  /\ owner[active[q]] = q
                      /\ state'[active[q]] \notin {"unused", "starting"}
    BY DEF ActiveRight
  <2>1. /\ active[q] \in Sessions /\ owner[active[q]] = q
        /\ state[active[q]] \notin {"unused", "starting"}
    BY <1>1 DEF RecordingInv, ActiveRight, RecordingTypeOK
  <2> QED
    BY <1>4, <2>1
<1>9. StartsOverlap'
  BY <1>4 DEF RecordingInv, StartsOverlap, roomVars
<1>10. SweepsStopped'
  <2> SUFFICES ASSUME sweeping \in Sessions
               PROVE  state'[sweeping] \notin {"unused", "starting", "recording"}
    BY DEF SweepsStopped
  <2> QED
    BY <1>4 DEF RecordingInv, SweepsStopped
<1> QED
  BY <1>2, <1>5, <1>6, <1>7, <1>8, <1>9, <1>10 DEF RecordingInv, RecordingsHold

LEMMA RecordingStep ==
  ASSUME RecordingInv, RecordingNext
  PROVE  RecordingInv'
<1> USE SessionsAssumption
<1>1. RecordingTypeOK /\ RoomTypeOK
  BY DEF RecordingInv, RecordingsHold, RecordingTypeOK
<1>2. ASSUME NEW p \in Peers, Enter(p)
      PROVE  /\ RoomTypeOK' /\ status'[p] # "left"
             /\ \A q \in Peers : status'[q] = "left" => status[q] = "left"
  <2>1. RoomTypeOK'
    BY <1>1, <1>2, RoomTypeStep DEF RoomNext
  <2> QED
    BY <1>1, <1>2, <2>1 DEF Enter, Become, RoomTypeOK
<1>3. ASSUME NEW p \in Peers, Exit(p)
      PROVE  /\ RoomTypeOK'
             /\ \A q \in Peers \ {p} : status'[q] = "left" => status[q] = "left"
  <2>1. RoomTypeOK'
    BY <1>1, <1>3, RoomTypeStep DEF RoomNext
  <2> QED
    BY <1>1, <1>3, <2>1 DEF Exit, Become, RoomTypeOK
<1>4. CASE StartsMember
  <2> PICK p \in RoomMembers : StartPeer(p)
    BY <1>4 DEF StartsMember
  <2>1. UNCHANGED roomVars /\ p \in Peers /\ status[p] # "left"
    BY <1>4 DEF StartsMember, RoomMembers, Inside
  <2>2. RoomTypeOK'
    BY <1>1, <2>1 DEF roomVars, RoomTypeOK
  <2> QED
    BY <2>1, <2>2, StartPeerKeeps DEF roomVars
<1>5. ASSUME NEW p \in Peers, RecordingEnter(p)
      PROVE  RecordingInv'
  BY <1>2, <1>5, StartPeerKeeps DEF RecordingEnter
<1>6. ASSUME NEW p \in Peers, StopsPeer(p)
      PROVE  RecordingInv'
  <2>1. UNCHANGED <<missed, roomVars>> /\ StopPeer(p)
    BY <1>6 DEF StopsPeer
  <2>2. RoomTypeOK' /\ missed' \subseteq Sessions
    BY <1>1, <2>1 DEF roomVars, RoomTypeOK, RecordingTypeOK
  <2> QED
    BY <2>1, <2>2, StopPeerKeeps DEF roomVars
<1>7. ASSUME NEW p \in Peers, RecordingExit(p)
      PROVE  RecordingInv'
  <2>1. /\ Exit(p) /\ missed' = missed \cup StartingOf(p)
    BY <1>7 DEF RecordingExit
  <2>2. missed' \subseteq Sessions
    BY <1>1, <2>1 DEF StartingOf, RecordingTypeOK
  <2>3. CASE active[p] # NONE
    <3>1. StopPeer(p)
      BY <1>7, <2>3 DEF RecordingExit
    <3> QED
      BY <1>3, <2>1, <2>2, <3>1, StopPeerKeeps
  <2>4. CASE active[p] = NONE
    <3>1. UNCHANGED <<sessionVars, active, sweeping, seen, overlapped, struck>>
      BY <1>7, <2>4 DEF RecordingExit
    <3>2. RecordingTypeOK'
      BY <1>1, <1>3, <2>1, <2>2, <3>1 DEF RecordingTypeOK, sessionVars
    <3>3. ASSUME NEW t \in Sessions, state[t] = "starting", status'[owner[t]] = "left"
          PROVE  t \in missed'
      <4>1. owner[t] \in Peers
        BY <3>3 DEF RecordingInv, SessionsRight
      <4>2. owner[t] = p => t \in StartingOf(p)
        BY <3>3 DEF StartingOf
      <4> QED
        BY <1>3, <2>1, <3>3, <4>1, <4>2 DEF RecordingInv, StartsOverlap
    <3>4. ASSUME NEW t \in Sessions \ overlapped, state[t] = "recording"
          PROVE  /\ active[owner[t]] = t \/ t \in struck
                 /\ status'[owner[t]] = "left" => t \in missed' \cup struck
      <4>1. owner[t] \in Peers /\ t # NONE
        BY <3>4 DEF RecordingInv, SessionsRight
      <4> QED
        BY <1>3, <2>1, <2>4, <3>4, <4>1 DEF RecordingInv, RecordingsHold, RecordersExplained
    <3> QED
      BY <3>1, <3>2, <3>3, <3>4 DEF RecordingInv, RecordingsHold, RecordersExplained, ListedOnce,
         SessionsRight, ActiveRight, StartsOverlap, SweepsStopped, sessionVars
  <2> QED
    BY <2>3, <2>4
<1>8. ASSUME NEW p \in Peers, StopRoomTakes(p)
      PROVE  RecordingInv'
  <2> DEFINE a == active[p]
  <2>1. a \in Sessions /\ owner[a] = p /\ state[a] \notin {"unused", "starting"} /\ a # NONE
    BY <1>8 DEF StopRoomTakes, RecordingInv, ActiveRight
  <2>2. /\ sweeping' = a /\ seen' = seen \cup {a}
        /\ UNCHANGED <<proc, owner, indexed, active, overlapped, struck, missed, roomVars>>
    BY <1>8 DEF StopRoomTakes
  <2>3. state' = [state EXCEPT ![a] = IF @ = "recording" THEN "stopping" ELSE @]
    BY <1>1, <1>8, <2>1 DEF StopRoomTakes, StopSession, RecordingTypeOK
  <2> HIDE DEF a
  <2>4. RecordingTypeOK'
    BY <1>1, <2>1, <2>2, <2>3 DEF RecordingTypeOK, RoomTypeOK, roomVars
  <2>5. ASSUME NEW t \in Sessions, state'[t] \in {"unused", "starting", "recording", "done"}
        PROVE  state[t] = state'[t] /\ (state[t] = "recording" => t # a)
    BY <1>1, <2>3, <2>5 DEF RecordingTypeOK
  <2>6. ASSUME NEW t \in Sessions, state[t] \in {"unused", "starting", "done"}
        PROVE  state'[t] = state[t]
    BY <1>1, <2>3, <2>6 DEF RecordingTypeOK
  <2>7. RecordersExplained'
    BY <2>2, <2>5 DEF RecordingInv, RecordingsHold, RecordersExplained, roomVars
  <2>8. ListedOnce'
    BY <2>2, <2>5, <2>6 DEF RecordingInv, RecordingsHold, ListedOnce
  <2>9. SessionsRight'
    BY <2>2, <2>5, <2>6 DEF RecordingInv, SessionsRight
  <2>10. ActiveRight'
    <3> SUFFICES ASSUME NEW q \in Peers, active[q] # NONE
                 PROVE  /\ owner[active[q]] = q
                        /\ state'[active[q]] \notin {"unused", "starting"}
      BY <2>2 DEF ActiveRight
    <3>1. /\ active[q] \in Sessions /\ owner[active[q]] = q
          /\ state[active[q]] \notin {"unused", "starting"}
      BY <1>1 DEF RecordingInv, ActiveRight, RecordingTypeOK
    <3> QED
      BY <2>5, <3>1
  <2>11. StartsOverlap'
    BY <2>2, <2>5 DEF RecordingInv, StartsOverlap, roomVars
  <2>12. SweepsStopped'
    BY <1>1, <2>1, <2>2, <2>3 DEF SweepsStopped, RecordingTypeOK
  <2> QED
    BY <2>4, <2>7, <2>8, <2>9, <2>10, <2>11, <2>12 DEF RecordingInv, RecordingsHold
<1>9. CASE StopRoomGoesOn
  <2> DEFINE p == owner[sweeping]
  <2>1. /\ sweeping \in Sessions /\ sweeping' = "idle"
        /\ active' = [active EXCEPT ![p] = NONE]
        /\ struck' = struck \cup ({active[p]} \ {NONE, sweeping})
        /\ UNCHANGED <<state, proc, owner, indexed, seen, overlapped, missed, roomVars>>
    BY <1>9 DEF StopRoomGoesOn, sessionVars
  <2>2. state[sweeping] \notin {"unused", "starting", "recording"}
    BY <2>1 DEF RecordingInv, SweepsStopped
  <2>3. p \in Peers
    BY <2>1, <2>2 DEF RecordingInv, SessionsRight
  <2> HIDE DEF p
  <2>4. active[p] \in Sessions \cup {NONE}
    BY <1>1, <2>3 DEF RecordingTypeOK
  <2>5. RecordingTypeOK'
    BY <1>1, <2>1, <2>3, <2>4 DEF RecordingTypeOK, RoomTypeOK, roomVars
  <2>6. ASSUME NEW t \in Sessions \ overlapped, state[t] = "recording"
        PROVE  /\ active'[owner[t]] = t \/ t \in struck'
               /\ status[owner[t]] = "left" => t \in missed \cup struck'
    <3>1. owner[t] \in Peers /\ t # sweeping /\ t # NONE
      BY <2>2, <2>6 DEF RecordingInv, SessionsRight
    <3>2. CASE owner[t] = p
      BY <2>1, <2>6, <3>1, <3>2 DEF RecordingInv, RecordingsHold, RecordersExplained
    <3>3. CASE owner[t] # p
      BY <1>1, <2>1, <2>6, <3>1, <3>3 DEF RecordingTypeOK, RecordingInv, RecordingsHold,
         RecordersExplained
    <3> QED
      BY <3>2, <3>3
  <2>7. ActiveRight'
    BY <1>1, <2>1 DEF RecordingTypeOK, RecordingInv, ActiveRight
  <2>8. StartsOverlap'
    <3> SUFFICES ASSUME NEW t \in Sessions, state[t] = "starting", active'[owner[t]] # NONE
                 PROVE  active'[owner[t]] \in overlapped
      BY <2>1 DEF RecordingInv, StartsOverlap, roomVars
    <3>1. owner[t] \in Peers
      BY DEF RecordingInv, SessionsRight
    <3> QED
      BY <1>1, <2>1, <3>1 DEF RecordingTypeOK, RecordingInv, StartsOverlap
  <2> QED
    BY <2>1, <2>5, <2>6, <2>7, <2>8 DEF RecordingInv, RecordingsHold, RecordersExplained,
       ListedOnce, SessionsRight, SweepsStopped, roomVars
<1>10. CASE StopRoomEnds
  BY <1>10 DEF StopRoomEnds, sessionVars, roomVars, RecordingInv, RecordingsHold,
     RecordingTypeOK, RoomTypeOK, RecordersExplained, ListedOnce, SessionsRight, ActiveRight,
     StartsOverlap, SweepsStopped
<1>11. ASSUME NEW s \in Sessions, Started(s)
       PROVE  RecordingInv'
  <2> DEFINE p == owner[s]
  <2>1. /\ state[s] = "starting" /\ state' = [state EXCEPT ![s] = "recording"]
        /\ active' = [active EXCEPT ![p] = s]
        /\ UNCHANGED <<owner, indexed, sweeping, seen, overlapped, struck, missed, roomVars>>
    BY <1>11 DEF Started
  <2> PICK x \in {"spawning", "running"} : proc' = [proc EXCEPT ![s] = x]
    BY <1>11 DEF Started
  <2>2. p \in Peers
    BY <2>1 DEF RecordingInv, SessionsRight
  <2> HIDE DEF p
  <2>3. RecordingTypeOK'
    BY <1>1, <2>1, <2>2 DEF RecordingTypeOK, RoomTypeOK, roomVars
  <2>4. ASSUME NEW t \in Sessions
        PROVE  IF t = s THEN state'[t] = "recording"
               ELSE state'[t] = state[t] /\ proc'[t] = proc[t]
    BY <1>1, <2>1 DEF RecordingTypeOK
  <2>5. ASSUME NEW q \in Peers
        PROVE  active'[q] = IF q = p THEN s ELSE active[q]
    BY <1>1, <2>1, <2>2 DEF RecordingTypeOK
  <2>6. ASSUME NEW t \in Sessions \ overlapped, state'[t] = "recording"
        PROVE  /\ active'[owner[t]] = t \/ t \in struck
               /\ status[owner[t]] = "left" => t \in missed \cup struck
    <3>1. CASE t = s
      BY <2>1, <2>2, <2>5, <3>1 DEF p, RecordingInv, StartsOverlap
    <3>2. CASE t # s
      <4>1. state[t] = "recording" /\ t # NONE
        BY <2>4, <2>6, <3>2
      <4>2. owner[t] \in Peers
        BY <4>1 DEF RecordingInv, SessionsRight
      <4>3. owner[t] = p => active[p] # t
        BY <2>1, <2>6, <4>1 DEF p, RecordingInv, StartsOverlap
      <4> QED
        BY <2>5, <2>6, <4>1, <4>2, <4>3 DEF RecordingInv, RecordingsHold, RecordersExplained
    <3> QED
      BY <3>1, <3>2
  <2>7. ListedOnce'
    BY <2>1, <2>4 DEF RecordingInv, RecordingsHold, ListedOnce
  <2>8. SessionsRight'
    BY <2>1, <2>4 DEF RecordingInv, SessionsRight
  <2>9. ActiveRight'
    <3> SUFFICES ASSUME NEW q \in Peers, active'[q] # NONE
                 PROVE  /\ owner[active'[q]] = q
                        /\ state'[active'[q]] \notin {"unused", "starting"}
      BY <2>1 DEF ActiveRight
    <3>1. CASE q = p
      BY <2>4, <2>5, <3>1 DEF p
    <3>2. CASE q # p
      BY <1>1, <2>4, <2>5, <3>2 DEF RecordingInv, ActiveRight, RecordingTypeOK
    <3> QED
      BY <3>1, <3>2
  <2>10. StartsOverlap'
    <3> SUFFICES ASSUME NEW t \in Sessions, state'[t] = "starting"
                 PROVE  /\ \A u \in Sessions \ {t} :
                             state'[u] = "starting" /\ owner[u] = owner[t] => t \in overlapped
                        /\ active'[owner[t]] # NONE => active'[owner[t]] \in overlapped
                        /\ status[owner[t]] = "left" => t \in missed
      BY <2>1 DEF StartsOverlap, roomVars
    <3>1. t # s /\ state[t] = "starting"
      BY <2>4
    <3>2. owner[t] \in Peers
      BY <3>1 DEF RecordingInv, SessionsRight
    <3>3. owner[t] = p => s \in overlapped
      BY <2>1, <3>1 DEF p, RecordingInv, StartsOverlap
    <3>4. active'[owner[t]] # NONE => active'[owner[t]] \in overlapped
      BY <2>5, <3>1, <3>2, <3>3 DEF RecordingInv, StartsOverlap
    <3>5. ASSUME NEW u \in Sessions, state'[u] = "starting"
          PROVE  state[u] = "starting"
      BY <2>4, <3>5
    <3> QED
      BY <3>1, <3>4, <3>5 DEF RecordingInv, StartsOverlap
  <2>11. SweepsStopped'
    <3>1. sweeping \in Sessions => sweeping # s
      BY <2>1 DEF RecordingInv, SweepsStopped
    <3> QED
      BY <2>1, <2>4, <3>1 DEF RecordingInv, SweepsStopped
  <2> QED
    BY <2>1, <2>3, <2>6, <2>7, <2>8, <2>9, <2>10, <2>11 DEF RecordingInv, RecordingsHold,
       RecordersExplained, roomVars
<1>12. ASSUME NEW s \in Sessions, SpawnsLate(s) \/ Ends(s) \/ Fails(s)
       PROVE  RecordingInv'
  <2>1. indexed[s] = IF state[s] = "done" THEN 1 ELSE 0
    BY DEF RecordingInv, RecordingsHold, ListedOnce
  <2>2. CASE SpawnsLate(s)
    <3>1. state[s] # "unused" /\ state[s] # "done" /\ proc' = [proc EXCEPT ![s] = "running"]
      BY <2>2 DEF SpawnsLate, RecordingInv, SessionsRight
    <3>2. state' = [state EXCEPT ![s] = state[s]] /\ indexed' = [indexed EXCEPT ![s] = 0]
      BY <1>1, <2>1, <2>2, <3>1 DEF SpawnsLate, RecordingTypeOK
    <3> QED
      BY <1>1, <2>2, <3>1, <3>2, OneSessionKeeps DEF SpawnsLate, RecordingTypeOK
  <2>3. CASE Ends(s) /\ state[s] = "stopping"
    <3>1. indexed' = [indexed EXCEPT ![s] = 1]
      BY <1>1, <2>1, <2>3 DEF Ends, Finish, RecordingTypeOK
    <3> QED
      BY <2>3, <3>1, OneSessionKeeps DEF Ends, Finish
  <2>4. CASE Ends(s) /\ state[s] # "stopping"
    <3>1. state[s] # "unused" /\ state[s] # "done" /\ proc' = [proc EXCEPT ![s] = "ended"]
      BY <2>4 DEF Ends, RecordingInv, SessionsRight
    <3>2. state' = [state EXCEPT ![s] = state[s]] /\ indexed' = [indexed EXCEPT ![s] = 0]
      BY <1>1, <2>1, <2>4, <3>1 DEF Ends, RecordingTypeOK
    <3> QED
      BY <1>1, <2>4, <3>1, <3>2, OneSessionKeeps DEF Ends, RecordingTypeOK
  <2>5. CASE Fails(s)
    <3>1. state[s] # "unused" /\ state[s] # "done" /\ proc' = [proc EXCEPT ![s] = "ended"]
      BY <2>5 DEF Fails, RecordingInv, SessionsRight
    <3>2. indexed' = [indexed EXCEPT ![s] = 0]
      BY <1>1, <2>1, <2>5, <3>1 DEF Fails, RecordingTypeOK
    <3> QED
      BY <2>5, <3>1, <3>2, OneSessionKeeps DEF Fails
  <2> QED
    BY <1>12, <2>2, <2>3, <2>4, <2>5
<1> QED
  BY <1>4, <1>5, <1>6, <1>7, <1>8, <1>9, <1>10, <1>11, <1>12 DEF RecordingNext

LEMMA RecordKeeps ==
  ASSUME RoomRecordingInv, RoomTypeOK', NEW ps \in SUBSET Peers, Record(ps),
         \A q \in Peers : status'[q] = "left" => status[q] = "left" /\ q \notin ps,
         grouping' \in BOOLEAN, group' \subseteq recordings \cup ps,
         alone \subseteq alone', alone' \subseteq recordings \cup ps,
         ps \cup group \subseteq alone' \cup group'
  PROVE  RoomRecordingInv'
<1> USE NobodyAssumption
<1>1. RoomRecordingTypeOK'
  BY DEF RoomRecordingInv, RoomRecordingHolds, RoomRecordingTypeOK, Record, roomStop
<1>2. \A p \in Peers : ffmpeg'[p] = IF p \in ps THEN "running" ELSE ffmpeg[p]
  BY DEF RoomRecordingInv, RoomRecordingHolds, RoomRecordingTypeOK, Record
<1>3. FfmpegRight'
  BY <1>1, <1>2 DEF RoomRecordingInv, RoomRecordingHolds, RoomRecordingTypeOK, FfmpegRight, Record
<1>4. stopsNow' \in Peers => ffmpeg'[stopsNow'] = "running" \/ stopsNow' \in crashed'
  BY <1>2 DEF RoomRecordingInv, RoomRecordingHolds, Record, roomStop
<1> QED
  BY <1>1, <1>3, <1>4 DEF RoomRecordingInv, RoomRecordingHolds, RoomRecordingTypeOK, Record

LEMMA RoomRecordingStep ==
  ASSUME RoomRecordingInv, RoomRecordingNext
  PROVE  RoomRecordingInv'
<1> USE NobodyAssumption
<1>1. RoomRecordingTypeOK /\ RoomTypeOK
  BY DEF RoomRecordingInv, RoomRecordingHolds, RoomRecordingTypeOK
<1>2. ASSUME UNCHANGED roomVars
      PROVE  RoomTypeOK' /\ UNCHANGED status
  BY <1>1, <1>2 DEF roomVars, RoomTypeOK
<1>3. \A q \in RoomMembers : q \in Peers /\ status[q] # "left"
  BY DEF RoomMembers, Inside
<1>4. CASE StartOne
  <2> PICK p \in RoomMembers : Record({p}) /\ alone' = alone \cup {p}
    BY <1>4 DEF StartOne
  <2>1. UNCHANGED <<grouping, group, roomVars>>
    BY <1>4 DEF StartOne
  <2> QED
    BY <1>1, <1>2, <1>3, <2>1, RecordKeeps DEF RoomRecordingInv, RoomRecordingHolds,
       RoomRecordingTypeOK
<1>5. CASE StartRoom
  <2> PICK ps \in SUBSET (RoomMembers \ recordings) : Record(ps) /\ group' = ps
    BY <1>5 DEF StartRoom
  <2>1. grouping' = TRUE /\ alone' = alone \cup group /\ UNCHANGED roomVars
    BY <1>5 DEF StartRoom
  <2> QED
    BY <1>1, <1>2, <1>3, <2>1, RecordKeeps DEF RoomRecordingInv, RoomRecordingHolds,
       RoomRecordingTypeOK
<1>6. ASSUME NEW p \in Peers, JoinsRecorded(p)
      PROVE  RoomRecordingInv'
  <2>1. RoomTypeOK'
    BY <1>1, <1>6, RoomTypeStep DEF JoinsRecorded, RoomNext
  <2>2. \A q \in Peers : status'[q] = "left" => status[q] = "left" /\ q # p
    BY <1>1, <1>6, <2>1 DEF JoinsRecorded, Enter, Become, RoomTypeOK
  <2>3. UNCHANGED <<grouping, group>>
    BY <1>6 DEF JoinsRecorded
  <2>4. CASE grouping
    <3>1. Record({p}) /\ alone' = alone \cup {p}
      BY <1>6, <2>4 DEF JoinsRecorded
    <3> QED
      BY <1>1, <2>1, <2>2, <2>3, <3>1, RecordKeeps DEF RoomRecordingInv, RoomRecordingHolds,
         RoomRecordingTypeOK
  <2>5. CASE ~grouping
    <3>1. UNCHANGED <<entries, roomStop, crashed, alone>>
      BY <1>6, <2>5 DEF JoinsRecorded
    <3> QED
      BY <1>1, <2>1, <2>2, <2>3, <3>1 DEF entries, roomStop, RoomRecordingInv,
         RoomRecordingHolds, RoomRecordingTypeOK, FfmpegRight
  <2> QED
    BY <2>4, <2>5
<1>7. CASE StopsOne
  BY <1>1, <1>2, <1>7 DEF StopsOne, Stop, roomStop, RoomRecordingInv, RoomRecordingHolds,
     RoomRecordingTypeOK, FfmpegRight
<1>8. ASSUME NEW p \in Peers, LeavesRecorded(p)
      PROVE  RoomRecordingInv'
  <2>1. RoomTypeOK'
    BY <1>1, <1>8, RoomTypeStep DEF LeavesRecorded, RoomNext
  <2>2. \A q \in Peers : status'[q] = "left" => status[q] = "left" \/ q = p
    BY <1>1, <1>8, <2>1 DEF LeavesRecorded, Exit, Become, RoomTypeOK
  <2> QED
    BY <1>1, <1>8, <2>1, <2>2 DEF LeavesRecorded, Stop, roomStop, RoomRecordingInv,
       RoomRecordingHolds, RoomRecordingTypeOK, FfmpegRight
<1>9. ASSUME NEW p \in Peers, Closes(p)
      PROVE  RoomRecordingInv'
  <2>1. /\ ffmpeg[p] = "running" /\ ffmpeg' = [ffmpeg EXCEPT ![p] = "closed"]
        /\ stopsNow' = IF stopsNow = p THEN NOBODY ELSE stopsNow
        /\ UNCHANGED <<toStop, roomVars>>
    BY <1>9 DEF Closes
  <2>2. p \in recordings /\ p \notin crashed
    BY <2>1 DEF RoomRecordingInv, FfmpegRight
  <2>3. \A q \in Peers : ffmpeg'[q] = IF q = p THEN "closed" ELSE ffmpeg[q]
    BY <1>1, <2>1 DEF RoomRecordingTypeOK
  <2>4. ffmpeg' \in [Peers -> {"none", "running", "closed"}]
        /\ stopsNow' \in Peers \cup {NOBODY, "none"}
    BY <1>1, <2>1 DEF RoomRecordingTypeOK
  <2>5. CASE p \in stopped
    <3>1. /\ recordings' = recordings \ {p} /\ stopped' = stopped \ {p}
          /\ alone' = alone \ {p} /\ group' = group \ {p}
          /\ grouping' = (grouping /\ group' # {}) /\ crashed' = crashed
      BY <1>9, <2>5 DEF Closes, ClosesStopped
    <3>2. grouping' \in BOOLEAN
      BY <3>1
    <3>3. RoomRecordingTypeOK'
      BY <1>1, <1>2, <2>1, <2>2, <2>4, <3>1, <3>2 DEF RoomRecordingTypeOK
    <3>4. FfmpegRight'
      BY <1>1, <2>2, <2>3, <3>1 DEF RoomRecordingInv, FfmpegRight, RoomRecordingTypeOK
    <3> QED
      BY <1>2, <2>1, <3>1, <3>3, <3>4 DEF RoomRecordingInv, RoomRecordingHolds
  <2>6. CASE p \notin stopped
    <3>1. /\ crashed' = crashed \cup {p}
          /\ UNCHANGED <<recordings, stopped, alone, grouping, group>>
      BY <1>9, <2>6 DEF Closes
    <3>2. RoomRecordingTypeOK'
      BY <1>1, <1>2, <2>1, <2>2, <2>4, <3>1 DEF RoomRecordingTypeOK
    <3>3. FfmpegRight'
      BY <1>1, <2>2, <2>3, <3>1 DEF RoomRecordingInv, FfmpegRight, RoomRecordingTypeOK
    <3> QED
      BY <1>2, <2>1, <3>1, <3>2, <3>3 DEF RoomRecordingInv, RoomRecordingHolds
  <2> QED
    BY <2>5, <2>6
<1>10. CASE StopRoom
  BY <1>1, <1>2, <1>10 DEF StopRoom, entries, RoomRecordingInv, RoomRecordingHolds,
     RoomRecordingTypeOK, FfmpegRight
<1>11. ASSUME NEW p \in Peers, StopNext(p)
       PROVE  RoomRecordingInv'
  BY <1>1, <1>2, <1>11 DEF StopNext, Stop, RoomRecordingInv, RoomRecordingHolds,
     RoomRecordingTypeOK, FfmpegRight
<1>12. CASE StopRoomOver
  BY <1>1, <1>2, <1>12 DEF StopRoomOver, entries, RoomRecordingInv, RoomRecordingHolds,
     RoomRecordingTypeOK, FfmpegRight
<1> QED
  BY <1>4, <1>5, <1>6, <1>7, <1>8, <1>9, <1>10, <1>11, <1>12 DEF RoomRecordingNext

(* Recorders nobody can stop come from the three overlaps only and no        *)
(* session is listed twice, however many peers and sessions there are; and   *)
(* of the other recorder, the ffmpeg of a peer that left is being stopped,   *)
(* stopRoom passes by joiners, peers recorded for themselves and sets that   *)
(* were dropped, by no others, and it stands still only at a recorder that   *)
(* had closed before (startPeer, stopRoom, _stopSession, startRoom).         *)
THEOREM RecordingsAlwaysSafe == MediaSpec => []RecordingsSafe
<1> DEFINE Inv == /\ part = "recording" => RecordingInv
                  /\ part = "roomRecording" => RoomRecordingInv
<1>1. MediaInit => Inv
  <2> SUFFICES ASSUME RoomInit, RecordingInit, RoomRecordingInit
               PROVE  RecordingInv /\ RoomRecordingInv
    BY DEF MediaInit, RecordingInit
  <2>1. RoomTypeOK
    BY DEF RoomInit, RoomTypeOK, Status, Inside
  <2>2. RecordingTypeOK
    BY <2>1 DEF RecordingInit, RecordingTypeOK
  <2>3. RecordingInv
    BY <2>2, SessionsAssumption DEF RecordingInit, RecordingInv, RecordingsHold,
       RecordersExplained, ListedOnce, SessionsRight, ActiveRight, StartsOverlap, SweepsStopped
  <2>4. RoomRecordingInv
    BY <2>1, NobodyAssumption DEF RoomRecordingInit, RoomRecordingInv, RoomRecordingHolds,
       RoomRecordingTypeOK, FfmpegRight
  <2> QED
    BY <2>3, <2>4
<1>2. Inv /\ [MediaNext]_<<part, apart, onRoom, roomVars>> => Inv'
  <2> SUFFICES ASSUME Inv, [MediaNext]_<<part, apart, onRoom, roomVars>>
               PROVE  Inv'
    OBVIOUS
  <2>1. ASSUME part' = "recording"
        PROVE  RecordingInv'
    <3>1. CASE RecordingNext /\ part = "recording"
      BY <3>1, RecordingStep
    <3>2. CASE part = "recording" /\ UNCHANGED <<recordingVars, roomVars>>
      BY <3>2 DEF recordingVars, sessionVars, roomVars, RecordingInv, RecordingsHold,
         RecordingTypeOK, RoomTypeOK, RecordersExplained, ListedOnce, SessionsRight,
         ActiveRight, StartsOverlap, SweepsStopped
    <3> QED
      BY <2>1, <3>1, <3>2 DEF MediaNext, onRoom
  <2>2. ASSUME part' = "roomRecording"
        PROVE  RoomRecordingInv'
    <3>1. CASE RoomRecordingNext /\ part = "roomRecording"
      BY <3>1, RoomRecordingStep
    <3>2. CASE part = "roomRecording" /\ UNCHANGED <<roomRecordingVars, roomVars>>
      BY <3>2 DEF roomRecordingVars, entries, roomStop, roomVars, RoomRecordingInv,
         RoomRecordingHolds, RoomRecordingTypeOK, RoomTypeOK, FfmpegRight
    <3> QED
      BY <2>2, <3>1, <3>2 DEF MediaNext, onRoom
  <2> QED
    BY <2>1, <2>2
<1>3. Inv => RecordingsSafe
  BY DEF RecordingsSafe, RecordingInv, RoomRecordingInv
<1> QED
  BY <1>1, <1>2, <1>3, PTL DEF MediaSpec
-----------------------------------------------------------------------------
(* The gauges of the room and the traces of its peers. *)

(* What the gauges need: an announcement too many is not forgotten, and      *)
(* nobody is a member who was not counted among the most.                    *)
GaugesFollow ==
  /\ doubled => ever
  /\ Cardinality(RoomMembers) <= MaxPeers

(* What the traces need: whoever has come has its span, and it has its trace *)
(* until it leaves; only those that left are revived.                        *)
SpansFollow ==
  \A p \in Peers :
    /\ status[p] # "outside" => p \in openSpans
    /\ p \in openSpans /\ status[p] # "left" => p \in traced
    /\ p \in revived => status[p] = "left"

MetricsInv == MetricsHold /\ GaugesFollow /\ SpansFollow

LEMMA MembersFinite ==
  ASSUME NEW p \in Peers
  PROVE  /\ IsFiniteSet(RoomMembers) /\ Cardinality(RoomMembers) \in Nat
         /\ p \notin RoomMembers =>
              Cardinality(RoomMembers \cup {p}) = Cardinality(RoomMembers) + 1
         /\ p \in RoomMembers =>
              Cardinality(RoomMembers \ {p}) = Cardinality(RoomMembers) - 1
         /\ RoomMembers = {} <=> Cardinality(RoomMembers) = 0
<1>1. IsFiniteSet(RoomMembers)
  BY RoomLifeAssumption, FS_Subset DEF RoomMembers
<1> QED
  BY <1>1, FS_CardinalityType, FS_AddElement, FS_RemoveElement, FS_EmptySet

(* Steps that leave who is a member, who has come and who has left as it is, *)
(* but may give somebody a trace.                                            *)
LEMMA TraceKeeps ==
  ASSUME MetricsInv, RoomTypeOK', RoomMembers' = RoomMembers,
         \A q \in Peers : /\ status'[q] = "left" <=> status[q] = "left"
                          /\ status'[q] = "outside" <=> status[q] = "outside"
                          /\ status'[q] \in Inside => status[q] \in Inside,
         UNCHANGED <<bufferSize, gaugeVars, buffer>>,
         NEW p \in Peers, resumable' \subseteq resumable \cup {p},
         \/ /\ traced' = traced \cup {p} /\ openSpans' = openSpans \cup {p}
            /\ p \notin openSpans /\ revived' = revived
         \/ /\ traced' \in {traced, traced \cup {p}} /\ openSpans' = openSpans
            /\ status[p] \in Inside /\ revived' = revived
         \/ /\ traced' = traced \cup {p} /\ openSpans' = openSpans
            /\ status[p] = "left" /\ revived' = revived \cup {p}
  PROVE  MetricsInv'
<1> USE DEF gaugeVars
<1>1. MetricsTypeOK /\ MetricsTypeOK'
  BY DEF MetricsInv, MetricsHold, MetricsTypeOK
<1>2. GaugesExplained' /\ GaugesFollow'
  BY DEF MetricsInv, MetricsHold, GaugesExplained, GaugesFollow
<1>3. "left" \notin Inside /\ "outside" \notin Inside
  BY DEF Inside
<1>4. SpansFollow'
  BY DEF MetricsInv, SpansFollow
<1>5. TracesFollow'
  <2>1. ASSUME NEW q \in Peers, status'[q] = "left"
        PROVE  q \in traced' <=> q \in revived'
    BY <1>3, <2>1 DEF MetricsInv, MetricsHold, TracesFollow, SpansFollow
  <2>2. \A i \in DOMAIN buffer : buffer[i] \in Peers
    BY <1>1, ElementOfSeq, LenProperties DEF MetricsTypeOK
  <2> QED
    BY <2>1, <2>2 DEF MetricsInv, MetricsHold, TracesFollow
<1> QED
  BY <1>1, <1>2, <1>4, <1>5 DEF MetricsInv, MetricsHold

(* A departure, announced once or twice. *)
LEMMA LeftKeeps ==
  ASSUME MetricsInv, NEW p \in Peers, NEW times \in {1, 2}, Left(p, times),
         resumable' \subseteq resumable
  PROVE  MetricsInv'
<1>1. MetricsTypeOK /\ RoomTypeOK
  BY DEF MetricsInv, MetricsHold, MetricsTypeOK
<1>2. /\ Exit(p) /\ peersCurrent' = Gauge(times) /\ buffer' = Export(p)
      /\ traced' = traced \ {p}
      /\ doubled' = (RoomMembers' # {} /\ (doubled \/ times = 2))
      /\ ever' = (ever \/ times = 2)
      /\ UNCHANGED <<bufferSize, peersPeak, openSpans, most, revived>>
  BY DEF Left
<1>3. RoomTypeOK'
  BY <1>1, <1>2, RoomTypeStep DEF RoomNext
<1>4. /\ p \in RoomMembers /\ RoomMembers' = RoomMembers \ {p}
      /\ status[p] # "left" /\ status'[p] = "left"
      /\ \A q \in Peers \ {p} : status'[q] = status[q]
  BY <1>1, <1>2, <1>3 DEF Exit, Become, Reachable, RoomMembers, Inside, RoomTypeOK
<1> DEFINE n == Cardinality(RoomMembers)
<1>5. n \in Nat /\ n # 0 /\ Cardinality(RoomMembers') = n - 1
      /\ (RoomMembers' = {} <=> n = 1)
  <2>1. n \in Nat /\ Cardinality(RoomMembers \ {p}) = n - 1 /\ n # 0
    BY <1>4, MembersFinite
  <2>2. IsFiniteSet(RoomMembers \ {p})
    BY MembersFinite, FS_Subset
  <2> QED
    BY <1>4, <2>1, <2>2, FS_EmptySet
<1> HIDE DEF n
<1>6. peersCurrent \in Nat /\ peersCurrent <= n /\ (peersCurrent < n => doubled)
      /\ MaxPeers \in Nat /\ peersCurrent <= MaxPeers
  BY <1>1, RoomLifeAssumption DEF n, MetricsInv, MetricsHold, MetricsTypeOK, GaugesExplained
<1>7. /\ peersCurrent' \in 0..MaxPeers /\ peersCurrent' <= n - 1
      /\ times = 1 /\ peersCurrent' < n - 1 => peersCurrent < n
  BY <1>2, <1>5, <1>6 DEF Gauge
<1>8. doubled' \in BOOLEAN /\ ever' \in BOOLEAN
  BY <1>2
<1>9. GaugesExplained' /\ GaugesFollow'
  <2>1. peersCurrent' < n - 1 => doubled'
    <3>1. CASE times = 1
      <4>1. peersCurrent' < n - 1 => RoomMembers' # {} /\ doubled
        BY <1>5, <1>6, <1>7, <3>1
      <4> QED
        BY <1>2, <4>1
    <3>2. CASE times = 2
      <4>1. peersCurrent' < n - 1 => RoomMembers' # {}
        BY <1>5, <1>7
      <4> QED
        BY <1>2, <3>2, <4>1
    <3> QED
      BY <3>1, <3>2
  <2>2. ever => ever'
    BY <1>2
  <2>3. doubled' => ever'
    BY <1>2 DEF MetricsInv, GaugesFollow
  <2>4. peersPeak' <= most' /\ (peersPeak' < most' => ever')
    BY <1>2, <2>2 DEF MetricsInv, MetricsHold, GaugesExplained
  <2>5. n <= MaxPeers
    BY DEF n, MetricsInv, GaugesFollow
  <2>6. Cardinality(RoomMembers)' <= MaxPeers
    BY <1>5, <1>6, <2>5
  <2> QED
    BY <1>5, <1>7, <2>1, <2>3, <2>4, <2>6 DEF GaugesExplained, GaugesFollow
<1>. bufferSize \in Nat \ {0}
  BY <1>1, BufferAssumption DEF MetricsTypeOK
<1>10. p \in traced
  BY <1>4 DEF MetricsInv, MetricsHold, TracesFollow, RoomMembers
<1> DEFINE old == IF Len(buffer) < bufferSize THEN buffer ELSE Tail(buffer)
<1>11. /\ old \in Seq(Peers) /\ Len(old) \in Nat
       /\ \A i, j \in 1..Len(old) : old[i] = old[j] => i = j
       /\ \A i \in 1..Len(old) : old[i] # p /\ old[i] \in Peers /\ status'[old[i]] = "left"
  <2>1. /\ buffer \in Seq(Peers) /\ Len(buffer) \in Nat /\ DOMAIN buffer = 1..Len(buffer)
        /\ \A i \in 1..Len(buffer) : buffer[i] \in Peers
    BY <1>1, LenProperties, ElementOfSeq DEF MetricsTypeOK
  <2>2. /\ \A i, j \in 1..Len(buffer) : buffer[i] = buffer[j] => i = j
        /\ \A i \in 1..Len(buffer) : buffer[i] # p /\ status'[buffer[i]] = "left"
    BY <1>4, <2>1 DEF MetricsInv, MetricsHold, TracesFollow
  <2>3. CASE Len(buffer) < bufferSize
    BY <2>1, <2>2, <2>3
  <2>4. CASE ~(Len(buffer) < bufferSize)
    <3>1. old = Tail(buffer) /\ buffer # << >>
      BY <2>1, <2>4, EmptySeq, SMTT(40)
    <3>2. /\ Tail(buffer) \in Seq(Peers) /\ Len(Tail(buffer)) = Len(buffer) - 1
          /\ \A i \in 1..Len(Tail(buffer)) : Tail(buffer)[i] = buffer[i + 1]
      BY <2>1, <3>1, HeadTailProperties
    <3>3. Len(buffer) - 1 \in Nat
      BY <2>1, <2>4
    <3>4. \A i \in 1..Len(buffer) - 1 : i + 1 \in 1..Len(buffer)
      BY <2>1
    <3>5. ASSUME NEW i \in 1..Len(buffer) - 1, NEW j \in 1..Len(buffer) - 1,
                 Tail(buffer)[i] = Tail(buffer)[j]
          PROVE  i = j
      <4>1. buffer[i + 1] = buffer[j + 1]
        BY <3>2, <3>5
      <4>2. i + 1 = j + 1
        BY <2>2, <3>4, <4>1
      <4> QED
        BY <4>2
    <3> HIDE DEF old
    <3> QED
      BY <2>1, <2>2, <3>1, <3>2, <3>3, <3>4, <3>5
  <2> QED
    BY <2>3, <2>4
<1>12. buffer' = Append(old, p)
  BY <1>2, <1>10 DEF Export
<1> HIDE DEF old
<1>13. /\ buffer' \in Seq(Peers) /\ DOMAIN buffer' = 1..Len(old) + 1
       /\ \A i \in 1..Len(old) : buffer'[i] = old[i]
       /\ buffer'[Len(old) + 1] = p
  BY <1>11, <1>12, AppendProperties, LenProperties
<1>14. TracesFollow'
  <2>1. ASSUME NEW i \in DOMAIN buffer'
        PROVE  i \in 1..Len(old) \/ i = Len(old) + 1
    BY <1>11, <1>13, <2>1
  <2>2. \A i, j \in DOMAIN buffer' : buffer'[i] = buffer'[j] => i = j
    BY <1>11, <1>13, <2>1
  <2>3. \A i \in DOMAIN buffer' : status'[buffer'[i]] = "left"
    BY <1>4, <1>11, <1>13, <2>1
  <2>4. \A q \in Peers : /\ status'[q] \in Inside => q \in traced'
                         /\ status'[q] = "left" => (q \in traced' <=> q \in revived')
    BY <1>2, <1>4 DEF Inside, MetricsInv, MetricsHold, TracesFollow, SpansFollow
  <2> QED
    BY <2>2, <2>3, <2>4 DEF TracesFollow
<1>15. SpansFollow'
  <2>1. p \in openSpans
    BY <1>4 DEF MetricsInv, SpansFollow, RoomMembers, Inside
  <2> QED
    BY <1>2, <1>4, <2>1 DEF MetricsInv, SpansFollow
<1>16. MetricsTypeOK'
  BY <1>1, <1>2, <1>3, <1>7, <1>8, <1>13 DEF MetricsTypeOK
<1> QED
  BY <1>9, <1>14, <1>15, <1>16 DEF MetricsInv, MetricsHold

LEMMA MetricsStep ==
  ASSUME MetricsInv, MetricsNext
  PROVE  MetricsInv'
<1>1. MetricsTypeOK /\ RoomTypeOK
  BY DEF MetricsInv, MetricsHold, MetricsTypeOK
<1>2. ASSUME NEW p \in Peers, Connected(p)
      PROVE  MetricsInv'
  <2>1. RoomTypeOK' /\ UNCHANGED status /\ RoomMembers' = RoomMembers
    BY <1>1, <1>2 DEF Connected, roomVars, RoomTypeOK, RoomMembers
  <2>2. /\ p \notin openSpans /\ traced' = traced \cup {p} /\ openSpans' = openSpans \cup {p}
        /\ resumable' \subseteq resumable \cup {p}
        /\ UNCHANGED <<bufferSize, gaugeVars, buffer, revived>>
    BY <1>2 DEF Connected
  <2> QED
    BY <2>1, <2>2, TraceKeeps
<1>3. ASSUME NEW p \in Peers, MetricsFade(p) \/ MetricsDrop(p) \/ MetricsReturn(p)
      PROVE  MetricsInv'
  <2>1. Fade(p) \/ Drop(p) \/ Return(p)
    BY <1>3 DEF MetricsFade, MetricsDrop, MetricsReturn
  <2>2. RoomTypeOK'
    BY <1>1, <2>1, RoomTypeStep DEF RoomNext
  <2>3. /\ status[p] \in Inside /\ status'[p] \in Inside
        /\ \A q \in Peers \ {p} : status'[q] = status[q]
    BY <1>1, <2>1 DEF Fade, Drop, Return, Become, RoomTypeOK, Inside
  <2>4. RoomMembers' = RoomMembers
    BY <2>3 DEF RoomMembers
  <2>5. \A q \in Peers : /\ status'[q] = "left" <=> status[q] = "left"
                         /\ status'[q] = "outside" <=> status[q] = "outside"
                         /\ status'[q] \in Inside => status[q] \in Inside
    BY <2>3 DEF Inside
  <2>6. /\ UNCHANGED <<bufferSize, gaugeVars, openSpans, buffer, revived>>
        /\ resumable' \subseteq resumable \cup {p}
        /\ traced' = traced \cup {p} \/ traced' = traced
    BY <1>3 DEF MetricsFade, MetricsDrop, MetricsReturn, Traces, metricsVars
  <2> QED
    BY <2>2, <2>3, <2>4, <2>5, <2>6, TraceKeeps
<1>4. ASSUME NEW p \in Peers, MetricsEnter(p)
      PROVE  MetricsInv'
  <2>1. /\ p \in openSpans /\ Enter(p) /\ peersCurrent' = peersCurrent + 1
        /\ peersPeak' = Larger(peersPeak, peersCurrent + 1)
        /\ most' = Larger(most, Cardinality(RoomMembers)')
        /\ UNCHANGED <<bufferSize, traced, openSpans, buffer, resumable, doubled, ever, revived>>
    BY <1>4 DEF MetricsEnter
  <2>2. RoomTypeOK'
    BY <1>1, <2>1, RoomTypeStep DEF RoomNext
  <2>3. /\ status[p] = "outside" /\ status'[p] \in Inside
        /\ \A q \in Peers \ {p} : status'[q] = status[q]
    BY <1>1, <2>1 DEF Enter, Become, RoomTypeOK, Inside
  <2>4. p \notin RoomMembers /\ RoomMembers' = RoomMembers \cup {p}
    BY <2>3 DEF RoomMembers, Inside
  <2> DEFINE n == Cardinality(RoomMembers)
  <2>5. n \in Nat /\ Cardinality(RoomMembers') = n + 1 /\ n < MaxPeers /\ MaxPeers \in Nat
    BY <2>1, <2>4, MembersFinite, RoomLifeAssumption DEF Enter
  <2>6. /\ peersCurrent \in Nat /\ peersPeak \in 0..MaxPeers /\ most \in 0..MaxPeers
        /\ peersCurrent <= n /\ (peersCurrent < n => doubled)
        /\ peersPeak <= most /\ (peersPeak < most => ever)
    BY <1>1, RoomLifeAssumption DEF n, MetricsInv, MetricsHold, MetricsTypeOK, GaugesExplained
  <2> HIDE DEF n
  <2>7. /\ peersCurrent' \in 0..MaxPeers /\ peersPeak' \in 0..MaxPeers /\ most' \in 0..MaxPeers
        /\ peersCurrent' <= n + 1 /\ (peersCurrent' < n + 1 => doubled)
        /\ peersPeak' <= most'
    BY <2>1, <2>5, <2>6 DEF Larger
  <2>8. peersPeak' < most' => peersPeak < most \/ peersCurrent < n
    BY <2>1, <2>5, <2>6 DEF Larger
  <2>9. peersPeak' < most' => ever
    BY <2>6, <2>8 DEF MetricsInv, GaugesFollow
  <2>10. MetricsTypeOK'
    BY <1>1, <2>1, <2>2, <2>7 DEF MetricsTypeOK
  <2>11. GaugesExplained'
    BY <2>1, <2>5, <2>7, <2>9 DEF GaugesExplained
  <2>12. GaugesFollow'
    <3>1. Cardinality(RoomMembers)' <= MaxPeers
      BY <2>5
    <3> QED
      BY <2>1, <3>1 DEF MetricsInv, GaugesFollow
  <2>13. SpansFollow'
    BY <2>1, <2>3 DEF MetricsInv, SpansFollow
  <2>14. TracesFollow'
    <3>1. \A i \in DOMAIN buffer : buffer[i] \in Peers
      BY <1>1, ElementOfSeq, LenProperties DEF MetricsTypeOK
    <3>2. \A i \in DOMAIN buffer : status'[buffer[i]] = "left"
      BY <2>3, <3>1 DEF MetricsInv, MetricsHold, TracesFollow
    <3>3. p \in traced
      BY <2>1, <2>3 DEF MetricsInv, SpansFollow
    <3> QED
      BY <2>1, <2>3, <3>2, <3>3 DEF Inside, MetricsInv, MetricsHold, TracesFollow, SpansFollow
  <2> QED
    BY <2>10, <2>11, <2>12, <2>13, <2>14 DEF MetricsInv, MetricsHold
<1>5. ASSUME NEW p \in Peers, MetricsLeave(p) \/ MetricsKick(p) \/ MetricsExpire(p)
      PROVE  MetricsInv'
  <2>1. resumable' \subseteq resumable /\ \E times \in {1, 2} : Left(p, times)
    BY <1>5 DEF MetricsLeave, MetricsKick, MetricsExpire
  <2> QED
    BY <2>1, LeftKeeps
<1>6. ASSUME NEW p \in Peers, Revives(p)
      PROVE  MetricsInv'
  <2>1. /\ status[p] = "left" /\ traced' = traced \cup {p} /\ revived' = revived \cup {p}
        /\ resumable' \subseteq resumable \cup {p}
        /\ UNCHANGED <<bufferSize, gaugeVars, openSpans, buffer, roomVars>>
    BY <1>6 DEF Revives, Traces
  <2>2. RoomTypeOK' /\ UNCHANGED status /\ RoomMembers' = RoomMembers
    BY <1>1, <2>1 DEF roomVars, RoomTypeOK, RoomMembers
  <2> QED
    BY <2>1, <2>2, TraceKeeps
<1> QED
  BY <1>2, <1>3, <1>4, <1>5, <1>6 DEF MetricsNext


LEMMA MetricsStarts ==
  ASSUME RoomInit, MetricsInit
  PROVE  MetricsInv
<1>1. /\ peersCurrent = 0 /\ peersPeak = 0 /\ traced = {} /\ openSpans = {} /\ buffer = << >>
      /\ bufferSize \in 1..BufferSize /\ resumable = {} /\ revived = {}
      /\ most = 0 /\ doubled = FALSE /\ ever = FALSE
  BY DEF MetricsInit
<1>2. \A p \in Peers : status[p] = "outside"
  BY DEF RoomInit
<1>3. RoomMembers = {} /\ Cardinality(RoomMembers) = 0
  <2>1. RoomMembers = {}
    BY <1>2 DEF RoomMembers, Inside
  <2> QED
    BY <2>1, FS_EmptySet
<1>4. MetricsTypeOK
  <2>1. RoomTypeOK
    BY DEF RoomInit, RoomTypeOK, Status, Inside
  <2>2. buffer \in Seq(Peers)
    BY <1>1, EmptySeq
  <2>3. 0 \in 0..MaxPeers
    BY RoomLifeAssumption
  <2> QED
    BY <1>1, <2>1, <2>2, <2>3 DEF MetricsTypeOK
<1>5. GaugesExplained /\ GaugesFollow
  BY <1>1, <1>3, RoomLifeAssumption DEF GaugesExplained, GaugesFollow
<1>6. TracesFollow /\ SpansFollow
  BY <1>1, <1>2 DEF TracesFollow, SpansFollow, Inside
<1> QED
  BY <1>4, <1>5, <1>6 DEF MetricsInv, MetricsHold

LEMMA MetricsStays ==
  ASSUME MetricsInv, UNCHANGED <<metricsVars, roomVars>>
  PROVE  MetricsInv'
<1>1. /\ UNCHANGED <<bufferSize, peersCurrent, peersPeak, most, doubled, ever>>
      /\ UNCHANGED <<traced, openSpans, buffer, resumable, revived, roomVars>>
  BY DEF metricsVars, gaugeVars
<1>2. RoomTypeOK' /\ RoomMembers' = RoomMembers
  BY <1>1 DEF MetricsInv, MetricsHold, MetricsTypeOK, RoomTypeOK, RoomMembers, roomVars
<1> QED
  BY <1>1, <1>2 DEF MetricsInv, MetricsHold, MetricsTypeOK, GaugesExplained, TracesFollow,
     GaugesFollow, SpansFollow, roomVars

-----------------------------------------------------------------------------
(* The rotation of the audit log. *)

Buffer(i) == streams[i].buffer
File(i) == streams[i].file

(* The newest stream is the one written to, if any is; the older ones have   *)
(* ended.  The path names the newest file, and so does the newest stream     *)
(* once it is open; no stream is in a file that has not been made.           *)
NewestWrites ==
  /\ writer \in {0, Len(streams)} /\ streams # << >>
  /\ path \in {0, Len(files)}
  /\ File(Len(streams)) # 0 => path = File(Len(streams))
  /\ \A i \in DOMAIN streams : File(i) <= Len(files)

(* Buffers hold the entries in their order, those of older streams first,    *)
(* and no entry that is lost.                                                *)
BuffersInOrder ==
  /\ \A i, j \in DOMAIN streams : \A k \in DOMAIN Buffer(i), l \in DOMAIN Buffer(j) :
       i < j \/ (i = j /\ k < l) => Buffer(i)[k] < Buffer(j)[l]
  /\ Buffered \subseteq 1..noted /\ Buffered \cap unwritten = {}

(* An older stream was ended before it had opened its file, or is in a file  *)
(* older than that of any newer one.                                         *)
FilesApart ==
  \A i \in DOMAIN streams : i # Len(streams) =>
    \/ ToSet(Buffer(i)) \subseteq unopened
    \/ /\ File(i) # 0 /\ (path # 0 => File(i) < path)
       /\ \A j \in DOMAIN streams : i < j /\ File(j) # 0 => File(i) < File(j)

(* What is buffered comes behind all that stands in the files up to that of  *)
(* its stream, the newest stream's behind everything, and before what stands *)
(* in newer files.                                                           *)
BufferedBehind ==
  \A i \in DOMAIN streams, l \in Lines :
    \A e \in ToSet(Buffer(i)) \ unopened :
      Entry(l) \notin unopened =>
        /\ i = Len(streams) \/ l[1] <= File(i) => Entry(l) < e
        /\ File(i) # 0 /\ File(i) < l[1] => e < Entry(l)

AuditInv ==
  /\ AuditHolds
  /\ NewestWrites /\ BuffersInOrder /\ FilesApart /\ BufferedBehind

(* The types of the parts, one by one. *)
LEMMA AuditTypes ==
  ASSUME AuditTypeOK
  PROVE  /\ noted \in Nat /\ Len(streams) \in Nat /\ DOMAIN streams = 1..Len(streams)
         /\ \A i \in DOMAIN streams :
              /\ streams[i] \in Stream /\ File(i) \in Nat /\ Buffer(i) \in Seq(Nat)
              /\ Len(Buffer(i)) \in Nat /\ DOMAIN Buffer(i) = 1..Len(Buffer(i))
              /\ \A k \in DOMAIN Buffer(i) : Buffer(i)[k] \in Nat /\ Buffer(i)[k] \in Buffered
         /\ Len(files) \in Nat /\ DOMAIN files = 1..Len(files)
         /\ \A f \in DOMAIN files :
              /\ files[f] \in Seq(1..noted) /\ Len(files[f]) \in Nat
              /\ DOMAIN files[f] = 1..Len(files[f])
              /\ \A k \in DOMAIN files[f] : files[f][k] \in 1..noted
<1>1. noted \in Nat /\ streams \in Seq(Stream) /\ files \in Seq(Seq(1..noted))
  BY AuditAssumption DEF AuditTypeOK
<1>2. /\ Len(streams) \in Nat /\ DOMAIN streams = 1..Len(streams)
      /\ Len(files) \in Nat /\ DOMAIN files = 1..Len(files)
  BY <1>1, LenProperties
<1>3. ASSUME NEW i \in DOMAIN streams
      PROVE  /\ streams[i] \in Stream /\ File(i) \in Nat /\ Buffer(i) \in Seq(Nat)
             /\ Len(Buffer(i)) \in Nat /\ DOMAIN Buffer(i) = 1..Len(Buffer(i))
             /\ \A k \in DOMAIN Buffer(i) : Buffer(i)[k] \in Nat /\ Buffer(i)[k] \in Buffered
  <2>1. streams[i] \in Stream
    BY <1>1, <1>2, ElementOfSeq
  <2>2. File(i) \in Nat /\ Buffer(i) \in Seq(Nat)
    BY <2>1 DEF Stream, File, Buffer
  <2>3. Len(Buffer(i)) \in Nat /\ DOMAIN Buffer(i) = 1..Len(Buffer(i))
    BY <2>2, LenProperties
  <2>4. \A k \in DOMAIN Buffer(i) : Buffer(i)[k] \in Nat
    BY <2>2, <2>3, ElementOfSeq
  <2>5. \A k \in DOMAIN Buffer(i) : Buffer(i)[k] \in Buffered
    BY DEF Buffered, Buffer, ToSet
  <2> QED
    BY <2>1, <2>2, <2>3, <2>4, <2>5
<1>4. ASSUME NEW f \in DOMAIN files
      PROVE  /\ files[f] \in Seq(1..noted) /\ Len(files[f]) \in Nat
             /\ DOMAIN files[f] = 1..Len(files[f])
             /\ \A k \in DOMAIN files[f] : files[f][k] \in 1..noted
  <2>1. files[f] \in Seq(1..noted)
    BY <1>1, <1>2, ElementOfSeq
  <2>2. Len(files[f]) \in Nat /\ DOMAIN files[f] = 1..Len(files[f])
    BY <2>1, LenProperties
  <2> QED
    BY <2>1, <2>2, ElementOfSeq
<1> QED
  BY <1>1, <1>2, <1>3, <1>4

LEMMA LinesAre ==
  ASSUME AuditTypeOK
  PROVE  /\ \A l \in Lines : /\ l = <<l[1], l[2]>> /\ Entry(l) \in 1..noted
                             /\ l[1] \in 1..Len(files) /\ l[2] \in 1..Len(files[l[1]])
         /\ \A f \in DOMAIN files : \A k \in DOMAIN files[f] : <<f, k>> \in Lines
<1>1. ASSUME NEW l \in Lines
      PROVE  /\ l = <<l[1], l[2]>> /\ Entry(l) \in 1..noted
             /\ l[1] \in 1..Len(files) /\ l[2] \in 1..Len(files[l[1]])
  <2> PICK f \in DOMAIN files : l \in {f} \X DOMAIN files[f]
    BY <1>1 DEF Lines
  <2>1. l = <<l[1], l[2]>> /\ l[1] = f /\ l[2] \in DOMAIN files[f]
    OBVIOUS
  <2> QED
    BY <2>1, AuditTypes DEF Entry
<1>2. ASSUME NEW f \in DOMAIN files, NEW k \in DOMAIN files[f]
      PROVE  <<f, k>> \in Lines
  BY <1>2 DEF Lines
<1> QED
  BY <1>1, <1>2

(* Whose place a buffered entry is, and no other's. *)
LEMMA BufferedAt ==
  /\ \A e \in Buffered : \E i \in DOMAIN streams : \E k \in DOMAIN Buffer(i) : e = Buffer(i)[k]
  /\ \A i \in DOMAIN streams :
       \A e \in ToSet(Buffer(i)) : \E k \in DOMAIN Buffer(i) : e = Buffer(i)[k]
  BY DEF Buffered, Buffer, ToSet

LEMMA BuffersDisjoint ==
  ASSUME AuditTypeOK, BuffersInOrder,
         NEW i \in DOMAIN streams, NEW j \in DOMAIN streams, i # j
  PROVE  ToSet(Buffer(i)) \cap ToSet(Buffer(j)) = {}
<1> SUFFICES ASSUME NEW k \in DOMAIN Buffer(i), NEW l \in DOMAIN Buffer(j),
                    Buffer(i)[k] = Buffer(j)[l]
             PROVE  FALSE
  BY BufferedAt
<1>1. i \in Nat /\ j \in Nat /\ Buffer(i)[k] \in Nat /\ Buffer(j)[l] \in Nat
  BY AuditTypes
<1>2. i < j \/ j < i
  BY <1>1
<1>3. Buffer(i)[k] < Buffer(j)[l] \/ Buffer(j)[l] < Buffer(i)[k]
  BY <1>2 DEF BuffersInOrder
<1> QED
  BY <1>1, <1>3

(* Steps that write nothing to a file and open none: an entry comes to the   *)
(* newest buffer, buffers are dropped, streams end, and a new stream is made *)
(* behind a rename.                                                          *)
BuffersMove ==
  \A i \in DOMAIN streams :
    /\ i \in DOMAIN streams' /\ File(i)' = File(i)
    /\ \/ Buffer(i)' = Buffer(i) \/ Buffer(i)' = << >>
       \/ /\ i = Len(streams) /\ noted' = noted + 1
          /\ Buffer(i)' = Append(Buffer(i), noted')

StreamMade ==
  \/ Len(streams') = Len(streams) /\ path' = path
  \/ /\ Len(streams') = Len(streams) + 1 /\ path' = 0
     /\ streams'[Len(streams) + 1] = Fresh
     /\ File(Len(streams)) = 0 => ToSet(streams'[Len(streams)].buffer) \subseteq unopened'

AllAccounted ==
  /\ unopened \subseteq unopened' /\ unwritten \subseteq unwritten'
  /\ unwritten' \cup Buffered' = unwritten \cup Buffered \cup (1..noted' \ 1..noted)
  /\ unwritten' \cap Buffered' = {}

LogMoves ==
  /\ files' = files /\ noted' \in {noted, noted + 1} /\ writer' \in {0, Len(streams')}
  /\ BuffersMove /\ StreamMade /\ AllAccounted

LEMMA BuffersKeep ==
  ASSUME AuditInv, AuditTypeOK', LogMoves
  PROVE  AuditInv'
<1>1. AuditTypeOK /\ NewestWrites /\ BuffersInOrder /\ FilesApart /\ BufferedBehind
      /\ EveryEntryKept /\ FilesInOrder
  BY DEF AuditInv, AuditHolds
<1>f. files' = files /\ BuffersMove /\ StreamMade /\ AllAccounted
      /\ noted' \in {noted, noted + 1} /\ writer' \in {0, Len(streams')}
  BY SMTT(40) DEF LogMoves
<1> PICK n \in Nat : n = Len(streams)
  BY <1>1, AuditTypes
<1> PICK n1 \in {n, n + 1} : n1 = Len(streams')
  BY <1>f DEF StreamMade
<1>g. (n1 = n /\ path' = path) \/ (n1 = n + 1 /\ path' = 0)
  BY <1>f DEF StreamMade
<1>2. /\ n # 0 /\ DOMAIN streams = 1..n /\ n \in DOMAIN streams
      /\ n1 \in Nat /\ DOMAIN streams' = 1..n1 /\ noted \in Nat /\ noted' \in Nat
      /\ Len(files) \in Nat
  <2>1. noted \in Nat /\ Len(files) \in Nat /\ DOMAIN streams = 1..n
    BY <1>1, AuditTypes
  <2>2. streams \in Seq(Stream) /\ streams # << >> /\ streams' \in Seq(Stream)
    BY <1>1 DEF AuditTypeOK, NewestWrites
  <2>3. n # 0 /\ DOMAIN streams' = 1..n1
    BY <2>2, EmptySeq, LenProperties
  <2> QED
    BY <1>f, <2>1, <2>3
<1>3. Lines' = Lines /\ \A l \in Lines : Entry(l)' = Entry(l)
  BY <1>f DEF Lines, Entry
<1>4. \A l \in Lines : Entry(l) \in 1..noted /\ l[1] \in 1..Len(files)
  BY <1>1, LinesAre
<1>5. ASSUME n1 = n + 1
      PROVE  /\ File(n1)' = 0 /\ DOMAIN Buffer(n1)' = {} /\ path' = 0
             /\ File(n) = 0 => ToSet(Buffer(n))' \subseteq unopened'
  <2>1. streams'[n1] = Fresh /\ path' = 0
        /\ (File(n) = 0 => ToSet(streams'[n].buffer) \subseteq unopened')
    BY <1>f, <1>5 DEF StreamMade
  <2>2. File(n1)' = 0 /\ Buffer(n1)' = << >>
    BY <2>1 DEF Fresh, File, Buffer
  <2>3. ToSet(streams'[n].buffer) = ToSet(Buffer(n))'
    BY DEF Buffer, ToSet
  <2> QED
    BY <2>1, <2>2, <2>3
(* where the entry at a place in a new buffer comes from *)
<1>6. ASSUME NEW i \in DOMAIN streams', NEW k \in DOMAIN Buffer(i)'
      PROVE  /\ i \in DOMAIN streams /\ Buffer(i)'[k] \in Nat
             /\ \/ /\ k \in DOMAIN Buffer(i) /\ Buffer(i)'[k] = Buffer(i)[k]
                   /\ Buffer(i)[k] \in 1..noted
                \/ /\ i = n /\ k = Len(Buffer(i)) + 1 /\ k \notin DOMAIN Buffer(i)
                   /\ noted' = noted + 1 /\ Buffer(i)'[k] = noted + 1
  <2>1. i \in DOMAIN streams
    BY <1>2, <1>5, <1>6
  <2>2. /\ Buffer(i) \in Seq(Nat) /\ Len(Buffer(i)) \in Nat
        /\ DOMAIN Buffer(i) = 1..Len(Buffer(i))
        /\ \A m \in DOMAIN Buffer(i) : Buffer(i)[m] \in Nat /\ Buffer(i)[m] \in 1..noted
    BY <1>1, <2>1, AuditTypes DEF BuffersInOrder
  <2>a. \/ Buffer(i)' = Buffer(i) \/ Buffer(i)' = << >>
        \/ i = n /\ noted' = noted + 1 /\ Buffer(i)' = Append(Buffer(i), noted')
    BY <1>f, <2>1 DEF BuffersMove
  <2>3. CASE Buffer(i)' = Buffer(i)
    BY <1>6, <2>1, <2>2, <2>3
  <2>4. CASE Buffer(i)' = << >>
    BY <1>6, <2>4
  <2>5. CASE i = n /\ noted' = noted + 1 /\ Buffer(i)' = Append(Buffer(i), noted')
    <3>1. /\ DOMAIN Buffer(i)' = 1..Len(Buffer(i)) + 1
          /\ \A m \in 1..Len(Buffer(i)) : Buffer(i)'[m] = Buffer(i)[m]
          /\ Buffer(i)'[Len(Buffer(i)) + 1] = noted'
      <4>1. /\ Append(Buffer(i), noted') \in Seq(Nat)
            /\ Len(Append(Buffer(i), noted')) = Len(Buffer(i)) + 1
            /\ \A m \in 1..Len(Buffer(i)) : Append(Buffer(i), noted')[m] = Buffer(i)[m]
            /\ Append(Buffer(i), noted')[Len(Buffer(i)) + 1] = noted'
        BY <1>2, <2>2, AppendProperties
      <4>2. DOMAIN Append(Buffer(i), noted') = 1..Len(Buffer(i)) + 1
        BY <4>1, LenProperties
      <4> QED
        BY <2>5, <4>1, <4>2
    <3>2. k \in 1..Len(Buffer(i)) \/ k = Len(Buffer(i)) + 1
      BY <1>6, <2>2, <3>1
    <3> QED
      BY <1>2, <2>1, <2>2, <2>5, <3>1, <3>2
  <2> QED
    BY <2>a, <2>3, <2>4, <2>5
<1>7. ASSUME NEW i \in DOMAIN streams', NEW e \in ToSet(Buffer(i))'
      PROVE  /\ i \in DOMAIN streams
             /\ e \in ToSet(Buffer(i)) \/ (i = n /\ noted' = noted + 1 /\ e = noted + 1)
  <2> PICK k \in DOMAIN Buffer(i)' : e = Buffer(i)'[k]
    BY <1>7 DEF ToSet
  <2>1. /\ i \in DOMAIN streams
        /\ \/ k \in DOMAIN Buffer(i) /\ e = Buffer(i)[k]
           \/ i = n /\ noted' = noted + 1 /\ e = noted + 1
    BY <1>6
  <2>2. k \in DOMAIN Buffer(i) /\ e = Buffer(i)[k] => e \in ToSet(Buffer(i))
    BY DEF ToSet
  <2>3. e \in ToSet(Buffer(i)) \/ (i = n /\ noted' = noted + 1 /\ e = noted + 1)
    BY <2>1, <2>2
  <2> QED
    BY <2>1, <2>3
<1>8. NewestWrites'
  <2>1. /\ writer' \in {0, n1} /\ path' \in {0, Len(files')} /\ n1 # 0
    BY <1>1, <1>2, <1>f, <1>g DEF NewestWrites
  <2>2. File(n1)' # 0 => path' = File(n1)'
    <3>1. CASE n1 = n
      <4>1. path' = path /\ File(n1)' = File(n)
        BY <1>2, <1>f, <1>g, <3>1 DEF BuffersMove
      <4> QED
        BY <1>1, <4>1 DEF NewestWrites
    <3>2. CASE n1 = n + 1
      BY <1>5, <3>2
    <3> QED
      BY <3>1, <3>2
  <2>3. \A i \in DOMAIN streams' : File(i)' <= Len(files')
    <3> TAKE i \in DOMAIN streams'
    <3>1. CASE i \in DOMAIN streams
      BY <1>1, <1>f, <3>1 DEF NewestWrites, BuffersMove
    <3>2. CASE i \notin DOMAIN streams
      <4>1. n1 = n + 1 /\ i = n1
        BY <1>2, <3>2
      <4> QED
        BY <1>2, <1>5, <1>f, <4>1
    <3> QED
      BY <3>1, <3>2
  <2>4. streams' # << >>
    BY <1>2, <2>1, EmptySeq
  <2> QED
    BY <2>1, <2>2, <2>3, <2>4 DEF NewestWrites
<1>9. BuffersInOrder'
  <2>1. ASSUME NEW i \in DOMAIN streams', NEW j \in DOMAIN streams',
               NEW k \in DOMAIN Buffer(i)', NEW l \in DOMAIN Buffer(j)',
               i < j \/ (i = j /\ k < l)
        PROVE  Buffer(i)'[k] < Buffer(j)'[l]
    <3>1. i \in DOMAIN streams /\ j \in DOMAIN streams /\ i <= n /\ j <= n
      BY <1>2, <1>6
    <3>2. CASE l \in DOMAIN Buffer(j) /\ Buffer(j)'[l] = Buffer(j)[l] /\ k \in DOMAIN Buffer(i)
               /\ Buffer(i)'[k] = Buffer(i)[k]
      BY <1>1, <2>1, <3>1, <3>2 DEF BuffersInOrder
    <3>3. CASE k \notin DOMAIN Buffer(i)
      <4>1. i = n /\ k = Len(Buffer(n)) + 1
        BY <1>6, <3>3
      <4>2. j = n /\ k < l
        BY <1>2, <2>1, <3>1, <4>1
      <4>3. Len(Buffer(n)) \in Nat /\ DOMAIN Buffer(n) = 1..Len(Buffer(n))
        BY <1>1, <1>2, AuditTypes
      <4>4. l \in DOMAIN Buffer(n) \/ l = Len(Buffer(n)) + 1
        BY <1>6, <4>2
      <4> QED
        BY <4>1, <4>2, <4>3, <4>4
    <3>4. CASE k \in DOMAIN Buffer(i) /\ l \notin DOMAIN Buffer(j)
      BY <1>2, <1>6, <3>4
    <3>5. k \in DOMAIN Buffer(i) => Buffer(i)'[k] = Buffer(i)[k]
      BY <1>6
    <3>6. l \in DOMAIN Buffer(j) => Buffer(j)'[l] = Buffer(j)[l]
      BY <1>6
    <3> QED
      BY <3>2, <3>3, <3>4, <3>5, <3>6
  <2>2. Buffered' \subseteq 1..noted'
    <3>1. Buffered \subseteq 1..noted /\ unwritten \subseteq 1..noted
      BY <1>1 DEF BuffersInOrder, AuditTypeOK
    <3>2. 1..noted \subseteq 1..noted'
      BY <1>2, <1>f
    <3> QED
      BY <1>f, <3>1, <3>2 DEF AllAccounted
  <2> QED
    BY <1>f, <2>1, <2>2 DEF BuffersInOrder, AllAccounted
<1>10. FilesApart'
  <2> SUFFICES ASSUME NEW i \in DOMAIN streams', i # n1
               PROVE  \/ ToSet(Buffer(i))' \subseteq unopened'
                      \/ /\ File(i)' # 0 /\ (path' # 0 => File(i)' < path')
                         /\ \A j \in DOMAIN streams' :
                              i < j /\ File(j)' # 0 => File(i)' < File(j)'
    BY DEF FilesApart
  <2>1. i \in DOMAIN streams /\ File(i)' = File(i)
    BY <1>2, <1>f DEF BuffersMove
  <2>2. CASE i = n
    <3>1. n1 = n + 1
      BY <1>2, <2>2
    <3>2. \A j \in DOMAIN streams' : i < j => j = n1
      BY <1>2, <2>2, <3>1
    <3> QED
      BY <1>5, <2>1, <2>2, <3>1, <3>2
  <2>3. CASE i # n /\ ToSet(Buffer(i)) \subseteq unopened
    BY <1>7, <1>f, <2>3 DEF AllAccounted
  <2>4. CASE i # n /\ ~(ToSet(Buffer(i)) \subseteq unopened)
    <3>1. /\ File(i) # 0 /\ (path # 0 => File(i) < path)
          /\ \A j \in DOMAIN streams : i < j /\ File(j) # 0 => File(i) < File(j)
      BY <1>1, <2>1, <2>4 DEF FilesApart
    <3>2. ASSUME NEW j \in DOMAIN streams', File(j)' # 0
          PROVE  j \in DOMAIN streams /\ File(j)' = File(j)
      <4>1. j \in DOMAIN streams
        <5>1. j \in 1..n \/ (j = n + 1 /\ n1 = n + 1)
          BY <1>2
        <5> QED
          BY <1>2, <1>5, <3>2, <5>1
      <4> QED
        BY <1>f, <4>1 DEF BuffersMove
    <3>3. path' # 0 => path' = path
      BY <1>g
    <3> QED
      BY <2>1, <3>1, <3>2, <3>3
  <2> QED
    BY <2>2, <2>3, <2>4
<1>11. BufferedBehind'
  <2> SUFFICES ASSUME NEW i \in DOMAIN streams', NEW l \in Lines,
                      NEW e \in ToSet(Buffer(i))' \ unopened', Entry(l) \notin unopened'
               PROVE  /\ i = n1 \/ l[1] <= File(i)' => Entry(l) < e
                      /\ File(i)' # 0 /\ File(i)' < l[1] => e < Entry(l)
    BY <1>3, <1>2 DEF BufferedBehind
  <2>1. i \in DOMAIN streams /\ File(i)' = File(i)
    BY <1>7, <1>f DEF BuffersMove
  <2>2. i = n1 => i = n
    BY <1>2, <2>1
  <2>3. CASE e \in ToSet(Buffer(i))
    <3>1. e \in ToSet(Buffer(i)) \ unopened /\ Entry(l) \notin unopened
      BY <1>f, <2>3 DEF AllAccounted
    <3> QED
      BY <1>1, <2>1, <2>2, <3>1 DEF BufferedBehind
  <2>4. CASE e \notin ToSet(Buffer(i))
    <3>1. i = n /\ e = noted + 1
      BY <1>7, <2>4
    <3>2. Entry(l) < e
      BY <1>2, <1>4, <3>1
    <3>3. File(i) # 0 => l[1] <= File(i)
      <4>1. File(i) # 0 => File(i) = path /\ path = Len(files)
        BY <1>1, <3>1 DEF NewestWrites
      <4> QED
        BY <1>2, <1>4, <4>1
    <3>4. File(i) \in Nat /\ l[1] \in Nat
      BY <1>1, <1>4, <2>1, AuditTypes
    <3> QED
      BY <2>1, <3>2, <3>3, <3>4
  <2> QED
    BY <2>3, <2>4
<1>12. EveryEntryKept'
  <2>1. {Entry(l) : l \in Lines}' = {Entry(l) : l \in Lines}
    BY <1>3
  <2>2. 1..noted' = 1..noted \cup (1..noted' \ 1..noted)
    BY <1>2, <1>f
  <2>3. 1..noted' = (unwritten' \cup Buffered') \cup {Entry(l) : l \in Lines}
    BY <1>1, <1>f, <2>2 DEF EveryEntryKept, AllAccounted
  <2>4. \A l \in Lines : Entry(l) \notin unwritten' \cup Buffered'
    BY <1>1, <1>4, <1>f DEF EveryEntryKept, AllAccounted
  <2>5. \A l, m \in Lines : Entry(l) = Entry(m) => l = m
    BY <1>1 DEF EveryEntryKept
  <2>6. (1..noted = unwritten \cup Buffered \cup {Entry(l) : l \in Lines})'
    BY <2>1, <2>3
  <2> QED
    BY <1>3, <2>4, <2>5, <2>6 DEF EveryEntryKept
<1>13. FilesInOrder'
  <2> SUFFICES ASSUME NEW l \in Lines, NEW m \in Lines, Above(l, m),
                      {Entry(l), Entry(m)} \cap unopened' = {}
               PROVE  Entry(l) < Entry(m)
    BY <1>3 DEF FilesInOrder, Above
  <2> QED
    BY <1>1, <1>f DEF FilesInOrder, AllAccounted
<1> QED
  BY <1>8, <1>9, <1>10, <1>11, <1>12, <1>13 DEF AuditInv, AuditHolds

(* A buffer is dropped. *)
LEMMA BufferDropped ==
  ASSUME AuditTypeOK, BuffersInOrder, NEW i \in DOMAIN streams,
         DOMAIN streams \subseteq DOMAIN streams', Buffer(i)' = << >>,
         \A j \in DOMAIN streams \ {i} : Buffer(j)' = Buffer(j),
         \A j \in DOMAIN streams' \ DOMAIN streams : Buffer(j)' = << >>
  PROVE  Buffered' = Buffered \ ToSet(Buffer(i))
<1>1. Buffered' = UNION {ToSet(Buffer(j)) : j \in DOMAIN streams \ {i}}
  <2>1. \A j \in DOMAIN streams \ {i} : ToSet(Buffer(j))' = ToSet(Buffer(j))
    BY DEF ToSet
  <2>2. \A j \in DOMAIN streams' : j = i \/ j \notin DOMAIN streams => ToSet(Buffer(j))' = {}
    BY DEF ToSet
  <2>3. Buffered' = UNION {ToSet(Buffer(j))' : j \in DOMAIN streams'}
    BY DEF Buffered, Buffer, ToSet
  <2> QED
    BY <2>1, <2>2, <2>3
<1>2. Buffered = UNION {ToSet(Buffer(j)) : j \in DOMAIN streams}
  BY DEF Buffered, Buffer
<1>3. \A j \in DOMAIN streams \ {i} : ToSet(Buffer(j)) \cap ToSet(Buffer(i)) = {}
  BY BuffersDisjoint
<1> QED
  BY <1>1, <1>2, <1>3

(* An entry comes to the end of a buffer. *)
LEMMA BufferGrows ==
  ASSUME AuditTypeOK, NEW i \in DOMAIN streams, NEW e \in Nat,
         DOMAIN streams \subseteq DOMAIN streams', Buffer(i)' = Append(Buffer(i), e),
         \A j \in DOMAIN streams \ {i} : Buffer(j)' = Buffer(j),
         \A j \in DOMAIN streams' \ DOMAIN streams : Buffer(j)' = << >>
  PROVE  Buffered' = Buffered \cup {e} /\ ToSet(Buffer(i))' = ToSet(Buffer(i)) \cup {e}
<1>1. ToSet(Buffer(i))' = ToSet(Buffer(i)) \cup {e}
  <2>1. /\ Buffer(i) \in Seq(Nat) /\ Len(Buffer(i)) \in Nat
        /\ DOMAIN Buffer(i) = 1..Len(Buffer(i))
    BY AuditTypes
  <2> DEFINE new == Append(Buffer(i), e)
  <2>2. /\ DOMAIN new = 1..Len(Buffer(i)) + 1
        /\ \A m \in 1..Len(Buffer(i)) : new[m] = Buffer(i)[m]
        /\ new[Len(Buffer(i)) + 1] = e
    BY <2>1, AppendProperties, LenProperties
  <2>3. ToSet(Buffer(i))' = {new[m] : m \in DOMAIN new}
    BY DEF ToSet
  <2> HIDE DEF new
  <2>4. DOMAIN new = DOMAIN Buffer(i) \cup {Len(Buffer(i)) + 1}
    BY <2>1, <2>2
  <2> QED
    BY <2>1, <2>2, <2>3, <2>4 DEF ToSet
<1>2. Buffered' = UNION {ToSet(Buffer(j))' : j \in DOMAIN streams'}
  BY DEF Buffered, Buffer, ToSet
<1>3. \A j \in DOMAIN streams \ {i} : ToSet(Buffer(j))' = ToSet(Buffer(j))
  BY DEF ToSet
<1>4. \A j \in DOMAIN streams' : j \notin DOMAIN streams => ToSet(Buffer(j))' = {}
  BY DEF ToSet
<1>5. Buffered = UNION {ToSet(Buffer(j)) : j \in DOMAIN streams}
  BY DEF Buffered, Buffer
<1>6. ASSUME NEW x \in Buffered'
      PROVE  x \in Buffered \cup {e}
  <2> PICK j \in DOMAIN streams' : x \in ToSet(Buffer(j))'
    BY <1>2, <1>6
  <2> QED
    BY <1>1, <1>3, <1>4, <1>5
<1>7. ASSUME NEW x \in Buffered
      PROVE  x \in Buffered'
  <2> PICK j \in DOMAIN streams : x \in ToSet(Buffer(j))
    BY <1>5, <1>7
  <2>1. x \in ToSet(Buffer(j))' /\ j \in DOMAIN streams'
    BY <1>1, <1>3
  <2> QED
    BY <1>2, <2>1
<1>8. e \in Buffered'
  BY <1>1, <1>2
<1> QED
  BY <1>1, <1>6, <1>7, <1>8

(* The streams behind a write: those it left, perhaps with the newest ended  *)
(* and another one made.                                                     *)
LEMMA RotationMakes ==
  ASSUME AuditTypeOK, NEW ss \in Seq(Stream), Len(ss) = Len(streams),
         writer = Len(streams), writer # 0, CheckRotation(ss)
  PROVE  /\ streams' \in Seq(Stream) /\ writer' = Len(streams')
         /\ \A i \in DOMAIN streams :
              /\ i \in DOMAIN streams'
              /\ streams'[i].file = ss[i].file /\ streams'[i].buffer = ss[i].buffer
         /\ \A i \in DOMAIN streams' \ DOMAIN streams : streams'[i] = Fresh
         /\ \/ Len(streams') = Len(streams) /\ path' = path
            \/ /\ Len(streams') = Len(streams) + 1 /\ path' = 0
               /\ streams'[Len(streams) + 1] = Fresh
               /\ ss[writer].file = 0 => ToSet(ss[writer].buffer) \subseteq unopened'
         /\ unopened \subseteq unopened' /\ unopened' \subseteq unopened \cup ToSet(ss[writer].buffer)
<1>1. /\ Len(ss) \in Nat /\ DOMAIN ss = 1..Len(ss) /\ DOMAIN streams = 1..Len(ss)
      /\ writer \in DOMAIN ss
  BY AuditTypes, LenProperties
<1> DEFINE ended == [ss EXCEPT ![writer].ended = TRUE]
<1>2. /\ ss[writer] \in Stream
      /\ [ss[writer] EXCEPT !.ended = TRUE] \in Stream
      /\ [ss[writer] EXCEPT !.ended = TRUE].file = ss[writer].file
      /\ [ss[writer] EXCEPT !.ended = TRUE].buffer = ss[writer].buffer
  <2>1. ss[writer] \in Stream
    BY <1>1, ElementOfSeq
  <2> QED
    BY <2>1 DEF Stream
<1>3. /\ ended \in Seq(Stream) /\ Len(ended) = Len(ss) /\ DOMAIN ended = DOMAIN ss
      /\ \A i \in DOMAIN ss : ended[i].file = ss[i].file /\ ended[i].buffer = ss[i].buffer
  <2>1. ended = [ss EXCEPT ![writer] = [ss[writer] EXCEPT !.ended = TRUE]]
    OBVIOUS
  <2>2. /\ ended \in Seq(Stream) /\ Len(ended) = Len(ss)
        /\ \A i \in 1..Len(ss) :
             ended[i] = IF i = writer THEN [ss[writer] EXCEPT !.ended = TRUE] ELSE ss[i]
    BY <1>1, <1>2, <2>1, ExceptSeq
  <2> HIDE DEF ended
  <2>3. \A i \in DOMAIN ss : ended[i].file = ss[i].file /\ ended[i].buffer = ss[i].buffer
    BY <1>1, <1>2, <2>2
  <2>4. DOMAIN ended = DOMAIN ss
    BY <1>1, <2>2, LenProperties
  <2> QED
    BY <2>2, <2>3, <2>4
<1>4. Fresh \in Stream
  <2>1. << >> \in Seq(Nat)
    BY EmptySeq
  <2> QED
    BY <2>1 DEF Fresh, Stream
<1>5. CASE path # 0 /\ Len(files[path]) >= MaxSize
  <2>1. /\ \/ streams' = Append(ended, Fresh) /\ writer' = Len(ss) + 1 /\ path' = 0
           \/ streams' = ended /\ UNCHANGED <<writer, path>>
        /\ unopened' = IF ss[writer].file = 0 THEN unopened \cup ToSet(ss[writer].buffer)
                       ELSE unopened
    BY <1>5 DEF CheckRotation, Rotates
  <2> HIDE DEF ended
  <2>2. CASE streams' = ended /\ UNCHANGED <<writer, path>>
    BY <1>1, <1>3, <2>1, <2>2, ZenonT(60)
  <2>3. CASE streams' = Append(ended, Fresh) /\ writer' = Len(ss) + 1 /\ path' = 0
    <3>1. /\ streams' \in Seq(Stream) /\ Len(streams') = Len(ss) + 1
          /\ \A i \in 1..Len(ss) : streams'[i] = ended[i]
          /\ streams'[Len(ss) + 1] = Fresh
      BY <1>3, <1>4, <2>3, AppendProperties
    <3>2. DOMAIN streams' = 1..Len(ss) + 1
      BY <3>1, LenProperties
    <3>3. \A i \in DOMAIN streams' \ DOMAIN streams : i = Len(ss) + 1
      BY <1>1, <3>2
    <3>4. \A i \in DOMAIN streams : i \in DOMAIN streams' /\ streams'[i] = ended[i]
      BY <1>1, <3>1, <3>2, SMTT(40)
    <3> QED
      BY <1>1, <1>3, <2>1, <2>3, <3>1, <3>3, <3>4
  <2> QED
    BY <2>1, <2>2, <2>3
<1>6. CASE ~(path # 0 /\ Len(files[path]) >= MaxSize)
  <2>1. streams' = ss /\ UNCHANGED <<writer, path, unopened>>
    BY <1>6 DEF CheckRotation
  <2> QED
    BY <1>1, <2>1
<1> QED
  BY <1>5, <1>6


(* One stream is changed. *)
LEMMA StreamChanged ==
  ASSUME AuditTypeOK, NEW i \in DOMAIN streams, NEW s \in Stream
  PROVE  /\ [streams EXCEPT ![i] = s] \in Seq(Stream)
         /\ Len([streams EXCEPT ![i] = s]) = Len(streams)
         /\ DOMAIN [streams EXCEPT ![i] = s] = DOMAIN streams
         /\ [streams EXCEPT ![i] = s][i] = s
         /\ \A j \in DOMAIN streams \ {i} : [streams EXCEPT ![i] = s][j] = streams[j]
<1>1. streams \in Seq(Stream) /\ DOMAIN streams = 1..Len(streams)
  BY AuditTypes DEF AuditTypeOK
<1>2. /\ [streams EXCEPT ![i] = s] \in Seq(Stream)
      /\ Len([streams EXCEPT ![i] = s]) = Len(streams)
  BY <1>1, ExceptSeq
<1> QED
  BY <1>1, <1>2

LEMMA LogTypes ==
  ASSUME AuditTypeOK, files' = files, noted' \in {noted, noted + 1}, noted' <= MaxEntries,
         starts' \in 0..MaxStarts, streams' \in Seq(Stream), writer' \in 0..Len(streams'),
         path' \in {0, path}, unwritten' \subseteq 1..noted', unopened' \subseteq 1..noted'
  PROVE  AuditTypeOK'
<1>1. noted \in Nat /\ Len(files) \in Nat /\ files \in Seq(Seq(1..noted))
  BY AuditTypes DEF AuditTypeOK
<1>2. 1..noted \subseteq 1..noted' /\ noted' \in 0..MaxEntries
  BY <1>1, AuditAssumption
<1>3. files' \in Seq(Seq(1..noted'))
  <2>1. Seq(1..noted) \subseteq Seq(1..noted')
    BY <1>2, SeqMonotonic
  <2>2. Seq(Seq(1..noted)) \subseteq Seq(Seq(1..noted'))
    BY <2>1, SeqMonotonic
  <2> QED
    BY <1>1, <2>2
<1>4. path' \in 0..Len(files')
  BY <1>1 DEF AuditTypeOK
<1> QED
  BY <1>2, <1>3, <1>4 DEF AuditTypeOK

LEMMA NoteStep ==
  ASSUME AuditInv, Note
  PROVE  AuditInv'
<1>1. AuditTypeOK /\ NewestWrites /\ BuffersInOrder
  BY DEF AuditInv, AuditHolds
<1>2. /\ noted \in Nat /\ noted' = noted + 1 /\ noted' <= MaxEntries /\ noted' \in Nat
      /\ files' = files /\ starts' = starts /\ starts \in 0..MaxStarts
      /\ Buffered \subseteq 1..noted /\ unwritten \subseteq 1..noted /\ unopened \subseteq 1..noted
      /\ unwritten \cap Buffered = {}
  BY <1>1, AuditTypes, AuditAssumption DEF Note, AuditTypeOK, BuffersInOrder
<1>3. 1..noted' = 1..noted \cup {noted'} /\ noted' \notin 1..noted
  BY <1>2
<1> SUFFICES AuditTypeOK' /\ LogMoves
  BY BuffersKeep
<1>4. CASE writer = 0
  <2>1. /\ unwritten' = unwritten \cup {noted'}
        /\ streams' = streams /\ writer' = 0 /\ path' = path /\ unopened' = unopened
    BY <1>4 DEF Note
  <2>2. Buffered' = Buffered /\ BuffersMove /\ StreamMade
    BY <2>1 DEF Buffered, BuffersMove, StreamMade, File, Buffer
  <2>3. AllAccounted
    BY <1>2, <1>3, <2>1, <2>2 DEF AllAccounted
  <2>4. Len(streams) \in Nat
    BY <1>1, AuditTypes
  <2>5. unwritten' \subseteq 1..noted' /\ unopened' \subseteq 1..noted'
    BY <1>2, <1>3, <2>1
  <2>6. AuditTypeOK'
    BY <1>1, <1>2, <2>1, <2>4, <2>5, LogTypes DEF AuditTypeOK
  <2> QED
    BY <1>2, <2>1, <2>2, <2>3, <2>6 DEF LogMoves
<1>5. CASE writer # 0
  <2>a. Len(streams) \in DOMAIN streams /\ writer = Len(streams)
    <3>1. Len(streams) \in Nat /\ DOMAIN streams = 1..Len(streams)
      BY <1>1, AuditTypes
    <3>2. writer = Len(streams)
      BY <1>1, <1>5 DEF NewestWrites
    <3> QED
      BY <1>5, <3>1, <3>2
  <2> PICK w \in DOMAIN streams : w = writer /\ w = Len(streams) /\ w # 0
    BY <1>5, <2>a
  <2>1. /\ streams[w] \in Stream /\ Buffer(w) \in Seq(Nat) /\ Len(streams) \in Nat
        /\ DOMAIN streams = 1..Len(streams)
    BY <1>1, AuditTypes
  (* what the rotation makes of streams with another buffer in the newest *)
  <2>2. ASSUME NEW b \in Seq(Nat), CheckRotation([streams EXCEPT ![w].buffer = b])
        PROVE  /\ Buffer(w)' = b /\ File(w)' = File(w)
               /\ \A i \in DOMAIN streams \ {w} : Buffer(i)' = Buffer(i) /\ File(i)' = File(i)
               /\ DOMAIN streams \subseteq DOMAIN streams'
               /\ \A i \in DOMAIN streams' \ DOMAIN streams : Buffer(i)' = << >>
               /\ streams' \in Seq(Stream) /\ writer' = Len(streams') /\ path' \in {0, path}
               /\ StreamMade
               /\ unopened \subseteq unopened' /\ unopened' \subseteq unopened \cup ToSet(Buffer(w))'
    <3> PICK ss : ss = [streams EXCEPT ![w].buffer = b]
      OBVIOUS
    <3>1. /\ ss = [streams EXCEPT ![w] = [streams[w] EXCEPT !.buffer = b]]
          /\ [streams[w] EXCEPT !.buffer = b] \in Stream
          /\ [streams[w] EXCEPT !.buffer = b].buffer = b
          /\ [streams[w] EXCEPT !.buffer = b].file = streams[w].file
      BY <2>1 DEF Stream
    <3>2. /\ ss \in Seq(Stream) /\ Len(ss) = Len(streams)
          /\ ss[w].buffer = b /\ ss[w].file = streams[w].file
          /\ \A j \in DOMAIN streams \ {w} : ss[j] = streams[j]
      <4> PICK s \in Stream : s = [streams[w] EXCEPT !.buffer = b]
        BY <3>1
      <4>1. ss = [streams EXCEPT ![w] = s] /\ s.buffer = b /\ s.file = streams[w].file
        BY <3>1
      <4>2. /\ ss \in Seq(Stream) /\ Len(ss) = Len(streams) /\ ss[w] = s
            /\ \A j \in DOMAIN streams \ {w} : ss[j] = streams[j]
        BY <1>1, <4>1, StreamChanged
      <4> QED
        BY <4>1, <4>2
    <3>3. CheckRotation(ss)
      BY <2>2
    <3>4. /\ streams' \in Seq(Stream) /\ writer' = Len(streams')
          /\ \A i \in DOMAIN streams :
               /\ i \in DOMAIN streams'
               /\ streams'[i].file = ss[i].file /\ streams'[i].buffer = ss[i].buffer
          /\ \A i \in DOMAIN streams' \ DOMAIN streams : streams'[i] = Fresh
          /\ \/ Len(streams') = Len(streams) /\ path' = path
             \/ /\ Len(streams') = Len(streams) + 1 /\ path' = 0
                /\ streams'[Len(streams) + 1] = Fresh
                /\ ss[writer].file = 0 => ToSet(ss[writer].buffer) \subseteq unopened'
          /\ unopened \subseteq unopened'
          /\ unopened' \subseteq unopened \cup ToSet(ss[writer].buffer)
      BY <1>1, <3>2, <3>3, RotationMakes
    <3>5. streams'[w].buffer = b /\ ToSet(Buffer(w))' = ToSet(b)
      BY <3>2, <3>4 DEF Buffer, ToSet
    <3>6. StreamMade
      BY <3>2, <3>4, <3>5 DEF StreamMade, File
    <3>7. Buffer(w)' = b /\ File(w)' = File(w)
      BY <3>2, <3>4 DEF Buffer, File
    <3>8. \A i \in DOMAIN streams \ {w} : Buffer(i)' = Buffer(i) /\ File(i)' = File(i)
      BY <3>2, <3>4 DEF Buffer, File
    <3>9. \A i \in DOMAIN streams' \ DOMAIN streams : Buffer(i)' = << >>
      BY <3>4 DEF Buffer, Fresh
    <3>10. unopened \subseteq unopened' /\ unopened' \subseteq unopened \cup ToSet(Buffer(w))'
      BY <3>2, <3>4, <3>5
    <3>11. DOMAIN streams \subseteq DOMAIN streams' /\ path' \in {0, path}
      BY <3>4
    <3> QED
      BY <3>4, <3>6, <3>7, <3>8, <3>9, <3>10, <3>11
  <2>3. CASE ~ streams[w].ended
    <3>1. CheckRotation([streams EXCEPT ![w].buffer = Append(Buffer(w), noted')])
          /\ unwritten' = unwritten
      BY <2>3 DEF Note, Buffer
    <3> PICK b \in Seq(Nat) : b = Append(Buffer(w), noted')
      BY <1>2, <2>1, AppendProperties
    <3>2. /\ Buffer(w)' = b /\ File(w)' = File(w)
          /\ \A i \in DOMAIN streams \ {w} : Buffer(i)' = Buffer(i) /\ File(i)' = File(i)
          /\ DOMAIN streams \subseteq DOMAIN streams'
          /\ \A i \in DOMAIN streams' \ DOMAIN streams : Buffer(i)' = << >>
          /\ streams' \in Seq(Stream) /\ writer' = Len(streams') /\ path' \in {0, path}
          /\ StreamMade
          /\ unopened \subseteq unopened' /\ unopened' \subseteq unopened \cup ToSet(Buffer(w))'
      BY <2>2, <3>1
    <3>3. /\ Buffered' = Buffered \cup {noted'}
          /\ ToSet(Buffer(w))' = ToSet(Buffer(w)) \cup {noted'}
      BY <1>1, <1>2, <3>2, BufferGrows
    <3>4. ToSet(Buffer(w)) \subseteq Buffered
      BY DEF Buffered, Buffer
    <3>5. unwritten' \subseteq 1..noted' /\ unopened' \subseteq 1..noted'
      BY <1>2, <1>3, <3>1, <3>2, <3>3, <3>4
    <3>6. AllAccounted
      BY <1>2, <1>3, <3>1, <3>2, <3>3 DEF AllAccounted
    <3>7. BuffersMove
      BY <1>2, <3>2 DEF BuffersMove
    <3>8. Len(streams') \in Nat
      BY <3>2, LenProperties
    <3>9. AuditTypeOK'
      BY <1>1, <1>2, <3>2, <3>5, <3>8, LogTypes
    <3> QED
      BY <1>2, <3>2, <3>6, <3>7, <3>9 DEF LogMoves
  <2>4. CASE streams[w].ended
    <3>1. /\ CheckRotation([streams EXCEPT ![w].buffer = << >>])
          /\ unwritten' = unwritten \cup {noted'} \cup ToSet(Buffer(w))
      BY <2>4 DEF Note, Buffer
    <3>2. /\ Buffer(w)' = << >> /\ File(w)' = File(w)
          /\ \A i \in DOMAIN streams \ {w} : Buffer(i)' = Buffer(i) /\ File(i)' = File(i)
          /\ DOMAIN streams \subseteq DOMAIN streams'
          /\ \A i \in DOMAIN streams' \ DOMAIN streams : Buffer(i)' = << >>
          /\ streams' \in Seq(Stream) /\ writer' = Len(streams') /\ path' \in {0, path}
          /\ StreamMade
          /\ unopened \subseteq unopened' /\ unopened' \subseteq unopened \cup ToSet(Buffer(w))'
      <4>1. << >> \in Seq(Nat)
        BY EmptySeq
      <4> QED
        BY <2>2, <3>1, <4>1
    <3>3. Buffered' = Buffered \ ToSet(Buffer(w)) /\ ToSet(Buffer(w))' = {}
      BY <1>1, <3>2, BufferDropped DEF ToSet
    <3>4. ToSet(Buffer(w)) \subseteq Buffered
      BY DEF Buffered, Buffer
    <3>5. unwritten' \subseteq 1..noted' /\ unopened' \subseteq 1..noted'
      BY <1>2, <1>3, <3>1, <3>2, <3>3, <3>4
    <3>6. AllAccounted
      BY <1>2, <1>3, <3>1, <3>2, <3>3, <3>4 DEF AllAccounted
    <3>7. BuffersMove
      BY <1>2, <3>2 DEF BuffersMove
    <3>8. Len(streams') \in Nat
      BY <3>2, LenProperties
    <3>9. AuditTypeOK'
      BY <1>1, <1>2, <3>2, <3>5, <3>8, LogTypes
    <3> QED
      BY <1>2, <3>2, <3>6, <3>7, <3>9 DEF LogMoves
  <2> QED
    BY <2>3, <2>4
<1> QED
  BY <1>4, <1>5

LEMMA CloseLogStep ==
  ASSUME AuditInv, CloseLog
  PROVE  AuditInv'
<1>1. AuditTypeOK /\ NewestWrites /\ BuffersInOrder
  BY DEF AuditInv, AuditHolds
<1>a. Len(streams) \in Nat /\ DOMAIN streams = 1..Len(streams) /\ noted \in Nat
  BY <1>1, AuditTypes
<1> PICK w \in DOMAIN streams : w = writer
  BY <1>1, <1>a DEF CloseLog, AuditTypeOK
<1> PICK s \in Stream : s = [streams[w] EXCEPT !.ended = TRUE]
  BY <1>1, AuditTypes DEF Stream
<1>2. s.file = streams[w].file /\ s.buffer = streams[w].buffer
  BY <1>1, AuditTypes DEF Stream
<1>3. /\ streams' = [streams EXCEPT ![w] = s] /\ writer' = 0
      /\ UNCHANGED <<noted, files, path, starts, unwritten, unopened>>
  BY DEF CloseLog
<1>4. /\ streams' \in Seq(Stream) /\ Len(streams') = Len(streams)
      /\ DOMAIN streams' = DOMAIN streams /\ streams'[w] = s
      /\ \A j \in DOMAIN streams \ {w} : streams'[j] = streams[j]
  BY <1>1, <1>3, StreamChanged
<1>5. \A i \in DOMAIN streams : streams'[i].file = streams[i].file
                               /\ streams'[i].buffer = streams[i].buffer
  BY <1>2, <1>4
<1>6. BuffersMove /\ Buffered' = Buffered
  BY <1>4, <1>5 DEF BuffersMove, Buffered, Buffer, File
<1>7. AllAccounted
  BY <1>1, <1>3, <1>6 DEF AllAccounted, BuffersInOrder
<1>8. AuditTypeOK'
  <2>1. noted' \in {noted, noted + 1} /\ noted' <= MaxEntries /\ starts' \in 0..MaxStarts
        /\ path' \in {0, path} /\ unwritten' \subseteq 1..noted' /\ unopened' \subseteq 1..noted'
    BY <1>1, <1>3, <1>a, AuditAssumption, SMTT(40) DEF AuditTypeOK
  <2>2. files' = files /\ writer' \in 0..Len(streams')
    BY <1>3, <1>4, <1>a
  <2> QED
    BY <1>1, <1>4, <2>1, <2>2, LogTypes
<1>9. LogMoves
  BY <1>3, <1>4, <1>6, <1>7 DEF LogMoves, StreamMade
<1> QED
  BY <1>8, <1>9, BuffersKeep

LEMMA BreaksStep ==
  ASSUME AuditInv, NEW i \in DOMAIN streams, Breaks(i)
  PROVE  AuditInv'
<1>1. AuditTypeOK /\ NewestWrites /\ BuffersInOrder
  BY DEF AuditInv, AuditHolds
<1>a. Len(streams) \in Nat /\ DOMAIN streams = 1..Len(streams) /\ noted \in Nat
  BY <1>1, AuditTypes
<1> PICK s \in Stream : s = [streams[i] EXCEPT !.ended = TRUE, !.buffer = << >>]
  BY <1>1, AuditTypes, EmptySeq DEF Stream
<1>2. s.file = streams[i].file /\ s.buffer = << >>
  BY <1>1, AuditTypes DEF Stream
<1>3. /\ streams' = [streams EXCEPT ![i] = s]
      /\ unwritten' = unwritten \cup ToSet(Buffer(i))
      /\ UNCHANGED <<noted, writer, files, path, starts, unopened>>
  BY DEF Breaks, Buffer
<1>4. /\ streams' \in Seq(Stream) /\ Len(streams') = Len(streams)
      /\ DOMAIN streams' = DOMAIN streams /\ streams'[i] = s
      /\ \A j \in DOMAIN streams \ {i} : streams'[j] = streams[j]
  BY <1>1, <1>3, StreamChanged
<1>5. /\ Buffer(i)' = << >> /\ \A j \in DOMAIN streams \ {i} : Buffer(j)' = Buffer(j)
      /\ \A j \in DOMAIN streams : File(j)' = File(j)
  BY <1>2, <1>4 DEF Buffer, File
<1>6. Buffered' = Buffered \ ToSet(Buffer(i)) /\ ToSet(Buffer(i)) \subseteq Buffered
  <2>1. Buffered' = Buffered \ ToSet(Buffer(i))
    BY <1>1, <1>4, <1>5, BufferDropped
  <2> QED
    BY <2>1 DEF Buffered, Buffer
<1>7. AllAccounted
  BY <1>1, <1>3, <1>6 DEF AllAccounted, BuffersInOrder
<1>8. AuditTypeOK'
  <2>1. noted' \in {noted, noted + 1} /\ noted' <= MaxEntries /\ starts' \in 0..MaxStarts
        /\ path' \in {0, path} /\ unopened' \subseteq 1..noted'
        /\ writer' \in 0..Len(streams') /\ files' = files
    BY <1>1, <1>3, <1>4, <1>a, AuditAssumption DEF AuditTypeOK
  <2>2. unwritten' \subseteq 1..noted'
    BY <1>1, <1>3, <1>6, SMTT(40) DEF AuditTypeOK, BuffersInOrder
  <2> QED
    BY <1>1, <1>4, <2>1, <2>2, LogTypes
<1>9. LogMoves
  <2>1. BuffersMove
    BY <1>4, <1>5 DEF BuffersMove
  <2>2. writer' \in {0, Len(streams')}
    BY <1>1, <1>3, <1>4 DEF NewestWrites
  <2> QED
    BY <1>3, <1>4, <1>7, <2>1, <2>2 DEF LogMoves, StreamMade
<1> QED
  BY <1>8, <1>9, BuffersKeep

LEMMA RestartsStep ==
  ASSUME AuditInv, Restarts
  PROVE  AuditInv'
<1>1. /\ AuditTypeOK /\ NewestWrites /\ BuffersInOrder /\ EveryEntryKept /\ FilesInOrder
  BY DEF AuditInv, AuditHolds
<1>2. /\ unwritten' = unwritten \cup Buffered /\ streams' = <<Fresh>> /\ writer' = 1
      /\ starts' \in 0..MaxStarts /\ UNCHANGED <<noted, files, path, unopened>>
  BY <1>1, AuditAssumption DEF Restarts, Buffered, AuditTypeOK
<1>3. /\ streams' \in Seq(Stream) /\ Len(streams') = 1 /\ DOMAIN streams' = {1}
      /\ File(1)' = 0 /\ Buffer(1)' = << >> /\ ToSet(Buffer(1))' = {}
  <2>1. Fresh \in Stream
    BY EmptySeq DEF Fresh, Stream
  <2>2. streams' \in Seq(Stream) /\ Len(streams') = 1 /\ streams'[1] = Fresh
    BY <1>2, <2>1
  <2>3. DOMAIN streams' = {1}
    BY <2>2, LenProperties
  <2>4. File(1)' = 0 /\ Buffer(1)' = << >>
    BY <2>2 DEF Fresh, File, Buffer
  <2> QED
    BY <2>2, <2>3, <2>4 DEF ToSet
<1>4. Buffered' = {}
  BY <1>3 DEF Buffered, Buffer
<1>5. unwritten' \subseteq 1..noted'
  BY <1>1, <1>2 DEF BuffersInOrder, AuditTypeOK
<1>6. AuditTypeOK'
  BY <1>1, <1>2, <1>3, <1>5 DEF AuditTypeOK
<1>7. NewestWrites'
  <2>1. streams' # << >>
    BY <1>3, EmptySeq
  <2>2. Len(files) \in Nat
    BY <1>1, AuditTypes
  <2>3. \A i \in DOMAIN streams' : File(i)' <= Len(files')
    BY <1>2, <1>3, <2>2
  <2>4. writer' \in {0, Len(streams')} /\ path' \in {0, Len(files')}
    BY <1>1, <1>2, <1>3 DEF NewestWrites
  <2>5. File(Len(streams))' # 0 => path' = File(Len(streams))'
    BY <1>3 DEF File
  <2> QED
    BY <2>1, <2>3, <2>4, <2>5 DEF NewestWrites
<1>8. BuffersInOrder' /\ FilesApart' /\ BufferedBehind'
  BY <1>3, <1>4 DEF BuffersInOrder, FilesApart, BufferedBehind
<1>9. EveryEntryKept'
  <2>1. Lines' = Lines /\ \A l \in Lines : Entry(l)' = Entry(l)
    BY <1>2 DEF Lines, Entry
  <2>2. {Entry(l) : l \in Lines}' = {Entry(l) : l \in Lines}
    BY <2>1
  <2>3. unwritten' \cup Buffered' = unwritten \cup Buffered
    BY <1>2, <1>4
  <2>4. (1..noted = unwritten \cup Buffered \cup {Entry(l) : l \in Lines})'
    BY <1>1, <1>2, <2>2, <2>3 DEF EveryEntryKept
  <2> QED
    BY <1>1, <2>1, <2>3, <2>4 DEF EveryEntryKept
<1>10. FilesInOrder'
  BY <1>1, <1>2 DEF FilesInOrder, Lines, Entry, Above
<1> QED
  BY <1>6, <1>7, <1>8, <1>9, <1>10 DEF AuditInv, AuditHolds

(* A stream opens its file: the one at the path, or a new, empty one.        *)
LEMMA OpensStep ==
  ASSUME AuditInv, NEW i \in DOMAIN streams, Opens(i)
  PROVE  AuditInv'
<1>1. /\ AuditTypeOK /\ NewestWrites /\ BuffersInOrder /\ FilesApart /\ BufferedBehind
      /\ EveryEntryKept /\ FilesInOrder
  BY DEF AuditInv, AuditHolds
<1>2. /\ File(i) = 0 /\ UNCHANGED <<noted, writer, starts, unwritten, unopened>>
      /\ \/ path = 0 /\ files' = Append(files, << >>) /\ path' = Len(files')
         \/ path # 0 /\ files' = files /\ path' = path
  BY SMTT(40) DEF Opens, File
<1> PICK n \in Nat : n = Len(streams)
  BY <1>1, AuditTypes, ZenonT(60)
<1> PICK f \in Nat : f = Len(files)
  BY <1>1, AuditTypes
<1>a. DOMAIN streams = 1..n /\ i \in 1..n /\ DOMAIN files = 1..f
  BY <1>1, AuditTypes
(* the files *)
<1>3. /\ files' \in Seq(Seq(1..noted)) /\ DOMAIN files' = 1..Len(files') /\ Len(files') \in Nat
      /\ path' = Len(files') /\ path' # 0 /\ f <= path' /\ (path # 0 => path' = path)
      /\ Lines' = Lines /\ \A l \in Lines : Entry(l)' = Entry(l)
  <2>1. files \in Seq(Seq(1..noted)) /\ << >> \in Seq(1..noted)
    BY <1>1, EmptySeq DEF AuditTypeOK
  <2>2. CASE path = 0
    <3>1. files' = Append(files, << >>) /\ path' = Len(files')
      BY <1>2, <2>2
    <3>2. /\ files' \in Seq(Seq(1..noted)) /\ Len(files') = f + 1
          /\ \A k \in 1..f : files'[k] = files[k]
          /\ files'[f + 1] = << >>
      BY <2>1, <3>1, AppendProperties
    <3>3. DOMAIN files' = 1..f + 1
      BY <3>2, LenProperties
    <3>4. DOMAIN files' = DOMAIN files \cup {f + 1} /\ DOMAIN files'[f + 1] = {}
      BY <1>a, <3>2, <3>3
    <3>5. Lines' = Lines
      BY <1>a, <3>2, <3>4 DEF Lines
    <3>6. \A l \in Lines : Entry(l)' = Entry(l)
      BY <1>1, <3>2, LinesAre DEF Entry
    <3> QED
      BY <2>2, <3>1, <3>2, <3>3, <3>5, <3>6
  <2>3. CASE path # 0
    <3>1. files' = files /\ path' = path /\ path = f
      BY <1>1, <1>2, <2>3 DEF NewestWrites
    <3> QED
      BY <1>a, <2>1, <2>3, <3>1 DEF Lines, Entry
  <2> QED
    BY <2>2, <2>3
(* the streams *)
<1> PICK s \in Stream : s = [streams[i] EXCEPT !.file = path']
  BY <1>1, <1>3, AuditTypes DEF Stream
<1>4. s.file = path' /\ s.buffer = streams[i].buffer
  BY <1>1, AuditTypes DEF Stream
<1>5. streams' = [streams EXCEPT ![i] = s]
  BY DEF Opens
<1>6. /\ streams' \in Seq(Stream) /\ Len(streams') = n /\ DOMAIN streams' = DOMAIN streams
      /\ streams'[i] = s /\ \A j \in DOMAIN streams \ {i} : streams'[j] = streams[j]
  BY <1>1, <1>5, StreamChanged
<1>7. /\ File(i)' = path' /\ \A j \in DOMAIN streams \ {i} : File(j)' = File(j)
      /\ \A j \in DOMAIN streams : Buffer(j)' = Buffer(j)
      /\ \A j \in DOMAIN streams : ToSet(Buffer(j))' = ToSet(Buffer(j))
      /\ Buffered' = Buffered
  <2>1. /\ File(i)' = path' /\ \A j \in DOMAIN streams \ {i} : File(j)' = File(j)
        /\ \A j \in DOMAIN streams : Buffer(j)' = Buffer(j)
    BY <1>4, <1>6 DEF File, Buffer
  <2>2. Buffered' = Buffered
    BY <1>6, <2>1 DEF Buffered, Buffer
  <2> QED
    BY <2>1, <2>2 DEF ToSet
<1>8. AuditTypeOK'
  <2>1. writer' \in 0..Len(streams')
    BY <1>1, <1>2, <1>6 DEF AuditTypeOK
  <2>2. path' \in 0..Len(files')
    BY <1>3
  <2> QED
    BY <1>1, <1>2, <1>3, <1>6, <2>1, <2>2 DEF AuditTypeOK
<1>9. NewestWrites'
  <2>1. streams' # << >>
    BY <1>6, <1>a, EmptySeq, SMTT(40)
  <2>2. writer' \in {0, Len(streams')} /\ path' \in {0, Len(files')}
    BY <1>1, <1>2, <1>3, <1>6 DEF NewestWrites
  <2>3. File(n)' # 0 => path' = File(n)'
    BY <1>1, <1>3, <1>7, <1>a, SMTT(40) DEF NewestWrites
  <2>4. \A j \in DOMAIN streams' : File(j)' <= Len(files')
    <3> TAKE j \in DOMAIN streams'
    <3>1. File(j) \in Nat /\ File(j) <= f
      BY <1>1, <1>6, AuditTypes DEF NewestWrites
    <3> QED
      BY <1>3, <1>6, <1>7, <3>1
  <2> QED
    BY <1>6, <2>1, <2>2, <2>3, <2>4 DEF NewestWrites
<1>10. BuffersInOrder'
  <2>1. \A j, k \in DOMAIN streams : \A m \in DOMAIN Buffer(j)', l \in DOMAIN Buffer(k)' :
          j < k \/ (j = k /\ m < l) => Buffer(j)'[m] < Buffer(k)'[l]
    BY <1>1, <1>7 DEF BuffersInOrder
  <2> QED
    BY <1>1, <1>2, <1>6, <1>7, <2>1 DEF BuffersInOrder
<1>11. FilesApart'
  <2> SUFFICES ASSUME NEW j \in DOMAIN streams, j # n, ~(ToSet(Buffer(j)) \subseteq unopened)
               PROVE  /\ File(j)' # 0 /\ (path' # 0 => File(j)' < path')
                      /\ \A k \in DOMAIN streams : j < k /\ File(k)' # 0 => File(j)' < File(k)'
    BY <1>2, <1>6, <1>7 DEF FilesApart
  <2>1. /\ File(j) # 0 /\ (path # 0 => File(j) < path)
        /\ \A k \in DOMAIN streams : j < k /\ File(k) # 0 => File(j) < File(k)
    BY <1>1 DEF FilesApart
  <2>2. j # i /\ File(j)' = File(j) /\ File(j) \in Nat /\ File(j) <= f
    BY <1>1, <1>2, <1>7, <2>1, AuditTypes DEF NewestWrites
  <2>3. File(j) < path'
    <3>1. CASE path # 0
      BY <1>3, <2>1, <3>1
    <3>2. CASE path = 0
      <4>1. path' = f + 1
        <5>1. files' = Append(files, << >>) /\ path' = Len(files')
          BY <1>2, <3>2
        <5>2. files \in Seq(Seq(1..noted)) /\ << >> \in Seq(1..noted)
          BY <1>1, EmptySeq DEF AuditTypeOK
        <5> QED
          BY <5>1, <5>2, AppendProperties
      <4> QED
        BY <2>2, <4>1
    <3> QED
      BY <3>1, <3>2
  <2>4. ASSUME NEW k \in DOMAIN streams, j < k, File(k)' # 0
        PROVE  File(j)' < File(k)'
    BY <1>7, <2>1, <2>2, <2>3, <2>4
  <2> QED
    BY <2>1, <2>2, <2>3, <2>4
<1>12. BufferedBehind'
  <2> SUFFICES ASSUME NEW j \in DOMAIN streams', NEW l \in Lines',
                      NEW e \in ToSet(Buffer(j))' \ unopened', Entry(l)' \notin unopened'
               PROVE  /\ j = n \/ l[1] <= File(j)' => Entry(l)' < e
                      /\ File(j)' # 0 /\ File(j)' < l[1] => e < Entry(l)'
    BY <1>6, SMTT(40) DEF BufferedBehind
  <2>a. /\ j \in DOMAIN streams /\ l \in Lines /\ Entry(l)' = Entry(l)
        /\ e \in ToSet(Buffer(j)) \ unopened /\ Entry(l) \notin unopened
    BY <1>2, <1>3, <1>6, <1>7
  <2>1. /\ j = n \/ l[1] <= File(j) => Entry(l) < e
        /\ File(j) # 0 /\ File(j) < l[1] => e < Entry(l)
    BY <1>1, <2>a DEF BufferedBehind
  <2>2. CASE j # i
    BY <1>7, <2>1, <2>2, <2>a
  <2>3. CASE j = i
    <3>1. j = n
      BY <1>1, <1>2, <2>3, <2>a DEF FilesApart
    <3>2. l[1] \in 1..f
      BY <1>1, <2>a, LinesAre
    <3> QED
      BY <1>3, <1>7, <2>1, <2>3, <2>a, <3>1, <3>2
  <2> QED
    BY <2>2, <2>3
<1>13. EveryEntryKept'
  <2>1. {Entry(l) : l \in Lines}' = {Entry(l) : l \in Lines}
    BY <1>3
  <2>2. (1..noted = unwritten \cup Buffered \cup {Entry(l) : l \in Lines})'
    BY <1>1, <1>2, <1>7, <2>1 DEF EveryEntryKept
  <2>3. \A l \in Lines : Entry(l) \notin unwritten \cup Buffered
    BY <1>1 DEF EveryEntryKept
  <2>4. \A l, m \in Lines : Entry(l) = Entry(m) => l = m
    BY <1>1, SMTT(40) DEF EveryEntryKept
  <2>5. \A l \in Lines' : Entry(l)' \notin unwritten' \cup Buffered'
    BY <1>2, <1>3, <1>7, <2>3
  <2>6. \A l, m \in Lines' : Entry(l)' = Entry(m)' => l = m
    BY <1>3, <2>4, SMTT(40)
  <2> QED
    BY <2>2, <2>5, <2>6 DEF EveryEntryKept
<1>14. FilesInOrder'
  BY <1>1, <1>2, <1>3, ZenonT(60) DEF FilesInOrder, Above
<1> QED
  BY <1>8, <1>9, <1>10, <1>11, <1>12, <1>13, <1>14 DEF AuditInv, AuditHolds

(* A stream writes the oldest entry it has buffered to the end of its file.  *)
LEMMA AppendsStep ==
  ASSUME AuditInv, NEW i \in DOMAIN streams, Appends(i)
  PROVE  AuditInv'
<1>1. /\ AuditTypeOK /\ NewestWrites /\ BuffersInOrder /\ FilesApart /\ BufferedBehind
      /\ EveryEntryKept /\ FilesInOrder
  BY DEF AuditInv, AuditHolds
<1>2. /\ File(i) # 0 /\ Buffer(i) # << >>
      /\ UNCHANGED <<noted, writer, path, starts, unwritten, unopened>>
  BY DEF Appends, File, Buffer
<1> PICK n \in Nat : n = Len(streams)
  BY <1>1, AuditTypes
<1> PICK b \in Seq(Nat) : b = Buffer(i)
  BY <1>1, AuditTypes
<1> PICK f \in DOMAIN files : f = File(i)
  <2>1. File(i) \in Nat /\ File(i) <= Len(files) /\ Len(files) \in Nat
        /\ DOMAIN files = 1..Len(files)
    BY <1>1, AuditTypes DEF NewestWrites
  <2> QED
    BY <1>2, <2>1
<1> PICK h : h = Head(b)
  OBVIOUS
<1>a. DOMAIN streams = 1..n /\ i \in 1..n /\ noted \in Nat
      /\ Len(files) \in Nat /\ DOMAIN files = 1..Len(files) /\ f \in Nat
      /\ Len(files[f]) \in Nat /\ DOMAIN files[f] = 1..Len(files[f])
  BY <1>1, AuditTypes
(* what stays buffered *)
<1>3. /\ Len(b) \in Nat \ {0} /\ DOMAIN b = 1..Len(b) /\ h = b[1]
      /\ Tail(b) \in Seq(Nat) /\ DOMAIN Tail(b) = 1..Len(b) - 1
      /\ \A k \in DOMAIN Tail(b) : k + 1 \in DOMAIN b /\ Tail(b)[k] = b[k + 1]
  <2>1. Len(b) \in Nat /\ DOMAIN b = 1..Len(b) /\ b # << >>
    BY <1>2, LenProperties
  <2>2. Len(b) # 0
    BY <2>1, EmptySeq
  <2>3. Tail(b) \in Seq(Nat) /\ Len(Tail(b)) = Len(b) - 1
        /\ \A k \in 1..Len(Tail(b)) : Tail(b)[k] = b[k + 1]
    BY <2>1, HeadTailProperties
  <2>4. DOMAIN Tail(b) = 1..Len(b) - 1
    BY <2>3, LenProperties
  <2> QED
    BY <2>1, <2>2, <2>3, <2>4
<1> PICK s \in Stream : s = [streams[i] EXCEPT !.buffer = Tail(b)]
  BY <1>1, <1>3, AuditTypes DEF Stream
<1>4. s.file = streams[i].file /\ s.buffer = Tail(b)
  BY <1>1, AuditTypes DEF Stream
<1>5. streams' = [streams EXCEPT ![i] = s]
  BY DEF Appends, Buffer
<1>6. /\ streams' \in Seq(Stream) /\ Len(streams') = n /\ DOMAIN streams' = DOMAIN streams
      /\ streams'[i] = s /\ \A j \in DOMAIN streams \ {i} : streams'[j] = streams[j]
  BY <1>1, <1>5, StreamChanged
<1>7. /\ \A j \in DOMAIN streams : File(j)' = File(j)
      /\ Buffer(i)' = Tail(b) /\ \A j \in DOMAIN streams \ {i} : Buffer(j)' = Buffer(j)
  BY <1>4, <1>6 DEF File, Buffer
<1>8. /\ \A e \in ToSet(Buffer(i))' : e \in ToSet(Buffer(i)) /\ h < e
      /\ ToSet(Buffer(i)) = ToSet(Buffer(i))' \cup {h}
      /\ h \in 1..noted /\ h \in Buffered
  <2>1. h \in Buffered /\ h \in ToSet(Buffer(i))
    BY <1>3, SMTT(40) DEF Buffered, Buffer, ToSet
  <2>2. \A k \in DOMAIN b : 1 < k => h < b[k]
    BY <1>1, <1>3 DEF BuffersInOrder
  <2>3. ASSUME NEW e \in ToSet(Buffer(i))'
        PROVE  e \in ToSet(Buffer(i)) /\ h < e
    <3> PICK k \in DOMAIN Tail(b) : e = Tail(b)[k]
      BY <1>7, <2>3 DEF ToSet
    <3>1. k + 1 \in DOMAIN b /\ 1 < k + 1 /\ e = b[k + 1]
      BY <1>3
    <3> QED
      BY <2>2, <3>1 DEF ToSet
  <2>4. ASSUME NEW e \in ToSet(Buffer(i)), e # h
        PROVE  e \in ToSet(Buffer(i))'
    <3> PICK k \in DOMAIN b : e = b[k]
      BY <2>4 DEF ToSet
    <3>1. k \in 1..Len(b) /\ k # 1
      BY <1>3, <2>4
    <3>2. k - 1 \in DOMAIN Tail(b) /\ Tail(b)[k - 1] = e
      BY <1>3, <3>1
    <3> QED
      BY <1>7, <3>2 DEF ToSet
  <2> QED
    BY <1>1, <2>1, <2>3, <2>4 DEF BuffersInOrder
<1>9. Buffered' = Buffered \ {h}
  <2>1. /\ Buffered' = UNION {ToSet(Buffer(j))' : j \in DOMAIN streams}
        /\ Buffered = UNION {ToSet(Buffer(j)) : j \in DOMAIN streams}
    BY <1>6 DEF Buffered, Buffer, ToSet
  <2>2. \A j \in DOMAIN streams \ {i} : ToSet(Buffer(j))' = ToSet(Buffer(j))
    BY <1>7 DEF ToSet
  <2>3. \A j \in DOMAIN streams \ {i} : h \notin ToSet(Buffer(j))
    BY <1>1, <1>8, BuffersDisjoint
  <2>4. h \notin ToSet(Buffer(i))'
    BY <1>8, <1>a
  <2> QED
    BY <1>8, <2>1, <2>2, <2>3, <2>4
(* the line it is written to *)
<1> PICK new : new = <<f, Len(files[f]) + 1>>
  OBVIOUS
<1>10. /\ files' \in Seq(Seq(1..noted)) /\ Len(files') = Len(files) /\ DOMAIN files' = DOMAIN files
       /\ Lines' = Lines \cup {new} /\ new \notin Lines
       /\ Entry(new)' = h /\ \A l \in Lines : Entry(l)' = Entry(l)
  <2>1. files \in Seq(Seq(1..noted)) /\ files[f] \in Seq(1..noted)
    BY <1>1, AuditTypes DEF AuditTypeOK
  <2> PICK g : g = Append(files[f], h)
    OBVIOUS
  <2>2. /\ g \in Seq(1..noted) /\ Len(g) = Len(files[f]) + 1
        /\ \A k \in 1..Len(files[f]) : g[k] = files[f][k]
        /\ g[Len(files[f]) + 1] = h
    BY <1>8, <2>1, AppendProperties
  <2>3. DOMAIN g = 1..Len(files[f]) + 1
    BY <2>2, LenProperties
  <2>4. files' = [files EXCEPT ![f] = g]
    BY DEF Appends, Buffer, File
  <2>5. /\ files' \in Seq(Seq(1..noted)) /\ Len(files') = Len(files)
    BY <1>a, <2>1, <2>2, <2>4, ExceptSeq
  <2>6. /\ DOMAIN files' = DOMAIN files /\ files'[f] = g
        /\ \A k \in DOMAIN files \ {f} : files'[k] = files[k]
    BY <2>4
  <2>7. DOMAIN g = DOMAIN files[f] \cup {Len(files[f]) + 1}
    BY <1>a, <2>3
  <2>8. new \notin Lines
    BY <1>1, <1>a, LinesAre
  <2>9. Entry(new)' = h /\ \A l \in Lines : Entry(l)' = Entry(l)
    <3>1. Entry(new)' = h
      BY <2>2, <2>6 DEF Entry
    <3>2. ASSUME NEW l \in Lines
          PROVE  Entry(l)' = Entry(l)
      <4>1. l[1] \in DOMAIN files /\ l[2] \in 1..Len(files[l[1]])
        BY <1>1, <1>a, LinesAre
      <4>2. CASE l[1] = f
        BY <2>2, <2>6, <4>1, <4>2 DEF Entry
      <4>3. CASE l[1] # f
        BY <2>6, <4>1, <4>3 DEF Entry
      <4> QED
        BY <4>2, <4>3
    <3> QED
      BY <3>1, <3>2
  <2>10. Lines' = Lines \cup {new}
    <3>1. Lines' = UNION {{k} \X DOMAIN files'[k] : k \in DOMAIN files}
      BY <2>6 DEF Lines
    <3>2. \A k \in DOMAIN files \ {f} : {k} \X DOMAIN files'[k] = {k} \X DOMAIN files[k]
      BY <2>6
    <3>3. {f} \X DOMAIN files'[f] = ({f} \X DOMAIN files[f]) \cup {new}
      BY <2>6, <2>7
    <3> QED
      BY <3>1, <3>2, <3>3 DEF Lines
  <2> QED
    BY <2>5, <2>6, <2>8, <2>9, <2>10
<1>11. AuditTypeOK'
  BY <1>1, <1>2, <1>6, <1>10 DEF AuditTypeOK
<1>12. NewestWrites'
  <2>1. streams' # << >>
    BY <1>6, <1>a, EmptySeq
  <2>2. writer' \in {0, n} /\ path' \in {0, Len(files')}
    BY <1>1, <1>2, <1>10 DEF NewestWrites
  <2>3. File(n)' # 0 => path' = File(n)'
    <3>1. n \in DOMAIN streams
      BY <1>a
    <3> QED
      BY <1>1, <1>2, <1>7, <3>1 DEF NewestWrites
  <2>4. \A j \in DOMAIN streams' : File(j)' <= Len(files')
    BY <1>1, <1>6, <1>7, <1>10 DEF NewestWrites
  <2> QED
    BY <1>6, <2>1, <2>2, <2>3, <2>4 DEF NewestWrites
<1>13. BuffersInOrder'
  <2>1. ASSUME NEW j \in DOMAIN streams, NEW m \in DOMAIN Buffer(j)'
        PROVE  \E k \in DOMAIN Buffer(j) : /\ Buffer(j)[k] = Buffer(j)'[m]
                                           /\ k = IF j = i THEN m + 1 ELSE m
    BY <1>3, <1>7, <2>1
  <2>2. ASSUME NEW j \in DOMAIN streams, NEW k \in DOMAIN streams,
               NEW m \in DOMAIN Buffer(j)', NEW l \in DOMAIN Buffer(k)',
               j < k \/ (j = k /\ m < l)
        PROVE  Buffer(j)'[m] < Buffer(k)'[l]
    <3> PICK m1 \in DOMAIN Buffer(j) : /\ Buffer(j)[m1] = Buffer(j)'[m]
                                       /\ m1 = IF j = i THEN m + 1 ELSE m
      BY <2>1
    <3> PICK l1 \in DOMAIN Buffer(k) : /\ Buffer(k)[l1] = Buffer(k)'[l]
                                       /\ l1 = IF k = i THEN l + 1 ELSE l
      BY <2>1
    <3>1. j = k /\ m < l => m1 < l1
      <4>1. ASSUME j = i PROVE m \in Nat
        BY <1>3, <1>7, <4>1
      <4>2. ASSUME k = i PROVE l \in Nat
        BY <1>3, <1>7, <4>2
      <4> QED
        BY <4>1, <4>2
    <3>2. Buffer(j)[m1] < Buffer(k)[l1]
      BY <1>1, <2>2, <3>1 DEF BuffersInOrder
    <3> QED
      BY <3>2
  <2> QED
    BY <1>1, <1>2, <1>6, <1>9, <2>2 DEF BuffersInOrder
<1>14. \A j \in DOMAIN streams : ToSet(Buffer(j))' \subseteq ToSet(Buffer(j))
  BY <1>7, <1>8 DEF ToSet
<1>15. FilesApart'
  <2>1. \A j \in DOMAIN streams : j # n =>
          \/ ToSet(Buffer(j))' \subseteq unopened
          \/ /\ File(j) # 0 /\ (path # 0 => File(j) < path)
             /\ \A k \in DOMAIN streams : j < k /\ File(k) # 0 => File(j) < File(k)
    BY <1>1, <1>14 DEF FilesApart
  <2> QED
    BY <1>2, <1>6, <1>7, <2>1 DEF FilesApart
<1>16. BufferedBehind'
  <2> SUFFICES ASSUME NEW j \in DOMAIN streams, NEW l \in Lines \cup {new},
                      NEW e \in ToSet(Buffer(j))' \ unopened, Entry(l)' \notin unopened
               PROVE  /\ j = n \/ l[1] <= File(j) => Entry(l)' < e
                      /\ File(j) # 0 /\ File(j) < l[1] => e < Entry(l)'
    BY <1>2, <1>6, <1>7, <1>10 DEF BufferedBehind
  <2>1. e \in ToSet(Buffer(j)) \ unopened
    BY <1>14
  <2>2. CASE l \in Lines
    BY <1>1, <1>10, <2>1, <2>2 DEF BufferedBehind
  <2>3. CASE l = new
    <3>1. l[1] = f /\ Entry(l)' = h /\ h \notin unopened
      BY <1>10, <2>3
    <3>2. CASE j = i
      BY <1>8, <1>a, <3>1, <3>2
    <3>3. CASE j # i
      <4>1. PICK k \in DOMAIN Buffer(j) : e = Buffer(j)[k]
        BY <2>1, BufferedAt
      <4>2. /\ i < j => h < e
            /\ j < i => e < h
        BY <1>1, <1>3, <4>1 DEF BuffersInOrder
      <4>3. i < j \/ j < i
        BY <1>a, <3>3
      <4>4. j < i => File(j) # 0 /\ File(j) < f
        <5>1. ASSUME j < i
              PROVE  j # n
          BY <1>a, <5>1
        <5> QED
          BY <1>1, <1>2, <2>1, <5>1 DEF FilesApart
      <4>5. i < j => File(j) = 0 \/ f < File(j)
        <5>1. ASSUME i < j
              PROVE  i # n /\ ~(ToSet(Buffer(i)) \subseteq unopened)
          BY <1>8, <1>a, <3>1, <5>1
        <5> QED
          BY <1>1, <5>1 DEF FilesApart
      <4>6. j < i => j # n
        BY <1>a
      <4>7. File(j) \in Nat
        BY <1>1, AuditTypes
      <4>8. CASE i < j
        BY <1>a, <3>1, <4>2, <4>5, <4>7, <4>8
      <4>9. CASE j < i
        <5>1. ~(l[1] <= File(j))
          BY <1>a, <3>1, <4>4, <4>7, <4>9
        <5> QED
          BY <3>1, <4>2, <4>6, <4>9, <5>1
      <4> QED
        BY <4>3, <4>8, <4>9
    <3> QED
      BY <3>2, <3>3
  <2> QED
    BY <2>2, <2>3
<1>17. EveryEntryKept'
  <2>1. {Entry(l) : l \in Lines}' = {Entry(l) : l \in Lines} \cup {h}
    BY <1>10
  <2>2. (1..noted = unwritten \cup Buffered \cup {Entry(l) : l \in Lines})'
    BY <1>1, <1>2, <1>8, <1>9, <2>1 DEF EveryEntryKept
  <2>3. \A l \in Lines : Entry(l) # h
    BY <1>1, <1>8 DEF EveryEntryKept
  <2>4. \A l, m \in Lines' : Entry(l)' = Entry(m)' => l = m
    <3>1. \A l, m \in Lines : Entry(l) = Entry(m) => l = m
      BY <1>1 DEF EveryEntryKept
    <3>2. \A l, m \in Lines : Entry(l)' = Entry(m)' => l = m
      BY <1>10, <3>1
    <3>3. \A l \in Lines : Entry(l)' # Entry(new)'
      BY <1>10, <2>3
    <3> QED
      BY <1>10, <3>2, <3>3, ZenonT(60)
  <2>5. h \notin unwritten
    BY <1>1, <1>8 DEF BuffersInOrder
  <2>6. \A l \in Lines' : Entry(l)' \notin unwritten' \cup Buffered'
    <3>1. \A l \in Lines : Entry(l) \notin unwritten \cup Buffered
      BY <1>1 DEF EveryEntryKept
    <3> QED
      BY <1>2, <1>9, <1>10, <2>5, <3>1
  <2> QED
    BY <2>2, <2>4, <2>6 DEF EveryEntryKept
<1>18. FilesInOrder'
  <2> SUFFICES ASSUME NEW l \in Lines', NEW m \in Lines', Above(l, m),
                      {Entry(l)', Entry(m)'} \cap unopened' = {}
               PROVE  Entry(l)' < Entry(m)'
    BY DEF FilesInOrder, Above
  <2>a. /\ l \in Lines \cup {new} /\ m \in Lines \cup {new}
        /\ Entry(l)' \notin unopened /\ Entry(m)' \notin unopened
    BY <1>2, <1>10
  <2>1. h \in ToSet(Buffer(i))
    BY <1>8
  <2>2. new[1] = f /\ new[2] = Len(files[f]) + 1
    OBVIOUS
  <2>3. CASE l \in Lines /\ m \in Lines
    <3>1. Entry(l)' = Entry(l) /\ Entry(m)' = Entry(m)
      BY <1>10, <2>3
    <3>2. {Entry(l), Entry(m)} \cap unopened = {}
      BY <2>a, <3>1
    <3>3. Entry(l) < Entry(m)
      BY <1>1, <2>3, <3>2 DEF FilesInOrder
    <3> QED
      BY <3>1, <3>3
  <2>4. CASE l \in Lines /\ m = new
    <3>1. l[1] \in Nat
      BY <1>1, <2>4, LinesAre
    <3>2. l[1] <= f
      BY <1>a, <2>2, <2>4, <3>1 DEF Above
    <3> QED
      BY <1>1, <1>10, <2>1, <2>4, <2>a, <3>2 DEF BufferedBehind
  <2>5. CASE l = new /\ m \in Lines
    <3>1. m[1] \in Nat /\ m[2] \in Nat /\ (m[1] = f => m[2] <= Len(files[f]))
      BY <1>1, <1>a, <2>5, LinesAre, SMTT(40)
    <3>2. f < m[1]
      BY <1>a, <2>2, <2>5, <3>1 DEF Above
    <3> QED
      BY <1>1, <1>2, <1>10, <2>1, <2>5, <2>a, <3>2 DEF BufferedBehind
  <2>6. CASE l = new /\ m = new
    BY <1>a, <2>2, <2>6 DEF Above
  <2> QED
    BY <2>3, <2>4, <2>5, <2>6, <2>a
<1> QED
  BY <1>11, <1>12, <1>13, <1>15, <1>16, <1>17, <1>18 DEF AuditInv, AuditHolds

LEMMA AuditStep ==
  ASSUME AuditInv, AuditNext
  PROVE  AuditInv'
<1>1. CASE Note
  BY <1>1, NoteStep
<1>2. CASE CloseLog
  BY <1>2, CloseLogStep
<1>3. CASE Restarts
  BY <1>3, RestartsStep
<1>4. CASE \E i \in DOMAIN streams : Opens(i) \/ Appends(i) \/ Breaks(i)
  BY <1>4, OpensStep, AppendsStep, BreaksStep
<1> QED
  BY <1>1, <1>2, <1>3, <1>4 DEF AuditNext

LEMMA AuditStarts ==
  ASSUME AuditInit
  PROVE  AuditInv
<1>1. /\ noted = 0 /\ starts = 0 /\ streams = <<Fresh>> /\ writer = 1 /\ files = << >>
      /\ path = 0 /\ unwritten = {} /\ unopened = {}
  BY DEF AuditInit
<1>2. /\ streams \in Seq(Stream) /\ Len(streams) = 1 /\ DOMAIN streams = {1}
      /\ File(1) = 0 /\ Buffer(1) = << >>
  <2>1. Fresh \in Stream
    BY EmptySeq DEF Fresh, Stream
  <2>2. streams \in Seq(Stream) /\ Len(streams) = 1 /\ streams[1] = Fresh
    BY <1>1, <2>1
  <2> QED
    BY <2>2, LenProperties DEF Fresh, File, Buffer
<1>3. files \in Seq(Seq(1..noted)) /\ Len(files) = 0 /\ DOMAIN files = {}
  BY <1>1, EmptySeq
<1>4. Buffered = {} /\ Lines = {}
  BY <1>2, <1>3 DEF Buffered, Buffer, Lines, ToSet
<1>5. AuditTypeOK
  BY <1>1, <1>2, <1>3, AuditAssumption DEF AuditTypeOK
<1>6. NewestWrites /\ BuffersInOrder /\ FilesApart /\ BufferedBehind
  <2>1. streams # << >>
    BY <1>2, EmptySeq
  <2> QED
    BY <1>1, <1>2, <1>3, <1>4, <2>1
       DEF NewestWrites, BuffersInOrder, FilesApart, BufferedBehind
<1>7. EveryEntryKept /\ FilesInOrder
  BY <1>1, <1>4 DEF EveryEntryKept, FilesInOrder
<1> QED
  BY <1>5, <1>6, <1>7 DEF AuditInv, AuditHolds

LEMMA AuditStays ==
  ASSUME AuditInv, UNCHANGED auditVars
  PROVE  AuditInv'
<1>1. UNCHANGED <<noted, streams, writer, files, path, starts, unwritten, unopened>>
  BY DEF auditVars
<1>2. Buffered' = Buffered /\ Lines' = Lines /\ \A l : Entry(l)' = Entry(l)
  BY <1>1 DEF Buffered, Lines, Entry
<1>3. AuditTypeOK' /\ NewestWrites' /\ FilesApart'
  BY <1>1 DEF AuditInv, AuditHolds, AuditTypeOK, NewestWrites, FilesApart, File, Buffer
<1>4. BuffersInOrder'
  BY <1>1, <1>2 DEF AuditInv, BuffersInOrder, Buffer
<1>5. BufferedBehind'
  BY <1>1, <1>2 DEF AuditInv, BufferedBehind, File, Buffer
<1>6. EveryEntryKept'
  <2>1. {Entry(l) : l \in Lines}' = {Entry(l) : l \in Lines}
    BY <1>2
  <2>2. (1..noted = unwritten \cup Buffered \cup {Entry(l) : l \in Lines})'
    BY <1>1, <1>2, <2>1 DEF AuditInv, AuditHolds, EveryEntryKept
  <2> QED
    BY <1>1, <1>2, <2>2 DEF AuditInv, AuditHolds, EveryEntryKept
<1>7. FilesInOrder'
  BY <1>1, <1>2 DEF AuditInv, AuditHolds, FilesInOrder, Above
<1> QED
  BY <1>3, <1>4, <1>5, <1>6, <1>7 DEF AuditInv, AuditHolds

(* TelemetrySafe holds: the gauges count no peer that is gone, a peer that   *)
(* left has a trace just if it was resumed after that (MetricsCollector,     *)
(* Tracer), and the rotation of the                                          *)
(* audit log keeps every entry and the order of entries, but for streams     *)
(* ended before they were open (AuditLogger._checkRotation).                 *)
THEOREM TelemetryAlwaysSafe == MediaSpec => []TelemetrySafe
<1> DEFINE Inv == /\ part = "metrics" => MetricsInv
                  /\ part = "audit" => AuditInv
<1>1. MediaInit => Inv
  <2> SUFFICES ASSUME RoomInit, MetricsInit, AuditInit
               PROVE  MetricsInv /\ AuditInv
    BY DEF MediaInit, MetricsInit
  <2>1. MetricsInv
    BY MetricsStarts
  <2>2. AuditInv
    BY AuditStarts
  <2> QED
    BY <2>1, <2>2
<1>2. Inv /\ [MediaNext]_<<part, apart, onRoom, roomVars>> => Inv'
  <2> SUFFICES ASSUME Inv, [MediaNext]_<<part, apart, onRoom, roomVars>>
               PROVE  Inv'
    OBVIOUS
  <2>1. ASSUME part' = "metrics"
        PROVE  MetricsInv'
    <3>1. CASE MetricsNext /\ part = "metrics"
      BY <3>1, MetricsStep
    <3>2. CASE part = "metrics" /\ UNCHANGED <<metricsVars, roomVars>>
      BY <3>2, MetricsStays
    <3> QED
      BY <2>1, <3>1, <3>2 DEF MediaNext, onRoom
  <2>2. ASSUME part' = "audit"
        PROVE  AuditInv'
    <3>1. CASE AuditNext /\ part = "audit"
      BY <3>1, AuditStep
    <3>2. CASE part = "audit" /\ UNCHANGED auditVars
      BY <3>2, AuditStays
    <3> QED
      BY <2>2, <3>1, <3>2 DEF MediaNext, apart
  <2> QED
    BY <2>1, <2>2
<1>3. Inv => TelemetrySafe
  BY DEF TelemetrySafe, MetricsInv, AuditInv
<1> QED
  BY <1>1, <1>2, <1>3, PTL DEF MediaSpec

-----------------------------------------------------------------------------
(* The rooms of the orchestrator. *)

Holders(at, r) == {m \in Rooms : at[m] = r}

(* Books that are explained stay so when a room is entered elsewhere.       *)
LEMMA HoldersFinite ==
  \A at, r : IsFiniteSet(Holders(at, r)) /\ Cardinality(Holders(at, r)) \in Nat
BY RegionAssumption, FS_Subset, FS_CardinalityType DEF Holders

LEMMA OneMoved ==
  ASSUME NEW old, NEW new, NEW m, IsFiniteSet(old), IsFiniteSet(new), old \ {m} = new \ {m}
  PROVE  /\ Cardinality(old) \in Nat /\ Cardinality(new) \in Nat
         /\ m \in new /\ m \notin old => Cardinality(new) = Cardinality(old) + 1
         /\ m \notin new /\ m \in old => Cardinality(new) = Cardinality(old) - 1
         /\ (m \in new <=> m \in old) => Cardinality(new) = Cardinality(old)
<1>1. Cardinality(old) \in Nat /\ Cardinality(new) \in Nat
  BY FS_CardinalityType
<1>3. Cardinality(old \ {m}) = IF m \in old THEN Cardinality(old) - 1 ELSE Cardinality(old)
  BY FS_RemoveElement
<1>4. Cardinality(new \ {m}) = IF m \in new THEN Cardinality(new) - 1 ELSE Cardinality(new)
  BY FS_RemoveElement
<1> PICK a, b, c : /\ a = Cardinality(old) /\ b = Cardinality(new) /\ c = Cardinality(old \ {m})
  OBVIOUS
<1>6. /\ a \in Nat /\ b \in Nat /\ c = (IF m \in old THEN a - 1 ELSE a)
      /\ c = (IF m \in new THEN b - 1 ELSE b)
  BY <1>1, <1>3, <1>4
<1>7. /\ m \in new /\ m \notin old => b = a + 1
      /\ m \notin new /\ m \in old => b = a - 1
      /\ (m \in new <=> m \in old) => b = a
  BY <1>6
<1> QED
  BY <1>6, <1>7

LEMMA RoomCreated ==
  ASSUME OrchestratorHolds, NEW m \in Rooms, CreateRoom(m)
  PROVE  OrchestratorHolds'
<1>0. PICK preferred \in Regions \cup {Default} : \E r \in Destinations(preferred) : Assign(m, r)
  BY DEF CreateRoom
<1>1. PICK r \in Destinations(preferred) : Assign(m, r)
  BY <1>0
<1>2. r \in Regions \cup {NOWHERE} /\ (r # NOWHERE => r \in Regions /\ health[r] # "down")
  <2>1. Usable(health) \subseteq Regions /\ \A u \in Usable(health) : health[u] # "down"
    BY DEF Usable
  <2>2. r \in Usable(health) \cup {NOWHERE}
    BY <1>1 DEF Destinations
  <2> QED
    BY <2>1, <2>2
<1>3. /\ live \subseteq Rooms /\ assigned \in [Rooms -> Regions \cup {NOWHERE}]
      /\ told \in [Rooms -> Regions \cup {NOWHERE}]
      /\ load \in [Regions -> Nat] /\ uncounted \in [Regions -> Nat]
      /\ \A q \in Regions : load[q] = Cardinality(Holders(assigned, q)) + uncounted[q]
  BY DEF OrchestratorHolds, OrchestratorTypeOK, LoadExplained, Holders, On
<1>4. /\ live' = live \cup {m} /\ told' = [told EXCEPT ![m] = NOWHERE]
      /\ UNCHANGED <<health, failed, passed, initialized>>
  BY DEF CreateRoom, checks
<1>5. CASE r = NOWHERE
  <2>1. UNCHANGED <<assigned, load, uncounted>>
    BY <1>1, <1>5 DEF Assign
  <2>2. OrchestratorTypeOK'
    BY <1>3, <1>4, <2>1 DEF OrchestratorHolds, OrchestratorTypeOK
  <2>3. RoomsAreServed'
    BY <1>3, <1>4, <2>1 DEF OrchestratorHolds, RoomsAreServed
  <2>4. LoadExplained'
    BY <2>1 DEF OrchestratorHolds, LoadExplained, On
  <2> QED
    BY <2>2, <2>3, <2>4 DEF OrchestratorHolds
<1>6. CASE r # NOWHERE
  <2>1. /\ assigned' = [assigned EXCEPT ![m] = r]
        /\ load' = [load EXCEPT ![r] = @ + 1]
        /\ uncounted' = [q \in Regions |-> uncounted[q] + IF assigned[m] = q THEN 1 ELSE 0]
        /\ r \in Regions
    BY <1>1, <1>2, <1>6 DEF Assign
  <2>2. OrchestratorTypeOK'
    BY <1>3, <1>4, <2>1 DEF OrchestratorHolds, OrchestratorTypeOK
  <2>3. RoomsAreServed'
    BY <1>2, <1>3, <1>4, <1>6, <2>1 DEF OrchestratorHolds, RoomsAreServed
  <2>4. LoadExplained'
    <3> SUFFICES ASSUME NEW q \in Regions
                 PROVE  load'[q] = Cardinality(Holders(assigned', q)) + uncounted'[q]
      BY DEF LoadExplained, Holders, On
    <3>0. assigned'[m] = r /\ \A n \in Rooms \ {m} : assigned'[n] = assigned[n]
      BY <1>3, <2>1
    <3> PICK old, new : old = Holders(assigned, q) /\ new = Holders(assigned', q)
      OBVIOUS
    <3>7. IsFiniteSet(old) /\ IsFiniteSet(new)
      BY HoldersFinite
    <3>8. (m \in old <=> assigned[m] = q) /\ (m \in new <=> r = q) /\ old \ {m} = new \ {m}
      BY <3>0 DEF Holders
    <3>9. /\ Cardinality(old) \in Nat /\ Cardinality(new) \in Nat
          /\ m \in new /\ m \notin old => Cardinality(new) = Cardinality(old) + 1
          /\ m \notin new /\ m \in old => Cardinality(new) = Cardinality(old) - 1
          /\ (m \in new <=> m \in old) => Cardinality(new) = Cardinality(old)
      BY <3>7, <3>8, OneMoved
    <3>1. /\ Cardinality(Holders(assigned', q)) \in Nat /\ Cardinality(Holders(assigned, q)) \in Nat
          /\ r = q /\ assigned[m] # q =>
               Cardinality(Holders(assigned', q)) = Cardinality(Holders(assigned, q)) + 1
          /\ r # q /\ assigned[m] = q =>
               Cardinality(Holders(assigned', q)) = Cardinality(Holders(assigned, q)) - 1
          /\ (r = q <=> assigned[m] = q) =>
               Cardinality(Holders(assigned', q)) = Cardinality(Holders(assigned, q))
      BY <3>8, <3>9
    <3>2. Cardinality(Holders(assigned, q)) \in Nat
      BY HoldersFinite
    <3> QED
      BY <1>3, <2>1, <3>1, <3>2
  <2> QED
    BY <2>2, <2>3, <2>4 DEF OrchestratorHolds
<1> QED
  BY <1>5, <1>6

(* One room less is counted where it was. *)
LEMMA Decremented ==
  ASSUME OrchestratorHolds, NEW m \in Rooms, NEW q \in Regions
  PROVE  /\ Decrement(load, assigned[m]) \in [Regions -> Nat]
         /\ Decrement(load, assigned[m])[q] = load[q] - (IF assigned[m] = q THEN 1 ELSE 0)
<1>1. /\ assigned \in [Rooms -> Regions \cup {NOWHERE}]
      /\ load \in [Regions -> Nat] /\ uncounted \in [Regions -> Nat]
      /\ \A r \in Regions : load[r] = Cardinality(Holders(assigned, r)) + uncounted[r]
  BY DEF OrchestratorHolds, OrchestratorTypeOK, LoadExplained, Holders, On
<1>2. ASSUME assigned[m] \in Regions PROVE load[assigned[m]] # 0
  <2> PICK S : S = Holders(assigned, assigned[m])
    OBVIOUS
  <2>1. m \in S /\ IsFiniteSet(S) /\ Cardinality(S) \in Nat
    BY HoldersFinite DEF Holders
  <2>2. Cardinality(S) # 0
    BY <2>1, FS_EmptySet
  <2>3. load[assigned[m]] = Cardinality(S) + uncounted[assigned[m]] /\ uncounted[assigned[m]] \in Nat
    BY <1>1, <1>2
  <2> QED
    BY <2>1, <2>2, <2>3
<1>3. CASE assigned[m] = NOWHERE
  BY <1>1, <1>3, RegionAssumption DEF Decrement
<1>4. CASE assigned[m] # NOWHERE
  <2>1. assigned[m] \in Regions
    BY <1>1, <1>4
  <2>2. load[assigned[m]] # 0 /\ load[assigned[m]] \in Nat /\ load[q] \in Nat
    BY <1>1, <1>2, <2>1
  <2> QED
    BY <1>1, <1>4, <2>1, <2>2 DEF Decrement
<1> QED
  BY <1>3, <1>4

LEMMA RoomDestroyed ==
  ASSUME OrchestratorHolds, NEW m \in Rooms, DestroyRoom(m)
  PROVE  OrchestratorHolds'
<1>1. /\ live \subseteq Rooms /\ assigned \in [Rooms -> Regions \cup {NOWHERE}]
      /\ told \in [Rooms -> Regions \cup {NOWHERE}]
      /\ load \in [Regions -> Nat] /\ uncounted \in [Regions -> Nat]
      /\ \A q \in Regions : load[q] = Cardinality(Holders(assigned, q)) + uncounted[q]
  BY DEF OrchestratorHolds, OrchestratorTypeOK, LoadExplained, Holders, On
<1>2. /\ live' = live \ {m} /\ load' = Decrement(load, assigned[m])
      /\ assigned' = [assigned EXCEPT ![m] = NOWHERE]
      /\ told' = [told EXCEPT ![m] = NOWHERE]
      /\ UNCHANGED <<health, failed, passed, initialized, uncounted>>
  BY DEF DestroyRoom, checks
<1>3. load' \in [Regions -> Nat]
  <2>1. CASE Regions = {}
    BY <1>1, <1>2, <2>1 DEF Decrement
  <2>2. CASE Regions # {}
    BY <1>2, <2>2, Decremented
  <2> QED
    BY <2>1, <2>2
<1>4. OrchestratorTypeOK'
  BY <1>1, <1>2, <1>3 DEF OrchestratorHolds, OrchestratorTypeOK
<1>5. RoomsAreServed'
  BY <1>1, <1>2 DEF OrchestratorHolds, RoomsAreServed
<1>6. LoadExplained'
  <2> SUFFICES ASSUME NEW q \in Regions
               PROVE  load'[q] = Cardinality(Holders(assigned', q)) + uncounted'[q]
    BY DEF LoadExplained, Holders, On
  <2>0. assigned'[m] = NOWHERE /\ \A n \in Rooms \ {m} : assigned'[n] = assigned[n]
    BY <1>1, <1>2
  <2> PICK old, new : old = Holders(assigned, q) /\ new = Holders(assigned', q)
    OBVIOUS
  <2>7. IsFiniteSet(old) /\ IsFiniteSet(new)
    BY HoldersFinite
  <2>8. (m \in old <=> assigned[m] = q) /\ (m \in new <=> NOWHERE = q) /\ old \ {m} = new \ {m}
    BY <2>0 DEF Holders
  <2>9. /\ Cardinality(old) \in Nat /\ Cardinality(new) \in Nat
        /\ m \in new /\ m \notin old => Cardinality(new) = Cardinality(old) + 1
        /\ m \notin new /\ m \in old => Cardinality(new) = Cardinality(old) - 1
        /\ (m \in new <=> m \in old) => Cardinality(new) = Cardinality(old)
    BY <2>7, <2>8, OneMoved
  <2>1. /\ Cardinality(Holders(assigned', q)) \in Nat /\ Cardinality(Holders(assigned, q)) \in Nat
        /\ NOWHERE = q /\ assigned[m] # q =>
             Cardinality(Holders(assigned', q)) = Cardinality(Holders(assigned, q)) + 1
        /\ NOWHERE # q /\ assigned[m] = q =>
             Cardinality(Holders(assigned', q)) = Cardinality(Holders(assigned, q)) - 1
        /\ (NOWHERE = q <=> assigned[m] = q) =>
             Cardinality(Holders(assigned', q)) = Cardinality(Holders(assigned, q))
    BY <2>8, <2>9
  <2>2. load'[q] = load[q] - (IF assigned[m] = q THEN 1 ELSE 0)
    BY <1>2, Decremented
  <2>3. Cardinality(Holders(assigned, q)) \in Nat /\ NOWHERE # q
    BY HoldersFinite, RegionAssumption
  <2> QED
    BY <1>1, <1>2, <2>1, <2>2, <2>3
<1> QED
  BY <1>4, <1>5, <1>6 DEF OrchestratorHolds

LEMMA RoomMigrated ==
  ASSUME OrchestratorHolds, NEW m \in Rooms, NEW r \in Regions, Migrate(m, r)
  PROVE  OrchestratorHolds'
<1>1. /\ live \subseteq Rooms /\ assigned \in [Rooms -> Regions \cup {NOWHERE}]
      /\ told \in [Rooms -> Regions \cup {NOWHERE}]
      /\ load \in [Regions -> Nat] /\ uncounted \in [Regions -> Nat]
      /\ \A q \in Regions : load[q] = Cardinality(Holders(assigned, q)) + uncounted[q]
  BY DEF OrchestratorHolds, OrchestratorTypeOK, LoadExplained, Holders, On
<1>2. /\ load' = [Decrement(load, assigned[m]) EXCEPT ![r] = @ + 1]
      /\ assigned' = [assigned EXCEPT ![m] = r]
      /\ told' = (IF m \in live THEN [told EXCEPT ![m] = r] ELSE told)
      /\ health[r] # "down"
      /\ UNCHANGED <<live, health, failed, passed, initialized, uncounted>>
  BY DEF Migrate, checks
<1> PICK less : less = Decrement(load, assigned[m])
  OBVIOUS
<1>3. /\ less \in [Regions -> Nat]
      /\ \A q \in Regions : less[q] = load[q] - (IF assigned[m] = q THEN 1 ELSE 0)
  BY Decremented
<1>4. load' = [less EXCEPT ![r] = @ + 1] /\ load' \in [Regions -> Nat]
  BY <1>2, <1>3
<1>5. OrchestratorTypeOK'
  BY <1>1, <1>2, <1>4 DEF OrchestratorHolds, OrchestratorTypeOK
<1>6. RoomsAreServed'
  BY <1>1, <1>2 DEF OrchestratorHolds, RoomsAreServed
<1>7. LoadExplained'
  <2> SUFFICES ASSUME NEW q \in Regions
               PROVE  load'[q] = Cardinality(Holders(assigned', q)) + uncounted'[q]
    BY DEF LoadExplained, Holders, On
  <2>0. assigned'[m] = r /\ \A n \in Rooms \ {m} : assigned'[n] = assigned[n]
    BY <1>1, <1>2
  <2> PICK old, new : old = Holders(assigned, q) /\ new = Holders(assigned', q)
    OBVIOUS
  <2>7. IsFiniteSet(old) /\ IsFiniteSet(new)
    BY HoldersFinite
  <2>8. (m \in old <=> assigned[m] = q) /\ (m \in new <=> r = q) /\ old \ {m} = new \ {m}
    BY <2>0 DEF Holders
  <2>9. /\ Cardinality(old) \in Nat /\ Cardinality(new) \in Nat
        /\ m \in new /\ m \notin old => Cardinality(new) = Cardinality(old) + 1
        /\ m \notin new /\ m \in old => Cardinality(new) = Cardinality(old) - 1
        /\ (m \in new <=> m \in old) => Cardinality(new) = Cardinality(old)
    BY <2>7, <2>8, OneMoved
  <2>1. /\ Cardinality(Holders(assigned', q)) \in Nat /\ Cardinality(Holders(assigned, q)) \in Nat
        /\ r = q /\ assigned[m] # q =>
             Cardinality(Holders(assigned', q)) = Cardinality(Holders(assigned, q)) + 1
        /\ r # q /\ assigned[m] = q =>
             Cardinality(Holders(assigned', q)) = Cardinality(Holders(assigned, q)) - 1
        /\ (r = q <=> assigned[m] = q) =>
             Cardinality(Holders(assigned', q)) = Cardinality(Holders(assigned, q))
    BY <2>8, <2>9
  <2>2. load'[q] = less[q] + (IF r = q THEN 1 ELSE 0)
    BY <1>3, <1>4
  <2>3. Cardinality(Holders(assigned, q)) \in Nat
    BY HoldersFinite
  <2> QED
    BY <1>1, <1>2, <1>3, <2>1, <2>2, <2>3
<1> QED
  BY <1>5, <1>6, <1>7 DEF OrchestratorHolds

(* Rooms that one region loses are entered where they were put. *)
LEMMA FailedOver ==
  ASSUME OrchestratorHolds, NEW r \in Regions, Failover(r),
         health' = [health EXCEPT ![r] = "down"], live' = live
  PROVE  /\ assigned' \in [Rooms -> Regions \cup {NOWHERE}] /\ told' \in [Rooms -> Regions \cup {NOWHERE}]
         /\ load' \in [Regions -> Nat] /\ uncounted' \in [Regions -> Nat]
         /\ RoomsAreServed' /\ LoadExplained'
<1>1. /\ live \subseteq Rooms /\ assigned \in [Rooms -> Regions \cup {NOWHERE}]
      /\ told \in [Rooms -> Regions \cup {NOWHERE}]
      /\ load \in [Regions -> Nat] /\ uncounted \in [Regions -> Nat]
      /\ health \in [Regions -> {"healthy", "degraded", "down"}]
      /\ \A q \in Regions : load[q] = Cardinality(Holders(assigned, q)) + uncounted[q]
  BY DEF OrchestratorHolds, OrchestratorTypeOK, LoadExplained, Holders, On
<1> PICK lost : lost = On(r)
  OBVIOUS
<1>0. lost = Holders(assigned, r)
  BY DEF Holders, On
<1>2. PICK to \in [lost -> Regions \cup {NOWHERE}] :
        /\ Spread(to, Usable(health'))
        /\ assigned' = [m \in Rooms |-> IF m \in lost THEN to[m] ELSE assigned[m]]
        /\ load' = [q \in Regions |-> load[q] + Gain(to, q)]
        /\ uncounted' = [uncounted EXCEPT ![r] = @ + Cardinality(lost)]
        /\ told' = [m \in Rooms |->
                      IF m \in lost \cap live /\ to[m] # NOWHERE THEN to[m] ELSE told[m]]
  BY DEF Failover
<1>3. \A m \in lost : to[m] = NOWHERE \/ (to[m] \in Regions /\ health'[to[m]] # "down")
  <2> PICK usable : usable = Usable(health')
    OBVIOUS
  <2>2. Spread(to, usable) /\ DOMAIN to = lost
    BY <1>2
  <2>3. \A m \in lost : to[m] \in usable \cup {NOWHERE}
    BY <2>2 DEF Spread
  <2>1. \A m \in lost : to[m] \in Usable(health') \cup {NOWHERE}
    BY <2>3
  <2> QED
    BY <2>1 DEF Usable
<1>4. health'[r] = "down" /\ \A q \in Regions \ {r} : health'[q] = health[q]
  BY <1>1
<1>5. \A m \in lost : to[m] # r
  BY <1>3, <1>4, RegionAssumption
<1>6. lost \subseteq Rooms /\ IsFiniteSet(lost) /\ Cardinality(lost) \in Nat
  <2>1. IsFiniteSet(lost) /\ Cardinality(lost) \in Nat
    BY <1>0, HoldersFinite
  <2>2. lost \subseteq Rooms
    BY <1>0 DEF Holders
  <2> QED
    BY <2>1, <2>2
<1>7. \A q : IsFiniteSet({m \in DOMAIN to : to[m] = q}) /\ Gain(to, q) \in Nat
  <2> TAKE q
  <2>1. {m \in DOMAIN to : to[m] = q} \subseteq lost
    BY <1>2
  <2>2. IsFiniteSet({m \in DOMAIN to : to[m] = q})
    BY <1>6, <2>1, FS_Subset
  <2> QED
    BY <2>2, FS_CardinalityType DEF Gain
<1>8. assigned' \in [Rooms -> Regions \cup {NOWHERE}] /\ told' \in [Rooms -> Regions \cup {NOWHERE}]
      /\ load' \in [Regions -> Nat] /\ uncounted' \in [Regions -> Nat]
  <2>5. \A m \in lost : to[m] \in Regions \cup {NOWHERE}
    BY <1>2
  <2>6. assigned' \in [Rooms -> Regions \cup {NOWHERE}]
    BY <1>1, <1>2, <2>5
  <2>7. told' \in [Rooms -> Regions \cup {NOWHERE}]
    BY <1>1, <1>2, <2>5
  <2>1. assigned' \in [Rooms -> Regions \cup {NOWHERE}] /\ told' \in [Rooms -> Regions \cup {NOWHERE}]
    BY <2>6, <2>7
  <2>2. ASSUME NEW q \in Regions PROVE load[q] + Gain(to, q) \in Nat
    <3>1. load[q] \in Nat /\ Gain(to, q) \in Nat
      BY <1>1, <1>7
    <3> QED
      BY <3>1
  <2>3. load' \in [Regions -> Nat]
    BY <1>2, <2>2
  <2>4. uncounted' \in [Regions -> Nat]
    BY <1>1, <1>2, <1>6
  <2> QED
    BY <2>1, <2>3, <2>4
<1>9. RoomsAreServed'
  <2> SUFFICES ASSUME NEW m \in Rooms, assigned'[m] # NOWHERE
               PROVE  /\ health'[assigned'[m]] # "down"
                      /\ m \in live' /\ told'[m] # NOWHERE => told'[m] = assigned'[m]
    BY DEF RoomsAreServed
  <2>1. CASE m \in lost
    BY <1>2, <1>3, <2>1
  <2>2. CASE m \notin lost
    <3>1. assigned'[m] = assigned[m] /\ told'[m] = told[m] /\ assigned[m] # r
      BY <1>0, <1>2, <2>2 DEF Holders
    <3> QED
      BY <1>1, <1>4, <3>1 DEF OrchestratorHolds, RoomsAreServed
  <2> QED
    BY <2>1, <2>2
<1>10. LoadExplained'
  <2> SUFFICES ASSUME NEW q \in Regions
               PROVE  load'[q] = Cardinality(Holders(assigned', q)) + uncounted'[q]
    BY DEF LoadExplained, Holders, On
  <2> PICK stay, come : stay = Holders(assigned, q) \ lost /\ come = {m \in DOMAIN to : to[m] = q}
    OBVIOUS
  <2>1. Holders(assigned', q) = stay \cup come /\ stay \cap come = {}
    BY <1>0, <1>2, <1>6 DEF Holders
  <2>2. IsFiniteSet(stay) /\ IsFiniteSet(come) /\ Gain(to, q) = Cardinality(come)
    BY <1>7, HoldersFinite, FS_Difference DEF Gain
  <2>3. Cardinality(Holders(assigned', q)) = Cardinality(stay) + Cardinality(come)
    <3>1. Cardinality(stay \cup come) = Cardinality(stay) + Cardinality(come) - Cardinality(stay \cap come)
      BY <2>2, FS_Union
    <3>2. Cardinality(stay \cap come) = 0 /\ Cardinality(stay) \in Nat /\ Cardinality(come) \in Nat
      BY <2>1, <2>2, FS_EmptySet, FS_CardinalityType
    <3> QED
      BY <2>1, <3>1, <3>2
  <2>4. CASE q = r
    <3>1. stay = {} /\ Cardinality(stay) = 0
      <4>1. stay = {}
        BY <1>0, <2>4
      <4> QED
        BY <4>1, FS_EmptySet
    <3>2. load[q] = Cardinality(lost) + uncounted[q] /\ uncounted[q] \in Nat
          /\ uncounted'[q] = uncounted[q] + Cardinality(lost)
          /\ load'[q] = load[q] + Cardinality(come)
      BY <1>0, <1>1, <1>2, <2>2, <2>4
    <3>3. Cardinality(come) \in Nat
      BY <2>2, FS_CardinalityType
    <3> QED
      BY <1>6, <2>3, <3>1, <3>2, <3>3
  <2>5. CASE q # r
    <3>1. stay = Holders(assigned, q)
      BY <1>0, <2>5 DEF Holders
    <3>2. load[q] = Cardinality(stay) + uncounted[q] /\ uncounted[q] \in Nat
          /\ uncounted'[q] = uncounted[q] /\ load'[q] = load[q] + Cardinality(come)
      BY <1>1, <1>2, <2>2, <2>5, <3>1
    <3>3. Cardinality(come) \in Nat /\ Cardinality(stay) \in Nat
      BY <2>2, FS_CardinalityType
    <3> QED
      BY <2>3, <3>2, <3>3
  <2> QED
    BY <2>4, <2>5
<1> QED
  BY <1>8, <1>9, <1>10

LEMMA OrchestratorStep ==
  OrchestratorHolds /\ [OrchestratorNext]_orchestratorVars => OrchestratorHolds'
<1> SUFFICES ASSUME OrchestratorHolds, [OrchestratorNext]_orchestratorVars
             PROVE  OrchestratorHolds'
  OBVIOUS
<1>1. /\ failed \in [Regions -> 0..DownAt] /\ passed \in [Regions -> 0..RecoverAt]
      /\ health \in [Regions -> {"healthy", "degraded", "down"}]
      /\ initialized \in [Regions -> BOOLEAN]
      /\ DownAt \in Nat /\ RecoverAt \in Nat
  BY ThresholdAssumption DEF OrchestratorHolds, OrchestratorTypeOK
<1>2. ASSUME NEW r \in Regions, CheckPasses(r) PROVE OrchestratorHolds'
  <2>1. /\ failed' \in [Regions -> 0..DownAt] /\ passed' \in [Regions -> 0..RecoverAt]
        /\ health' \in [Regions -> {"healthy", "degraded", "down"}]
        /\ UNCHANGED <<live, initialized, load, assigned, told, uncounted>>
        /\ \A q \in Regions : health'[q] = health[q] \/ health'[q] = "healthy"
    BY <1>1, <1>2 DEF CheckPasses
  <2>2. OrchestratorTypeOK'
    BY <2>1 DEF OrchestratorHolds, OrchestratorTypeOK
  <2>3. RoomsAreServed'
    BY <2>1 DEF OrchestratorHolds, OrchestratorTypeOK, RoomsAreServed
  <2>4. LoadExplained'
    BY <2>1 DEF OrchestratorHolds, LoadExplained, On
  <2> QED
    BY <2>2, <2>3, <2>4 DEF OrchestratorHolds
<1>3. ASSUME NEW r \in Regions, CheckFails(r) PROVE OrchestratorHolds'
  <2>1. /\ failed' \in [Regions -> 0..DownAt] /\ passed' \in [Regions -> 0..RecoverAt]
        /\ UNCHANGED <<live, initialized>>
    BY <1>1, <1>3 DEF CheckFails
  <2>2. CASE health' = [health EXCEPT ![r] = "down"] /\ Failover(r)
    <3>1. /\ assigned' \in [Rooms -> Regions \cup {NOWHERE}]
          /\ told' \in [Rooms -> Regions \cup {NOWHERE}]
          /\ load' \in [Regions -> Nat] /\ uncounted' \in [Regions -> Nat]
          /\ RoomsAreServed' /\ LoadExplained'
      BY <2>1, <2>2, FailedOver
    <3>2. OrchestratorTypeOK'
      BY <1>1, <2>1, <2>2, <3>1 DEF OrchestratorHolds, OrchestratorTypeOK
    <3> QED
      BY <3>1, <3>2 DEF OrchestratorHolds
  <2>3. CASE /\ \/ health' = health
                \/ health[r] = "healthy" /\ health' = [health EXCEPT ![r] = "degraded"]
             /\ UNCHANGED <<load, assigned, told, uncounted>>
    <3>1. /\ health' \in [Regions -> {"healthy", "degraded", "down"}]
          /\ \A q \in Regions : health'[q] = health[q] \/ health'[q] = "degraded"
      BY <1>1, <2>3
    <3>2. OrchestratorTypeOK'
      BY <2>1, <2>3, <3>1 DEF OrchestratorHolds, OrchestratorTypeOK
    <3>3. RoomsAreServed'
      BY <2>1, <2>3, <3>1 DEF OrchestratorHolds, OrchestratorTypeOK, RoomsAreServed
    <3>4. LoadExplained'
      BY <2>3 DEF OrchestratorHolds, LoadExplained, On
    <3> QED
      BY <3>2, <3>3, <3>4 DEF OrchestratorHolds
  <2>4. \/ health' = [health EXCEPT ![r] = "down"] /\ Failover(r)
        \/ /\ health' = (IF failed'[r] >= DegradedAt /\ health[r] = "healthy"
                         THEN [health EXCEPT ![r] = "degraded"] ELSE health)
           /\ UNCHANGED <<load, assigned, told, uncounted>>
    BY <1>3 DEF CheckFails
  <2> QED
    BY <2>2, <2>3, <2>4
<1>4. CASE UNCHANGED orchestratorVars
  BY <1>4 DEF orchestratorVars, checks, OrchestratorHolds, OrchestratorTypeOK, RoomsAreServed,
              LoadExplained, On
<1> QED
  BY <1>2, <1>3, <1>4, RoomCreated, RoomDestroyed, RoomMigrated DEF OrchestratorNext

LEMMA OrchestratorBegun == OrchestratorInit => OrchestratorHolds
<1> SUFFICES ASSUME OrchestratorInit PROVE OrchestratorHolds
  OBVIOUS
<1>1. DownAt \in Nat /\ RecoverAt \in Nat
  BY ThresholdAssumption
<1>2. OrchestratorTypeOK
  BY <1>1 DEF OrchestratorInit, OrchestratorTypeOK
<1>3. \A r \in Regions : Holders(assigned, r) = {}
  BY RegionAssumption DEF OrchestratorInit, Holders
<1>4. LoadExplained
  BY <1>3, FS_EmptySet DEF OrchestratorInit, LoadExplained, Holders, On
<1> QED
  BY <1>2, <1>4 DEF OrchestratorInit, OrchestratorHolds, RoomsAreServed

(* For any rooms, regions and thresholds: no room is assigned to a region   *)
(* that is down, members are told where their room is, and the loads that   *)
(* assignments compare err by what failovers never subtract and nothing     *)
(* else (_checkHealth, _failoverRooms, migrateRoom of SFUOrchestrator).     *)
THEOREM OrchestratorAlwaysSafe == MediaSpec => []OrchestratorSafe
<1> DEFINE Inv == part = "orchestrator" => OrchestratorHolds
<1>1. MediaInit => Inv
  BY OrchestratorBegun DEF MediaInit
<1>2. Inv /\ [MediaNext]_<<part, apart, onRoom, roomVars>> => Inv'
  <2> SUFFICES ASSUME Inv, [MediaNext]_<<part, apart, onRoom, roomVars>>,
                      part' = "orchestrator"
               PROVE  OrchestratorHolds'
    OBVIOUS
  <2>1. CASE OrchestratorNext /\ part = "orchestrator"
    BY <2>1, OrchestratorStep
  <2>2. CASE UNCHANGED <<part, orchestratorVars>>
    BY <2>2, OrchestratorStep
  <2> QED
    BY <2>1, <2>2 DEF MediaNext, apart
<1>3. Inv => OrchestratorSafe
  BY DEF OrchestratorSafe
<1> QED
  BY <1>1, <1>2, <1>3, PTL DEF MediaSpec

-----------------------------------------------------------------------------
(* The alerts. *)

(* The alerts about the topics told, in some order. *)
Alerted(out, new) == [i \in DOMAIN out |-> [topic |-> out[i], worse |-> out[i] \in new]]

AlertType == [topic : Topics, worse : BOOLEAN]

LEMMA NamesFinite == IsFiniteSet(Names)
<1>1. Slos \in Seq(Names)
  BY AlertsAssumption
<1>2. DOMAIN Slos = 1..Len(Slos) /\ Len(Slos) \in Nat
  BY <1>1
<1>3. IsFiniteSet(1..Len(Slos))
  <2>1. 1 \in Int /\ Len(Slos) \in Int
    BY <1>2
  <2> QED
    BY <2>1, FS_Interval
<1>4. Slos \in Surjection(1..Len(Slos), Names)
  <2>1. Slos \in [1..Len(Slos) -> Names]
    BY <1>1, <1>2
  <2>2. \A t \in Names : \E i \in 1..Len(Slos) : Slos[i] = t
    BY <1>2 DEF Names, ToSet
  <2> QED
    BY <2>1, <2>2 DEF Surjection
<1> QED
  BY <1>3, <1>4, FS_Surjection

Trails(r, q) ==
  \E gone \in Nat : Len(q) = gone + Len(r) /\ \A i \in 1..Len(r) : r[i] = q[gone + i]

(* The last entries of a sequence. *)
LEMMA LastPart ==
  ASSUME NEW T, NEW q \in Seq(T), NEW g \in Nat, g <= Len(q)
  PROVE  /\ SubSeq(q, g + 1, Len(q)) \in Seq(T)
         /\ Len(SubSeq(q, g + 1, Len(q))) = Len(q) - g
         /\ \A i \in 1..Len(q) - g : SubSeq(q, g + 1, Len(q))[i] = q[g + i]
  OBVIOUS

(* Of a queue the last entries stay, in their order. *)
LEMMA NewestKeeps ==
  ASSUME NEW T, NEW q \in Seq(T)
  PROVE  Newest(q) \in Seq(T) /\ Len(Newest(q)) <= MaxQueue /\ Trails(Newest(q), q)
<1>0. MaxQueue \in Nat /\ MaxQueue > 0 /\ Len(q) \in Nat
  BY AlertsAssumption
<1> PICK gone : gone = IF Len(q) > MaxQueue THEN Len(q) - MaxQueue ELSE 0
  OBVIOUS
<1> PICK r : r = SubSeq(q, gone + 1, Len(q))
  OBVIOUS
<1>1. gone \in Nat /\ gone <= Len(q) /\ Len(q) - gone <= MaxQueue
      /\ (gone > 0 => Len(q) - gone = MaxQueue)
  BY <1>0
<1>2. Newest(q) = r
  BY <1>0 DEF Newest
<1>3. /\ r \in Seq(T) /\ Len(r) = Len(q) - gone
      /\ \A i \in 1..Len(r) : r[i] = q[gone + i]
  <2>1. /\ SubSeq(q, gone + 1, Len(q)) \in Seq(T)
        /\ Len(SubSeq(q, gone + 1, Len(q))) = Len(q) - gone
        /\ \A i \in 1..Len(q) - gone : SubSeq(q, gone + 1, Len(q))[i] = q[gone + i]
    BY <1>1, LastPart
  <2> QED
    BY <2>1
<1>4. Len(q) = gone + Len(r) /\ Len(r) <= MaxQueue
  <2>0. gone \in Nat
    BY <1>1
  <2> PICK n, m : n = Len(q) /\ m = Len(r)
    OBVIOUS
  <2>1. n \in Nat /\ m = n - gone /\ n - gone <= MaxQueue
    BY <1>0, <1>1, <1>3
  <2>2. \A a, b, c \in Nat : b = a - c => a = c + b
    OBVIOUS
  <2>3. m \in Nat /\ m <= MaxQueue
    BY <1>3, <2>1
  <2>4. n = gone + m
    BY <2>0, <2>1, <2>2, <2>3
  <2> QED
    BY <2>3, <2>4
<1>5. Trails(r, q)
  BY <1>1, <1>3, <1>4 DEF Trails
<1> QED
  BY <1>2, <1>3, <1>4, <1>5

LEMMA AlertsTold ==
  ASSUME NEW worse, NEW better, Tell(worse, better), AlertsHold,
         worse \cup better \subseteq Topics, worse \cap better = {},
         worse \cup better \subseteq Names \/ \E o : worse \cup better \subseteq {o},
         reading' = reading
  PROVE  /\ recently' \subseteq Topics \X (Bad \cup {OK})
         /\ alerts' \in Seq(AlertType) /\ Len(alerts') <= MaxQueue
         /\ reported' \in [Topics -> {"nothing", "breach", "recovery"}]
         /\ QueueTells'
<1>1. /\ reading \in [Names -> Bad \cup {OK}] /\ recently \subseteq Topics \X (Bad \cup {OK})
      /\ alerts \in Seq(AlertType)
      /\ reported \in [Topics -> {"nothing", "breach", "recovery"}]
  BY DEF AlertsHold, AlertsTypeOK, AlertType
<1> PICK new : new = worse \ {t \in worse : Suppressed(t)}
  OBVIOUS
<1> PICK these : these = new \cup better
  OBVIOUS
<1>2. PICK out \in [1..Cardinality(these) -> these] :
        ToSet(out) = these /\ InOrder(out) /\ alerts' = Newest(alerts \o Alerted(out, new))
  BY DEF Tell, Alerted
<1>3. /\ recently' = recently \cup {<<t, Value(t)>> : t \in new}
      /\ reported' = [t \in Topics |-> IF t \in new THEN "breach"
                                    ELSE IF t \in better THEN "recovery" ELSE reported[t]]
  BY DEF Tell
<1>4. new \subseteq Topics /\ these \subseteq Topics /\ new \cap better = {}
  OBVIOUS
<1>5. recently' \subseteq Topics \X (Bad \cup {OK})
  <2>1. \A t \in new : Value(t) \in Bad \cup {OK}
    BY <1>1 DEF Value
  <2> QED
    BY <1>1, <1>3, <1>4, <2>1
<1>6. reported' \in [Topics -> {"nothing", "breach", "recovery"}]
  BY <1>1, <1>3
<1>7. Cardinality(these) \in Nat
  <2>1. CASE these \subseteq Names
    BY <2>1, NamesFinite, FS_Subset, FS_CardinalityType
  <2>2. ASSUME NEW o, these \subseteq {o} PROVE Cardinality(these) \in Nat
    BY <2>2, FS_Singleton, FS_Subset, FS_CardinalityType
  <2> QED
    BY <2>1, <2>2
<1> PICK fresh : fresh = Alerted(out, new)
  OBVIOUS
<1>8. /\ fresh \in Seq(AlertType) /\ Len(fresh) = Cardinality(these) /\ DOMAIN out = 1..Len(fresh)
      /\ \A i \in 1..Len(fresh) : fresh[i].topic = out[i] /\ fresh[i].worse = (out[i] \in new)
  <2>1. DOMAIN out = 1..Cardinality(these) /\ \A i \in DOMAIN out : out[i] \in Topics
    BY <1>2, <1>4
  <2>2. \A i \in DOMAIN out : [topic |-> out[i], worse |-> out[i] \in new] \in AlertType
    BY <2>1 DEF AlertType
  <2>3. fresh \in [1..Cardinality(these) -> AlertType]
    BY <2>1, <2>2 DEF Alerted
  <2>4. fresh \in Seq(AlertType) /\ Len(fresh) = Cardinality(these)
    <3> PICK n : n = Cardinality(these)
      OBVIOUS
    <3>1. n \in Nat /\ fresh \in [1..n -> AlertType]
      BY <1>7, <2>3
    <3>2. fresh \in Seq(AlertType)
      <4>1. Seq(AlertType) = UNION {[1..k -> AlertType] : k \in Nat}
        BY SeqDef, Zenon
      <4>2. [1..n -> AlertType] \in {[1..k -> AlertType] : k \in Nat}
        BY <3>1, Zenon
      <4> QED
        BY <3>1, <4>1, <4>2, Zenon
    <3>3. DOMAIN fresh = 1..Len(fresh) /\ Len(fresh) \in Nat /\ DOMAIN fresh = 1..n
      BY <3>1, <3>2, LenProperties
    <3>4. Len(fresh) = n
      BY <3>1, <3>3
    <3> QED
      BY <3>2, <3>4
  <2> QED
    BY <2>1, <2>4 DEF Alerted
<1> PICK q : q = alerts \o fresh
  OBVIOUS
<1>9. /\ q \in Seq(AlertType) /\ Len(q) = Len(alerts) + Len(fresh)
      /\ Len(alerts) \in Nat /\ Len(fresh) \in Nat
      /\ \A i \in 1..Len(alerts) : q[i] = alerts[i]
      /\ \A i \in 1..Len(fresh) : q[Len(alerts) + i] = fresh[i]
  BY <1>1, <1>8, ConcatProperties
<1> PICK kept : kept = Newest(q)
  OBVIOUS
<1>10. alerts' = kept
  BY <1>2
<1>11. kept \in Seq(AlertType) /\ Len(kept) <= MaxQueue /\ Trails(kept, q)
  <2>1. q \in Seq(AlertType)
    BY <1>9
  <2> QED
    BY <2>1, NewestKeeps
<1>12. QueueTells'
  <2>0. PICK gone \in Nat :
          Len(q) = gone + Len(kept) /\ \A i \in 1..Len(kept) : kept[i] = q[gone + i]
    BY <1>11 DEF Trails
  <2>1. DOMAIN kept = 1..Len(kept) /\ Len(kept) \in Nat /\ DOMAIN alerts = 1..Len(alerts)
    BY <1>1, <1>11
  <2> SUFFICES ASSUME NEW i \in DOMAIN kept,
                      \A j \in DOMAIN kept : kept[j].topic = kept[i].topic => j <= i
               PROVE  reported'[kept[i].topic] = IF kept[i].worse THEN "breach" ELSE "recovery"
    BY <1>10 DEF QueueTells
  <2> PICK k : k = gone + i
    OBVIOUS
  <2>2. i \in Nat /\ i >= 1 /\ i <= Len(kept) /\ k \in 1..Len(q) /\ kept[i] = q[k]
    BY <2>0, <2>1
  <2>3. ASSUME NEW n \in 1..Len(q), n > k, q[n].topic = q[k].topic PROVE FALSE
    <3> PICK j, l : j = n - gone /\ l = Len(kept)
      OBVIOUS
    <3>1. l \in Nat /\ n \in 1..gone + l /\ n > gone + i /\ i \in Nat
      BY <2>0, <2>1, <2>2, <2>3
    <3>2. j \in 1..l /\ j > i /\ gone + j = n
      BY <2>2, <3>1
    <3>3. kept[j] = q[n] /\ j \in DOMAIN kept
      BY <2>0, <2>1, <3>2
    <3>4. kept[j].topic = kept[i].topic
      BY <2>2, <2>3, <3>3
    <3>5. j \in Nat /\ i \in Nat /\ j > i /\ j <= i
      BY <2>2, <3>1, <3>2, <3>3, <3>4, SMTT(40)
    <3> QED
      BY <3>5
  <2>4. CASE k > Len(alerts)
    <3> PICK m : m = k - Len(alerts)
      OBVIOUS
    <3>1. m \in 1..Len(fresh) /\ k = Len(alerts) + m
      <4> PICK a, f : a = Len(alerts) /\ f = Len(fresh)
        OBVIOUS
      <4>1. a \in Nat /\ f \in Nat /\ k \in 1..a + f /\ k > a /\ m = k - a
        BY <1>9, <2>2, <2>4
      <4>2. m \in 1..f /\ k = a + m
        BY <4>1
      <4> QED
        BY <4>2
    <3>3. q[k] = fresh[m]
      BY <1>9, <3>1
    <3>4. fresh[m].topic = out[m] /\ fresh[m].worse = (out[m] \in new) /\ out[m] \in these
      BY <1>2, <1>8, <3>1
    <3>2. q[k].topic = out[m] /\ q[k].worse = (out[m] \in new) /\ out[m] \in these
      BY <3>3, <3>4
    <3> QED
      BY <1>3, <1>4, <2>2, <3>2
  <2>5. CASE k <= Len(alerts)
    <3>1. q[k] = alerts[k] /\ k \in 1..Len(alerts) /\ alerts[k] \in AlertType
      BY <1>1, <1>9, <2>2, <2>5
    <3>2. q[k].topic \notin these
      <4> SUFFICES ASSUME q[k].topic \in these PROVE FALSE
        OBVIOUS
      <4>1. PICK m \in 1..Len(fresh) : out[m] = q[k].topic
        BY <1>2, <1>8 DEF ToSet
      <4>2. q[Len(alerts) + m].topic = q[k].topic /\ Len(alerts) + m \in 1..Len(q)
            /\ Len(alerts) + m > k
        <5>1. q[Len(alerts) + m] = fresh[m] /\ fresh[m].topic = out[m]
          BY <1>8, <1>9, <4>1
        <5>2. Len(alerts) + m \in 1..Len(q) /\ Len(alerts) + m > k
          BY <1>9, <2>2, <2>5, <4>1
        <5> QED
          BY <4>1, <5>1, <5>2
      <4> QED
        BY <2>3, <4>2
    <3>3. \A j \in DOMAIN alerts : alerts[j].topic = alerts[k].topic => j <= k
      <4> SUFFICES ASSUME NEW j \in DOMAIN alerts, alerts[j].topic = alerts[k].topic, j > k PROVE FALSE
        BY <1>9, <2>1, <2>2
      <4>1. q[j] = alerts[j] /\ j \in 1..Len(q)
        BY <1>9, <2>1
      <4> QED
        BY <2>3, <3>1, <4>1
    <3>4. reported[alerts[k].topic] = IF alerts[k].worse THEN "breach" ELSE "recovery"
      BY <2>1, <3>1, <3>3 DEF AlertsHold, QueueTells
    <3>5. reported'[alerts[k].topic] = reported[alerts[k].topic]
      BY <1>3, <3>1, <3>2 DEF AlertType
    <3> QED
      BY <2>2, <3>1, <3>4, <3>5
  <2> QED
    BY <1>9, <2>2, <2>4, <2>5
<1> QED
  BY <1>5, <1>6, <1>10, <1>11, <1>12

(* What is told is so, and what stands is told unless it was suppressed. *)
LEMMA AlertsToldTrue ==
  ASSUME NEW worse, NEW better, Tell(worse, better), AlertsHold,
         worse \cup better \subseteq Topics, worse \cap better = {},
         NEW now, now \subseteq Topics, breached' = now, worse \subseteq now, better \cap now = {},
         \A t \in Topics \ (worse \cup better) : t \in now <=> t \in breached
  PROVE  hushed' \subseteq now /\ AlertsTell'
<1>1. /\ breached \subseteq Topics /\ hushed \subseteq breached
      /\ reported \in [Topics -> {"nothing", "breach", "recovery"}]
      /\ \A t \in Topics : /\ reported[t] = "breach" => t \in breached
                           /\ t \in breached \ hushed => reported[t] = "breach"
  BY DEF AlertsHold, AlertsTypeOK, AlertsTell
<1> PICK new : new = worse \ {t \in worse : Suppressed(t)}
  OBVIOUS
<1>2. /\ reported' = [t \in Topics |-> IF t \in new THEN "breach"
                                    ELSE IF t \in better THEN "recovery" ELSE reported[t]]
      /\ hushed' = (hushed \ (new \cup better))
                     \cup {t \in worse \ new : reported[t] # "breach"}
  BY DEF Tell
<1>3. new \subseteq worse
  OBVIOUS
<1>4. hushed' \subseteq now
  <2> SUFFICES ASSUME NEW t \in hushed' PROVE t \in now
    OBVIOUS
  <2>1. CASE t \in worse
    BY <2>1
  <2>2. CASE t \notin worse
    <3>1. t \in hushed /\ t \notin better
      BY <1>2, <2>2
    <3> QED
      BY <1>1, <2>2, <3>1
  <2> QED
    BY <2>1, <2>2
<1>5. ASSUME NEW t \in Topics
      PROVE  /\ reported'[t] = "breach" => t \in now
             /\ t \in now /\ t \notin hushed' => reported'[t] = "breach"
  <2>1. CASE t \in new
    BY <1>2, <1>3, <2>1
  <2>2. CASE t \in worse /\ t \notin new
    <3>1. t \notin better /\ reported'[t] = reported[t] /\ t \in now
      BY <1>2, <2>2
    <3>2. reported[t] # "breach" => t \in hushed'
      BY <1>2, <2>2
    <3> QED
      BY <3>1, <3>2
  <2>3. CASE t \in better
    <3>1. reported'[t] = "recovery" /\ t \notin now
      BY <1>2, <1>3, <2>3
    <3> QED
      BY <3>1
  <2>4. CASE t \notin worse /\ t \notin better
    <3>1. reported'[t] = reported[t] /\ (t \in now <=> t \in breached)
      BY <1>2, <1>3, <2>4
    <3>2. t \in hushed => t \in hushed'
      BY <1>2, <1>3, <2>4
    <3> QED
      BY <1>1, <3>1, <3>2
  <2> QED
    BY <2>1, <2>2, <2>3, <2>4
<1> QED
  BY <1>4, <1>5 DEF AlertsTell

LEMMA AlertsWhole ==
  ASSUME NEW worse, NEW better, Tell(worse, better), AlertsHold,
         worse \cup better \subseteq Topics, worse \cap better = {},
         worse \cup better \subseteq Names \/ \E o : worse \cup better \subseteq {o},
         reading' = reading,
         NEW now, now \subseteq Topics, breached' = now, worse \subseteq now, better \cap now = {},
         \A t \in Topics \ (worse \cup better) : t \in now <=> t \in breached
  PROVE  AlertsHold'
<1>1. /\ recently' \subseteq Topics \X (Bad \cup {OK})
      /\ alerts' \in Seq(AlertType) /\ Len(alerts') <= MaxQueue
      /\ reported' \in [Topics -> {"nothing", "breach", "recovery"}]
      /\ QueueTells'
  BY AlertsTold
<1>2. hushed' \subseteq now /\ AlertsTell'
  BY AlertsToldTrue
<1>3. AlertsTypeOK'
  BY <1>1, <1>2 DEF AlertsHold, AlertsTypeOK, AlertType
<1> QED
  BY <1>1, <1>2, <1>3 DEF AlertsHold

LEMMA AlertsBegun == AlertsInit => AlertsHold
<1> SUFFICES ASSUME AlertsInit PROVE AlertsHold
  OBVIOUS
<1>1. MaxQueue \in Nat /\ <<>> \in Seq(AlertType) /\ Len(<<>>) = 0 /\ DOMAIN <<>> = {}
  BY AlertsAssumption, EmptySeq
<1>2. AlertsTypeOK
  BY <1>1 DEF AlertsInit, AlertsTypeOK, AlertType
<1>3. AlertsTell
  BY DEF AlertsInit, AlertsTell
<1>4. QueueTells
  BY <1>1 DEF AlertsInit, QueueTells
<1> QED
  BY <1>2, <1>3, <1>4 DEF AlertsHold

(* The alerts keep what they hold in every step. *)
LEMMA AlertsStep ==
  ASSUME AlertsHold, AlertsNext \/ UNCHANGED alertsVars
  PROVE  AlertsHold'
<1>1. /\ reading \in [Names -> Bad \cup {OK}]
      /\ breached \subseteq Topics /\ recently \subseteq Topics \X (Bad \cup {OK})
  BY DEF AlertsHold, AlertsTypeOK
<1>2. Names \subseteq Topics /\ Others \subseteq Topics /\ Names \cap Others = {}
  BY AlertsAssumption DEF Topics
<1>3. CASE EvaluateSLOs
  <2> PICK worse, better, now :
             /\ worse = Missed \ breached /\ better = (breached \cap Names) \ Missed
             /\ now = (breached \ Names) \cup Missed
    OBVIOUS
  <2>1. Tell(worse, better) /\ breached' = now /\ reading' = reading
    BY <1>3 DEF EvaluateSLOs
  <2>2. Missed \subseteq Names
    BY DEF Missed
  <2>3. /\ worse \cup better \subseteq Names /\ worse \cap better = {}
        /\ now \subseteq Topics /\ worse \subseteq now /\ better \cap now = {}
    BY <1>1, <1>2, <2>2
  <2>4. \A t \in Topics \ (worse \cup better) : t \in now <=> t \in breached
    BY <2>2
  <2>5. worse \cup better \subseteq Topics
    BY <1>2, <2>3
  <2> QED
    BY <2>1, <2>3, <2>4, <2>5, AlertsWhole
<1>4. ASSUME NEW o \in Others, OtherWorse(o) PROVE AlertsHold'
  <2> PICK now : now = breached \cup {o}
    OBVIOUS
  <2>1. Tell({o}, {}) /\ breached' = now /\ reading' = reading
    BY <1>4 DEF OtherWorse
  <2>2. /\ {o} \cup {} \subseteq Topics /\ {o} \cap {} = {} /\ {o} \cup {} \subseteq {o}
        /\ now \subseteq Topics /\ {o} \subseteq now /\ {} \cap now = {}
    BY <1>1, <1>2
  <2>3. \A t \in Topics \ ({o} \cup {}) : t \in now <=> t \in breached
    OBVIOUS
  <2> QED
    BY <2>1, <2>2, <2>3, AlertsWhole
<1>5. ASSUME NEW o \in Others, OtherBetter(o) PROVE AlertsHold'
  <2> PICK now : now = breached \ {o}
    OBVIOUS
  <2>1. Tell({}, {o}) /\ breached' = now /\ reading' = reading
    BY <1>5 DEF OtherBetter
  <2>2. /\ {} \cup {o} \subseteq Topics /\ {} \cap {o} = {} /\ {} \cup {o} \subseteq {o}
        /\ now \subseteq Topics /\ {} \subseteq now /\ {o} \cap now = {}
    BY <1>1, <1>2
  <2>3. \A t \in Topics \ ({} \cup {o}) : t \in now <=> t \in breached
    OBVIOUS
  <2> QED
    BY <2>1, <2>2, <2>3, AlertsWhole
<1>6. CASE Measure \/ WindowEnds \/ ClearSuppression \/ UNCHANGED alertsVars
  <2>1. UNCHANGED <<breached, alerts, reported, hushed>>
    BY <1>6 DEF Measure, WindowEnds, ClearSuppression, alertsVars
  <2>2. /\ reading' \in [Names -> Bad \cup {OK}]
        /\ recently' \subseteq Topics \X (Bad \cup {OK})
    BY <1>1, <1>6 DEF Measure, WindowEnds, ClearSuppression, alertsVars
  <2>3. AlertsTypeOK'
    BY <2>1, <2>2 DEF AlertsHold, AlertsTypeOK
  <2>4. AlertsTell' /\ QueueTells'
    BY <2>1 DEF AlertsHold, AlertsTell, QueueTells
  <2> QED
    BY <2>3, <2>4 DEF AlertsHold
<1> QED
  BY <1>3, <1>4, <1>5, <1>6 DEF AlertsNext

(* Of every objective and every other source the last alert says it is      *)
(* worse only while it is, and of one that is worse it says so unless that  *)
(* change was suppressed; the newest alert of a topic in the queue is the   *)
(* last that was given (HealthMonitor's edges, AlertManager.alert).         *)
THEOREM AlertsAlwaysSafe == MediaSpec => []AlertsSafe
<1> DEFINE Inv == part = "alerts" => AlertsHold
<1>1. MediaInit => Inv
  BY AlertsBegun DEF MediaInit
<1>2. Inv /\ [MediaNext]_<<part, apart, onRoom, roomVars>> => Inv'
  <2> SUFFICES ASSUME Inv, [MediaNext]_<<part, apart, onRoom, roomVars>>,
                      part' = "alerts"
               PROVE  AlertsHold'
    OBVIOUS
  <2>1. CASE AlertsNext /\ part = "alerts"
    BY <2>1, AlertsStep
  <2>2. CASE UNCHANGED <<part, alertsVars>>
    BY <2>2, AlertsStep
  <2> QED
    BY <2>1, <2>2 DEF MediaNext, apart
<1>3. Inv => AlertsSafe
  BY DEF AlertsSafe
<1> QED
  BY <1>1, <1>2, <1>3, PTL DEF MediaSpec
=============================================================================
