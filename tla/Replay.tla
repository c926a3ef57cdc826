------------------------------- MODULE Replay --------------------------------
(***************************************************************************)
(* reliability/EventReplay.js: the bounded log of events of each process,  *)
(* its copy in a sorted set in Redis, written behind a few awaits, and its *)
(* reload.  Events are their hashes: an event of the same type, room and   *)
(* peer in the same millisecond has the same one.                          *)
(***************************************************************************)
EXTENDS Naturals, FiniteSets, SequencesExt

CONSTANTS
  Processes,
  Hashes,       \* events ever recorded; bounds a behaviour
  Capacity,     \* options.capacity
  MaxLoads,     \* bound on the reloads of each process between its crashes
  IDLE          \* no reload under way

ASSUME CapacityAssumption == Capacity \in Nat \ {0} /\ MaxLoads \in Nat

VARIABLES
  seq, log, seen,   \* _seq, _log, _seen of each process
  writes,     \* of each process, its _writeToRedis under way, oldest first
  redis,      \* the sorted set: events with their score
  loading,    \* what zRange has answered to loadFromRedis
  past,       \* hashes whose millisecond is over
  loads,      \* reloads of each process since it started
  mixed       \* history: processes that loaded when they had recorded, or
              \* sequence numbers of several runs

memory == <<seq, log, seen>>
replayVars == <<memory, writes, redis, loading, past, loads, mixed>>

Event == [seq : Nat, hash : Hashes]
Write == [event : Event, stage : {"add", "card", "trim"}, size : Nat]

ReplayTypeOK ==
  /\ seq \in [Processes -> Nat]
  /\ seen \in [Processes -> SUBSET Hashes]
  /\ redis \subseteq Event
  /\ \A r \in Processes :
       /\ log[r] \in Seq(Event) /\ writes[r] \in Seq(Write)
       /\ loading[r] = IDLE \/ loading[r] \in Seq(Event)
  /\ past \subseteq Hashes /\ mixed \subseteq Processes
  /\ loads \in [Processes -> 0..MaxLoads]

ReplayInit ==
  /\ seq = [r \in Processes |-> 0]
  /\ log = [r \in Processes |-> <<>>]
  /\ seen = [r \in Processes |-> {}]
  /\ writes = log /\ redis = {}
  /\ loading = [r \in Processes |-> IDLE]
  /\ past = {} /\ mixed = {}
  /\ loads = seq

HashesOf(events) == {e.hash : e \in ToSet(events)}

-----------------------------------------------------------------------------
Evicted(r) == IF Len(log[r]) >= Capacity THEN {Head(log[r]).hash} ELSE {}

(* into the circular buffer *)
Keep(r, e) ==
  /\ log' = [log EXCEPT ![r] = Append(IF Len(@) >= Capacity THEN Tail(@) ELSE @, e)]
  /\ seen' = [seen EXCEPT ![r] = (@ \cup {e.hash}) \ Evicted(r)]

(* _record.  A millisecond does not have as many events as the log keeps:   *)
(* that of an evicted event is over.                                        *)
RecordEvent(r, h) ==
  /\ h \notin past \cup seen[r]
  /\ LET e == [seq |-> seq[r] + 1, hash |-> h] IN
     /\ seq' = [seq EXCEPT ![r] = e.seq]
     /\ Keep(r, e)
     /\ writes' = [writes EXCEPT ![r] = Append(@, [event |-> e, stage |-> "add", size |-> 0])]
  /\ past' = past \cup Evicted(r)
  /\ UNCHANGED <<redis, loading, loads, mixed>>

MillisecondOver ==
  /\ past' = past \cup UNION {seen[r] : r \in Processes}
  /\ past' # past
  /\ UNCHANGED <<memory, writes, redis, loading, loads, mixed>>

-----------------------------------------------------------------------------
(* _writeToRedis: the commands of one process are executed in order, so no  *)
(* write overtakes an older one.                                            *)
StageOf == [add |-> 0, card |-> 1, trim |-> 2]
Turn(r, i) ==
  \A j \in 1..i - 1 : StageOf[writes[r][j].stage] > StageOf[writes[r][i].stage]

Add(r, i) ==
  /\ writes[r][i].stage = "add"
  /\ redis' = redis \cup {writes[r][i].event}
  /\ writes' = [writes EXCEPT ![r][i].stage = "card"]

(* zCard, behind expire *)
Card(r, i) ==
  /\ writes[r][i].stage = "card"
  /\ writes' = IF Cardinality(redis) > Capacity
                 THEN [writes EXCEPT ![r][i] = [@ EXCEPT !.stage = "trim", !.size = Cardinality(redis)]]
                 ELSE [writes EXCEPT ![r] = RemoveAt(@, i)]
  /\ UNCHANGED redis

(* zRemRangeByRank, with the size of before *)
Lowest(n) == {s \in SUBSET redis : /\ Cardinality(s) = n
                                   /\ \A d \in s, e \in redis \ s : d.seq <= e.seq}
Trim(r, i) ==
  /\ writes[r][i].stage = "trim"
  /\ LET n == writes[r][i].size - Capacity
         size == Cardinality(redis) IN
     \E s \in Lowest(IF n < size THEN n ELSE size) : redis' = redis \ s
  /\ writes' = [writes EXCEPT ![r] = RemoveAt(@, i)]

Executes(r) ==
  /\ \E i \in DOMAIN writes[r] : Turn(r, i) /\ (Add(r, i) \/ Card(r, i) \/ Trim(r, i))
  /\ UNCHANGED <<memory, loading, past, loads, mixed>>

(* A command fails: the write ends there. *)
Rejected(r) ==
  /\ \E i \in DOMAIN writes[r] : writes' = [writes EXCEPT ![r] = RemoveAt(@, i)]
  /\ UNCHANGED <<memory, redis, loading, past, loads, mixed>>

-----------------------------------------------------------------------------
(* loadFromRedis: zRange, in the order of the scores ... *)
ReadLog(r) ==
  /\ loading[r] = IDLE /\ loads[r] < MaxLoads
  /\ loads' = [loads EXCEPT ![r] = @ + 1]
  /\ \E s \in SetToSeqs(redis) :
       /\ \A i \in DOMAIN s \ {1} : s[i - 1].seq <= s[i].seq
       /\ loading' = [loading EXCEPT ![r] = s]
  /\ UNCHANGED <<memory, writes, redis, past, mixed>>

(* The numbers of one run, or of runs that each loaded before they recorded *)
OneRun(s) == \A i, j \in DOMAIN s : i < j => s[i].seq < s[j].seq

(* where the answer has what is not known, repeats left out *)
Fresh(r) ==
  {i \in DOMAIN loading[r] :
     /\ loading[r][i].hash \notin seen[r]
     /\ \A j \in 1..i - 1 : loading[r][j].hash # loading[r][i].hash}

(* That is, in its order: the set has one element. *)
Unknown(r) ==
  {[k \in DOMAIN at |-> loading[r][at[k]]] :
     at \in {f \in [1..Cardinality(Fresh(r)) -> Fresh(r)] :
              \A i, j \in DOMAIN f : i < j => f[i] < f[j]}}

LoadCounts(r) ==
  \E new \in Unknown(r) :
    /\ log' = [log EXCEPT ![r] = @ \o new]
    /\ seen' = [seen EXCEPT ![r] = @ \cup HashesOf(new)]
    /\ seq' = [seq EXCEPT ![r] = @ + Len(new)]

(* ... and what is unknown goes behind the log, to any length. *)
Load(r) ==
  \E new \in Unknown(r) :
    /\ log' = [log EXCEPT ![r] = @ \o new]
    /\ seen' = [seen EXCEPT ![r] = @ \cup HashesOf(new)]
    /\ \E n \in {seq[r]} \cup {e.seq : e \in ToSet(new)} :
         /\ \A e \in ToSet(new) : e.seq <= n
         /\ seq[r] <= n
         /\ seq' = [seq EXCEPT ![r] = n]

Loaded(r) ==
  /\ loading[r] # IDLE
  /\ Load(r)
  /\ loading' = [loading EXCEPT ![r] = IDLE]
  /\ mixed' = IF seq[r] > 0 \/ ~OneRun(loading[r]) THEN mixed \cup {r} ELSE mixed
  /\ UNCHANGED <<writes, redis, past, loads>>

(* A restart: the process begins with nothing. *)
ReplayCrash(r) ==
  /\ seq[r] > 0
  /\ seq' = [seq EXCEPT ![r] = 0]
  /\ log' = [log EXCEPT ![r] = <<>>] /\ writes' = [writes EXCEPT ![r] = <<>>]
  /\ seen' = [seen EXCEPT ![r] = {}]
  /\ loading' = [loading EXCEPT ![r] = IDLE]
  /\ loads' = [loads EXCEPT ![r] = 0]
  /\ mixed' = mixed \ {r}
  /\ past' = past \cup seen[r]
  /\ UNCHANGED redis

ReplayNext ==
  \/ \E r \in Processes :
       \/ \E h \in Hashes : RecordEvent(r, h)
       \/ Executes(r) \/ Rejected(r) \/ ReadLog(r) \/ Loaded(r) \/ ReplayCrash(r)
  \/ MillisecondOver

ReplaySpec == ReplayInit /\ [][ReplayNext]_replayVars

-----------------------------------------------------------------------------
(* Of each event of the log, and of no other, the hash is remembered, once: *)
(* evictions, reloads and repeats leave neither an event twice nor a hash   *)
(* that keeps a new event out (_record, loadFromRedis).                     *)
SeenIsLog ==
  \A r \in Processes :
    /\ seen[r] = HashesOf(log[r])
    /\ \A i, j \in DOMAIN log[r] : log[r][i].hash = log[r][j].hash => i = j

(* Who has read up to the current number misses nothing recorded later, and *)
(* a log is in order, unless it was loaded behind events already recorded   *)
(* or Redis has the numbers of runs that did not know of each other (since).*)
SinceMissesNothing ==
  \A r \in Processes :
    /\ \A e \in ToSet(log[r]) : e.seq <= seq[r]
    /\ r \notin mixed => OneRun(log[r])

ReplayHolds == ReplayTypeOK /\ SeenIsLog /\ SinceMissesNothing
=============================================================================
