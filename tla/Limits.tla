------------------------------- MODULE Limits --------------------------------
(***************************************************************************)
(* middleware/RateLimiter.js: the connections of one address and the       *)
(* messages of one peer, each counted in fixed windows.  Time goes in      *)
(* ticks; what is older than any comparison asks for is equally old.       *)
(***************************************************************************)
EXTENDS Naturals, FiniteSets

CONSTANTS
  Second, Minute,   \* 1000 and 60000 ms, in ticks
  BanTime,          \* banDurationMs, in ticks
  PerSecond, PerMinute, Connections   \* the limits

ASSUME LimitsAssumption ==
  /\ {Second, Minute, BanTime, PerSecond, PerMinute, Connections} \subseteq Nat \ {0}
  /\ Second <= Minute

VARIABLES
  arrivals,         \* the window in _connWindows
  second, minute,   \* the two of the entry in _msgWindows
  ban,              \* ticks until the ban is over
  tried, admitted, letThrough,   \* history, by age: connections counted and
                             \* admitted, messages let through
  unearned          \* history: a connection was banned for fewer than it takes

logs == <<tried, admitted, letThrough>>
limitsVars == <<arrivals, second, minute, ban, logs, unearned>>

Oldest == 2 * Minute + 1
Ages == 0..Minute
Window(max) == [count : 0..max + 1, age : 0..Oldest]
NoWindow == [count |-> 0, age |-> Oldest]

LimitsTypeOK ==
  /\ arrivals \in Window(Connections)
  /\ second \in Window(PerSecond) /\ minute \in Window(PerMinute)
  /\ ban \in 0..BanTime /\ unearned \in BOOLEAN
  /\ {tried, admitted, letThrough} \subseteq [Ages -> Nat]

LimitsInit ==
  /\ arrivals = NoWindow /\ second = NoWindow /\ minute = NoWindow
  /\ ban = 0 /\ unearned = FALSE
  /\ tried = [t \in Ages |-> 0] /\ admitted = tried /\ letThrough = tried

(* One more in a window of the given length, or the first of a new one.     *)
(* Above the limit counts need not be told apart.                           *)
Counted(w, length, max) ==
  LET n == IF w.age > length THEN 1 ELSE w.count + 1 IN
  [count |-> IF n > max THEN max + 1 ELSE n,
   age |-> IF w.age > length THEN 0 ELSE w.age]

Older(w) == [w EXCEPT !.age = IF @ < Oldest THEN @ + 1 ELSE Oldest]
Noted(log) == [log EXCEPT ![0] = @ + 1]
Shifted(log) == [t \in Ages |-> IF t = 0 THEN 0 ELSE log[t - 1]]
Logged(log, ages) == UNION {{t} \X (1..log[t]) : t \in ages}
Within(log, length) == Cardinality(Logged(log, 0..length))

-----------------------------------------------------------------------------
(* _allowConnection; while the ban lasts nothing is counted.  Enough        *)
(* connections in one tick are as many as more of them.                     *)
Connection ==
  /\ ban = 0
  /\ arrivals' = Counted(arrivals, Minute, Connections)
  /\ tried' = IF tried[0] > Connections THEN tried ELSE Noted(tried)
  /\ IF arrivals'.count > Connections
       THEN /\ ban' = BanTime /\ UNCHANGED admitted
            /\ unearned' = (unearned \/ Within(tried', Minute) <= Connections)
       ELSE admitted' = Noted(admitted) /\ UNCHANGED <<ban, unearned>>
  /\ UNCHANGED <<second, minute, letThrough>>

(* _allowSignal: refused messages are counted as well. *)
Message ==
  /\ second' = Counted(second, Second, PerSecond)
  /\ minute' = Counted(minute, Minute, PerMinute)
  /\ letThrough' = IF second'.count <= PerSecond /\ minute'.count <= PerMinute
                 THEN Noted(letThrough) ELSE letThrough
  /\ UNCHANGED <<arrivals, ban, tried, admitted, unearned>>

(* ban, of any duration, and unban, which leaves the count *)
Ban == \E d \in 1..BanTime : ban' = d /\ UNCHANGED <<arrivals, second, minute, logs, unearned>>
Unban == ban > 0 /\ ban' = 0 /\ UNCHANGED <<arrivals, second, minute, logs, unearned>>

ForgetEnded ==
  /\ arrivals' = IF arrivals.age > 0 THEN NoWindow ELSE arrivals
  /\ IF second.age > Second
       THEN second' = NoWindow /\ minute' = NoWindow
       ELSE UNCHANGED <<second, minute>>
  /\ UNCHANGED <<ban, logs, unearned>>

(* _cleanup *)
ForgetOld ==
  /\ arrivals' = IF arrivals.age > 2 * Minute THEN NoWindow ELSE arrivals
  /\ IF minute.age > 2 * Minute
       THEN second' = NoWindow /\ minute' = NoWindow
       ELSE UNCHANGED <<second, minute>>
  /\ UNCHANGED <<ban, logs, unearned>>

Tick ==
  /\ arrivals' = Older(arrivals) /\ second' = Older(second) /\ minute' = Older(minute)
  /\ ban' = IF ban = 0 THEN 0 ELSE ban - 1
  /\ tried' = Shifted(tried) /\ admitted' = Shifted(admitted) /\ letThrough' = Shifted(letThrough)
  /\ UNCHANGED unearned

LimitsNext == Connection \/ Message \/ Ban \/ Unban \/ ForgetOld \/ Tick
LimitsSpec == LimitsInit /\ [][LimitsNext]_limitsVars

-----------------------------------------------------------------------------
(* Windows are fixed: any stretch of their length sees up to twice the      *)
(* limit and never more, whatever bans, lifted bans and clean-ups come      *)
(* between (_allowConnection, _allowSignal, _cleanup).                      *)
AtMostTwice ==
  /\ Within(admitted, Minute) <= 2 * Connections
  /\ Within(letThrough, Second) <= 2 * PerSecond
  /\ Within(letThrough, Minute) <= 2 * PerMinute

(* No address is banned but for more connections than the limit within one  *)
(* minute, also when an earlier ban was lifted or short.                    *)
BansEarned == ~unearned

LimitsHold == LimitsTypeOK /\ AtMostTwice /\ BansEarned
=============================================================================
