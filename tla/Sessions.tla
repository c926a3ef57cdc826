------------------------------- MODULE Sessions -------------------------------
(***************************************************************************)
(* core/SessionManager.js: one session, the processes that share a Redis   *)
(* and a secret, and the clients that present its token.  Sessions do not  *)
(* touch one another: each has its own token, entries and key.             *)
(*                                                                         *)
(* A process issues its Redis commands over one connection, so they run in *)
(* the order they were issued; between an await and its continuation       *)
(* anything else may happen.  Time is one fact: the TTL has elapsed or not. *)
(***************************************************************************)
EXTENDS Naturals, FiniteSets, SequencesExt

CONSTANTS
  Procs,      \* processes, each with a SessionManager
  Home,       \* the process the peer joined
  Calls,      \* calls of resume; bounds the retries of a behaviour
  NONE,       \* no session, no key, no call
  Crashes,    \* processes may stop without notice and start again
  Fails,      \* a Redis command may be rejected, or its reply lost
  Closing,    \* processes whose manager the application may close
  MaxQueue,   \* options.maxQueueSize (64 by default)
  MaxPipe     \* bound: no save by the application on a longer pipe

ASSUME HomeAssumption == Home \in Procs /\ IsFiniteSet(Procs)
ASSUME SwitchAssumption == {Crashes, Fails} \subseteq BOOLEAN
ASSUME BoundAssumption == MaxQueue \in Nat /\ MaxPipe \in Nat

VARIABLES
  mem,       \* the session in _byToken and _byPeer of each process
  redis,     \* the session under its key
  volatile,  \* the key has a TTL
  pipe,      \* Redis commands of each process not executed yet
  call,      \* what each call of resume waits for
  closed,    \* processes whose manager was closed: nothing sweeps them
  left,      \* the peer has left its room
  elapsed,   \* suspendedAt + ttl is past
  granted,   \* history: calls that returned the session
  expired,   \* history: session:expired events, two standing for more
  saved,     \* history: the suspended session has reached Redis
  cut        \* history: a call of resume was cut off once its del was executed

vars == <<mem, redis, volatile, pipe, call, closed, left, elapsed, granted, expired, saved, cut>>

State == {"active", "suspended", "resumed", "migrated"}
Session == [state : State, queue : 0..MaxQueue]
Waiting == [at : Procs, waits : {"get", "reply", "del", "deleted"},
            reply : Session \cup {NONE}]

ASSUME NoneAssumption == NONE \notin Calls /\ NONE \notin Session /\ NONE \notin Waiting

Command ==
  [op : {"set"}, session : Session]
    \cup [op : {"get", "del"}, call : Calls \cup {NONE}]
    \cup [op : {"expire"}]

TypeOK ==
  /\ mem \in [Procs -> Session \cup {NONE}]
  /\ redis \in Session \cup {NONE}
  /\ pipe \in [Procs -> Seq(Command)]
  /\ call \in [Calls -> Waiting \cup {NONE}]
  /\ closed \subseteq Procs
  /\ {volatile, left, elapsed, saved, cut} \subseteq BOOLEAN
  /\ granted \subseteq Calls
  /\ expired \in 0..2

(* The peer has joined the home process: _createSession. *)
Init ==
  /\ mem = [h \in Procs |->
              IF h = Home THEN [state |-> "active", queue |-> 0] ELSE NONE]
  /\ redis = NONE /\ volatile = FALSE
  /\ pipe = [h \in Procs |-> << >>]
  /\ call = [c \in Calls |-> NONE]
  /\ left = FALSE /\ elapsed = FALSE /\ saved = FALSE /\ cut = FALSE
  /\ closed = {} /\ granted = {} /\ expired = 0

Is(h, state) == mem[h] # NONE /\ mem[h].state = state

(* Suspended for longer than its TTL. *)
Overdue(session) == session.state = "suspended" /\ elapsed

Expired == expired' = IF expired = 2 THEN 2 ELSE expired + 1

Issue(h, commands) ==
  pipe' = [pipe EXCEPT ![h] = @ \o commands]

Set(session) == [op |-> "set", session |-> session]
Get(c) == [op |-> "get", call |-> c]
Del(c) == [op |-> "del", call |-> c]

-----------------------------------------------------------------------------
(* _suspendSession, for each of the one or two peer:left events the server  *)
(* emits in a callback.                                                     *)
Suspend ==
  /\ ~left /\ mem[Home] # NONE
  /\ mem' = [mem EXCEPT ![Home].state = "suspended"]
  /\ \E times \in 1..2 : Issue(Home, [i \in 1..times |-> Set(mem'[Home])])
  /\ left' = TRUE /\ elapsed' = FALSE
  /\ UNCHANGED <<redis, volatile, call, closed, granted, expired, saved, cut>>

(* enqueue: the copy in Redis is not written again. *)
Enqueue(h) ==
  /\ Is(h, "suspended") /\ mem[h].queue < MaxQueue
  /\ mem' = [mem EXCEPT ![h].queue = @ + 1]
  /\ UNCHANGED <<redis, volatile, pipe, call, closed, left, elapsed, granted, expired, saved, cut>>

(* flushQueue: it looks at no state either. *)
Flush(h) ==
  /\ mem[h] # NONE
  /\ mem' = [mem EXCEPT ![h].queue = 0]
  /\ UNCHANGED <<redis, volatile, pipe, call, closed, left, elapsed, granted, expired, saved, cut>>

(* migrateSession looks at no state.  Bound: nobody migrates a session of a *)
(* process twice.                                                           *)
Migrate(h) ==
  /\ mem[h] # NONE /\ mem[h].state # "migrated" /\ Len(pipe[h]) < MaxPipe
  /\ mem' = [mem EXCEPT ![h].state = "migrated"]
  /\ Issue(h, <<Set(mem'[h])>>)
  /\ UNCHANGED <<redis, volatile, call, closed, left, elapsed, granted, expired, saved, cut>>

SweepKeepsEntry(h) ==
  /\ h \notin closed /\ mem[h] # NONE /\ Overdue(mem[h])
  /\ Issue(h, <<Del(NONE)>>)
  /\ Expired
  /\ UNCHANGED <<mem, redis, volatile, call, closed, left, elapsed, granted, saved, cut>>

(* _sweepExpired, _expireSession *)
Sweep(h) ==
  /\ h \notin closed /\ mem[h] # NONE /\ Overdue(mem[h])
  /\ mem' = [mem EXCEPT ![h] = NONE]
  /\ Issue(h, <<Del(NONE)>>)
  /\ Expired
  /\ UNCHANGED <<redis, volatile, call, closed, left, elapsed, granted, saved, cut>>

(* close: the sweep stops, and a suspended session is saved.  The manager   *)
(* goes on listening, and the application calling it.  Bound: nobody closes *)
(* a manager twice.                                                         *)
Close(h) ==
  /\ h \in Closing \ closed
  /\ closed' = closed \cup {h}
  /\ \/ Is(h, "suspended") /\ Len(pipe[h]) < MaxPipe /\ Issue(h, <<Set(mem[h])>>)
     \/ ~ Is(h, "suspended") /\ UNCHANGED pipe
  /\ UNCHANGED <<mem, redis, volatile, call, left, elapsed, granted, expired, saved, cut>>

-----------------------------------------------------------------------------
(* resume: what follows once call c has found session in memory or Redis.   *)

ClaimAfterDelete(h, c, session) ==
  \/ /\ session.state # "suspended"
     /\ call' = [call EXCEPT ![c] = NONE]
     /\ UNCHANGED <<mem, pipe, granted, expired>>
  \/ /\ session.state = "suspended"
     /\ mem' = [mem EXCEPT ![h] = session]
     /\ Issue(h, <<Del(c)>>)
     /\ call' = [call EXCEPT ![c] = [at |-> h, waits |-> "del", reply |-> NONE]]
     /\ UNCHANGED <<granted, expired>>

ClaimCleansUp(h, c, session) ==
  \/ /\ session.state # "suspended"
     /\ call' = [call EXCEPT ![c] = NONE]
     /\ mem' = [mem EXCEPT ![h] = NONE]
     /\ Issue(h, <<Del(NONE)>>)
     /\ UNCHANGED <<granted, expired>>
  \/ /\ session.state = "suspended" /\ ~elapsed
     /\ mem' = [mem EXCEPT ![h] = [session EXCEPT !.state = "resumed"]]
     /\ Issue(h, <<Del(c)>>)
     /\ call' = [call EXCEPT ![c] = [at |-> h, waits |-> "del", reply |-> NONE]]
     /\ UNCHANGED <<granted, expired>>

Claim(h, c, session) ==
  \/ /\ session.state # "suspended"                    \* not resumable
     /\ call' = [call EXCEPT ![c] = NONE]
     /\ mem' = [mem EXCEPT ![h] = session]
     /\ UNCHANGED <<pipe, granted, expired>>
  \/ /\ Overdue(session)
     /\ call' = [call EXCEPT ![c] = NONE]
     /\ mem' = [mem EXCEPT ![h] = NONE]
     /\ Issue(h, <<Del(NONE)>>)
     /\ Expired
     /\ UNCHANGED granted
  \/ /\ session.state = "suspended" /\ ~elapsed
     /\ mem' = [mem EXCEPT ![h] = [session EXCEPT !.state = "resumed"]]
     /\ Issue(h, <<Del(c)>>)
     /\ call' = [call EXCEPT ![c] = [at |-> h, waits |-> "del", reply |-> NONE]]
     /\ UNCHANGED <<granted, expired>>

(* A call that has not been made yet, or one that returned null and is made *)
(* again.                                                                   *)
Resume(c, h) ==
  /\ call[c] = NONE /\ c \notin granted
  /\ \/ /\ mem[h] # NONE
        /\ Claim(h, c, mem[h])
     \/ /\ mem[h] = NONE
        /\ call' = [call EXCEPT ![c] = [at |-> h, waits |-> "get", reply |-> NONE]]
        /\ Issue(h, <<Get(c)>>)
        /\ UNCHANGED <<mem, granted, expired>>
  /\ UNCHANGED <<redis, volatile, closed, left, elapsed, saved, cut>>

(* The reply of the get: _loadFromRedis puts the copy in the maps, over     *)
(* whatever they hold by now, and resume goes on with it.                   *)
Loaded(c) ==
  /\ call[c] # NONE /\ call[c].waits = "reply"
  /\ LET h == call[c].at IN
     \/ /\ call[c].reply = NONE
        /\ call' = [call EXCEPT ![c] = NONE]
        /\ UNCHANGED <<mem, pipe, granted, expired>>
     \/ /\ call[c].reply # NONE
        /\ Claim(h, c, call[c].reply)
  /\ UNCHANGED <<redis, volatile, closed, left, elapsed, saved, cut>>

Deleted(c) == call[c] # NONE /\ call[c].waits = "deleted"

(* The del has replied: resume returns the session. *)
Return(c) ==
  /\ Deleted(c)
  /\ call' = [call EXCEPT ![c] = NONE]
  /\ granted' = granted \cup {c}
  /\ UNCHANGED <<mem, redis, volatile, pipe, closed, left, elapsed, expired, saved, cut>>

-----------------------------------------------------------------------------
(* Redis. *)

SaveWithoutTtl(h, session, rest) ==
  /\ redis' = session /\ volatile' = FALSE
  /\ saved' = (saved \/ session.state = "suspended")
  /\ pipe' = [pipe EXCEPT ![h] = rest]
  /\ UNCHANGED call

(* A save goes on with its expire when its set has replied; a set drops the *)
(* TTL of the key.                                                          *)
Save(h, session, rest) ==
  /\ redis' = session /\ volatile' = FALSE
  /\ saved' = (saved \/ session.state = "suspended")
  /\ pipe' = [pipe EXCEPT ![h] = Append(rest, [op |-> "expire"])]
  /\ UNCHANGED call

Fetch(h, c, rest) ==
  /\ call' = [call EXCEPT ![c].waits = "reply", ![c].reply = redis]
  /\ pipe' = [pipe EXCEPT ![h] = rest]
  /\ UNCHANGED <<redis, volatile, saved>>

(* The del of an expiry, which nobody waits for, or of call c.              *)
Delete(h, c, rest) ==
  /\ redis' = NONE /\ volatile' = FALSE
  /\ pipe' = [pipe EXCEPT ![h] = rest]
  /\ call' = IF c = NONE THEN call ELSE [call EXCEPT ![c].waits = "deleted"]
  /\ UNCHANGED saved

GiveTtl(h, rest) ==
  /\ volatile' = (redis # NONE)
  /\ pipe' = [pipe EXCEPT ![h] = rest]
  /\ UNCHANGED <<redis, saved, call>>

Execute(h) ==
  /\ pipe[h] # << >>
  /\ LET cmd == Head(pipe[h])
         rest == Tail(pipe[h])
     IN \/ cmd.op = "set" /\ Save(h, cmd.session, rest)
        \/ cmd.op = "expire" /\ GiveTtl(h, rest)
        \/ cmd.op = "get" /\ Fetch(h, cmd.call, rest)
        \/ cmd.op = "del" /\ Delete(h, cmd.call, rest)
  /\ UNCHANGED <<mem, closed, left, elapsed, granted, expired, cut>>

(* The call that a command answers throws, or takes a failed get for        *)
(* nothing found; after a failed del the session stays marked resumed.      *)
Dropped(cmd) ==
  IF cmd.op \in {"get", "del"} /\ cmd.call # NONE
    THEN [call EXCEPT ![cmd.call] = NONE] ELSE call

(* A command is rejected. *)
Reject(h) ==
  /\ Fails /\ pipe[h] # << >>
  /\ pipe' = [pipe EXCEPT ![h] = Tail(@)]
  /\ call' = Dropped(Head(pipe[h]))
  /\ UNCHANGED <<mem, redis, volatile, closed, left, elapsed, granted, expired, saved, cut>>

(* A set or a del is executed, but its reply is lost: no expire follows the *)
(* one, and resume throws after the other.                                  *)
ReplyLost(h) ==
  /\ Fails /\ pipe[h] # << >>
  /\ LET cmd == Head(pipe[h]) IN
     \/ /\ cmd.op = "set"
        /\ SaveWithoutTtl(h, cmd.session, Tail(pipe[h]))
        /\ UNCHANGED cut
     \/ /\ cmd.op = "del"
        /\ redis' = NONE /\ volatile' = FALSE
        /\ pipe' = [pipe EXCEPT ![h] = Tail(@)]
        /\ call' = Dropped(cmd)
        /\ cut' = (cut \/ cmd.call # NONE)
        /\ UNCHANGED saved
  /\ UNCHANGED <<mem, closed, left, elapsed, granted, expired>>

(* The key's own TTL, never shorter than the session's. *)
Evict ==
  /\ elapsed /\ redis # NONE /\ volatile
  /\ redis' = NONE /\ volatile' = FALSE
  /\ UNCHANGED <<mem, pipe, call, closed, left, elapsed, granted, expired, saved, cut>>

(* A peer that has left, or a copy that migrateSession saved, grows old. *)
Elapse ==
  /\ ~elapsed
  /\ \E h \in Procs : mem[h] # NONE /\ mem[h].state # "active"
  /\ elapsed' = TRUE
  /\ UNCHANGED <<mem, redis, volatile, pipe, call, closed, left, granted, expired, saved, cut>>

(* A process is gone, with what it had not sent, and starts again empty. *)
Crash(h) ==
  /\ Crashes
  /\ mem' = [mem EXCEPT ![h] = NONE]
  /\ pipe' = [pipe EXCEPT ![h] = << >>]
  /\ closed' = closed \ {h}
  /\ cut' = (cut \/ \E c \in Calls : Deleted(c) /\ call[c].at = h)
  /\ call' = [c \in Calls |->
                IF call[c] # NONE /\ call[c].at = h THEN NONE ELSE call[c]]
  /\ UNCHANGED <<redis, volatile, left, elapsed, granted, expired, saved>>

Next ==
  \/ Suspend \/ Evict \/ Elapse
  \/ \E h \in Procs :
       \/ Enqueue(h) \/ Flush(h) \/ Migrate(h) \/ Sweep(h) \/ Close(h)
       \/ Execute(h) \/ Reject(h) \/ ReplyLost(h) \/ Crash(h)
       \/ \E c \in Calls : Resume(c, h)
  \/ \E c \in Calls : Loaded(c) \/ Return(c)

Spec == Init /\ [][Next]_vars

(* Time passes, the interval of the sweep recurs, Redis serves what it is   *)
(* sent and evicts what has a TTL.                                          *)
Fairness ==
  /\ WF_vars(Elapse) /\ WF_vars(Evict)
  /\ \A h \in Procs : WF_vars(Sweep(h)) /\ WF_vars(Execute(h))
  /\ \A c \in Calls : WF_vars(Loaded(c)) /\ WF_vars(Return(c))

FairSpec == Spec /\ Fairness

-----------------------------------------------------------------------------
(* A session of one process ends once, whatever calls of resume, sweeps and *)
(* saves are interleaved: it is resumed for one call or expires, never      *)
(* both and neither twice (resume, _sweepExpired, _expireSession).          *)
OneOutcome == Cardinality(granted) + expired <= 1

(* Types, and the one outcome of a session.                                 *)
SessionsHold == TypeOK /\ OneOutcome

(* A suspended session that has reached Redis stays there, though processes *)
(* crash and commands fail, until its TTL is over or the del of a resume    *)
(* has removed it: then a call has returned it or is about to, unless a     *)
(* crash or a lost reply cuts off the call between the del and its return   *)
(* (resume deletes the copy after it has marked the session).               *)
Durable ==
  saved /\ ~cut /\ ~elapsed =>
    redis # NONE \/ granted # {} \/ \E c \in Calls : Deleted(c)

(* No process whose manager is open keeps a suspended session for good, its *)
(* own or a copy it has loaded (cleanupIntervalMs, _sweepExpired).          *)
SuspendedEnds ==
  \A h \in Procs : Is(h, "suspended") ~> ~ Is(h, "suspended") \/ h \in closed

(* No key is left in Redis: what the del of a resume or of an expiry does   *)
(* not remove, a late save included, its own TTL does (_saveToRedis).       *)
RedisDrains == redis # NONE ~> redis = NONE
=============================================================================
