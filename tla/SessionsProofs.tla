---------------------------- MODULE SessionsProofs ----------------------------
(***************************************************************************)
(* Theorems about Sessions: for any number of processes and calls, crashes *)
(* and failing commands, a saved session waits in Redis; and in a process  *)
(* of its own it has one outcome.                                          *)
(***************************************************************************)
EXTENDS Sessions, SequenceTheorems, FiniteSetTheorems, TLAPS

-----------------------------------------------------------------------------
(* The inductive invariant. *)

Answers == {"get", "del"}

(* A call of resume that a command of the pipe answers is waiting for it,   *)
(* and for no other: the pipe of a process never has two commands of one.   *)
CallsAwaited ==
  \A h \in Procs : \A i \in 1..Len(pipe[h]) :
    pipe[h][i].op \in Answers =>
      /\ pipe[h][i].op = "get" => pipe[h][i].call # NONE
      /\ pipe[h][i].call # NONE =>
           /\ call[pipe[h][i].call] # NONE
           /\ call[pipe[h][i].call].at = h
           /\ call[pipe[h][i].call].waits = pipe[h][i].op
           /\ \A j \in 1..Len(pipe[h]) :
                pipe[h][j].op \in Answers /\ pipe[h][j].call = pipe[h][i].call => j = i

(* The commands that are not executed yet. *)
InPipes == {cmd \in Command : \E h \in Procs : \E i \in 1..Len(pipe[h]) : pipe[h][i] = cmd}

(* Until the peer leaves nothing is suspended, neither in a process nor in  *)
(* Redis nor on the way between them.                                       *)
Suspended(session) == session # NONE /\ session.state = "suspended"

SuspendedAfterLeft ==
  \/ left
  \/ /\ ~saved /\ ~Suspended(redis)
     /\ \A h \in Procs : ~Suspended(mem[h])
     /\ \A c \in Calls : call[c] # NONE => ~Suspended(call[c].reply)
     /\ \A cmd \in InPipes : cmd.op = "set" => ~Suspended(cmd.session)

(* A del that no call waits for follows an expiry.                          *)
DelsAreLate == Del(NONE) \in InPipes => left /\ elapsed

DurableInv == TypeOK /\ CallsAwaited /\ SuspendedAfterLeft /\ DelsAreLate /\ Durable

-----------------------------------------------------------------------------
(* One process that neither crashes nor loses commands: what its session    *)
(* has come to.                                                             *)
Line == pipe[Home]

NotResumed ==
  /\ granted = {} /\ expired = 0
  /\ mem[Home] # NONE /\ mem[Home].state # "resumed"
  /\ \A c \in Calls : call[c] = NONE
  /\ \A i \in 1..Len(Line) : Line[i].op \notin Answers

(* One call waits for its del or has returned.                              *)
WasResumed ==
  /\ left /\ expired = 0
  /\ mem[Home] # NONE /\ mem[Home].state \in {"resumed", "migrated"}
  /\ \E c \in Calls :
       /\ granted \subseteq {c}
       /\ \A d \in Calls : call[d] # NONE =>
            d = c /\ granted = {} /\ call[d].waits \in {"del", "deleted"}
  /\ \A i \in 1..Len(Line) : Line[i].op \in Answers => Line[i].call # NONE

(* Nothing can be loaded any more: the saves under way are ahead of the     *)
(* del, and the gets behind it.                                             *)
HasExpired ==
  /\ left /\ expired = 1 /\ granted = {}
  /\ mem[Home] = NONE
  /\ \A c \in Calls : call[c] # NONE =>
       call[c].waits \in {"get", "reply"} /\ call[c].reply = NONE
  /\ \/ /\ redis = NONE
        /\ \A i \in 1..Len(Line) : Line[i].op \in {"get", "expire"}
     \/ \E k \in 1..Len(Line) :
          /\ Line[k] = Del(NONE)
          /\ \A i \in 1..k - 1 : Line[i].op \in {"set", "expire"}
          /\ \A i \in k + 1..Len(Line) : Line[i].op \in {"get", "expire"}

OutcomeInv ==
  /\ DurableInv
  /\ NotResumed \/ WasResumed \/ HasExpired

-----------------------------------------------------------------------------
(* Commands and pipes. *)

LEMMA CommandFields ==
  ASSUME NEW cmd \in Command
  PROVE  /\ cmd.op \in {"set", "get", "del", "expire"}
         /\ cmd.op = "set" => cmd.session \in Session
         /\ cmd.op \in Answers => cmd.call \in Calls \cup {NONE}
BY DEF Command, Answers

LEMMA CommandsMade ==
  /\ \A session \in Session :
       Set(session) \in Command /\ Set(session).op = "set" /\ Set(session).session = session
  /\ \A c \in Calls \cup {NONE} :
       /\ Get(c) \in Command /\ Get(c).op = "get" /\ Get(c).call = c
       /\ Del(c) \in Command /\ Del(c).op = "del" /\ Del(c).call = c
  /\ [op |-> "expire"] \in Command /\ [op |-> "expire"].op = "expire"
BY DEF Command, Set, Get, Del

PipesOK == pipe \in [Procs -> Seq(Command)]

(* The pipes of other processes than h stand still. *)
OthersKept(h) == \A g \in Procs \ {h} : pipe'[g] = pipe[g]

(* New commands go behind those of the pipe. *)
LEMMA IssueAppends ==
  ASSUME PipesOK, NEW h \in Procs, NEW cmds \in Seq(Command), Issue(h, cmds)
  PROVE  /\ PipesOK' /\ OthersKept(h)
         /\ Len(pipe'[h]) = Len(pipe[h]) + Len(cmds)
         /\ \A i \in 1..Len(pipe[h]) : pipe'[h][i] = pipe[h][i]
         /\ \A i \in Len(pipe[h]) + 1..Len(pipe'[h]) : pipe'[h][i] = cmds[i - Len(pipe[h])]
<1>1. pipe[h] \in Seq(Command) /\ pipe' = [pipe EXCEPT ![h] = pipe[h] \o cmds]
  BY DEF PipesOK, Issue
<1>2. /\ pipe[h] \o cmds \in Seq(Command)
      /\ Len(pipe[h] \o cmds) = Len(pipe[h]) + Len(cmds)
      /\ \A i \in 1..Len(pipe[h]) + Len(cmds) :
           (pipe[h] \o cmds)[i] = IF i <= Len(pipe[h]) THEN pipe[h][i] ELSE cmds[i - Len(pipe[h])]
  BY <1>1, ConcatProperties
<1>3. Len(pipe[h]) \in Nat /\ Len(cmds) \in Nat
  BY <1>1, LenProperties
<1>4. pipe'[h] = pipe[h] \o cmds
  BY <1>1 DEF PipesOK
<1>5. PipesOK' /\ OthersKept(h)
  BY <1>1, <1>2 DEF PipesOK, OthersKept
<1> QED BY <1>2, <1>3, <1>4, <1>5

(* As above for one command. *)
LEMMA IssueOne ==
  ASSUME PipesOK, NEW h \in Procs, NEW cmd \in Command, Issue(h, <<cmd>>)
  PROVE  /\ PipesOK' /\ OthersKept(h)
         /\ Len(pipe'[h]) = Len(pipe[h]) + 1 /\ Len(pipe[h]) \in Nat
         /\ \A i \in 1..Len(pipe[h]) : pipe'[h][i] = pipe[h][i]
         /\ pipe'[h][Len(pipe[h]) + 1] = cmd
<1>1. <<cmd>> \in Seq(Command) /\ Len(<<cmd>>) = 1 /\ <<cmd>>[1] = cmd
  OBVIOUS
<1>2. Len(pipe[h]) \in Nat
  BY LenProperties DEF PipesOK
<1>3. /\ PipesOK' /\ OthersKept(h)
      /\ Len(pipe'[h]) = Len(pipe[h]) + Len(<<cmd>>)
      /\ \A i \in 1..Len(pipe[h]) : pipe'[h][i] = pipe[h][i]
      /\ \A i \in Len(pipe[h]) + 1..Len(pipe'[h]) : pipe'[h][i] = <<cmd>>[i - Len(pipe[h])]
  BY <1>1, IssueAppends
<1>4. pipe'[h][Len(pipe[h]) + 1] = <<cmd>>[1]
  BY <1>1, <1>2, <1>3
<1> QED BY <1>1, <1>2, <1>3, <1>4

(* The first command is taken out, and its chain may go on behind the rest. *)
LEMMA PipePopped ==
  ASSUME PipesOK, NEW h \in Procs, pipe[h] # << >>,
         pipe' = [pipe EXCEPT ![h] = Tail(pipe[h])]
  PROVE  /\ PipesOK' /\ OthersKept(h)
         /\ Len(pipe[h]) \in Nat \ {0} /\ Head(pipe[h]) = pipe[h][1]
         /\ pipe[h][1] \in Command
         /\ Len(pipe'[h]) = Len(pipe[h]) - 1
         /\ \A i \in 1..Len(pipe'[h]) : pipe'[h][i] = pipe[h][i + 1]
<1>1. pipe[h] \in Seq(Command)
  BY DEF PipesOK
<1>2. /\ Tail(pipe[h]) \in Seq(Command) /\ Len(Tail(pipe[h])) = Len(pipe[h]) - 1
      /\ \A i \in 1..Len(Tail(pipe[h])) : Tail(pipe[h])[i] = pipe[h][i + 1]
      /\ Head(pipe[h]) \in Command
  BY <1>1, HeadTailProperties
<1>3. Len(pipe[h]) \in Nat \ {0} /\ Head(pipe[h]) = pipe[h][1]
  BY <1>1, EmptySeq, LenProperties
<1>4. pipe'[h] = Tail(pipe[h])
  BY DEF PipesOK
<1>5. PipesOK' /\ OthersKept(h)
  BY <1>2 DEF PipesOK, OthersKept
<1> QED BY <1>2, <1>3, <1>4, <1>5

LEMMA PipeContinued ==
  ASSUME PipesOK, NEW h \in Procs, pipe[h] # << >>, NEW cmd \in Command,
         pipe' = [pipe EXCEPT ![h] = Append(Tail(pipe[h]), cmd)]
  PROVE  /\ PipesOK' /\ OthersKept(h)
         /\ Len(pipe[h]) \in Nat \ {0} /\ Head(pipe[h]) = pipe[h][1]
         /\ pipe[h][1] \in Command
         /\ Len(pipe'[h]) = Len(pipe[h])
         /\ \A i \in 1..Len(pipe[h]) - 1 : pipe'[h][i] = pipe[h][i + 1]
         /\ pipe'[h][Len(pipe[h])] = cmd
<1>1. pipe[h] \in Seq(Command)
  BY DEF PipesOK
<1>2. /\ Tail(pipe[h]) \in Seq(Command) /\ Len(Tail(pipe[h])) = Len(pipe[h]) - 1
      /\ \A i \in 1..Len(Tail(pipe[h])) : Tail(pipe[h])[i] = pipe[h][i + 1]
      /\ Head(pipe[h]) \in Command
  BY <1>1, HeadTailProperties
<1>3. Len(pipe[h]) \in Nat \ {0} /\ Head(pipe[h]) = pipe[h][1]
  BY <1>1, EmptySeq, LenProperties
<1>4. /\ Append(Tail(pipe[h]), cmd) \in Seq(Command)
      /\ Len(Append(Tail(pipe[h]), cmd)) = Len(Tail(pipe[h])) + 1
      /\ \A i \in 1..Len(Tail(pipe[h])) :
           Append(Tail(pipe[h]), cmd)[i] = Tail(pipe[h])[i]
      /\ Append(Tail(pipe[h]), cmd)[Len(Tail(pipe[h])) + 1] = cmd
  BY <1>2, AppendProperties
<1>5. pipe'[h] = Append(Tail(pipe[h]), cmd)
  BY DEF PipesOK
<1>6. PipesOK' /\ OthersKept(h)
  BY <1>4 DEF PipesOK, OthersKept
<1> QED BY <1>2, <1>3, <1>4, <1>5, <1>6

-----------------------------------------------------------------------------
(* Calls and the commands that answer them. *)

(* Nobody waits for the command. *)
Free(cmd) ==
  \/ cmd.op \notin Answers
  \/ cmd.op = "del" /\ cmd.call = NONE

(* The pipe of h loses its first shift commands and gets some nobody waits  *)
(* for; a call that still waited for a command kept goes on waiting.        *)
PipeMoves(h, shift) ==
  /\ OthersKept(h)
  /\ \A i \in 1..Len(pipe'[h]) :
       IF i + shift <= Len(pipe[h]) THEN pipe'[h][i] = pipe[h][i + shift]
                                    ELSE Free(pipe'[h][i])

CallsKept(h, shift) ==
  \A c \in Calls :
    \/ call'[c] = call[c] \/ call[c] = NONE \/ call[c].waits \in {"reply", "deleted"}
    \/ /\ shift = 1 /\ pipe[h] # << >>
       /\ pipe[h][1].op \in Answers /\ pipe[h][1].call = c

LEMMA AwaitedStep ==
  ASSUME PipesOK, PipesOK', CallsAwaited, NEW h \in Procs, NEW shift \in {0, 1},
         PipeMoves(h, shift), CallsKept(h, shift)
  PROVE  CallsAwaited'
<1> SUFFICES ASSUME NEW g \in Procs, NEW i \in 1..Len(pipe'[g]), pipe'[g][i].op \in Answers
             PROVE  /\ pipe'[g][i].op = "get" => pipe'[g][i].call # NONE
                    /\ pipe'[g][i].call # NONE =>
                         /\ call'[pipe'[g][i].call] # NONE
                         /\ call'[pipe'[g][i].call].at = g
                         /\ call'[pipe'[g][i].call].waits = pipe'[g][i].op
                         /\ \A j \in 1..Len(pipe'[g]) :
                              pipe'[g][j].op \in Answers /\ pipe'[g][j].call = pipe'[g][i].call
                                => j = i
  BY DEF CallsAwaited
<1>1. Len(pipe[g]) \in Nat /\ Len(pipe'[g]) \in Nat /\ Len(pipe[h]) \in Nat
  BY LenProperties DEF PipesOK
<1>2. \A j \in 1..Len(pipe[g]) : pipe[g][j] \in Command
  BY ElementOfSeq DEF PipesOK
<1>s. DEFINE s == IF g = h THEN shift ELSE 0
<1>3. \A j \in 1..Len(pipe'[g]) :
        \/ j + s \in 1..Len(pipe[g]) /\ pipe'[g][j] = pipe[g][j + s]
        \/ Free(pipe'[g][j])
  BY <1>1 DEF PipeMoves, OthersKept
<1>4. CASE Free(pipe'[g][i])
  BY <1>4 DEF Free
<1>5. CASE ~Free(pipe'[g][i])
  <2>1. i + s \in 1..Len(pipe[g]) /\ pipe'[g][i] = pipe[g][i + s]
    BY <1>3, <1>5
  <2>2. pipe[g][i + s].op = "get" => pipe[g][i + s].call # NONE
    BY <2>1 DEF CallsAwaited
  <2>3. ASSUME pipe[g][i + s].call # NONE
        PROVE  /\ call'[pipe[g][i + s].call] # NONE
               /\ call'[pipe[g][i + s].call].at = g
               /\ call'[pipe[g][i + s].call].waits = pipe[g][i + s].op
               /\ \A j \in 1..Len(pipe'[g]) :
                    pipe'[g][j].op \in Answers /\ pipe'[g][j].call = pipe[g][i + s].call
                      => j = i
    <3> DEFINE c == pipe[g][i + s].call
    <3>1. c \in Calls
      BY <1>2, <2>1, <2>3, CommandFields
    <3>2. /\ call[c] # NONE /\ call[c].at = g /\ call[c].waits = pipe[g][i + s].op
          /\ \A j \in 1..Len(pipe[g]) :
               pipe[g][j].op \in Answers /\ pipe[g][j].call = c => j = i + s
      BY <2>1, <2>3 DEF CallsAwaited
    <3>3. \A j \in 1..Len(pipe'[g]) :
            pipe'[g][j].op \in Answers /\ pipe'[g][j].call = c => j = i
      <4> SUFFICES ASSUME NEW j \in 1..Len(pipe'[g]),
                          pipe'[g][j].op \in Answers, pipe'[g][j].call = c
                   PROVE  j = i
        OBVIOUS
      <4>1. ~Free(pipe'[g][j])
        BY <2>3 DEF Free
      <4>2. j + s \in 1..Len(pipe[g]) /\ pipe'[g][j] = pipe[g][j + s]
        BY <1>3, <4>1
      <4>3. j + s = i + s
        BY <3>2, <4>2
      <4>4. s \in {0, 1} /\ i \in Int /\ j \in Int
        OBVIOUS
      <4> HIDE DEF s, c
      <4> QED BY <4>3, <4>4
    <3>4. ASSUME shift = 1, pipe[h] # << >>, pipe[h][1].op \in Answers, pipe[h][1].call = c
          PROVE  FALSE
      <4>1. Len(pipe[h]) # 0
        BY <3>4, EmptySeq DEF PipesOK
      <4>2. 1 \in 1..Len(pipe[h])
        BY <1>1, <4>1
      <4>3. g = h
        BY <2>3, <3>2, <3>4, <4>2 DEF CallsAwaited
      <4> QED BY <3>2, <3>4, <4>2, <4>3
    <3>5. call[c].waits \notin {"reply", "deleted"}
      BY <3>2, <2>1 DEF Answers
    <3>6. call'[c] = call[c]
      BY <3>1, <3>2, <3>4, <3>5 DEF CallsKept
    <3> QED BY <3>2, <3>3, <3>6
  <2> QED BY <2>1, <2>2, <2>3
<1> QED BY <1>4, <1>5

(* A call that waits for nothing of the pipes asks for something.           *)
LEMMA AwaitedAsk ==
  ASSUME PipesOK, CallsAwaited, NEW h \in Procs, NEW c \in Calls, NEW cmd \in Command,
         call[c] = NONE \/ call[c].waits = "reply",
         Issue(h, <<cmd>>), cmd.op \in Answers, cmd.call = c,
         call'[c] = [at |-> h, waits |-> cmd.op, reply |-> NONE],
         \A d \in Calls \ {c} : call'[d] = call[d]
  PROVE  CallsAwaited'
<1>1. /\ PipesOK' /\ OthersKept(h)
      /\ Len(pipe'[h]) = Len(pipe[h]) + 1 /\ Len(pipe[h]) \in Nat
      /\ \A i \in 1..Len(pipe[h]) : pipe'[h][i] = pipe[h][i]
      /\ pipe'[h][Len(pipe[h]) + 1] = cmd
  BY IssueOne
<1>2. \A g \in Procs : \A j \in 1..Len(pipe[g]) : pipe[g][j] \in Command
  BY ElementOfSeq DEF PipesOK
<1>3. \A g \in Procs : \A j \in 1..Len(pipe[g]) :
        pipe[g][j].op \in Answers => pipe[g][j].call # c
  <2> SUFFICES ASSUME NEW g \in Procs, NEW j \in 1..Len(pipe[g]),
                      pipe[g][j].op \in Answers, pipe[g][j].call = c
               PROVE  FALSE
    OBVIOUS
  <2>1. c # NONE
    BY NoneAssumption
  <2>2. call[c] # NONE /\ call[c].waits = pipe[g][j].op
    BY <2>1 DEF CallsAwaited
  <2> QED BY <2>2 DEF Answers
<1> SUFFICES ASSUME NEW g \in Procs, NEW i \in 1..Len(pipe'[g]), pipe'[g][i].op \in Answers
             PROVE  /\ pipe'[g][i].op = "get" => pipe'[g][i].call # NONE
                    /\ pipe'[g][i].call # NONE =>
                         /\ call'[pipe'[g][i].call] # NONE
                         /\ call'[pipe'[g][i].call].at = g
                         /\ call'[pipe'[g][i].call].waits = pipe'[g][i].op
                         /\ \A j \in 1..Len(pipe'[g]) :
                              pipe'[g][j].op \in Answers /\ pipe'[g][j].call = pipe'[g][i].call
                                => j = i
  BY DEF CallsAwaited
<1>4. CASE i \in 1..Len(pipe[g]) /\ pipe'[g][i] = pipe[g][i]
  <2>1. pipe[g][i].op = "get" => pipe[g][i].call # NONE
    BY <1>4 DEF CallsAwaited
  <2>2. ASSUME pipe[g][i].call # NONE
        PROVE  /\ call'[pipe[g][i].call] # NONE
               /\ call'[pipe[g][i].call].at = g
               /\ call'[pipe[g][i].call].waits = pipe[g][i].op
               /\ \A j \in 1..Len(pipe'[g]) :
                    pipe'[g][j].op \in Answers /\ pipe'[g][j].call = pipe[g][i].call
                      => j = i
    <3> DEFINE d == pipe[g][i].call
    <3>1. d \in Calls \ {c}
      BY <1>2, <1>3, <1>4, <2>2, CommandFields
    <3>2. /\ call[d] # NONE /\ call[d].at = g /\ call[d].waits = pipe[g][i].op
          /\ \A j \in 1..Len(pipe[g]) :
               pipe[g][j].op \in Answers /\ pipe[g][j].call = d => j = i
      BY <1>4, <2>2 DEF CallsAwaited
    <3>3. call'[d] = call[d]
      BY <3>1
    <3>4. \A j \in 1..Len(pipe'[g]) :
            pipe'[g][j].op \in Answers /\ pipe'[g][j].call = d => j = i
      <4>1. CASE g = h
        BY <1>1, <3>1, <3>2, <4>1
      <4>2. CASE g # h
        BY <1>1, <3>2, <4>2 DEF OthersKept
      <4> QED BY <4>1, <4>2
    <3> QED BY <3>2, <3>3, <3>4
  <2> QED BY <1>4, <2>1, <2>2
<1>5. CASE g = h /\ i = Len(pipe[h]) + 1
  <2>1. pipe'[g][i] = cmd
    BY <1>1, <1>5
  <2>2. \A j \in 1..Len(pipe'[g]) :
          pipe'[g][j].op \in Answers /\ pipe'[g][j].call = c => j = i
    BY <1>1, <1>3, <1>5
  <2>3. call'[c] \in Waiting /\ call'[c] # NONE
    BY NoneAssumption DEF Waiting, Answers
  <2> QED BY <1>5, <2>1, <2>2, <2>3, NoneAssumption
<1>6. CASE g = h
  <2>1. i \in 1..Len(pipe[h]) \/ i = Len(pipe[h]) + 1
    BY <1>1, <1>6
  <2>2. i \in 1..Len(pipe[h]) => i \in 1..Len(pipe[g]) /\ pipe'[g][i] = pipe[g][i]
    BY <1>1, <1>6
  <2> QED BY <1>4, <1>5, <1>6, <2>1, <2>2
<1>7. CASE g # h
  <2>1. i \in 1..Len(pipe[g]) /\ pipe'[g][i] = pipe[g][i]
    BY <1>1, <1>7 DEF OthersKept
  <2> QED BY <1>4, <2>1
<1> QED BY <1>6, <1>7

-----------------------------------------------------------------------------
(* Types, and calls that are awaited. *)

TypeInv == TypeOK /\ CallsAwaited

(* The commands issued in one go are saves or a del nobody waits for.       *)
LEMMA AwaitedIssue ==
  ASSUME PipesOK, CallsAwaited, NEW h \in Procs, NEW cmds \in Seq(Command), Issue(h, cmds),
         \A i \in 1..Len(cmds) : Free(cmds[i]), CallsKept(h, 0)
  PROVE  PipesOK' /\ CallsAwaited'
<1>1. /\ PipesOK' /\ OthersKept(h)
      /\ Len(pipe'[h]) = Len(pipe[h]) + Len(cmds)
      /\ \A i \in 1..Len(pipe[h]) : pipe'[h][i] = pipe[h][i]
      /\ \A i \in Len(pipe[h]) + 1..Len(pipe'[h]) : pipe'[h][i] = cmds[i - Len(pipe[h])]
  BY IssueAppends
<1>2. Len(pipe[h]) \in Nat /\ Len(cmds) \in Nat
  BY LenProperties DEF PipesOK
<1>3. ASSUME NEW i \in 1..Len(pipe'[h])
      PROVE  IF i + 0 <= Len(pipe[h]) THEN pipe'[h][i] = pipe[h][i + 0] ELSE Free(pipe'[h][i])
  <2>1. i + 0 = i /\ i \in Nat
    BY <1>1, <1>2
  <2>2. CASE i <= Len(pipe[h])
    BY <1>1, <1>2, <2>1, <2>2
  <2>3. CASE i > Len(pipe[h])
    <3>1. i - Len(pipe[h]) \in 1..Len(cmds) /\ i \in Len(pipe[h]) + 1..Len(pipe'[h])
      BY <1>1, <1>2, <2>3
    <3>2. Free(pipe'[h][i])
      BY <1>1, <3>1
    <3>3. ~(i + 0 <= Len(pipe[h]))
      BY <1>2, <2>1, <2>3
    <3> QED BY <3>2, <3>3
  <2> QED BY <1>2, <2>1, <2>2, <2>3
<1>4. PipeMoves(h, 0)
  BY <1>1, <1>3 DEF PipeMoves
<1> QED BY <1>1, <1>4, AwaitedStep

LEMMA AwaitedIssueOne ==
  ASSUME PipesOK, CallsAwaited, NEW h \in Procs, NEW cmd \in Command, Issue(h, <<cmd>>),
         Free(cmd), CallsKept(h, 0)
  PROVE  PipesOK' /\ CallsAwaited'
<1>1. <<cmd>> \in Seq(Command) /\ Len(<<cmd>>) = 1 /\ <<cmd>>[1] = cmd
  OBVIOUS
<1>2. \A i \in 1..Len(<<cmd>>) : Free(<<cmd>>[i])
  <2> TAKE i \in 1..Len(<<cmd>>)
  <2>1. i = 1
    BY <1>1
  <2> QED BY <1>1, <2>1
<1> QED BY <1>1, <1>2, AwaitedIssue

(* No pipe moves. *)
LEMMA AwaitedLocal ==
  ASSUME PipesOK, CallsAwaited, UNCHANGED pipe, CallsKept(Home, 0)
  PROVE  PipesOK' /\ CallsAwaited'
<1>1. \A g \in Procs : Len(pipe[g]) \in Nat
  BY LenProperties DEF PipesOK
<1>2. PipesOK' /\ PipeMoves(Home, 0)
  BY <1>1, HomeAssumption DEF PipesOK, PipeMoves, OthersKept
<1> QED BY <1>2, AwaitedStep, HomeAssumption

Pops(h) == pipe[h] # << >> /\ pipe' = [pipe EXCEPT ![h] = Tail(pipe[h])]
Continues(h, cmd) ==
  pipe[h] # << >> /\ pipe' = [pipe EXCEPT ![h] = Append(Tail(pipe[h]), cmd)]

LEMMA AwaitedPop ==
  ASSUME PipesOK, CallsAwaited, NEW h \in Procs, CallsKept(h, 1),
         Pops(h) \/ Continues(h, [op |-> "expire"])
  PROVE  PipesOK' /\ CallsAwaited'
<1>1. CASE Pops(h)
  <2>1. /\ PipesOK' /\ OthersKept(h) /\ Len(pipe[h]) \in Nat \ {0}
        /\ Len(pipe'[h]) = Len(pipe[h]) - 1
        /\ \A i \in 1..Len(pipe'[h]) : pipe'[h][i] = pipe[h][i + 1]
    BY <1>1, PipePopped DEF Pops
  <2>2. PipeMoves(h, 1)
    BY <2>1 DEF PipeMoves
  <2> QED BY <2>1, <2>2, AwaitedStep
<1>2. CASE Continues(h, [op |-> "expire"])
  <2> DEFINE e == [op |-> "expire"]
  <2>1. e \in Command /\ Free(e)
    BY CommandsMade DEF Free, Answers
  <2> HIDE DEF e
  <2>2. Continues(h, e)
    BY <1>2 DEF e
  <2>3. /\ PipesOK' /\ OthersKept(h) /\ Len(pipe[h]) \in Nat \ {0}
        /\ Len(pipe'[h]) = Len(pipe[h])
        /\ \A i \in 1..Len(pipe[h]) - 1 : pipe'[h][i] = pipe[h][i + 1]
        /\ pipe'[h][Len(pipe[h])] = e
    BY <2>1, <2>2, PipeContinued DEF Continues
  <2>4. ASSUME NEW i \in 1..Len(pipe'[h])
        PROVE  IF i + 1 <= Len(pipe[h]) THEN pipe'[h][i] = pipe[h][i + 1] ELSE Free(pipe'[h][i])
    BY <2>1, <2>3
  <2>5. PipeMoves(h, 1)
    BY <2>3, <2>4 DEF PipeMoves
  <2> QED BY <2>3, <2>5, AwaitedStep
<1> QED BY <1>1, <1>2

(* The call that the first command of a pipe answers waits for it.          *)
LEMMA HeadAwaited ==
  ASSUME PipesOK, CallsAwaited, NEW h \in Procs, pipe[h] # << >>,
         call \in [Calls -> Waiting \cup {NONE}],
         Head(pipe[h]).op \in Answers, Head(pipe[h]).call # NONE
  PROVE  /\ Head(pipe[h]).call \in Calls /\ call[Head(pipe[h]).call] \in Waiting
         /\ call[Head(pipe[h]).call] # NONE
         /\ call[Head(pipe[h]).call].at = h
         /\ call[Head(pipe[h]).call].waits = Head(pipe[h]).op
<1>1. pipe[h] \in Seq(Command)
  BY DEF PipesOK
<1>2. Head(pipe[h]) = pipe[h][1] /\ Head(pipe[h]) \in Command /\ 1 \in 1..Len(pipe[h])
  BY <1>1, HeadTailProperties, EmptySeq, LenProperties
<1>3. Head(pipe[h]).call \in Calls
  BY <1>2, CommandFields
<1> QED BY <1>2, <1>3 DEF CallsAwaited

LEMMA Claimed ==
  ASSUME TypeInv, NEW h \in Procs, NEW c \in Calls, NEW session \in Session,
         call[c] = NONE \/ call[c].waits = "reply",
         Claim(h, c, session), UNCHANGED <<redis, volatile, closed, left, elapsed, saved, cut>>
  PROVE  TypeInv'
<1>t. /\ PipesOK /\ CallsAwaited /\ mem \in [Procs -> Session \cup {NONE}]
      /\ call \in [Calls -> Waiting \cup {NONE}] /\ expired \in 0..2
  BY DEF TypeInv, TypeOK, PipesOK
<1>k. call' = [call EXCEPT ![c] = NONE] => CallsKept(h, 0)
  BY <1>t DEF CallsKept
<1>1. CASE /\ call' = [call EXCEPT ![c] = NONE] /\ mem' = [mem EXCEPT ![h] = session]
           /\ UNCHANGED <<pipe, granted, expired>>
  <2>1. CallsKept(Home, 0)
    BY <1>1, <1>t DEF CallsKept
  <2>2. PipesOK' /\ CallsAwaited'
    BY <1>1, <1>t, <2>1, AwaitedLocal
  <2> QED BY <1>1, <1>t, <2>2 DEF TypeInv, TypeOK, PipesOK
<1>2. CASE /\ call' = [call EXCEPT ![c] = NONE] /\ mem' = [mem EXCEPT ![h] = NONE]
           /\ Issue(h, <<Del(NONE)>>) /\ Expired /\ UNCHANGED granted
  <2>1. Del(NONE) \in Command /\ Free(Del(NONE))
    BY CommandsMade DEF Free
  <2>2. PipesOK' /\ CallsAwaited'
    BY <1>2, <1>k, <1>t, <2>1, AwaitedIssueOne
  <2> QED BY <1>2, <1>t, <2>2 DEF TypeInv, TypeOK, PipesOK, Expired
<1>3. CASE /\ mem' = [mem EXCEPT ![h] = [session EXCEPT !.state = "resumed"]]
           /\ Issue(h, <<Del(c)>>)
           /\ call' = [call EXCEPT ![c] = [at |-> h, waits |-> "del", reply |-> NONE]]
           /\ UNCHANGED <<granted, expired>>
  <2>1. /\ Del(c) \in Command /\ Del(c).op = "del" /\ Del(c).call = c
        /\ call'[c] = [at |-> h, waits |-> "del", reply |-> NONE]
        /\ \A d \in Calls \ {c} : call'[d] = call[d]
    BY <1>3, <1>t, CommandsMade
  <2>2. PipesOK' /\ CallsAwaited'
    BY <1>3, <1>t, <2>1, AwaitedAsk, IssueOne DEF Answers
  <2>3. [session EXCEPT !.state = "resumed"] \in Session
    BY DEF Session, State
  <2>4. [at |-> h, waits |-> "del", reply |-> NONE] \in Waiting
    BY DEF Waiting
  <2> QED BY <1>3, <1>t, <2>2, <2>3, <2>4 DEF TypeInv, TypeOK, PipesOK
<1> QED BY <1>1, <1>2, <1>3 DEF Claim

LEMMA TypeStep ==
  ASSUME TypeInv, [Next]_vars
  PROVE  TypeInv'
<1>t. /\ PipesOK /\ CallsAwaited /\ mem \in [Procs -> Session \cup {NONE}]
      /\ redis \in Session \cup {NONE}
      /\ call \in [Calls -> Waiting \cup {NONE}] /\ expired \in 0..2
      /\ {volatile, left, elapsed, saved, cut} \subseteq BOOLEAN /\ granted \subseteq Calls
      /\ closed \subseteq Procs /\ Home \in Procs
  BY HomeAssumption DEF TypeInv, TypeOK, PipesOK
<1>k. UNCHANGED call => \A h \in Procs, shift \in {0, 1} : CallsKept(h, shift)
  BY DEF CallsKept
<1>s. ASSUME NEW session \in Session, NEW s \in State
      PROVE  [session EXCEPT !.state = s] \in Session
  BY DEF Session
<1>f. \A session \in Session : Set(session) \in Command /\ Free(Set(session))
  BY CommandsMade DEF Free, Answers
<1>1. CASE Suspend
  <2>1. mem' = [mem EXCEPT ![Home] = [mem[Home] EXCEPT !.state = "suspended"]]
    BY <1>1 DEF Suspend
  <2>m. mem[Home] \in Session /\ "suspended" \in State
    BY <1>1, <1>t DEF Suspend, State
  <2>2. mem'[Home] \in Session /\ mem' \in [Procs -> Session \cup {NONE}]
    BY <1>s, <1>t, <2>1, <2>m
  <2>3. PICK times \in 1..2 : Issue(Home, [i \in 1..times |-> Set(mem'[Home])])
    BY <1>1 DEF Suspend
  <2> DEFINE cmds == [i \in 1..times |-> Set(mem'[Home])]
  <2>4. cmds \in Seq(Command) /\ \A i \in 1..Len(cmds) : Free(cmds[i])
    BY <1>f, <2>2
  <2> HIDE DEF cmds
  <2>5. Issue(Home, cmds) /\ CallsKept(Home, 0)
    BY <1>1, <1>k, <1>t, <2>3 DEF Suspend, cmds
  <2>6. PipesOK' /\ CallsAwaited'
    BY <1>t, <2>4, <2>5, AwaitedIssue
  <2> QED BY <1>1, <1>t, <2>2, <2>6 DEF Suspend, TypeInv, TypeOK, PipesOK
<1>2. CASE Evict \/ Elapse
  <2>1. UNCHANGED <<mem, pipe, call, closed, granted, expired>>
    BY <1>2 DEF Evict, Elapse
  <2>2. PipesOK' /\ CallsAwaited'
    BY <1>k, <1>t, <2>1, AwaitedLocal
  <2>3. redis' \in Session \cup {NONE} /\ {volatile, left, elapsed, saved, cut}' \subseteq BOOLEAN
    BY <1>2, <1>t DEF Evict, Elapse
  <2> QED BY <1>t, <2>1, <2>2, <2>3 DEF TypeInv, TypeOK, PipesOK
<1>3. ASSUME NEW h \in Procs, Enqueue(h) \/ Flush(h)
      PROVE  TypeInv'
  <2>1. /\ UNCHANGED <<redis, volatile, pipe, call, closed, left, elapsed>>
        /\ UNCHANGED <<granted, expired, saved, cut>>
    BY <1>3 DEF Enqueue, Flush
  <2>2. PipesOK' /\ CallsAwaited'
    BY <1>k, <1>t, <2>1, AwaitedLocal
  <2>3. mem[h] \in Session
    BY <1>3, <1>t DEF Enqueue, Flush, Is
  <2>4. PICK n \in 0..MaxQueue : mem' = [mem EXCEPT ![h] = [mem[h] EXCEPT !.queue = n]]
    <3>1. CASE Enqueue(h)
      <4>1. mem[h].queue + 1 \in 0..MaxQueue
        BY <2>3, <3>1, BoundAssumption DEF Enqueue, Session
      <4> QED BY <3>1, <4>1 DEF Enqueue
    <3>2. CASE Flush(h)
      <4>1. mem' = [mem EXCEPT ![h] = [mem[h] EXCEPT !.queue = 0]] /\ 0 \in 0..MaxQueue
        BY <3>2, BoundAssumption DEF Flush
      <4> QED BY <4>1
    <3> QED BY <1>3, <3>1, <3>2
  <2>5. [mem[h] EXCEPT !.queue = n] \in Session
    BY <2>3 DEF Session
  <2> QED BY <1>t, <2>1, <2>2, <2>4, <2>5 DEF TypeInv, TypeOK, PipesOK
<1>4. ASSUME NEW h \in Procs, Migrate(h)
      PROVE  TypeInv'
  <2>1. mem' = [mem EXCEPT ![h] = [mem[h] EXCEPT !.state = "migrated"]]
    BY <1>4 DEF Migrate
  <2>m. mem[h] \in Session /\ "migrated" \in State
    BY <1>4, <1>t DEF Migrate, State
  <2>2. mem'[h] \in Session /\ mem' \in [Procs -> Session \cup {NONE}]
    BY <1>s, <1>t, <2>1, <2>m
  <2>3. Issue(h, <<Set(mem'[h])>>) /\ CallsKept(h, 0)
    BY <1>4, <1>k DEF Migrate
  <2>4. PipesOK' /\ CallsAwaited'
    BY <1>f, <1>t, <2>2, <2>3, AwaitedIssueOne
  <2> QED BY <1>4, <1>t, <2>2, <2>4 DEF Migrate, TypeInv, TypeOK, PipesOK
<1>5. ASSUME NEW h \in Procs, Sweep(h)
      PROVE  TypeInv'
  <2>1. Del(NONE) \in Command /\ Free(Del(NONE))
    BY CommandsMade DEF Free
  <2>2. Issue(h, <<Del(NONE)>>) /\ CallsKept(h, 0)
    BY <1>5, <1>k DEF Sweep
  <2>3. PipesOK' /\ CallsAwaited'
    BY <1>t, <2>1, <2>2, AwaitedIssueOne
  <2> QED BY <1>5, <1>t, <2>3 DEF Sweep, TypeInv, TypeOK, PipesOK, Expired
<1>6. ASSUME NEW h \in Procs, Close(h)
      PROVE  TypeInv'
  <2>1. ASSUME Is(h, "suspended"), Issue(h, <<Set(mem[h])>>)
        PROVE  PipesOK' /\ CallsAwaited'
    <3>1. mem[h] \in Session /\ CallsKept(h, 0)
      BY <1>6, <1>k, <1>t, <2>1 DEF Close, Is
    <3> QED BY <1>f, <1>t, <2>1, <3>1, AwaitedIssueOne
  <2>2. ASSUME UNCHANGED pipe
        PROVE  PipesOK' /\ CallsAwaited'
    BY <1>6, <1>k, <1>t, <2>2, AwaitedLocal DEF Close
  <2>3. PipesOK' /\ CallsAwaited'
    BY <1>6, <2>1, <2>2 DEF Close
  <2> QED BY <1>6, <1>t, <2>3 DEF Close, TypeInv, TypeOK, PipesOK
<1>7. ASSUME NEW h \in Procs, Execute(h)
      PROVE  TypeInv'
  <2> DEFINE cmd == Head(pipe[h])
             rest == Tail(pipe[h])
  <2>1. pipe[h] # << >> /\ UNCHANGED <<mem, closed, left, elapsed, granted, expired, cut>>
    BY <1>7 DEF Execute
  <2>2. cmd \in Command /\ cmd = pipe[h][1]
    BY <1>t, <2>1, HeadTailProperties, EmptySeq DEF PipesOK
  <2>3. CASE cmd.op = "set" /\ Save(h, cmd.session, rest)
    <3>1. Continues(h, [op |-> "expire"]) /\ CallsKept(h, 1)
      BY <1>k, <2>1, <2>3 DEF Save, Continues
    <3>2. PipesOK' /\ CallsAwaited'
      BY <1>t, <3>1, AwaitedPop
    <3>3. redis' \in Session /\ UNCHANGED call /\ volatile' = FALSE /\ saved' \in BOOLEAN
      BY <1>t, <2>2, <2>3, CommandFields DEF Save
    <3> QED BY <1>t, <2>1, <3>2, <3>3 DEF TypeInv, TypeOK, PipesOK
  <2>4. CASE cmd.op = "expire" /\ GiveTtl(h, rest)
    <3>1. Pops(h) /\ CallsKept(h, 1)
      BY <1>k, <2>1, <2>4 DEF GiveTtl, Pops
    <3>2. PipesOK' /\ CallsAwaited'
      BY <1>t, <3>1, AwaitedPop
    <3> QED BY <1>t, <2>1, <2>4, <3>2 DEF TypeInv, TypeOK, PipesOK, GiveTtl
  <2>5. CASE cmd.op = "get" /\ Fetch(h, cmd.call, rest)
    <3>1. 1 \in 1..Len(pipe[h])
      BY <1>t, <2>1, EmptySeq, LenProperties DEF PipesOK
    <3>2. cmd.call \in Calls /\ call[cmd.call] \in Waiting
      BY <1>t, <2>2, <2>5, <3>1, CommandFields DEF CallsAwaited, Answers
    <3>3. Pops(h) /\ CallsKept(h, 1)
      BY <1>t, <2>1, <2>2, <2>5 DEF Fetch, Pops, CallsKept, Answers
    <3>4. PipesOK' /\ CallsAwaited'
      BY <1>t, <3>3, AwaitedPop
    <3>5. call' \in [Calls -> Waiting \cup {NONE}]
      <4>1. call' = [call EXCEPT ![cmd.call] =
                       [call[cmd.call] EXCEPT !.waits = "reply", !.reply = redis]]
        BY <2>5 DEF Fetch
      <4>2. [call[cmd.call] EXCEPT !.waits = "reply", !.reply = redis] \in Waiting
        BY <1>t, <3>2 DEF Waiting
      <4> QED BY <1>t, <4>1, <4>2
    <3> QED BY <1>t, <2>1, <2>5, <3>4, <3>5 DEF TypeInv, TypeOK, PipesOK, Fetch
  <2>6. CASE cmd.op = "del" /\ Delete(h, cmd.call, rest)
    <3>1. Pops(h) /\ CallsKept(h, 1)
      BY <1>t, <2>1, <2>2, <2>6 DEF Delete, Pops, CallsKept, Answers
    <3>2. PipesOK' /\ CallsAwaited'
      BY <1>t, <3>1, AwaitedPop
    <3>3. call' \in [Calls -> Waiting \cup {NONE}]
      <4>1. CASE cmd.call = NONE
        BY <1>t, <2>6, <4>1 DEF Delete
      <4>2. CASE cmd.call # NONE
        <5>1. cmd.call \in Calls /\ call[cmd.call] \in Waiting
          BY <1>t, <2>1, <2>6, <4>2, HeadAwaited DEF Answers
        <5>2. call' = [call EXCEPT ![cmd.call] = [call[cmd.call] EXCEPT !.waits = "deleted"]]
          BY <2>6, <4>2 DEF Delete
        <5>3. [call[cmd.call] EXCEPT !.waits = "deleted"] \in Waiting
          BY <5>1 DEF Waiting
        <5> QED BY <1>t, <5>1, <5>2, <5>3
      <4> QED BY <4>1, <4>2
    <3> QED BY <1>t, <2>1, <2>6, <3>2, <3>3 DEF TypeInv, TypeOK, PipesOK, Delete
  <2> QED BY <1>7, <2>3, <2>4, <2>5, <2>6 DEF Execute
<1>8. ASSUME NEW h \in Procs, Reject(h) \/ ReplyLost(h)
      PROVE  TypeInv'
  <2>1. Pops(h) /\ (call' = call \/ call' = Dropped(Head(pipe[h])))
    BY <1>8 DEF Reject, ReplyLost, SaveWithoutTtl, Pops
  <2>2. Head(pipe[h]) = pipe[h][1] /\ Head(pipe[h]) \in Command
    BY <1>t, <2>1, EmptySeq, HeadTailProperties DEF PipesOK, Pops
  <2>3. CallsKept(h, 1) /\ call' \in [Calls -> Waiting \cup {NONE}]
    BY <1>t, <2>1, <2>2 DEF Dropped, CallsKept, Pops, Answers
  <2>4. PipesOK' /\ CallsAwaited'
    BY <1>t, <2>1, <2>3, AwaitedPop
  <2>5. /\ UNCHANGED <<mem, closed, left, elapsed, granted, expired>>
        /\ redis' \in Session \cup {NONE} /\ {volatile, saved, cut}' \subseteq BOOLEAN
    <3>1. CASE Reject(h)
      BY <1>t, <3>1 DEF Reject
    <3>2. CASE ReplyLost(h)
      <4>1. UNCHANGED <<mem, closed, left, elapsed, granted, expired>> /\ volatile' = FALSE
        BY <3>2 DEF ReplyLost, SaveWithoutTtl
      <4>2. CASE Head(pipe[h]).op = "set" /\ SaveWithoutTtl(h, Head(pipe[h]).session, Tail(pipe[h])) /\ UNCHANGED cut
        BY <1>t, <2>2, <4>1, <4>2, CommandFields DEF SaveWithoutTtl
      <4>3. CASE redis' = NONE /\ saved' = saved /\ cut' = (cut \/ Head(pipe[h]).call # NONE)
        BY <1>t, <4>1, <4>3
      <4> QED BY <3>2, <4>2, <4>3 DEF ReplyLost
    <3> QED BY <1>8, <3>1, <3>2
  <2> QED BY <1>t, <2>3, <2>4, <2>5 DEF TypeInv, TypeOK, PipesOK
<1>9. ASSUME NEW h \in Procs, Crash(h)
      PROVE  TypeInv'
  <2>1. pipe' = [pipe EXCEPT ![h] = << >>] /\ PipesOK'
    BY <1>9, <1>t DEF Crash, PipesOK
  <2>2. \A g \in Procs : g = h \/ pipe'[g] = pipe[g]
    BY <1>t, <2>1 DEF PipesOK
  <2>3. pipe'[h] = << >> /\ \A i \in 1..Len(pipe'[h]) : FALSE
    BY <1>t, <2>1 DEF PipesOK
  <2>4. \A c \in Calls : call[c] # NONE /\ call[c].at # h => call'[c] = call[c]
    BY <1>9 DEF Crash
  <2>5. CallsAwaited'
    <3> SUFFICES ASSUME NEW g \in Procs, NEW i \in 1..Len(pipe'[g]), pipe'[g][i].op \in Answers
                 PROVE  /\ pipe'[g][i].op = "get" => pipe'[g][i].call # NONE
                        /\ pipe'[g][i].call # NONE =>
                             /\ call'[pipe'[g][i].call] # NONE
                             /\ call'[pipe'[g][i].call].at = g
                             /\ call'[pipe'[g][i].call].waits = pipe'[g][i].op
                             /\ \A j \in 1..Len(pipe'[g]) :
                                  /\ pipe'[g][j].op \in Answers
                                  /\ pipe'[g][j].call = pipe'[g][i].call
                                  => j = i
      BY DEF CallsAwaited
    <3>1. g # h
      BY <2>3
    <3>2. pipe'[g] = pipe[g] /\ i \in 1..Len(pipe[g])
      BY <2>2, <3>1
    <3>3. pipe[g][i] \in Command
      BY <1>t, <3>2, ElementOfSeq DEF PipesOK
    <3>4. pipe[g][i].call \in Calls \cup {NONE}
      BY <3>2, <3>3, CommandFields
    <3> QED BY <1>t, <2>4, <3>1, <3>2, <3>4 DEF CallsAwaited
  <2> QED BY <1>9, <1>t, <2>1, <2>5 DEF Crash, TypeInv, TypeOK, PipesOK
<1>10. ASSUME NEW h \in Procs, NEW c \in Calls, Resume(c, h)
       PROVE  TypeInv'
  <2>1. CASE mem[h] # NONE /\ Claim(h, c, mem[h])
    BY <1>10, <1>t, <2>1, Claimed DEF Resume
  <2>2. CASE /\ call' = [call EXCEPT ![c] = [at |-> h, waits |-> "get", reply |-> NONE]]
             /\ Issue(h, <<Get(c)>>) /\ UNCHANGED <<mem, granted, expired>>
    <3>1. /\ Get(c) \in Command /\ Get(c).op = "get" /\ Get(c).call = c
          /\ call'[c] = [at |-> h, waits |-> "get", reply |-> NONE]
          /\ \A d \in Calls \ {c} : call'[d] = call[d]
      BY <1>t, <2>2, CommandsMade
    <3>2. PipesOK' /\ CallsAwaited'
      BY <1>10, <1>t, <2>2, <3>1, AwaitedAsk, IssueOne DEF Answers, Resume
    <3>3. [at |-> h, waits |-> "get", reply |-> NONE] \in Waiting
      BY DEF Waiting
    <3> QED BY <1>10, <1>t, <2>2, <3>2, <3>3 DEF TypeInv, TypeOK, PipesOK, Resume
  <2> QED BY <1>10, <2>1, <2>2 DEF Resume
<1>11. ASSUME NEW c \in Calls, Loaded(c)
       PROVE  TypeInv'
  <2>1. call[c] \in Waiting
    BY <1>11, <1>t DEF Loaded
  <2>2. CASE call[c].reply # NONE /\ Claim(call[c].at, c, call[c].reply)
    BY <1>11, <1>t, <2>1, <2>2, Claimed DEF Loaded, Waiting
  <2>3. CASE call' = [call EXCEPT ![c] = NONE] /\ UNCHANGED <<mem, pipe, granted, expired>>
    <3>1. CallsKept(Home, 0)
      BY <1>11, <1>t, <2>3 DEF Loaded, CallsKept
    <3>2. PipesOK' /\ CallsAwaited'
      BY <1>t, <2>3, <3>1, AwaitedLocal
    <3> QED BY <1>11, <1>t, <2>3, <3>2 DEF Loaded, TypeInv, TypeOK, PipesOK
  <2> QED BY <1>11, <2>2, <2>3 DEF Loaded
<1>12. ASSUME NEW c \in Calls, Return(c)
       PROVE  TypeInv'
  <2>1. UNCHANGED pipe /\ CallsKept(Home, 0)
    BY <1>12, <1>t DEF Return, Deleted, CallsKept
  <2>2. PipesOK' /\ CallsAwaited'
    BY <1>t, <2>1, AwaitedLocal
  <2> QED BY <1>12, <1>t, <2>2 DEF Return, TypeInv, TypeOK, PipesOK
<1>13. CASE UNCHANGED vars
  <2>1. PipesOK' /\ CallsAwaited'
    BY <1>13, <1>k, <1>t, AwaitedLocal DEF vars
  <2> QED BY <1>13, <1>t, <2>1 DEF vars, TypeInv, TypeOK, PipesOK
<1> QED
  BY <1>1, <1>2, <1>3, <1>4, <1>5, <1>6, <1>7, <1>8, <1>9, <1>10, <1>11, <1>12, <1>13
     DEF Next

-----------------------------------------------------------------------------
(* A saved session is durable. *)

LEMMA IssuedIn ==
  ASSUME PipesOK, NEW h \in Procs, NEW cmds \in Seq(Command), Issue(h, cmds)
  PROVE  \A cmd \in InPipes' : cmd \in InPipes \/ \E i \in 1..Len(cmds) : cmd = cmds[i]
<1>1. /\ PipesOK' /\ OthersKept(h)
      /\ Len(pipe'[h]) = Len(pipe[h]) + Len(cmds)
      /\ \A i \in 1..Len(pipe[h]) : pipe'[h][i] = pipe[h][i]
      /\ \A i \in Len(pipe[h]) + 1..Len(pipe'[h]) : pipe'[h][i] = cmds[i - Len(pipe[h])]
  BY IssueAppends
<1>2. Len(pipe[h]) \in Nat /\ Len(cmds) \in Nat
  BY LenProperties DEF PipesOK
<1> SUFFICES ASSUME NEW cmd \in Command, NEW g \in Procs, NEW i \in 1..Len(pipe'[g]),
                    pipe'[g][i] = cmd
             PROVE  cmd \in InPipes \/ \E j \in 1..Len(cmds) : cmd = cmds[j]
  BY DEF InPipes
<1>3. CASE g # h
  BY <1>1, <1>3 DEF OthersKept, InPipes
<1>4. CASE g = h
  <2>1. CASE i <= Len(pipe[h])
    BY <1>1, <1>2, <1>4, <2>1 DEF InPipes
  <2>2. CASE i > Len(pipe[h])
    <3>1. i - Len(pipe[h]) \in 1..Len(cmds) /\ i \in Len(pipe[h]) + 1..Len(pipe'[h])
      BY <1>1, <1>2, <1>4, <2>2
    <3> QED BY <1>1, <1>4, <3>1
  <2> QED BY <1>2, <2>1, <2>2
<1> QED BY <1>3, <1>4

LEMMA IssuedOneIn ==
  ASSUME PipesOK, NEW h \in Procs, NEW cmd \in Command, Issue(h, <<cmd>>)
  PROVE  InPipes' \subseteq InPipes \cup {cmd}
<1>1. <<cmd>> \in Seq(Command) /\ Len(<<cmd>>) = 1 /\ <<cmd>>[1] = cmd
  OBVIOUS
<1>2. \A i \in 1..Len(<<cmd>>) : <<cmd>>[i] = cmd
  <2> TAKE i \in 1..Len(<<cmd>>)
  <2>1. i = 1
    BY <1>1
  <2> QED BY <1>1, <2>1
<1> QED BY <1>1, <1>2, IssuedIn

LEMMA PoppedIn ==
  ASSUME PipesOK, NEW h \in Procs, Pops(h) \/ Continues(h, [op |-> "expire"])
  PROVE  /\ Head(pipe[h]) \in InPipes
         /\ InPipes' \subseteq InPipes \cup {[op |-> "expire"]}
<1> DEFINE e == [op |-> "expire"]
<1>1. e \in Command
  BY CommandsMade
<1> HIDE DEF e
<1>2. /\ OthersKept(h) /\ Len(pipe[h]) \in Nat \ {0} /\ Head(pipe[h]) = pipe[h][1]
      /\ pipe[h][1] \in Command
      /\ \A i \in 1..Len(pipe'[h]) :
           \/ pipe'[h][i] = e
           \/ i + 1 \in 1..Len(pipe[h]) /\ pipe'[h][i] = pipe[h][i + 1]
  <2>1. CASE Pops(h)
    <3>1. /\ OthersKept(h) /\ Len(pipe[h]) \in Nat \ {0} /\ Head(pipe[h]) = pipe[h][1]
          /\ pipe[h][1] \in Command /\ Len(pipe'[h]) = Len(pipe[h]) - 1
          /\ \A i \in 1..Len(pipe'[h]) : pipe'[h][i] = pipe[h][i + 1]
      BY <2>1, PipePopped DEF Pops
    <3>2. \A i \in 1..Len(pipe'[h]) : i + 1 \in 1..Len(pipe[h])
      BY <3>1
    <3> QED BY <3>1, <3>2
  <2>2. CASE Continues(h, e)
    <3>1. /\ OthersKept(h) /\ Len(pipe[h]) \in Nat \ {0} /\ Head(pipe[h]) = pipe[h][1]
          /\ pipe[h][1] \in Command /\ Len(pipe'[h]) = Len(pipe[h])
          /\ \A i \in 1..Len(pipe[h]) - 1 : pipe'[h][i] = pipe[h][i + 1]
          /\ pipe'[h][Len(pipe[h])] = e
      BY <1>1, <2>2, PipeContinued DEF Continues
    <3>2. \A i \in 1..Len(pipe'[h]) : i = Len(pipe[h]) \/ i \in 1..Len(pipe[h]) - 1
      BY <3>1
    <3> QED BY <3>1, <3>2
  <2> QED BY <2>1, <2>2 DEF e
<1>3. Head(pipe[h]) \in InPipes
  BY <1>2 DEF InPipes
<1>4. ASSUME NEW cmd \in Command, NEW g \in Procs, NEW i \in 1..Len(pipe'[g]),
             pipe'[g][i] = cmd
      PROVE  cmd \in InPipes \cup {e}
  BY <1>2, <1>4 DEF OthersKept, InPipes
<1>5. InPipes' \subseteq InPipes \cup {e}
  BY <1>4 DEF InPipes
<1> QED BY <1>3, <1>5 DEF e

LEMMA SameIn == ASSUME UNCHANGED pipe PROVE InPipes' = InPipes
BY DEF InPipes

LEMMA DurableClaim ==
  ASSUME DurableInv, NEW h \in Procs, NEW c \in Calls, NEW session \in Session,
         Claim(h, c, session), UNCHANGED <<redis, volatile, closed, left, elapsed, saved, cut>>,
         session = mem[h] \/ (call[c] # NONE /\ session = call[c].reply),
         granted' = granted, ~Deleted(c)
  PROVE  SuspendedAfterLeft' /\ DelsAreLate' /\ Durable'
<1> USE NoneAssumption
<1>t. /\ PipesOK /\ mem \in [Procs -> Session \cup {NONE}]
      /\ call \in [Calls -> Waiting \cup {NONE}]
  BY DEF DurableInv, TypeOK, PipesOK
<1>d. Durable'
  <2>1. \A d \in Calls \ {c} : call'[d] = call[d]
    BY <1>t DEF Claim
  <2>2. \A d \in Calls : Deleted(d) => Deleted(d)'
    BY <2>1 DEF Deleted
  <2> QED BY <2>2 DEF DurableInv, Durable
<1>l. Suspended(session) => left
  BY DEF DurableInv, SuspendedAfterLeft
<1>1. CASE /\ session.state # "suspended"
           /\ call' = [call EXCEPT ![c] = NONE] /\ mem' = [mem EXCEPT ![h] = session]
           /\ UNCHANGED <<pipe, granted, expired>>
  <2>1. ~Suspended(session)
    BY <1>1 DEF Suspended
  <2>2. InPipes' = InPipes
    BY <1>1, SameIn
  <2>3. (\A g \in Procs : mem'[g] = mem[g] \/ mem'[g] = session)
        /\ \A d \in Calls : call'[d] = call[d] \/ call'[d] = NONE
    BY <1>1, <1>t
  <2>4. SuspendedAfterLeft'
    <3>1. CASE left
      BY <3>1 DEF SuspendedAfterLeft
    <3>2. CASE ~left
      <4>1. /\ ~saved /\ ~Suspended(redis)
            /\ \A g \in Procs : ~Suspended(mem[g])
            /\ \A d \in Calls : call[d] # NONE => ~Suspended(call[d].reply)
            /\ \A cmd \in InPipes : cmd.op = "set" => ~Suspended(cmd.session)
        BY <3>2 DEF DurableInv, SuspendedAfterLeft
      <4> QED BY <2>1, <2>2, <2>3, <4>1 DEF SuspendedAfterLeft, Suspended
    <3> QED BY <3>1, <3>2
  <2> QED BY <1>d, <2>2, <2>4 DEF DurableInv, DelsAreLate
<1>2. CASE Overdue(session)
  <2>1. left /\ elapsed
    BY <1>2, <1>l DEF Overdue, Suspended
  <2> QED BY <1>d, <2>1 DEF SuspendedAfterLeft, DelsAreLate
<1>3. CASE session.state = "suspended" /\ Issue(h, <<Del(c)>>)
  <2>1. left
    BY <1>3, <1>l DEF Suspended
  <2>2. Del(c) # Del(NONE) /\ Del(c) \in Command
    BY CommandsMade
  <2>3. InPipes' \subseteq InPipes \cup {Del(c)}
    BY <1>3, <1>t, <2>2, IssuedOneIn
  <2> QED BY <1>d, <2>1, <2>2, <2>3 DEF SuspendedAfterLeft, DelsAreLate, DurableInv
<1> QED BY <1>1, <1>2, <1>3 DEF Claim

LEMMA DurableStep ==
  ASSUME DurableInv, [Next]_vars
  PROVE  DurableInv'
<1> USE NoneAssumption
<1>0. TypeInv'
  BY TypeStep DEF TypeInv, DurableInv
<1>t. /\ PipesOK /\ mem \in [Procs -> Session \cup {NONE}]
      /\ redis \in Session \cup {NONE}
      /\ call \in [Calls -> Waiting \cup {NONE}] /\ Home \in Procs
      /\ {volatile, left, elapsed, saved, cut} \subseteq BOOLEAN
  BY HomeAssumption DEF DurableInv, TypeOK, PipesOK
<1>c. CallsAwaited
  BY DEF DurableInv
<1>d. Durable /\ (Del(NONE) \in InPipes => left /\ elapsed)
  BY DEF DurableInv, DelsAreLate
<1>e. \/ left
      \/ /\ ~left /\ ~saved /\ ~Suspended(redis)
         /\ \A h \in Procs : ~Suspended(mem[h])
         /\ \A c \in Calls : call[c] # NONE => ~Suspended(call[c].reply)
         /\ \A cmd \in InPipes : cmd.op = "set" => ~Suspended(cmd.session)
  BY <1>t DEF DurableInv, SuspendedAfterLeft
<1> SUFFICES SuspendedAfterLeft' /\ DelsAreLate' /\ Durable'
  BY <1>0 DEF DurableInv, TypeInv
<1>s. \A session \in Session : Set(session) # Del(NONE) /\ Set(session) \in Command
                                 /\ Set(session).session = session
  BY CommandsMade
<1>x. [op |-> "expire"] # Del(NONE) /\ [op |-> "expire"].op # "set"
  BY CommandsMade
(* The copy stays, and so does a call that is about to return.              *)
<1>y. ASSUME redis # NONE => redis' # NONE, saved' = saved, elapsed' = elapsed,
             cut => cut', granted \subseteq granted',
             cut' \/ \A c \in Calls : Deleted(c) => Deleted(c)' \/ c \in granted'
      PROVE  Durable'
  BY <1>d, <1>t, <1>y DEF Durable
(* Nothing suspended appears: for steps that leave left as it is.           *)
<1>q. ASSUME left' = left, saved' = saved, redis' = redis \/ ~Suspended(redis'),
             \A h \in Procs : mem'[h] = mem[h] \/ (Suspended(mem'[h]) => Suspended(mem[h])),
             \A c \in Calls : call'[c] # NONE =>
                (call[c] # NONE /\ (Suspended(call'[c].reply) =>
                                      Suspended(call[c].reply) \/ Suspended(redis))),
             \A cmd \in InPipes' : \/ cmd \in InPipes \/ cmd.op # "set"
                                   \/ ~Suspended(cmd.session)
                                   \/ \E h \in Procs : cmd.session = mem[h]
      PROVE  SuspendedAfterLeft'
  BY <1>e, <1>q DEF SuspendedAfterLeft
<1>1. CASE Suspend
  <2>1. ~left /\ ~saved /\ left' /\ ~saved' /\ mem[Home] \in Session
    BY <1>1, <1>e, <1>t DEF Suspend
  <2>2. mem'[Home] \in Session
    BY <1>0, <1>1, <1>t, <2>1 DEF Suspend, Session, State
  <2>3. PICK times \in 1..2 : Issue(Home, [i \in 1..times |-> Set(mem'[Home])])
    BY <1>1 DEF Suspend
  <2> DEFINE cmds == [i \in 1..times |-> Set(mem'[Home])]
  <2>4. cmds \in Seq(Command) /\ \A i \in 1..Len(cmds) : cmds[i] = Set(mem'[Home])
    BY <1>s, <2>2
  <2> HIDE DEF cmds
  <2>5. Issue(Home, cmds)
    BY <2>3 DEF cmds
  <2>6. Del(NONE) \notin InPipes'
    BY <1>d, <1>s, <1>t, <2>1, <2>2, <2>4, <2>5, IssuedIn
  <2> QED BY <2>1, <2>6 DEF SuspendedAfterLeft, DelsAreLate, Durable
<1>2. CASE Evict \/ Elapse
  <2>1. UNCHANGED <<mem, pipe, call, left, saved, granted>> /\ InPipes' = InPipes
    BY <1>2, SameIn DEF Evict, Elapse
  <2>2. (redis' = redis \/ redis' = NONE) /\ elapsed'
    BY <1>2 DEF Evict, Elapse
  <2>3. SuspendedAfterLeft'
    BY <1>q, <2>1, <2>2 DEF Suspended
  <2> QED BY <1>d, <2>1, <2>2, <2>3 DEF DelsAreLate, Durable
<1>3. ASSUME NEW h \in Procs, Enqueue(h) \/ Flush(h)
      PROVE  SuspendedAfterLeft' /\ DelsAreLate' /\ Durable'
  <2>1. UNCHANGED <<redis, pipe, call, left, elapsed, granted, saved, cut>> /\ InPipes' = InPipes
    BY <1>3, SameIn DEF Enqueue, Flush
  <2>2. mem[h] \in Session
    BY <1>3, <1>t DEF Enqueue, Flush, Is
  <2>3. mem'[h].state = mem[h].state /\ \A g \in Procs \ {h} : mem'[g] = mem[g]
    BY <1>3, <1>t, <2>2 DEF Enqueue, Flush, Session
  <2>4. SuspendedAfterLeft'
    BY <1>q, <2>1, <2>2, <2>3 DEF Suspended
  <2> QED BY <1>d, <2>1, <2>4 DEF DelsAreLate, Durable, Deleted
<1>4. ASSUME NEW h \in Procs, Migrate(h)
      PROVE  SuspendedAfterLeft' /\ DelsAreLate' /\ Durable'
  <2>1. mem[h] \in Session
    BY <1>4, <1>t DEF Migrate
  <2>2. /\ mem'[h] \in Session /\ mem'[h].state = "migrated"
        /\ \A g \in Procs \ {h} : mem'[g] = mem[g]
    BY <1>4, <1>t, <2>1 DEF Migrate, Session, State
  <2>3. InPipes' \subseteq InPipes \cup {Set(mem'[h])}
    BY <1>4, <1>s, <1>t, <2>2, IssuedOneIn DEF Migrate
  <2>4. UNCHANGED <<redis, call, left, elapsed, granted, saved, cut>>
    BY <1>4 DEF Migrate
  <2>5. ~Suspended(mem'[h])
    BY <2>2 DEF Suspended
  <2>6. SuspendedAfterLeft'
    BY <1>q, <1>s, <2>2, <2>3, <2>4, <2>5
  <2> QED BY <1>d, <1>s, <2>2, <2>3, <2>4, <2>6 DEF DelsAreLate, Durable, Deleted
<1>5. ASSUME NEW h \in Procs, Sweep(h)
      PROVE  SuspendedAfterLeft' /\ DelsAreLate' /\ Durable'
  <2>1. left' /\ elapsed'
    BY <1>5, <1>e DEF Sweep, Overdue, Suspended
  <2> QED BY <2>1 DEF SuspendedAfterLeft, DelsAreLate, Durable
<1>6. ASSUME NEW h \in Procs, Close(h)
      PROVE  SuspendedAfterLeft' /\ DelsAreLate' /\ Durable'
  <2>1. UNCHANGED <<mem, redis, call, left, elapsed, granted, saved, cut>>
    BY <1>6 DEF Close
  <2>2. Durable'
    BY <1>y, <2>1 DEF Deleted
  <2>3. CASE Is(h, "suspended") /\ Issue(h, <<Set(mem[h])>>)
    <3>1. mem[h] \in Session
      BY <1>t, <2>3 DEF Is
    <3>2. InPipes' \subseteq InPipes \cup {Set(mem[h])}
      BY <1>s, <1>t, <2>3, <3>1, IssuedOneIn
    <3>3. left'
      BY <1>e, <2>1, <2>3 DEF Is, Suspended
    <3> QED BY <1>d, <1>s, <2>1, <2>2, <3>1, <3>2, <3>3 DEF SuspendedAfterLeft, DelsAreLate
  <2>4. CASE UNCHANGED pipe
    <3>1. InPipes' = InPipes /\ SuspendedAfterLeft'
      BY <1>e, <2>1, <2>4, SameIn DEF SuspendedAfterLeft, Suspended
    <3> QED BY <1>d, <2>1, <2>2, <3>1 DEF DelsAreLate
  <2> QED BY <1>6, <2>3, <2>4 DEF Close
<1>7. ASSUME NEW h \in Procs, Execute(h)
      PROVE  SuspendedAfterLeft' /\ DelsAreLate' /\ Durable'
  <2> DEFINE cmd == Head(pipe[h])
             rest == Tail(pipe[h])
  <2>1. /\ pipe[h] # << >> /\ UNCHANGED <<mem, left, elapsed, granted, expired, cut>>
        /\ \/ cmd.op = "set" /\ Save(h, cmd.session, rest)
           \/ cmd.op = "expire" /\ GiveTtl(h, rest)
           \/ cmd.op = "get" /\ Fetch(h, cmd.call, rest)
           \/ cmd.op = "del" /\ Delete(h, cmd.call, rest)
    BY <1>7 DEF Execute
  <2>2. Pops(h) \/ Continues(h, [op |-> "expire"])
    BY <2>1 DEF Save, GiveTtl, Fetch, Delete, Pops, Continues
  <2>3. cmd \in InPipes /\ InPipes' \subseteq InPipes \cup {[op |-> "expire"]}
    BY <1>t, <2>2, PoppedIn
  <2>4. cmd \in Command
    BY <2>3 DEF InPipes
  <2>5. DelsAreLate'
    BY <1>d, <1>x, <2>1, <2>3 DEF DelsAreLate
  <2> HIDE DEF cmd, rest
  <2>6. CASE cmd.op = "set" /\ Save(h, cmd.session, rest)
    <3>1. /\ cmd.session \in Session /\ redis' = cmd.session /\ UNCHANGED call
          /\ saved' = (saved \/ cmd.session.state = "suspended")
      BY <2>4, <2>6, CommandFields DEF Save
    <3>2. redis' # NONE
      BY <3>1
    <3>3. SuspendedAfterLeft'
      <4>1. CASE left
        BY <2>1, <4>1 DEF SuspendedAfterLeft
      <4>2. CASE ~left
        <5>1. ~Suspended(cmd.session) /\ ~saved
          BY <1>e, <2>3, <2>6, <4>2
        <5>2. saved' = saved
          BY <1>t, <3>1, <3>2, <5>1 DEF Suspended
        <5> QED BY <1>q, <1>x, <2>1, <2>3, <3>1, <5>1, <5>2
      <4> QED BY <4>1, <4>2
    <3> QED BY <2>5, <3>2, <3>3 DEF Durable
  <2>7. CASE cmd.op = "expire" /\ GiveTtl(h, rest)
    <3>1. UNCHANGED <<redis, saved, call>>
      BY <2>7 DEF GiveTtl
    <3>2. SuspendedAfterLeft'
      BY <1>q, <1>x, <2>1, <2>3, <3>1
    <3> QED BY <1>y, <2>1, <2>5, <3>1, <3>2 DEF Deleted
  <2>8. CASE cmd.op = "get" /\ Fetch(h, cmd.call, rest)
    <3>1. /\ UNCHANGED <<redis, saved>>
          /\ call' = [call EXCEPT ![cmd.call] = [call[cmd.call] EXCEPT !.waits = "reply", !.reply = redis]]
      BY <2>8 DEF Fetch
    <3>2. ASSUME NEW c \in Calls, call'[c] # NONE
          PROVE  /\ call[c] # NONE
                 /\ Suspended(call'[c].reply) => Suspended(call[c].reply) \/ Suspended(redis)
      <4>1. CASE c # cmd.call
        BY <1>t, <3>1, <3>2, <4>1
      <4>2. CASE c = cmd.call
        <5>1. PICK i \in 1..Len(pipe[h]) : pipe[h][i] = cmd
          BY <1>t, <2>1, EmptySeq, LenProperties DEF PipesOK, cmd
        <5>2. call[c] # NONE
          BY <2>8, <4>2, <5>1 DEF DurableInv, CallsAwaited, Answers
        <5>3. call'[c].reply = redis
          BY <1>t, <3>1, <4>2, <5>2 DEF Waiting
        <5> QED BY <5>2, <5>3
      <4> QED BY <4>1, <4>2
    <3>3. SuspendedAfterLeft'
      BY <1>q, <1>x, <2>1, <2>3, <3>1, <3>2
    <3>4. \A c \in Calls : Deleted(c) => c # cmd.call
      <4>1. cmd.call # NONE => cmd.call \in Calls /\ call[cmd.call].waits = "get"
        BY <1>c, <1>t, <2>1, <2>8, HeadAwaited DEF Answers, cmd
      <4> QED BY <4>1 DEF Deleted
    <3>5. \A c \in Calls : Deleted(c) => Deleted(c)'
      BY <1>t, <3>1, <3>4 DEF Deleted
    <3> QED BY <1>y, <2>1, <2>5, <3>1, <3>3, <3>5
  <2>9. CASE cmd.op = "del" /\ Delete(h, cmd.call, rest)
    <3>1. /\ redis' = NONE /\ saved' = saved
          /\ call' = IF cmd.call = NONE THEN call ELSE [call EXCEPT ![cmd.call].waits = "deleted"]
      BY <2>9 DEF Delete
    <3>a. cmd.call # NONE =>
            cmd.call \in Calls /\ call[cmd.call] \in Waiting /\ call[cmd.call] # NONE
      BY <1>c, <1>t, <2>1, <2>9, HeadAwaited DEF Answers, cmd
    <3>2. \A c \in Calls : call'[c] # NONE => call[c] # NONE /\ call'[c].reply = call[c].reply
      BY <1>t, <3>1, <3>a DEF Waiting
    <3>3. SuspendedAfterLeft'
      BY <1>q, <1>x, <2>1, <2>3, <3>1, <3>2 DEF Suspended
    <3>4. Durable'
      <4>1. CASE cmd.call = NONE
        <5>1. cmd = Del(NONE)
          BY <2>4, <2>9, <4>1 DEF Command, Del
        <5> QED BY <1>d, <2>1, <2>3, <5>1 DEF Durable
      <4>2. CASE cmd.call # NONE
        <5>1. call'[cmd.call] \in Waiting /\ call'[cmd.call].waits = "deleted"
          BY <1>t, <3>1, <3>a, <4>2 DEF Waiting
        <5> QED BY <3>a, <4>2, <5>1 DEF Durable, Deleted
      <4> QED BY <4>1, <4>2
    <3> QED BY <2>5, <3>3, <3>4
  <2> QED BY <2>1, <2>6, <2>7, <2>8, <2>9
(* The first command is dropped, and the call it answers is over.           *)
<1>z. ASSUME NEW h \in Procs, pipe[h] # << >>
      PROVE  /\ \A c \in Calls : Dropped(Head(pipe[h]))[c] \in {call[c], NONE}
             /\ \A c \in Calls : Deleted(c) => Dropped(Head(pipe[h]))[c] = call[c]
  <2> DEFINE cmd == Head(pipe[h])
  <2>1. cmd.op \in {"get", "del"} /\ cmd.call # NONE =>
          cmd.call \in Calls /\ call[cmd.call].waits \in {"get", "del"}
    BY <1>c, <1>t, <1>z, HeadAwaited DEF Answers
  <2> HIDE DEF cmd
  <2>2. CASE cmd.op \in {"get", "del"} /\ cmd.call # NONE
    <3>1. Dropped(cmd) = [call EXCEPT ![cmd.call] = NONE]
      BY <2>2 DEF Dropped
    <3>2. \A c \in Calls : Dropped(cmd)[c] = IF c = cmd.call THEN NONE ELSE call[c]
      BY <1>t, <3>1
    <3>3. ~Deleted(cmd.call)
      BY <2>1, <2>2 DEF Deleted
    <3> QED BY <3>2, <3>3 DEF cmd
  <2>3. CASE ~(cmd.op \in {"get", "del"} /\ cmd.call # NONE)
    <3>1. Dropped(cmd) = call
      BY <2>3 DEF Dropped
    <3> QED BY <3>1 DEF cmd
  <2> QED BY <2>2, <2>3
<1>8. ASSUME NEW h \in Procs, Reject(h) \/ Crash(h)
      PROVE  SuspendedAfterLeft' /\ DelsAreLate' /\ Durable'
  <2>1. UNCHANGED <<redis, left, elapsed, granted, saved>> /\ (cut => cut')
    BY <1>8, <1>t DEF Reject, Crash
  <2>2. InPipes' \subseteq InPipes \cup {[op |-> "expire"]}
    <3>1. CASE Reject(h)
      BY <1>t, <3>1, PoppedIn DEF Reject, Pops
    <3>2. CASE Crash(h)
      <4>1. \A g \in Procs : pipe'[g] = pipe[g] \/ pipe'[g] = << >>
        BY <1>t, <3>2 DEF Crash, PipesOK
      <4>2. \A g \in Procs : \A i \in 1..Len(pipe'[g]) : pipe'[g] = pipe[g]
        BY <4>1
      <4> QED BY <4>2 DEF InPipes
    <3> QED BY <1>8, <3>1, <3>2
  <2>3. /\ \A g \in Procs : mem'[g] = mem[g] \/ mem'[g] = NONE
        /\ \A c \in Calls : call'[c] = call[c] \/ call'[c] = NONE
    BY <1>8, <1>t, <1>z DEF Reject, Crash
  <2>4. SuspendedAfterLeft'
    BY <1>q, <1>x, <2>1, <2>2, <2>3 DEF Suspended
  <2>5. cut' \/ \A c \in Calls : Deleted(c) => Deleted(c)'
    <3>1. CASE Reject(h)
      BY <1>z, <3>1 DEF Reject, Deleted
    <3>2. CASE Crash(h)
      <4>1. ASSUME NEW c \in Calls, Deleted(c), ~Deleted(c)' PROVE cut'
        <5>1. call'[c] # call[c]
          BY <4>1 DEF Deleted
        <5>2. call[c].at = h
          BY <3>2, <5>1 DEF Crash
        <5> QED BY <3>2, <4>1, <5>2 DEF Crash
      <4> QED BY <4>1
    <3> QED BY <1>8, <3>1, <3>2
  <2>6. Durable'
    BY <1>y, <2>1, <2>5
  <2> QED BY <1>d, <1>x, <2>1, <2>2, <2>4, <2>6 DEF DelsAreLate
<1>12. ASSUME NEW h \in Procs, ReplyLost(h)
       PROVE  SuspendedAfterLeft' /\ DelsAreLate' /\ Durable'
  <2> DEFINE cmd == Head(pipe[h])
  <2>1. UNCHANGED <<mem, left, elapsed, granted>> /\ Pops(h)
    BY <1>12 DEF ReplyLost, SaveWithoutTtl, Pops
  <2>2. cmd \in InPipes /\ InPipes' \subseteq InPipes \cup {[op |-> "expire"]}
    BY <1>t, <2>1, PoppedIn
  <2>3. cmd \in Command
    BY <2>2 DEF InPipes
  <2>4. DelsAreLate'
    BY <1>d, <1>x, <2>1, <2>2 DEF DelsAreLate
  <2>5. CASE cmd.op = "set" /\ SaveWithoutTtl(h, cmd.session, Tail(pipe[h])) /\ UNCHANGED cut
    <3>1. /\ cmd.session \in Session /\ redis' = cmd.session /\ UNCHANGED call
          /\ saved' = (saved \/ cmd.session.state = "suspended")
      BY <2>3, <2>5, CommandFields DEF SaveWithoutTtl
    <3>2. SuspendedAfterLeft'
      <4>1. CASE left
        BY <2>1, <4>1 DEF SuspendedAfterLeft
      <4>2. CASE ~left
        <5>1. ~Suspended(cmd.session) /\ saved' = saved
          BY <1>e, <1>t, <2>2, <2>5, <3>1, <4>2 DEF Suspended
        <5> QED BY <1>q, <1>x, <2>1, <2>2, <3>1, <5>1
      <4> QED BY <4>1, <4>2
    <3> QED BY <2>4, <3>1, <3>2 DEF Durable
  <2>6. CASE /\ cmd.op = "del" /\ redis' = NONE /\ saved' = saved
             /\ call' = Dropped(cmd) /\ cut' = (cut \/ cmd.call # NONE)
    <3>1. SuspendedAfterLeft'
      BY <1>q, <1>x, <1>z, <2>1, <2>2, <2>6 DEF Suspended, Pops
    <3>2. CASE cmd.call = NONE
      <4>1. cmd = Del(NONE)
        BY <2>3, <2>6, <3>2 DEF Command, Del
      <4> QED BY <1>d, <2>1, <2>2, <2>4, <3>1, <4>1 DEF Durable
    <3>3. CASE cmd.call # NONE
      BY <2>4, <2>6, <3>1, <3>3 DEF Durable
    <3> QED BY <3>2, <3>3
  <2> QED BY <1>12, <2>5, <2>6 DEF ReplyLost
<1>13. ASSUME NEW c \in Calls, Return(c)
       PROVE  SuspendedAfterLeft' /\ DelsAreLate' /\ Durable'
  <2>1. /\ UNCHANGED <<mem, redis, pipe, left, elapsed, saved, cut>> /\ InPipes' = InPipes
        /\ granted' = granted \cup {c} /\ call' = [call EXCEPT ![c] = NONE]
    BY <1>13, SameIn DEF Return
  <2>2. \A d \in Calls : call'[d] = call[d] \/ (d = c /\ call'[d] = NONE)
    BY <1>t, <2>1
  <2>3. SuspendedAfterLeft'
    BY <1>q, <2>1, <2>2
  <2>4. Durable'
    BY <1>y, <2>1, <2>2 DEF Deleted
  <2> QED BY <1>d, <2>1, <2>3, <2>4 DEF DelsAreLate
<1>9. ASSUME NEW c \in Calls, NEW h \in Procs, Resume(c, h)
      PROVE  SuspendedAfterLeft' /\ DelsAreLate' /\ Durable'
  <2>1. /\ UNCHANGED <<redis, volatile, closed, left, elapsed, saved, cut>>
        /\ granted' = granted /\ ~Deleted(c)
    BY <1>9 DEF Resume, Claim, Deleted
  <2>2. CASE mem[h] # NONE /\ Claim(h, c, mem[h])
    BY <1>t, <2>1, <2>2, DurableClaim
  <2>3. CASE /\ call' = [call EXCEPT ![c] = [at |-> h, waits |-> "get", reply |-> NONE]]
             /\ Issue(h, <<Get(c)>>) /\ UNCHANGED <<mem, granted, expired>>
    <3>1. Get(c) \in Command /\ Get(c) # Del(NONE) /\ Get(c).op # "set"
      BY CommandsMade
    <3>2. InPipes' \subseteq InPipes \cup {Get(c)}
      BY <1>t, <2>3, <3>1, IssuedOneIn
    <3>3. \A d \in Calls : call'[d] # NONE =>
            ~Suspended(call'[d].reply) \/ call'[d] = call[d]
      BY <1>t, <2>3 DEF Suspended
    <3>4. SuspendedAfterLeft'
      BY <1>e, <2>1, <2>3, <3>1, <3>2, <3>3 DEF SuspendedAfterLeft
    <3>5. Durable'
      BY <1>t, <1>y, <2>1, <2>3 DEF Deleted
    <3> QED BY <1>d, <2>1, <3>1, <3>2, <3>4, <3>5 DEF DelsAreLate
  <2> QED BY <1>9, <2>2, <2>3 DEF Resume
<1>10. ASSUME NEW c \in Calls, Loaded(c)
       PROVE  SuspendedAfterLeft' /\ DelsAreLate' /\ Durable'
  <2>1. /\ UNCHANGED <<redis, volatile, closed, left, elapsed, saved, cut>>
        /\ granted' = granted /\ ~Deleted(c)
    BY <1>10 DEF Loaded, Claim, Deleted
  <2>2. call[c] \in Waiting
    BY <1>10, <1>t DEF Loaded
  <2>3. CASE call[c].reply # NONE /\ Claim(call[c].at, c, call[c].reply)
    BY <1>t, <2>1, <2>2, <2>3, DurableClaim DEF Waiting
  <2>4. CASE call' = [call EXCEPT ![c] = NONE] /\ UNCHANGED <<mem, pipe, granted, expired>>
    <3>1. InPipes' = InPipes /\ \A d \in Calls : call'[d] = call[d] \/ call'[d] = NONE
      BY <1>t, <2>4, SameIn
    <3>2. SuspendedAfterLeft'
      BY <1>q, <2>1, <2>4, <3>1
    <3>3. Durable'
      BY <1>t, <1>y, <2>1, <2>4 DEF Deleted
    <3> QED BY <1>d, <2>1, <3>1, <3>2, <3>3 DEF DelsAreLate
  <2> QED BY <1>10, <2>3, <2>4 DEF Loaded
<1>11. CASE UNCHANGED vars
  BY <1>11, SameIn DEF vars, DurableInv, SuspendedAfterLeft, DelsAreLate, Durable, Deleted, Suspended
<1> QED
  BY <1>1, <1>2, <1>3, <1>4, <1>5, <1>6, <1>7, <1>8, <1>9, <1>10, <1>11,
     <1>12, <1>13 DEF Next

LEMMA TypeInit == Init => TypeInv /\ InPipes = {}
<1> SUFFICES ASSUME Init PROVE TypeInv /\ InPipes = {}
  OBVIOUS
<1>1. /\ mem = [h \in Procs |-> IF h = Home THEN [state |-> "active", queue |-> 0] ELSE NONE]
      /\ pipe = [h \in Procs |-> << >>] /\ call = [c \in Calls |-> NONE]
      /\ redis = NONE /\ granted = {} /\ expired = 0
      /\ volatile = FALSE /\ left = FALSE /\ elapsed = FALSE /\ saved = FALSE
      /\ closed = {} /\ cut = FALSE
  BY DEF Init
<1>2. [state |-> "active", queue |-> 0] \in Session
  BY BoundAssumption DEF Session, State
<1>3. TypeOK
  <2>1. mem \in [Procs -> Session \cup {NONE}]
    BY <1>1, <1>2
  <2>2. << >> \in Seq(Command)
    BY EmptySeq
  <2>3. pipe \in [Procs -> Seq(Command)] /\ call \in [Calls -> Waiting \cup {NONE}]
    BY <1>1, <2>2
  <2>4. redis \in Session \cup {NONE} /\ {granted, closed} \subseteq {{}} /\ expired \in 0..2
    BY <1>1
  <2>5. {volatile, left, elapsed, saved, cut} \subseteq BOOLEAN
    BY <1>1
  <2> QED BY <2>1, <2>3, <2>4, <2>5 DEF TypeOK
<1>4. \A h \in Procs : Len(pipe[h]) = 0
  BY <1>1
<1>5. \A h \in Procs : 1..Len(pipe[h]) = {}
  BY <1>4
<1> QED BY <1>3, <1>5 DEF TypeInv, CallsAwaited, InPipes

LEMMA DurableInit == Init => DurableInv
BY TypeInit, NoneAssumption
   DEF Init, TypeInv, DurableInv, SuspendedAfterLeft, DelsAreLate, Durable, Suspended

(* A suspended session that has reached Redis stays there until its time is *)
(* over or the del of a resume has removed it for a call that returns it:   *)
(* for any number of processes and calls, with crashes, rejected commands   *)
(* and lost replies in any order, but for one that cuts off that call       *)
(* between its del and its return.                                          *)
THEOREM AlwaysDurable == Spec => []Durable
<1>1. Init => DurableInv
  BY DurableInit
<1>2. DurableInv /\ [Next]_vars => DurableInv'
  BY DurableStep
<1>3. DurableInv => Durable
  BY DEF DurableInv
<1> QED BY <1>1, <1>2, <1>3, PTL DEF Spec

-----------------------------------------------------------------------------
(* The outcome of a session in a process of its own.                        *)

OnlyHome == Procs = {Home} /\ ~Crashes /\ ~Fails

LEMMA LineIssued ==
  ASSUME PipesOK, NEW cmd \in Command, Issue(Home, <<cmd>>)
  PROVE  /\ Len(Line) \in Nat /\ Len(Line') = Len(Line) + 1
         /\ \A i \in 1..Len(Line) : Line'[i] = Line[i]
         /\ Line'[Len(Line) + 1] = cmd
BY HomeAssumption, IssueOne DEF Line

(* Redis takes the first command; a save may go on behind the others.       *)
LEMMA LineExecuted ==
  ASSUME PipesOK, Pops(Home) \/ Continues(Home, [op |-> "expire"])
  PROVE  /\ Len(Line) \in Nat \ {0} /\ Head(pipe[Home]) = Line[1] /\ Line[1] \in Command
         /\ Len(Line') \in {Len(Line) - 1, Len(Line)}
         /\ \A i \in 1..Len(Line) - 1 : Line'[i] = Line[i + 1]
         /\ Len(Line') = Len(Line) => Line'[Len(Line)] = [op |-> "expire"]
<1> DEFINE e == [op |-> "expire"]
<1>1. e \in Command /\ Home \in Procs
  BY CommandsMade, HomeAssumption
<1> HIDE DEF e
<1>2. CASE Pops(Home)
  <2>1. /\ Len(pipe[Home]) \in Nat \ {0} /\ Head(pipe[Home]) = pipe[Home][1]
        /\ pipe[Home][1] \in Command /\ Len(pipe'[Home]) = Len(pipe[Home]) - 1
        /\ \A i \in 1..Len(pipe'[Home]) : pipe'[Home][i] = pipe[Home][i + 1]
    BY <1>1, <1>2, PipePopped DEF Pops
  <2> QED BY <2>1 DEF Line
<1>3. CASE Continues(Home, e)
  <2>1. /\ Len(pipe[Home]) \in Nat \ {0} /\ Head(pipe[Home]) = pipe[Home][1]
        /\ pipe[Home][1] \in Command /\ Len(pipe'[Home]) = Len(pipe[Home])
        /\ \A i \in 1..Len(pipe[Home]) - 1 : pipe'[Home][i] = pipe[Home][i + 1]
        /\ pipe'[Home][Len(pipe[Home])] = e
    BY <1>1, <1>3, PipeContinued DEF Continues
  <2> QED BY <2>1 DEF Line, e
<1> QED BY <1>2, <1>3 DEF e

(* What an execution does to the line.                                      *)
LEMMA LineOfExecute ==
  ASSUME Execute(Home)
  PROVE  /\ pipe[Home] # << >>
         /\ Pops(Home) \/ Continues(Home, [op |-> "expire"])
         /\ \/ Head(pipe[Home]).op \in {"set", "expire"} /\ UNCHANGED call
            \/ /\ Head(pipe[Home]).op = "get"
               /\ Pops(Home)
               /\ call' = [call EXCEPT ![Head(pipe[Home]).call].waits = "reply",
                                       ![Head(pipe[Home]).call].reply = redis]
               /\ UNCHANGED redis
            \/ /\ Head(pipe[Home]).op = "del"
               /\ Pops(Home)
               /\ redis' = NONE
               /\ call' = IF Head(pipe[Home]).call = NONE THEN call
                            ELSE [call EXCEPT ![Head(pipe[Home]).call].waits = "deleted"]
         /\ Head(pipe[Home]).op = "expire" => UNCHANGED redis
         /\ UNCHANGED <<mem, left, elapsed, granted, expired>>
BY DEF Execute, Save, Fetch, Delete, GiveTtl, Pops, Continues

LEMMA FromNotResumed ==
  ASSUME OnlyHome, TypeInv, SuspendedAfterLeft, NotResumed, [Next]_vars
  PROVE  NotResumed' \/ WasResumed' \/ HasExpired'
<1> USE NoneAssumption, HomeAssumption
<1>t. /\ PipesOK /\ mem[Home] \in Session /\ Home \in Procs
      /\ mem \in [Procs -> Session \cup {NONE}]
      /\ call = [c \in Calls |-> NONE]
  BY DEF TypeInv, TypeOK, PipesOK, NotResumed
<1>n. /\ granted = {} /\ expired = 0 /\ mem[Home].state # "resumed"
      /\ \A c \in Calls : call[c] = NONE
      /\ \A i \in 1..Len(Line) : Line[i].op \notin Answers
  BY DEF NotResumed
<1>l. mem[Home].state = "suspended" => left
  BY <1>t DEF SuspendedAfterLeft, Suspended
<1>c. \A i \in 1..Len(Line) : Line[i] \in Command /\ Line[i].op \in {"set", "expire"}
  <2>1. \A i \in 1..Len(Line) : Line[i] \in Command
    BY <1>t, ElementOfSeq DEF PipesOK, Line
  <2> QED BY <1>n, <2>1, CommandFields DEF Answers
(* A save or nothing at all is issued, and nobody claims the session.       *)
<1>u. ASSUME UNCHANGED <<call, granted, expired>>, mem'[Home] # NONE,
             mem'[Home].state # "resumed",
             \/ UNCHANGED pipe
             \/ \E session \in Session : Issue(Home, <<Set(session)>>)
      PROVE  NotResumed'
  <2>1. CASE UNCHANGED pipe
    BY <1>n, <1>u, <2>1 DEF NotResumed, Line
  <2>2. ASSUME NEW session \in Session, Issue(Home, <<Set(session)>>) PROVE NotResumed'
    <3>1. Set(session) \in Command /\ Set(session).op \notin Answers
      BY CommandsMade DEF Answers
    <3>2. /\ Len(Line) \in Nat /\ Len(Line') = Len(Line) + 1
          /\ \A i \in 1..Len(Line) : Line'[i] = Line[i]
          /\ Line'[Len(Line) + 1] = Set(session)
      BY <1>t, <2>2, <3>1, LineIssued
    <3>3. \A i \in 1..Len(Line') : i \in 1..Len(Line) \/ i = Len(Line) + 1
      BY <3>2
    <3>4. \A i \in 1..Len(Line') : Line'[i].op \notin Answers
      BY <1>n, <3>1, <3>2, <3>3
    <3> QED BY <1>n, <1>u, <3>4 DEF NotResumed
  <2> QED BY <1>u, <2>1, <2>2
(* The session is overdue.                                                  *)
<1>o. ASSUME left, left' = left, granted' = granted, expired' = 1,
             mem' = [mem EXCEPT ![Home] = NONE],
             \A c \in Calls : call'[c] = NONE, Issue(Home, <<Del(NONE)>>)
      PROVE  HasExpired'
  <2>1. Del(NONE) \in Command
    BY CommandsMade
  <2>2. /\ Len(Line) \in Nat /\ Len(Line') = Len(Line) + 1
        /\ \A i \in 1..Len(Line) : Line'[i] = Line[i]
        /\ Line'[Len(Line) + 1] = Del(NONE)
    BY <1>t, <1>o, <2>1, LineIssued
  <2> DEFINE k == Len(Line) + 1
  <2>3. k \in 1..Len(Line') /\ k - 1 = Len(Line) /\ k + 1 > Len(Line')
    BY <2>2
  <2>4. \A i \in 1..k - 1 : Line'[i].op \in {"set", "expire"}
    BY <1>c, <2>2, <2>3
  <2>5. \A i \in k + 1..Len(Line') : Line'[i].op \in {"get", "expire"}
    BY <2>2, <2>3
  <2>6. mem'[Home] = NONE
    BY <1>o, <1>t
  <2> HIDE DEF k
  <2> QED BY <1>n, <1>o, <2>2, <2>3, <2>4, <2>5, <2>6 DEF HasExpired, k
(* Call c resumes it.                                                       *)
<1>r. ASSUME NEW c \in Calls, left, left' = left, UNCHANGED <<granted, expired>>,
             mem' = [mem EXCEPT ![Home] = [mem[Home] EXCEPT !.state = "resumed"]],
             Issue(Home, <<Del(c)>>),
             call' = [call EXCEPT ![c] = [at |-> Home, waits |-> "del", reply |-> NONE]]
      PROVE  WasResumed'
  <2>1. Del(c) \in Command /\ Del(c).call = c
    BY CommandsMade
  <2>2. /\ Len(Line) \in Nat /\ Len(Line') = Len(Line) + 1
        /\ \A i \in 1..Len(Line) : Line'[i] = Line[i]
        /\ Line'[Len(Line) + 1] = Del(c)
    BY <1>r, <1>t, <2>1, LineIssued
  <2>3. \A i \in 1..Len(Line') : i \in 1..Len(Line) \/ i = Len(Line) + 1
    BY <2>2
  <2>4. \A i \in 1..Len(Line') : Line'[i].op \in Answers => Line'[i].call # NONE
    BY <1>n, <2>1, <2>2, <2>3
  <2>5. mem'[Home].state = "resumed" /\ mem'[Home] \in Session
    BY <1>r, <1>t DEF Session, State
  <2>6. \A d \in Calls : call'[d] # NONE => d = c /\ call'[d].waits = "del"
    BY <1>n, <1>r, <1>t
  <2>7. \A d \in Calls : call'[d] # NONE => d = c /\ granted' = {} /\ call'[d].waits \in {"del", "deleted"}
    BY <1>n, <1>r, <2>6
  <2> QED BY <1>n, <1>r, <2>4, <2>5, <2>7 DEF WasResumed
<1>1. CASE Suspend
  <2>1. mem' = [mem EXCEPT ![Home] = [mem[Home] EXCEPT !.state = "suspended"]]
    BY <1>1 DEF Suspend
  <2>2. mem'[Home] \in Session /\ mem'[Home].state = "suspended"
    BY <1>t, <2>1 DEF Session, State
  <2>3. PICK times \in 1..2 : Issue(Home, [i \in 1..times |-> Set(mem'[Home])])
    BY <1>1 DEF Suspend
  <2> DEFINE cmds == [i \in 1..times |-> Set(mem'[Home])]
  <2>4. cmds \in Seq(Command) /\ \A i \in 1..Len(cmds) : cmds[i].op \notin Answers
    BY <2>2, CommandsMade DEF Answers
  <2> HIDE DEF cmds
  <2>5. Issue(Home, cmds)
    BY <2>3 DEF cmds
  <2>6. /\ Len(Line') = Len(Line) + Len(cmds)
        /\ \A i \in 1..Len(Line) : Line'[i] = Line[i]
        /\ \A i \in Len(Line) + 1..Len(Line') : Line'[i] = cmds[i - Len(Line)]
    BY <1>t, <2>4, <2>5, IssueAppends DEF Line
  <2>7. Len(Line) \in Nat /\ Len(cmds) \in Nat
    BY <1>t, <2>4, LenProperties DEF PipesOK, Line
  <2>8. ASSUME NEW i \in 1..Len(Line') PROVE Line'[i].op \notin Answers
    <3>1. CASE i <= Len(Line)
      BY <1>n, <2>6, <2>7, <3>1
    <3>2. CASE i > Len(Line)
      <4>1. i \in Len(Line) + 1..Len(Line') /\ i - Len(Line) \in 1..Len(cmds)
        BY <2>6, <2>7, <3>2
      <4> QED BY <2>4, <2>6, <4>1
    <3> QED BY <2>6, <2>7, <3>1, <3>2
  <2>9. UNCHANGED <<call, granted, expired>>
    BY <1>1 DEF Suspend
  <2> QED BY <1>n, <2>2, <2>8, <2>9 DEF NotResumed
<1>2. CASE Evict \/ Elapse
  BY <1>2, <1>n, <1>t, <1>u DEF Evict, Elapse
<1>3. CASE Enqueue(Home) \/ Flush(Home)
  <2>1. mem'[Home] \in Session /\ mem'[Home].state = mem[Home].state
    BY <1>3, <1>t, BoundAssumption DEF Enqueue, Flush, Session
  <2> QED BY <1>3, <1>n, <1>u, <2>1 DEF Enqueue, Flush
<1>4. CASE Migrate(Home)
  <2>1. mem'[Home] \in Session /\ mem'[Home].state = "migrated"
    BY <1>4, <1>t DEF Migrate, Session, State
  <2> QED BY <1>4, <1>n, <1>u, <2>1 DEF Migrate
<1>5. CASE Sweep(Home)
  <2>1. left
    BY <1>5, <1>l DEF Sweep, Overdue
  <2> QED BY <1>5, <1>n, <1>o, <2>1 DEF Sweep, Expired
<1>6. CASE Close(Home)
  BY <1>6, <1>n, <1>t, <1>u DEF Close
<1>7. CASE Execute(Home)
  <2>1. Pops(Home) \/ Continues(Home, [op |-> "expire"])
    BY <1>7, LineOfExecute
  <2>2. /\ Len(Line) \in Nat \ {0} /\ Head(pipe[Home]) = Line[1]
        /\ Len(Line') \in {Len(Line) - 1, Len(Line)}
        /\ \A i \in 1..Len(Line) - 1 : Line'[i] = Line[i + 1]
        /\ Len(Line') = Len(Line) => Line'[Len(Line)] = [op |-> "expire"]
    BY <1>t, <2>1, LineExecuted
  <2>3. \A i \in 1..Len(Line') :
          \/ i \in 1..Len(Line) - 1 /\ i + 1 \in 1..Len(Line)
          \/ i = Len(Line) /\ Len(Line') = Len(Line)
    BY <2>2
  <2>4. \A i \in 1..Len(Line') : Line'[i].op \notin Answers
    BY <1>n, <2>2, <2>3, CommandsMade DEF Answers
  <2>5. Head(pipe[Home]).op \in {"set", "expire"}
    BY <1>c, <2>2
  <2>6. UNCHANGED <<call, granted, mem, expired>>
    BY <1>7, <2>5, LineOfExecute
  <2> QED BY <1>n, <1>t, <2>4, <2>6 DEF NotResumed
<1>8. ASSUME NEW c \in Calls, Resume(c, Home)
      PROVE  NotResumed' \/ WasResumed' \/ HasExpired'
  <2>1. Claim(Home, c, mem[Home]) /\ left' = left
    BY <1>8, <1>t DEF Resume
  <2>2. CASE mem[Home].state # "suspended"
    <3>1. /\ call' = [call EXCEPT ![c] = NONE] /\ mem' = [mem EXCEPT ![Home] = mem[Home]]
          /\ UNCHANGED <<pipe, granted, expired>>
      BY <2>1, <2>2 DEF Claim, Overdue
    <3>2. call' = call /\ mem' = mem
      BY <1>t, <3>1
    <3> QED BY <1>n, <1>t, <1>u, <3>1, <3>2
  <2>3. CASE Overdue(mem[Home]) /\ Issue(Home, <<Del(NONE)>>)
    <3>1. /\ call' = [call EXCEPT ![c] = NONE] /\ mem' = [mem EXCEPT ![Home] = NONE]
          /\ Expired /\ granted' = granted
      BY <2>1, <2>3 DEF Claim, Overdue
    <3>2. left /\ expired' = 1
      BY <1>l, <1>n, <2>3, <3>1 DEF Overdue, Expired
    <3>3. \A d \in Calls : call'[d] = NONE
      BY <1>t, <3>1
    <3> QED BY <1>o, <2>1, <2>3, <3>1, <3>2, <3>3
  <2>4. CASE mem[Home].state = "suspended" /\ ~elapsed
    BY <1>l, <1>r, <2>1, <2>4 DEF Claim, Overdue
  <2> QED BY <2>1, <2>2, <2>3, <2>4 DEF Claim
<1>9. ASSUME NEW c \in Calls, Loaded(c) \/ Return(c) PROVE FALSE
  BY <1>9, <1>n DEF Loaded, Return, Deleted
<1>10. CASE Reject(Home) \/ ReplyLost(Home) \/ Crash(Home)
  BY <1>10 DEF Reject, ReplyLost, Crash, OnlyHome
<1>11. CASE UNCHANGED vars
  BY <1>11, <1>n, <1>t, <1>u DEF vars
<1> QED
  BY <1>1, <1>2, <1>3, <1>4, <1>5, <1>6, <1>7, <1>8, <1>9, <1>10, <1>11 DEF Next, OnlyHome

LEMMA FromWasResumed ==
  ASSUME OnlyHome, TypeInv, SuspendedAfterLeft, WasResumed, [Next]_vars
  PROVE  WasResumed'
<1> USE NoneAssumption, HomeAssumption
<1>t. /\ PipesOK /\ mem[Home] \in Session /\ Home \in Procs
      /\ mem \in [Procs -> Session \cup {NONE}] /\ call \in [Calls -> Waiting \cup {NONE}]
  BY DEF TypeInv, TypeOK, PipesOK, WasResumed
<1>p. PICK c \in Calls :
        /\ granted \subseteq {c}
        /\ \A d \in Calls : call[d] # NONE =>
            d = c /\ granted = {} /\ call[d].waits \in {"del", "deleted"}
  BY DEF WasResumed
<1>n. /\ left /\ expired = 0 /\ mem[Home].state \in {"resumed", "migrated"}
      /\ \A i \in 1..Len(Line) : Line[i].op \in Answers => Line[i].call # NONE
  BY DEF WasResumed
(* A save or nothing is issued; no call comes to wait for anything.         *)
<1>u. ASSUME left' = left, UNCHANGED <<granted, expired>>,
             mem'[Home] # NONE, mem'[Home].state \in {"resumed", "migrated"},
             \A d \in Calls : call'[d] = call[d] \/ call'[d] = NONE,
             \/ UNCHANGED pipe
             \/ \E session \in Session : Issue(Home, <<Set(session)>>)
      PROVE  WasResumed'
  <2>1. \A d \in Calls : call'[d] # NONE => d = c /\ granted' = {} /\ call'[d].waits \in {"del", "deleted"}
    BY <1>p, <1>u
  <2>2. \A i \in 1..Len(Line') : Line'[i].op \in Answers => Line'[i].call # NONE
    <3>1. CASE UNCHANGED pipe
      BY <1>n, <3>1 DEF Line
    <3>2. ASSUME NEW session \in Session, Issue(Home, <<Set(session)>>)
          PROVE  \A i \in 1..Len(Line') : Line'[i].op \in Answers => Line'[i].call # NONE
      <4>1. Set(session) \in Command /\ Set(session).op \notin Answers
        BY CommandsMade DEF Answers
      <4>2. /\ Len(Line) \in Nat /\ Len(Line') = Len(Line) + 1
            /\ \A i \in 1..Len(Line) : Line'[i] = Line[i]
            /\ Line'[Len(Line) + 1] = Set(session)
        BY <1>t, <3>2, <4>1, LineIssued
      <4>3. \A i \in 1..Len(Line') : i \in 1..Len(Line) \/ i = Len(Line) + 1
        BY <4>2
      <4> QED BY <1>n, <4>1, <4>2, <4>3
    <3> QED BY <1>u, <3>1, <3>2
  <2> QED BY <1>n, <1>p, <1>u, <2>1, <2>2 DEF WasResumed
<1>1. CASE Suspend
  BY <1>1, <1>n DEF Suspend
<1>2. CASE Evict \/ Elapse
  BY <1>2, <1>n, <1>t, <1>u DEF Evict, Elapse
<1>3. CASE Enqueue(Home)
  BY <1>3, <1>n DEF Enqueue, Is
<1>12. CASE Close(Home)
  BY <1>12, <1>n, <1>t, <1>u DEF Close, Is
<1>4. CASE Flush(Home)
  <2>1. mem'[Home] \in Session /\ mem'[Home].state = mem[Home].state
    BY <1>4, <1>t, BoundAssumption DEF Flush, Session
  <2> QED BY <1>4, <1>n, <1>u, <2>1 DEF Flush
<1>5. CASE Migrate(Home)
  <2>1. mem'[Home] \in Session /\ mem'[Home].state = "migrated"
    BY <1>5, <1>t DEF Migrate, Session, State
  <2> QED BY <1>5, <1>n, <1>u, <2>1 DEF Migrate
<1>6. CASE Sweep(Home)
  BY <1>6, <1>n DEF Sweep, Overdue
<1>7. CASE Execute(Home)
  <2>1. Pops(Home) \/ Continues(Home, [op |-> "expire"])
    BY <1>7, LineOfExecute
  <2>2. /\ Len(Line) \in Nat \ {0} /\ Head(pipe[Home]) = Line[1] /\ Line[1] \in Command
        /\ Len(Line') \in {Len(Line) - 1, Len(Line)}
        /\ \A i \in 1..Len(Line) - 1 : Line'[i] = Line[i + 1]
        /\ Len(Line') = Len(Line) => Line'[Len(Line)] = [op |-> "expire"]
    BY <1>t, <2>1, LineExecuted
  <2>3. \A i \in 1..Len(Line') :
          \/ i \in 1..Len(Line) - 1 /\ i + 1 \in 1..Len(Line)
          \/ i = Len(Line) /\ Len(Line') = Len(Line)
    BY <2>2
  <2>4. \A i \in 1..Len(Line') : Line'[i].op \in Answers => Line'[i].call # NONE
    BY <1>n, <2>2, <2>3, CommandsMade DEF Answers
  <2>5. mem'[Home] = mem[Home] /\ left' = left /\ expired' = expired
    BY <1>7, LineOfExecute
  <2>6. Line[1].op \in Answers =>
          Line[1].call = c /\ call[c] # NONE /\ call[c].waits = Line[1].op
    <3>1. 1 \in 1..Len(Line)
      BY <2>2
    <3>2. Line[1].op \in Answers => Line[1].call \in Calls
      BY <1>n, <2>2, <3>1, CommandFields
    <3>3. Line[1].op \in Answers =>
            call[Line[1].call] # NONE /\ call[Line[1].call].waits = Line[1].op
      BY <1>n, <3>1 DEF TypeInv, CallsAwaited, Line
    <3> QED BY <1>p, <3>2, <3>3
  <2>7. CASE UNCHANGED <<call, granted>>
    BY <1>n, <1>p, <1>t, <2>4, <2>5, <2>7 DEF WasResumed
  <2>8. CASE Line[1].op = "get"
    BY <1>p, <2>6, <2>8 DEF Answers
  <2>9. CASE Line[1].op = "del"
    <3>1. Line[1].call = c /\ granted = {} /\ c # NONE
      BY <1>p, <2>6, <2>9 DEF Answers
    <3>2. call' = [call EXCEPT ![c].waits = "deleted"] /\ granted' = {}
      <4>1. Head(pipe[Home]).op = "del" /\ Head(pipe[Home]).call = c
        BY <2>2, <2>9, <3>1
      <4> QED BY <1>7, <3>1, <4>1, LineOfExecute
    <3>3. call[c] \in Waiting
      BY <1>t, <2>6, <2>9 DEF Answers
    <3>4. \A d \in Calls : call'[d] # NONE => d = c /\ call'[d].waits \in {"del", "deleted"}
      BY <1>p, <1>t, <3>2, <3>3 DEF Waiting
    <3> QED BY <1>n, <1>t, <2>4, <2>5, <3>2, <3>4 DEF WasResumed
  <2> QED BY <1>7, <2>2, <2>7, <2>8, <2>9, LineOfExecute
<1>8. ASSUME NEW d \in Calls, Resume(d, Home) PROVE WasResumed'
  <2>1. Claim(Home, d, mem[Home]) /\ left' = left /\ call[d] = NONE
    BY <1>8, <1>t DEF Resume
  <2>2. /\ call' = [call EXCEPT ![d] = NONE] /\ mem' = [mem EXCEPT ![Home] = mem[Home]]
        /\ UNCHANGED <<pipe, granted, expired>>
    BY <1>n, <2>1 DEF Claim, Overdue
  <2>3. call' = call /\ mem'[Home] = mem[Home]
    BY <1>t, <2>1, <2>2
  <2> QED BY <1>n, <1>t, <1>u, <2>1, <2>2, <2>3
<1>9. ASSUME NEW d \in Calls, Loaded(d) PROVE FALSE
  BY <1>9, <1>p DEF Loaded
<1>13. ASSUME NEW d \in Calls, Return(d) PROVE WasResumed'
  <2>1. d = c /\ granted = {}
    BY <1>13, <1>p DEF Return, Deleted
  <2>2. \A e \in Calls : call'[e] = NONE
    BY <1>13, <1>p, <1>t, <2>1 DEF Return
  <2>3. granted' = {c} /\ UNCHANGED <<mem, pipe, left, expired>>
    BY <1>13, <2>1 DEF Return
  <2> QED BY <1>n, <1>t, <2>2, <2>3 DEF WasResumed, Line
<1>10. CASE Reject(Home) \/ ReplyLost(Home) \/ Crash(Home)
  BY <1>10 DEF Reject, ReplyLost, Crash, OnlyHome
<1>11. CASE UNCHANGED vars
  BY <1>11, <1>n, <1>t, <1>u DEF vars
<1> QED
  BY <1>1, <1>2, <1>3, <1>4, <1>5, <1>6, <1>7, <1>8, <1>9, <1>10, <1>11,
     <1>12, <1>13 DEF Next, OnlyHome

LEMMA FromHasExpired ==
  ASSUME OnlyHome, TypeInv, HasExpired, [Next]_vars
  PROVE  HasExpired'
<1> USE NoneAssumption, HomeAssumption
<1>t. /\ PipesOK /\ Home \in Procs /\ Len(Line) \in Nat
      /\ mem \in [Procs -> Session \cup {NONE}] /\ call \in [Calls -> Waiting \cup {NONE}]
      /\ \A i \in 1..Len(Line) : Line[i] \in Command
  BY LenProperties, ElementOfSeq DEF TypeInv, TypeOK, PipesOK, Line
<1>n. /\ left /\ expired = 1 /\ granted = {} /\ mem[Home] = NONE
      /\ \A c \in Calls : call[c] # NONE =>
           call[c].waits \in {"get", "reply"} /\ call[c].reply = NONE
  BY DEF HasExpired
<1> DEFINE Drained == /\ redis = NONE
                      /\ \A i \in 1..Len(Line) : Line[i].op \in {"get", "expire"}
           DelAt(k) == /\ k \in 1..Len(Line) /\ Line[k] = Del(NONE)
                       /\ \A i \in 1..k - 1 : Line[i].op \in {"set", "expire"}
                       /\ \A i \in k + 1..Len(Line) : Line[i].op \in {"get", "expire"}
<1>d. Drained \/ \E k \in 1..Len(Line) : DelAt(k)
  BY DEF HasExpired
<1>h. ASSUME left' = left, expired' = expired, granted' = granted, mem' = mem,
             \A c \in Calls : call'[c] # NONE =>
               call'[c].waits \in {"get", "reply"} /\ call'[c].reply = NONE,
             Drained' \/ \E k \in 1..Len(Line') : DelAt(k)'
      PROVE  HasExpired'
  BY <1>h, <1>n DEF HasExpired
(* The pipe stands still.                                                   *)
<1>s. ASSUME left' = left, expired' = expired, granted' = granted, mem' = mem,
             \A c \in Calls : call'[c] = call[c] \/ call'[c] = NONE,
             UNCHANGED pipe, redis' = redis \/ redis' = NONE
      PROVE  HasExpired'
  <2>1. Drained' \/ \E k \in 1..Len(Line') : DelAt(k)'
    BY <1>d, <1>s DEF Line, Del
  <2> HIDE DEF Drained, DelAt
  <2> QED BY <1>h, <1>n, <1>s, <2>1
<1>1. CASE Suspend \/ Enqueue(Home) \/ Flush(Home) \/ Migrate(Home) \/ Sweep(Home)
  BY <1>1, <1>n DEF Suspend, Enqueue, Flush, Migrate, Sweep, Is
<1>8. CASE Close(Home)
  BY <1>8, <1>n, <1>s DEF Close, Is
<1>9. ASSUME NEW c \in Calls, Return(c) PROVE FALSE
  BY <1>9, <1>n DEF Return, Deleted
<1>2. CASE Evict \/ Elapse
  BY <1>2, <1>s DEF Evict, Elapse
<1>3. ASSUME NEW c \in Calls, Resume(c, Home) PROVE HasExpired'
  <2>1. /\ call' = [call EXCEPT ![c] = [at |-> Home, waits |-> "get", reply |-> NONE]]
        /\ Issue(Home, <<Get(c)>>) /\ UNCHANGED <<mem, granted, expired, redis, left>>
    BY <1>3, <1>n DEF Resume
  <2>2. Get(c) \in Command /\ Get(c).op = "get"
    BY CommandsMade
  <2>3. /\ Len(Line') = Len(Line) + 1
        /\ \A i \in 1..Len(Line) : Line'[i] = Line[i]
        /\ Line'[Len(Line) + 1] = Get(c)
    BY <1>t, <2>1, <2>2, LineIssued
  <2>4. \A i \in 1..Len(Line') : i \in 1..Len(Line) \/ i = Len(Line) + 1
    BY <1>t, <2>3
  <2>5. CASE Drained
    <3>1. Drained'
      BY <2>1, <2>2, <2>3, <2>4, <2>5
    <3>2. \A d \in Calls : call'[d] # NONE =>
            call'[d].waits \in {"get", "reply"} /\ call'[d].reply = NONE
      BY <1>n, <1>t, <2>1
    <3> HIDE DEF Drained, DelAt
    <3> QED BY <1>h, <2>1, <3>1, <3>2
  <2>6. ASSUME NEW k \in 1..Len(Line), DelAt(k) PROVE HasExpired'
    <3>1. k \in 1..Len(Line') /\ Line'[k] = Del(NONE)
      BY <1>t, <2>3, <2>6
    <3>2. \A i \in 1..k - 1 : Line'[i].op \in {"set", "expire"}
      BY <1>t, <2>3, <2>6
    <3>3. ASSUME NEW i \in k + 1..Len(Line') PROVE Line'[i].op \in {"get", "expire"}
      <4>1. i \in k + 1..Len(Line) \/ i = Len(Line) + 1
        BY <1>t, <2>3
      <4>2. \A j \in k + 1..Len(Line) : j \in 1..Len(Line)
        BY <1>t
      <4> QED BY <2>2, <2>3, <2>6, <4>1, <4>2
    <3>4. DelAt(k)'
      BY <3>1, <3>2, <3>3 DEF Del
    <3>5. \A d \in Calls : call'[d] # NONE =>
            call'[d].waits \in {"get", "reply"} /\ call'[d].reply = NONE
      BY <1>n, <1>t, <2>1
    <3> HIDE DEF Drained, DelAt
    <3> QED BY <1>h, <2>1, <3>1, <3>4, <3>5
  <2> HIDE DEF Drained, DelAt
  <2> QED BY <1>d, <2>5, <2>6
<1>4. CASE Execute(Home)
  <2>1. Pops(Home) \/ Continues(Home, [op |-> "expire"])
    BY <1>4, LineOfExecute
  <2>2. /\ Len(Line) \in Nat \ {0} /\ Head(pipe[Home]) = Line[1]
        /\ Len(Line') \in {Len(Line) - 1, Len(Line)}
        /\ \A i \in 1..Len(Line) - 1 : Line'[i] = Line[i + 1]
        /\ Len(Line') = Len(Line) => Line'[Len(Line)] = [op |-> "expire"]
    BY <1>t, <2>1, LineExecuted
  <2>3. \A i \in 1..Len(Line') :
          \/ i \in 1..Len(Line) - 1 /\ i + 1 \in 1..Len(Line)
          \/ i = Len(Line) /\ Len(Line') = Len(Line)
    BY <2>2
  <2>4. UNCHANGED <<mem, left, expired>> /\ 1 \in 1..Len(Line)
    BY <1>4, <2>2, LineOfExecute
  <2>5. CASE Drained
    <3>1. Line[1].op \in {"get", "expire"}
      BY <2>4, <2>5
    <3>2. /\ granted' = granted /\ redis' = NONE
          /\ \A d \in Calls : call'[d] # NONE =>
               call'[d].waits \in {"get", "reply"} /\ call'[d].reply = NONE
      <4>1. CASE Line[1].op = "expire"
        <5>1. UNCHANGED <<call, granted, redis>>
          BY <1>4, <2>2, <4>1, LineOfExecute
        <5> QED BY <1>n, <2>5, <5>1
      <4>2. CASE Line[1].op = "get"
        <5> DEFINE c == Line[1].call
        <5>1. /\ call' = [call EXCEPT ![c].waits = "reply", ![c].reply = redis]
              /\ UNCHANGED <<granted, redis>>
          BY <1>4, <2>2, <4>2, LineOfExecute
        <5>2. c \in Calls /\ call[c] \in Waiting
          <6>1. c \in Calls \cup {NONE}
            BY <1>t, <2>4, <4>2, CommandFields DEF Answers
          <6>2. c # NONE /\ call[c] # NONE
            BY <2>4, <4>2 DEF TypeInv, CallsAwaited, Answers, Line
          <6> QED BY <1>t, <6>1, <6>2
        <5> HIDE DEF c
        <5>3. call'[c].waits = "reply" /\ call'[c].reply = NONE
          BY <1>t, <2>5, <5>1, <5>2 DEF Waiting
        <5>4. \A d \in Calls \ {c} : call'[d] = call[d]
          BY <1>t, <5>1, <5>2
        <5> QED BY <1>n, <2>5, <5>1, <5>3, <5>4
      <4> QED BY <3>1, <4>1, <4>2
    <3>3. \A i \in 1..Len(Line') : Line'[i].op \in {"get", "expire"}
      BY <2>2, <2>3, <2>5, CommandsMade
    <3>4. Drained'
      BY <3>2, <3>3
    <3> HIDE DEF Drained, DelAt
    <3> QED BY <1>h, <2>4, <3>2, <3>4
  <2>6. ASSUME NEW k \in 1..Len(Line), DelAt(k) PROVE HasExpired'
    <3>1. CASE k = 1
      <4>1. Line[1].op = "del" /\ Line[1].call = NONE
        BY <2>6, <3>1, CommandsMade
      <4>2. call' = call /\ redis' = NONE /\ granted' = granted
        BY <1>4, <2>2, <4>1, LineOfExecute
      <4>3. \A i \in 1..Len(Line) - 1 : i + 1 \in k + 1..Len(Line)
        BY <1>t, <3>1
      <4>4. \A i \in 1..Len(Line') : Line'[i].op \in {"get", "expire"}
        BY <2>2, <2>3, <2>6, <4>3, CommandsMade
      <4>5. Drained'
        BY <4>2, <4>4
      <4> HIDE DEF Drained, DelAt
      <4> QED BY <1>h, <1>n, <2>4, <4>2, <4>5
    <3>2. CASE k # 1
      <4>1. k - 1 \in 1..Len(Line) - 1 /\ 1 \in 1..k - 1 /\ k - 1 \in 1..Len(Line')
        BY <1>t, <2>2, <3>2
      <4>2. Line[1].op \in {"set", "expire"}
        BY <2>6, <4>1
      <4>3. UNCHANGED <<call, granted>>
        BY <1>4, <2>2, <4>2, LineOfExecute
      <4>4. Line'[k - 1] = Del(NONE)
        <5>1. Line'[k - 1] = Line[k - 1 + 1] /\ k - 1 + 1 = k
          BY <2>2, <4>1
        <5> QED BY <2>6, <5>1
      <4>5. ASSUME NEW i \in 1..k - 1 - 1 PROVE Line'[i].op \in {"set", "expire"}
        <5>1. i \in 1..Len(Line) - 1 /\ i + 1 \in 1..k - 1
          BY <1>t, <4>1
        <5> QED BY <2>2, <2>6, <5>1
      <4>6. ASSUME NEW i \in k - 1 + 1..Len(Line') PROVE Line'[i].op \in {"get", "expire"}
        <5>1. i \in 1..Len(Line')
          BY <1>t
        <5>2. CASE i \in 1..Len(Line) - 1
          <6>1. i + 1 \in k + 1..Len(Line)
            BY <1>t, <5>2
          <6> QED BY <2>2, <2>6, <5>2, <6>1
        <5>3. CASE i = Len(Line) /\ Len(Line') = Len(Line)
          BY <2>2, <5>3, CommandsMade
        <5> QED BY <2>3, <5>1, <5>2, <5>3
      <4>7. DelAt(k - 1)'
        BY <4>1, <4>4, <4>5, <4>6 DEF Del
      <4> HIDE DEF Drained, DelAt
      <4> QED BY <1>h, <1>n, <2>4, <4>1, <4>3, <4>7
    <3> QED BY <3>1, <3>2
  <2> HIDE DEF Drained, DelAt
  <2> QED BY <1>d, <2>5, <2>6
<1>5. ASSUME NEW c \in Calls, Loaded(c) PROVE HasExpired'
  <2>1. /\ call' = [call EXCEPT ![c] = NONE]
        /\ UNCHANGED <<mem, pipe, granted, expired, redis, left>>
    BY <1>5, <1>n DEF Loaded
  <2>2. \A d \in Calls : call'[d] = call[d] \/ call'[d] = NONE
    BY <1>t, <2>1
  <2> QED BY <1>s, <2>1, <2>2
<1>6. CASE Reject(Home) \/ ReplyLost(Home) \/ Crash(Home)
  BY <1>6 DEF Reject, ReplyLost, Crash, OnlyHome
<1>7. CASE UNCHANGED vars
  BY <1>7, <1>s DEF vars
<1> QED BY <1>1, <1>2, <1>3, <1>4, <1>5, <1>6, <1>7, <1>8, <1>9 DEF Next, OnlyHome

(* A process that shares its sessions with none, and whose Redis commands   *)
(* succeed, ends a session once: it is resumed for one call or expires,     *)
(* however many calls, sweeps and saves there are in between.               *)
THEOREM OneOutcomeAlways == OnlyHome => (Spec => []SessionsHold)
<1> SUFFICES ASSUME OnlyHome PROVE Spec => []SessionsHold
  OBVIOUS
<1>1. Init => OutcomeInv
  <2> SUFFICES ASSUME Init PROVE OutcomeInv
    OBVIOUS
  <2>1. DurableInv
    BY DurableInit
  <2>2. mem[Home] = [state |-> "active", queue |-> 0] /\ mem[Home] # NONE
    BY HomeAssumption, NoneAssumption, BoundAssumption DEF Init, Session, State
  <2>4. NotResumed
    <3>1. Len(Line) = 0
      BY HomeAssumption DEF Init, Line
    <3> QED BY <2>2, <3>1 DEF Init, NotResumed
  <2> QED BY <2>1, <2>4 DEF OutcomeInv
<1>2. OutcomeInv /\ [Next]_vars => OutcomeInv'
  <2> SUFFICES ASSUME OutcomeInv, [Next]_vars PROVE OutcomeInv'
    OBVIOUS
  <2>1. TypeInv /\ SuspendedAfterLeft
    BY DEF OutcomeInv, DurableInv, TypeInv
  <2>2. DurableInv'
    BY DurableStep DEF OutcomeInv
  <2>3. NotResumed' \/ WasResumed' \/ HasExpired'
    BY <2>1, FromNotResumed, FromWasResumed, FromHasExpired DEF OutcomeInv
  <2> QED BY <2>2, <2>3 DEF OutcomeInv
<1>3. OutcomeInv => SessionsHold
  <2> SUFFICES ASSUME OutcomeInv PROVE OneOutcome
    BY DEF SessionsHold, OutcomeInv, DurableInv
  <2>1. CASE NotResumed
    BY <2>1, FS_EmptySet DEF NotResumed, OneOutcome
  <2>2. CASE WasResumed
    <3>1. PICK c \in Calls : granted \subseteq {c}
      BY <2>2 DEF WasResumed
    <3>2. granted = {} \/ granted = {c}
      BY <3>1
    <3>3. Cardinality({}) = 0 /\ Cardinality({c}) = 1
      BY FS_EmptySet, FS_Singleton
    <3>4. expired = 0
      BY <2>2 DEF WasResumed
    <3>5. Cardinality(granted) = 0 \/ Cardinality(granted) = 1
      BY <3>2, <3>3
    <3> QED BY <3>4, <3>5 DEF OneOutcome
  <2>3. CASE HasExpired
    BY <2>3, FS_EmptySet DEF HasExpired, OneOutcome
  <2> QED BY <2>1, <2>2, <2>3 DEF OutcomeInv
<1> QED BY <1>1, <1>2, <1>3, PTL DEF Spec
=============================================================================
