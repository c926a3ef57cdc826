------------------------------- MODULE Registry -------------------------------
(***************************************************************************)
(* adapters/RedisAdapter.js: the registry of one room in the Redis that    *)
(* several processes share, and the view of it that one more process keeps *)
(* from the events on the bus.                                             *)
(*                                                                         *)
(* Each join and each departure starts a chain of awaited commands.  A     *)
(* process sends its commands over one connection, so they run in the      *)
(* order they were issued; the next command of a chain is issued when its  *)
(* predecessor has replied, behind what other chains have issued meanwhile. *)
(* A command that is rejected, executed or not, ends its chain in .catch.   *)
(***************************************************************************)
EXTENDS Naturals, Sequences, FiniteSets

CONSTANTS
  Clients,
  Procs,      \* processes with an adapter
  Failures    \* bounds the commands that are rejected

ASSUME PeersAssumption == IsFiniteSet(Clients) /\ IsFiniteSet(Procs)
ASSUME PlacesAssumption == Procs \cap {"outside", "gone"} = {}

VARIABLES
  ttl,        \* options.peerTtl is not 0: fixed
  place,      \* of each peer: not joined yet, its process, or gone
  pipe,       \* commands of each process not executed yet
  hash,       \* peers in the hash of the room
  volatile,   \* the hash has a TTL
  index,      \* the room is in the index of active rooms
  remote,     \* members by the remote:peer:joined and remote:peer:left events
  crashed,    \* history: a process has stopped without notice
  failed      \* history: commands that were rejected

registry == <<hash, volatile, index>>
vars == <<ttl, place, pipe, registry, remote, crashed, failed>>

JoinOps == {"hSet", "sAdd", "expire", "joined"}
LeaveOps == {"hDel", "hLen", "del", "sRem", "left"}
Command == [op : JoinOps \cup LeaveOps, peer : Clients]

TypeOK ==
  /\ {ttl, volatile, index, crashed} \subseteq BOOLEAN
  /\ place \in [Clients -> Procs \cup {"outside", "gone"}]
  /\ pipe \in [Procs -> Seq(Command)]
  /\ hash \subseteq Clients /\ remote \subseteq Clients
  /\ volatile => ttl /\ hash # {}
  /\ failed \subseteq Command

Init ==
  /\ place = [p \in Clients |-> "outside"]
  /\ pipe = [h \in Procs |-> << >>]
  /\ hash = {} /\ remote = {} /\ failed = {}
  /\ ttl \in BOOLEAN
  /\ volatile = FALSE /\ index = FALSE /\ crashed = FALSE

Members == {p \in Clients : place[p] \in Procs}

Issue(h, commands) == pipe' = [pipe EXCEPT ![h] = @ \o commands]

-----------------------------------------------------------------------------
(* peer:joined *)
Register(p, h) ==
  /\ place[p] = "outside"
  /\ place' = [place EXCEPT ![p] = h]
  /\ Issue(h, <<[op |-> "hSet", peer |-> p]>>)
  /\ UNCHANGED <<ttl, registry, remote, crashed, failed>>

(* peer:left, once or twice in one callback *)
Deregister(p) ==
  /\ p \in Members
  /\ place' = [place EXCEPT ![p] = "gone"]
  /\ \E times \in 1..2 :
       Issue(place[p], [i \in 1..times |-> [op |-> "hDel", peer |-> p]])
  /\ UNCHANGED <<ttl, registry, remote, crashed, failed>>

(* The process is gone, with the peers it had. *)
Crash(h) ==
  /\ crashed' = TRUE
  /\ place' = [p \in Clients |-> IF place[p] = h THEN "gone" ELSE place[p]]
  /\ pipe' = [pipe EXCEPT ![h] = << >>]
  /\ UNCHANGED <<ttl, registry, remote, failed>>

-----------------------------------------------------------------------------
(* Redis executes a command of h; rest is what the process has issued       *)
(* behind it and next what its chain issues upon the reply, unless the      *)
(* reply is an error.                                                       *)

IsRejected(h, rest) ==
  /\ Cardinality(failed) < Failures
  /\ pipe' = [pipe EXCEPT ![h] = rest]
  /\ failed' = failed \cup {Head(pipe[h])}

Then(h, rest, op, p) ==
  \/ /\ pipe' = [pipe EXCEPT ![h] = Append(rest, [op |-> op, peer |-> p])]
     /\ UNCHANGED failed
  \/ IsRejected(h, rest)

End(h, rest) == pipe' = [pipe EXCEPT ![h] = rest] /\ UNCHANGED failed

HSet(h, p, rest) ==
  /\ hash' = hash \cup {p}
  /\ Then(h, rest, "sAdd", p)
  /\ UNCHANGED <<volatile, index, remote>>

SAdd(h, p, rest) ==
  /\ index' = TRUE
  /\ Then(h, rest, IF ttl THEN "expire" ELSE "joined", p)
  /\ UNCHANGED <<hash, volatile, remote>>

SetExpiry(h, p, rest) ==
  /\ volatile' = (hash # {})
  /\ Then(h, rest, "joined", p)
  /\ UNCHANGED <<hash, index, remote>>

(* The hash goes with its last field. *)
HDel(h, p, rest) ==
  /\ hash' = hash \ {p}
  /\ volatile' = (volatile /\ hash' # {})
  /\ Then(h, rest, "hLen", p)
  /\ UNCHANGED <<index, remote>>

HLen(h, p, rest) ==
  /\ Then(h, rest, IF hash = {} THEN "del" ELSE "left", p)
  /\ UNCHANGED <<hash, volatile, index, remote>>

Del(h, p, rest) ==
  /\ hash' = {} /\ volatile' = FALSE
  /\ Then(h, rest, "sRem", p)
  /\ UNCHANGED <<index, remote>>

SRemEndsChain(h, p, rest) ==
  /\ index' = FALSE
  /\ End(h, rest)
  /\ UNCHANGED <<hash, volatile, remote>>

SRem(h, p, rest) ==
  /\ index' = FALSE
  /\ Then(h, rest, "left", p)
  /\ UNCHANGED <<hash, volatile, remote>>

(* _publish: a subscriber hears the events in the order Redis has them. *)
Announce(h, members, rest) ==
  /\ remote' = members
  /\ End(h, rest)
  /\ UNCHANGED <<hash, volatile, index>>

Execute(h) ==
  /\ pipe[h] # << >>
  /\ LET p == Head(pipe[h]).peer
         op == Head(pipe[h]).op
         rest == Tail(pipe[h])
     IN \/ op = "hSet" /\ HSet(h, p, rest)
        \/ op = "sAdd" /\ SAdd(h, p, rest)
        \/ op = "expire" /\ SetExpiry(h, p, rest)
        \/ op = "hDel" /\ HDel(h, p, rest)
        \/ op = "hLen" /\ HLen(h, p, rest)
        \/ op = "del" /\ Del(h, p, rest)
        \/ op = "sRem" /\ SRem(h, p, rest)
        \/ op = "joined" /\ Announce(h, remote \cup {p}, rest)
        \/ op = "left" /\ Announce(h, remote \ {p}, rest)
        \/ IsRejected(h, rest) /\ UNCHANGED <<registry, remote>>
  /\ UNCHANGED <<ttl, place, crashed>>

(* The TTL of the hash: the fields of all peers go with it. *)
Expire ==
  /\ volatile
  /\ hash' = {} /\ volatile' = FALSE
  /\ UNCHANGED <<ttl, place, pipe, index, remote, crashed, failed>>

Next ==
  \/ \E p \in Clients : Deregister(p) \/ \E h \in Procs : Register(p, h)
  \/ \E h \in Procs : Execute(h) \/ Crash(h)
  \/ Expire

Spec == Init /\ [][Next]_vars

-----------------------------------------------------------------------------
Pending(op, p) ==
  \E h \in Procs : \E i \in 1..Len(pipe[h]) : pipe[h][i] = [op |-> op, peer |-> p]

Quiet == \A h \in Procs : pipe[h] = << >>

Failed(ops, p) == \E cmd \in failed : cmd.op \in ops /\ cmd.peer = p

(* While no process crashes, a peer that is in the hash without being in    *)
(* the room is about to be removed, however its join, its departure and     *)
(* those of others interleave, unless its own hDel was rejected: a command  *)
(* of another peer that fails leaves no ghost (_registerPeer,               *)
(* _deregisterPeer).                                                        *)
NoGhosts ==
  ~crashed => \A p \in hash \ Members : Pending("hDel", p) \/ Failed({"hDel"}, p)

(* With peerTtl 0, a process that follows the events of the bus knows the   *)
(* members once the commands are done: no joined overtakes its left.  It    *)
(* misses one only by a rejected command of that peer's own join, and keeps *)
(* one only by one of its own departure.                                    *)
RemoteAgrees ==
  ~ttl /\ ~crashed /\ Quiet =>
    /\ \A p \in Members \ remote : Failed(JoinOps, p)
    /\ \A p \in remote \ Members : Failed(LeaveOps, p)

RegistryHolds == TypeOK /\ NoGhosts /\ RemoteAgrees
=============================================================================
