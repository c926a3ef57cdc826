# webrtc-rooms: verification project

TLA+ models of the server in `src/src`, checked with TLC on small instances
and, where a theorem says so, proved with TLAPS for every instance.

webrtc-rooms is a Node library: one process runs a WebSocket signaling server,
and a set of optional parts attach themselves to its events. Node runs one
callback at a time, so inside a process nothing is preempted; what interleaves
is the callbacks (frames, close events, timers, continuations after an
`await`), and, for the parts that share a Redis, the processes.

## 1. The system

### The core

| part | state | operations |
|---|---|---|
| `SignalingServer` | `rooms`, `peers`, `_reconnectTokens` | connection, join (RoomToken, awaited `beforeJoin`), reconnect, `createRoom`, `kick`, `close`, heartbeat |
| `Room` | `peers`, `metadata` | `addPeer`, `resumePeer`, `removePeer`, relaying of offer/answer/ice-candidate/data, metadata updates, leave |
| `Peer` | `state`, `socket`, `roomId`, `metadata`, `reconnectToken`, `_reconnectTimer`, `_sendQueue` | `send`, `replaceSocket`, `close`, the close event and the grace-period timer |

The server creates a `Peer` for each connection and waits for one message. A
join puts the peer in a `Room`, which subscribes to the peer's `signal`,
`disconnect` and `reconnected` events and never unsubscribes. A room's
`peer:left` and `peer:reconnected` are re-emitted by the server; the server's
own events (`room:created`, `peer:joined`, `peer:left`, `peer:reconnected`,
`room:destroyed`) are what every other part listens to. A dropped socket starts
a grace period in which the peer keeps its place and its messages are queued
(at most 32); a `reconnect` with its token splices the new socket into it.

Hard: what happens while a hook is awaited; the race of a reconnect, its token
and the grace timer; two peers on one socket after a splice; the queue's
limit; the order of the two `disconnect` listeners; peers closed without an
event. Correct when rosters, `Peer.roomId` and the map of rooms agree, capacity
holds, `peer:joined`/`peer:left` tell membership, a client lists exactly who is
there, a token works once, and a slot whose socket is gone is given back.

### The parts that listen to it

| part | state | hard behaviour | correct when |
|---|---|---|---|
| `core/SessionManager` | sessions by id, peer, token; a copy in Redis | `resume` awaits Redis twice; double `peer:left`; migration | one session per peer and per token, a token resumes once, no message queued for an absent peer is lost or repeated |
| `adapters/RedisAdapter` | a hash per room, an index of rooms, shared by processes | each handler is a sequence of awaited commands; TTL | the registry converges to the live peers |
| `adapters/RoomPersistence` | snapshots and an index in Redis | save and delete race; restore at start | a restored room is one that existed and was not destroyed |
| `reliability/EventReplay` | a bounded log, a set of seen events, a sequence number | eviction, reload, replay to a peer that returns | sequence numbers increase, nothing within the bound is lost |
| `reliability/BackpressureController` | load level | decisions on a sampled level; shedding closes peers directly | shedding takes the oldest without a role, and no others |
| `reliability/HealthMonitor` | breached SLOs | `report` consumes edges | each breach is followed by one recovery |
| `crypto/E2EKeyExchange` | a key per member, an enforcement timer | announcements against departures; keys of peers that are away | members know exactly the current keys of members |
| `moderation/ModerationBus` | locked rooms, muted peers, a log | the lock is tested before an awaited hook | nobody is admitted to a locked room |
| `auth/PolicyEngine`, `auth/RoomToken` | signed policies and tokens | expiry, capability checks | a peer has the capabilities of its policy |
| `compliance/ConsentFlow` | consents per peer, timers | partial grants, withdrawals, late joiners | nobody stays without the required consents |
| `compliance/RetentionPolicy` | records, legal holds | a hold placed while a purge awaits | a record under hold is not deleted unless the hold came too late |
| `compliance/DataResidency` | allowed regions | an awaited lookup per peer | no peer of a refused region stays |
| `security/ThreatDetector`, `middleware/RateLimiter` | counters, bans, windows | window edges, cleanup | a banned address stays out until its ban ends |
| `security/AuditLogger` | a log file and the stream that writes it | rotation by name while the stream opens and writes later, failed renames | no entry is lost or told twice by a rotation, entries are in the order of events |
| `recording/RecordingPipeline`, `adapters/RecordingAdapter` | an ffmpeg child per peer | start and stop race, exits before stop | one recorder per peer, each one ends |
| `sfu/SFUOrchestrator` | health and room count per region, assignments | overlapping health checks, failover | a room is on a region that is up, counts match assignments |
| `sfu/RegionRouter` | region per peer and room | awaited lookups that end after the peer left | no entry for an absent peer |
| `sfu/NativeSFUEngine` | producers, consumers and lists of producers per room id | signals of peers that left or of former rooms, snapshots against broadcasts, a destroyed room | clients know the producers of members and what they consume; a departure closes all of a peer's producers |
| `sfu/SFUInterface`, the Mediasoup and Livekit adapters | what the libraries keep | calls into libraries that are not in the repository | (external) |
| `sfu/AdaptiveBitrateController` | a score and a layer per consumer | hysteresis of upgrades | no upgrade before its hold time |
| `webhooks/WebhookDispatcher` | retries, dead letters | reordering by retries, late answers | what was given up is in the dead letters until others push it out |
| `observability/*`, `AdminAPI`, `admin/GovernanceEndpoints` | counters, spans, alerts | double events | counters match what happened |
| `config/*`, `turn/TurnCredentials`, `cli/*`, `index.js` | settings | none | (pure or I/O) |

## 2. The modules

```
Membership  <= implemented by =  Signaling  = implements =>  RoomLife  (the room as its listeners see it)
 (abstract)                          |                          |
                     SignalingProofs, SocketProofs              |= extended by => RoomLifeProofs
                                                                |
   E2EKeyExchange, NativeSFU  (each with its proofs)  <=========|
   Transports, Routing, Recording, RoomRecording, Metrics  <====|
   Consent, Moderation, Threats, Shedding  <====================|

Orchestrator, Layers, Alerts, Audit                   parts that know no room's members
Admission, Limits, Retention, Webhooks                guards and stores in one process
Sessions (with its proofs), Registry, Snapshots, Replay
                                                      parts with a Redis, crashes, several processes

MCMedia  = Orchestrator, Transports, Layers, Routing, Recording, RoomRecording, Alerts, Metrics, Audit
MCGuards = Admission, Limits, Consent, Moderation, Threats, Shedding, Retention, Registry, Snapshots, Replay, Webhooks
           (each with the proofs about its parts: MediaProofs, GuardsProofs)
```

`*Claims` modules state sentences of the documentation that the code does not
keep. In every module an operator that no action uses (`ClaimAfterDelete`,
`EvaluateForgets`, ...) is the operator below or above it with a plausible
mistake in it: putting it in the other's place must make TLC find a violation,
which shows that the property depends on that code.

`MCSignaling`, `MCE2EKeyExchange` and `MCNativeSFU` only add the symmetry sets.
`MCMedia` and `MCGuards` check several parts in one run. These parts share
nothing but the life of the room, and none reads what another keeps; so each
behaviour of the run is a behaviour of one part, chosen in the first state by
`part`, while the variables of the others stand still, and its property speaks
of that part (`part = "layers" => LayersHold`). The states checked are the
disjoint union of those of the parts, not their product; nothing about a part is
lost, and nothing is claimed about parts together.

### Signaling (`SignalingServer.js`, `Room.js`, `Peer.js`)

One action is one callback. `Connect`, `Join`, `Reconnect`,
`ReconnectRefused` and `WrongFirstMessage` are `_onConnection` and the first
message of a socket; `HookAllows` and `HookRefuses` are what follows the
`await` of `_handleJoin`; `Relay`, `UpdateMeta` and `Leave` are the branches of
`Room._handleSignal`; `CloseFrame` and `SocketClosed` are the close event of
`ws`, `GraceExpires` is the grace-period timer; `Kick`, `CreateRoom`,
`AppClose` (`Peer.close`, called by other parts) and `ServerClose` are the
public API. A handler that calls several others is one action with all they
change: `Reconnect` has `replaceSocket`, the flush of the queue, the room state
and the announcement of the return.

A connection, its socket and its peer have one name. `sock` is the socket a
peer uses, which a resume replaces, and as in the code the temporary peer keeps
its listeners on the socket it has given away (`OnSocket`). `sockSt` separates
`closing` (the server has called `close`, frames of the client are still read)
from `ending` and `closed`. `bound` is the Room object whose listeners a peer
carries, which is not its `roomId`: they are never removed. `view` is what
`examples/client.html` lists after the messages it was sent; messages are
applied to it when they are sent on an open socket, since a WebSocket keeps
their order. `joins` and `lefts` count the events of the server.

`Membership` is what the core promises: a room has at most `MaxPeers` members,
a peer joins one room once and leaves it once, and in between it is present,
away or stranded. `RoomLife` is the same for one room in the detail the
listening parts need: whether the socket of a member works, whether the room
object stands, and whose messages it still handles.

### E2EKeyExchange (`crypto/E2EKeyExchange.js`)

Extends `RoomLife`: each action is an action of the room with what the part
does in the same callback (`PeerJoined` = `Enter` and `_onPeerJoined`), or a
handler of its own (`Announce`, `Rotate`, `Request`, `Enforce`). `store` is the
map of keys, `timers` the enforcement timers, `held` what each client has been
told; `lapsed` remembers whose socket has not been open ever since it joined. Of
a broadcast each queue of an absent member may lose the message.

### NativeSFU (`sfu/NativeSFUEngine.js`, the subscribers of `sfu/AdaptiveBitrateController.js`)

Extends `RoomLife` as well. `producers`, `owned` (`peerProducers`) and
`consumers` are the SFU room of the id, `former` separates the producers of
rooms that are destroyed; `known` and `subscribed` are what the messages of the
engine let a client believe, `tracked` is what its events make the bitrate
controller keep. `PeerJoined` and `PeerLeft` are the listeners of the server,
`Publish`, `Subscribe` and `Unpublish` the branches of `_handleSFUSignal`, sent by
anyone a room still hears (`Speakers`), also one that was destroyed: the handler
takes the SFU room by its id, the broadcasts go to the Room object of the sender
(`Audience`). `foreign` remembers that a peer of a former room closed a
producer. Clients are followed while their socket is open (`steady`).

### Admission (`beforeJoin` of ModerationBus, BackpressureController, PolicyEngine, DataResidency)

`inward` is the order in which parts have wrapped `server.beforeJoin`, chosen
in `Init`; `stage` and `rest`, the parts that have still to look, are how far the
join of a peer has come. The first part wrapped is the innermost. Lock and load are looked at before the
wrapped hook, policy and region after it; the application's hook and the region
lookup are awaited, and everything may happen meanwhile.

### Sessions (`core/SessionManager.js`)

One session in several processes that share a Redis and the token secret:
`mem` is the copy each process has, `redis` the copy there, `pipe` the commands
a process has issued and Redis has not executed, `call` the calls of `resume`
and what each of them waits for. The session is created by `Home`. The `del` of a
resume is executed (`Delete`) and replied to (`Return`) in two steps, and a
crash, a rejected command (`Reject`) or a lost reply (`ReplyLost`) may come before
either: `cut` remembers that one came between the two. `Close` clears the interval,
so `Sweep` is of managers that are open.

### Orchestrator (`sfu/SFUOrchestrator.js`), Routing (`sfu/RegionRouter.js`)

`Orchestrator` has the entry of each region (`health`, `failed`, `passed`,
`initialized`, `load`) and `assigned`. Rounds of checks overlap, so `CheckPasses`
and `CheckFails` come at any time, and each is the whole callback behind the
awaited check: thresholds, failover of every room of the region, events.
Registration, assignment and `migrateRoom` are calls of the application.
`uncounted` remembers what failovers never subtract from a load. `Destinations`
are the regions a room may go to: the one asked for, or any of those least loaded,
since the order in which ties are broken is that of registration; `Spread` says
where the rooms of a failover end, whatever the order in which they are moved.

`Routing` has one room of `RoomLife`: the lookup each connection has under way,
the entry of each peer and of the room, and the copy in the room's metadata.

### Transports (`adapters/MediasoupAdapter.js`, `sfu/MediasoupAdapter.js`, `sfu/SFUInterface.js`)

Routers and transports are made by a worker process and awaited; closing them
is immediate. `making` holds the routers that were asked for and the handler
that waits for each; `setup` is how far the set-up of a peer has come, and `half`
that of its two transports one was made and the other was not, which the
`Promise.all` answers with an error while the first stays open. The two
adapters differ only in what a peer does that finds no router (`makesRouter`,
chosen in the first state). `RouterDies` takes routers away at any time.

### Layers (`sfu/AdaptiveBitrateController.js`)

One consumer: its score by reports of the browser and of lost packets, the
layer, the hold before an upgrade, decay, marks of speakers and screen shares,
forced layers. `Target` is the table of thresholds, `Evaluate` is
`_evaluateLayer`; time is what the hold tells apart (not set, ahead, reached).

### Recording (`recording/RecordingPipeline.js`), RoomRecording (`adapters/RecordingAdapter.js`)

`Recording` has sessions with their ffmpeg, the map of active ones and the loop
of `stopRoom`, which waits for one session after another. A start is two
actions, before and after the awaited spawn. `RoomRecording` has the adapter:
entries go when ffmpeg closes behind a stop; `startRoom` is a loop of starts
that stops at the first one that throws, `StopRoom` and `StopNext` the loop of
`stopRoom` over the set as it was at the call.

### Alerts (`reliability/HealthMonitor.js`, `observability/AlertManager.js`), Metrics (`observability/MetricsCollector.js`, `observability/Tracer.js`)

`Alerts` follows a value that misses its objective from the sample to the queue
of alerts: `EvaluateSLOs` is one pass over all objectives with each edge it
emits, and `Tell` takes these edges, in the order of the objectives, through
suppression and the queue in the same callback. `Metrics`
counts the server's events, departures that are announced twice and returns of
peers that have left (`Revives`) included.

### Consent (`compliance/ConsentFlow.js`), Moderation (`moderation/ModerationBus.js`)

Over `RoomLife`. `Consent` has the record of each peer and its timer;
`overdue` says that the time of a member is over, however its timer fares.
`Moderation` has mutes, the lock and what followed clients were told; `asking`
are the joins whose hook is awaited, past the test of the lock.

### Audit (`security/AuditLogger.js`)

`streams` are the write streams the process has made, with what each has
buffered; `files` are the files there have been, `path` the one at `_filePath`.
A rotation (`Rotates`) reads the size and renames at once, within the write of an
entry, while streams open (`Opens`) and write (`Appends`) at any later time, and
an ended stream that is not open yet will open whatever is at the path then.
Names of rotated files differ: two rotations in a millisecond would need a full
file in between.

### Limits (`middleware/RateLimiter.js`), Threats (`security/ThreatDetector.js`)

`Limits` counts the connections of one address and the messages of one peer in
ticks. What it compares with are ages, so time is what has passed since,
capped where no comparison tells it apart. `Threats` has the entries
the detector makes for a connection, from the first frame to the sweep, with
removals by departures and by a kick in the middle of the check of a frame.

### Shedding (`reliability/BackpressureController.js`)

`entries` is `server.peers` in the order of a JavaScript map, `joining` how far
the join of a connection has come, `shut` whom `Peer.close` has closed. A sample
measures, and at the highest level closes the oldest entries without a role, in
one callback (`Measure`): `ShedPeers` is the whole walk, which ends at the entry
with which as many are closed as are meant to be. A join that is refused is closed as well, and may be
let in by a hook that answers after it was shed. Roles come from the message
that joins, from a policy, and from any later metadata message, which may set or
drop `__role` (`ChangesRole`).

### Retention (`compliance/RetentionPolicy.js`)

Record objects (an id and a version), holds and the two loops of `purge` and of
the sweep; each goes through what it collected and waits for the hook of each
record. A record registered under an id in use is another object, which is why
a loop can delete the entry of a record it never looked at. `overlooked` has the
records a hold came too late for: a purge that has still to come to them had
collected them, or they had gone from the map, which `placeLegalHold` marks.

### Registry (`adapters/RedisAdapter.js`) and Snapshots (`adapters/RoomPersistence.js`)

Each handler is a chain of awaited commands. A command is executed in the order
its connection has them, and its execution issues the next of its chain behind
what other chains have issued meanwhile; commands of several processes
interleave freely. `Registry` has one room of several processes, with the
members another process derives from the bus. `Snapshots` has one room id, the
rooms made under it one after another, crashes at any point and `restore`. A command
of either may be rejected, whether Redis has executed it or not: its chain ends in
`.catch` with the rest undone (`failed`, `missed`). A process may have made the room
before `restore` and `attach`: restore skips it, and it is patched but not saved.

### Replay (`reliability/EventReplay.js`)

The log of each process, its numbers and hashes, the writes to the sorted set
(`zAdd`, `zCard`, `zRemRangeByRank`, each awaited) and `loadFromRedis`, which
appends those events of the answer that the log does not know (`Unknown`). A crash
empties the process; Redis keeps what was executed.

### Webhooks (`webhooks/WebhookDispatcher.js`)

Each delivery with its attempts; a request that timed out may still arrive
(`straying`). A listener of `delivery:success` that throws lands in the `.catch` of
the attempt: `Succeeds` may end as a failure of an event that was delivered. The dead
letters are an array or a Redis list that is pushed to and then trimmed, each
awaited and each may fail; their size is any up to the bound, 0 included.

## 3. The runs

| run | module | bounds | shows |
|---|---|---|---|
| `resume` | `MCSignaling` | 3 connections, 1 room of 2 that stays when it is empty, queue of 1, 2 metadata values | drops, resumes and kicks: clients list exactly who is there, with their metadata (`ViewExact`) |
| `hooks` | `MCSignaling` | awaited hook, direct closes, server close | `RosterAgrees`, capacity, events; implements `Membership` and `RoomLife` |
| `live` | `MCSignaling` | 3 connections, 1 room of 2, fair timers | two members never share a socket, a token moves its peer once, a first drop can be resumed, a slot is always held by something that will end, and is resumed or given back; implements `Membership` with its fairness |
| `e2e` | `MCE2EKeyExchange` | 3 peers, 2 places, versions 1 and 2 | snapshots and broadcasts leave no gap (`KeysHold`); exactly the members without a key have a timer (`Enforced`) |
| `sfu` | `MCNativeSFU` | 3 peers, 3 places, 3 publications | clients and the bitrate controller agree with the engine (`ProducersExact`, `ConsumersExact`, `TrackedExact`); nothing of a departed member stays |
| `sessions_one` | `Sessions` | 1 process, 3 calls, queue of 2 | a session has one outcome (`SessionsHold`) and leaves Redis (`RedisDrains`) |
| `sessions_shared` | `Sessions` | 2 processes, 2 calls, no queue, one manager closed, crashes, rejected commands, lost replies | a saved session is durable (`Durable`); nothing stays suspended in the memory of an open manager (`SuspendedEnds`) |
| `media` | `MCMedia` | 2 peers, 2 rooms, 2 regions, 3 routers, 3 recordings, 2 objectives, 5 audit entries, 1 restart | the media parts and those for the operator, a property for each; the two recorders share one, and so do the gauges and the audit log (`OrchestratorSafe`, `LayersSafe`, ..., `TelemetrySafe`) |
| `guards` | `MCGuards` | 3 peers, 4 parts of the chain in all 24 orders, 2 processes, 3 events, 3 records under 2 ids, 1 rejected command | the eleven guards and stores, one property each (`AdmissionSafe`, `RegistrySafe`, ...) |
| `claim_dropped` | `SignalingClaims` | as `resume` | violated: see section 6 |
| `claim_registered` | `RegistryClaims` | 2 peers, 1 process | violated: see section 6 |
| `claim_trim` | `ReplayClaims` | 1 process, 4 events, capacity 2 | violated: see section 6 |

Why these bounds. Three connections are two members and a newcomer, or a
member, its second socket and a bystander; a second resume needs a third
socket. A room of two lets the third be refused. A queue of one overflows, one
of zero (`hooks`, `live`) loses everything, and the code's 32 differs only in when it does. Two
keys of a version would not be told apart by any property; a rotation is told
by its version. A second process is enough for a copy that is not the home's,
and two commands of different chains interleave on one connection already.
Only the home process closes its manager, since a copy elsewhere ends as it does
when that process crashes. `sessions_shared` has no queue, which `sessions_one` has.
Three publications are one per peer, or two rooms with one of a former and
two of the present; a fourth repeats one of them.

The bounds of `Media`. Two rooms in two regions let one be moved while the other
is assigned; loads are followed up to 2, behind which rooms neither come nor
move; the default region is none of the registered, so that the least loaded is
taken wherever no region is asked for. Thresholds are the code's (degraded at 3, down at 5, recovered at 2).
Scores are the three the code starts with, reports are one per band of the
layers. Three routers are one per room of three rooms that follow one another
under an id, or three requests of one room; a worker's death needs a second. Three
sessions or recordings are one that ends, one that overlaps it and one more. A
queue of alerts of 2 overflows, and two bad values tell a breach with the same
context from one with another. A buffer of spans of 2 holds both peers, of 1 drops
the older. Five entries, each of which fills a file, rotate it
several times before and after a restart.

The bounds of `Guards`. Seconds, minutes and bans are 1, 2 and 1 ticks, so that
windows overlap; limits of 1 per second and 2 per minute make both decide; two
connections are more than one. A cap of two peers is reached before the third
connects, the heap asks for the levels in between, and a twentieth of three is one. Two consent types, one of them required, tell a
partial grant from a full one. Three records under two ids let a loop wait for one
while another is on its list, and that one be replaced, held or removed meanwhile.
Two rooms under an id let the chains of the first be under way when the second is
made, before or after a restart. One rejected command of the registry cuts any chain
short; those of snapshots are not bounded. Three events
overflow a log of two; two reloads put one behind recorded events twice. One
retry and a size of 0, 1 or 2 for the dead letters let an answer be late and an
entry be pushed out.

`CHECK_DEADLOCK FALSE` everywhere: the instances have finitely many connections,
calls, rooms, sessions or events, and when they are used up nothing need happen any more.

Fairness. `live`: the grace timer fires (Node's timers) and a closing handshake
ends (the closing timeout of `ws`); nothing is assumed of clients, hooks or the
application. Sessions: time passes, the sweep's interval recurs, a command sent to
Redis is executed, a loaded session or the reply to a `del` is continued with, and
Redis evicts what has a TTL. The sweep is fair only while its manager is open, as
`close` clears its interval. `SuspendedEnds` holds with crashes and rejected
commands, `RedisDrains` is
checked without them: a failed `expire` really leaves a key without a TTL.
All of it is weak fairness.

## 4. The proofs

The theorems hold for any number of connections, rooms, keys, producers,
capacities and queue lengths, from the named assumptions on the constants. Five
have a hypothesis of their own (`Forget`, no hook and no direct close, one room that
is destroyed when it empties, one process, plain answers), said below.
`RoomLifeProofs` has what every step of a room preserves, for the proofs about
the modules over it.

* `SignalingProofs!TypeCorrect`. One lemma per part of a handler (what a send, a
  removal, an addition does to the types), then one step per action.
* `RosterAlwaysAgrees`, `CapacityAlwaysRespected`, `EventsAlwaysTellMembership`.
  The inductive invariant is `IInv`: types, rosters, capacity, the counts of
  events and `JoinsAtMostOnce`. None of them is inductive alone: that a join adds
  one to `joins` of a peer that had none needs that no peer joins twice, which
  needs that the once-listener and the pending hook exclude each other; that a
  departure is told exactly once per member needs the rosters to agree with
  `roomId`. `StepKinds` reduces the actions to three kinds of step as far as
  membership goes (nobody, one peer enters, one exits); the conjuncts are proved
  over the kinds.
* `SocketProofs` continues from `IInv` with `SockInv`, what can be said of
  sockets: a temporary peer that gave its socket away never had a place and gets
  none, and the peer it gave it to has spent its token (`SocketsMoveOnce`); the
  grace period runs on a dead socket, against a peer with a token
  (`GraceOnDeadSocket`); a token is indexed until it is spent (`TokensIndexed`);
  the server forgets a peer that joined only with its socket
  (`ForgottenOnDeadSocket`). From it follow `TokenAlwaysOneTime`,
  `SocketAlwaysExclusive` and `FirstDropAlwaysResumable`, with no assumption.
* `SlotAlwaysHeld` assumes `~Hook` and `~Closes`, as its run does: with either the
  code leaves slots that nothing ends (section 6). It needs besides that without
  hooks none is pending.
* `ViewAlwaysExact` assumes `Forget`, that a client which leaves forgets its token:
  one that does not can be resumed into a room it has left. It needs that whoever
  kept a token is inside or closed for good (`HoldersInside`).
* `MembershipImplemented` and `RoomLifeImplemented` are the refinements, the second
  for rooms that are destroyed when they empty and one room, which is what
  `RoomLife` is about (the hypothesis). Together with `OnlySpeakersHeard` it lets the parts over
  `RoomLife` speak of the core. `OneGoneAtMost` is why `SocketClosed`, an action for
  none and for one disconnected peer, leaves no closing socket out.

* `E2EProofs!TypeCorrect` and `AlwaysEnforced`. `Enforced` is strengthened with:
  a peer that has not joined has no key and no timer (`Unheard`), and every
  member belongs to a room that stands (`Standing`), without which an
  announcement would be refused by an absent store while its timer runs on.
* `E2EProofs!AlwaysKeysHold`. `KeysExact` and `NeverAhead` speak of members; over
  a join they need that no key of a stranger is stored or held and that a
  stranger holds nothing (`Strangers`), over a return that a member that was
  away is marked so (`AwayLapsed`), over an announcement that the room hears its
  members (`Heard`), whom the broadcast then leaves out of none.

* `NativeSFUProofs`: all five properties of `NativeSFU`. The shared invariant is
  `Base`: a followed client is a member whose socket is open and nothing is
  recorded of others (`Followed`), a peer that has not joined has neither
  producers nor consumers (`Unheard`), `peerProducers` names every open producer
  of a peer (`Owned`), and the room that stands hears its members (`Heard`).
  Without `Unheard` a peer could join with producers that no client was told of
  as those of a member; without `Heard` a broadcast could miss a member;
  `TrackedExact` needs besides that ids grow (`Numbered`), so that what a
  destroyed room left is told from what the new one has.

* `SessionsProofs!AlwaysDurable` holds with crashes, rejected commands, lost
  replies and any number of processes. That a saved session stays in Redis until
  the `del` of a resume has removed it for a call that returns it, or that was cut
  off at that point (`cut`), or its time is over, needs that a command which a call of `resume` waits for is
  awaited by that call alone (`CallsAwaited`), that nothing is suspended anywhere
  before the peer has left (`SuspendedAfterLeft`), and that a `del` nobody waits for
  follows an expiry (`DelsAreLate`).
* `OneOutcomeAlways` assumes `OnlyHome`: one process, which neither crashes nor
  loses commands; with two the code resumes a session twice. Its invariant says
  what a session has come to: `NotResumed`, `WasResumed` (one call waits for its
  `del` or has returned, and no other can find it) or `HasExpired` (the saves under
  way are ahead of the `del`, the gets behind it, so that none loads it again).

* `MediaProofs` has every property of the run `media`. The strengthenings:
  `LayersSafe` needs that no hold is reached while an upgrade is recent
  (`HoldBeginsAnew`). `RoutingSafe` needs that router and metadata agree also
  while there is no room (`RegionsAgree`). `TransportsSafe` needs that routers that are asked
  for are known to nobody and each to one request (`RequestsFresh`), that a peer
  waits for one at most (`WaitingForOne`), whose set-ups are under way
  (`SetupsExplained`), that transports are in open routers (`HeldInOpen`), and that
  pairs of which both were made outlive their peer in two of the three windows only
  (`HeldExplained`).
  `RecordingsSafe` needs what is known of a session in each state
  (`SessionsRight`, `ActiveRight`), that starts of one peer which overlap are marked
  (`StartsOverlap`), and that `stopRoom` waits for sessions that record no more
  (`SweepsStopped`); of the other recorder, that ffmpeg runs for entries only
  (`FfmpegRight`). `TelemetrySafe` needs of the gauges that an announcement too many
  is not forgotten (`GaugesFollow`), of the traces that everybody inside has one
  (`SpansFollow`), and of the audit log that the path names the newest file
  (`NewestWrites`), that older streams hold older entries (`BuffersInOrder`) and
  write into older files or had not opened (`FilesApart`), and how what is buffered
  compares with what is written (`BufferedBehind`). `OrchestratorSafe` and
  `AlertsSafe` are inductive; the first rests on counting the rooms at a region when
  one moves or all of a region do, the second on what the tail of a queue keeps.

* `GuardsProofs` has every property of the run `guards`. `ConsentSafe` needs that
  the time of a newcomer is not over (`TimeBeginsAtJoin`). `ModerationSafe` needs
  that nobody begins to ask while the lock stands (`AskedBefore`), and that the
  mutes of a former room are dropped only when nobody is there to miss it
  (`Standing`). `ThreatsSafe` needs that an open connection is counted also before it
  joins (`OpenAreCounted`). `AdmissionSafe` needs which parts a join that waits has
  passed (`Looked`), and assumes `AnswersPlainly`: the application's hook returns
  `true` or refuses. `LimitsSafe` is `WindowKept`: of what was let through as many
  are counted in the present window as began in it, and those before it that are
  younger than a window are of one window. `SheddingSafe` needs that the victims
  without a role are among the first entries, those without one at most a twentieth
  of the peers (`AmongFirst`), and that only a late hook takes `CLOSED` from one (`ShutOrIn`).
* The stores are chains of commands, and their invariants speak of where in a pipe
  the commands of a peer or a room are. `RegistrySafe`: commands are in the pipe of
  the process of their peer (`CommandsPlaced`, `OneHome`), the `hDel` of a departure
  is behind the `hSet` of the join unless it was rejected (`SetsAhead`), and without a TTL the chain of the
  join stays ahead of that of the departure, since each round of the pipe takes a
  step of each (`NoOvertaking` by `StepsLeft`). `SnapshotsSafe`: the chain that began
  last has the last word (`LastWord`), deletions of former rooms are ahead of the
  saves of the present one (`DeletionsAhead`), and an event says what Redis holds
  (`EventsMeant`); the last word is claimed where no command was rejected since the chain began
  (`missed`), the other two always. `RetentionSafe`: the record under an id is the last one
  registered (`RecordsMeant`), what a loop may still destroy of a subject under a hold
  is a record the hold came too late for (`HoldsMissed`), and a loop waits for the
  hooks of expired records only (`AwaitedExpired`). `WebhooksSafe`: no endpoint handles more requests than were
  sent (`RequestsMeant`), the dead letters are in order, and a letter is in them, on its
  way, lost, or pushed out by as many newer ones as there are places, none of which a
  Redis list with a size of 0 ever does (`LettersPlaced`, `LettersKept`). `ReplaySafe`: the hashes seen are those of the log, each once
  (`LogHolds`), and the log is in order unless a reload came behind recorded events
  (`InRuns`).

The assumptions on constants are those named in the modules (finite sets, limits
of at least one, an absent value that is none of the present ones). The type
invariants of `Signaling`, `E2EKeyExchange` and `NativeSFU`, and
`JoinsAtMostOnce`, are checked by these proofs and no longer by a run; that of any
other module is a conjunct of its run's property.

Every invariant and every action property of a passing run, and both refinements
of the core without their fairness, are stated by a theorem. Only model-checked are
the liveness properties: `SlotIsReleased`, `RedisDrains`, `SuspendedEnds`, and the
fairness of `Membership` in `ImplementsFairMembership`. They rest on fairness,
which is about `ENABLED`, and that is out of the prover's reach. The hypotheses of
theorems are those of the runs; without them the properties are not claimed, because
the code does not keep them (section 6).

## 5. The plan

The proofs planned for the modules there are have been made. What may follow:

* `RoomLifeImplemented` for one room of several, with the peers of the others as
  outsiders;
* routing between processes (RedisAdapter, `_patchRoom` and
  `_handleRemoteRoute`) composed with two rooms of the core, with an abstract
  specification of delivery, and its proof;
* an abstract register for the stores (`Registry`, `Snapshots`) that their chains
  implement when nothing fails.

## 6. What the models show about the code

Three sentences of the documentation or of comments have a run that refutes
them:

* `claim_dropped`. `_handleReconnect` deletes the token (SignalingServer.js:483)
  and issues no other, so a peer that drops a second time cannot be resumed; its
  slot is held for the grace period all the same.
* `claim_registered`. `_deregisterPeer` deletes the hash after an `hLen` of 0
  (RedisAdapter.js:370); who joins in between is a member the registry never
  lists.
* `claim_trim`. Each write of EventReplay counts the set and removes the surplus
  it was told (EventReplay.js:326); two writes under way remove the same surplus
  twice, and Redis has fewer events than the log.

Modelled as the code has it, seen in the state graphs, and the reason why some
property is weaker than its first wording:

* a peer whose socket closes while its hook is awaited is added to the room and
  stays there as a ghost: `peers` no longer has it, no timer runs (`SlotIsHeld`
  and `SlotIsReleased` are stated without hooks);
* a peer closed by `Peer.close` keeps its place and its entry in
  `server.peers`, since the close event then returns early (stranded); a kicked
  peer leaves its room and keeps its entry;
* a peer that left a room is still heard by it (`Speakers`), and can be resumed
  by name of a room it is no longer in; the token index keeps expired peers;
* a departure by expiry is announced twice by the server, a return twice;
* keys announced by a peer that has left stay until the room is destroyed;
  rotations are not repeated for a member that was away (`NeverAhead` instead
  of equality);
* `unpublish` asks neither who published the producer nor for which room: any
  peer that is still heard can close it, and one bound to a former room of the id
  closes it without the members being told by broadcast (`foreign`);
* consumers of a subscriber that has left stay until the producer is closed, and
  the bitrate controller keeps entries of consumers that a destroyed room dropped
  (`TrackedExact` leaves those out);
* a lock set while a hook is awaited does not keep the peer out; a hook that
  answers a truthy value other than `true` makes PolicyEngine skip its policy
  (`EveryPartLooked` is checked for hooks that answer `true`); the level HIGH
  does not refuse joins that make rooms, as the comment at
  BackpressureController.js:21 has it;
* two processes can both resume one session, a second save can restore what a
  resume has deleted, messages queued after the save stay with the home, and a
  migrated session is refused by every `resume` (`OneOutcome` is checked for
  one process);
* a crash, a rejection or a lost reply between the `del` of a `resume` and its return
  loses the session: Redis has it no more, and no call has resumed it (`cut`). The
  peer is one whose client waits for a reply, so a retry finds nothing
  (SessionManager.js:195-202). A process whose manager was closed keeps what it holds,
  since nothing sweeps it (SessionManager.js:297), and an `expire` that is rejected
  leaves the key without a TTL;
* with `peerTtl` other than 0 members vanish from the registry when nobody
  joins for that long, and a `left` can overtake its `joined` on the bus
  (`RemoteAgrees` is stated for 0). A rejected `hDel` leaves a ghost in the hash
  without any crash, and a rejected `publish`, or any command before it, a member that
  other processes miss or keep (`Failed`): nothing is tried again;
* a room made before `attach`, or skipped by `restore`, is patched but not saved, and
  has no snapshot until its first change; a rejected save or deletion stays undone
  until the next of the id (`missed`);
* a failover moves rooms without taking them off the count of the failed region,
  and a second assignment of a room counts it twice (`LoadExplained` says by how
  much); `migrateRoom` asks neither whether the room exists nor whether the
  region has come up; a room that no region is asked for goes where the load is
  least, also to a degraded region, although the comment at SFUOrchestrator.js:351
  puts healthy ones first;
* RegionRouter writes the region of a room into its metadata after
  `room:created`, at which SFUOrchestrator has already read it: the routed
  region decides nothing there. A lookup that ends after its peer has left makes
  an entry that stays (`late`);
* `adapters/MediasoupAdapter.attach` listens to the messages of rooms that exist
  at that moment and of no other; a set-up that ends after its peer or its room
  has gone leaves a transport or a router, and overlapping set-ups replace each
  other; of two transports made by one `Promise.all`, the one that was made stays open
  and known to nobody when the other fails (MediasoupAdapter.js:358-361 of the
  adapters, 176-179 of the SFUs). These three windows are all (`LeaksExplained`);
* a start of a recording that overlaps another start, a departure or a `stopRoom`
  leaves a recorder that nobody stops (`overlapped`, `struck`, `missed`);
* `RecordingAdapter.stopRoom`, whose comment says "Stops all active recordings for a
  room" (RecordingAdapter.js:358), stops those of its set, and passes by others
  (`alone`): joiners, which are recorded with the room (lines 320-321) but not listed;
  peers recorded by `startPeer`; and those of a set that a second `startRoom`, also
  one that throws at a member that is recorded, or an earlier `stopRoom` has dropped. A
  joiner is not recorded any more once the last listed recording has closed. And for a
  recorder that had closed before it was stopped `stopRoom` waits for ever (`crashed`):
  those behind it are not stopped, although lines 361-362 say that failures "do not
  abort the remaining stops";
* a score that falls back leaves the upgrade hold where it was, so that the next
  rise can upgrade at once; but never twice within a hold (`UpgradesApart`);
* a breach with the value of an earlier one is suppressed, and so its recovery
  may be the first that is told (`hushed`); the gauge of a room counts a
  departure twice that is announced twice (`doubled`); a peer that is resumed after it
  has left (SignalingServer.js:476, 497) has a trace again (Tracer.js:165-167), which
  nothing ends (`revived`);
* any grant of a member, also a partial one, stops the timer that would remove
  it (`spoke`);
* data of a subject under a hold is destroyed in two cases (`overlooked`), against
  "Held records are excluded from automatic and manual purges"
  (RetentionPolicy.js:131-132): a purge does not look at a hold placed after it has collected its
  records; and `placeLegalHold` marks the records in the map, not one that was
  replaced or removed while a loop has it on its list. A loop deletes the entry
  of a record registered while its hook was awaited (`dropped`);
* fixed windows let twice the limit through at their edges (`AtMostTwice`);
* shedding and refused joins close connections with `Peer.close`, which leaves
  their entries in `server.peers`: the load does not fall, and the next sample
  closes the same entries again (`ShedAreCounted`, `ShedAreFew`). A metadata message
  may set any key (Room.js:274-315), also `__role`: one that takes a role is passed by,
  and one that drops it comes on top of those shed in its place (`demoted`), so that
  more than the twentieth stand closed; ELEVATED slows
  nothing down, since nothing reads `joinSlowdownMs`;
* ThreatDetector tests new connections in a listener of `server._wss`, which
  SignalingServer does not have: the lists of addresses are never read;
* a rotation whose rename fails has already ended the stream, so that the entries
  that follow are dropped, with what the stream had buffered, until a later rename
  succeeds (`unwritten`; the comment at AuditLogger.js:318 says that logging
  goes on); a stream that is ended before it has opened its file writes into the
  one made after it (`unopened`);
* events loaded from Redis come behind those logged meanwhile (`mixed`);
* a webhook whose response is cut off is neither delivered nor retried (`cut`
  in `course`), and `clearDeadLetterQueue` does not reach Redis. A listener of
  `delivery:success` that throws makes a delivered event be sent again, or buried
  (WebhookDispatcher.js:239-246). The comment of `dlq.maxSize` has it "ignored when
  Redis is configured" (WebhookDispatcher.js:115-116), but line 382 trims the list in
  Redis by it, so that the oldest letters go there as well (`PushedOut`); with 0 the
  memory keeps none, and Redis all.

## 7. Not modelled

Without a module, with the reasons in `PROJECT.json`: RoomToken and TurnCredentials (pure functions
of strings), LivekitAdapter (requests to a server that is not in the repository),
the HTTP endpoints, configuration and the command line, which decide nothing
another part reads.

Left out of modules: of the webhooks listeners of `delivery:retry` and
`delivery:failed` that throw, within the `.catch` itself: that rejection nobody
handles, and by default Node ends the process; in the core `Room.setMetadata`, the counting of the
heartbeat and the TURN entry; of RedisAdapter the routing between processes; of
ModerationBus warnings, reports and its log; of the health monitor's alerts the
delivery to handlers; of
AuditLogger the ring and the custom sink; of the metrics latencies, percentiles and the text for
Prometheus; of the mediasoup adapters the producers and consumers a client asks
for, which depend on one handler each; of the recorders the arguments of ffmpeg and
the search of the index; of EventReplay `replayToPeer`, which sends what `since`
returns. Time is only the order of timers and events, but for the ticks of
`Limits`.
