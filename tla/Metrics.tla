------------------------------- MODULE Metrics -------------------------------
(***************************************************************************)
(* observability/MetricsCollector.js and observability/Tracer.js, of one   *)
(* room id: the gauges of the room, which outlive the Room object, and the *)
(* traces of the connections.  Both count events of the server, which      *)
(* announces peer:left twice when a connection ends and once when a peer   *)
(* leaves or is kicked.                                                    *)
(***************************************************************************)
EXTENDS RoomLife, Sequences

CONSTANT
  BufferSize    \* bounds options.bufferSize of the tracer

ASSUME BufferAssumption == BufferSize \in Nat \ {0}

VARIABLES
  bufferSize,   \* options.bufferSize: fixed
  peersCurrent, peersPeak,   \* of the room, 0 until it has metrics
  traced,       \* peers with an entry in _peerTraces
  openSpans,    \* peers whose peer.connected span is active
  buffer,       \* finished peer.leave spans, the oldest first
  resumable,    \* peers whose token has not resumed them and still can
  most,         \* history: the most members at a time
  doubled,      \* history: a departure was announced twice since the room
                \* was empty
  ever,         \* history: a departure was announced twice
  revived       \* history: peers that were resumed after they had left

gaugeVars == <<peersCurrent, peersPeak, most, doubled, ever>>
metricsVars == <<bufferSize, gaugeVars, traced, openSpans, buffer, resumable, revived>>

MetricsTypeOK ==
  /\ RoomTypeOK
  /\ peersCurrent \in 0..MaxPeers /\ peersPeak \in 0..MaxPeers
  /\ bufferSize \in 1..BufferSize
  /\ traced \subseteq Peers /\ openSpans \subseteq Peers
  /\ resumable \subseteq Peers /\ revived \subseteq Peers
  /\ buffer \in Seq(Peers)
  /\ most \in 0..MaxPeers
  /\ doubled \in BOOLEAN /\ ever \in BOOLEAN

MetricsInit ==
  /\ RoomInit
  /\ bufferSize \in 1..BufferSize
  /\ peersCurrent = 0 /\ peersPeak = 0
  /\ traced = {} /\ openSpans = {} /\ buffer = <<>>
  /\ resumable = {} /\ revived = {}
  /\ most = 0 /\ doubled = FALSE /\ ever = FALSE

Larger(m, n) == IF m > n THEN m ELSE n

-----------------------------------------------------------------------------
(* peer:connected; nothing ends the span. *)
Connected(p) ==
  /\ p \notin openSpans
  /\ traced' = traced \cup {p}
  /\ openSpans' = openSpans \cup {p}
  /\ resumable' = resumable \cup {p}
  /\ UNCHANGED <<bufferSize, gaugeVars, buffer, revived, roomVars>>

(* peer:joined *)
MetricsEnter(p) ==
  /\ p \in openSpans
  /\ Enter(p)
  /\ peersCurrent' = peersCurrent + 1
  /\ peersPeak' = Larger(peersPeak, peersCurrent + 1)
  /\ most' = Larger(most, Cardinality(RoomMembers'))
  /\ UNCHANGED <<bufferSize, traced, openSpans, buffer, resumable, doubled, ever, revived>>

MetricsFade(p) == Fade(p) /\ UNCHANGED metricsVars

MetricsDrop(p) == Drop(p) /\ UNCHANGED metricsVars

(* peer:reconnected, of a token that is spent by it *)
Traces(p) ==
  /\ p \in resumable
  /\ resumable' = resumable \ {p}
  /\ traced' = traced \cup {p}
  /\ UNCHANGED <<bufferSize, gaugeVars, openSpans, buffer>>

MetricsReturn(p) == Return(p) /\ Traces(p) /\ UNCHANGED revived

(* A peer that left by its own message has dropped since, and its token     *)
(* names this room: it is resumed, and announced, without being a member.   *)
Revives(p) ==
  /\ status[p] = "left" /\ alive
  /\ Traces(p)
  /\ revived' = revived \cup {p}
  /\ UNCHANGED roomVars

(* the peer.leave span, started and ended at once, of a peer with a trace *)
Export(p) ==
  IF p \notin traced THEN buffer
  ELSE Append(IF Len(buffer) < bufferSize THEN buffer ELSE Tail(buffer), p)

GaugeTooFar(times) == IF peersCurrent > times THEN peersCurrent - times - 1 ELSE 0

(* peersCurrent, after that many peer:left events *)
Gauge(times) == IF times > peersCurrent THEN 0 ELSE peersCurrent - times

(* peer:left, that often; the second finds no trace. *)
Left(p, times) ==
  /\ Exit(p)
  /\ peersCurrent' = Gauge(times)
  /\ buffer' = Export(p)
  /\ traced' = traced \ {p}
  /\ doubled' = (RoomMembers' # {} /\ (doubled \/ times = 2))
  /\ ever' = (ever \/ times = 2)
  /\ UNCHANGED <<bufferSize, peersPeak, openSpans, most, revived>>

(* leave: the connection and its token stay. *)
MetricsLeave(p) ==
  /\ status[p] \in {"present", "fading"}
  /\ Left(p, 1)
  /\ UNCHANGED resumable

(* kick, also of a stranded member *)
MetricsKick(p) == Left(p, 1) /\ resumable' = resumable \ {p}

(* The connection has ended for good: _handleConnection's listener and the  *)
(* room's both announce it.                                                 *)
MetricsExpire(p) ==
  /\ status[p] \in {"present", "fading", "away"}
  /\ Left(p, 2)
  /\ resumable' = resumable \ {p}

MetricsNext ==
  \E p \in Peers :
    \/ Connected(p) \/ MetricsEnter(p) \/ MetricsLeave(p) \/ MetricsKick(p)
    \/ MetricsExpire(p) \/ MetricsFade(p) \/ MetricsDrop(p) \/ MetricsReturn(p)
    \/ Revives(p)

MetricsSpec == MetricsInit /\ [][MetricsNext]_<<metricsVars, roomVars>>

-----------------------------------------------------------------------------
(* The gauge never counts more than the room's members, and counts fewer    *)
(* only after a departure that was announced twice while others stayed; it  *)
(* is exact again once the room has been empty.  The peak is never too      *)
(* high, and too low only after such a departure (attach, the peer:left     *)
(* and peer:joined listeners).                                              *)
GaugesExplained ==
  /\ peersCurrent <= Cardinality(RoomMembers)
  /\ peersCurrent < Cardinality(RoomMembers) => doubled
  /\ peersPeak <= most
  /\ peersPeak < most => ever

(* Every member has a trace; one that left has none, unless it was resumed  *)
(* after that: then it keeps one for good.  Of the departures still in the  *)
(* buffer each is there once, however often it was announced (attach of the *)
(* tracer, the peer:left and peer:reconnected listeners).                   *)
TracesFollow ==
  /\ \A p \in Peers : status[p] \in Inside => p \in traced
  /\ \A p \in Peers : status[p] = "left" => (p \in traced <=> p \in revived)
  /\ \A i, j \in DOMAIN buffer : buffer[i] = buffer[j] => i = j
  /\ \A i \in DOMAIN buffer : status[buffer[i]] = "left"

MetricsHold == MetricsTypeOK /\ GaugesExplained /\ TracesFollow
=============================================================================
