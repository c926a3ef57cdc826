------------------------------ MODULE Threats --------------------------------
(***************************************************************************)
(* security/ThreatDetector.js: what it keeps of each connection, from its  *)
(* first frame to the sweep of idle ones.  Limits and sizes are abstract:  *)
(* any frame of a counted peer may be the one too many.  Left out are the  *)
(* lists of addresses: the check of new connections that would read them   *)
(* waits for server._wss, which the server does not have.                  *)
(***************************************************************************)
EXTENDS RoomLife

VARIABLES
  link,       \* of each connection, as server.peers and its socket have it
  counted,    \* _signalCounters
  paced,      \* _sdpCounters and _dataCounters
  heard,      \* _lastSignal
  idle        \* those heard last longer ago than idleTimeoutMs

perPeer == <<counted, paced, heard, idle>>
threatsVars == <<link, perPeer>>

ThreatsTypeOK ==
  /\ RoomTypeOK
  /\ link \in [Peers -> {"new", "open", "shut", "gone"}]
  /\ counted \subseteq Peers /\ paced \subseteq Peers
  /\ heard \subseteq Peers /\ idle \subseteq heard

ThreatsInit ==
  /\ RoomInit
  /\ link = [p \in Peers |-> "new"]
  /\ counted = {} /\ paced = {} /\ heard = {} /\ idle = {}

Links(p, to) == link' = [link EXCEPT ![p] = to]

CleanupForgetsPace(ps) ==
  /\ counted' = counted \ ps /\ UNCHANGED paced
  /\ heard' = heard \ ps /\ idle' = idle \ ps

(* _cleanupPeer *)
Cleanup(ps) ==
  /\ counted' = counted \ ps /\ paced' = paced \ ps
  /\ heard' = heard \ ps /\ idle' = idle \ ps

-----------------------------------------------------------------------------
(* peer:connected, _initPeerCounters *)
Connect(p) ==
  /\ link[p] = "new" /\ Links(p, "open")
  /\ counted' = counted \cup {p} /\ heard' = heard \cup {p}
  /\ UNCHANGED <<paced, idle, roomVars>>

(* A connection that never joined ends; the detector is not told. *)
Disconnect(p) ==
  /\ status[p] = "outside" /\ link[p] = "open"
  /\ Links(p, "gone")
  /\ UNCHANGED <<perPeer, roomVars>>

(* The hook may answer after the connection has gone or was closed. *)
Joins(p) ==
  /\ link[p] # "new" /\ Enter(p)
  /\ CASE link[p] = "gone" -> status'[p] = "ghost"
       [] link[p] = "shut" -> status'[p] = "fading"
       [] link[p] = "open" -> status'[p] # "ghost"
  /\ UNCHANGED <<link, perPeer>>

(* peer:left, by a disconnect, a kick or leave *)
Departs(p) ==
  /\ Exit(p)
  /\ Links(p, "gone") \/ Links(p, "shut") \/ UNCHANGED link
  /\ Cleanup({p})

(* What the detector does not listen to. *)
Unseen ==
  /\ \E p \in Peers :
       Fade(p) \/ (link[p] = "open" /\ (Drop(p) \/ Return(p)))
  /\ UNCHANGED threatsVars

-----------------------------------------------------------------------------
(* The frames of a connection are read until its socket has closed. *)
MayHear(p) == link[p] \in {"open", "shut"} /\ (p \in Speakers \/ status[p] = "outside")

(* What a frame leaves behind: its time and, of an offer, an answer or      *)
(* data, a window.                                                          *)
Notes(p) ==
  /\ heard' = heard \cup {p} /\ idle' = idle \ {p}
  /\ paced' = paced \/ paced' = paced \cup {p}

(* a frame that passes *)
Passes(p) ==
  /\ MayHear(p)
  /\ Notes(p)
  /\ UNCHANGED <<link, counted, roomVars>>

(* kick by a check: of a member it is a departure, after which nothing is   *)
(* noted any more; of the others the connection is closed.  The rate of     *)
(* signals is looked at for counted peers only, sizes for all.              *)
KickedOut(p) ==
  /\ MayHear(p)
  /\ Links(p, "shut")
  /\ IF p \in Reachable
       THEN Exit(p) /\ Cleanup({p})
       ELSE Notes(p) /\ UNCHANGED <<counted, roomVars>>

GetsIdle(p) ==
  /\ p \in heard \ idle
  /\ idle' = idle \cup {p}
  /\ UNCHANGED <<link, counted, paced, heard, roomVars>>

(* _sweep closes the peers the server finds.  A closed peer that has been   *)
(* a member keeps its place.                                                *)
Sweep ==
  /\ idle # {}
  /\ LET found == {p \in idle : link[p] \in {"open", "shut"}}
         members == found \cap Reachable IN
     /\ link' = [p \in Peers |-> IF p \in found THEN "shut" ELSE link[p]]
     /\ IF members = {} THEN UNCHANGED roomVars ELSE Strand(members)
  /\ Cleanup(idle)

ThreatsNext ==
  \/ \E p \in Peers :
       \/ Connect(p) \/ Disconnect(p) \/ Joins(p) \/ Departs(p)
       \/ Passes(p) \/ KickedOut(p) \/ GetsIdle(p)
  \/ Unseen \/ Sweep

ThreatsSpec == ThreatsInit /\ [][ThreatsNext]_<<threatsVars, roomVars>>

-----------------------------------------------------------------------------
(* What is kept of a peer can be found by the sweep: late frames of a peer  *)
(* that has left, kicks in the middle of a check and joins behind a sweep   *)
(* leave no entry that stays for good (attach, _cleanupPeer, _sweep).       *)
TracesAreSwept == counted \cup paced \subseteq heard

(* Frames of a member whose connection the server has not closed are        *)
(* counted, however often the sweep and others' departures have cleaned up. *)
MembersAreCounted == \A p \in RoomMembers : link[p] = "open" => p \in counted

ThreatsHold == ThreatsTypeOK /\ TracesAreSwept /\ MembersAreCounted
=============================================================================
