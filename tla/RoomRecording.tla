---------------------------- MODULE RoomRecording ----------------------------
(***************************************************************************)
(* adapters/RecordingAdapter.js, of one room: an ffmpeg per recorded peer  *)
(* and the set startRoom has made of them.  An entry goes when its ffmpeg  *)
(* closes behind a stop; one that has closed before never does.            *)
(***************************************************************************)
EXTENDS RoomLife

CONSTANT NOBODY

ASSUME NobodyAssumption == Peers \cap {NOBODY, "none"} = {}

VARIABLES
  recordings,   \* _recordings
  ffmpeg,       \* of each entry
  stopped,      \* entries a stopPeer listens on
  grouping, group,   \* _roomRecordings has the room; its set
  toStop,       \* what a stopRoom has still to stop; one at a time
  stopsNow,     \* the peer it awaits
  alone,        \* history: recordings of joiners and those startPeer was asked
                \* for, and those whose set was replaced or dropped
  crashed       \* history: those whose ffmpeg closed before they were stopped

entries == <<recordings, ffmpeg, stopped>>
roomStop == <<toStop, stopsNow>>
roomRecordingVars == <<entries, grouping, group, roomStop, alone, crashed>>

RoomRecordingTypeOK ==
  /\ RoomTypeOK
  /\ recordings \cup group \cup toStop \subseteq Peers
  /\ stopped \cup alone \cup crashed \subseteq recordings
  /\ ffmpeg \in [Peers -> {"none", "running", "closed"}]
  /\ grouping \in BOOLEAN
  /\ stopsNow \in Peers \cup {NOBODY, "none"}

RoomRecordingInit ==
  /\ RoomInit
  /\ recordings = {} /\ stopped = {}
  /\ ffmpeg = [p \in Peers |-> "none"]
  /\ grouping = FALSE /\ group = {}
  /\ toStop = {} /\ stopsNow = "none"
  /\ alone = {} /\ crashed = {}

-----------------------------------------------------------------------------
(* startPeer, of peers that have no entry *)
Record(ps) ==
  /\ ps \cap recordings = {}
  /\ recordings' = recordings \cup ps
  /\ ffmpeg' = [p \in Peers |-> IF p \in ps THEN "running" ELSE ffmpeg[p]]
  /\ UNCHANGED <<stopped, roomStop, crashed>>

StartOne ==
  /\ \E p \in RoomMembers : Record({p}) /\ alone' = alone \cup {p}
  /\ UNCHANGED <<grouping, group, roomVars>>

(* peer:joined: recorded with its room, but not entered into the set *)
JoinsRecorded(p) ==
  /\ Enter(p)
  /\ IF grouping THEN Record({p}) /\ alone' = alone \cup {p}
     ELSE UNCHANGED <<entries, roomStop, crashed, alone>>
  /\ UNCHANGED <<grouping, group>>

(* startRoom: its awaits let nothing else happen.  The first member that is *)
(* already recorded ends the walk.                                          *)
StartRoom ==
  /\ alive
  /\ grouping' = TRUE
  /\ \E ps \in SUBSET (RoomMembers \ recordings) :
       /\ RoomMembers \cap recordings = {} => ps = RoomMembers
       /\ Record(ps)
       /\ group' = ps
  /\ alone' = alone \cup group
  /\ UNCHANGED roomVars

-----------------------------------------------------------------------------
(* stopPeer up to the end of ffmpeg; the listeners of a second stop find    *)
(* the entry gone.                                                          *)
Stop(p) ==
  /\ stopped' = stopped \cup ({p} \cap recordings)
  /\ UNCHANGED <<recordings, ffmpeg, grouping, group, alone, crashed>>

StopsOne == (\E p \in recordings : Stop(p)) /\ UNCHANGED <<roomStop, roomVars>>

(* peer:left *)
LeavesRecorded(p) == Exit(p) /\ Stop(p) /\ UNCHANGED roomStop

ClosesUngrouped(p) ==
  /\ recordings' = recordings \ {p} /\ stopped' = stopped \ {p}
  /\ alone' = alone \ {p}
  /\ UNCHANGED <<grouping, group, crashed>>

(* The close listener of stopPeer: with the last of its set the room goes. *)
ClosesStopped(p) ==
  /\ recordings' = recordings \ {p} /\ stopped' = stopped \ {p}
  /\ alone' = alone \ {p}
  /\ group' = group \ {p}
  /\ grouping' = (grouping /\ group' # {})
  /\ UNCHANGED crashed

(* ffmpeg closes: of itself, at the end of its input, or killed. *)
Closes(p) ==
  /\ ffmpeg[p] = "running"
  /\ ffmpeg' = [ffmpeg EXCEPT ![p] = "closed"]
  /\ IF p \in stopped
       THEN ClosesStopped(p)
       ELSE /\ crashed' = crashed \cup {p}
            /\ UNCHANGED <<recordings, stopped, alone, grouping, group>>
  /\ stopsNow' = IF stopsNow = p THEN NOBODY ELSE stopsNow
  /\ UNCHANGED <<toStop, roomVars>>

-----------------------------------------------------------------------------
(* stopRoom stops the peers its set had at the call, one by one. *)
StopRoom ==
  /\ stopsNow = "none"
  /\ toStop' = group /\ stopsNow' = NOBODY
  /\ UNCHANGED <<entries, grouping, group, alone, crashed, roomVars>>

StopNext(p) ==
  /\ stopsNow = NOBODY /\ p \in toStop
  /\ Stop(p)
  /\ toStop' = toStop \ {p}
  /\ stopsNow' = IF p \in recordings THEN p ELSE NOBODY
  /\ UNCHANGED roomVars

StopRoomOver ==
  /\ stopsNow = NOBODY /\ toStop = {}
  /\ stopsNow' = "none"
  /\ grouping' = FALSE /\ group' = {}
  /\ alone' = alone \cup group
  /\ UNCHANGED <<entries, toStop, crashed, roomVars>>

RoomRecordingNext ==
  \/ StartOne \/ StartRoom \/ StopsOne \/ StopRoom \/ StopRoomOver
  \/ \E p \in Peers : JoinsRecorded(p) \/ LeavesRecorded(p) \/ Closes(p) \/ StopNext(p)

RoomRecordingSpec == RoomRecordingInit /\ [][RoomRecordingNext]_<<roomRecordingVars, roomVars>>

-----------------------------------------------------------------------------
(* The recorder of a peer that has left is being stopped.  The set of a     *)
(* room names recordings only.  A recording that stopRoom passes by is of a *)
(* joiner, was asked of startPeer, or was in a set that a second startRoom  *)
(* or a stopRoom dropped; that is less than the "all active recordings" of  *)
(* stopRoom's comment.  And a stopRoom stands still at no recorder but one  *)
(* that had closed before it was stopped (the peer:joined listener,         *)
(* startRoom, stopPeer, stopRoom).                                          *)
RoomRecordingHolds ==
  /\ RoomRecordingTypeOK
  /\ \A p \in recordings : status[p] = "left" => p \in stopped
  /\ group \subseteq recordings
  /\ recordings \subseteq stopped \cup alone \cup group
  /\ stopsNow \in Peers => ffmpeg[stopsNow] = "running" \/ stopsNow \in crashed
=============================================================================
