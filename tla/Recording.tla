------------------------------ MODULE Recording ------------------------------
(***************************************************************************)
(* recording/RecordingPipeline.js with autoRecord, of one room: sessions,  *)
(* their ffmpeg processes and the map of active ones.  startPeer awaits    *)
(* the spawn before it enters the map; stopRoom walks the map and awaits   *)
(* the end of each session before it takes the entry out.                  *)
(***************************************************************************)
EXTENDS RoomLife

CONSTANTS
  Sessions,   \* sessions ever created; bounds a behaviour
  NONE        \* no session

ASSUME SessionsAssumption == Sessions \cap {NONE, "idle"} = {}

VARIABLES
  state,      \* of each session; starting: startPeer has not gone on
  proc,       \* of its ffmpeg
  owner,      \* its peer
  active,     \* _active
  sweeping,   \* the session a stopRoom waits for; one stopRoom at a time
  seen,       \* sessions that stopRoom has come by
  indexed,    \* how often each session is in _index
  overlapped, struck, missed   \* history: sessions whose start another one
                               \* overlapped, whose entry stopRoom took for
                               \* another's, whose peer left as it started

sessionVars == <<state, proc, owner, indexed>>
recordingVars == <<sessionVars, active, sweeping, seen, overlapped, struck, missed>>

RecordingTypeOK ==
  /\ RoomTypeOK
  /\ state \in [Sessions -> {"unused", "starting", "recording", "stopping", "done", "failed"}]
  /\ proc \in [Sessions -> {"none", "spawning", "running", "ended"}]
  /\ owner \in [Sessions -> Peers \cup {NONE}]
  /\ active \in [Peers -> Sessions \cup {NONE}]
  /\ sweeping \in Sessions \cup {NONE, "idle"}
  /\ seen \cup overlapped \cup struck \cup missed \subseteq Sessions
  /\ indexed \in [Sessions -> 0..2]

RecordingInit ==
  /\ RoomInit
  /\ state = [s \in Sessions |-> "unused"]
  /\ proc = [s \in Sessions |-> "none"]
  /\ owner = [s \in Sessions |-> NONE]
  /\ active = [p \in Peers |-> NONE]
  /\ sweeping = "idle" /\ seen = {}
  /\ indexed = [s \in Sessions |-> 0]
  /\ overlapped = {} /\ struck = {} /\ missed = {}

StartingOf(p) == {s \in Sessions : state[s] = "starting" /\ owner[s] = p}

-----------------------------------------------------------------------------
(* startPeer up to its await: _createSession and the spawn *)
StartPeer(p) ==
  /\ active[p] = NONE
  /\ \E s \in Sessions :
       /\ state[s] = "unused"
       /\ state' = [state EXCEPT ![s] = "starting"]
       /\ proc' = [proc EXCEPT ![s] = "spawning"]
       /\ owner' = [owner EXCEPT ![s] = p]
       /\ overlapped' = IF StartingOf(p) = {} THEN overlapped
                        ELSE overlapped \cup StartingOf(p) \cup {s}
  /\ UNCHANGED <<active, sweeping, seen, indexed, struck, missed>>

(* by the application, also from startRoom's walk over the members *)
StartsMember == (\E p \in RoomMembers : StartPeer(p)) /\ UNCHANGED roomVars

(* peer:joined *)
RecordingEnter(p) == Enter(p) /\ StartPeer(p)

(* The spawn event or, after 500 ms, without it: startPeer goes on. *)
Started(s) ==
  /\ state[s] = "starting"
  /\ state' = [state EXCEPT ![s] = "recording"]
  /\ \E x \in {"spawning", "running"} : proc' = [proc EXCEPT ![s] = x]
  /\ active' = [active EXCEPT ![owner[s]] = s]
  /\ UNCHANGED <<owner, indexed, sweeping, seen, overlapped, struck, missed, roomVars>>

SpawnsLate(s) ==
  /\ proc[s] = "spawning" /\ state[s] # "starting"
  /\ proc' = [proc EXCEPT ![s] = "running"]
  /\ UNCHANGED <<state, owner, indexed, active, sweeping, seen, overlapped, struck, missed, roomVars>>

-----------------------------------------------------------------------------
(* the last part of _stopSession *)
Finish(s) ==
  /\ state' = [state EXCEPT ![s] = "done"]
  /\ proc' = [proc EXCEPT ![s] = "ended"]
  /\ indexed' = [indexed EXCEPT ![s] = @ + 1]

StopAgain(s) ==
  state' = IF state[s] \in {"recording", "done"}
             THEN [state EXCEPT ![s] = "stopping"] ELSE state

(* _stopSession up to its await; of other sessions it returns at once. *)
StopSession(s) ==
  state' = IF state[s] = "recording"
             THEN [state EXCEPT ![s] = "stopping"] ELSE state

StopPeer(p) ==
  /\ active[p] # NONE
  /\ active' = [active EXCEPT ![p] = NONE]
  /\ StopSession(active[p])
  /\ UNCHANGED <<proc, owner, indexed, sweeping, seen, overlapped, struck>>

StopsPeer(p) == StopPeer(p) /\ UNCHANGED <<missed, roomVars>>

(* peer:left *)
RecordingExit(p) ==
  /\ Exit(p)
  /\ missed' = missed \cup StartingOf(p)
  /\ IF active[p] # NONE THEN StopPeer(p)
     ELSE UNCHANGED <<sessionVars, active, sweeping, seen, overlapped, struck>>

(* ffmpeg ends of itself, on the q it was sent, or killed when the time to  *)
(* stop is over: only a stop notices.                                       *)
Ends(s) ==
  /\ proc[s] = "running" \/ state[s] = "stopping"
  /\ IF state[s] = "stopping" THEN Finish(s)
     ELSE proc' = [proc EXCEPT ![s] = "ended"] /\ UNCHANGED <<state, indexed>>
  /\ UNCHANGED <<owner, active, sweeping, seen, overlapped, struck, missed, roomVars>>

(* The spawn fails, before or after 500 ms. *)
Fails(s) ==
  /\ proc[s] = "spawning" /\ state[s] # "stopping"
  /\ state' = [state EXCEPT ![s] = "failed"]
  /\ proc' = [proc EXCEPT ![s] = "ended"]
  /\ UNCHANGED <<owner, indexed, active, sweeping, seen, overlapped, struck, missed, roomVars>>

-----------------------------------------------------------------------------
(* stopRoom comes to an entry it has not seen: the walk is over the map as  *)
(* it is by then.                                                           *)
StopRoomTakes(p) ==
  /\ sweeping = "idle"
  /\ active[p] \in Sessions \ seen
  /\ StopSession(active[p])
  /\ sweeping' = active[p] /\ seen' = seen \cup {active[p]}
  /\ UNCHANGED <<proc, owner, indexed, active, overlapped, struck, missed, roomVars>>

(* The session has ended, or was not recording: the entry of the peer goes, *)
(* whatever session it names now.                                           *)
StopRoomGoesOn ==
  /\ sweeping \in Sessions
  /\ LET p == owner[sweeping] IN
     /\ state[sweeping] # "stopping"
     /\ active' = [active EXCEPT ![p] = NONE]
     /\ struck' = struck \cup ({active[p]} \ {NONE, sweeping})
  /\ sweeping' = "idle"
  /\ UNCHANGED <<sessionVars, seen, overlapped, missed, roomVars>>

StopRoomEnds ==
  /\ sweeping = "idle" /\ seen # {}
  /\ seen' = {}
  /\ UNCHANGED <<sessionVars, active, sweeping, overlapped, struck, missed, roomVars>>

RecordingNext ==
  \/ StartsMember \/ StopRoomGoesOn \/ StopRoomEnds
  \/ \E p \in Peers :
       RecordingEnter(p) \/ RecordingExit(p) \/ StopsPeer(p) \/ StopRoomTakes(p)
  \/ \E s \in Sessions : Started(s) \/ SpawnsLate(s) \/ Ends(s) \/ Fails(s)

RecordingSpec == RecordingInit /\ [][RecordingNext]_<<recordingVars, roomVars>>

-----------------------------------------------------------------------------
(* A recorder nobody can stop, or that records a peer that has gone, comes  *)
(* from one of three overlaps only: two starts of one peer, a stopRoom that *)
(* took the entry of a newer session, a departure during the start          *)
(* (startPeer, stopRoom, the peer:left listener).                           *)
RecordersExplained ==
  \A s \in Sessions \ overlapped :
    state[s] = "recording" =>
      /\ active[owner[s]] = s \/ s \in struck
      /\ status[owner[s]] = "left" => s \in missed \cup struck

(* A session is listed once, when its stop is over: two stops of one        *)
(* session, a late failure or a crash of ffmpeg list none twice.            *)
ListedOnce == \A s \in Sessions : indexed[s] = IF state[s] = "done" THEN 1 ELSE 0

RecordingsHold == RecordingTypeOK /\ RecordersExplained /\ ListedOnce
=============================================================================
