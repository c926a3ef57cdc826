------------------------------ MODULE Snapshots -------------------------------
(***************************************************************************)
(* adapters/RoomPersistence.js: the snapshot of one room id in Redis, its  *)
(* entry in the index, and what a restarted process restores.             *)
(*                                                                         *)
(* A save and a deletion are chains of awaited commands on one connection, *)
(* as in Registry.  The metadata of a save are those of the call.  Rooms    *)
(* may be made before restore and attach (config), and commands rejected.   *)
(***************************************************************************)
EXTENDS Naturals, Sequences

CONSTANTS
  Meta,      \* metadata of a room
  NONE,      \* no room, no snapshot
  MaxRooms,  \* bounds the rooms made under the id
  MaxPipe    \* bound: no metadata change on a longer pipe

ASSUME MetaAssumption == NONE \notin Meta
ASSUME BoundAssumption == MaxRooms \in Nat \ {0} /\ MaxPipe \in Nat

VARIABLES
  keepsFor,  \* options.snapshotTtl is not 0: fixed
  room,      \* metadata of the room the server has under the id
  made,      \* rooms made under the id, to tell them apart
  line,      \* commands not executed yet
  snapshot,  \* the hash of the snapshot
  fades,     \* the hash has a TTL
  indexed,   \* the id is in the index
  phase,     \* the process serves, or restore waits for the index or the hash
  late,      \* history: setMetadata of a destroyed room
  missed,    \* history: since the last save or deletion began, a command or
             \* restore was rejected, or the room was made before attach
  settled    \* history: what the last event told of the room: saved or deleted

server == <<keepsFor, room, made, late>>
store == <<snapshot, fades, indexed>>
snapshotsVars == <<server, store, line, phase, missed, settled>>

Save == [op : {"hSet", "sAdd", "expire"}, of : 1..MaxRooms, meta : Meta]
Deletion == [op : {"del", "sRem"}]

SnapshotsTypeOK ==
  /\ {keepsFor, fades, indexed, late, missed} \subseteq BOOLEAN
  /\ room \in Meta \cup {NONE}
  /\ made \in 0..MaxRooms
  /\ line \in Seq(Save \cup Deletion)
  /\ snapshot \in Meta \cup {NONE}
  /\ fades => keepsFor /\ snapshot # NONE
  /\ phase \in {"serving", "index", "hash"}
  /\ settled \in {"saved", "deleted", "no"}

SnapshotsInit ==
  /\ keepsFor \in BOOLEAN
  /\ room \in Meta \cup {NONE}
  /\ missed = (room # NONE) /\ made = IF missed THEN 1 ELSE 0
  /\ line = << >>
  /\ snapshot = NONE
  /\ fades = FALSE /\ indexed = FALSE /\ late = FALSE
  /\ phase = "serving"
  /\ settled = "no"

IssueSave(command) == line' = Append(line, command) /\ missed' = FALSE

SetSnapshot(n, meta) == [op |-> "hSet", of |-> n, meta |-> meta]

-----------------------------------------------------------------------------
(* room:created *)
Create ==
  /\ phase = "serving" /\ room = NONE /\ made < MaxRooms
  /\ \E meta \in Meta :
       /\ room' = meta
       /\ IssueSave(SetSnapshot(made + 1, meta))
  /\ made' = made + 1
  /\ settled' = "no"
  /\ UNCHANGED <<keepsFor, late, store, phase>>

(* room:destroyed *)
Destroy ==
  /\ phase = "serving" /\ room # NONE
  /\ room' = NONE
  /\ IssueSave([op |-> "del"])
  /\ settled' = "no"
  /\ UNCHANGED <<keepsFor, made, late, store, phase>>

(* The patched setMetadata, and saveRoom, which saves what is there. *)
SetMetadata ==
  /\ phase = "serving" /\ room # NONE /\ Len(line) < MaxPipe
  /\ \E meta \in Meta : room' = meta /\ IssueSave(SetSnapshot(made, meta))
  /\ UNCHANGED <<keepsFor, made, late, store, phase, settled>>

(* setMetadata of a Room object that has been destroyed *)
SetMetadataLate ==
  /\ phase = "serving" /\ room = NONE /\ made > 0 /\ Len(line) < MaxPipe
  /\ \E meta \in Meta : IssueSave(SetSnapshot(made, meta))
  /\ late' = TRUE
  /\ UNCHANGED <<keepsFor, room, made, store, phase, settled>>

-----------------------------------------------------------------------------
(* Redis executes the next command; its chain goes on behind rest, unless   *)
(* the reply is an error.                                                   *)

CutOff(rest) == line' = rest /\ missed' = TRUE

GoesOn(cmd, rest) ==
  \/ line' = Append(rest, cmd) /\ UNCHANGED missed
  \/ CutOff(rest)

ToIndex(cmd, rest) ==
  /\ snapshot' = cmd.meta
  /\ GoesOn([cmd EXCEPT !.op = "sAdd"], rest)
  /\ UNCHANGED <<fades, indexed, settled>>

(* room:saved, of the room the server has now *)
Settle(cmd, rest) ==
  \/ /\ line' = rest
     /\ settled' = IF room # NONE /\ cmd.of = made THEN "saved" ELSE settled
     /\ UNCHANGED missed
  \/ CutOff(rest) /\ UNCHANGED settled

Indexed(cmd, rest) ==
  /\ indexed' = TRUE
  /\ IF keepsFor THEN GoesOn([cmd EXCEPT !.op = "expire"], rest) /\ UNCHANGED settled
                 ELSE Settle(cmd, rest)
  /\ UNCHANGED <<snapshot, fades>>

ExpireSnapshot(cmd, rest) ==
  /\ fades' = (snapshot # NONE)
  /\ Settle(cmd, rest)
  /\ UNCHANGED <<snapshot, indexed>>

Delete(rest) ==
  /\ snapshot' = NONE /\ fades' = FALSE
  /\ GoesOn([op |-> "sRem"], rest)
  /\ UNCHANGED <<indexed, settled>>

(* room:deleted, and nothing is under way after it *)
Unindex(rest) ==
  /\ indexed' = FALSE
  /\ \/ /\ line' = rest
        /\ settled' = IF room = NONE /\ rest = << >> THEN "deleted" ELSE settled
        /\ UNCHANGED missed
     \/ CutOff(rest) /\ UNCHANGED settled
  /\ UNCHANGED <<snapshot, fades>>

ExecuteSave ==
  /\ line # << >>
  /\ LET cmd == Head(line)
         rest == Tail(line)
     IN \/ cmd.op = "hSet" /\ ToIndex(cmd, rest)
        \/ cmd.op = "sAdd" /\ Indexed(cmd, rest)
        \/ cmd.op = "expire" /\ ExpireSnapshot(cmd, rest)
        \/ cmd.op = "del" /\ Delete(rest)
        \/ cmd.op = "sRem" /\ Unindex(rest)
        \/ CutOff(rest) /\ UNCHANGED <<store, settled>>
  /\ UNCHANGED <<server, phase>>

SnapshotExpires ==
  /\ fades
  /\ snapshot' = NONE /\ fades' = FALSE
  /\ UNCHANGED <<server, indexed, line, phase, missed, settled>>

-----------------------------------------------------------------------------
(* The process stops and another one starts with restore.  It may have made *)
(* the room by then.                                                        *)
StopAndStart ==
  /\ room' \in Meta \cup {NONE} /\ missed' = (room' # NONE)
  /\ made' = IF missed' THEN made + 1 ELSE made
  /\ made' <= MaxRooms
  /\ line' = << >>
  /\ phase' = "index"
  /\ settled' = IF missed' /\ settled = "deleted" THEN "no" ELSE settled
  /\ UNCHANGED <<keepsFor, late, store>>

ReadIndex ==
  /\ phase = "index"
  /\ phase' = IF indexed THEN "hash" ELSE "serving"
  /\ UNCHANGED <<server, store, line, missed, settled>>

RestoreKeepsStale ==
  /\ phase = "hash"
  /\ room' = IF room = NONE THEN snapshot ELSE room
  /\ phase' = "serving"
  /\ UNCHANGED <<keepsFor, made, late, store, line, missed, settled>>

(* The room of the snapshot, which is skipped if there is one already, or   *)
(* the end of a stale entry; attach follows.                                *)
Restore ==
  /\ phase = "hash"
  /\ room' = IF room = NONE THEN snapshot ELSE room
  /\ indexed' = (snapshot # NONE)
  /\ phase' = "serving"
  /\ UNCHANGED <<keepsFor, made, late, snapshot, fades, line, missed, settled>>

(* restore is rejected, by its own commands or by those for another id, and *)
(* the application attaches nevertheless.                                   *)
RestoreFails ==
  /\ phase # "serving"
  /\ phase' = "serving" /\ missed' = TRUE
  /\ indexed' \in IF phase = "hash" /\ snapshot = NONE THEN BOOLEAN ELSE {indexed}
  /\ UNCHANGED <<server, snapshot, fades, line, settled>>

SnapshotsNext ==
  \/ Create \/ Destroy \/ SetMetadata \/ SetMetadataLate
  \/ ExecuteSave \/ SnapshotExpires
  \/ StopAndStart \/ ReadIndex \/ Restore \/ RestoreFails

SnapshotsSpec == SnapshotsInit /\ [][SnapshotsNext]_snapshotsVars

-----------------------------------------------------------------------------
(* What is in Redis for restore to find. *)
Restorable == IF indexed THEN snapshot ELSE NONE

(* Between two bursts of events Redis has the room the server has, with its *)
(* latest metadata, or no room: no chain of a room destroyed or changed     *)
(* meanwhile has the last word, no crash between two commands of a chain    *)
(* leaves a difference that restore does not remove, and no rejected        *)
(* command one that the next save or deletion does not mend.  A room made   *)
(* before attach is not there until its first save.                         *)
SnapshotAgrees ==
  ~keepsFor /\ ~late /\ ~missed /\ phase = "serving" /\ line = << >> =>
    Restorable = room /\ (indexed => snapshot # NONE)

(* A room that room:saved has told of is restorable until it is destroyed,  *)
(* through any crash and any command that is rejected; one that             *)
(* room:deleted has told of is gone for good.                               *)
EventsAreKept ==
  ~keepsFor /\ ~late =>
    /\ settled = "saved" => Restorable # NONE
    /\ settled = "deleted" => Restorable = NONE

SnapshotsHold == SnapshotsTypeOK /\ SnapshotAgrees /\ EventsAreKept
=============================================================================
