-------------------------------- MODULE Audit ---------------------------------
(***************************************************************************)
(* security/AuditLogger.js: the log file and its rotation.  Entries go to  *)
(* a write stream, which opens its file and writes later on, while the     *)
(* rotation looks at the file and renames it at once.  The ring of recent  *)
(* entries and the custom sink, which nothing reads back, are left out.    *)
(***************************************************************************)
EXTENDS Naturals, SequencesExt

CONSTANTS
  MaxEntries,  \* bounds a behaviour
  MaxSize,     \* options.maxFileSizeBytes, in entries
  MaxStarts    \* restarts of the process; bounds a behaviour

ASSUME AuditAssumption == MaxSize \in Nat \ {0} /\ {MaxEntries, MaxStarts} \subseteq Nat

VARIABLES
  noted,    \* entries written so far; each is named by its number
  streams,  \* the write streams the process has made
  writer,   \* _stream, 0 for null
  files,    \* the contents of all files there have been
  path,     \* the file at _filePath, 0 if there is none
  starts,   \* restarts so far
  unwritten,  \* history: entries that reached no working stream, or died with it
  unopened    \* history: entries buffered in a stream ended before it had a file

auditVars == <<noted, streams, writer, files, path, starts, unwritten, unopened>>

(* file is 0 until the stream has opened it; an ended stream writes what it *)
(* has buffered and takes no more.                                          *)
Stream == [file : Nat, buffer : Seq(Nat), ended : BOOLEAN]

AuditTypeOK ==
  /\ noted \in 0..MaxEntries /\ starts \in 0..MaxStarts
  /\ streams \in Seq(Stream) /\ writer \in 0..Len(streams)
  /\ files \in Seq(Seq(1..noted)) /\ path \in 0..Len(files)
  /\ unwritten \subseteq 1..noted /\ unopened \subseteq 1..noted

Fresh == [file |-> 0, buffer |-> <<>>, ended |-> FALSE]

AuditInit ==
  /\ noted = 0 /\ starts = 0
  /\ streams = <<Fresh>> /\ writer = 1
  /\ files = <<>> /\ path = 0
  /\ unwritten = {} /\ unopened = {}

-----------------------------------------------------------------------------
RotatesDestroying(ss) ==
  LET s     == ss[writer]
      ended == [ss EXCEPT ![writer].ended = TRUE, ![writer].buffer = <<>>]
  IN  /\ \/ streams' = Append(ended, Fresh) /\ writer' = Len(ss) + 1 /\ path' = 0
         \/ streams' = ended /\ UNCHANGED <<writer, path>>
      /\ unopened' = IF s.file = 0 THEN unopened \cup ToSet(s.buffer) ELSE unopened

(* _checkRotation, behind a write that has left ss: the file that is at the *)
(* path now, not the one the stream writes to.  A rename that fails leaves  *)
(* the stream ended and in place.                                           *)
Rotates(ss) ==
  LET s     == ss[writer]
      ended == [ss EXCEPT ![writer].ended = TRUE]
  IN  /\ \/ streams' = Append(ended, Fresh) /\ writer' = Len(ss) + 1 /\ path' = 0
         \/ streams' = ended /\ UNCHANGED <<writer, path>>
      /\ unopened' = IF s.file = 0 THEN unopened \cup ToSet(s.buffer) ELSE unopened

CheckRotation(ss) ==
  IF path # 0 /\ Len(files[path]) >= MaxSize
    THEN Rotates(ss)
    ELSE streams' = ss /\ UNCHANGED <<writer, path, unopened>>

(* _write.  A write behind the end destroys the stream with its buffer.     *)
Note ==
  /\ noted < MaxEntries /\ noted' = noted + 1
  /\ UNCHANGED <<files, starts>>
  /\ \/ /\ writer = 0
        /\ unwritten' = unwritten \cup {noted'}
        /\ UNCHANGED <<streams, writer, path, unopened>>
     \/ /\ writer # 0 /\ ~ streams[writer].ended
        /\ CheckRotation([streams EXCEPT ![writer].buffer = Append(@, noted')])
        /\ UNCHANGED unwritten
     \/ /\ writer # 0 /\ streams[writer].ended
        /\ unwritten' = unwritten \cup {noted'} \cup ToSet(streams[writer].buffer)
        /\ CheckRotation([streams EXCEPT ![writer].buffer = <<>>])

(* close *)
CloseLog ==
  /\ writer # 0
  /\ streams' = [streams EXCEPT ![writer].ended = TRUE] /\ writer' = 0
  /\ UNCHANGED <<noted, files, path, starts, unwritten, unopened>>

-----------------------------------------------------------------------------
(* The file system. *)

(* The open of _openStream is done, whatever is at the path by now.         *)
Opens(i) ==
  /\ streams[i].file = 0
  /\ IF path = 0
       THEN files' = Append(files, <<>>) /\ path' = Len(files')
       ELSE UNCHANGED <<files, path>>
  /\ streams' = [streams EXCEPT ![i].file = path']
  /\ UNCHANGED <<noted, writer, starts, unwritten, unopened>>

Appends(i) ==
  LET s == streams[i] IN
  /\ s.file # 0 /\ s.buffer # <<>>
  /\ files' = [files EXCEPT ![s.file] = Append(@, Head(s.buffer))]
  /\ streams' = [streams EXCEPT ![i].buffer = Tail(@)]
  /\ UNCHANGED <<noted, writer, path, starts, unwritten, unopened>>

(* An error destroys the stream, which stays in _stream.                    *)
Breaks(i) ==
  /\ ~ streams[i].ended \/ streams[i].buffer # <<>>
  /\ streams' = [streams EXCEPT ![i].ended = TRUE, ![i].buffer = <<>>]
  /\ unwritten' = unwritten \cup ToSet(streams[i].buffer)
  /\ UNCHANGED <<noted, writer, files, path, starts, unopened>>

(* The process stops and another one opens the same path.                   *)
Restarts ==
  /\ starts < MaxStarts /\ starts' = starts + 1
  /\ unwritten' = unwritten \cup UNION {ToSet(streams[i].buffer) : i \in DOMAIN streams}
  /\ streams' = <<Fresh>> /\ writer' = 1
  /\ UNCHANGED <<noted, files, path, unopened>>

AuditNext ==
  \/ Note \/ CloseLog \/ Restarts
  \/ \E i \in DOMAIN streams : Opens(i) \/ Appends(i) \/ Breaks(i)

AuditSpec == AuditInit /\ [][AuditNext]_auditVars

-----------------------------------------------------------------------------
Buffered == UNION {ToSet(streams[i].buffer) : i \in DOMAIN streams}

(* The lines of all files, by file and number, and the order in which the   *)
(* files, in the order they were made, tell them.                           *)
Lines == UNION {{f} \X DOMAIN files[f] : f \in DOMAIN files}
Entry(line) == files[line[1]][line[2]]
Above(one, other) == one[1] < other[1] \/ (one[1] = other[1] /\ one[2] < other[2])

(* Rotations, however they fall between opens and writes, lose no entry and *)
(* write none twice (_checkRotation).                                       *)
EveryEntryKept ==
  /\ 1..noted = unwritten \cup Buffered \cup {Entry(l) : l \in Lines}
  /\ \A l, m \in Lines : Entry(l) = Entry(m) => l = m
  /\ \A l \in Lines : Entry(l) \notin unwritten \cup Buffered

(* The rotated files and the present one, in the order they were made, tell *)
(* the entries in the order they were logged, but for those of a stream     *)
(* ended before it had opened its file.                                     *)
FilesInOrder ==
  \A l, m \in Lines :
    Above(l, m) /\ {Entry(l), Entry(m)} \cap unopened = {} => Entry(l) < Entry(m)

AuditHolds == AuditTypeOK /\ EveryEntryKept /\ FilesInOrder
=============================================================================
