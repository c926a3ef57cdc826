----------------------------- MODULE ReplayClaims -----------------------------
(***************************************************************************)
(* A comment of EventReplay, as a property the code does not have: TLC     *)
(* shows how.                                                              *)
(***************************************************************************)
EXTENDS Replay

(* No command fails, nothing stops or loads.                                *)
UndisturbedNext ==
  \E r \in Processes : Executes(r) \/ \E h \in Hashes : RecordEvent(r, h)

UndisturbedSpec == ReplayInit /\ [][UndisturbedNext]_replayVars

(* EventReplay.js:326, each write is followed by "Trim to capacity": once   *)
(* all writes are done, Redis has the events the log of the process has.    *)
RedisKeepsLog ==
  \A r \in Processes : writes[r] = <<>> => ToSet(log[r]) \subseteq redis
=============================================================================
