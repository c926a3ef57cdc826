---------------------------- MODULE RegistryClaims ----------------------------
(***************************************************************************)
(* A sentence of the documentation of RedisAdapter, as a property the code *)
(* does not have: TLC shows how.                                           *)
(***************************************************************************)
EXTENDS Registry

(* RedisAdapter.js:40-41, the hash is kept so that "any process can         *)
(* determine which peers are in a room": when all commands have run, each   *)
(* member is in the hash.                                                   *)
MembersRegistered == ~ttl /\ ~crashed /\ Quiet => Members \subseteq hash
=============================================================================
