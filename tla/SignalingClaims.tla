--------------------------- MODULE SignalingClaims ---------------------------
(***************************************************************************)
(* A sentence of the documentation of the signaling core, as a property    *)
(* the code does not have: TLC shows how.                                  *)
(***************************************************************************)
EXTENDS Signaling

(* SignalingServer.js:102, reconnectTtl is how long "a dropped peer's slot  *)
(* and reconnect token remain valid": a member in its grace period can use  *)
(* its token.                                                               *)
DroppedCanResume ==
  \A p \in Members : st[p] = "reconnecting" => p \in tokIdx
=============================================================================
