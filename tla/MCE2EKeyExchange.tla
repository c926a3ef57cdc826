--------------------------- MODULE MCE2EKeyExchange ---------------------------
(* Small instances of E2EKeyExchange for TLC.                               *)
EXTENDS E2EKeyExchange, TLC

(* Peers are interchangeable, and so are keys.                              *)
Symmetry == Permutations(Peers) \cup Permutations(Keys)
=============================================================================
