----------------------------- MODULE MCSignaling -----------------------------
(* Small instances of Signaling for TLC.                                    *)
EXTENDS Signaling

(* Peers are interchangeable: no action or property names one.              *)
Symmetry == Permutations(Peers)
=============================================================================
