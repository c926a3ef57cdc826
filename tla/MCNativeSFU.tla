------------------------------ MODULE MCNativeSFU -----------------------------
(* Small instances of NativeSFU for TLC.                                    *)
EXTENDS NativeSFU, TLC

(* Peers are interchangeable.                                               *)
Symmetry == Permutations(Peers)
=============================================================================
