------------------------------ MODULE MCBridge ------------------------------
(* Small instances of the bridge for TLC: method calls are interchangeable. *)
EXTENDS Bridge, TLC

Symmetry == Permutations(Calls)
=============================================================================
