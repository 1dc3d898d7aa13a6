------------------------------ MODULE MCHalSpi ------------------------------
(* Small crates for TLC: the trigger delays that are set. *)
EXTENDS HalSpi

TwoDelays == {{}, {1}}
OneDelay == {{}}
=============================================================================
