--------------------------- MODULE PowerRegister ---------------------------
(***************************************************************************)
(* The power register (PONF) of a CTDB board as a set of channels, and what *)
(* callers may expect of the HAL function that changes one bit of it.  The  *)
(* server is modelled on this promise; HalSpi shows that the driver keeps   *)
(* it, transaction by transaction.                                          *)
(***************************************************************************)

CONSTANT SpiFaults   \* may an SPI transaction time out?

\* changeBitVal16
Bit(reg, c, on) == IF on THEN reg \cup {c} ELSE reg \ {c}

\* Mutant: a timeout is not reported.
SetPowerChannelSilently(reg, c, on) ==
  {[reg |-> r, err |-> FALSE] : r \in IF SpiFaults THEN {reg, Bit(reg, c, on)}
                                                  ELSE {Bit(reg, c, on)}}

\* cta_ctdb_setPowerChannelEnabled: read PONF, change one bit, write it back.
\* A write that times out may have reached the board.
SetPowerChannel(reg, c, on) ==
  {[reg |-> Bit(reg, c, on), err |-> FALSE]}
  \cup IF SpiFaults THEN {[reg |-> r, err |-> TRUE] : r \in {reg, Bit(reg, c, on)}}
                    ELSE {}
=============================================================================
