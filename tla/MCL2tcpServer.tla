--------------------------- MODULE MCL2tcpServer ---------------------------
(* Small crates for TLC: the payloads of SYS_SET_CONFIG the clients send. *)
EXTENDS L2tcpServer

NoMask == [s \in Slots |-> {}]
OneImmutable == [s \in Slots |-> IF s = 1 THEN {1} ELSE {}]

\* Every slot, nothing immutable; the same with one immutable channel; one slot
\* left out, an invalid one in its place.
PowerConfigs ==
  {[slots |-> Slots, masks |-> NoMask],
   [slots |-> Slots, masks |-> OneImmutable],
   [slots |-> {1, BadSlot}, masks |-> NoMask]}

\* Nothing immutable, then one immutable channel, or the other way round.
MutabilityConfigs == {[slots |-> Slots, masks |-> m] : m \in {NoMask, OneImmutable}}
OneConfig == {[slots |-> Slots, masks |-> NoMask]}
ImmutableConfig == {[slots |-> Slots, masks |-> OneImmutable]}
=============================================================================
