-------------------------- MODULE MCTriggerControl --------------------------
(* Small crates for TLC.  Bound: the clients of a behaviour send requests of   *)
(* one family; the registers of different families have nothing in common.     *)
EXTENDS TriggerControl

CONSTANT Families   \* sets of kinds of requests

VARIABLE family

NoMask == [s \in Slots |-> {}]
OneImmutable == [s \in Slots |-> IF s = 1 THEN {1} ELSE {}]
TwoConfigs == {[slots |-> Slots, masks |-> OneImmutable],
               [slots |-> {1, BadSlot}, masks |-> NoMask]}
Always == {"NONE", "SET_CONFIG"}

MCInit == TriggerInit /\ family \in Families
MCNext == TriggerNext /\ req'.kind \in family \cup Always /\ UNCHANGED family
MCSpec == MCInit /\ [][MCNext]_<<triggerVars, family>>

AllFamilies == {
  {"SET_ALL_TRIG_EN", "SET_CH_TRIG"},
  {"SET_ALL_TRIG_DELAY", "SET_CH_DELAY"},
  {"SET_LIMITS"},
  {"GET", "SET_CTRL", "SET_PARAM", "SET_BUSY"},
  {"SET_L1SCALERS_EN", "L1SCALERS_POLL"},
  {"GET_STATE", "FAST_POLL", "RESET_TIB_COUNT", "SET_CTRL"}}
ScalerFamily == {{"SET_L1SCALERS_EN", "L1SCALERS_POLL"}}
CrateFamily == {{"GET_STATE", "RESET_TIB_COUNT", "SET_CTRL"}}
=============================================================================
