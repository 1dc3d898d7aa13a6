------------------------------- MODULE MCGui -------------------------------
(* Small crates for TLC: two slots, of which the bridge may leave one out, or   *)
(* three, of which it leaves out the first.                                    *)
EXTENDS Gui

TwoSlots == <<1, 2>>
Crates == {<<1, 2>>, <<2>>}
ThreeSlots == <<1, 2, 3>>
TwoOfThree == {<<2, 3>>}
SomeVars == <<"device_connected", "CrateMCFEnabled", "ModulePowerEnabled">>
=============================================================================
