---------------------------- MODULE ModuleArrays ----------------------------
(***************************************************************************)
(* How the modules of a crate are numbered and laid out in the arrays that *)
(* the bridge publishes: slot after slot in the order of active_slots,     *)
(* channel after channel within a slot.                                    *)
(***************************************************************************)
EXTENDS Integers, Sequences

CONSTANT NumChannels  \* CHANNELS_PER_SLOT

ASSUME NumChannelsAssumption == NumChannels \in Nat \ {0}

NumModules(active) == Len(active) * NumChannels

\* The place, from 1, of a channel of the i-th active slot: the order in which
\* the bridge fills the arrays and clients walk them.
Position(i, ch) == (i - 1) * NumChannels + ch

\* _module_to_slot_channel, for a number in range.
ModuleToSlotChannel(active, m) ==
  <<active[((m - 1) \div NumChannels) + 1], ((m - 1) % NumChannels) + 1>>
=============================================================================
