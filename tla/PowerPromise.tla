---------------------------- MODULE PowerPromise ----------------------------
(***************************************************************************)
(* What the clients of the backend server (src/l2tcp_server) rely on about *)
(* the power of the crate: a set of managed channels, the only ones that   *)
(* commands and ramps switch; a ramp that switches one column of channels  *)
(* at a time, in order; EMERGENCY_OFF, which ends it and darkens           *)
(* everything.  There are no sessions, messages, schedules or masks here,  *)
(* and every command is one step.                                          *)
(***************************************************************************)
EXTENDS PowerRegister, Integers

CONSTANTS
  Slots,     \* the boards
  Channels   \* the channels of a board, numbers

VARIABLES
  power,     \* per board, the channels that are on
  latched,   \* per board, the channels in error
  managed,   \* per board, the channels that the client may switch
  left,      \* the columns that the ramp has still to switch
  up         \* the way it switches them

vars == <<power, latched, managed, left, up>>

Supply == [Slots -> SUBSET Channels]

\* A channel that is switched off is no longer in error.
Supplies(new) ==
  /\ power' = new
  /\ latched' = [s \in Slots |-> latched[s] \cap new[s]]

Init ==
  /\ power \in Supply
  /\ latched \in {l \in Supply : \A s \in Slots : l[s] \subseteq power[s]}
  /\ managed = [s \in Slots |-> {}]
  /\ left = {} /\ up \in BOOLEAN

\* The client that has just come manages nothing, and nothing is under way.
NewClient ==
  /\ managed' = [s \in Slots |-> {}]
  /\ left' = {} /\ up' \in BOOLEAN
  /\ UNCHANGED <<power, latched>>

\* The channels managed may change during a ramp, which goes on with them.
Configure ==
  /\ managed' \in Supply
  /\ UNCHANGED <<power, latched, left, up>>

\* A ramp up begins with every managed channel in error turned off.
StartRamp(on) ==
  /\ Supplies([s \in Slots |-> IF on THEN power[s] \ (latched[s] \cap managed[s])
                                     ELSE power[s]])
  /\ left' = Channels /\ up' = on
  /\ UNCHANGED managed

Column(c) ==
  /\ c \in left /\ \A d \in left : c <= d
  /\ Supplies([s \in Slots |-> IF c \in managed[s] THEN Bit(power[s], c, up) ELSE power[s]])
  /\ left' = left \ {c}
  /\ UNCHANGED <<managed, up>>

\* A channel that is switched, on or off, is no longer in error.
Switch(s, c, on) ==
  /\ c \in managed[s]
  /\ power' = [power EXCEPT ![s] = Bit(@, c, on)]
  /\ latched' = [latched EXCEPT ![s] = @ \ {c}]
  /\ UNCHANGED <<managed, left, up>>

Darken ==
  /\ Supplies([s \in Slots |-> {}])
  /\ left' = {}
  /\ UNCHANGED <<managed, up>>

Trip(s, c) ==
  /\ c \in power[s]
  /\ latched' = [latched EXCEPT ![s] = @ \cup {c}]
  /\ UNCHANGED <<power, managed, left, up>>

Next ==
  \/ NewClient \/ Configure \/ Darken
  \/ \E on \in BOOLEAN : StartRamp(on)
  \/ \E c \in Channels : Column(c)
  \/ \E s \in Slots, c \in Channels : Trip(s, c) \/ \E on \in BOOLEAN : Switch(s, c, on)

Spec == Init /\ [][Next]_vars
=============================================================================
