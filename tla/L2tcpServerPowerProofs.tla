---------------------- MODULE L2tcpServerPowerProofs ----------------------
(* Theorems about the power of the boards, for every crate.                *)
(* Those that assume ~SpiFaults are about a bus on which every transaction *)
(* completes: MCServerGarbage and MCServerDeafSlot show two of them fail   *)
(* without it.                                                             *)
EXTENDS L2tcpServerProofs

-----------------------------------------------------------------------------
(* What a step may do to the power of the boards *)

\* With a reliable bus a channel's PONF bit is written, and the write reported.
LEMMA ReliableSetPowerChannel ==
  ASSUME ~SpiFaults, NEW reg, NEW c, NEW on
  PROVE  /\ SetPowerChannel(reg, c, on) = {[reg |-> Bit(reg, c, on), err |-> FALSE]}
         /\ {o.reg : o \in SetPowerChannel(reg, c, on)} = {Bit(reg, c, on)}
<1>1. SetPowerChannel(reg, c, on) = {[reg |-> Bit(reg, c, on), err |-> FALSE]}
  BY DEF SetPowerChannel
<1>2. QED
  BY <1>1

\* With a reliable bus SetPower gives every board the one value listed for it.
LEMMA SetPowerValue ==
  ASSUME TypeOK, NEW values, SetPower(values), NEW s \in Slots, NEW v, values[s] = {v}
  PROVE  pwr'[s] = v
  BY DEF SetPower

Darkened == EmergencyOff /\ \A s \in Slots : pwr'[s] = {}

Swept(b) ==
  /\ RampPower(b) /\ StartRamp(b)
  /\ \A s \in Slots : pwr'[s] = IF b /\ s \in active THEN pwr[s] \ (trip[s] \ immutable[s])
                                                     ELSE pwr[s]

Switched(s, c, b) ==
  /\ SetChannelPower(s, c, b)
  /\ Mutable(s, c)
  /\ pwr' = [pwr EXCEPT ![s] = Bit(@, c, b)]

Stepped ==
  /\ RampStep
  /\ \A s \in Slots : pwr'[s] = IF Mutable(s, ramp.ch) THEN Bit(pwr[s], ramp.ch, ramp.enable)
                                                       ELSE pwr[s]

\* With a reliable bus a ramp step switches one channel of every active slot.
LEMMA RampStepPower ==
  ASSUME TypeOK, ~SpiFaults, RampStep, NEW s \in Slots
  PROVE  pwr'[s] = IF Mutable(s, ramp.ch) THEN Bit(pwr[s], ramp.ch, ramp.enable)
                                          ELSE pwr[s]
<1> DEFINE v == IF Mutable(s, ramp.ch) THEN Bit(pwr[s], ramp.ch, ramp.enable) ELSE pwr[s]
<1>1. Column[s] = {v}
  <2>1. CASE Mutable(s, ramp.ch)
    <3>1. Column[s] = {o.reg : o \in SetPowerChannel(pwr[s], ramp.ch, ramp.enable)}
      BY <2>1 DEF Column
    <3>2. {o.reg : o \in SetPowerChannel(pwr[s], ramp.ch, ramp.enable)}
            = {Bit(pwr[s], ramp.ch, ramp.enable)}
      BY ReliableSetPowerChannel
    <3>3. QED
      BY <2>1, <3>1, <3>2
  <2>2. CASE ~Mutable(s, ramp.ch)
    BY <2>2 DEF Column
  <2>3. QED
    BY <2>1, <2>2
<1>2. SetPower(Column)
  BY DEF RampStep
<1> HIDE DEF v
<1>3. pwr'[s] = v
  BY <1>1, <1>2, SetPowerValue
<1>4. QED
  BY <1>3 DEF v

\* With a reliable bus EMERGENCY_OFF darkens the crate.
LEMMA EmergencyPower ==
  ASSUME TypeOK, ~SpiFaults, EmergencyOff
  PROVE  Darkened
<1>1. ASSUME NEW s \in Slots PROVE pwr'[s] = {}
  <2> DEFINE values == [t \in Slots |-> {{}} \cup IF SpiFaults THEN {pwr[t]} ELSE {}]
  <2>1. values[s] = {{}} /\ SetPower(values)
    BY DEF EmergencyOff
  <2> HIDE DEF values
  <2>2. QED
    BY <2>1, SetPowerValue
<1>2. QED
  BY <1>1 DEF Darkened

\* With a reliable bus SYS_RAMP_POWER resets the channels in error that it may
\* change, or nothing.
LEMMA SweepPower ==
  ASSUME TypeOK, ~SpiFaults, NEW b \in BOOLEAN, RampPower(b)
  PROVE  UNCHANGED pwr \/ Swept(b)
<1>1. CASE StartRamp(b)
  <2>1. ASSUME NEW s \in Slots
        PROVE  pwr'[s] = IF b /\ s \in active THEN pwr[s] \ (trip[s] \ immutable[s]) ELSE pwr[s]
    <3> DEFINE v == IF b /\ s \in active THEN pwr[s] \ (trip[s] \ immutable[s]) ELSE pwr[s]
               values == [t \in Slots |-> IF b /\ t \in active THEN PreSweep(t) ELSE {pwr[t]}]
    <3>1. PreSweep(s) = {pwr[s] \ (trip[s] \ immutable[s])}
      BY DEF PreSweep
    <3>2. values[s] = {v}
      BY <3>1
    <3>3. SetPower(values)
      BY <1>1 DEF StartRamp
    <3> HIDE DEF values, v
    <3>4. pwr'[s] = v
      BY <3>2, <3>3, SetPowerValue
    <3>5. QED
      BY <3>4 DEF v
  <2>2. QED
    BY <1>1, <2>1 DEF Swept
<1>2. QED
  BY <1>1 DEF RampPower, hardware

\* With a reliable bus SET_CH_POWER switches the channel it names, or nothing.
LEMMA CommandPower ==
  ASSUME TypeOK, ~SpiFaults, NEW s \in Slots \cup {BadSlot},
         NEW c \in 0 .. NumChannels, NEW b \in BOOLEAN, SetChannelPower(s, c, b)
  PROVE  UNCHANGED pwr \/ (s \in Slots /\ c \in Channels /\ Switched(s, c, b))
<1>1. CASE Mutable(s, c) /\ ChannelPower(s, c, b)
  <2>1. s \in Slots /\ c \in Channels
    BY <1>1 DEF Mutable, TypeOK
  <2>2. ASSUME NEW off \in ExplicitOff(s, c, b), NEW w \in SetPowerChannel(off, c, b),
               pwr' = [pwr EXCEPT ![s] = w.reg]
        PROVE  pwr' = [pwr EXCEPT ![s] = Bit(@, c, b)]
    <3>1. w.reg = Bit(off, c, b)
      BY ReliableSetPowerChannel
    <3>2. off = pwr[s] \/ (b /\ off = Bit(pwr[s], c, FALSE))
      <4>1. CASE b /\ c \in trip[s]
        <5>1. off \in {o.reg : o \in SetPowerChannel(pwr[s], c, FALSE)}
          BY <4>1 DEF ExplicitOff
        <5>2. off \in {Bit(pwr[s], c, FALSE)}
          BY <5>1, ReliableSetPowerChannel
        <5>3. QED
          BY <4>1, <5>2
      <4>2. CASE ~(b /\ c \in trip[s])
        BY <4>2 DEF ExplicitOff
      <4>3. QED
        BY <4>1, <4>2
    <3>3. Bit(off, c, b) = Bit(pwr[s], c, b)
      BY <3>2 DEF Bit
    <3>4. QED
      BY <2>2, <3>1, <3>3
  <2>3. QED
    BY <1>1, <2>1, <2>2 DEF ChannelPower, Switched
<1>2. QED
  BY <1>1 DEF SetChannelPower, hardware

\* Every way in which the power of a board changes when the bus is reliable.
LEMMA PowerStep ==
  ASSUME TypeOK, [Next]_vars, ~SpiFaults
  PROVE  \/ UNCHANGED pwr
         \/ Darkened
         \/ \E b \in BOOLEAN : Swept(b)
         \/ \E s \in Slots, c \in Channels, b \in BOOLEAN : Switched(s, c, b)
         \/ Stepped
<1> USE DEF server, config, ramping, hardware, network, owners, history
<1>1. CASE EmergencyOff
  BY <1>1, EmergencyPower
<1>2. ASSUME NEW b \in BOOLEAN, RampPower(b) PROVE UNCHANGED pwr \/ Swept(b)
  BY <1>2, SweepPower
<1>3. ASSUME NEW s \in Slots \cup {BadSlot}, NEW c \in 0 .. NumChannels,
             NEW b \in BOOLEAN, SetChannelPower(s, c, b)
      PROVE  UNCHANGED pwr \/ (s \in Slots /\ c \in Channels /\ Switched(s, c, b))
  BY <1>3, CommandPower
<1>4. CASE RampStep
  BY <1>4, RampStepPower DEF Stepped
<1>5. CASE \/ NothingToAccept \/ RejectSecondClient \/ AcceptClient \/ NoRequest
           \/ DropIdleClient \/ LoseClient \/ RefuseRequest \/ OtherCommand
           \/ SendFails \/ ClientReads \/ RampWaits \/ Tick \/ Restart \/ UNCHANGED vars
           \/ \E b \in BOOLEAN : Hello(b)
           \/ \E cfg \in Configs : SetConfig(cfg)
           \/ \E c \in Clients : Connect(c) \/ Send(c) \/ Leave(c)
           \/ \E s \in Slots, c \in Channels : Trip(s, c)
  BY <1>5
  DEF NothingToAccept, RejectSecondClient, AcceptClient, NoRequest, DropIdleClient,
      LoseClient, RefuseRequest, OtherCommand, SendFails, ClientReads,
          RampWaits, Tick, Restart, vars, Hello,
      SetConfig, Connect, Send, Leave, Trip
<1>6. QED
  BY <1>1, <1>2, <1>3, <1>4, <1>5 DEF Next, Loop, HandleRequest, Environment

-----------------------------------------------------------------------------
(* Which channels a step may touch *)

\* With a reliable bus, the ramp, its pre-sweep and every command but
\* EMERGENCY_OFF leave immutable channels and inactive slots alone, for every
\* crate and every interleaving of sessions, configurations and ramps.
THEOREM ManagedPowerCorrect ==
  ASSUME ~SpiFaults PROVE Spec => ManagedPowerOnly
<1> DEFINE A == \A s \in Slots, c \in Channels :
                  (c \in pwr[s]) # (c \in pwr'[s]) => Mutable(s, c) \/ EmergencyOff
<1>1. TypeOK /\ [Next]_vars => [A]_vars
  <2> SUFFICES ASSUME TypeOK, [Next]_vars, NEW s \in Slots, NEW c \in Channels,
                      (c \in pwr[s]) # (c \in pwr'[s]), ~EmergencyOff
               PROVE  Mutable(s, c)
    OBVIOUS
  <2>1. CASE \E b \in BOOLEAN : Swept(b)
    <3>1. \/ pwr'[s] = pwr[s]
          \/ s \in active /\ pwr'[s] = pwr[s] \ (trip[s] \ immutable[s])
      BY <2>1 DEF Swept
    <3>2. s \in active /\ c \in trip[s] \ immutable[s]
      BY <3>1
    <3>3. QED
      BY <3>2 DEF Mutable
  <2>2. CASE \E t \in Slots, d \in Channels, b \in BOOLEAN : Switched(t, d, b)
    <3>1. PICK t \in Slots, d \in Channels, b \in BOOLEAN : Switched(t, d, b)
      BY <2>2
    <3>2. s = t /\ c = d
      BY <3>1 DEF Switched, Bit, TypeOK, Masks
    <3>3. QED
      BY <3>1, <3>2 DEF Switched
  <2>3. CASE Stepped
    <3>1. Mutable(s, ramp.ch) /\ pwr'[s] = Bit(pwr[s], ramp.ch, ramp.enable)
      BY <2>3 DEF Stepped
    <3>2. c = ramp.ch
      BY <3>1 DEF Bit
    <3>3. QED
      BY <3>1, <3>2
  <2>4. QED
    BY <2>1, <2>2, <2>3, PowerStep DEF Darkened
<1>2. QED
  BY <1>1, TypeCorrect, PTL DEF Spec, ManagedPowerOnly

\* With a reliable bus no step powers up two channels of one board.
THEOREM OneChannelCorrect ==
  ASSUME ~SpiFaults PROVE Spec => OneChannelPerBoard
<1> DEFINE A == \A s \in Slots : \A c, d \in pwr'[s] \ pwr[s] : c = d
<1>1. TypeOK /\ [Next]_vars => [A]_vars
  <2> SUFFICES ASSUME TypeOK, [Next]_vars, NEW s \in Slots,
                      NEW c \in pwr'[s] \ pwr[s], NEW d \in pwr'[s] \ pwr[s]
               PROVE  c = d
    OBVIOUS
  <2>1. CASE \E t \in Slots, e \in Channels, b \in BOOLEAN : Switched(t, e, b)
    <3>1. PICK t \in Slots, e \in Channels, b \in BOOLEAN : Switched(t, e, b)
      BY <2>1
    <3>2. QED
      BY <3>1 DEF Switched, Bit, TypeOK, Masks
  <2>2. CASE Stepped
    <3>1. pwr'[s] = Bit(pwr[s], ramp.ch, ramp.enable)
      BY <2>2 DEF Stepped
    <3>2. QED
      BY <3>1 DEF Bit
  <2>3. QED
    BY <2>1, <2>2, PowerStep DEF Darkened, Swept
<1>2. QED
  BY <1>1, TypeCorrect, PTL DEF Spec, OneChannelPerBoard

-----------------------------------------------------------------------------
(* What a ramp has brought about *)

RampInv == TypeOK /\ RampDelivers

\* With a reliable bus an undisturbed ramp has brought every channel it passed,
\* except immutable ones, to the state asked for, at every step of every
\* interleaving with requests, sessions and trips.
THEOREM RampCorrect ==
  ASSUME ~SpiFaults PROVE Spec => []RampDelivers
<1>1. Init => RampInv
  BY InitType DEF RampInv, RampDelivers, Init
<1>2. RampInv /\ [Next]_vars => RampInv'
  <2> SUFFICES ASSUME TypeOK, RampDelivers, [Next]_vars, clean',
                      NEW s \in active', NEW c \in Channels,
                      c < ramp'.ch, Mutable(s, c)'
               PROVE  c \in pwr'[s] <=> ramp'.enable
    BY TypeStep DEF RampInv, RampDelivers
  <2> USE DEF server, config, ramping, hardware, network, owners, history
  <2>1. CASE RampStep
    <3>1. /\ s \in active /\ Mutable(s, c) /\ clean
          /\ s \in Slots
          /\ ramp'.enable = ramp.enable /\ ramp'.ch = ramp.ch + 1
      BY <2>1 DEF RampStep, RampAfterStep, Mutable, TypeOK
    <3>2. pwr'[s] = IF Mutable(s, ramp.ch) THEN Bit(pwr[s], ramp.ch, ramp.enable)
                                           ELSE pwr[s]
      BY <2>1, <3>1, RampStepPower
    <3>3. CASE c = ramp.ch
      BY <3>1, <3>2, <3>3 DEF Bit
    <3>4. CASE c < ramp.ch
      <4>1. c \in pwr[s] <=> ramp.enable
        BY <3>1, <3>4 DEF RampDelivers
      <4>2. c # ramp.ch
        BY <3>4 DEF TypeOK, Channels
      <4>3. c \in pwr'[s] <=> c \in pwr[s]
        BY <3>2, <4>2 DEF Bit
      <4>4. QED
        BY <3>1, <4>1, <4>3
    <3>5. QED
      BY <3>1, <3>3, <3>4 DEF TypeOK, Channels
  <2>2. CASE \E b \in BOOLEAN : RampPower(b)
    <3>1. CASE \E b \in BOOLEAN : StartRamp(b)
      <4>1. ramp'.ch = 1
        BY <3>1 DEF StartRamp, NewRamp
      <4>2. QED
        BY <4>1 DEF Channels
    <3>2. CASE active' = {}
      BY <3>2
    <3>3. QED
      BY <2>2, <3>1, <3>2 DEF RampPower
  <2>3. CASE AcceptClient
    BY <2>3 DEF AcceptClient, ResetSession
  <2>4. CASE Restart \/ EmergencyOff \/ (\E cfg \in Configs : SetConfig(cfg))
             \/ \E t, d, b : SetChannelPower(t, d, b)
    BY <2>4 DEF Restart, EmergencyOff, SetConfig, SetChannelPower
  <2>5. CASE \/ NothingToAccept \/ RejectSecondClient \/ NoRequest
             \/ DropIdleClient \/ LoseClient \/ RefuseRequest \/ OtherCommand
             \/ SendFails \/ ClientReads \/ RampWaits \/ Tick \/ UNCHANGED vars
             \/ \E b \in BOOLEAN : Hello(b)
             \/ \E d \in Clients : Connect(d) \/ Send(d) \/ Leave(d)
             \/ \E t \in Slots, d \in Channels : Trip(t, d)
    <3>1. UNCHANGED <<pwr, ramp, active, immutable, clean>>
      BY <2>5
      DEF NothingToAccept, RejectSecondClient, NoRequest, DropIdleClient, LoseClient,
          RefuseRequest, OtherCommand, SendFails, ClientReads, RampWaits, Tick, vars, Hello, Connect, Send,
          Leave, Trip
    <3>2. QED
      BY <3>1 DEF RampDelivers, Mutable
  <2>6. QED
    BY <2>1, <2>2, <2>3, <2>4, <2>5 DEF Next, Loop, HandleRequest, Environment
<1>3. RampInv => RampDelivers
  BY DEF RampInv
<1>4. QED
  BY <1>1, <1>2, <1>3, PTL DEF Spec

-----------------------------------------------------------------------------
(* Emergency off *)

\* A ramp under way after EMERGENCY_OFF, before power is asked for again, is a
\* ramp down.
NoRampUp == killed => (ramp.active => ~ramp.enable)

\* No step makes a ramp up of a ramp down while the crate is held off.
LEMMA NoRampUpStep == TypeOK /\ NoRampUp /\ [Next]_vars => NoRampUp'
<1> SUFFICES ASSUME TypeOK, NoRampUp, [Next]_vars, killed', ramp'.active
             PROVE  ~ramp'.enable
  BY DEF NoRampUp
<1> USE DEF server, config, ramping, hardware, network, owners, history
<1>1. CASE AcceptClient \/ EmergencyOff \/ Restart
  <2>1. CASE Restart
    BY <2>1 DEF Restart
  <2>2. CASE AcceptClient \/ EmergencyOff
    BY <2>2, RampType DEF AcceptClient, ResetSession, EmergencyOff, CancelledRamp,
                          TypeOK, Ramps
  <2>3. QED
    BY <1>1, <2>1, <2>2
<1>2. ASSUME NEW b \in BOOLEAN, RampPower(b) PROVE ~ramp'.enable
  <2>1. CASE StartRamp(b)
    BY <2>1 DEF StartRamp, NewRamp
  <2>2. QED
    BY <1>2, <2>1 DEF RampPower, NoRampUp
<1>3. CASE RampStep
  BY <1>3 DEF RampStep, RampDue, RampAfterStep, NoRampUp, TypeOK
<1>4. CASE \E s, c, b : SetChannelPower(s, c, b)
  BY <1>4 DEF SetChannelPower, NoRampUp
<1>5. CASE \/ NothingToAccept \/ RejectSecondClient \/ NoRequest
           \/ DropIdleClient \/ LoseClient \/ RefuseRequest \/ OtherCommand
           \/ SendFails \/ ClientReads \/ RampWaits \/ Tick \/ UNCHANGED vars
           \/ \E b \in BOOLEAN : Hello(b)
           \/ \E cfg \in Configs : SetConfig(cfg)
           \/ \E c \in Clients : Connect(c) \/ Send(c) \/ Leave(c)
           \/ \E s \in Slots, c \in Channels : Trip(s, c)
  BY <1>5
  DEF NothingToAccept, RejectSecondClient, NoRequest, DropIdleClient, LoseClient,
      RefuseRequest, OtherCommand, SendFails, ClientReads, RampWaits, Tick, vars, Hello, SetConfig, Connect,
      Send, Leave, Trip, NoRampUp
<1>6. QED
  BY <1>1, <1>2, <1>3, <1>4, <1>5 DEF Next, Loop, HandleRequest, Environment

\* Whether or not SPI transactions time out, nothing is powered up between
\* EMERGENCY_OFF and the next command to power on.
THEOREM NoPowerUpCorrect == Spec => NoPowerUpAfterEmergency
<1> DEFINE A == killed /\ killed' => \A s \in Slots : pwr'[s] \subseteq pwr[s]
<1>1. Init => TypeOK /\ NoRampUp
  BY InitType DEF NoRampUp, Init
<1>2. TypeOK /\ NoRampUp /\ [Next]_vars => (TypeOK /\ NoRampUp)'
  BY TypeStep, NoRampUpStep
<1>3. TypeOK /\ NoRampUp /\ [Next]_vars => [A]_vars
  <2> SUFFICES ASSUME TypeOK, NoRampUp, [Next]_vars, killed, killed', NEW s \in Slots
               PROVE  pwr'[s] \subseteq pwr[s]
    OBVIOUS
  <2> USE DEF server, config, ramping, hardware, network, owners, history
  <2>1. ASSUME NEW reg \in SUBSET Channels, NEW c,
               NEW o \in SetPowerChannel(reg, c, FALSE)
        PROVE  o.reg \subseteq reg
    <3>1. \E r \in {reg, Bit(reg, c, FALSE)}, e \in BOOLEAN : o = [reg |-> r, err |-> e]
      BY DEF SetPowerChannel
    <3>2. QED
      BY <3>1 DEF Bit
  <2>2. pwr[s] \in SUBSET Channels
    BY DEF TypeOK, Masks
  <2>3. ASSUME NEW values, SetPower(values), \A v \in values[s] : v \subseteq pwr[s]
        PROVE  pwr'[s] \subseteq pwr[s]
    BY <2>3 DEF SetPower
  <2>4. CASE EmergencyOff
    <3> DEFINE values == [t \in Slots |-> {{}} \cup IF SpiFaults THEN {pwr[t]} ELSE {}]
    <3>1. SetPower(values) /\ \A v \in values[s] : v \subseteq pwr[s]
      BY <2>4 DEF EmergencyOff
    <3> HIDE DEF values
    <3>2. QED
      BY <3>1, <2>3
  <2>5. ASSUME NEW b \in BOOLEAN, RampPower(b) PROVE pwr'[s] \subseteq pwr[s]
    <3>1. CASE StartRamp(b)
      <4> DEFINE values == [t \in Slots |-> IF b /\ t \in active THEN PreSweep(t) ELSE {pwr[t]}]
      <4>1. ~b
        BY <3>1 DEF StartRamp
      <4>2. SetPower(values) /\ values[s] = {pwr[s]}
        BY <3>1, <4>1 DEF StartRamp
      <4> HIDE DEF values
      <4>3. QED
        BY <4>2, <2>3
    <3>2. QED
      BY <2>5, <3>1 DEF RampPower
  <2>6. ASSUME NEW t \in Slots \cup {BadSlot}, NEW c \in 0 .. NumChannels,
               NEW b \in BOOLEAN, SetChannelPower(t, c, b)
        PROVE  pwr'[s] \subseteq pwr[s]
    <3>1. ~b
      BY <2>6 DEF SetChannelPower
    <3>2. ASSUME t \in Slots, NEW off \in ExplicitOff(t, c, b), NEW w \in SetPowerChannel(off, c, b),
                 pwr' = [pwr EXCEPT ![t] = w.reg]
          PROVE  pwr'[s] \subseteq pwr[s]
      <4>1. off = pwr[t] /\ pwr[t] \in SUBSET Channels
        BY <3>1, <3>2 DEF ExplicitOff, TypeOK, Masks
      <4>2. w.reg \subseteq pwr[t]
        BY <2>1, <3>1, <4>1
      <4>3. QED
        BY <3>2, <4>2 DEF TypeOK, Masks
    <3>3. QED
      BY <2>6, <3>2 DEF SetChannelPower, ChannelPower, Mutable, TypeOK
  <2>7. CASE RampStep
    <3>1. ~ramp.enable /\ SetPower(Column)
      BY <2>7 DEF RampStep, RampDue, NoRampUp
    <3>2. \A v \in Column[s] : v \subseteq pwr[s]
      <4>1. CASE Mutable(s, ramp.ch)
        <5>1. Column[s] = {o.reg : o \in SetPowerChannel(pwr[s], ramp.ch, ramp.enable)}
          BY <4>1 DEF Column
        <5>2. ramp.enable = FALSE
          BY <3>1 DEF TypeOK
        <5>3. QED
          BY <2>1, <2>2, <5>1, <5>2
      <4>2. CASE ~Mutable(s, ramp.ch)
        BY <4>2 DEF Column
      <4>3. QED
        BY <4>1, <4>2
    <3>3. QED
      BY <2>3, <3>1, <3>2
  <2>8. CASE \/ NothingToAccept \/ RejectSecondClient \/ AcceptClient \/ NoRequest
             \/ DropIdleClient \/ LoseClient \/ RefuseRequest \/ OtherCommand
             \/ SendFails \/ ClientReads \/ RampWaits \/ Tick \/ Restart \/ UNCHANGED vars
             \/ \E b \in BOOLEAN : Hello(b)
             \/ \E cfg \in Configs : SetConfig(cfg)
             \/ \E c \in Clients : Connect(c) \/ Send(c) \/ Leave(c)
             \/ \E t \in Slots, c \in Channels : Trip(t, c)
    <3>1. UNCHANGED pwr
      BY <2>8
      DEF NothingToAccept, RejectSecondClient, AcceptClient, NoRequest, DropIdleClient,
          LoseClient, RefuseRequest, OtherCommand, SendFails, ClientReads,
          RampWaits, Tick, Restart, vars, Hello,
          SetConfig, Connect, Send, Leave, Trip
    <3>2. QED
      BY <3>1
  <2>9. QED
    BY <2>4, <2>5, <2>6, <2>7, <2>8 DEF Next, Loop, HandleRequest, Environment
<1>4. QED
  BY <1>1, <1>2, <1>3, PTL DEF Spec, NoPowerUpAfterEmergency

EmergencyInv == TypeOK /\ NoRampUp /\ EmergencyHolds

\* With a reliable bus the crate stays dark from EMERGENCY_OFF until a client
\* asks for power, whatever ramp, session or restart comes between.
THEOREM EmergencyCorrect ==
  ASSUME ~SpiFaults PROVE Spec => []EmergencyHolds
<1>1. Init => EmergencyInv
  BY InitType DEF EmergencyInv, NoRampUp, EmergencyHolds, Init
<1>2. EmergencyInv /\ [Next]_vars => EmergencyInv'
  <2> SUFFICES ASSUME TypeOK, NoRampUp, EmergencyHolds, [Next]_vars, killed',
                      NEW s \in Slots
               PROVE  pwr'[s] = {}
    BY TypeStep, NoRampUpStep DEF EmergencyInv, EmergencyHolds
  <2> USE DEF server, config, ramping, hardware, network, owners, history
  <2>1. CASE EmergencyOff
    BY <2>1, EmergencyPower DEF Darkened
  <2>2. ASSUME NEW b \in BOOLEAN, RampPower(b) PROVE pwr'[s] = {}
    <3>1. killed
      BY <2>2 DEF RampPower, StartRamp
    <3>2. CASE Swept(b)
      BY <3>1, <3>2 DEF Swept, EmergencyHolds
    <3>3. QED
      BY <2>2, <3>1, <3>2, SweepPower DEF EmergencyHolds
  <2>3. ASSUME NEW t \in Slots \cup {BadSlot}, NEW c \in 0 .. NumChannels,
               NEW b \in BOOLEAN, SetChannelPower(t, c, b)
        PROVE  pwr'[s] = {}
    <3>1. killed /\ ~b
      BY <2>3 DEF SetChannelPower
    <3>2. CASE t \in Slots /\ Switched(t, c, b)
      BY <3>1, <3>2 DEF Switched, Bit, EmergencyHolds, TypeOK, Masks
    <3>3. QED
      BY <2>3, <3>1, <3>2, CommandPower DEF EmergencyHolds
  <2>4. CASE RampStep
    <3>1. killed /\ ~ramp.enable
      BY <2>4 DEF RampStep, RampDue, NoRampUp
    <3>2. QED
      BY <2>4, <3>1, RampStepPower DEF EmergencyHolds, Bit
  <2>5. CASE \/ NothingToAccept \/ RejectSecondClient \/ AcceptClient \/ NoRequest
             \/ DropIdleClient \/ LoseClient \/ RefuseRequest \/ OtherCommand
             \/ SendFails \/ ClientReads \/ RampWaits \/ Tick \/ Restart \/ UNCHANGED vars
             \/ \E b \in BOOLEAN : Hello(b)
             \/ \E cfg \in Configs : SetConfig(cfg)
             \/ \E c \in Clients : Connect(c) \/ Send(c) \/ Leave(c)
             \/ \E t \in Slots, c \in Channels : Trip(t, c)
    <3>1. UNCHANGED <<pwr, killed>>
      BY <2>5
      DEF NothingToAccept, RejectSecondClient, AcceptClient, NoRequest, DropIdleClient,
          LoseClient, RefuseRequest, OtherCommand, SendFails, ClientReads,
          RampWaits, Tick, Restart, vars, Hello,
          SetConfig, Connect, Send, Leave, Trip
    <3>2. QED
      BY <3>1 DEF EmergencyHolds
  <2>6. QED
    BY <2>1, <2>2, <2>3, <2>4, <2>5 DEF Next, Loop, HandleRequest, Environment
<1>3. EmergencyInv => EmergencyHolds
  BY DEF EmergencyInv
<1>4. QED
  BY <1>1, <1>2, <1>3, PTL DEF Spec

-----------------------------------------------------------------------------
(* Acknowledgements *)

\* A write that is not reported as failed has set the bit.
LEMMA UnreportedWrite ==
  ASSUME NEW reg, NEW c, NEW on, NEW w \in SetPowerChannel(reg, c, on), ~w.err
  PROVE  w.reg = Bit(reg, c, on)
<1>1. CASE w = [reg |-> Bit(reg, c, on), err |-> FALSE]
  BY <1>1
<1>2. CASE \E r \in {reg, Bit(reg, c, on)} : w = [reg |-> r, err |-> TRUE]
  BY <1>2
<1>3. QED
  BY <1>1, <1>2 DEF SetPowerChannel

\* Whether or not SPI transactions time out, SET_CH_POWER for a channel the
\* server may change is acknowledged only when PONF has the requested bit.
THEOREM AckedPowerCorrect == Spec => AckedPowerIsSet
<1> DEFINE A == \A s \in active, c \in Channels, on \in BOOLEAN :
                  Mutable(s, c) /\ SetChannelPower(s, c, on) /\ reply' = "ACK"
                    => (c \in pwr'[s] <=> on)
<1>1. TypeOK /\ [Next]_vars => [A]_vars
  <2> SUFFICES ASSUME TypeOK, NEW s \in active, NEW c \in Channels, NEW on \in BOOLEAN,
                      Mutable(s, c), SetChannelPower(s, c, on), reply' = "ACK"
               PROVE  c \in pwr'[s] <=> on
    OBVIOUS
  <2>1. ChannelPower(s, c, on)
    BY DEF SetChannelPower, Mutable, Answer
  <2>2. PICK off \in ExplicitOff(s, c, on) :
          \E w \in SetPowerChannel(off, c, on) :
            /\ pwr' = [pwr EXCEPT ![s] = w.reg]
            /\ Answer(IF w.err THEN "ERROR" ELSE "ACK")
    BY <2>1 DEF ChannelPower, Answer
  <2>3. PICK w \in SetPowerChannel(off, c, on) :
            /\ pwr' = [pwr EXCEPT ![s] = w.reg]
            /\ Answer(IF w.err THEN "ERROR" ELSE "ACK")
    BY <2>2
  <2>4. w.reg = Bit(off, c, on)
    BY <2>3, UnreportedWrite DEF Answer
  <2>5. pwr'[s] = Bit(off, c, on)
    BY <2>3, <2>4 DEF TypeOK, Masks
  <2>6. QED
    BY <2>5 DEF Bit
<1>2. QED
  BY <1>1, TypeCorrect, PTL DEF Spec, AckedPowerIsSet

\* With a reliable bus, SET_CH_POWER(on) for a channel in error leaves no latch when it is
\* acknowledged: the explicit OFF has cleared it before the ON is written.
THEOREM AckedRecoveryCorrect ==
  ASSUME ~SpiFaults
  PROVE  Spec => AckedPowerRecovers
<1> DEFINE A == \A s \in active, c \in Channels :
                  Mutable(s, c) /\ SetChannelPower(s, c, TRUE) /\ reply' = "ACK"
                    => c \notin trip'[s]
<1>1. TypeOK /\ [Next]_vars => [A]_vars
  <2> SUFFICES ASSUME TypeOK, NEW s \in active, NEW c \in Channels,
                      Mutable(s, c), SetChannelPower(s, c, TRUE)
               PROVE  c \notin trip'[s]
    OBVIOUS
  <2>1. ChannelPower(s, c, TRUE)
    BY DEF SetChannelPower, Mutable
  <2>2. PICK off \in ExplicitOff(s, c, TRUE) : \E reg :
          trip' = [trip EXCEPT ![s] = @ \cap off \cap reg]
    BY <2>1 DEF ChannelPower
  <2>3. trip'[s] \subseteq trip[s] \cap off
    BY <2>2 DEF TypeOK, Masks
  <2>4. CASE c \in trip[s]
    <3>1. ExplicitOff(s, c, TRUE) = {Bit(pwr[s], c, FALSE)}
      BY <2>4, ReliableSetPowerChannel DEF ExplicitOff
    <3>2. c \notin off
      BY <2>2, <3>1 DEF Bit
    <3>3. QED
      BY <2>3, <3>2
  <2>5. QED
    BY <2>3, <2>4
<1>2. QED
  BY <1>1, TypeCorrect, PTL DEF Spec, AckedPowerRecovers

-----------------------------------------------------------------------------
(* What the clients are promised *)

Mapped == <<pwr, trip, ManagedNow, ColumnsLeft, ramp.enable>>

\* A channel in error is on: boards latch only what they power.
Latches == \A s \in Slots : trip[s] \subseteq pwr[s]

\* The channels managed are those of the configuration and no others.
LEMMA ManagedType == ManagedNow \in Masks
  BY DEF ManagedNow, Masks

\* Without a change of configuration or ramp the abstract state's is none either.
LEMMA SameSession ==
  /\ UNCHANGED config => UNCHANGED ManagedNow
  /\ UNCHANGED ramp => UNCHANGED ColumnsLeft
  BY DEF config, ManagedNow, Mutable, ColumnsLeft

\* A latch stays until its channel is off, and no board latches what is off.
LEMMA LatchesKept == TypeOK /\ Latches /\ [Next]_vars => Latches'
<1> SUFFICES ASSUME TypeOK, Latches, [Next]_vars, NEW s \in Slots PROVE trip'[s] \subseteq pwr'[s]
  BY DEF Latches
<1> USE DEF server, config, ramping, hardware, network, owners, history
<1>1. ASSUME NEW values, SetPower(values) PROVE trip'[s] \subseteq pwr'[s]
  BY <1>1 DEF SetPower, LatchedIn
<1>2. CASE EmergencyOff
  BY <1>1, <1>2 DEF EmergencyOff
<1>3. ASSUME NEW b \in BOOLEAN, RampPower(b) PROVE trip'[s] \subseteq pwr'[s]
  BY <1>1, <1>3 DEF RampPower, StartRamp, Latches
<1>4. CASE RampStep
  BY <1>1, <1>4 DEF RampStep
<1>5. ASSUME NEW t \in Slots \cup {BadSlot}, NEW c \in 0 .. NumChannels,
             NEW b \in BOOLEAN, SetChannelPower(t, c, b)
      PROVE  trip'[s] \subseteq pwr'[s]
  <2>1. CASE UNCHANGED hardware
    BY <2>1 DEF Latches
  <2>2. CASE \E off, reg : /\ pwr' = [pwr EXCEPT ![t] = reg]
                           /\ trip' = [trip EXCEPT ![t] = @ \cap off \cap reg]
    BY <2>2 DEF Latches, TypeOK, Masks
  <2>3. QED
    BY <1>5, <2>1, <2>2 DEF SetChannelPower, ChannelPower
<1>6. ASSUME NEW t \in Slots, NEW c \in Channels, Trip(t, c) PROVE trip'[s] \subseteq pwr'[s]
  BY <1>6 DEF Trip, Latches, TypeOK, Masks
<1>7. CASE \/ NothingToAccept \/ RejectSecondClient \/ AcceptClient \/ NoRequest
           \/ DropIdleClient \/ LoseClient \/ RefuseRequest \/ OtherCommand
           \/ SendFails \/ ClientReads \/ RampWaits \/ Tick \/ Restart \/ UNCHANGED vars
           \/ \E b \in BOOLEAN : Hello(b)
           \/ \E cfg \in Configs : SetConfig(cfg)
           \/ \E c \in Clients : Connect(c) \/ Send(c) \/ Leave(c)
  <2>1. UNCHANGED <<pwr, trip>>
    BY <1>7
    DEF NothingToAccept, RejectSecondClient, AcceptClient, NoRequest, DropIdleClient,
        LoseClient, RefuseRequest, OtherCommand, SendFails, ClientReads,
          RampWaits, Tick, Restart, vars, Hello,
        SetConfig, Connect, Send, Leave
  <2>2. QED
    BY <2>1 DEF Latches
<1>8. QED
  BY <1>2, <1>3, <1>4, <1>5, <1>6, <1>7 DEF Next, Loop, HandleRequest, Environment

\* A step that gives every board the power listed for it, and keeps the latches of
\* what stays on, supplies that power.
LEMMA SuppliesPower ==
  ASSUME NEW values, SetPower(values), NEW f, f = [s \in Slots |-> f[s]],
         \A s \in Slots : pwr'[s] = f[s]
  PROVE  Promise!Supplies(f)
<1>1. pwr' = f
  BY DEF SetPower, Masks
<1>2. QED
  BY <1>1 DEF SetPower, LatchedIn, Promise!Supplies

\* A new connection and a restart of the process start with nothing managed.
LEMMA PromisedNewClient ==
  ASSUME TypeOK, AcceptClient \/ Restart
  PROVE  Promise!NewClient
<1>1. active' = {} /\ ramp'.active = FALSE /\ ramp'.enable \in BOOLEAN
  <2>1. CASE AcceptClient
    <3>1. active' = {} /\ ramp' = [ramp EXCEPT !.active = FALSE]
      BY <2>1 DEF AcceptClient, ResetSession
    <3>2. ramp \in [active : BOOLEAN, enable : BOOLEAN, ch : 0 .. NumChannels + 1]
      BY DEF TypeOK
    <3>3. QED
      BY <3>1, <3>2
  <2>2. CASE Restart
    BY <2>2 DEF Restart
  <2>3. QED
    BY <2>1, <2>2
<1>2. UNCHANGED <<pwr, trip>>
  BY DEF AcceptClient, Restart, hardware
<1>3. ManagedNow' = [s \in Slots |-> {}] /\ ColumnsLeft' = {}
  BY <1>1 DEF ManagedNow, Mutable, ColumnsLeft
<1>4. QED
  BY <1>1, <1>2, <1>3 DEF Promise!NewClient

\* SYS_SET_CONFIG chooses what is managed, also for a ramp under way.
LEMMA PromisedConfigure ==
  ASSUME TypeOK, NEW cfg \in Configs, SetConfig(cfg)
  PROVE  Promise!Configure
<1>1. UNCHANGED <<pwr, trip, ramp>>
  BY DEF SetConfig, hardware, ramping
<1>2. ManagedNow' \in Promise!Supply
  BY DEF ManagedNow, Promise!Supply
<1>3. QED
  BY <1>1, <1>2, SameSession DEF Promise!Configure

\* SYS_EMERGENCY_OFF is one step that darkens the crate and ends the ramp.
LEMMA PromisedDarken ==
  ASSUME TypeOK, ~SpiFaults, EmergencyOff
  PROVE  Promise!Darken
<1>1. Promise!Supplies([s \in Slots |-> {}])
  <2>1. \A s \in Slots : pwr'[s] = [t \in Slots |-> {}][s]
    BY EmergencyPower DEF Darkened
  <2>2. \E values : SetPower(values)
    BY DEF EmergencyOff
  <2>3. QED
    BY <2>1, <2>2, SuppliesPower
<1>2. ramp'.active = FALSE /\ ramp'.enable = ramp.enable /\ UNCHANGED config
  BY DEF EmergencyOff, CancelledRamp, TypeOK
<1>3. QED
  BY <1>1, <1>2, SameSession DEF Promise!Darken, ColumnsLeft

\* SYS_RAMP_POWER is refused, or resets the managed channels in error and lays out
\* the columns.
LEMMA PromisedRamp ==
  ASSUME TypeOK, ~SpiFaults, NEW b \in BOOLEAN, RampPower(b)
  PROVE  Promise!StartRamp(b) \/ UNCHANGED Mapped
<1>1. CASE StartRamp(b)
  <2> DEFINE f == [s \in Slots |-> IF b THEN pwr[s] \ (trip[s] \cap ManagedNow[s]) ELSE pwr[s]]
             values == [s \in Slots |-> IF b /\ s \in active THEN PreSweep(s) ELSE {pwr[s]}]
  <2>1. SetPower(values)
    BY <1>1 DEF StartRamp
  <2>2. ASSUME NEW s \in Slots PROVE pwr'[s] = f[s]
    <3>1. s \in active => PreSweep(s) = {pwr[s] \ (trip[s] \ immutable[s])}
      BY DEF PreSweep
    <3>2. IF s \in active THEN trip[s] \ immutable[s] = trip[s] \cap ManagedNow[s]
                          ELSE ManagedNow[s] = {}
      BY DEF ManagedNow, Mutable, TypeOK, Masks
    <3>3. values[s] = {f[s]}
      BY <3>1, <3>2
    <3> HIDE DEF values, f
    <3>4. QED
      BY <2>1, <3>3, SetPowerValue
  <2>3. f = [s \in Slots |-> f[s]]
    OBVIOUS
  <2> HIDE DEF f, values
  <2>4. Promise!Supplies(f)
    BY <2>1, <2>2, <2>3, SuppliesPower
  <2>5. UNCHANGED ManagedNow
    BY SameSession DEF RampPower
  <2>6. ColumnsLeft' = Channels /\ ramp'.enable = b
    BY <1>1 DEF StartRamp, NewRamp, ColumnsLeft, Channels
  <2>7. QED
    BY <2>4, <2>5, <2>6 DEF Promise!StartRamp, f
<1>2. CASE UNCHANGED <<ramping, hardware>>
  BY <1>2, SameSession DEF RampPower, ramping, hardware, Mapped
<1>3. QED
  BY <1>1, <1>2 DEF RampPower

\* SET_CH_POWER switches a managed channel, or nothing: the explicit OFF and the write
\* that follows are one step for the clients, which takes the latch away.
LEMMA PromisedSwitch ==
  ASSUME TypeOK, Latches, ~SpiFaults, NEW s \in Slots \cup {BadSlot},
         NEW c \in 0 .. NumChannels, NEW b \in BOOLEAN, SetChannelPower(s, c, b)
  PROVE  \/ s \in Slots /\ c \in Channels /\ Promise!Switch(s, c, b)
         \/ UNCHANGED Mapped
<1>1. UNCHANGED <<ManagedNow, ColumnsLeft, ramp>>
  BY SameSession DEF SetChannelPower, ramping
<1>2. CASE Mutable(s, c) /\ ChannelPower(s, c, b)
  <2>1. s \in Slots /\ c \in Channels /\ c \in ManagedNow[s]
    BY <1>2 DEF Mutable, TypeOK, ManagedNow
  <2>2. PICK off \in ExplicitOff(s, c, b) : \E w \in SetPowerChannel(off, c, b) :
          /\ pwr' = [pwr EXCEPT ![s] = w.reg]
          /\ trip' = [trip EXCEPT ![s] = @ \cap off \cap w.reg]
    BY <1>2 DEF ChannelPower
  <2>3. /\ pwr' = [pwr EXCEPT ![s] = Bit(off, c, b)]
        /\ trip' = [trip EXCEPT ![s] = @ \cap off \cap Bit(off, c, b)]
    <3>1. PICK w \in SetPowerChannel(off, c, b) :
            /\ pwr' = [pwr EXCEPT ![s] = w.reg]
            /\ trip' = [trip EXCEPT ![s] = @ \cap off \cap w.reg]
      BY <2>2
    <3>2. w.reg = Bit(off, c, b)
      BY ReliableSetPowerChannel
    <3>3. QED
      BY <3>1, <3>2
  <2>4. /\ off = pwr[s] \/ (b /\ off = pwr[s] \ {c})
        /\ b /\ c \in trip[s] => off = pwr[s] \ {c}
    <3>1. CASE b /\ c \in trip[s]
      <4>1. ExplicitOff(s, c, b) = {Bit(pwr[s], c, FALSE)}
        BY <3>1, ReliableSetPowerChannel DEF ExplicitOff
      <4>2. QED
        BY <3>1, <4>1 DEF Bit
    <3>2. CASE ~(b /\ c \in trip[s])
      BY <3>2 DEF ExplicitOff
    <3>3. QED
      BY <3>1, <3>2
  <2>5. Bit(off, c, b) = Promise!Bit(pwr[s], c, b)
    BY <2>4 DEF Bit, Promise!Bit
  <2>6. trip[s] \cap off \cap Bit(off, c, b) = trip[s] \ {c}
    BY <2>1, <2>4 DEF Bit, Latches
  <2>7. QED
    BY <1>1, <2>1, <2>3, <2>5, <2>6 DEF Promise!Switch
<1>3. CASE UNCHANGED hardware
  BY <1>1, <1>3 DEF hardware, Mapped
<1>4. QED
  BY <1>2, <1>3 DEF SetChannelPower

\* A step of the ramp switches the next column.
LEMMA PromisedColumn ==
  ASSUME TypeOK, ~SpiFaults, RampStep
  PROVE  Promise!Column(ramp.ch) /\ ramp.ch \in Channels
<1> DEFINE f == [s \in Slots |-> IF ramp.ch \in ManagedNow[s]
                                   THEN Promise!Bit(pwr[s], ramp.ch, ramp.enable) ELSE pwr[s]]
<1>1. ramp.active /\ ramp.ch \in Channels
  BY DEF RampStep, RampDue, TypeOK
<1>2. Promise!Supplies(f)
  <2>1. ASSUME NEW s \in Slots PROVE pwr'[s] = f[s]
    BY <1>1, RampStepPower DEF ManagedNow, Bit, Promise!Bit
  <2>2. SetPower(Column) /\ f = [s \in Slots |-> f[s]]
    BY DEF RampStep
  <2> HIDE DEF f
  <2>3. QED
    BY <2>1, <2>2, SuppliesPower
<1>3. UNCHANGED ManagedNow
  BY SameSession DEF RampStep
<1>4. /\ ramp'.enable = ramp.enable /\ ramp'.ch = ramp.ch + 1
      /\ ramp'.active = (ramp.ch < NumChannels)
  BY DEF RampStep, RampAfterStep, TypeOK
<1>5. ColumnsLeft' = ColumnsLeft \ {ramp.ch}
  <2>1. ASSUME NEW c \in Channels
        PROVE  (ramp'.active /\ ramp'.ch <= c) <=> (ramp.ch <= c /\ c # ramp.ch)
    <3>1. (ramp.ch < NumChannels /\ ramp.ch + 1 <= c) <=> (ramp.ch <= c /\ c # ramp.ch)
      BY <1>1, BoundsAssumption DEF Channels
    <3>2. QED
      BY <1>4, <3>1
  <2>2. QED
    BY <1>1, <2>1 DEF ColumnsLeft
<1>6. ramp.ch \in ColumnsLeft /\ \A d \in ColumnsLeft : ramp.ch <= d
  <2>1. ramp.ch <= ramp.ch
    BY <1>1 DEF Channels
  <2>2. QED
    BY <1>1, <2>1 DEF ColumnsLeft
<1>7. QED
  BY <1>1, <1>2, <1>3, <1>4, <1>5, <1>6 DEF Promise!Column

\* A board that latches an error is the same event for the clients.
LEMMA PromisedTrip ==
  ASSUME NEW s \in Slots, NEW c \in Channels, Trip(s, c)
  PROVE  Promise!Trip(s, c)
<1>1. UNCHANGED <<pwr, ManagedNow, ColumnsLeft, ramp>>
  BY SameSession DEF Trip, ramping
<1>2. QED
  BY <1>1 DEF Trip, Promise!Trip

\* Every step of the server is a step of the promise or none at all.
LEMMA PromiseStep ==
  ASSUME TypeOK, Latches, ~SpiFaults, [Next]_vars
  PROVE  [Promise!Next]_(Promise!vars)
<1>1. UNCHANGED Mapped => UNCHANGED Promise!vars
  BY DEF Mapped, Promise!vars
<1>2. CASE AcceptClient \/ Restart
  BY <1>2, PromisedNewClient DEF Promise!Next
<1>3. ASSUME NEW cfg \in Configs, SetConfig(cfg) PROVE Promise!Next
  BY <1>3, PromisedConfigure DEF Promise!Next
<1>4. CASE EmergencyOff
  BY <1>4, PromisedDarken DEF Promise!Next
<1>5. ASSUME NEW b \in BOOLEAN, RampPower(b) PROVE Promise!Next \/ UNCHANGED Mapped
  BY <1>5, PromisedRamp DEF Promise!Next
<1>6. ASSUME NEW s \in Slots \cup {BadSlot}, NEW c \in 0 .. NumChannels,
             NEW b \in BOOLEAN, SetChannelPower(s, c, b)
      PROVE  Promise!Next \/ UNCHANGED Mapped
  BY <1>6, PromisedSwitch DEF Promise!Next
<1>7. CASE RampStep
  BY <1>7, PromisedColumn DEF Promise!Next
<1>8. ASSUME NEW s \in Slots, NEW c \in Channels, Trip(s, c) PROVE Promise!Next
  BY <1>8, PromisedTrip DEF Promise!Next
<1>9. CASE \/ NothingToAccept \/ RejectSecondClient \/ NoRequest \/ DropIdleClient
           \/ LoseClient \/ RefuseRequest \/ OtherCommand \/ SendFails \/ ClientReads \/ RampWaits \/ Tick
           \/ UNCHANGED vars
           \/ \E b \in BOOLEAN : Hello(b)
           \/ \E c \in Clients : Connect(c) \/ Send(c) \/ Leave(c)
  <2>1. UNCHANGED <<pwr, trip, config, ramp>>
    BY <1>9
    DEF NothingToAccept, RejectSecondClient, NoRequest, DropIdleClient, LoseClient,
        RefuseRequest, OtherCommand, SendFails, ClientReads, RampWaits, Tick, vars, Hello, Connect, Send, Leave,
        hardware, ramping, config
  <2>2. QED
    BY <1>1, <2>1, SameSession DEF Mapped
<1>10. QED
  BY <1>1, <1>2, <1>3, <1>4, <1>5, <1>6, <1>7, <1>8, <1>9
  DEF Next, Loop, HandleRequest, Environment

\* With a reliable bus the server implements PowerPromise, for every crate, every set of
\* clients and every schedule: whatever the sessions, refusals, delays, restarts and the
\* requests between two steps of a ramp, the power changes as the clients were promised.
THEOREM PromiseKept ==
  ASSUME ~SpiFaults
  PROVE  Spec => KeepsPromise
<1>1. Init => Latches /\ Promise!Init
  BY DEF Init, Latches, Masks, ManagedNow, Mutable, ColumnsLeft, Promise!Init, Promise!Supply
<1>2. Spec => []Latches
  <2>1. TypeOK /\ Latches /\ [Next]_vars => Latches'
    BY LatchesKept
  <2>2. QED
    BY <1>1, <2>1, TypeCorrect, PTL DEF Spec
<1>3. TypeOK /\ Latches /\ [Next]_vars => [Promise!Next]_(Promise!vars)
  BY PromiseStep
<1>4. QED
  BY <1>1, <1>2, <1>3, TypeCorrect, PTL DEF Spec, KeepsPromise, Promise!Spec

=============================================================================
