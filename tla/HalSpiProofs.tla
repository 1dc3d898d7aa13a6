---------------------------- MODULE HalSpiProofs ----------------------------
(* Theorems about the SPI driver, for every crate, every duration of a     *)
(* transaction and every timeout.                                          *)
EXTENDS HalSpi, TLAPS

AllCalls == Reads \cup Writes \cup ChannelCalls \cup DelayCalls

\* What a call carries, by its kind.
LEMMA CallKinds ==
  ASSUME NEW c \in AllCalls
  PROVE  /\ c.op \in {"read", "write", "channel", "setDelay", "getDelay"}
         /\ c.slot \in Slots \cup {BadSlot}
         /\ c.op = "read" => c \in Reads /\ c.reg \in Registers
         /\ c.op = "write" => /\ c \in Writes
                              /\ c.reg \in Registers \ Volatile
                              /\ c.value \in Values
         /\ c.op = "channel" => /\ c \in ChannelCalls
                                /\ c.ch \in 0 .. NumChannels
                                /\ c.on \in BOOLEAN
         /\ c.op = "setDelay" => c.ch \in 0 .. NumChannels /\ c.value \in DelayCodes
         /\ c.op = "getDelay" => c.ch \in 0 .. NumChannels
<1>1. CASE c \in Reads
  BY <1>1 DEF Reads
<1>2. CASE c \in Writes
  BY <1>2 DEF Writes
<1>3. CASE c \in ChannelCalls
  BY <1>3 DEF ChannelCalls
<1>4. CASE c \in DelayCalls
  BY <1>4 DEF DelayCalls
<1>5. QED
  BY <1>1, <1>2, <1>3, <1>4 DEF AllCalls

\* Values are sets of channels.
LEMMA BitType ==
  ASSUME NEW v \in Values, NEW c \in Channels, NEW on \in BOOLEAN
  PROVE  Bit(v, c, on) \in Values
  BY DEF Bit, Values

-----------------------------------------------------------------------------
(* The invariant: what the controller's registers hold at each access *)

\* The word that a write in preparation will carry.
Prepared ==
  pc = "tx" =>
    /\ call # NoCall /\ call.op \in {"write", "channel"}
    /\ call.op = "write" => sptx = call.value
    /\ call.op = "channel" => sptx = Bit(before, call.ch, call.on)

\* The transaction of a read that is waited for is the call's own, and SPRX
\* holds its answer once SPIBUSY is clear.
ReadUnderWay ==
  pc \in {"readPoll", "fetch"} =>
    /\ call # NoCall /\ call.op \in {"read", "channel"}
    /\ spi.read
    /\ spi.slot = call.slot
    /\ spi.reg = IF call.op = "read" THEN call.reg ELSE Power
    /\ pc = "fetch" => spi.left = 0
    /\ spi.left = 0 /\ call.op = "channel" => sprx = before

WriteUnderWay ==
  pc = "writePoll" => call # NoCall /\ call.op \in {"write", "channel"} /\ ~spi.read

DelayUnderWay ==
  pc \in {"delayPoll", "l1del"} => call # NoCall /\ call.op \in {"setDelay", "getDelay"}

\* PONF of the call's slot is as it was when a channel call was made, until
\* the call writes it.
PowerOfCall ==
  call # NoCall /\ call.op = "channel" =>
    LET power == board[call.slot][Power]
        changed == Bit(before, call.ch, call.on)
    IN /\ pc \in {"readPoll", "fetch", "tx"} => power = before
       /\ pc = "writePoll" => power = changed
       /\ pc = "idle" /\ result.status = "ok" => power = changed
       /\ pc = "idle" /\ result.status = "timeout" => power \in {before, changed}

PollsLeft == Polling => polls > 0

HalInv ==
  /\ TypeOK /\ PollsLeft
  /\ Prepared /\ ReadUnderWay /\ WriteUnderWay /\ DelayUnderWay
  /\ PowerOfCall

-----------------------------------------------------------------------------
(* Types *)

StartAny(c) == StartRead(c) \/ StartWrite(c) \/ StartDelay(c)

\* What is known of the running call.
LEMMA RunningKinds ==
  ASSUME TypeOK, call # NoCall
  PROVE  call \in AllCalls /\ Valid(call) /\ call.slot \in Slots
  BY DEF TypeOK, Valid, AllCalls

\* SPAD of a write: the register, the word and the transaction.
LEMMA AddressTypes ==
  ASSUME HalInv, Address
  PROVE  /\ call \in AllCalls /\ call.slot \in Slots
         /\ (IF call.op = "write" THEN call.reg ELSE Power) \in Registers \ Volatile
         /\ board' \in [Slots -> [Registers -> Values]]
         /\ spi' = [left |-> Cycle, read |-> FALSE, slot |-> call.slot,
                     reg |-> IF call.op = "write" THEN call.reg ELSE Power]
<1> DEFINE reg == IF call.op = "write" THEN call.reg ELSE Power
<1>1. call # NoCall /\ call.op \in {"write", "channel"}
  BY DEF HalInv, Prepared, Address
<1>2. call \in AllCalls /\ call.slot \in Slots
  BY <1>1, RunningKinds DEF HalInv
<1>3. reg \in Registers \ Volatile
  BY <1>1, <1>2, CallKinds DEF Registers, Volatile, Power, Errors
<1>4. spi' = [left |-> Cycle, read |-> FALSE, slot |-> call.slot, reg |-> reg]
  BY DEF Address, StartTransaction
<1>5. board' = AfterWrite(call.slot, reg, sptx)
  BY DEF Address
<1>6. sptx \in Values /\ board \in [Slots -> [Registers -> Values]]
  BY DEF HalInv, TypeOK
<1> HIDE DEF reg
<1>7. AfterWrite(call.slot, reg, sptx) \in [Slots -> [Registers -> Values]]
  BY <1>2, <1>3, <1>6 DEF AfterWrite, Values, Registers, Power, Errors
<1>8. QED
  BY <1>2, <1>3, <1>4, <1>5, <1>7 DEF reg

\* One unit of a transaction.
LEMMA ProgressTypes ==
  ASSUME TypeOK, Busy, Progress
  PROVE  /\ spi' \in [left : 0 .. Cycle, read : BOOLEAN, slot : Slots, reg : Registers]
         /\ spi'.left = spi.left - 1
         /\ spi'.read = spi.read /\ spi'.slot = spi.slot /\ spi'.reg = spi.reg
         /\ sprx' = IF spi.left = 1 /\ spi.read THEN board[spi.slot][spi.reg] ELSE sprx
         /\ sprx' \in Values
<1> USE HalAssumption
<1>1. /\ spi \in [left : 0 .. Cycle, read : BOOLEAN, slot : Slots, reg : Registers]
      /\ board \in [Slots -> [Registers -> Values]] /\ sprx \in Values
  BY DEF TypeOK
<1>2. spi.left \in 1 .. Cycle
  BY <1>1 DEF Busy
<1>3. spi' = [spi EXCEPT !.left = spi.left - 1]
  BY DEF Progress
<1>4. spi' = [left |-> spi.left - 1, read |-> spi.read, slot |-> spi.slot, reg |-> spi.reg]
  BY <1>1, <1>3
<1>5. sprx' = IF spi.left = 1 /\ spi.read THEN board[spi.slot][spi.reg] ELSE sprx
  BY DEF Progress
<1>6. board[spi.slot][spi.reg] \in Values
  BY <1>1
<1>7. spi.left - 1 \in 0 .. Cycle
  BY <1>2
<1>8. QED
  BY <1>1, <1>4, <1>5, <1>6, <1>7

LEMMA TypeStep == HalInv /\ [Next]_vars => TypeOK'
<1> SUFFICES ASSUME HalInv, [Next]_vars PROVE TypeOK'
  OBVIOUS
<1>0. TypeOK
  BY DEF HalInv
<1> USE <1>0, HalAssumption
<1>1. ASSUME NEW c \in AllCalls, Refuse(c) PROVE TypeOK'
  BY <1>1 DEF TypeOK, Refuse, Outcome, Values, controller, trigger
<1>2. ASSUME NEW c \in AllCalls, StartRead(c) PROVE TypeOK'
  <2>1. c \in {d \in AllCalls : Valid(d)} /\ c.slot \in Slots
    BY <1>2 DEF StartRead, Valid
  <2>2. (IF c.op = "read" THEN c.reg ELSE Power) \in Registers
    BY CallKinds DEF Registers
  <2>3. spi' \in [left : 0 .. Cycle, read : BOOLEAN, slot : Slots, reg : Registers]
    BY <1>2, <2>1, <2>2 DEF StartRead, StartTransaction
  <2>4. before' \in Values
    BY <1>2, <2>1 DEF StartRead, Start, TypeOK, Registers
  <2>5. result' \in [status : {"none", "running", "ok", "timeout", "invalid"}, value : Values]
    BY <1>2 DEF StartRead, Start, Outcome, Values
  <2>6. QED
    BY <1>2, <2>1, <2>3, <2>4, <2>5
    DEF TypeOK, StartRead, Start, FreshCount, trigger, AllCalls
<1>3. ASSUME NEW c \in AllCalls, StartWrite(c) PROVE TypeOK'
  <2>1. c \in {d \in AllCalls : Valid(d)} /\ c.slot \in Slots
    BY <1>3 DEF StartWrite, Valid
  <2>2. sptx' \in Values
    BY <1>3, CallKinds DEF StartWrite
  <2>4. before' \in Values
    BY <1>3, <2>1 DEF StartWrite, Start, TypeOK, Registers
  <2>5. result' \in [status : {"none", "running", "ok", "timeout", "invalid"}, value : Values]
    BY <1>3 DEF StartWrite, Start, Outcome, Values
  <2>6. QED
    BY <1>3, <2>1, <2>2, <2>4, <2>5
    DEF TypeOK, StartWrite, Start, FreshCount, trigger, AllCalls
<1>4. ASSUME NEW c \in AllCalls, StartDelay(c) PROVE TypeOK'
  <2>1. c \in {d \in AllCalls : Valid(d)} /\ c.slot \in Slots
    BY <1>4 DEF StartDelay, Valid
  <2>4. before' \in Values
    BY <1>4, <2>1 DEF StartDelay, Start, TypeOK, Registers
  <2>5. result' \in [status : {"none", "running", "ok", "timeout", "invalid"}, value : Values]
    BY <1>4 DEF StartDelay, Start, Outcome, Values
  <2>6. QED
    BY <1>4, <2>1, <2>4, <2>5
    DEF TypeOK, StartDelay, Start, FreshCount, controller, trigger, AllCalls
<1>5. CASE Address
  <2>1. spi' \in [left : 0 .. Cycle, read : BOOLEAN, slot : Slots, reg : Registers]
    <3> DEFINE reg == IF call.op = "write" THEN call.reg ELSE Power
    <3>1. reg \in Registers /\ call.slot \in Slots
      BY <1>5, AddressTypes
    <3>2. spi' = [left |-> Cycle, read |-> FALSE, slot |-> call.slot, reg |-> reg]
      BY <1>5, AddressTypes
    <3> HIDE DEF reg
    <3>3. QED
      BY <3>1, <3>2
  <2>2. board' \in [Slots -> [Registers -> Values]]
    BY <1>5, AddressTypes
  <2>3. /\ pc' = "writePoll" /\ polls' = TimeoutIters
        /\ UNCHANGED <<call, result, before, sptx, sprx, trigger>>
    BY <1>5 DEF Address, FreshCount
  <2>4. QED
    BY <2>1, <2>2, <2>3 DEF TypeOK, trigger
<1>6. CASE PollBusy
  <2>1. /\ spi' \in [left : 0 .. Cycle, read : BOOLEAN, slot : Slots, reg : Registers]
        /\ sprx' \in Values
    BY <1>6, ProgressTypes DEF PollBusy, TypeOK
  <2>2. CASE polls = 1
    BY <1>6, <2>1, <2>2 DEF TypeOK, PollBusy, CountPoll, End, Outcome, Values, trigger
  <2>3. CASE polls # 1
    BY <1>6, <2>1, <2>3 DEF TypeOK, PollBusy, CountPoll, trigger, HalInv, PollsLeft
  <2>4. QED
    BY <2>2, <2>3
<1>7. CASE PollRead
  BY <1>7 DEF TypeOK, PollRead, controller, trigger
<1>8. CASE PollWrite
  BY <1>8 DEF TypeOK, PollWrite, End, Outcome, Values, controller, trigger
<1>9. CASE PollDelay
  BY <1>9 DEF TypeOK, PollDelay, controller, trigger
<1>10. CASE Fetch
  <2>1. CASE call.op = "read"
    BY <1>10, <2>1 DEF TypeOK, Fetch, End, Outcome, trigger
  <2>2. CASE call.op = "channel"
    <3>1. call.ch \in Channels /\ call.on \in BOOLEAN
      BY <1>10, <2>2, RunningKinds, CallKinds
      DEF HalInv, ReadUnderWay, Fetch, Valid, HasChannel
    <3>2. sptx' \in Values
      BY <1>10, <2>2, <3>1, BitType DEF Fetch, TypeOK
    <3>3. QED
      BY <1>10, <2>2, <3>2 DEF TypeOK, Fetch, trigger
  <2>3. QED
    BY <1>10, <2>1, <2>2 DEF Fetch
<1>11. CASE SetDelay
  <2>1. call \in AllCalls /\ Valid(call) /\ call.slot \in Slots
    BY <1>11, RunningKinds DEF HalInv, DelayUnderWay, SetDelay
  <2>2. call.ch \in Channels /\ call.value \in DelayCodes
    BY <1>11, <2>1, CallKinds DEF SetDelay, Valid, HasChannel
  <2>3. QED
    BY <1>11, <2>1, <2>2 DEF TypeOK, SetDelay, End, Outcome, Values, controller
<1>12. CASE GetDelay
  <2>1. call \in AllCalls /\ Valid(call) /\ call.slot \in Slots
    BY <1>12, RunningKinds DEF HalInv, DelayUnderWay, GetDelay
  <2>2. call.ch \in Channels
    BY <1>12, <2>1 DEF GetDelay, Valid, HasChannel
  <2>3. delays[call.slot][call.ch] \in Values
    BY <2>1, <2>2 DEF TypeOK
  <2>4. QED
    BY <1>12, <2>3 DEF TypeOK, GetDelay, End, Outcome, controller, trigger
<1>13. CASE Elapse
  BY <1>13, ProgressTypes DEF TypeOK, Elapse, driver, trigger
<1>14. CASE EndOfAdjustment
  BY <1>14 DEF TypeOK, EndOfAdjustment, driver, controller
<1>15. ASSUME NEW s \in Slots, NEW c \in Channels, Trip(s, c) PROVE TypeOK'
  <2>1. board' \in [Slots -> [Registers -> Values]]
    <3>1. board[s][Errors] \cup {c} \in Values
      BY <1>15 DEF TypeOK, Values, Registers
    <3>2. board' = [board EXCEPT ![s] = [board[s] EXCEPT ![Errors] = @ \cup {c}]]
      BY <1>15 DEF Trip
    <3>3. board \in [Slots -> [Registers -> Values]] /\ board[s] \in [Registers -> Values]
      BY <1>15 DEF TypeOK
    <3> HIDE DEF Values, Registers
    <3>4. QED
      BY <3>1, <3>2, <3>3
  <2>2. QED
    BY <1>15, <2>1 DEF TypeOK, Trip, driver, controller, trigger
<1>16. CASE Crash
  <2>1. spi' \in [left : 0 .. Cycle, read : BOOLEAN, slot : Slots, reg : Registers]
    <3>1. spi \in [left : 0 .. Cycle, read : BOOLEAN, slot : Slots, reg : Registers]
      BY DEF TypeOK
    <3>2. spi' = spi \/ spi' = [spi EXCEPT !.left = 0]
      BY <1>16 DEF Crash
    <3>3. QED
      BY <3>1, <3>2
  <2>2. QED
    BY <1>16, <2>1 DEF TypeOK, Crash, Outcome, Values
<1>17. CASE UNCHANGED vars
  BY <1>17 DEF TypeOK, vars, driver, controller, trigger
<1>18. QED
  BY <1>1, <1>2, <1>3, <1>4, <1>5, <1>6, <1>7, <1>8, <1>9, <1>10, <1>11, <1>12,
     <1>13, <1>14, <1>15, <1>16, <1>17
  DEF Next, Driver, Hardware, AllCalls

-----------------------------------------------------------------------------
(* The invariant is inductive *)

LEMMA HalInit == Init => HalInv
<1> SUFFICES ASSUME Init PROVE HalInv
  OBVIOUS
<1> USE HalAssumption
<1>1. spi \in [left : 0 .. Cycle, read : BOOLEAN, slot : Slots, reg : Registers]
  <2>1. PICK s \in Slots :
          spi = [left |-> 0, read |-> FALSE, slot |-> s, reg |-> Power]
    BY DEF Init
  <2>2. QED
    BY <2>1 DEF Registers
<1>2. /\ board \in [Slots -> [Registers -> Values]]
      /\ delays \in [Slots -> [Channels -> DelayCodes]]
  BY DEF Init
<1>3. TypeOK
  BY <1>1, <1>2 DEF Init, TypeOK, Outcome, Values
<1>4. QED
  BY <1>3 DEF Init, HalInv, PollsLeft, Polling, Prepared, ReadUnderWay,
              WriteUnderWay, DelayUnderWay, PowerOfCall

Parts ==
  PollsLeft /\ Prepared /\ ReadUnderWay /\ WriteUnderWay /\ DelayUnderWay /\ PowerOfCall

\* The boards write PONF only when they are told to: a step that leaves the
\* power registers, the driver and a word that is waited for alone keeps all.
LEMMA PartsKept ==
  ASSUME HalInv, UNCHANGED <<driver, sptx>>,
         spi'.read = spi.read, spi'.slot = spi.slot, spi'.reg = spi.reg,
         \A s \in Slots : board'[s][Power] = board[s][Power],
         spi.left = 0 => spi'.left = 0 /\ sprx' = sprx,
         spi.left > 0 /\ spi'.left = 0 /\ spi.read => sprx' = board[spi.slot][spi.reg],
         spi.left \in Nat, spi'.left \in Nat
  PROVE  Parts'
<1> USE DEF HalInv, driver
<1>1. PollsLeft' /\ Prepared' /\ WriteUnderWay' /\ DelayUnderWay'
  BY DEF PollsLeft, Polling, Prepared, WriteUnderWay, DelayUnderWay
<1>2. call # NoCall => call.slot \in Slots
  BY RunningKinds
<1>3. PowerOfCall'
  BY <1>2 DEF PowerOfCall
<1>4. ReadUnderWay'
  <2>1. CASE spi.left = 0
    BY <2>1 DEF ReadUnderWay
  <2>2. CASE spi.left > 0 /\ pc = "readPoll"
    BY <2>2 DEF ReadUnderWay, PowerOfCall
  <2>3. CASE spi.left > 0 /\ pc # "readPoll"
    BY <2>3 DEF ReadUnderWay
  <2>4. QED
    BY <2>1, <2>2, <2>3
<1>5. QED
  BY <1>1, <1>3, <1>4 DEF Parts

LEMMA PartsStep == HalInv /\ [Next]_vars => Parts'
<1> SUFFICES ASSUME HalInv, [Next]_vars PROVE Parts'
  OBVIOUS
<1>0. TypeOK
  BY DEF HalInv
<1>a. spi.left \in 0 .. Cycle /\ Cycle \in Nat /\ TimeoutIters \in Nat \ {0}
  BY <1>0, HalAssumption DEF TypeOK
<1> USE DEF Parts
<1>1. ASSUME NEW c \in AllCalls, Refuse(c) PROVE Parts'
  BY <1>1 DEF Refuse, HalInv, controller, PollsLeft, Polling, Prepared, ReadUnderWay,
              WriteUnderWay, DelayUnderWay, PowerOfCall
<1>2. ASSUME NEW c \in AllCalls, StartRead(c) PROVE Parts'
  <2>1. c # NoCall
    BY NoCallAssumption DEF AllCalls
  <2>2. /\ pc' = "readPoll" /\ call' = c /\ before' = board[c.slot][Power]
        /\ polls' = TimeoutIters /\ board' = board /\ c.op \in {"read", "channel"}
        /\ spi' = [left |-> Cycle, read |-> TRUE, slot |-> c.slot,
                   reg |-> IF c.op = "read" THEN c.reg ELSE Power]
    BY <1>2 DEF StartRead, Start, FreshCount, StartTransaction
  <2>3. Cycle # 0
    BY HalAssumption
  <2>4. ReadUnderWay'
    BY <2>1, <2>2, <2>3 DEF ReadUnderWay
  <2>5. QED
    BY <1>a, <2>1, <2>2, <2>4 DEF PollsLeft, Prepared, WriteUnderWay, DelayUnderWay, PowerOfCall
<1>3. ASSUME NEW c \in AllCalls, StartWrite(c) PROVE Parts'
  <2>1. c # NoCall
    BY NoCallAssumption DEF AllCalls
  <2>2. QED
    BY <1>3, <2>1 DEF StartWrite, Start, PollsLeft, Polling, Prepared, ReadUnderWay,
                      WriteUnderWay, DelayUnderWay, PowerOfCall
<1>4. ASSUME NEW c \in AllCalls, StartDelay(c) PROVE Parts'
  <2>1. c # NoCall
    BY NoCallAssumption DEF AllCalls
  <2>2. QED
    BY <1>a, <1>4, <2>1 DEF StartDelay, Start, FreshCount, PollsLeft, Polling, Prepared,
                      ReadUnderWay, WriteUnderWay, DelayUnderWay, PowerOfCall
<1>5. CASE Address
  <2>1. /\ call # NoCall /\ call.op \in {"write", "channel"} /\ call.slot \in Slots
        /\ call.op = "channel" => sptx = Bit(before, call.ch, call.on)
    BY <1>5, AddressTypes DEF HalInv, Prepared, Address
  <2>2. /\ pc' = "writePoll" /\ polls' = TimeoutIters /\ call' = call /\ before' = before
        /\ ~spi'.read
    BY <1>5, AddressTypes DEF Address, FreshCount
  <2>3. call.op = "channel" => board'[call.slot][Power] = sptx
    BY <1>0, <1>5, <2>1 DEF Address, AfterWrite, TypeOK, Registers, Power, Errors
  <2>4. PowerOfCall'
    BY <2>1, <2>2, <2>3 DEF PowerOfCall
  <2>5. QED
    BY <1>a, <2>1, <2>2, <2>4 DEF PollsLeft, Prepared, ReadUnderWay, WriteUnderWay, DelayUnderWay
<1>6. CASE PollBusy
  <2>1. CASE polls = 1
    <3>1. /\ pc' = "idle" /\ call' = call /\ before' = before /\ board' = board
          /\ result' = Outcome("timeout", {}) /\ pc \in {"readPoll", "writePoll", "delayPoll"}
      BY <1>6, <2>1 DEF PollBusy, CountPoll, End, Polling
    <3>2. PowerOfCall'
      BY <3>1 DEF PowerOfCall, HalInv, DelayUnderWay, Outcome
    <3>3. QED
      BY <3>1, <3>2 DEF PollsLeft, Polling, Prepared, ReadUnderWay, WriteUnderWay, DelayUnderWay
  <2>2. CASE polls # 1
    <3>1. /\ polls' = polls - 1 /\ UNCHANGED <<pc, call, result, before, sptx, board>>
          /\ polls > 0 /\ polls \in Nat /\ spi.left > 0
      BY <1>0, <1>a, <1>6, <2>2 DEF PollBusy, CountPoll, TypeOK, HalInv, PollsLeft, Busy
    <3>2. PollsLeft' /\ Prepared' /\ PowerOfCall' /\ DelayUnderWay'
      BY <2>2, <3>1 DEF HalInv, PollsLeft, Prepared, PowerOfCall, DelayUnderWay
    <3>3. CASE Progress
      <4>1. /\ spi'.read = spi.read /\ spi'.slot = spi.slot /\ spi'.reg = spi.reg
            /\ spi'.left = spi.left - 1
            /\ sprx' = IF spi.left = 1 /\ spi.read THEN board[spi.slot][spi.reg] ELSE sprx
        BY <1>0, <1>6, <3>3, ProgressTypes DEF PollBusy
      <4>2. pc # "fetch"
        BY <1>6 DEF PollBusy, CountPoll, Polling
      <4>3. ReadUnderWay'
        BY <1>a, <3>1, <4>1, <4>2 DEF HalInv, ReadUnderWay, PowerOfCall
      <4>4. QED
        BY <3>1, <3>2, <4>1, <4>3 DEF HalInv, WriteUnderWay
    <3>4. CASE UNCHANGED <<spi, sprx>>
      BY <3>1, <3>2, <3>4 DEF HalInv, ReadUnderWay, WriteUnderWay
    <3>5. QED
      BY <1>6, <3>3, <3>4 DEF PollBusy
  <2>3. QED
    BY <2>1, <2>2
<1>7. CASE PollRead
  BY <1>a, <1>7 DEF PollRead, ReadReady, Busy, HalInv, controller, PollsLeft, Polling, Prepared,
     ReadUnderWay, WriteUnderWay, DelayUnderWay, PowerOfCall
<1>8. CASE PollWrite
  BY <1>8 DEF PollWrite, End, Outcome, HalInv, controller, PollsLeft, Polling, Prepared,
     ReadUnderWay, WriteUnderWay, DelayUnderWay, PowerOfCall
<1>9. CASE PollDelay
  BY <1>9 DEF PollDelay, HalInv, controller, PollsLeft, Polling, Prepared,
     ReadUnderWay, WriteUnderWay, DelayUnderWay, PowerOfCall
<1>10. CASE Fetch
  BY <1>10 DEF Fetch, End, Outcome, HalInv, PollsLeft, Polling, Prepared,
     ReadUnderWay, WriteUnderWay, DelayUnderWay, PowerOfCall
<1>11. CASE SetDelay
  BY <1>11 DEF SetDelay, End, HalInv, controller, PollsLeft, Polling, Prepared,
     ReadUnderWay, WriteUnderWay, DelayUnderWay, PowerOfCall
<1>12. CASE GetDelay
  BY <1>12 DEF GetDelay, End, HalInv, controller, PollsLeft, Polling, Prepared,
     ReadUnderWay, WriteUnderWay, DelayUnderWay, PowerOfCall
<1>13. CASE Elapse
  <2>1. /\ spi'.read = spi.read /\ spi'.slot = spi.slot /\ spi'.reg = spi.reg
        /\ spi'.left = spi.left - 1 /\ spi.left > 0
        /\ sprx' = IF spi.left = 1 /\ spi.read THEN board[spi.slot][spi.reg] ELSE sprx
    BY <1>0, <1>13, ProgressTypes DEF Elapse, Busy
  <2>2. UNCHANGED <<driver, sptx, board>>
    BY <1>13 DEF Elapse
  <2>3. QED
    BY <1>a, <2>1, <2>2, PartsKept
<1>14. CASE EndOfAdjustment
  BY <1>a, <1>14, PartsKept DEF EndOfAdjustment, controller
<1>15. ASSUME NEW s \in Slots, NEW c \in Channels, Trip(s, c) PROVE Parts'
  <2>1. \A t \in Slots : board'[t][Power] = board[t][Power]
    BY <1>0, <1>15 DEF Trip, TypeOK, Registers, Power, Errors
  <2>2. QED
    BY <1>a, <1>15, <2>1, PartsKept DEF Trip, controller
<1>16. CASE Crash
  BY <1>16 DEF Crash, PollsLeft, Polling, Prepared, ReadUnderWay,
     WriteUnderWay, DelayUnderWay, PowerOfCall
<1>17. CASE UNCHANGED vars
  BY <1>a, <1>17, PartsKept DEF vars, controller
<1>18. QED
  BY <1>1, <1>2, <1>3, <1>4, <1>5, <1>6, <1>7, <1>8, <1>9, <1>10, <1>11, <1>12,
     <1>13, <1>14, <1>15, <1>16, <1>17
  DEF Next, Driver, Hardware, AllCalls

LEMMA Inductive == HalInv /\ [Next]_vars => HalInv'
  BY TypeStep, PartsStep DEF HalInv, Parts

\* The types of the driver's and the controller's state hold in every reachable
\* state; in particular the driver stops polling before timeout_count passes 0.
THEOREM HalTypeCorrect == Spec => []TypeOK
<1>1. HalInv => TypeOK
  BY DEF HalInv
<1>2. QED
  BY <1>1, HalInit, Inductive, PTL DEF Spec

-----------------------------------------------------------------------------
(* A timeout longer than a transaction *)

Prompt == result.status # "timeout" /\ (Polling => polls > spi.left)

LEMMA PromptInductive ==
  ASSUME ~SpiFaults, Cycle < TimeoutIters, HalInv, Prompt, [Next]_vars
  PROVE  Prompt'
<1>0. TypeOK
  BY DEF HalInv
<1>a. spi.left \in 0 .. Cycle /\ Cycle \in Nat /\ TimeoutIters \in Nat /\ polls \in Nat
  BY <1>0, HalAssumption DEF TypeOK
<1> USE DEF Prompt, Outcome
<1>1. ASSUME NEW c \in AllCalls, Refuse(c) \/ StartRead(c) \/ StartWrite(c) \/ StartDelay(c)
      PROVE Prompt'
  BY <1>a, <1>1 DEF Refuse, StartRead, StartWrite, StartDelay, Start, FreshCount,
                    StartTransaction, Polling, controller
<1>2. CASE Address
  BY <1>a, <1>2 DEF Address, FreshCount, StartTransaction, Polling
<1>3. CASE PollBusy
  <2>1. spi'.left = spi.left - 1
    BY <1>0, <1>3, ProgressTypes DEF PollBusy
  <2>2. polls # 1 /\ Polling
    BY <1>a, <1>3 DEF PollBusy, CountPoll, Busy
  <2>3. QED
    BY <1>a, <1>3, <2>1, <2>2 DEF PollBusy, CountPoll, Polling
<1>4. CASE PollRead \/ PollWrite \/ PollDelay \/ Fetch \/ SetDelay \/ GetDelay
  BY <1>4 DEF PollRead, PollWrite, PollDelay, Fetch, SetDelay, GetDelay, End, Polling
<1>5. CASE Elapse
  <2>1. spi'.left = spi.left - 1
    BY <1>0, <1>5, ProgressTypes DEF Elapse
  <2>2. QED
    BY <1>a, <1>5, <2>1 DEF Elapse, driver, Polling
<1>6. CASE EndOfAdjustment \/ (\E s \in Slots, c \in Channels : Trip(s, c)) \/ UNCHANGED vars
  BY <1>6 DEF EndOfAdjustment, Trip, vars, driver, controller, Polling
<1>7. CASE Crash
  BY <1>7 DEF Crash, Polling
<1>8. QED
  BY <1>1, <1>2, <1>3, <1>4, <1>5, <1>6, <1>7 DEF Next, Driver, Hardware, AllCalls

\* When a transaction never takes longer than Cycle polls and timeout_iters is
\* larger, no call ever fails, whatever its predecessor has left under way: the
\* arithmetic of l2trig_hal.c:9, whose 10 accesses take longer than 8.4 us.
THEOREM PromptCorrect ==
  ASSUME ~SpiFaults, Cycle < TimeoutIters
  PROVE  Spec => []PromptBusNeverTimesOut
<1>1. Init => Prompt
  BY DEF Init, Prompt, Polling, Outcome
<1>2. Prompt => PromptBusNeverTimesOut
  BY DEF Prompt, PromptBusNeverTimesOut
<1>3. HalInv /\ Prompt /\ [Next]_vars => Prompt'
  BY PromptInductive
<1>4. QED
  BY <1>1, <1>2, <1>3, HalInit, Inductive, PTL DEF Spec

\* A channel call (l2trig_hal.h:488-499) that returns success has changed its
\* bit of PONF and no other; one that returns a timeout has changed that bit or
\* nothing: the promise on which the server is modelled.  Without faults it
\* needs the longer timeout, since the promise then admits no error.
THEOREM ChannelCallCorrect ==
  ASSUME SpiFaults \/ Cycle < TimeoutIters
  PROVE  Spec => []ChannelCallAsPromised
<1>1. HalInv /\ (SpiFaults \/ Prompt) => ChannelCallAsPromised
  <2> SUFFICES ASSUME HalInv, SpiFaults \/ Prompt,
                      pc = "idle", call # NoCall, call.op = "channel",
                      result.status \in {"ok", "timeout"}
               PROVE  [reg |-> board[call.slot][Power], err |-> result.status = "timeout"]
                        \in SetPowerChannel(before, call.ch, call.on)
    BY DEF ChannelCallAsPromised
  <2> DEFINE power == board[call.slot][Power]
             changed == Bit(before, call.ch, call.on)
  <2>1. CASE result.status = "ok"
    <3>1. power = changed /\ (result.status = "timeout") = FALSE
      BY <2>1 DEF HalInv, PowerOfCall
    <3> HIDE DEF power, changed
    <3>2. [reg |-> power, err |-> result.status = "timeout"] = [reg |-> changed, err |-> FALSE]
      BY <3>1
    <3>3. QED
      BY <3>2 DEF power, changed, SetPowerChannel
  <2>2. CASE result.status = "timeout"
    <3>1. power \in {before, changed} /\ (result.status = "timeout") = TRUE /\ SpiFaults
      BY <2>2 DEF HalInv, PowerOfCall, Prompt
    <3> HIDE DEF power, changed
    <3>2. [reg |-> power, err |-> result.status = "timeout"]
            \in {[reg |-> r, err |-> TRUE] : r \in {before, changed}}
      BY <3>1
    <3>3. QED
      BY <3>1, <3>2 DEF power, changed, SetPowerChannel
  <2>3. QED
    BY <2>1, <2>2
<1>2. CASE SpiFaults
  BY <1>1, <1>2, HalInit, Inductive, PTL DEF Spec
<1>3. CASE ~SpiFaults
  <2>1. Init => Prompt
    BY DEF Init, Prompt, Polling, Outcome
  <2>2. HalInv /\ Prompt /\ [Next]_vars => Prompt'
    BY <1>3, PromptInductive
  <2>3. QED
    BY <1>1, <2>1, <2>2, HalInit, Inductive, PTL DEF Spec
<1>4. QED
  BY <1>2, <1>3

-----------------------------------------------------------------------------
(* Calls are bounded *)

LEMMA CountPositive == HalInv /\ Polling => polls \in Nat \ {0}
  BY HalAssumption DEF HalInv, PollsLeft, TypeOK

\* Every access of a call leaves fewer to make, and at most two polling loops
\* are among them (l2trig_hal.c:9-45): no call can hang the server.
THEOREM CallsBoundedCorrect == Spec => CallsAreBounded
<1>1. ASSUME HalInv, [Next]_vars, pc # "idle"
      PROVE  AccessesLeft' < AccessesLeft \/ UNCHANGED driver
  <2>0. TimeoutIters \in Nat \ {0}
    BY HalAssumption
  <2>a. Polling => polls \in Nat \ {0}
    BY <1>1, CountPositive
  <2>1. ASSUME NEW c \in AllCalls, Refuse(c) \/ StartRead(c) \/ StartWrite(c) \/ StartDelay(c)
        PROVE FALSE
    BY <1>1, <2>1 DEF Refuse, StartRead, StartWrite, StartDelay, Start
  <2>2. CASE Address
    BY <2>0, <2>2 DEF Address, FreshCount, AccessesLeft
  <2>3. CASE PollBusy
    BY <2>0, <2>a, <2>3 DEF PollBusy, CountPoll, Polling, End, AccessesLeft
  <2>4. CASE PollRead \/ PollWrite \/ PollDelay
    BY <2>0, <2>a, <2>4 DEF PollRead, PollWrite, PollDelay, ReadReady, Polling, End, AccessesLeft
  <2>5. CASE Fetch \/ SetDelay \/ GetDelay
    BY <2>0, <2>5 DEF Fetch, SetDelay, GetDelay, End, AccessesLeft
  <2>6. CASE Crash
    BY <1>1, <2>0, <2>a, <2>6 DEF Crash, HalInv, TypeOK, Polling, AccessesLeft
  <2>7. CASE Hardware \/ UNCHANGED vars
    BY <2>7 DEF Hardware, Elapse, EndOfAdjustment, Trip, vars
  <2>8. QED
    BY <1>1, <2>1, <2>2, <2>3, <2>4, <2>5, <2>6, <2>7 DEF Next, Driver, AllCalls
<1>2. HalInv /\ [Next]_vars => [pc # "idle" => AccessesLeft' < AccessesLeft \/ UNCHANGED driver]_vars
  BY <1>1
<1>3. QED
  BY <1>2, HalInit, Inductive, PTL DEF Spec, CallsAreBounded
=============================================================================
