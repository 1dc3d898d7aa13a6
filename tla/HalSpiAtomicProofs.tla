------------------------- MODULE HalSpiAtomicProofs -------------------------
(* The SPI driver implements the atomic register file.                     *)
EXTENDS HalSpiProofs

\* Between two calls, or during one that does not go over SPI, the register
\* file is at rest.
LEMMA AtRest ==
  ASSUME \/ pc = "idle"
         \/ pc \in {"delayPoll", "l1del"} /\ call.op \in {"setDelay", "getDelay"}
  PROVE  RunningCall = NoCall /\ TakenEffect = FALSE /\ ValueSeen = {}
  BY DEF RunningCall, TakenEffect, ValueSeen, SpiRunning

\* The register file does not see what leaves pc, the call, its result and the
\* boards alone, unless a read is completed.
LEMMA Unseen ==
  ASSUME UNCHANGED <<pc, call, result, board>>,
         ~(pc = "readPoll" /\ call.op = "read"),
         pc = "fetch" => sprx' = sprx
  PROVE  UNCHANGED <<board, RunningCall, TakenEffect, ValueSeen, result>>
  BY DEF RunningCall, TakenEffect, ValueSeen, SpiRunning, ReadDone

\* A unit of a transaction completes the read that is waited for, or is not seen.
LEMMA ReadCompletes ==
  ASSUME HalInv, Busy, Progress, UNCHANGED <<pc, call, result, board>>
  PROVE  Atomic!Effect \/ UNCHANGED <<board, RunningCall, TakenEffect, ValueSeen, result>>
<1>1. /\ spi'.left = spi.left - 1 /\ spi.left \in Nat /\ spi.left > 0
      /\ sprx' = IF spi.left = 1 /\ spi.read THEN board[spi.slot][spi.reg] ELSE sprx
  BY ProgressTypes, HalAssumption DEF HalInv, TypeOK, Busy
<1>2. CASE pc = "readPoll" /\ call.op = "read"
  <2>1. /\ spi.read /\ spi.slot = call.slot /\ spi.reg = call.reg /\ call # NoCall
    BY <1>2 DEF HalInv, ReadUnderWay
  <2>2. /\ RunningCall = call /\ RunningCall' = call
        /\ TakenEffect = FALSE /\ ValueSeen = {}
    BY <1>1, <1>2, <2>1 DEF RunningCall, TakenEffect, ValueSeen, SpiRunning, ReadDone, Busy
  <2>3. CASE spi.left = 1
    <3>1. TakenEffect' = TRUE /\ ValueSeen' = sprx'
      BY <1>1, <1>2, <2>3 DEF TakenEffect, ValueSeen, SpiRunning, ReadDone, Busy
    <3>2. QED
      BY <1>1, <1>2, <2>1, <2>2, <2>3, <3>1
      DEF Atomic!Effect, Atomic!ReadEffect, Atomic!Read
  <2>4. CASE spi.left # 1
    <3>1. TakenEffect' = FALSE /\ ValueSeen' = {}
      BY <1>1, <1>2, <2>4 DEF TakenEffect, ValueSeen, SpiRunning, ReadDone, Busy
    <3>2. QED
      BY <2>2, <3>1
  <2>5. QED
    BY <2>3, <2>4
<1>3. CASE ~(pc = "readPoll" /\ call.op = "read")
  <2>1. pc # "fetch"
    BY <1>1 DEF HalInv, ReadUnderWay
  <2>2. QED
    BY <1>3, <2>1, Unseen
<1>4. QED
  BY <1>2, <1>3

\* SPAD of a write is the moment at which the call takes effect.
LEMMA WriteTakesEffect ==
  ASSUME HalInv, Address
  PROVE  Atomic!Effect
<1> DEFINE reg == IF call.op = "write" THEN call.reg ELSE Power
<1>1. /\ pc = "tx" /\ pc' = "writePoll" /\ UNCHANGED <<call, result, before, sptx>>
      /\ board' = AfterWrite(call.slot, reg, sptx)
  BY DEF Address
<1>2. /\ call # NoCall /\ call.op \in {"write", "channel"}
      /\ call.op = "write" => sptx = call.value
      /\ call.op = "channel" => sptx = Bit(board[call.slot][Power], call.ch, call.on)
  BY <1>1 DEF HalInv, Prepared, PowerOfCall
<1>3. /\ RunningCall = call /\ RunningCall' = call
      /\ TakenEffect = FALSE /\ TakenEffect' = TRUE
      /\ ValueSeen' = ValueSeen
  BY <1>1, <1>2 DEF RunningCall, TakenEffect, ValueSeen, SpiRunning, ReadDone
<1>4. /\ call.slot \in Slots /\ reg \in Registers \ Volatile
      /\ board' \in [Slots -> [Registers -> Values]]
  BY AddressTypes
<1>5. board \in [Slots -> [Registers -> Values]]
  BY DEF HalInv, TypeOK
<1>6. Atomic!Write(call.slot, reg, sptx)
  <2>1. board'[call.slot][reg] = sptx
    <3> HIDE DEF reg
    <3> QED
      BY <1>1, <1>4, <1>5 DEF AfterWrite, Registers, Volatile, Power, Errors
  <2>2. ASSUME NEW s \in Slots, NEW r \in Registers \ Volatile, <<s, r>> # <<call.slot, reg>>
        PROVE  board'[s][r] = board[s][r]
    <3> HIDE DEF reg
    <3> QED
      BY <1>1, <1>4, <1>5, <2>2 DEF AfterWrite, Registers, Volatile, Power, Errors
  <2>3. QED
    BY <1>3, <1>4, <2>1, <2>2 DEF Atomic!Write, Atomic!OthersKept
<1>7. Atomic!WriteEffect \/ Atomic!ChannelEffect
  BY <1>2, <1>3, <1>6 DEF Atomic!WriteEffect, Atomic!ChannelEffect, Atomic!Bit, Bit
<1>8. QED
  BY <1>1, <1>2, <1>3, <1>7 DEF Atomic!Effect

LEMMA AtomicStep == HalInv /\ [Next]_vars => [Atomic!Next]_(Atomic!vars)
<1> SUFFICES ASSUME HalInv, [Next]_vars
             PROVE  Atomic!Next \/ UNCHANGED Atomic!vars
  OBVIOUS
<1> USE DEF Atomic!Next, Atomic!vars
<1>a. TypeOK /\ board' \in [Slots -> [Registers -> Values]] /\ {} \in Values
  BY TypeStep DEF HalInv, TypeOK, Values
<1>b. call # NoCall => call \in AllCalls /\ Valid(call)
  BY <1>a, RunningKinds
<1>1. ASSUME NEW c \in AllCalls, Refuse(c) PROVE Atomic!OtherCall
  BY <1>1, <1>a, AtRest DEF Refuse, Outcome, Atomic!OtherCall, Atomic!Outcome, RunningCall,
     TakenEffect, ValueSeen, SpiRunning
<1>2. ASSUME NEW c \in AllCalls, StartRead(c) PROVE Atomic!Begin
  <2>1. /\ pc = "idle" /\ pc' = "readPoll" /\ call' = c /\ c # NoCall
        /\ c.op \in {"read", "channel"} /\ Valid(c)
        /\ result' = Outcome("running", {}) /\ UNCHANGED board /\ spi'.left = Cycle
    BY <1>2, NoCallAssumption DEF StartRead, Start, StartTransaction, AllCalls
  <2>2. RunningCall = NoCall /\ TakenEffect = FALSE /\ ValueSeen = {}
    BY <2>1, AtRest
  <2>3. RunningCall' = c /\ TakenEffect' = FALSE /\ ValueSeen' = {}
    BY <2>1, HalAssumption DEF RunningCall, TakenEffect, ValueSeen, SpiRunning, ReadDone, Busy
  <2>4. c \in SpiCalls
    BY <2>1 DEF SpiCalls, AllCalls, DelayCalls
  <2>5. QED
    BY <2>1, <2>2, <2>3, <2>4 DEF Atomic!Begin, Atomic!Outcome, Outcome
<1>3. ASSUME NEW c \in AllCalls, StartWrite(c) PROVE Atomic!Begin
  <2>1. /\ pc = "idle" /\ pc' = "tx" /\ call' = c /\ c # NoCall
        /\ c.op = "write" /\ Valid(c)
        /\ result' = Outcome("running", {}) /\ UNCHANGED board
    BY <1>3, NoCallAssumption DEF StartWrite, Start, AllCalls
  <2>2. RunningCall = NoCall /\ TakenEffect = FALSE /\ ValueSeen = {}
    BY <2>1, AtRest
  <2>3. RunningCall' = c /\ TakenEffect' = FALSE /\ ValueSeen' = {}
    BY <2>1 DEF RunningCall, TakenEffect, ValueSeen, SpiRunning, ReadDone
  <2>4. c \in SpiCalls
    BY <2>1 DEF SpiCalls, AllCalls, DelayCalls
  <2>5. QED
    BY <2>1, <2>2, <2>3, <2>4 DEF Atomic!Begin, Atomic!Outcome, Outcome
<1>4. ASSUME NEW c \in AllCalls, StartDelay(c) PROVE Atomic!OtherCall
  <2>1. /\ pc = "idle" /\ pc' = "delayPoll" /\ call' = c
        /\ c.op \in {"setDelay", "getDelay"}
        /\ result' = Outcome("running", {}) /\ UNCHANGED board
    BY <1>4 DEF StartDelay, Start
  <2>2. RunningCall = NoCall /\ TakenEffect = FALSE /\ ValueSeen = {}
    BY <2>1, AtRest
  <2>3. RunningCall' = NoCall /\ TakenEffect' = FALSE /\ ValueSeen' = {}
    BY <2>1 DEF RunningCall, TakenEffect, ValueSeen, SpiRunning
  <2>4. QED
    BY <1>a, <2>1, <2>2, <2>3 DEF Atomic!OtherCall, Atomic!Outcome, Outcome
<1>5. CASE Address
  BY <1>5, WriteTakesEffect
<1>6. CASE PollBusy
  <2>1. CASE polls = 1
    <3>1. /\ pc' = "idle" /\ result' = Outcome("timeout", {}) /\ UNCHANGED <<call, board>>
          /\ pc \in {"readPoll", "writePoll", "delayPoll"}
      BY <1>6, <2>1 DEF PollBusy, CountPoll, End, Polling
    <3>2. RunningCall' = NoCall /\ TakenEffect' = FALSE /\ ValueSeen' = {}
      BY <3>1 DEF RunningCall, TakenEffect, ValueSeen, SpiRunning
    <3>3. CASE pc = "delayPoll"
      <4>1. RunningCall = NoCall /\ TakenEffect = FALSE /\ ValueSeen = {}
        BY <3>3, AtRest DEF HalInv, DelayUnderWay
      <4>2. QED
        BY <1>a, <3>1, <3>2, <4>1 DEF Atomic!OtherCall, Atomic!Outcome, Outcome
    <3>4. CASE pc # "delayPoll"
      <4>1. RunningCall # NoCall
        BY <3>1, <3>4 DEF HalInv, ReadUnderWay, WriteUnderWay, RunningCall, SpiRunning
      <4>2. QED
        BY <3>1, <3>2, <4>1 DEF Atomic!Fail, Atomic!End, Atomic!Outcome, Outcome
    <3>5. QED
      BY <3>3, <3>4
  <2>2. CASE polls # 1
    <3>1. Busy /\ Polling /\ UNCHANGED <<pc, call, result, board>>
      BY <1>6, <2>2 DEF PollBusy, CountPoll
    <3>2. CASE Progress
      BY <3>1, <3>2, ReadCompletes
    <3>3. CASE UNCHANGED <<spi, sprx>>
      BY <3>1, <3>3 DEF RunningCall, TakenEffect, ValueSeen, SpiRunning, ReadDone, Busy
    <3>4. QED
      BY <1>6, <3>2, <3>3 DEF PollBusy
  <2>3. QED
    BY <2>1, <2>2
<1>7. CASE PollRead
  <2>1. /\ pc = "readPoll" /\ pc' = "fetch" /\ ~Busy /\ UNCHANGED <<call, result, board, sprx>>
    BY <1>7 DEF PollRead, ReadReady, controller
  <2>2. UNCHANGED <<RunningCall, TakenEffect, ValueSeen>>
    BY <2>1 DEF RunningCall, TakenEffect, ValueSeen, SpiRunning, ReadDone
  <2>3. QED
    BY <2>1, <2>2
<1>8. CASE PollWrite
  <2>1. /\ pc = "writePoll" /\ pc' = "idle" /\ UNCHANGED board
        /\ result' = Outcome("ok", {}) /\ call # NoCall /\ call.op \in {"write", "channel"}
    BY <1>8 DEF PollWrite, End, HalInv, WriteUnderWay
  <2>2. RunningCall' = NoCall /\ TakenEffect' = FALSE /\ ValueSeen' = {}
    BY <2>1 DEF RunningCall, TakenEffect, ValueSeen, SpiRunning
  <2>3. RunningCall # NoCall /\ TakenEffect /\ ValueSeen = {}
    BY <2>1 DEF RunningCall, TakenEffect, ValueSeen, SpiRunning, ReadDone
  <2>4. QED
    BY <2>1, <2>2, <2>3 DEF Atomic!Return, Atomic!End, Atomic!Outcome, Outcome
<1>9. CASE PollDelay
  <2>1. /\ pc = "delayPoll" /\ pc' = "l1del" /\ UNCHANGED <<call, result, board>>
        /\ call.op \in {"setDelay", "getDelay"}
    BY <1>9 DEF PollDelay, HalInv, DelayUnderWay
  <2>2. UNCHANGED <<RunningCall, TakenEffect, ValueSeen>>
    BY <2>1 DEF RunningCall, TakenEffect, ValueSeen, SpiRunning
  <2>3. QED
    BY <2>1, <2>2
<1>10. CASE Fetch
  <2>1. /\ pc = "fetch" /\ call # NoCall /\ UNCHANGED <<board, sprx>>
    BY <1>10 DEF Fetch, HalInv, ReadUnderWay
  <2>2. CASE call.op = "read"
    <3>1. pc' = "idle" /\ result' = Outcome("ok", sprx)
      BY <1>10, <2>2 DEF Fetch, End
    <3>2. RunningCall' = NoCall /\ TakenEffect' = FALSE /\ ValueSeen' = {}
      BY <3>1 DEF RunningCall, TakenEffect, ValueSeen, SpiRunning
    <3>3. RunningCall # NoCall /\ TakenEffect /\ ValueSeen = sprx
      BY <2>1, <2>2 DEF RunningCall, TakenEffect, ValueSeen, SpiRunning, ReadDone
    <3>4. QED
      BY <2>1, <3>1, <3>2, <3>3 DEF Atomic!Return, Atomic!End, Atomic!Outcome, Outcome
  <2>3. CASE call.op = "channel"
    <3>1. pc' = "tx" /\ UNCHANGED <<call, result>>
      BY <1>10, <2>3 DEF Fetch
    <3>2. UNCHANGED <<RunningCall, TakenEffect, ValueSeen>>
      BY <2>1, <2>3, <3>1 DEF RunningCall, TakenEffect, ValueSeen, SpiRunning, ReadDone
    <3>3. QED
      BY <2>1, <3>1, <3>2
  <2>4. QED
    BY <1>10, <2>2, <2>3 DEF Fetch
<1>11. CASE SetDelay \/ GetDelay
  <2>1. PICK v \in Values : result' = Outcome("ok", v)
    <3>1. CASE SetDelay
      BY <1>a, <3>1 DEF SetDelay, End
    <3>2. CASE GetDelay
      <4>1. call \in AllCalls /\ Valid(call) /\ call.slot \in Slots
        BY <1>a, <3>2, RunningKinds DEF HalInv, DelayUnderWay, GetDelay
      <4>2. call.ch \in Channels
        BY <3>2, <4>1 DEF GetDelay, Valid, HasChannel
      <4>3. delays[call.slot][call.ch] \in Values
        BY <1>a, <4>1, <4>2, HalAssumption DEF TypeOK
      <4>4. QED
        BY <3>2, <4>3 DEF GetDelay, End
    <3>3. QED
      BY <1>11, <3>1, <3>2
  <2>2. pc = "l1del" /\ pc' = "idle" /\ call.op \in {"setDelay", "getDelay"} /\ UNCHANGED board
    BY <1>11 DEF SetDelay, GetDelay, End
  <2>3. RunningCall = NoCall /\ TakenEffect = FALSE /\ ValueSeen = {}
    BY <2>2, AtRest
  <2>4. RunningCall' = NoCall /\ TakenEffect' = FALSE /\ ValueSeen' = {}
    BY <2>2 DEF RunningCall, TakenEffect, ValueSeen, SpiRunning
  <2>5. QED
    BY <2>1, <2>2, <2>3, <2>4 DEF Atomic!OtherCall, Atomic!Outcome, Outcome
<1>12. CASE Elapse
  BY <1>12, ReadCompletes DEF Elapse, driver
<1>13. CASE EndOfAdjustment \/ UNCHANGED vars
  BY <1>13 DEF EndOfAdjustment, vars, driver, controller, RunningCall, TakenEffect, ValueSeen,
     SpiRunning, ReadDone, Busy
<1>14. ASSUME NEW s \in Slots, NEW c \in Channels, Trip(s, c) PROVE Atomic!BoardActs
  <2>1. UNCHANGED <<RunningCall, TakenEffect, ValueSeen, result>>
    BY <1>14 DEF Trip, driver, controller, RunningCall, TakenEffect, ValueSeen,
       SpiRunning, ReadDone, Busy
  <2>2. \A t \in Slots, r \in Registers \ Volatile : board'[t][r] = board[t][r]
    BY <1>a, <1>14 DEF Trip, TypeOK, Registers, Volatile
  <2>3. QED
    BY <1>a, <2>1, <2>2 DEF Atomic!BoardActs
<1>15. CASE Crash
  <2>1. RunningCall' = NoCall /\ TakenEffect' = FALSE /\ ValueSeen' = {}
    BY <1>15 DEF Crash, RunningCall, TakenEffect, ValueSeen, SpiRunning
  <2>2. QED
    BY <1>15, <2>1 DEF Crash, Atomic!Crash, Atomic!Outcome, Outcome
<1>16. QED
  BY <1>1, <1>2, <1>3, <1>4, <1>5, <1>6, <1>7, <1>8, <1>9, <1>10, <1>11, <1>12,
     <1>13, <1>14, <1>15
  DEF Next, Driver, Hardware, AllCalls

\* Every call of the driver that goes over SPI (l2trig_hal.c:80-128,
\* l2trig_hal.h:488-499) is atomic for its caller: reads return what the
\* register held at one moment of the call, writes and channel calls change
\* their register at one moment or, after a timeout, perhaps not at all, and
\* nothing happens after the call has ended.
THEOREM AtomicCorrect == Spec => CallsAreAtomic
<1>1. Init => Atomic!Init
  <2> SUFFICES ASSUME Init PROVE Atomic!Init
    OBVIOUS
  <2>1. RunningCall = NoCall /\ TakenEffect = FALSE /\ ValueSeen = {}
    BY AtRest DEF Init
  <2>2. QED
    BY <2>1 DEF Init, Atomic!Init, Atomic!Outcome, Outcome
<1>2. HalInv /\ [Next]_vars => [Atomic!Next]_(Atomic!vars)
  BY AtomicStep
<1>3. Spec => []HalInv
  BY HalInit, Inductive, PTL DEF Spec
<1>4. QED
  BY <1>1, <1>2, <1>3, PTL DEF Spec, CallsAreAtomic, Atomic!Spec
=============================================================================
