------------------------------- MODULE HalSpi -------------------------------
(***************************************************************************)
(* The SPI driver of the HAL (src/hal/l2trig_hal.c and the inline functions *)
(* of l2trig_hal.h on top of it), one action per access to a register of    *)
(* the L2CB, and the L2CB's SPI controller as src/hal/smc_emulated.c shows  *)
(* it: writing SPAD starts a transaction, and restarts one that is under    *)
(* way; a write reaches the board's register with SPAD; a read is latched   *)
(* into SPRX when SPIBUSY clears.                                           *)
(*                                                                         *)
(* A 16-bit word is the set of its bits 1 .. NumChannels.  Time is counted  *)
(* in reads of STAT: a transaction lasts Cycle of them, or any number when  *)
(* SpiFaults holds.                                                         *)
(***************************************************************************)
EXTENDS Integers, PowerRegister

CONSTANTS
  Slots,         \* the valid slots
  BadSlot,       \* a slot number that is not valid
  NumChannels,   \* channels of a board (15 in the crate)
  DelayCodes,    \* the trigger delays that are set
  Cycle,         \* duration of a transaction (8.4 us in the crate)
  TimeoutIters,  \* timeout_iters of both timing structures
  NoCall         \* no call is running

Channels == 1 .. NumChannels
Values == SUBSET Channels

Power == "PONF"
Errors == "OVER_CUR"        \* stands for all that a board reports by itself
Registers == {Power, Errors, "CUR_MIN"}
Volatile == {Errors}

ASSUME HalAssumption ==
  /\ BadSlot \notin Slots
  /\ NumChannels \in Nat \ {0}
  /\ DelayCodes \subseteq Values
  /\ Cycle \in Nat \ {0}
  /\ TimeoutIters \in Nat \ {0}
  /\ SpiFaults \in BOOLEAN

\* cta_l2cb_spi_read, cta_l2cb_spi_write, cta_ctdb_setPowerChannelEnabled,
\* cta_l2cb_setL1TriggerDelay and cta_l2cb_getL1TriggerDelay_err
Reads == [op : {"read"}, slot : Slots \cup {BadSlot}, reg : Registers]
Writes == [op : {"write"}, slot : Slots \cup {BadSlot},
           reg : Registers \ Volatile, value : Values]
ChannelCalls == [op : {"channel"}, slot : Slots \cup {BadSlot},
                 ch : 0 .. NumChannels, on : BOOLEAN]
DelayCalls == [op : {"setDelay"}, slot : Slots \cup {BadSlot},
               ch : 0 .. NumChannels, value : DelayCodes]
              \cup [op : {"getDelay"}, slot : Slots \cup {BadSlot},
                    ch : 0 .. NumChannels]

HasChannel(c) == c.op \in {"channel", "setDelay", "getDelay"}

\* cta_l2cb_isValidSLot and CTA_L2CB_CHANNEL_MIN .. CTA_L2CB_CHANNEL_MAX
Valid(c) == c.slot \in Slots /\ (HasChannel(c) => c.ch \in Channels)

SpiCalls == {c \in Reads \cup Writes \cup ChannelCalls : Valid(c)}

ASSUME NoCallAssumption ==
  NoCall \notin Reads \cup Writes \cup ChannelCalls \cup DelayCalls

VARIABLES
  pc,        \* the next access of the running call
  call,      \* the running call, or the last one
  polls,     \* timeout_count
  result,    \* how the last call ended
  sptx,      \* the SPTX register
  sprx,      \* the SPRX register
  spi,       \* the controller's transaction; left = 0: SPIBUSY is clear
  board,     \* the registers of the boards
  adjusting, \* the channels whose delay is being adjusted (DELAY_BUSY)
  delays     \* the L1DEL register of every slot and channel

VARIABLE before   \* history: PONF of the slot when the running call was made

driver == <<pc, call, polls, result, before>>
controller == <<sptx, sprx, spi>>
trigger == <<adjusting, delays>>
vars == <<driver, controller, board, trigger>>

TypeOK ==
  /\ pc \in {"idle", "tx", "readPoll", "fetch", "writePoll", "delayPoll", "l1del"}
  /\ call \in {c \in Reads \cup Writes \cup ChannelCalls \cup DelayCalls : Valid(c)}
              \cup {NoCall}
  /\ polls \in 0 .. TimeoutIters
  /\ result \in [status : {"none", "running", "ok", "timeout", "invalid"},
                 value : Values]
  /\ sptx \in Values
  /\ sprx \in Values
  /\ spi \in [left : 0 .. Cycle, read : BOOLEAN, slot : Slots, reg : Registers]
  /\ board \in [Slots -> [Registers -> Values]]
  /\ adjusting \in SUBSET (Slots \X Channels)
  /\ delays \in [Slots -> [Channels -> DelayCodes]]
  /\ before \in Values

Outcome(status, value) == [status |-> status, value |-> value]

-----------------------------------------------------------------------------
(* The controller *)

Busy == spi.left > 0

\* The transaction is one unit nearer its end; a read that ends loads SPRX.
Progress ==
  /\ spi' = [spi EXCEPT !.left = @ - 1]
  /\ sprx' = IF spi.left = 1 /\ spi.read THEN board[spi.slot][spi.reg] ELSE sprx

StartTransaction(isRead, slot, reg) ==
  spi' = [left |-> Cycle, read |-> isRead, slot |-> slot, reg |-> reg]

\* A channel that is powered off has no error.
AfterWrite(slot, reg, value) ==
  [board EXCEPT ![slot] =
     IF reg = Power THEN [@ EXCEPT ![Power] = value, ![Errors] = @ \cap value]
                    ELSE [@ EXCEPT ![reg] = value]]

-----------------------------------------------------------------------------
(* The driver *)

\* Mutant: the write of a channel call goes on with the count of its read.
SharedCount == IF pc = "tx" THEN polls ELSE TimeoutIters

FreshCount == TimeoutIters

Start(c, next) ==
  /\ pc = "idle"
  /\ pc' = next
  /\ call' = c
  /\ before' = board[c.slot][Power]
  /\ result' = Outcome("running", {})
  /\ polls' = FreshCount

End(status, value) ==
  /\ pc' = "idle"
  /\ result' = Outcome(status, value)
  /\ UNCHANGED <<call, polls, before>>

Refuse(c) ==
  /\ pc = "idle" /\ ~Valid(c)
  /\ result' = Outcome("invalid", {})
  /\ call' = NoCall
  /\ UNCHANGED <<pc, polls, before, controller, board, trigger>>

\* SPAD of a read; a channel call begins with the read of PONF.
StartRead(c) ==
  /\ c.op \in {"read", "channel"} /\ Valid(c)
  /\ Start(c, "readPoll")
  /\ StartTransaction(TRUE, c.slot, IF c.op = "read" THEN c.reg ELSE Power)
  /\ UNCHANGED <<sptx, sprx, board, trigger>>

\* SPTX of a write.
StartWrite(c) ==
  /\ c.op = "write" /\ Valid(c)
  /\ Start(c, "tx")
  /\ sptx' = c.value
  /\ UNCHANGED <<sprx, spi, board, trigger>>

\* L1SEL
StartDelay(c) ==
  /\ c.op \in {"setDelay", "getDelay"} /\ Valid(c)
  /\ Start(c, "delayPoll")
  /\ UNCHANGED <<controller, board, trigger>>

\* SPAD of a write.
Address ==
  LET reg == IF call.op = "write" THEN call.reg ELSE Power
  IN /\ pc = "tx"
     /\ StartTransaction(FALSE, call.slot, reg)
     /\ board' = AfterWrite(call.slot, reg, sptx)
     /\ pc' = "writePoll"
     /\ polls' = FreshCount
     /\ UNCHANGED <<call, result, before, sptx, sprx, trigger>>

Polling == pc \in {"readPoll", "writePoll", "delayPoll"}

\* Mutant: at the timeout the driver polls again instead of returning.
PollsForever ==
  /\ Polling
  /\ polls' = IF polls = 1 THEN TimeoutIters ELSE polls - 1
  /\ UNCHANGED <<pc, call, result, before>>

\* Mutant: timeout_count is not compared with 0.
PollsUnchecked ==
  Polling /\ polls' = polls - 1 /\ UNCHANGED <<pc, call, result, before>>

\* Mutant: a channel call ignores the timeout of its read.
ReadErrorIgnored ==
  /\ Polling
  /\ \/ polls > 1 /\ polls' = polls - 1 /\ UNCHANGED <<pc, call, result, before>>
     \/ /\ polls = 1
        /\ IF pc = "readPoll" /\ call.op = "channel"
           THEN pc' = "fetch" /\ UNCHANGED <<call, polls, result, before>>
           ELSE End("timeout", {})

\* while (SPIBUSY) if (--timeout_count == 0) return CTA_L2CB_ERROR_TIMEOUT
CountPoll ==
  /\ Polling
  /\ IF polls = 1 THEN End("timeout", {})
                  ELSE polls' = polls - 1 /\ UNCHANGED <<pc, call, result, before>>

PollBusy ==
  /\ Busy
  /\ CountPoll
  /\ Progress \/ (SpiFaults /\ UNCHANGED <<spi, sprx>>)
  /\ UNCHANGED <<sptx, board, trigger>>

\* Mutant: SPRX is read without waiting for SPIBUSY to clear.
ReadReadyAtOnce == pc = "readPoll"

ReadReady == pc = "readPoll" /\ ~Busy

PollRead ==
  /\ ReadReady
  /\ pc' = "fetch"
  /\ UNCHANGED <<call, polls, result, before, controller, board, trigger>>

PollWrite ==
  /\ pc = "writePoll" /\ ~Busy
  /\ End("ok", {})
  /\ UNCHANGED <<controller, board, trigger>>

PollDelay ==
  /\ pc = "delayPoll" /\ ~Busy
  /\ pc' = "l1del"
  /\ UNCHANGED <<call, polls, result, before, controller, board, trigger>>

\* SPRX: a read returns it, a channel call writes it back with one bit changed.
Fetch ==
  /\ pc = "fetch"
  /\ \/ /\ call.op = "read"
        /\ End("ok", sprx)
        /\ UNCHANGED sptx
     \/ /\ call.op = "channel"
        /\ sptx' = Bit(sprx, call.ch, call.on)
        /\ pc' = "tx"
        /\ UNCHANGED <<call, polls, result, before>>
  /\ UNCHANGED <<sprx, spi, board, trigger>>

\* L1DEL
SetDelay ==
  /\ pc = "l1del" /\ call.op = "setDelay"
  /\ delays' = [delays EXCEPT ![call.slot][call.ch] = call.value]
  /\ adjusting' = {<<call.slot, call.ch>>}
  /\ End("ok", {})
  /\ UNCHANGED <<controller, board>>

GetDelay ==
  /\ pc = "l1del" /\ call.op = "getDelay"
  /\ End("ok", delays[call.slot][call.ch])
  /\ UNCHANGED <<controller, board, trigger>>

-----------------------------------------------------------------------------
(* Time, the boards and the process *)

\* A transaction goes on between two accesses, too.
Elapse ==
  /\ Busy
  /\ Progress
  /\ UNCHANGED <<driver, sptx, board, trigger>>

EndOfAdjustment ==
  /\ adjusting # {}
  /\ adjusting' = {}
  /\ UNCHANGED <<driver, controller, board, delays>>

Trip(s, c) ==
  /\ c \in board[s][Power] \ board[s][Errors]
  /\ board' = [board EXCEPT ![s][Errors] = @ \cup {c}]
  /\ UNCHANGED <<driver, controller, trigger>>

\* The process dies, perhaps within a call, and another one is started.  The
\* controller goes on with what it is doing; the emulator drops it in smc_open.
Crash ==
  /\ pc' = "idle" /\ call' = NoCall /\ polls' = 0
  /\ result' = Outcome("none", {}) /\ before' = {}
  /\ \/ UNCHANGED <<spi, adjusting>>
     \/ spi' = [spi EXCEPT !.left = 0] /\ adjusting' = {}
  /\ UNCHANGED <<sptx, sprx, board, delays>>

-----------------------------------------------------------------------------

Init ==
  /\ pc = "idle" /\ call = NoCall /\ polls = 0
  /\ result = Outcome("none", {}) /\ before = {}
  /\ sptx = {} /\ sprx = {}
  /\ spi \in [left : {0}, read : {FALSE}, slot : Slots, reg : {Power}]
  /\ board \in {b \in [Slots -> [Registers -> Values]] :
                  \A s \in Slots : b[s][Errors] \subseteq b[s][Power]}
  /\ adjusting = {}
  /\ delays \in [Slots -> [Channels -> DelayCodes]]

Driver ==
  \/ \E c \in Reads \cup Writes \cup ChannelCalls \cup DelayCalls :
       Refuse(c) \/ StartRead(c) \/ StartWrite(c) \/ StartDelay(c)
  \/ Address \/ PollBusy \/ PollRead \/ PollWrite \/ PollDelay
  \/ Fetch \/ SetDelay \/ GetDelay

Hardware ==
  \/ Elapse
  \/ EndOfAdjustment
  \/ \E s \in Slots, c \in Channels : Trip(s, c)

Next == Driver \/ Hardware \/ Crash

Spec == Init /\ [][Next]_vars

\* The process is scheduled; nothing is promised of the hardware.
FairSpec == Spec /\ WF_vars(Driver)

-----------------------------------------------------------------------------
(* What the driver promises *)

\* The running call as its caller sees it: whether it has taken effect, and
\* what a read has seen.
SpiRunning == pc # "idle" /\ call.op \in {"read", "write", "channel"}

ReadDone == call.op = "read" /\ (pc = "fetch" \/ (pc = "readPoll" /\ ~Busy))

RunningCall == IF SpiRunning THEN call ELSE NoCall
TakenEffect == SpiRunning /\ (pc = "writePoll" \/ ReadDone)
ValueSeen == IF SpiRunning /\ ReadDone THEN sprx ELSE {}

Atomic == INSTANCE RegisterFile WITH
  file <- board, call <- RunningCall, done <- TakenEffect, seen <- ValueSeen

\* Every call is atomic for its caller, a read that is waited for, a write that
\* times out and the two transactions of a channel call included, whatever the
\* transactions that earlier calls or a process that died have left behind.
CallsAreAtomic == Atomic!Spec

\* A channel call ends as the server's model takes it to end: on success
\* exactly its bit of PONF has changed, after a timeout its bit or nothing.
ChannelCallAsPromised ==
  pc = "idle" /\ call # NoCall /\ call.op = "channel"
    /\ result.status \in {"ok", "timeout"} =>
      [reg |-> board[call.slot][Power], err |-> result.status = "timeout"]
        \in SetPowerChannel(before, call.ch, call.on)

\* The timeout is long enough: a transaction of the usual length never makes a
\* call fail, even one that was left behind by a process that died.
PromptBusNeverTimesOut == result.status # "timeout"

\* How many more registers the running call accesses, at most.
AccessesLeft ==
  CASE pc = "idle" -> 0
    [] pc = "l1del" -> 1
    [] pc = "delayPoll" -> 1 + polls
    [] pc = "writePoll" -> polls
    [] pc = "tx" -> 1 + TimeoutIters
    [] pc = "fetch" -> 2 + TimeoutIters
    [] pc = "readPoll" -> 2 + TimeoutIters + polls

\* A board that never answers does not hang the server: whatever the bus does,
\* each access of a call leaves fewer of them, and the last ends it.
CallsAreBounded == [][pc # "idle" => AccessesLeft' < AccessesLeft \/ UNCHANGED driver]_vars

\* The same as a promise in time: every call returns.
CallsReturn == (pc # "idle") ~> (pc = "idle")

\* "Ansatz: no previous SPI read/write is in progress when this function is
\* called.", for "cta_l2cb_spi_read and cta_l2cb_spi_write wait for completion
\* before returning"
CallsStartIdle ==
  [][\A c \in Reads \cup Writes \cup ChannelCalls :
       (StartRead(c) \/ StartWrite(c)) /\ result.status \in {"ok", "timeout"}
         => ~Busy]_vars

\* "if a set-delay process for the selected channel is ongoing, it waits until
\* complete or timeout"
SetDelayWaits ==
  [][SetDelay => <<call.slot, call.ch>> \notin adjusting]_vars
=============================================================================
