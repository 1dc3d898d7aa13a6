--------------------------- MODULE TriggerControl ---------------------------
(***************************************************************************)
(* The requests of the backend server that leave the power alone           *)
(* (src/l2tcp_server/l2tcp_server_main.c, OtherCommand of L2tcpServer):    *)
(* triggers, delays, current limits, the L2CB's own registers, counters    *)
(* and polls.                                                              *)
(*                                                                         *)
(* A request is a number of accesses to the hardware (hal/l2trig_hal.h),   *)
(* made in order; each may time out, and the process may die between any   *)
(* two of them.  An access is named by a slot and a number; slot 0 is the  *)
(* L2CB.  What is read of boards is abstracted to whether it was read.     *)
(* One counter stands for the sixteen of a board, one register for the     *)
(* L2CB's parameters, one bit for those of CTRL that switch something.     *)
(***************************************************************************)
EXTENDS Integers, FiniteSets, PowerRegister

CONSTANTS
  Slots,        \* the valid slots
  LeftSlots,    \* those in BSYMSKL; the others are in BSYMSKR
  BadSlot,      \* any other slot number of a request
  NumChannels,  \* channels of a board
  Configs,      \* the SYS_SET_CONFIG payloads clients send
  MaxValue,     \* LIMIT_TRIG_DELAY, LIMIT_CURR_CODE and the parameters' limits
  Values,       \* the values clients send for them
  PollReads,    \* transactions of a poll per board
  HalfSize,     \* 2^16
  MaxIters,     \* g_timestamp_timing.unchanged_iters
  MaxClock      \* bound: ticks of the timestamp

Channels == 1 .. NumChannels
Masks == [Slots -> SUBSET Channels]

ASSUME TriggerAssumption ==
  /\ Slots \subseteq Nat \ {0} /\ 1 \in Slots /\ LeftSlots \subseteq Slots /\ BadSlot \notin Slots
  /\ NumChannels \in Nat /\ MaxValue \in Nat /\ Values \subseteq Nat
  /\ Configs \subseteq [slots : SUBSET (Slots \cup {BadSlot}), masks : Masks]
  /\ PollReads \in Nat /\ HalfSize \in Nat \ {0} /\ MaxIters \in Nat /\ MaxClock \in Nat
  /\ SpiFaults \in BOOLEAN

VARIABLES
  active, immutable,  \* active_slots_mask, immutable_masks
  req,                \* the request, todo the accesses left, err: last_err
  todo, err, reply,   \* what it was answered with; "none" meanwhile
  l1, delay,          \* L1MSK and L1DEL of the boards
  limits, scaler,     \* CUR_MIN and CUR_MAX; enable bit and counter
  busy, param, ctrl,  \* BSYMSKL and R, MUTHR .. L1DT, CTRL
  tib,                \* a TIB counter: 0 or more
  clock, stamp,       \* the timestamp counter, and TSTMP0-2
  start, iter,        \* locals of cta_l2cb_readTimestamp
  low                 \* the low half read by cta_ctdb_readL1Counter

\* History variables, which no action reads.
VARIABLES
  got,          \* accesses of a poll that were answered
  lost,         \* a transaction of the request has timed out
  cleared,      \* the request has set the TIB counters to zero
  interrupted,  \* the process died in the middle of the last reset
  asked,        \* the clock when the request came
  seen          \* the counter when its low half was read

config == <<active, immutable>>
handling == <<req, todo, err, reply>>
boards == <<l1, delay, limits, scaler>>
crate == <<busy, param, ctrl, tib, stamp>>
locals == <<start, iter, low>>
ghosts == <<got, lost, cleared, interrupted, asked, seen>>
triggerVars == <<config, handling, boards, crate, clock, locals, ghosts>>

\* is_slot_active and not is_ch_immutable
Mutable(s, c) == s \in active /\ c \in Channels /\ c \notin immutable[s]

-----------------------------------------------------------------------------
(* Requests, up to their first access *)

Slot == Slots \cup {BadSlot}

Begin(r, places) ==
  /\ reply # "none"
  /\ req' = r /\ todo' = places /\ err' = FALSE /\ reply' = "none"
  /\ start' = stamp /\ iter' = 0 /\ low' = 0
  /\ got' = {} /\ lost' = FALSE /\ cleared' = FALSE /\ asked' = clock /\ seen' = 0
  /\ UNCHANGED <<config, boards, crate, clock, interrupted>>

\* "Slot not active", "Channel is immutable"
Refuse(r) ==
  /\ reply # "none"
  /\ req' = r /\ reply' = "ERROR"
  /\ UNCHANGED <<config, todo, err, boards, crate, clock, locals, ghosts>>

SetConfig(cfg) ==
  /\ reply # "none"
  /\ active' = cfg.slots \cap Slots /\ immutable' = cfg.masks
  /\ req' = [kind |-> "SET_CONFIG"] /\ reply' = "ACK"
  /\ UNCHANGED <<todo, err, boards, crate, clock, locals, ghosts>>

SetAllTriggers(on) == Begin([kind |-> "SET_ALL_TRIG_EN", on |-> on], active \X {0})

SetAllDelays(v) ==
  Begin([kind |-> "SET_ALL_TRIG_DELAY", value |-> v],
        {p \in Slots \X Channels : Mutable(p[1], p[2])})

SetChannelTrigger(s, c, on) ==
  LET r == [kind |-> "SET_CH_TRIG", on |-> on, slot |-> s, ch |-> c] IN
    \/ Mutable(s, c) /\ Begin(r, {<<s, c>>})
    \/ ~Mutable(s, c) /\ Refuse(r)

SetChannelDelay(s, c, v) ==
  LET r == [kind |-> "SET_CH_DELAY", value |-> v, slot |-> s, ch |-> c] IN
    \/ Mutable(s, c) /\ Begin(r, {<<s, c>>})
    \/ ~Mutable(s, c) /\ Refuse(r)

\* The minimum, then the maximum.
SetLimits(s, min, max) ==
  LET r == [kind |-> "SET_LIMITS", slot |-> s, min |-> min, max |-> max] IN
    \/ s \in active /\ Begin(r, {s} \X {1, 2})
    \/ s \notin active /\ Refuse(r)

\* cta_ctdb_startAllL1Counters, cta_ctdb_stopAllL1Counters
SetScalers(on) ==
  Begin([kind |-> "SET_L1SCALERS_EN", on |-> on], {1} \X (IF on THEN 1 .. 4 ELSE {1}))

\* GET_MONITORING, GET_CONFIG of a slot
Get(s) ==
  LET r == [kind |-> "GET", slots |-> {s}] IN
    \/ s \in active /\ Begin(r, {s} \X (1 .. PollReads))
    \/ s \notin active /\ Refuse(r)

\* BATCH_MONITOR_ALL, SLOW_POLL
Poll == Begin([kind |-> "GET", slots |-> active], active \X (1 .. PollReads))

\* L1SCALERS_POLL: the low and the high half of each counter.
PollScalers == Begin([kind |-> "L1SCALERS_POLL"], active \X {1, 2})

GetState == Begin([kind |-> "GET_STATE"], {0} \X (1 .. 3))

\* FAST_POLL: the state of the L2CB, then the boards.
FastPoll ==
  Begin([kind |-> "FAST_POLL", slots |-> active],
        ({0} \X (1 .. 3)) \cup (active \X (1 .. PollReads)))

\* SET_MCF_EN, SET_GLITCH_EN, SET_TIB_BLOCK_EN
SetControl(on) == Begin([kind |-> "SET_CTRL", on |-> on], {<<0, 1>>})

\* SET_MCF_THRESH, SET_MCF_DELAY, SET_L1_DEADTIME
SetParameter(v) == Begin([kind |-> "SET_PARAM", value |-> v], {<<0, 1>>})

\* SET_BUSY_ENABLE_MASK
SetBusyMask(mask) == Begin([kind |-> "SET_BUSY", mask |-> mask], {0} \X {1, 2})

\* SET_BUSY_ENABLE_SLOT: nothing for an invalid slot.
SetBusySlot(s, on) ==
  IF s \in Slots THEN SetBusyMask(Bit(busy, s, on))
                 ELSE Begin([kind |-> "SET_BUSY", mask |-> busy], {})

ResetCounters == Begin([kind |-> "RESET_TIB_COUNT"], {0} \X {1, 2})

\* Requests that read the state of the L2CB.
StateKinds == {"GET_STATE", "FAST_POLL"}

-----------------------------------------------------------------------------
(* Accesses *)

First(p) ==
  p \in todo /\ \A q \in todo : p[1] < q[1] \/ (p[1] = q[1] /\ p[2] <= q[2])

Does(kinds, p) ==
  /\ reply = "none" /\ req.kind \in kinds /\ First(p)
  /\ UNCHANGED <<config, req, reply, clock>>

\* An access that always succeeds.
Advance(p) == todo' = todo \ {p} /\ UNCHANGED <<err, got, lost, seen>>

\* Mutant: the outcome of the last access is the outcome of the request.
OutcomeOfLast(p, failed) ==
  /\ todo' = todo \ {p}
  /\ err' = failed /\ lost' = (lost \/ failed)

\* The outcome of an SPI transaction or of the wait before L1DEL.
Outcome(p, failed) ==
  /\ failed => SpiFaults
  /\ todo' = todo \ {p}
  /\ err' = (err \/ failed) /\ lost' = (lost \/ failed)

\* Clamped by the server, masked by the HAL.
Written(v) == (IF v > MaxValue THEN MaxValue ELSE v) % (MaxValue + 1)

\* Mutant: immutable channels follow.
TriggersOfAll(mask, imm, on) == IF on THEN Channels ELSE {}

AllTriggers(mask, imm, on) ==
  IF on THEN mask \cup (Channels \ imm) ELSE mask \cap imm

WriteTriggers(p) ==
  /\ Does({"SET_ALL_TRIG_EN"}, p) /\ Advance(p)
  /\ l1' = [l1 EXCEPT ![p[1]] = AllTriggers(@, immutable[p[1]], req.on)]
  /\ UNCHANGED <<delay, limits, scaler, crate, locals, cleared, interrupted, asked>>

\* cta_l2cb_setL1TriggerChannelEnabled
WriteTrigger(p) ==
  /\ Does({"SET_CH_TRIG"}, p) /\ Advance(p)
  /\ l1' = [l1 EXCEPT ![p[1]] = Bit(@, p[2], req.on)]
  /\ UNCHANGED <<delay, limits, scaler, crate, locals, cleared, interrupted, asked>>

\* cta_l2cb_setL1TriggerDelay
WriteDelay(p) ==
  /\ Does({"SET_ALL_TRIG_DELAY", "SET_CH_DELAY"}, p)
  /\ \/ Outcome(p, FALSE) /\ delay' = [delay EXCEPT ![p[1]][p[2]] = Written(req.value)]
     \/ Outcome(p, TRUE) /\ UNCHANGED delay
  /\ UNCHANGED <<l1, limits, scaler, crate, locals, got, cleared, interrupted, asked, seen>>

\* cta_ctdb_setPowerCurrentMin, Max; a write that times out may have arrived.
WriteLimit(p) ==
  /\ Does({"SET_LIMITS"}, p)
  /\ LET new == IF p[2] = 1 THEN [limits EXCEPT ![p[1]].min = Written(req.min)]
                            ELSE [limits EXCEPT ![p[1]].max = Written(req.max)]
     IN \/ Outcome(p, FALSE) /\ limits' = new
        \/ Outcome(p, TRUE) /\ limits' \in {limits, new}
  /\ UNCHANGED <<l1, delay, scaler, crate, locals, got, cleared, interrupted, asked, seen>>

\* A broadcast: disable, reset, disable, enable.
Broadcast(n) ==
  [s \in Slots |-> [on |-> n = 4, n |-> IF n = 2 THEN 0 ELSE scaler[s].n]]

\* The results of the broadcasts are ignored.
WriteScalers(p) ==
  /\ Does({"SET_L1SCALERS_EN"}, p)
  /\ todo' = todo \ {p}
  /\ \/ scaler' = Broadcast(p[2]) /\ UNCHANGED lost
     \/ SpiFaults /\ lost' = TRUE /\ scaler' \in {scaler, Broadcast(p[2])}
  /\ UNCHANGED <<err, l1, delay, limits, crate, locals, got, cleared, interrupted, asked, seen>>

ReadBoard(p) ==
  /\ Does({"GET", "FAST_POLL"}, p) /\ p[1] # 0
  /\ \E failed \in BOOLEAN :
       /\ Outcome(p, failed)
       /\ got' = IF failed THEN got ELSE got \cup {p}
  /\ UNCHANGED <<boards, crate, locals, cleared, interrupted, asked, seen>>

\* cta_ctdb_readL1Counter, first half; if it fails the second is not read.
ReadLow(p) ==
  /\ Does({"L1SCALERS_POLL"}, p) /\ p[2] = 1
  /\ \/ Outcome(p, FALSE) /\ low' = scaler[p[1]].n % HalfSize /\ seen' = scaler[p[1]].n
     \/ /\ SpiFaults /\ todo' = todo \ {p, <<p[1], 2>>} /\ err' = TRUE /\ lost' = TRUE
        /\ UNCHANGED <<low, seen>>
  /\ UNCHANGED <<boards, crate, start, iter, got, cleared, interrupted, asked>>

ReadHigh(p) ==
  /\ Does({"L1SCALERS_POLL"}, p) /\ p[2] = 2
  /\ \E failed \in BOOLEAN :
       /\ Outcome(p, failed)
       /\ got' = IF failed THEN got ELSE got \cup {p}
  /\ UNCHANGED <<boards, crate, locals, cleared, interrupted, asked, seen>>

\* The L2CB latches the clock and clears the counters on an edge of CTRL.
WriteCtrl(new) ==
  /\ ctrl' = new
  /\ stamp' = IF "LATCH_TIMESTAMP" \in new \ ctrl THEN clock ELSE stamp
  /\ tib' = IF "CT_CLEAR" \in new \ ctrl THEN 0 ELSE tib
  /\ UNCHANGED <<busy, param>>

\* Mutant: the latch bit is not cleared first.
LatchAgain(n) == ctrl \cup {"LATCH_TIMESTAMP"}

LatchBit(n) == Bit(ctrl, "LATCH_TIMESTAMP", n = 2)

\* cta_l2cb_readTimestamp: bit to 0, bit to 1.
Latch(p) ==
  /\ Does(StateKinds, p) /\ p[1] = 0 /\ p[2] < 3 /\ Advance(p)
  /\ WriteCtrl(LatchBit(p[2]))
  /\ UNCHANGED <<boards, locals, cleared, interrupted, asked>>

\* Its value; the same as before is not believed, MaxIters times.
ReadStamp(p) ==
  /\ Does(StateKinds, p) /\ p = <<0, 3>>
  /\ \/ stamp = start /\ iter + 1 < MaxIters
        /\ iter' = iter + 1 /\ todo' = todo \cup ({0} \X (1 .. 3))
     \/ (stamp # start \/ iter + 1 >= MaxIters) /\ todo' = todo \ {p} /\ UNCHANGED iter
  /\ UNCHANGED <<err, boards, crate, start, low, ghosts>>

WriteControl(p) ==
  /\ Does({"SET_CTRL"}, p) /\ Advance(p)
  /\ WriteCtrl(Bit(ctrl, "MCF_EN", req.on))
  /\ UNCHANGED <<boards, locals, cleared, interrupted, asked>>

WriteParameter(p) ==
  /\ Does({"SET_PARAM"}, p) /\ Advance(p)
  /\ param' = Written(req.value)
  /\ UNCHANGED <<boards, busy, ctrl, tib, stamp, locals, cleared, interrupted, asked>>

WriteBusy(p) ==
  /\ Does({"SET_BUSY"}, p) /\ Advance(p)
  /\ LET half == IF p[2] = 1 THEN LeftSlots ELSE Slots \ LeftSlots
     IN busy' = (busy \ half) \cup (req.mask \cap half)
  /\ UNCHANGED <<boards, param, ctrl, tib, stamp, locals, cleared, interrupted, asked>>

\* Mutant: the bit is left set.
ClearBitStays(n) == ctrl \cup {"CT_CLEAR"}

ClearBit(n) == Bit(ctrl, "CT_CLEAR", n = 1)

\* cta_l2cb_resetTIBCounters: bit to 1, bit to 0.
ClearCounters(p) ==
  /\ Does({"RESET_TIB_COUNT"}, p) /\ Advance(p)
  /\ WriteCtrl(ClearBit(p[2]))
  /\ cleared' = (cleared \/ "CT_CLEAR" \in ctrl' \ ctrl)
  /\ UNCHANGED <<boards, locals, interrupted, asked>>

Answer ==
  /\ reply = "none" /\ todo = {}
  /\ reply' = IF err THEN "ERROR"
              ELSE IF req.kind \in {"GET", "L1SCALERS_POLL"} \cup StateKinds THEN "DATA"
              ELSE "ACK"
  /\ interrupted' = (interrupted /\ req.kind # "RESET_TIB_COUNT")
  /\ UNCHANGED <<config, req, todo, err, boards, crate, clock, locals, got, lost, cleared,
                 asked, seen>>

-----------------------------------------------------------------------------
(* The environment *)

\* The process dies and is started again.  The hardware goes on; the emulator
\* starts its clock and its TIB counters anew.
Restart ==
  /\ active' = {} /\ immutable' = [s \in Slots |-> {}]
  /\ req' = [kind |-> "NONE"] /\ todo' = {} /\ err' = FALSE /\ reply' = "ERROR"
  /\ interrupted' = (interrupted \/ (req.kind = "RESET_TIB_COUNT" /\ "CT_CLEAR" \in ctrl))
  /\ clock' \in {clock, 0} /\ tib' \in {tib, 0}
  /\ UNCHANGED <<boards, busy, param, ctrl, stamp, locals, got, lost, cleared, asked, seen>>

ClockTicks ==
  /\ clock < MaxClock /\ clock' = clock + 1
  /\ UNCHANGED <<config, handling, boards, crate, locals, ghosts>>

Trigger(s) ==
  /\ scaler' = IF scaler[s].on THEN [scaler EXCEPT ![s].n = (@ + 1) % (HalfSize * HalfSize)]
                               ELSE scaler
  /\ tib' = 1
  /\ UNCHANGED <<config, handling, l1, delay, limits, busy, param, ctrl, stamp, clock, locals,
                 ghosts>>

-----------------------------------------------------------------------------
TriggerInit ==
  /\ active = {} /\ immutable = [s \in Slots |-> {}]
  /\ req = [kind |-> "NONE"] /\ todo = {} /\ err = FALSE /\ reply = "ERROR"
  /\ l1 = [s \in Slots |-> Channels]
  /\ delay = [s \in Slots |-> [c \in Channels |-> 0]]
  /\ limits = [s \in Slots |-> [min |-> 0, max |-> MaxValue]]
  /\ scaler = [s \in Slots |-> [on |-> FALSE, n |-> 0]]
  /\ busy = {} /\ param = 0 /\ ctrl = {"MCF_EN"} /\ tib = 0
  /\ clock = 0 /\ stamp = 0
  /\ start = 0 /\ iter = 0 /\ low = 0
  /\ got = {} /\ lost = FALSE /\ cleared = FALSE /\ interrupted = FALSE /\ asked = 0 /\ seen = 0

BoardRequest ==
  \/ \E on \in BOOLEAN : SetAllTriggers(on) \/ SetScalers(on)
  \/ \E v \in Values : SetAllDelays(v)
  \/ \E s \in Slot, c \in Channels :
       \/ \E on \in BOOLEAN : SetChannelTrigger(s, c, on)
       \/ \E v \in Values : SetChannelDelay(s, c, v)
  \/ \E s \in Slot : Get(s) \/ \E min, max \in Values : SetLimits(s, min, max)
  \/ Poll \/ PollScalers

CrateRequest ==
  \/ GetState \/ FastPoll \/ ResetCounters
  \/ \E on \in BOOLEAN : SetControl(on) \/ \E s \in Slot : SetBusySlot(s, on)
  \/ \E v \in Values : SetParameter(v)
  \/ \E mask \in SUBSET Slots : SetBusyMask(mask)

BoardAccess(p) ==
  \/ WriteTriggers(p) \/ WriteTrigger(p) \/ WriteDelay(p) \/ WriteLimit(p) \/ WriteScalers(p)
  \/ ReadBoard(p) \/ ReadLow(p) \/ ReadHigh(p)

CrateAccess(p) ==
  Latch(p) \/ ReadStamp(p) \/ WriteControl(p) \/ WriteParameter(p) \/ WriteBusy(p) \/ ClearCounters(p)

TriggerNext ==
  \/ \E cfg \in Configs : SetConfig(cfg)
  \/ BoardRequest \/ CrateRequest
  \/ \E p \in todo : BoardAccess(p) \/ CrateAccess(p)
  \/ Answer \/ Restart \/ ClockTicks
  \/ \E s \in Slots : Trigger(s)

TriggerSpec == TriggerInit /\ [][TriggerNext]_triggerVars

-----------------------------------------------------------------------------
(* Properties *)

TriggerTypeOK ==
  /\ active \in SUBSET Slots /\ immutable \in Masks
  /\ todo \in SUBSET ((Slots \cup {0}) \X Nat) /\ got \in SUBSET ((Slots \cup {0}) \X Nat)
  /\ err \in BOOLEAN /\ reply \in {"none", "ACK", "ERROR", "DATA"}
  /\ l1 \in Masks /\ delay \in [Slots -> [Channels -> 0 .. MaxValue]]
  /\ limits \in [Slots -> [min : 0 .. MaxValue, max : 0 .. MaxValue]]
  /\ scaler \in [Slots -> [on : BOOLEAN, n : 0 .. HalfSize * HalfSize - 1]]
  /\ busy \in SUBSET Slots /\ param \in 0 .. MaxValue
  /\ ctrl \in SUBSET {"MCF_EN", "CT_CLEAR", "LATCH_TIMESTAMP"}
  /\ tib \in {0, 1} /\ clock \in Nat /\ stamp \in Nat /\ start \in Nat /\ iter \in Nat
  /\ low \in 0 .. HalfSize - 1 /\ seen \in Nat /\ asked \in Nat
  /\ lost \in BOOLEAN /\ cleared \in BOOLEAN /\ interrupted \in BOOLEAN

\* "Immutable" channels "cannot be changed by standard power and trigger enable/disable
\* commands" (PROTOCOL.md): no request changes the trigger or the delay of a channel
\* that is immutable or in a slot left out, whatever fails and wherever the process dies.
ProtectedTriggersKept ==
  [][\A s \in Slots, c \in Channels : ~Mutable(s, c) =>
       (c \in l1'[s] <=> c \in l1[s]) /\ delay'[s][c] = delay[s][c]]_triggerVars

Saturated(v) == IF v > MaxValue THEN MaxValue ELSE v

\* What a request that is acknowledged has promised.
Done ==
  /\ req.kind = "SET_ALL_TRIG_EN" =>
       \A s \in active : l1[s] \ immutable[s] = IF req.on THEN Channels \ immutable[s] ELSE {}
  /\ req.kind = "SET_ALL_TRIG_DELAY" =>
       \A s \in Slots, c \in Channels : Mutable(s, c) => delay[s][c] = Saturated(req.value)
  /\ req.kind = "SET_CH_TRIG" => (req.ch \in l1[req.slot] <=> req.on)
  /\ req.kind = "SET_CH_DELAY" => delay[req.slot][req.ch] = Saturated(req.value)
  /\ req.kind = "SET_LIMITS" =>
       limits[req.slot] = [min |-> Saturated(req.min), max |-> Saturated(req.max)]
  /\ req.kind = "SET_L1SCALERS_EN" /\ ~lost => \A s \in Slots : scaler[s].on = req.on
  /\ req.kind = "SET_CTRL" => ("MCF_EN" \in ctrl <=> req.on)
  /\ req.kind = "SET_PARAM" => param = Saturated(req.value)
  /\ req.kind = "SET_BUSY" => busy = req.mask

\* An acknowledged request has set every register it was to set, out-of-range values
\* to their limit, and a poll that is answered with data has read all of it: no failure
\* of one access is covered by the success of another (err_count, last_err; the writes
\* that start the scalers are not looked at).
RepliesAreHonest ==
  /\ reply = "ACK" => Done
  /\ reply = "DATA" /\ req.kind \in {"GET", "FAST_POLL"} => got = req.slots \X (1 .. PollReads)
  /\ reply = "DATA" /\ req.kind = "L1SCALERS_POLL" => got = active \X {2}

Acknowledges(kind) == req.kind = kind /\ reply = "none" /\ reply' = "ACK"

\* A reset that is acknowledged has cleared the TIB counters, but for the first one after
\* the process has died in the middle of a reset, and leaves them free to count.
ResetTakesEffect ==
  [][Acknowledges("RESET_TIB_COUNT") =>
       (cleared \/ interrupted) /\ "CT_CLEAR" \notin ctrl]_triggerVars

\* The timestamp of a reply was latched for it, not for an earlier request, whatever a
\* process that died has left in CTRL, and however often the value is read again.
TimestampFresh == reply = "DATA" /\ req.kind \in StateKinds => stamp >= asked

\* "Reset both TIB hardware counters": the same without the exception.
ResetAlwaysTakesEffect ==
  [][Acknowledges("RESET_TIB_COUNT") => cleared]_triggerVars

\* "Enable/disable L1 scaler counters on all slots": the same with transactions that fail.
ScalersAreSet ==
  reply = "ACK" /\ req.kind = "SET_L1SCALERS_EN" => \A s \in Slots : scaler[s].on = req.on

\* A scaler count is one the counter has had while it was read.
ScalerNotTorn ==
  [][\A s \in Slots : req.kind = "L1SCALERS_POLL" /\ <<s, 2>> \in got' \ got =>
       LET size == HalfSize * HalfSize
           value == low + HalfSize * (scaler[s].n \div HalfSize)
       IN (value - seen) % size <= (scaler[s].n - seen) % size]_triggerVars
=============================================================================
