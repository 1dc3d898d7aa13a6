---------------------------- MODULE RegisterFile ----------------------------
(***************************************************************************)
(* What the callers of the SPI driver (src/hal/l2trig_hal.c) rely on: the   *)
(* registers of the boards are one file, and every call takes effect once,  *)
(* between the moment it is made and the moment it returns.  A call that    *)
(* returns an error has taken effect or never will.                         *)
(***************************************************************************)
EXTENDS PowerRegister

CONSTANTS
  Slots,      \* the boards
  Registers,  \* the registers of a board
  Volatile,   \* the registers that a board changes by itself
  Values,     \* what a register holds
  Power,      \* the power register
  SpiCalls,   \* the calls on a valid slot that go over SPI
  NoCall      \* no such call is running

VARIABLES
  file,    \* the registers, per slot
  call,    \* the running call
  done,    \* it has taken effect
  seen,    \* what a read has seen
  result   \* how the last call ended

vars == <<file, call, done, seen, result>>

Outcome(status, value) == [status |-> status, value |-> value]

Init ==
  /\ file \in [Slots -> [Registers -> Values]]
  /\ call = NoCall /\ done = FALSE /\ seen = {}
  /\ result = Outcome("none", {})

Begin ==
  /\ call = NoCall
  /\ call' \in SpiCalls
  /\ result' = Outcome("running", {})
  /\ UNCHANGED <<file, done, seen>>

\* Everything stays but volatile registers and the one that is written.
OthersKept(slot, reg) ==
  /\ file' \in [Slots -> [Registers -> Values]]
  /\ \A s \in Slots, r \in Registers \ Volatile :
       <<s, r>> # <<slot, reg>> => file'[s][r] = file[s][r]

Write(slot, reg, value) ==
  /\ OthersKept(slot, reg)
  /\ file'[slot][reg] = value
  /\ UNCHANGED seen

Read(slot, reg) == seen' = file[slot][reg] /\ UNCHANGED file

ReadEffect == call.op = "read" /\ Read(call.slot, call.reg)

WriteEffect == call.op = "write" /\ Write(call.slot, call.reg, call.value)

ChannelEffect ==
  /\ call.op = "channel"
  /\ Write(call.slot, Power, Bit(file[call.slot][Power], call.ch, call.on))

Effect ==
  /\ call # NoCall /\ ~done
  /\ ReadEffect \/ WriteEffect \/ ChannelEffect
  /\ done' = TRUE
  /\ UNCHANGED <<call, result>>

End(outcome) ==
  /\ call # NoCall
  /\ call' = NoCall /\ done' = FALSE /\ seen' = {}
  /\ result' = outcome
  /\ UNCHANGED file

Return == done /\ End(Outcome("ok", seen))

Fail == End(Outcome("timeout", {}))

\* A call that is refused, or that does not go over SPI.
OtherCall ==
  /\ call = NoCall
  /\ \E status \in {"invalid", "running", "ok", "timeout"}, v \in Values :
       result' = Outcome(status, v)
  /\ UNCHANGED <<file, call, done, seen>>

BoardActs ==
  /\ file' \in [Slots -> [Registers -> Values]]
  /\ \A s \in Slots, r \in Registers \ Volatile : file'[s][r] = file[s][r]
  /\ UNCHANGED <<call, done, seen, result>>

\* The caller dies.  Nothing it asked for happens afterwards.
Crash ==
  /\ call' = NoCall /\ done' = FALSE /\ seen' = {}
  /\ result' = Outcome("none", {})
  /\ UNCHANGED file

Next == Begin \/ Effect \/ Return \/ Fail \/ OtherCall \/ BoardActs \/ Crash

Spec == Init /\ [][Next]_vars
=============================================================================
