# Formal model of the NectarCAM L2 trigger control software

TLA+ modules for the software that powers and configures the L2 trigger crate of NectarCAM: what
each part promises, checked with TLC on small instances and, where the proof system reaches, proved
with TLAPS for every value of the constants. Source references are `file:line` below `src/`; `S` is
`l2tcp_server/l2tcp_server_main.c`, `BR` is `l2trig_asyncua_bridge.py`, `API` is `l2trig_api.py`,
`GUI`, `TUI`, `OCLI` and `TCLI` are `l2trig_gui.py`, `l2trig_tui.py`, `l2trig_test_opcua_cli.py` and
`l2trig_test_tcp_cli.py`.

```
 GUI            GUI                                    Gui, ModuleArrays
 terminal client, OPC UA test client   TUI, OCLI       Tui, OpcuaCli
        |  OPC UA: method calls, reads, notifications; cancelled when the client leaves
 OPC UA bridge + TCP API     BR, API                   Bridge
        |                                              TCP test client  TCLI + API   TcpCli
        |  one TCP connection, length-prefixed requests with sequence numbers
 backend server              S                         L2tcpServer (session, power; implements PowerPromise), TriggerControl (the other requests)
        |  function calls                              PowerRegister (the promise between them)
 HAL: SPI driver             hal/l2trig_hal.{c,h}      HalSpi  implements  RegisterFile
        |  16-bit register accesses
 L2CB, SPI controller, CTDB boards   hal/smc_emulated.c   environment of HalSpi and L2tcpServer
```

## 1. Inventory

### Backend server (S, 1171 lines): single process, one `select()` loop
- **State** (`g_server`, S:37-57): the slot and immutable masks, the ramp (`active`, `enable`,
  `current_ch`, `next_step_ts`), `client_fd`, `is_negotiated`, `last_activity_ts`. Nothing persists;
  the boards keep their registers over a restart.
- **Operations**: accept or reject a connection; drop an inactive client; read and answer one request;
  one step of the power ramp. An iteration of the loop does each of these at most once, in this order.
- **Hard**: one client at a time, with clients that vanish or do not read their replies; state reset on accept and not on close; a
  ramp that spreads over many iterations while requests arrive; SPI errors that are ignored; a
  schedule that follows its own time stamps. The other requests are loops of register accesses, of which any may
  time out and between any two of which the process may die: bits of CTRL that are set and cleared again, pairs of
  limits, counters read in two halves.
- **Correct when**: the state acted on is the connected client's; a ramp delivers what it passed;
  emergency off stays off; immutable channels stay; a dead client goes; a ramp ends; an answer is true of the registers.

### HAL: SPI driver (hal/l2trig_hal.c, l2trig_hal.h)
- **State**: none but the timing structures; the state is in the L2CB's registers (SPAD, SPTX, SPRX,
  STAT, L1SEL, L1DEL) and the boards'.
- **Operations**: SPI read and write with a bounded busy-wait, read-modify-write of PONF, trigger
  delay. The inline functions for masks, CTRL and counters touch the L2CB only.
- **Hard**: a call that gives up leaves its transaction in the controller; a process that dies leaves
  the controller busy; a restarted transaction; two transactions in one call.
- **Correct when**: calls are atomic; a failed call has happened or never will; no call hangs.

### OPC UA bridge (BR) and TCP API (API): one asyncio process
- **State**: `_lock`, `immutable_channels` and its masks, `_connected`, `_last_contact`, the
  reconnection delay, `_poll_event`, the published variables; in the API the stream and `_seq`.
- **Operations**: the update loop (fast and slow poll), one task per method call, `_ensure_connected`,
  the request/reply exchange with its timeouts.
- **Hard**: arguments checked before the lock; masks changed before the server is told; connections
  that die at any await; late replies; requests the server runs after the client gave up; cancelled
  tasks; backoff against a server that still holds the old session.
- **Correct when**: a configured session is the only kind there is; `OK` means the server acted;
  `Good` means read; methods return; polling comes back.

### GUI (1233 lines): Tk main thread, asyncio thread, helper threads
- **State**: `OPCUAClient` (`client`, `subscription`, the nodes, `is_connected`), the Tk queue of `after()`,
  the widgets: status label, buttons, module matrix with one indicator per module, check boxes.
- **Operations**: connect (session, browse, subscribe, one read per variable), notifications, calls of methods,
  disconnect, closing the window; the matrix is built again when `BoardSlotId` says that slots are missing.
- **Hard**: three kinds of threads; `after()` from another thread blocks it until the main thread is back in its
  event loop, and `on_close` blocks the main thread on the asyncio thread; helpers that give up after a timeout
  while the coroutine goes on; two numberings of the modules.
- **Correct when**: the widgets end up showing what is published; the label tells the state of the device; a click
  commands the module clicked; closing ends.

### Terminal client (TUI, 547 lines): two asyncio tasks
- **State**: `SystemState` (copies of the variables), the view mode, the selection, `running`.
- **Operations**: the display task reads all variables and draws; the keyboard task handles one key at a time.
- **Hard**: an update that is cut short leaves arrays empty or old, and both tasks index them; a terminal of any size, resized at any
  moment, beyond whose edge curses raises; nothing catches either exception.
- **Correct when**: neither task dies; a lost device is shown; `q` ends it.

### Test clients (OCLI, 498 lines; TCLI, 385 lines)
- **State**: OCLI: session, subscription, handles, names of what is subscribed; TCLI: the connection with its
  lock, the keepalive task.
- **Operations**: commands one after the other, each preceded in OCLI by a check of the session that reconnects and
  restores subscriptions; in TCLI a keepalive request every second, started and cancelled by a command.
- **Hard**: a session that dies at any await, also while it is restored; cancellation anywhere in a request.
- **Correct when**: what the operator was told is monitored is restored; no reply is left in the stream; commands return.

### Not part of the control path
The board's SMC driver (`hal/smc.c`: one ioctl per register), the direct command line client and `obsolete/`: see
the components of PROJECT.json for the reasons.

## 2. Modules

| Module | Models | Notes |
|---|---|---|
| `PowerRegister` | PONF as a set of channels; what a caller may expect of `cta_ctdb_setPowerChannelEnabled` | used by the server, kept by the HAL (`ChannelCallAsPromised`) |
| `RegisterFile` | abstract: registers of the boards, every call atomic | abstract specification of `HalSpi` |
| `HalSpi` | the driver, one action per register access, and the SPI controller | |
| `PowerPromise` | abstract: the power of the crate, every command and every column of a ramp atomic | abstract specification of `L2tcpServer` |
| `L2tcpServer` | the backend server: session, configuration, power | |
| `TriggerControl` | the backend server: triggers, delays, limits, the L2CB's registers, counters and polls | one action per register access |
| `Bridge` | bridge and API, against a server reduced to its session | |
| `ModuleArrays` | module numbers, slots and channels, places in the published arrays | shared by bridge and GUI |
| `Gui` | the graphical client, against the address space of the bridge | extends `ModuleArrays` |
| `Tui` | the terminal client | |
| `OpcuaCli` | the OPC UA test client | |
| `TcpCli` | the TCP test client, with the API's connection and lock | |
| `MC*` | small instances for TLC | |
| `*Proofs` | theorems, section 5 | |

### L2tcpServer
The loop is split at its calls: `pc` is `"select"` (S:1100-1146: `NothingToAccept`,
`RejectSecondClient`, `AcceptClient`), `"client"` (S:1148-1164: `NoRequest`, `DropIdleClient`,
`HandleRequest`), `"send"` or `"refuse"` (blocked in the `send()` of a reply, S:155, the latter of an ERROR that closes the connection) or
`"ramp"` (S:246-276: `RampWaits`, `RampStep`, which end the iteration, `EndIteration`). The environment moves between
those steps: clients connect, send, close or vanish, channels trip, time passes, the process is
restarted. Any reply may block (`Answer`): a client may have left enough of them unread to fill its window. What ends a blocked send is the client that
reads (`ClientReads`, a step of the environment) or, once it has gone, TCP (`SendFails`). Requests are `Hello`, `SetConfig`, `RampPower`, `EmergencyOff`, `SetChannelPower` and
`OtherCommand`; `RefuseRequest` is a request before HELLO or one that cannot be read, which closes the connection. Contents of requests are chosen when
they are read. Time is relative (`due`, `idle`), so nothing grows. An SPI timeout is a choice per
transaction; a write that times out may have reached the board. The pre-sweep of a ramp (S:227-243)
ignores read errors and uses variables it has not initialised: any value is possible for them.
`PowerPromise` has no sessions, messages, masks or schedule: `managed`, `left` and `up` are what a client thinks of, the channels it may
switch and the ramp it asked for. `ManagedNow`, `ColumnsLeft` and `ramp.enable` map the server's state to them (`KeepsPromise`).
A command that changes nothing is a stutter of that specification, so it does not say that an acknowledged command took effect: `AckedPowerIsSet` and
`AckedRecoveryCorrect` do.

### TriggerControl
A request (`SetAllTriggers`, `SetLimits`, `FastPoll`, ...) is the set of accesses its handler makes, `todo`, in the order of the
handler's loops (`First`); each access is an action (`WriteTriggers`, `WriteLimit`, `Latch`, ...) and `Answer` ends the request.
Accesses over the SPI bus succeed or not (`Outcome`); `Restart` ends the process between any two and the hardware goes on.
Registers that are treated alike are one here: one counter of a board, one parameter (MUTHR, MUDEL, L1DT), one switch of CTRL beside the two
bits with edges, latch and clear, whose hardware is `WriteCtrl`. `Written` is what arrives of a value: clamped by the server (S:291), masked by the HAL.
`req`'s fields are the request's arguments.

### HalSpi
`StartRead`, `StartWrite`, `StartDelay` are the first register access of a call, `PollBusy`, `PollRead`,
`PollWrite`, `PollDelay` one read of STAT each, `Fetch`, `SetDelay`, `GetDelay` the last access.
The controller follows `smc_emulated.c`: a write to SPAD starts or restarts the transaction, a write
reaches the board at once, a read is latched when SPIBUSY clears. Registers are sets of bits. `Crash`
ends the process anywhere; the controller goes on, or is reset as the emulator does it.

### Bridge
Tasks interleave at their awaits: a task waits for `_lock` (`"lock"`), for a connection (`"connect"`), for a
reply (`"recv"`), or the update loop is between its two polls (`"slow"`). `lockq` is the lock with its FIFO of
waiters. What a task does between two awaits is one action: `Start` is `_ensure_connected` up to its first
await, `Configured` its successful end with the write of the operation's own request, and so on. The API's
connection is `writer`; a connection given up stays with the server (`session = "old"`, `stale`) until the
server notices, and requests in it are still executed. `Cancel` is a client that leaves in the middle of
a method: asyncua cancels the task, the lock is released, nothing else is undone.
Methods come in four kinds: one that changes power (`POWER`: an immutable module is passed over with ACK),
one that changes the trigger (`TRIGGER`: an ERROR), one for the crate (`CRATE`) and `IMMUTABLE`.

### Gui
Per click on Connect there is a coroutine `connect()` (`conn[k].pc`: `open`, `browse`, `subscribe`, `read`, `up`) and a helper
thread that waits for it (`helper[k]`); `sess[k]` and `queue[k]` are its session at the bridge and the notifications under way.
The fields of `OPCUAClient` are shared by all coroutines, as in the code. `tk` is the queue of callbacks; `Posts` is `after()` on
the asyncio thread and blocks it (`blocked`) while the main thread is in `on_close` (`main = "closing"`). `RunCallback` is one turn of
Tk: `_update_ui`, `on_connection_success`, `update_slot_configuration`, the error and disconnection callbacks. Element values are
Booleans: the properties tell only equal from different. The display mode is a free choice before each click.

### Tui, OpcuaCli, TcpCli
`Tui`: `display` is the place of the polling task (`ReadVar` is one awaited read, in the source's order, and raises when the status
is not Good), `input` that of the keyboard's task; `shown_` is `SystemState`, a copy reduced to whether it is there and, by
history variables, of which publication. `Needs` says which arrays a view indexes, so `Draw` and the keys can raise an
`IndexError` (or, for no slots, a `ZeroDivisionError`) exactly where the code can: in the display's task it ends the program, in the keyboard's only that task. `Fits` says what
the lines and columns drawn need of the terminal; beyond it curses raises, which ends the program too. `Draw` finds the terminal with any of the sizes `Terminals`. `OpcuaCli`: `cli.at` is the place of the one task; `SessionDies` may happen at any of them;
a reconnection saves `names`, forgets everything, connects and subscribes again. `TcpCli`: the main loop and the keepalive task
meet at the API's lock (`wire_`), FIFO; `Cancelled_` is the cancellation of the second wherever it waits. The three programs share
nothing but what they talk to, so `MCConsoles` checks them in one run: `who` says which one runs, the others rest.

## 3. Runs

| Run | Instance | Shows |
|---|---|---|
| `server_power` | 2 slots, 2 channels, 1 client, no SPI faults | types; a ramp has delivered every column it passed; dark after EMERGENCY_OFF; only EMERGENCY_OFF touches unmanaged channels; one channel per board at a time; the server implements `PowerPromise`, on which an acknowledged power-on leaves no error |
| `server_faults` | 1 slot, 2 configurations, SPI faults, ramp delay 1, lateness up to 1, fair loop | no power-up after EMERGENCY_OFF; an acknowledged command has set its bit; steps are as close as the lateness only; a ramp progresses under request traffic and slow readers, as long as no client leaves its replies unread for ever |
| `server_session` | 2 clients, fair loop and clock | the state acted on is the client's own; a vanished client is dropped, whatever the server waits for; a connection is accepted or rejected, as long as no client leaves its replies unread for ever |
| `hal_atomic` | 1 slot, 2 channels, timeouts, crashes | `HalSpi` implements `RegisterFile`; a channel call keeps the promise of `PowerRegister`; a call makes a bounded number of polls |
| `bridge_safety` | 2 calls, 1 module, any number of server closures | types; session configured; Good was read; immutability honoured |
| `bridge_silent` | 1 call, a server that may go silent for ever, 1 cancelled call | OK was acted on; methods return; loss ends up as Bad |
| `bridge_recovery` | 2 faults: refusals, closures, resets, timeouts | polling comes back for good |
| `trigger` | 2 slots, 2 channels, 2 configurations, SPI faults, restarts, clock up to 2 | no request touches a protected channel's trigger or delay; an answer is true of every register and read it stands for; a reset of the TIB counters makes an edge; a timestamp is of its own request |
| `gui` | 2 slots of 1 channel, the bridge with both or one of them; 2 connections, 1 event | types; widgets agree with the bridge once settled; the label is true; nothing is alive after a disconnection; closing ends |
| `consoles` | 2 slots, a terminal of 40 lines resized between the four layouts; 2 variables; 2 keepalive commands | the TUI's display survives updates that are cut short, except a first one cut by a loss in the middle, and shows a loss; OCLI remembers and restores what it monitors; TCLI leaves no reply unread and its commands return |
| `bridge_reset` | resets between requests | **violated**: `SessionConfigured` |
| `gui_modules` | the bridge without the first of 3 slots | **violated**: `ClicksFollowRenumbering` |

Beside the listed runs `MCHalPrompt` passes (transactions of 2 polls, timeout of 3: no call times out, also after a crash; `PromptCorrect`
proves it); the other configurations are those of section 4.

**Bounds.** Two slots and two channels are enough for a ramp with a column behind and one ahead of it, an
immutable channel beside a mutable one, an inactive slot beside an active one. Two clients compete
for the session; identities are interchangeable for all the server does. `MaxUnread = 1`: the server reads one
request per iteration, a longer queue is the same state one iteration later. `MaxLag`, `ClientTimeout`,
`Lifetime` and `MaxBackoff` saturate counters whose larger values are treated alike. `SeqSize` is 2 where a
stale reply exists (`bridge_silent`), else 1. `MaxFaults` bounds faults only where the property is about
their end. Two method calls are what it takes for one to overtake the other's check. In the GUI two slots suffice for a matrix that is
built again with fewer modules and for an array whose first element belongs to another module; a third is needed to leave one out and
keep two apart (`gui_modules`). Two connections and one further event (a second Connect counts as one) let old and new sessions, a click and
a change of a value meet; `Overlap` admits a second connection before the first is over (`MCGuiTwice`). One variable of each kind (device,
crate, module array) stands for the others, which `_update_ui` treats alike. In `trigger` two boards are what a loop needs to fail at one and go on to the next; `Values` go one
past the limit; `PollReads`, `HalfSize` and `MaxIters` of 2 make a poll of several reads, a counter of two halves and a timestamp that is read again.
`Families` splits the requests by the registers they use: a behaviour has requests of one family, because registers of different families have nothing in
common but the configuration; the proofs do without. The terminal's sizes are one for each of the four layouts; the theorem is for any. `MaxToggles` bounds the keepalive commands: the second starts a task beside
the stream the first one's cancellation left.

**Fairness.** The server's loop runs and time passes (`WF(Loop)`, `WF(Tick)`): it is the only thing the process does, `select()` and `recv()` have
timeouts (S:1111-1112, S:1128-1131), and TCP ends a `send()` to a client that has gone. A `send()` to a client that is there and does not read has none
(S:155): that a client reads, `ClientReads`, has no fairness. `RampProgresses` and `ConnectionAnswered` state as their assumption what the server relies on there,
`SendsReturn`: no client leaves its replies unread for ever with its connection open. Without it they do not hold (`MCServerNoReader`). `DeadClientEvicted` does
without: the client that keeps the server has gone. The driver's busy-wait runs (`WF(Driver)`); nothing is assumed of the
controller. In the bridge asyncio runs every task that can run and timers expire (`FairBridge`); `Recovers` also
assumes a server that reads its connections and drops dead ones, which is what `server_session` checks. In the GUI the timeouts of
helpers and of `on_close` expire and Tk runs the callbacks left to it; nothing is assumed of the bridge, the network or the asyncio thread
(`GuiFairness`). In the terminal clients asyncio runs tasks that are ready, and requests end, by a reply or by their timeout
(`TuiFairness`, `TcpFairness`); lock and connection are handed on in order.

**Assumptions that narrow a run.** `bridge_safety` has no request timeouts and no resets
(`Timeouts`, `Resets` are FALSE): with timeouts `ImmutableHonoured` fails, with resets `SessionConfigured`, see section 4; that
`SessionConfigured` and `GoodMeansRead` hold with timeouts is proved (section 5). Deadlock is checked in every run but `gui`,
`gui_modules` and `consoles`, whose programs end. `LabelIsTrue` and `DisconnectedIsQuiet` except executions in which a connect or disconnect
failed, timed out or met another one (`mishap`): `MCGuiTwice` shows what happens then.

## 4. Disagreements between code and documentation

Listed findings, with their runs:
- `bridge_reset` (API:228): a request that finds the connection reset reconnects without SET_CONFIG
  (PROTOCOL.md:42); the bridge never notices; the server acknowledges ramps that do nothing and refuses commands to modules.
- `gui_modules` (GUI:442): the GUI counts modules over all nine slots, the bridge over its active ones (BR:270-277, README.md:211): in a
  partly equipped crate a click commands another module than the one clicked, or one that does not exist.

Others, each with a property stated in its module and a configuration that produces the trace
(`tlc -config <cfg> <MC module>`):

| Config (module) | Property | Disagreement |
|---|---|---|
| `MCServerGarbage` (`MCL2tcpServer`) | `ManagedPowerOnly` | an SPI timeout in the pre-sweep lets the ramp write uninitialised values (S:231); an immutable channel can change; README.md:355 |
| `MCServerImmutable` (`MCL2tcpServer`) | `ImmutableNeverChanged` | EMERGENCY_OFF powers immutable channels and inactive slots off (S:527); README.md:345-347 says never |
| `MCServerDeafSlot` (`MCL2tcpServer`) | `EmergencyHolds` | EMERGENCY_OFF is acknowledged although a board did not get it (S:529); PROTOCOL.md:57 |
| `MCServerBurst` (`MCL2tcpServer`) | `RampColumnsSpaced` | after a late iteration two columns follow with no time between (S:270); README.md:353 |
| `MCServerLateTrip` (`MCL2tcpServer`) | `RampRecovers` | a channel that trips after the pre-sweep is not recovered by its column (S:261); README.md:358 |
| `MCServerNoReader` (`MCL2tcpServer`) | `RampNeverStalls` | a client that sends requests and does not read the replies blocks `send()`, which has no timeout (S:155; S:1128-1131 sets one for `recv()` only), and with it the ramp and every other connection; the comment "10ms tick" (S:1111) is true of `select()` only |
| `MCServerFaults`, with the property instead of its own (`MCL2tcpServer`) | `AckedPowerRecovers` | the result of the explicit OFF is ignored: after an SPI timeout ON is written over the latched error and acknowledged (S:211); comment S:210 |
| `MCHalAnsatz` (`MCHalSpi`) | `CallsStartIdle` | after a timeout the next call starts on a busy controller; l2trig_hal.c:107-108. Harmless by `AtomicCorrect` |
| `MCHalDelay` (`MCHalSpi`) | `SetDelayWaits` | the wait of set-delay polls SPIBUSY instead of DELAY_BUSY (l2trig_hal.c:47 against :34) |
| `MCTriggerReset` (`MCTriggerControl`) | `ResetAlwaysTakesEffect` | after a process that died between the two writes of a reset, the next one makes no edge: it is acknowledged and the counters stay (l2trig_hal.h:314); README.md:92 |
| `MCTriggerScalers` (`MCTriggerControl`) | `ScalersAreSet` | the results of the broadcasts are ignored: SET_L1SCALERS_EN is acknowledged although the boards did not get it (l2trig_hal.h:649, S:640); PROTOCOL.md, 0x1A |
| `MCTriggerTorn` (`MCTriggerControl`) | `ScalerNotTorn` | the halves of a scaler are read while it counts (l2trig_hal.h:662): the value may be one the counter never had |
| `MCBridgeMutability` (`MCBridge`) | `MutabilityPublished` | when `set_config` raises, the masks have changed and ModuleIsMutable has not (BR:741); README.md:199 |
| `MCGuiMatrix` (`MCGui`) | `RecreatedMatrixFilled` | when slots are missing, the matrix is built after the values have been delivered and starts empty: nothing brings its initial data (GUI:1126; comment GUI:1133-1134) |
| `MCGuiTwice` (`MCGui`) | `NoSessionLeftBehind` | Connect stays enabled while a connection is under way or has timed out: a second one leaves the first session and its subscription behind (GUI:1067) |
| `MCConsolesSubscriptions` (`MCConsoles`) | `SubscriptionsReturn` | a reconnection that fails has already forgotten what to restore (OCLI:107; docstring OCLI:106) |
| `MCConsolesSnapshot` (`MCConsoles`) | `SnapshotConsistent` | "everything in one go" (TUI:125) is one read per variable, between which the bridge publishes |
| `MCConsolesDisplay` (`MCConsoles`; TLC stops at the first of its three properties, so leave one at a time) | `ArraysFilled` | before the first complete update, a loss between two reads leaves `ModulePowerEnabled` filled and arrays that are indexed with it empty: an `IndexError` in `draw()` ends the program (TUI:297; also TUI:311, 319) |
| | `KeyboardListens` | left or right before `BoardSlotId` has been read is a `ZeroDivisionError` (TUI:412-416), a step of a delay or limit that has not been read an `IndexError` (TUI:473, 481-482): the keyboard's task is gone, and `[q] Quit` (TUI:393) with it |
| | `CrateFits` | the boards' values are drawn up to column 19 + 4 * slots and down to line 29 without a look at the size of the terminal (TUI:339-382): curses raises, and the program ends, on 80 columns with more than 16 slots and on less than 30 lines with any |
| `MCConsolesCancel` (`MCConsoles`) | `CommandsAnswered` | `keepalive 0` cancels a request under way; its reply answers the next command, which fails (TCLI:226) |
| `MCBridgeLate` (`MCBridge`) | `ImmutableHonoured` | a command that timed out is executed later, under the masks of the old session, after SetModuleIsImmutable has returned OK (API:252); README.md:347 |

Not stated as properties: a failed SET_LIMITS is answered with ERROR and leaves the new minimum with the old maximum (S:707); PROTOCOL.md counts
channels 0-14, the code 1 to 15 (S:106); a cancelled method leaves its reply in the stream, so that every later request fails with a
sequence mismatch until the connection is dropped (API:267; `LateUnanswered`); a failed slow poll publishes zeros as Good (BR:1048);
during `variable_lifetime` the status says "last usable value" of values that are zeros (BR:1007); GUI and OCLI call `HealthCheck`,
which the bridge does not have (GUI:1084, OCLI:442); a matrix that is built again is in the mode POWER whatever its combo box shows; in the mode
CURRENT 800 mA and more give a negative colour component (GUI:295); in TCLI an immutable list that cannot be parsed clears all
protection (TCLI:49-73), a failed `set_config` leaves the new values as the current ones (TCLI:177-188), and a reconnection inside a keepalive
leaves the session unconfigured.

## 5. Proofs

| Theorem | Module | Statement |
|---|---|---|
| `TypeCorrect`, `SessionCorrect`, `ScheduleCorrect` | `L2tcpServerProofs` | `TypeOK`, `SessionOwnsState`, `GapShrinksOnlyByLateness` |
| `ManagedPowerCorrect`, `OneChannelCorrect`, `RampCorrect`, `EmergencyCorrect` | `L2tcpServerPowerProofs` | `ManagedPowerOnly`, `OneChannelPerBoard`, `RampDelivers`, `EmergencyHolds`, each assuming `~SpiFaults` |
| `AckedRecoveryCorrect`, `PromiseKept` | `L2tcpServerPowerProofs` | `AckedPowerRecovers`; `KeepsPromise`: the server implements `PowerPromise`; each assuming `~SpiFaults` |
| `NoPowerUpCorrect`, `AckedPowerCorrect` | `L2tcpServerPowerProofs` | `NoPowerUpAfterEmergency`, `AckedPowerIsSet`, with SPI faults |
| `HalTypeCorrect` | `HalSpiProofs` | `TypeOK` |
| `PromptCorrect` | `HalSpiProofs` | `PromptBusNeverTimesOut`, assuming `~SpiFaults` and `Cycle < TimeoutIters` |
| `ChannelCallCorrect` | `HalSpiProofs` | `ChannelCallAsPromised`, assuming that faults are admitted or the timeout is long enough |
| `CallsBoundedCorrect` | `HalSpiProofs` | `CallsAreBounded` |
| `AtomicCorrect` | `HalSpiAtomicProofs` | `Spec => CallsAreAtomic`: the driver implements the register file |
| `TriggerTypesCorrect`, `ProtectionCorrect`, `ResetCorrect`, `TimestampCorrect`, `HonestyCorrect` | `TriggerControlProofs` | `TriggerTypeOK`, `ProtectedTriggersKept`, `ResetTakesEffect`, `TimestampFresh`, `RepliesAreHonest` |
| `BridgeTypesCorrect` | `BridgeProofs` | `TypeOK` |
| `SessionsConfigured` | `BridgeProofs` | `SessionConfigured`, assuming `~Resets` |
| `GoodIsRead` | `BridgeProofs` | `GoodMeansRead` while `cancels < SeqSize`, assuming `~Resets` |
| `MasksNeverOutdated` | `BridgeProofs` | also with resets: a configured session has the masks of the moment, until a method is cancelled |
| `OkIsApplied` | `BridgeProofs` | `OkMeansApplied`, assuming `~Resets` and `MaxCancels < SeqSize` |
| `ModuleOkIsApplied` | `BridgeProofs` | also with resets: a method that commands a module returns OK only when the server has acted, assuming `MaxCancels < SeqSize` |
| `ImmutableIsHonoured` | `BridgeProofs` | `ImmutableHonoured`, assuming `~Resets`, `~Timeouts` and `MaxCancels < SeqSize` |
| `DisplaySurvivesCorrect`, `RememberedCorrect`, `RestoresCorrect`, `NothingUnreadCorrect` | `ConsolesProofs` | `DisplaySurvives`, `MonitoredIsRemembered`, `ReconnectRestores`, `NothingUnread` |
| `TuiTypesAlways`, `OpcuaTypesAlways`, `TcpTypesAlways` | `ConsolesProofs` | `TuiTypeOK`, `OpcuaTypeOK`, `TcpTypeOK` |
| `ExchangesAreExclusive` | `ConsolesProofs` | `OneAtATime`: keepalive and main loop of TCLI are never both within the lock |
| `GuiTypesAlways`, `NothingLeftBehind`, `LabelTells` | `GuiProofs` | `GuiTypeOK`, `DisconnectedIsQuiet`, `LabelIsTrue` |
| `WidgetsShow`, `WidgetsShowWithoutOverlap` | `GuiProofs` | `ShownIsPublished` as long as the execution is `Regular`: connections do not overlap, or none has failed or met another; with `Overlap = FALSE` always |
| `NumberNamesItsModule`, `PlacesDiffer` | `GuiProofs` | a module number names its slot and channel again; different modules have different places in the arrays |

They hold for any set of clients and slots, any number of channels, any delays and timeouts that satisfy the
assumptions named in the modules, and any bound of the models.

*Server.* `SessionOwnsState` needs `OpenEnds`: the connected end and those in the listen queue are open and distinct, so
that the state of a client that has gone is not taken for that of a client accepted later; the rest of `SessionInv` is
`TypeOK`. `RampDelivers` is inductive with `TypeOK` (`RampInv`): a step extends what the ramp has passed by one column,
every disturbance clears `clean`. `EmergencyHolds` and `NoPowerUpAfterEmergency` need `NoRampUp`: a ramp that is active
while `killed` is a ramp down. `ScheduleCorrect` needs `OnSchedule`: the ticks since the last step, the ticks to the next and
the lateness of the last one add up to at least the delay. Several actions are first characterised by lemmas
(`Swept`, `Switched`, `Stepped`, `Darkened`: what each does to PONF on a reliable bus), which the theorems share.
`PromiseKept` has a lemma per kind of step (`PromisedRamp`, `PromisedSwitch`, ...) that names the abstract step it is; everything else leaves PONF, the latches,
the configuration and the ramp alone, which is a stutter. It needs `Latches`: only a channel that is on is in error, so that the OFF and ON of a command for
one channel take away its latch and no other.

*HAL.* `PromptBusNeverTimesOut`, `ChannelCallAsPromised` and atomicity are not inductive: `HalInv` adds, for every place of a call,
what the controller is doing (`ReadUnderWay`, `WriteUnderWay`, `DelayUnderWay`), that polls are left while a transaction is
(`PollsLeft`), what a channel call has computed so far (`Prepared`), and what PONF was when it started (`PowerOfCall`). With it each step maps to a
step of `RegisterFile` or to a stutter: a write takes effect with SPAD, a read when the controller latches it.

*Requests.* Every request is a `Begin` with the places that fit it (`RequestsStart`), so that the invariants have one case for all of them. `TypeInv` adds to the
types that the places left belong to the active slots and mutable channels under the masks of the moment (`Fits`): the masks stay while a request is in progress,
which is what protection rests on. `ResetInv` says where the clear bit may be set: in a reset between its two writes, or after one that was interrupted. `StampInv` says
that before the access that sets the latch bit the bit is clear, so that the stamp is the clock's of now, and `HonestInv` that of every access of a request whose
error flag is clear either the place is still left or its register is set (`SoFar`); the last access of the scalers decides, for they are broadcasts in order.

*Bridge.* `LockInv` says that the tasks under way are those in the queue, once each, and that all but the first wait; every action is first shown to be an arrival,
a step of the owner or its leaving. `SessionInv` then follows the one request that can be under way: a connection waiting for `accept()` has only its HELLO outstanding
(`OpenInv`), the owner of the lock is at most one message and one reply away from the server (`ExchangeInv`), SET_CONFIG carries the present masks, and outside of it a session is `Settled`. A reset leaves
`writer` at `"closing"`, from which a request reconnects without SET_CONFIG: the session then has no configuration, but never an outdated one (`MasksNeverOutdated`),
and without one the server answers a command to a module with an ERROR (`ModuleOkIsApplied`); `SessionsConfigured`, `GoodIsRead` and the promise of the commands to all
slots need `~Resets`, and `bridge_reset` shows why. `PromiseInv` adds that the request is the owner's, that a module being made immutable is in the masks
already, and that a command answered without an ERROR is in `applied`.
A method that is cancelled while it waits leaves its reply behind, and `SessionInv` holds no longer. What takes its place is `LateInv(g)`: whoever asks next reads the reply to
the request `g` before his own, so that replies and requests under way are numbered without a gap, `g` behind `seq`. A further cancellation makes `g` one more, an answer leaves it
(the request raises, the connection stays open), and only the end of the connection brings `SessionInv` back. `g` is at most the number of cancellations; as long as that is below `SeqSize` (65536
in the API), no reply has the number of another request, so that nothing is `Answered` while `Late` (`LateUnanswered`), and the inductive invariant is `Kept`, one or the other. With
`SeqSize` cancellations the numbers meet again, and TLC finds `OkMeansApplied` violated; `SessionConfigured` says itself that it ends with the first one.
`PunctualInv` says what `ImmutableHonoured` rests on where requests do not time out: a connection is given up only after the server has closed it, so that nothing is left to be executed on an old one,
and the masks a session has, and those on their way to it, cover what is sealed. With timeouts it fails (`MCBridgeLate`).

*Terminal clients.* The TUI's display indexes other arrays for the modules of `ModulePowerEnabled`. An update that has read it has found the boards' limits Good
just before; unless something goes away under it, it reads on to the end and fills all arrays (`Steady`), and no later one takes any away (`TuiInv`). That no place is
outside of a terminal that is `Roomy` rests on `MatricesFit`: the thresholds of the four layouts leave room for the matrices of up to 18 slots, so that only the lines of the boards' values limit it.
OCLI's
names are in every place of a reconnection those of the subscriptions or saved beside them (`OpcuaInv`). TCLI's stream stays empty until a request is
cancelled (`StreamInv`): whatever fails otherwise closes the connection or reads its reply. Its types need more than themselves: the counter of unread
replies is bounded because the lock is held by exactly the task that is connecting or waiting for a reply (`TcpInv`), so that each time the keepalive is
cancelled leaves one reply at most; the same invariant gives `ExchangesAreExclusive`.

*GUI.* `GuiInv` has three parts beside the types. `Phase` says which sessions exist for the coroutines and helpers under way: always that
connects were made in order, each with its helper, and that the client object is that of one of them (`Base`), and as long as the execution is `Regular`, that at most one of them is alive, and what each place of a
connect, a disconnect and their helpers leaves to be done. `Ending` follows the window once it is being closed. `Tells` follows a value from the bridge to the
widget: notifications and callbacks of one session keep their order, so that the last word about a variable is under way, in the queue of Tk, or shown.
With two live sessions there is no such order, and the notification that arrives last may be the older one: hence `Regular` (`MCGuiTwice` has such an
execution). The slot lists ascend, as the bridge sorts them (BR:205, API:23), so that a module has the same place on both sides (`OneOrder`).
Module numbers rest on the uniqueness of quotient and remainder (`DivMod`) and of positions in an increasing sequence (`PositionInArray`).

*Only model-checked.* Liveness (`RampProgresses`, `DeadClientEvicted`, `ConnectionAnswered`, `CallsAnswered`, `LossIsPublished`, `Recovers`, `CloseEnds`,
`DisconnectionShown`, `TcpCommandsReturn`), which the prover does not reach.
Every other property of the passing runs is a theorem.

## 6. Not modelled, and why
- In `L2tcpServer` the requests of `TriggerControl` are one action (`OtherCommand`) that changes neither session nor power: the two modules share the
  configuration and nothing else. `TriggerControl` leaves out what the readings are (currents, temperatures, versions) and the frames' layout.
- In the bridge: values, unit conversions and event rates, `stop()`, the connection attempt `init()` makes before the
  tasks exist, `system.active_mask`.
- Arithmetic: the 32-bit overflow of the ramp delay (S:270) and the wrap of the TIB counters (BR:822). Each is one expression without state:
  a module about it would state the expression twice.
- In the GUI: colours, units, geometry, the log and the dialogues; in the terminal client texts, colours and the highlighted channel; in the test clients the parser of the command line
  and the printing of results.

## 7. Plan
Done: the server's session and power with their proofs, and the server as an implementation of `PowerPromise`; the driver as an implementation of the
register file; `TriggerControl`, the bridge, the GUI and the terminal clients, with their proofs and `ModuleArrays` for the numbering that GUI and bridge share. Left:
a composition of `Bridge` and `L2tcpServer` that replaces the bridge's reduced server; its states are out of TLC's reach in a direct product.
