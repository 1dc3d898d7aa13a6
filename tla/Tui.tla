--------------------------------- MODULE Tui ---------------------------------
(***************************************************************************)
(* The terminal client (src/l2trig_tui.py): one asyncio process with a     *)
(* task that polls the bridge and draws, and one that reads the keyboard.  *)
(* They interleave at their awaits, and share SystemState.                 *)
(*                                                                         *)
(* SystemState is filled by one read per variable, and a read raises while *)
(* the status of the variable is not Good.  A copy is abstracted to        *)
(* whether there is one, and an update to whether its copies are of one    *)
(* publication.  An exception in run() ends the program, one in            *)
(* handle_input() only that task: "crashed" and "dead".                    *)
(***************************************************************************)
EXTENDS Integers, Sequences

CONSTANTS
  NumSlots,  \* the active slots of the bridge
  Terminals  \* the sizes, rows and columns, between which the terminal is resized

\* A crate has 18 slots.  With 80 columns the three lines at the top always fit.
ASSUME TuiAssumption ==
  /\ NumSlots \in 1 .. 18
  /\ Terminals # {} /\ Terminals \subseteq [h : Nat, w : {w \in Nat : w >= 80}]

\* What is read, by the poll that publishes it; the rest is written once.
FastVars == {"CrateMCFThreshold", "ModulePowerEnabled", "ModuleState"}
SlowVars == {"BoardCurrentLimit", "ModuleTriggerEnabled", "ModuleTriggerDelay"}

\* Mutant: the device's state is read among the crate's variables.
CrateFirst ==
  <<"CrateMCFThreshold", "device_connected", "BoardSlotId", "BoardCurrentLimit",
    "ModulePowerEnabled", "ModuleState", "ModuleTriggerEnabled", "ModuleTriggerDelay">>

\* Mutant: the modules' power and state are read before the boards' limits.
PowerFirst ==
  <<"device_connected", "CrateMCFThreshold", "BoardSlotId", "ModulePowerEnabled",
    "ModuleState", "BoardCurrentLimit", "ModuleTriggerEnabled", "ModuleTriggerDelay">>

\* update_state() reads in this order.
ReadOrder ==
  <<"device_connected", "CrateMCFThreshold", "BoardSlotId", "BoardCurrentLimit",
    "ModulePowerEnabled", "ModuleState", "ModuleTriggerEnabled", "ModuleTriggerDelay">>

Arrays == {ReadOrder[i] : i \in DOMAIN ReadOrder} \ {"device_connected"}

VARIABLES
  serving,    \* the OPC UA session answers, and in time
  device,     \* device_connected, as published
  goodFast, goodSlow,  \* the status of the polled variables is Good
  display,    \* the task run(): where it is, and how many variables it has read
  input,      \* the task handle_input()
  running, redraw,  \* _running, _redraw_event
  due,        \* 0.5 s have passed since the last update
  seen,       \* SystemState: the variables that it has copies of
  seenDevice, \* s.device_connected
  viewRight, viewNarrow,  \* view_mode_right, view_mode_narrow
  sel         \* sel_slot_idx

\* History variables, which no action reads.
VARIABLES
  torn,       \* a fast poll has come between two reads of the last update
  filled,     \* an update has read all variables
  interrupted \* the device or the session has gone between two reads of an update

published_ == <<device, goodFast, goodSlow>>
shown_ == <<seen, seenDevice, torn, filled>>
views == <<viewRight, viewNarrow, sel>>
keys_ == <<input, running, redraw>>
outside == <<serving, interrupted>>
tuiVars == <<outside, published_, display, keys_, due, shown_, views>>

Views == {"CURRENT", "TRIGGER", "DELAY", "L1_SCALERS"}

TuiTypeOK ==
  /\ interrupted \in BOOLEAN
  /\ serving \in BOOLEAN /\ device \in BOOLEAN
  /\ goodFast \in BOOLEAN /\ goodSlow \in BOOLEAN /\ (goodSlow => goodFast)
  /\ display \in [pc : {"connect", "poll", "read", "draw", "wait", "bye", "gone", "crashed"},
                  at : 0 .. Len(ReadOrder)]
  /\ input \in {"none", "keys", "call", "dead", "ended"}
  /\ running \in BOOLEAN /\ redraw \in BOOLEAN /\ due \in BOOLEAN
  /\ seen \subseteq Arrays /\ seenDevice \in BOOLEAN /\ torn \in BOOLEAN
  /\ filled \in BOOLEAN
  /\ viewNarrow \in Views /\ viewRight \in Views \ {"CURRENT"}
  /\ sel \in 0 .. NumSlots - 1

-----------------------------------------------------------------------------
(* The bridge *)

\* An update has read a variable of the fast poll and is to read another.
Between ==
  /\ display.pc = "read"
  /\ \E i \in 1 .. display.at : ReadOrder[i] \in FastVars
  /\ \E i \in display.at + 1 .. Len(ReadOrder) : ReadOrder[i] \in FastVars

\* A poll publishes; after a loss the slow variables wait for their own poll.
PublishFast ==
  /\ device' = TRUE /\ goodFast' = TRUE
  /\ torn' = (torn \/ Between)
  /\ UNCHANGED <<goodSlow, outside, display, keys_, due, seen, seenDevice, filled, views>>

PublishSlow ==
  /\ goodFast /\ goodSlow' = TRUE
  /\ UNCHANGED <<device, goodFast, outside, display, keys_, due, shown_, views>>

\* What was read a moment ago is no longer what the next read will find.
Interrupts == interrupted' = (interrupted \/ (display.pc = "read" /\ display.at > 0))

PublishLoss ==
  /\ device' = FALSE /\ goodFast' = FALSE /\ goodSlow' = FALSE
  /\ Interrupts
  /\ UNCHANGED <<serving, display, keys_, due, shown_, views>>

\* The bridge is gone, and the client does not connect again; or it is only slow,
\* and reads time out.
SessionLost ==
  /\ serving /\ serving' = FALSE
  /\ Interrupts
  /\ UNCHANGED <<published_, display, keys_, due, shown_, views>>

\* A bridge that was slow answers in time again.
SessionBack ==
  /\ ~serving /\ serving' = TRUE
  /\ UNCHANGED <<interrupted, published_, display, keys_, due, shown_, views>>

-----------------------------------------------------------------------------
(* run() *)

To(pc) == display' = [pc |-> pc, at |-> 0]

\* connect(), and the task that reads the keyboard; or an error, and any key.
TuiConnect ==
  /\ display.pc = "connect"
  /\ \/ serving /\ To("poll") /\ input' = "keys"
     \/ To("gone") /\ UNCHANGED input
  /\ UNCHANGED <<outside, published_, running, redraw, due, shown_, views>>

\* The head of the loop.
Poll_ ==
  /\ display.pc = "poll"
  /\ CASE ~running -> To("bye") [] running /\ due -> To("read") [] OTHER -> To("draw")
  /\ torn' = (torn /\ ~(running /\ due))
  /\ UNCHANGED <<outside, published_, keys_, due, seen, seenDevice, filled, views>>

Readable(v) ==
  /\ serving
  /\ v \in FastVars => goodFast
  /\ v \in SlowVars => goodSlow

UpdateDone == To("draw") /\ due' = FALSE /\ redraw' = TRUE

\* On to the next variable.
Advance ==
  IF display.at + 1 = Len(ReadOrder)
    THEN UpdateDone /\ filled' = TRUE
    ELSE display' = [display EXCEPT !.at = @ + 1] /\ UNCHANGED <<due, redraw, filled>>

\* One awaited read of update_state(); the first that raises ends the update.
ReadVar ==
  /\ display.pc = "read"
  /\ LET v == ReadOrder[display.at + 1] IN
       \/ /\ Readable(v)
          /\ seen' = seen \cup ({v} \cap Arrays)
          /\ seenDevice' = IF v = "device_connected" THEN device ELSE seenDevice
          /\ Advance
       \/ /\ ~Readable(v)
          /\ UpdateDone /\ UNCHANGED <<seen, seenDevice, filled>>
  /\ UNCHANGED <<torn, outside, published_, input, running, views>>

\* The matrices drawn side by side on w columns.
Drawn(w) ==
  CASE w >= 320 -> Views
    [] w \in 240 .. 319 -> {"CURRENT", "TRIGGER",
                           IF viewRight = "L1_SCALERS" THEN "L1_SCALERS" ELSE "DELAY"}
    [] w \in 160 .. 239 -> {"CURRENT", viewRight}
    [] w < 160 -> {viewNarrow}

\* Where the first of n matrices left of another ends: each is 4 columns and 4 for
\* each slot, and 3 between two.
Offset(n) == n * (4 * NumSlots + 7)

\* The column of the last slot in the rightmost matrix.
LastColumn(w) ==
  4 * NumSlots + (CASE w >= 320 -> Offset(3) [] w \in 240 .. 319 -> Offset(2)
                    [] w \in 160 .. 239 -> Offset(1) [] w < 160 -> 0)

\* addstr() raises for a place outside of the terminal, and for a text that runs
\* beyond its last line or fills it.  The lowest line of the boards' values is 29;
\* each takes 3 columns of the 4 after the label's 19.
Fits(t) ==
  IF "BoardSlotId" \in seen
    THEN LET x == 19 + 4 * (NumSlots - 1)
         IN /\ LastColumn(t.w) < t.w
            /\ x < t.w
            /\ 29 < t.h /\ (t.h = 30 => x + 3 < t.w)
    ELSE 5 < t.h

\* A matrix is drawn for the modules of ModulePowerEnabled; it indexes other
\* arrays without looking at their length, but those of the scalers.
Needs(view) ==
  CASE view = "CURRENT" -> {"ModuleState"}
    [] view = "TRIGGER" -> {"ModuleTriggerEnabled"}
    [] view = "DELAY" -> {"ModuleTriggerDelay"}
    [] OTHER -> {}

Indexable(t) ==
  {"BoardSlotId", "ModulePowerEnabled"} \subseteq seen
    => \A view \in Drawn(t.w) : Needs(view) \subseteq seen

\* draw(), if it has been asked for, on the size that it finds; nothing catches the
\* error of curses nor an IndexError.
Draw ==
  /\ display.pc = "draw"
  /\ \/ ~redraw /\ To("wait") /\ UNCHANGED redraw
     \/ /\ redraw
        /\ \E t \in Terminals :
             \/ Fits(t) /\ Indexable(t) /\ To("wait") /\ redraw' = FALSE
             \/ ~(Fits(t) /\ Indexable(t)) /\ To("crashed") /\ UNCHANGED redraw
  /\ UNCHANGED <<outside, published_, input, running, due, shown_, views>>

\* It waits for the event, for 0.1 s at most.
Wait ==
  /\ display.pc = "wait"
  /\ To("poll") /\ due' \in {due, TRUE}
  /\ UNCHANGED <<outside, published_, input, running, redraw, shown_, views>>

\* The keyboard's task is cancelled, and the session closed.
Bye ==
  /\ display.pc = "bye"
  /\ To("gone")
  /\ input' = IF input = "dead" THEN "dead" ELSE "ended"
  /\ UNCHANGED <<outside, published_, running, redraw, due, shown_, views>>

-----------------------------------------------------------------------------
(* handle_input() *)

KeysRead == input = "keys" /\ running /\ display.pc \notin {"gone", "crashed"}

\* 'q'
KeyQuit ==
  /\ KeysRead
  /\ running' = FALSE /\ input' = "ended"
  /\ UNCHANGED <<outside, published_, display, redraw, due, shown_, views>>

\* Left and right: modulo the number of slots, a ZeroDivisionError if there are none.
\* Up and down change the channel, which is left out.
KeyArrow ==
  /\ KeysRead
  /\ \/ /\ "BoardSlotId" \in seen
        /\ \E d \in {-1, 1} : sel' = (sel + d) % NumSlots
        /\ redraw' = TRUE /\ UNCHANGED input
     \/ /\ "BoardSlotId" \notin seen
        /\ input' = "dead" /\ UNCHANGED <<sel, redraw>>
     \/ redraw' = TRUE /\ UNCHANGED <<sel, input>>
  /\ UNCHANGED <<outside, published_, display, running, due, shown_, viewRight, viewNarrow>>

\* 'c'
KeyView ==
  /\ KeysRead
  /\ \/ /\ \E t \in Terminals : t.w < 160
        /\ viewNarrow' = CASE viewNarrow = "CURRENT" -> "TRIGGER"
                            [] viewNarrow = "TRIGGER" -> "DELAY"
                            [] viewNarrow = "DELAY" -> "L1_SCALERS"
                            [] OTHER -> "CURRENT"
        /\ UNCHANGED viewRight
     \/ /\ \E t \in Terminals : t.w >= 160
        /\ viewRight' = CASE viewRight = "TRIGGER" -> "DELAY"
                           [] viewRight = "DELAY" -> "L1_SCALERS"
                           [] OTHER -> "TRIGGER"
        /\ UNCHANGED viewNarrow
  /\ redraw' = TRUE
  /\ UNCHANGED <<outside, published_, display, input, running, due, shown_, sel>>

\* A command that needs nothing of SystemState but, on a module or a board, its
\* slot; without one the key is ignored.
KeyCommand ==
  /\ KeysRead
  /\ input' = "call"
  /\ UNCHANGED <<outside, published_, display, running, redraw, due, shown_, views>>

\* A step of the delay or of a limit of the selected one, from the value shown.
KeyStep ==
  /\ KeysRead /\ "BoardSlotId" \in seen
  /\ \E v \in {"ModuleTriggerDelay", "BoardCurrentLimit"} :
       input' = IF v \in seen THEN "call" ELSE "dead"
  /\ UNCHANGED <<outside, published_, display, running, redraw, due, shown_, views>>

\* The method has returned, or raised.
CallDone ==
  /\ input = "call" /\ display.pc \notin {"gone", "crashed"}
  /\ input' = IF running THEN "keys" ELSE "ended"
  /\ redraw' = TRUE
  /\ UNCHANGED <<outside, published_, display, running, due, shown_, views>>

-----------------------------------------------------------------------------
\* The bridge is polling its device, or has lost it, or has just found it again.
TuiInit ==
  /\ serving = TRUE /\ interrupted = FALSE
  /\ device \in BOOLEAN /\ goodFast = device /\ goodSlow \in {FALSE, device}
  /\ display = [pc |-> "connect", at |-> 0] /\ input = "none"
  /\ running = TRUE /\ redraw = FALSE /\ due = TRUE
  /\ seen = {} /\ seenDevice = FALSE /\ torn = FALSE /\ filled = FALSE
  /\ viewRight = "TRIGGER" /\ viewNarrow = "CURRENT" /\ sel = 0

DisplaySteps == TuiConnect \/ Poll_ \/ ReadVar \/ Draw \/ Wait \/ Bye

Keys == KeyQuit \/ KeyArrow \/ KeyView \/ KeyCommand \/ KeyStep

BridgeSteps == PublishFast \/ PublishSlow \/ PublishLoss \/ SessionLost \/ SessionBack

TuiNext == DisplaySteps \/ Keys \/ CallDone \/ BridgeSteps

\* The event loop runs the tasks; a read is answered or times out, and so does a
\* method; time passes until an update is due.
TuiFairness ==
  /\ WF_tuiVars(Poll_ \/ ReadVar \/ Draw \/ Bye) /\ WF_tuiVars(CallDone)
  /\ WF_tuiVars(Wait) /\ SF_tuiVars(Wait /\ due')

TuiSpec == TuiInit /\ [][TuiNext]_tuiVars /\ TuiFairness

-----------------------------------------------------------------------------
(* Properties *)

\* The lines of the boards' values and of a menu, and a column for each slot.
Roomy == \A t \in Terminals : 30 < t.h /\ 4 * NumSlots + 15 < t.w

\* With room the display never ends with an exception, whatever the size and the
\* views, unless the device or the session went between two reads of an update and
\* none has been complete yet.  A device that was never reached, that is lost or
\* found between two updates, or whose slow poll is still to come, only cuts updates
\* short where no array is read that draw() indexes (update_state reads the boards
\* before the modules), and a resized terminal only moves the matrices.
DisplaySurvives ==
  [][Roomy /\ display'.pc = "crashed" =>
       display.pc = "crashed" \/ (interrupted /\ ~filled)]_tuiVars

\* draw() finds the arrays that it indexes, also after such an update.  False.
ArraysFilled == display.pc = "draw" /\ redraw => \A t \in Terminals : Indexable(t)

\* A crate fits any terminal.  False.
CrateFits == display.pc = "draw" => \A t \in Terminals : Fits(t)

\* "[q] Quit": the keyboard's task is alive as long as the display is.  False.
KeyboardListens == input # "dead"

\* "We fetch everything in one go for consistency": what an update that was not
\* cut short has read by the fast poll is of one publication.
SnapshotConsistent == display.pc = "draw" /\ redraw /\ filled /\ goodSlow => ~torn

\* A device that is lost for good is shown as DISCONNECTED, although from then
\* on every update is cut short (s.device_connected is read before it is).
DisconnectionShown ==
  <>[](~device /\ serving) => <>[](~seenDevice \/ display.pc \in {"gone", "crashed"})
=============================================================================
