--------------------------------- MODULE Gui ---------------------------------
(***************************************************************************)
(* The graphical client (src/l2trig_gui.py) against the address space of   *)
(* the bridge.                                                             *)
(*                                                                         *)
(* Three kinds of threads: the Tk main thread, which runs the callbacks    *)
(* left with after() in order; the thread of the asyncio loop, which runs  *)
(* the coroutines of OPCUAClient and delivers the notifications; and a     *)
(* helper thread per click, which waits for one coroutine with a timeout   *)
(* and leaves a callback.  after() from another thread blocks that thread  *)
(* until the main thread is back in its event loop (Tkinter marshals the   *)
(* call), so a notification can block the whole asyncio loop.              *)
(*                                                                         *)
(* The bridge is reduced to the values it publishes, one notification for  *)
(* each change of a value or of its status (asyncua), per session.         *)
(***************************************************************************)
EXTENDS ModuleArrays, SequencesExt

CONSTANTS
  ValidSlots,      \* VALID_SLOTS
  ActiveSlots,     \* the configurations of the bridge: sequences of slots
  Vars,            \* the monitoring variables, in browse order
  MaxConnects,     \* bound: clicks on Connect
  Overlap,         \* bound: the second one before the first is over
  MaxEvents        \* bound: clicks on modules and check boxes, and changes of
                   \* what the bridge publishes

ArrayVars == ToSet(Vars) \cap
  {"ModulePowerEnabled", "ModuleTriggerEnabled", "ModuleTriggerDelay", "ModuleIsMutable",
   "ModuleCurrent", "ModuleState", "ModuleL1ScalerEnabled"}

\* Both are sorted; a slot that is listed twice is left out.
Ascending(slots) == \A i, j \in 1 .. Len(slots) : i < j => slots[i] < slots[j]

ASSUME GuiAssumption ==
  /\ {ValidSlots} \cup ActiveSlots \subseteq Seq(Nat)
  /\ \A slots \in {ValidSlots} \cup ActiveSlots : Ascending(slots)
  /\ Vars \in Seq(STRING)
  /\ ToSet(Vars) \ ArrayVars = {"device_connected", "CrateMCFEnabled"}
  /\ MaxConnects \in Nat /\ Overlap \in BOOLEAN /\ MaxEvents \in Nat

Connects == 1 .. MaxConnects
Sessions == 0 .. MaxConnects  \* the Client of a connect(); 0 for None
Clicks == 1 .. MaxEvents
None == <<>>

VARIABLES
  active,       \* the bridge's active_slots
  published,    \* the values of its variables
  sess, queue,  \* per session: its state, and the notifications under way
  conn,         \* per click on Connect: the coroutine connect()
  client, subscription, root, isConnected,  \* the fields of OPCUAClient
  disc,         \* the coroutines disconnect(): of the button, of on_close
  call,         \* per click: the coroutine call_method(), and what was clicked
  blocked,      \* the asyncio thread is in after(), and main in on_close()
  helper, slotHelper, discHelper,  \* the helper threads
  tk,           \* callbacks left with after()
  main,         \* the main thread
  label, canConnect, matrix, check  \* the widgets

\* Bounds, and history variables that no action reads.
VARIABLES
  events,
  mishap,       \* a connect or disconnect failed, timed out, or met another one
  fresh         \* variables whose value has reached the widgets there are now

bridge == <<active, published, events>>
sessions == <<sess, queue>>
fields == <<client, subscription, root, isConnected>>
helpers == <<helper, slotHelper, discHelper>>
widgets == <<label, canConnect, matrix, check, fresh>>
guiVars == <<bridge, sessions, conn, fields, disc, call, blocked, helpers, tk, main,
             widgets, mishap>>

Values(v) == IF v \in ArrayVars THEN [1 .. NumModules(active) -> BOOLEAN] ELSE BOOLEAN

\* Mutant: what is published without a device has the modules of all slots.
OffAllSlots(v) == IF v \in ArrayVars THEN [i \in 1 .. NumModules(ValidSlots) |-> FALSE] ELSE FALSE

Off(v) == IF v \in ArrayVars THEN [i \in 1 .. NumModules(active) |-> FALSE] ELSE FALSE

\* The callbacks left with after().
Callbacks ==
  [cb : {"success", "error", "slots", "disconnected"}]
    \cup UNION {[cb : {"update"}, var : {v}, value : Values(v)] : v \in ToSet(Vars)}

GuiTypeOK ==
  /\ sess \in [Sessions -> {"none", "open", "subscribed", "closed"}]
  /\ \A k \in Sessions : \A i \in DOMAIN queue[k] : queue[k][i] \in Callbacks
  /\ \A k \in Connects :
       conn[k].pc \in {"none", "open", "browse", "subscribe", "read", "up", "failed"}
  /\ client \in Sessions /\ subscription \in Sessions /\ root \in Sessions
  /\ isConnected \in BOOLEAN /\ canConnect \in BOOLEAN /\ check \in BOOLEAN
  /\ disc \in [{"button", "close"} -> {"none", "delete", "close", "done"}]
  /\ \A c \in Clicks : call[c].pc \in {"none", "start", "ended"}
  /\ blocked \in BOOLEAN
  /\ helper \in [Connects -> {"none", "wait", "done"}]
  /\ slotHelper \in [Connects -> {"none", "read"}] /\ discHelper \in {"none", "wait"}
  /\ \A i \in DOMAIN tk : tk[i] \in Callbacks
  /\ main \in {"loop", "closing", "gone"}
  /\ label \in {"Disconnected", "Connecting", "Failed", "Connected", "Offline"}
  /\ DOMAIN matrix.shown = ArrayVars

-----------------------------------------------------------------------------
(* The bridge and its sessions *)

Alive(k) == sess[k] \in {"open", "subscribed"}

UpdateOf(v, val) == [cb |-> "update", var |-> v, value |-> val]

\* What a poll changes goes to every subscription.
Notify(vs) ==
  queue' = [k \in Sessions |->
    IF sess[k] = "subscribed"
      THEN queue[k] \o [i \in DOMAIN vs |-> UpdateOf(vs[i], published'[vs[i]])]
      ELSE queue[k]]

\* A value changes, or the device goes or comes and with it every status.
BridgePublishes ==
  /\ main = "loop" /\ events < MaxEvents /\ events' = events + 1
  /\ \/ \E v \in ToSet(Vars) \ {"device_connected"} :
          /\ published["device_connected"]
          /\ IF v \in ArrayVars
               THEN \E i \in DOMAIN published[v] : published' = [published EXCEPT ![v][i] = ~@]
               ELSE published' = [published EXCEPT ![v] = ~@]
          /\ Notify(<<v>>)
     \/ /\ published["device_connected"]
        /\ published' = [v \in ToSet(Vars) |-> Off(v)]
        /\ Notify(Vars)
     \/ /\ ~published["device_connected"]
        /\ \E power \in BOOLEAN :
             published' = [v \in ToSet(Vars) |->
               IF v \in ArrayVars THEN [i \in DOMAIN published[v] |-> power] ELSE TRUE]
        /\ Notify(Vars)
  /\ UNCHANGED <<active, sess, conn, fields, disc, call, blocked, helpers, tk, main, widgets,
                 mishap>>

-----------------------------------------------------------------------------
(* OPCUAClient, on the thread of the asyncio loop *)

\* Not blocked in after(), and not stopped by on_close.
LoopFree == ~blocked /\ main \in {"loop", "closing"}
\* after() on the asyncio thread: it returns once the main thread is in its loop.
Posts(cb) ==
  \/ main = "loop" /\ tk' = Append(tk, cb) /\ UNCHANGED blocked
  \/ main # "loop" /\ blocked' = TRUE /\ UNCHANGED tk

ConnectAt(k, pc) == LoopFree /\ conn[k].pc = pc
ConnectTo(k, pc) == conn' = [conn EXCEPT ![k].pc = pc]

ClientConnects(k) ==
  /\ ConnectAt(k, "open")
  /\ sess' = [sess EXCEPT ![k] = "open"]
  /\ ConnectTo(k, "browse")
  /\ UNCHANGED <<bridge, queue, fields, disc, call, blocked, helpers, tk, main, widgets, mishap>>

\* It browses with self.client, which another connect() may have replaced.
Browse(k) ==
  /\ ConnectAt(k, "browse") /\ Alive(client)
  /\ root' = client /\ subscription' = client
  /\ ConnectTo(k, "subscribe")
  /\ UNCHANGED <<bridge, sessions, client, isConnected, disc, call, blocked, helpers, tk, main,
                 widgets, mishap>>

\* The bridge answers with a notification of every value.
Subscribe(k) ==
  /\ ConnectAt(k, "subscribe") /\ Alive(subscription)
  /\ sess' = [sess EXCEPT ![subscription] = "subscribed"]
  /\ queue' = [queue EXCEPT ![subscription] =
       @ \o [i \in DOMAIN Vars |-> UpdateOf(Vars[i], published[Vars[i]])]]
  /\ conn' = [conn EXCEPT ![k] = [pc |-> "read", todo |-> Vars]]
  /\ UNCHANGED <<bridge, fields, disc, call, blocked, helpers, tk, main, widgets, mishap>>

\* The initial read of all variables skips those whose status is not Good.
Read(k) ==
  /\ ConnectAt(k, "read") /\ conn[k].todo # <<>> /\ Alive(root)
  /\ LET v == Head(conn[k].todo) IN
       IF published["device_connected"] \/ v = "device_connected"
         THEN Posts(UpdateOf(v, published[v])) ELSE UNCHANGED <<tk, blocked>>
  /\ conn' = [conn EXCEPT ![k].todo = Tail(@)]
  /\ UNCHANGED <<bridge, sessions, fields, disc, call, helpers, main, widgets, mishap>>

ReadAll(k) ==
  /\ ConnectAt(k, "read") /\ conn[k].todo = <<>>
  /\ isConnected' = TRUE
  /\ ConnectTo(k, "up")
  /\ UNCHANGED <<bridge, sessions, client, subscription, root, disc, call, blocked, helpers,
                 tk, main, widgets, mishap>>

ConnectRaises(k) ==
  /\ LoopFree /\ conn[k].pc \in {"open", "browse", "subscribe", "read"}
  /\ conn' = [conn EXCEPT ![k] = [pc |-> "failed", todo |-> <<>>]]
  /\ UNCHANGED <<bridge, sessions, fields, disc, call, blocked, helpers, tk, main, widgets,
                 mishap>>

\* datachange_notification
Deliver(k) ==
  /\ LoopFree /\ sess[k] = "subscribed" /\ queue[k] # <<>>
  /\ Posts(Head(queue[k]))
  /\ queue' = [queue EXCEPT ![k] = Tail(@)]
  /\ UNCHANGED <<bridge, sess, conn, fields, disc, call, helpers, main, widgets, mishap>>

\* disconnect(), first half: whether delete() succeeds or not.
DeleteSubscription(d) ==
  /\ LoopFree /\ disc[d] = "delete"
  /\ \E s \in {sess, [sess EXCEPT ![subscription] = IF Alive(subscription) THEN "open" ELSE @]} :
       /\ sess' = s
       /\ queue' = [k \in Sessions |-> IF s[k] = "subscribed" THEN queue[k] ELSE <<>>]
  /\ subscription' = 0
  /\ disc' = [disc EXCEPT ![d] = "close"]
  /\ UNCHANGED <<bridge, conn, client, root, isConnected, call, blocked, helpers, tk, main,
                 widgets, mishap>>

\* Mutant: the client is forgotten without being disconnected.
DisconnectsQuietly(d) ==
  /\ LoopFree /\ disc[d] = "close"
  /\ isConnected' = FALSE /\ client' = 0
  /\ disc' = [disc EXCEPT ![d] = "done"]
  /\ UNCHANGED <<bridge, sessions, conn, subscription, root, call, blocked, helpers, tk, main, widgets,
                 mishap>>

\* disconnect(), second half.
Disconnects(d) ==
  /\ LoopFree /\ disc[d] = "close"
  /\ sess' = [sess EXCEPT ![client] = IF client = 0 THEN @ ELSE "closed"]
  /\ queue' = [queue EXCEPT ![client] = <<>>]
  /\ isConnected' = FALSE /\ client' = 0
  /\ disc' = [disc EXCEPT ![d] = "done"]
  /\ UNCHANGED <<bridge, conn, subscription, root, call, blocked, helpers, tk, main, widgets,
                 mishap>>

\* call_method(): the bridge acts and its next poll publishes the outcome, or it
\* refuses, or there is no session to find the method in.
CallMethod(c) ==
  /\ LoopFree /\ call[c].pc = "start"
  /\ call' = [call EXCEPT ![c] = [pc |-> "ended"]]
  /\ LET v == call[c].var
         new == IF v \in ArrayVars THEN [published[v] EXCEPT ![call[c].module] = call[c].value]
                                   ELSE call[c].value
     IN \/ /\ isConnected /\ Alive(root) /\ published["device_connected"]
           /\ v \in ArrayVars => call[c].module \in DOMAIN published[v]
           /\ published[v] # new
           /\ published' = [published EXCEPT ![v] = new]
           /\ Notify(<<v>>)
        \/ UNCHANGED <<published, queue>>
  /\ UNCHANGED <<active, events, sess, conn, fields, disc, blocked, helpers, tk, main, widgets,
                 mishap>>

-----------------------------------------------------------------------------
(* The helper threads, which leave callbacks when the main thread lets them *)

Leave(cb) == main = "loop" /\ tk' = Append(tk, cb)

\* The helper of a click on Connect waits 10 s for the coroutine.
ConnectSucceeds(k) ==
  /\ helper[k] = "wait" /\ conn[k].pc = "up"
  /\ Leave([cb |-> "success"])
  /\ helper' = [helper EXCEPT ![k] = "done"]
  /\ UNCHANGED <<bridge, sessions, conn, fields, disc, call, blocked, slotHelper, discHelper,
                 main, widgets, mishap>>

\* connect() has raised, or the 10 s are over; the coroutine goes on.
ConnectFails(k) ==
  /\ helper[k] = "wait" /\ conn[k].pc # "up"
  /\ Leave([cb |-> "error"])
  /\ helper' = [helper EXCEPT ![k] = "done"]
  /\ mishap' = TRUE
  /\ UNCHANGED <<bridge, sessions, conn, fields, disc, call, blocked, slotHelper, discHelper,
                 main, widgets>>

\* update_slots(): the coroutine reads BoardSlotId, which never changes, or the
\* helper gives up.
SlotsRead(k) ==
  /\ slotHelper[k] = "read"
  /\ \/ LoopFree /\ Alive(root) /\ Leave([cb |-> "slots"])
     \/ main = "loop" /\ UNCHANGED tk
  /\ slotHelper' = [slotHelper EXCEPT ![k] = "none"]
  /\ UNCHANGED <<bridge, sessions, conn, fields, disc, call, blocked, helper, discHelper, main,
                 widgets, mishap>>

\* disconnect() has returned or raised, or 5 s are over: the same callback.
DisconnectWaited ==
  /\ discHelper = "wait"
  /\ Leave([cb |-> "disconnected"])
  /\ discHelper' = "none"
  /\ mishap' = (mishap \/ disc["button"] # "done")
  /\ UNCHANGED <<bridge, sessions, conn, fields, disc, call, blocked, helper, slotHelper, main,
                 widgets>>

-----------------------------------------------------------------------------
(* The main thread: callbacks *)

NewMatrix(slots) ==
  [slots |-> slots,
   shown |-> [v \in ArrayVars |-> [i \in 1 .. NumModules(slots) |-> v = "ModuleIsMutable"]]]

\* Mutant: an element that is false is taken for a missing one.
FilledIfTrue(value, shown) ==
  [i \in DOMAIN shown |-> IF i \in DOMAIN value /\ value[i] THEN TRUE ELSE shown[i]]

\* update_from_data(): the elements go to the modules in order.
Filled(value, shown) ==
  [i \in DOMAIN shown |-> IF i \in DOMAIN value THEN value[i] ELSE shown[i]]

\* Mutant: the label does not follow a loss of the device.
UpdateOnline(v, value) ==
  /\ label' = IF v = "device_connected" /\ value THEN "Connected" ELSE label
  /\ matrix' = IF v \in ArrayVars
                 THEN [matrix EXCEPT !.shown[v] = Filled(value, @)] ELSE matrix
  /\ check' = IF v = "CrateMCFEnabled" THEN value ELSE check
  /\ fresh' = fresh \cup {v}
  /\ UNCHANGED <<canConnect, slotHelper>>

\* _update_ui()
Update(v, value) ==
  /\ label' = IF v # "device_connected" THEN label
              ELSE IF value THEN "Connected" ELSE "Offline"
  /\ matrix' = IF v \in ArrayVars
                 THEN [matrix EXCEPT !.shown[v] = Filled(value, @)] ELSE matrix
  /\ check' = IF v = "CrateMCFEnabled" THEN value ELSE check
  /\ fresh' = fresh \cup {v}
  /\ UNCHANGED <<canConnect, slotHelper>>

\* on_connection_success(); its call of HealthCheck finds no such method.
ConnectionSuccess ==
  /\ canConnect' = FALSE
  /\ \E k \in Connects : /\ helper[k] = "done" /\ conn[k].pc = "up"
                         /\ slotHelper' = [slotHelper EXCEPT ![k] = "read"]
  /\ UNCHANGED <<label, matrix, check, fresh>>

\* update_slot_configuration(): new widgets, unless the slots are the same.
SlotConfiguration ==
  /\ IF ToSet(active) = ToSet(matrix.slots)
       THEN UNCHANGED <<matrix, fresh>>
       ELSE matrix' = NewMatrix(active) /\ fresh' = fresh \ ArrayVars
  /\ UNCHANGED <<label, canConnect, check, slotHelper>>

RunCallback ==
  /\ main = "loop" /\ tk # <<>> /\ tk' = Tail(tk)
  /\ LET c == Head(tk) IN
       \/ c.cb = "update" /\ Update(c.var, c.value)
       \/ c.cb = "success" /\ ConnectionSuccess
       \/ c.cb = "slots" /\ SlotConfiguration
       \/ /\ c.cb = "error"
          /\ label' = "Failed"
          /\ UNCHANGED <<canConnect, matrix, check, fresh, slotHelper>>
       \/ /\ c.cb = "disconnected"
          /\ canConnect' = TRUE /\ label' = "Disconnected"
          /\ UNCHANGED <<matrix, check, fresh, slotHelper>>
  /\ UNCHANGED <<bridge, sessions, conn, fields, disc, call, blocked, helper, discHelper, main,
                 mishap>>

-----------------------------------------------------------------------------
(* The main thread: the operator *)

\* The button stays enabled until the connection is up.  Bounds: a second click
\* counts as an event, and, unless Overlap, comes after a Disconnect that has
\* closed the first session.
ClickConnect(k) ==
  /\ main = "loop" /\ canConnect
  /\ conn[k].pc = "none"
  /\ \A j \in 1 .. k - 1 : conn[j].pc # "none" /\ (Overlap \/ (sess[j] = "closed" /\ ~mishap))
  /\ label' = "Connecting"
  /\ IF k = 1 THEN UNCHANGED events ELSE events < MaxEvents /\ events' = events + 1
  /\ conn' = [conn EXCEPT ![k] = [pc |-> "open", todo |-> <<>>]]
  /\ client' = k
  /\ helper' = [helper EXCEPT ![k] = "wait"]
  /\ mishap' = (mishap \/ \E j \in Connects : helper[j] = "wait" \/ Alive(j)
                                              \/ [cb |-> "success"] \in ToSet(tk))
  /\ UNCHANGED <<active, published, sessions, subscription, root, isConnected, disc, call,
                 blocked, slotHelper, discHelper, tk, main, canConnect, matrix, check, fresh>>

\* Bound: not again before the last click has been dealt with.
ClickDisconnect ==
  /\ main = "loop" /\ ~canConnect
  /\ discHelper = "none" /\ [cb |-> "disconnected"] \notin ToSet(tk)
  /\ disc["button"] \in {"none", "done"}
  /\ discHelper' = "wait"
  /\ disc' = [disc EXCEPT !["button"] = IF subscription # 0 THEN "delete" ELSE "close"]
  /\ UNCHANGED <<bridge, sessions, conn, fields, call, blocked, helper, slotHelper, tk, main,
                 widgets, mishap>>

\* module_idx, fixed when the widget is made.
ModuleIdx(slot, ch) == Position(SelectInSeq(ValidSlots, LAMBDA s : s = slot), ch)

\* on_module_clicked(): what a click toggles depends on the display mode, which
\* the operator may change before any click (on_mode_changed, set_display_mode).
Toggles ==
  ArrayVars \cap {"ModulePowerEnabled", "ModuleTriggerEnabled", "ModuleTriggerDelay",
                  "ModuleIsMutable"}

Calls(c, var, module, value, at) ==
  /\ main = "loop"
  /\ events = c - 1 /\ events' = c
  /\ call' = [call EXCEPT ![c] = [pc |-> "start", var |-> var, module |-> module,
                                  value |-> value, at |-> at]]
  /\ UNCHANGED <<active, published, sessions, conn, fields, disc, blocked, helpers, tk, main,
                 label, canConnect, matrix, mishap>>

ClickModule(c) ==
  \E i \in 1 .. NumModules(matrix.slots) : \E v \in Toggles :
    LET at == ModuleToSlotChannel(matrix.slots, i) IN
      /\ Calls(c, v, ModuleIdx(at[1], at[2]), ~matrix.shown[v][i], at)
      /\ UNCHANGED <<check, fresh>>

\* The check box changes at once, whatever becomes of the command.
ClickCheck(c) ==
  /\ Calls(c, "CrateMCFEnabled", 0, ~check, None)
  /\ check' = ~check
  /\ fresh' = fresh \ {"CrateMCFEnabled"}

NoConnects == [k \in Connects |-> [pc |-> "none", todo |-> <<>>]]
NoCalls == [c \in Clicks |-> [pc |-> "none"]]
NoDisconnects == [d \in {"button", "close"} |-> "none"]
NoHelpers == [k \in Connects |-> "none"]

\* The process as it starts.
NothingYet ==
  /\ conn' = NoConnects /\ call' = NoCalls /\ disc' = NoDisconnects
  /\ client' = 0 /\ subscription' = 0 /\ root' = 0 /\ isConnected' = FALSE
  /\ helper' = NoHelpers /\ slotHelper' = NoHelpers /\ discHelper' = "none"
  /\ blocked' = FALSE /\ tk' = <<>>
  /\ label' = "Disconnected" /\ canConnect' = TRUE /\ check' = FALSE
  /\ matrix' = NewMatrix(ValidSlots)
  /\ mishap' = FALSE /\ fresh' = {}

\* destroy() after the asyncio thread has stopped, or 2 s later: the process ends
\* with all it had.
Exit ==
  /\ main' = "gone"
  /\ NothingYet
  /\ sess' = [k \in Sessions |-> IF sess[k] = "none" THEN "none" ELSE "closed"]
  /\ queue' = [k \in Sessions |-> <<>>]
  /\ UNCHANGED bridge

\* on_close()
CloseWindow ==
  /\ main = "loop"
  /\ \/ ~isConnected /\ Exit
     \/ /\ isConnected /\ main' = "closing"
        /\ disc' = [disc EXCEPT !["close"] = IF subscription # 0 THEN "delete" ELSE "close"]
        /\ UNCHANGED <<bridge, sessions, conn, fields, call, blocked, helpers, tk, widgets, mishap>>

\* Mutant: the wait has no timeout.
WaitsForDisconnect == main = "closing" /\ disc["close"] = "done" /\ Exit

\* disconnect() has returned or raised, or 2 s are over.
CloseWaited == main = "closing" /\ Exit

-----------------------------------------------------------------------------
GuiInit ==
  /\ active \in ActiveSlots
  /\ published = [v \in ToSet(Vars) |->
                    IF v \in ArrayVars THEN [i \in 1 .. NumModules(active) |-> TRUE] ELSE TRUE]
  /\ sess = [k \in Sessions |-> "none"] /\ queue = [k \in Sessions |-> <<>>]
  /\ conn = NoConnects /\ call = NoCalls /\ disc = NoDisconnects
  /\ client = 0 /\ subscription = 0 /\ root = 0 /\ isConnected = FALSE
  /\ helper = NoHelpers /\ slotHelper = NoHelpers /\ discHelper = "none"
  /\ blocked = FALSE /\ tk = <<>> /\ main = "loop"
  /\ label = "Disconnected" /\ canConnect = TRUE /\ check = FALSE
  /\ matrix = NewMatrix(ValidSlots)
  /\ events = 0 /\ mishap = FALSE /\ fresh = {}

Connection(k) ==
  ClientConnects(k) \/ Browse(k) \/ Subscribe(k) \/ Read(k) \/ ReadAll(k) \/ ConnectRaises(k)

ConnectAnswered == \E k \in Connects : ConnectSucceeds(k) \/ ConnectFails(k)

HelperSteps ==
  \/ ConnectAnswered
  \/ \E k \in Connects : SlotsRead(k)
  \/ DisconnectWaited

Operator ==
  \/ \E k \in Connects : ClickConnect(k)
  \/ \E c \in Clicks : ClickModule(c) \/ ClickCheck(c)
  \/ ClickDisconnect \/ CloseWindow

GuiNext ==
  \/ \E k \in Connects : Connection(k) \/ Deliver(k)
  \/ \E d \in DOMAIN disc : DeleteSubscription(d) \/ Disconnects(d)
  \/ \E c \in Clicks : CallMethod(c)
  \/ HelperSteps \/ RunCallback \/ CloseWaited
  \/ Operator \/ BridgePublishes

\* The timeouts of the helpers and of on_close expire and Tk runs what is left to
\* it; nothing is assumed of the bridge, the network or the asyncio thread.
GuiFairness == WF_guiVars(ConnectAnswered) /\ WF_guiVars(RunCallback \/ CloseWaited)

GuiSpec == GuiInit /\ [][GuiNext]_guiVars /\ GuiFairness

-----------------------------------------------------------------------------
(* Properties *)

\* Nothing is under way between the bridge and the widgets.
Settled ==
  /\ main = "loop" /\ tk = <<>> /\ ~blocked
  /\ sess[client] = "subscribed" /\ queue[client] = <<>>
  /\ \A k \in Connects : conn[k].pc \notin {"subscribe", "read"}

Agrees(v) ==
  IF v \in ArrayVars
    THEN \A i \in DOMAIN active : \A ch \in 1 .. NumChannels :
           LET j == SelectInSeq(matrix.slots, LAMBDA s : s = active[i]) IN
             matrix.shown[v][Position(j, ch)] = published[v][Position(i, ch)]
    ELSE v = "CrateMCFEnabled" => check = published[v]

\* Whatever the interleaving of the initial reads, the notifications and the
\* callbacks, the widgets end up showing what the bridge publishes, module by
\* module, once they have been told (_on_data_change, update_from_data).  With
\* Overlap and a connect that failed or met another, the last notification of a
\* session left behind may arrive after those of the next.
ShownIsPublished ==
  Settled /\ ToSet(matrix.slots) = ToSet(active) => \A v \in fresh : Agrees(v)

\* The status label tells whether the device is connected (_update_ui); only a
\* connect or disconnect that failed or met another one can leave it wrong.
LabelIsTrue ==
  Settled /\ ~mishap =>
    label = IF published["device_connected"] THEN "Connected" ELSE "Offline"

\* "Disconnected" is final: no session is left behind that could still change
\* the widgets (on_disconnection_success), again unless connects have met.
DisconnectedIsQuiet ==
  label = "Disconnected" /\ ~mishap =>
    /\ ~blocked /\ \A i \in DOMAIN tk : tk[i].cb # "update"
    /\ \A k \in Sessions : ~Alive(k)

\* "If only specific slots are enabled, module numbers are renumbered consecutively
\* across only those slots": a click commands the module that was clicked, for a
\* client that is connected and shows the modules there are, and for the numbers
\* that the bridge accepts (module_idx, _module_to_slot_channel).
ClicksFollowRenumbering ==
  \A c \in Clicks :
    /\ isConnected /\ label = "Connected" /\ ToSet(matrix.slots) = ToSet(active)
    /\ call[c].pc = "start" /\ call[c].var \in ArrayVars
    /\ call[c].module \in 1 .. NumModules(active)
    => ModuleToSlotChannel(active, call[c].module) = call[c].at

\* "update its indicators with the correct initial data": the values that have
\* been delivered are in the widgets that replaced the first ones.
RecreatedMatrixFilled ==
  /\ Settled /\ ~canConnect /\ ~mishap
  /\ ToSet(matrix.slots) = ToSet(active)
  => \A v \in ArrayVars : Agrees(v)

\* The same without the exception: a helper's timeout or a second click on Connect
\* can leave a session that nothing will close.
NoSessionLeftBehind == label = "Disconnected" => \A k \in Sessions : ~Alive(k)

\* Closing the window ends the program, even when a notification blocks the
\* asyncio thread on the main thread, which waits for its disconnect().
CloseEnds == main = "closing" ~> main = "gone"
=============================================================================
