------------------------------ MODULE GuiProofs ------------------------------
(* Proofs about the numbering of the modules of a crate (ModuleArrays) and     *)
(* about the graphical client (Gui): what its widgets and its label show, and  *)
(* that nothing is left behind once they say "Disconnected".                   *)
EXTENDS Gui, SequenceTheorems, FiniteSetTheorems, TLAPS

-----------------------------------------------------------------------------
(* The numbering of the modules *)

\* Dividing a number written with a quotient and a remainder gives them back.
LEMMA DivMod ==
  ASSUME NEW n \in Nat \ {0}, NEW a \in Nat, NEW b \in 0 .. n - 1
  PROVE  (a * n + b) \div n = a /\ (a * n + b) % n = b
<1> DEFINE x == a * n + b
           q == x \div n
           r == x % n
<1>1. x \in Nat /\ q \in Int /\ r \in 0 .. n - 1 /\ x = n * q + r
  OBVIOUS
<1>2. ~(q >= a + 1)
  <2> SUFFICES ASSUME q >= a + 1 PROVE FALSE
    OBVIOUS
  <2>1. n * q >= n * (a + 1)
    BY <1>1
  <2>2. QED
    BY <1>1, <2>1
<1>3. ~(q <= a - 1)
  <2> SUFFICES ASSUME q <= a - 1 PROVE FALSE
    OBVIOUS
  <2>1. n * q <= n * (a - 1)
    BY <1>1
  <2>2. QED
    BY <1>1, <2>1
<1>4. q = a
  BY <1>1, <1>2, <1>3
<1>5. QED
  BY <1>1, <1>4

\* Every channel of every active slot has a place in the arrays.
LEMMA PositionInArray ==
  ASSUME NEW slots \in Seq(Int), NEW i \in 1 .. Len(slots), NEW ch \in 1 .. NumChannels
  PROVE  Position(i, ch) \in 1 .. NumModules(slots)
<1> DEFINE n == Len(slots)
<1>1. n \in Nat /\ NumChannels \in Nat \ {0} /\ i \in 1 .. n /\ ch \in 1 .. NumChannels
  BY NumChannelsAssumption
<1>2. (i - 1) * NumChannels >= 0
  BY <1>1
<1>3. i * NumChannels <= n * NumChannels
  <2>1. n * NumChannels - i * NumChannels = (n - i) * NumChannels
    BY <1>1
  <2>2. (n - i) * NumChannels >= 0
    BY <1>1
  <2>3. QED
    BY <1>1, <2>1, <2>2
<1>4. (i - 1) * NumChannels = i * NumChannels - NumChannels
  BY <1>1
<1>5. QED
  BY <1>1, <1>2, <1>3, <1>4 DEF Position, NumModules

\* The bridge resolves the number of a module to the slot and the channel whose
\* values it publishes at that place, whatever the active slots and the number of
\* channels (_module_to_slot_channel and the order of the array writes).
THEOREM NumberNamesItsModule ==
  ASSUME NEW slots \in Seq(Int), NEW i \in 1 .. Len(slots), NEW ch \in 1 .. NumChannels
  PROVE  /\ Position(i, ch) \in 1 .. NumModules(slots)
         /\ ModuleToSlotChannel(slots, Position(i, ch)) = <<slots[i], ch>>
<1>1. NumChannels \in Nat \ {0} /\ i - 1 \in Nat /\ ch - 1 \in 0 .. NumChannels - 1
  BY NumChannelsAssumption
<1>2. Position(i, ch) - 1 = (i - 1) * NumChannels + (ch - 1)
  BY <1>1 DEF Position
<1>3. /\ (Position(i, ch) - 1) \div NumChannels = i - 1
      /\ (Position(i, ch) - 1) % NumChannels = ch - 1
  BY <1>1, <1>2, DivMod
<1>4. QED
  BY <1>1, <1>3, PositionInArray DEF ModuleToSlotChannel

\* No two modules share a place in the arrays.
THEOREM PlacesDiffer ==
  ASSUME NEW slots \in Seq(Int),
         NEW i \in 1 .. Len(slots), NEW ch \in 1 .. NumChannels,
         NEW j \in 1 .. Len(slots), NEW dh \in 1 .. NumChannels,
         Position(i, ch) = Position(j, dh)
  PROVE  i = j /\ ch = dh
<1>1. NumChannels \in Nat \ {0} /\ i - 1 \in Nat /\ j - 1 \in Nat
      /\ ch - 1 \in 0 .. NumChannels - 1 /\ dh - 1 \in 0 .. NumChannels - 1
  BY NumChannelsAssumption
<1>2. (i - 1) * NumChannels + (ch - 1) = (j - 1) * NumChannels + (dh - 1)
  BY <1>1 DEF Position
<1>3. /\ ((i - 1) * NumChannels + (ch - 1)) \div NumChannels = i - 1
      /\ ((i - 1) * NumChannels + (ch - 1)) % NumChannels = ch - 1
  BY <1>1, DivMod
<1>4. /\ ((j - 1) * NumChannels + (dh - 1)) \div NumChannels = j - 1
      /\ ((j - 1) * NumChannels + (dh - 1)) % NumChannels = dh - 1
  BY <1>1, DivMod
<1>5. i - 1 = j - 1 /\ ch - 1 = dh - 1
  BY <1>2, <1>3, <1>4
<1>6. QED
  BY <1>1, <1>5
-----------------------------------------------------------------------------
(* The order of the slots *)

UpTo(slots, n) == {x \in ToSet(slots) : x <= n}

\* A slot's place in an ordered list is the number of slots that are not above it.
LEMMA RankIsPlace ==
  ASSUME NEW s \in Seq(Nat), Ascending(s), NEW n \in 1 .. Len(s)
  PROVE  Cardinality(UpTo(s, s[n])) = n
<1> DEFINE T == UpTo(s, s[n])
           f == [i \in 1 .. n |-> s[i]]
<1>1. /\ n \in Nat /\ Len(s) \in Nat /\ DOMAIN s = 1 .. Len(s)
      /\ \A i \in 1 .. Len(s) : s[i] \in Nat
  BY LenProperties, ElementOfSeq
<1>2. \A i, j \in 1 .. Len(s) : i < j => s[i] < s[j]
  BY DEF Ascending
<1>3. T = {x \in {s[i] : i \in 1 .. Len(s)} : x <= s[n]}
  BY <1>1 DEF UpTo, ToSet
<1>4. ASSUME NEW i \in 1 .. n PROVE s[i] \in T
  <2>1. i = n \/ i < n
    BY <1>1
  <2>2. s[i] <= s[n]
    BY <1>1, <1>2, <2>1
  <2>3. QED
    BY <1>1, <1>3, <2>2
<1>5. ASSUME NEW x \in T PROVE \E i \in 1 .. n : x = s[i]
  <2>1. PICK i \in 1 .. Len(s) : x = s[i] /\ s[i] <= s[n]
    BY <1>3
  <2>2. ~(n < i)
    BY <1>1, <1>2, <2>1
  <2>3. QED
    BY <1>1, <2>1, <2>2
<1>6. \A i, j \in 1 .. n : s[i] = s[j] => i = j
  BY <1>1, <1>2
<1> HIDE DEF T
<1>7. f \in [1 .. n -> T]
  BY <1>4
<1>8. f \in Bijection(1 .. n, T)
  BY <1>5, <1>6, <1>7 DEF Bijection, Injection, Surjection, IsInjective
<1>9. Cardinality(T) = n
  BY <1>1, <1>8, FS_CountingElements DEF ExistsBijection
<1>10. QED
  BY <1>9 DEF T

\* Slots that are listed in order are listed in one way.
LEMMA OneOrder ==
  ASSUME NEW s \in Seq(Nat), NEW t \in Seq(Nat), Ascending(s), Ascending(t), ToSet(s) = ToSet(t)
  PROVE  s = t
<1>1. /\ Len(s) \in Nat /\ DOMAIN s = 1 .. Len(s) /\ s \in [1 .. Len(s) -> Nat]
      /\ Len(t) \in Nat /\ DOMAIN t = 1 .. Len(t) /\ t \in [1 .. Len(t) -> Nat]
  BY LenProperties
<1>2. \A n : UpTo(s, n) = UpTo(t, n)
  BY DEF UpTo
<1>3. ASSUME NEW n \in 1 .. Len(s) PROVE n \in 1 .. Len(t) /\ t[n] = s[n]
  <2>1. s[n] \in ToSet(t)
    BY <1>1 DEF ToSet
  <2>2. PICK m \in 1 .. Len(t) : t[m] = s[n]
    BY <1>1, <2>1 DEF ToSet
  <2>3. Cardinality(UpTo(s, s[n])) = n /\ Cardinality(UpTo(t, t[m])) = m
    BY RankIsPlace
  <2>4. m = n
    BY <1>2, <2>2, <2>3
  <2>5. QED
    BY <2>2, <2>4
<1>4. ASSUME NEW n \in 1 .. Len(t) PROVE n \in 1 .. Len(s)
  <2>1. t[n] \in ToSet(s)
    BY <1>1 DEF ToSet
  <2>2. PICK m \in 1 .. Len(s) : s[m] = t[n]
    BY <1>1, <2>1 DEF ToSet
  <2>3. Cardinality(UpTo(t, t[n])) = n /\ Cardinality(UpTo(s, s[m])) = m
    BY RankIsPlace
  <2>4. m = n
    BY <1>2, <2>2, <2>3
  <2>5. QED
    BY <2>2, <2>4
<1>5. Len(s) = Len(t)
  <2>1. Len(s) \in Nat /\ Len(t) \in Nat
    BY <1>1
  <2>2. Len(s) <= Len(t) /\ Len(t) <= Len(s)
    BY <1>3, <1>4, <2>1
  <2>3. QED
    BY <2>1, <2>2
<1>6. QED
  BY <1>3, <1>5, SeqEqual


-----------------------------------------------------------------------------
(* Types: GuiTypeOK, with what its steps need of the values under way *)

SimpleTypes ==
  /\ sess \in [Sessions -> {"none", "open", "subscribed", "closed"}]
  /\ client \in Sessions /\ subscription \in Sessions /\ root \in Sessions
  /\ isConnected \in BOOLEAN /\ canConnect \in BOOLEAN /\ check \in BOOLEAN
  /\ disc \in [{"button", "close"} -> {"none", "delete", "close", "done"}]
  /\ blocked \in BOOLEAN
  /\ helper \in [Connects -> {"none", "wait", "done"}]
  /\ slotHelper \in [Connects -> {"none", "read"}] /\ discHelper \in {"none", "wait"}
  /\ main \in {"loop", "closing", "gone"}
  /\ label \in {"Disconnected", "Connecting", "Failed", "Connected", "Offline"}
  /\ mishap \in BOOLEAN

ConnTypes ==
  conn \in [Connects ->
    [pc : {"none", "open", "browse", "subscribe", "read", "up", "failed"},
     todo : Seq(ToSet(Vars))]]

CallTypes ==
  /\ DOMAIN call = Clicks
  /\ \A c \in Clicks :
       /\ call[c].pc \in {"none", "start", "ended"}
       /\ call[c].pc = "start" => call[c].var \in ToSet(Vars) /\ call[c].value \in BOOLEAN

PublishedTypes ==
  /\ active \in ActiveSlots
  /\ DOMAIN published = ToSet(Vars) /\ \A v \in ToSet(Vars) : published[v] \in Values(v)

\* What is notified, and what is left with after().
Updates == UNION {[cb : {"update"}, var : {v}, value : Values(v)] : v \in ToSet(Vars)}

CallbackTypes == queue \in [Sessions -> Seq(Updates)] /\ tk \in Seq(Callbacks)

MatrixTypes ==
  /\ matrix.slots \in {ValidSlots, active}
  /\ matrix = [slots |-> matrix.slots, shown |-> matrix.shown]
  /\ matrix.shown \in [ArrayVars -> [1 .. NumModules(matrix.slots) -> BOOLEAN]]

GuiTypes ==
  SimpleTypes /\ ConnTypes /\ CallTypes /\ PublishedTypes /\ CallbackTypes /\ MatrixTypes

\* The variables of the bridge: two that are single values, the others arrays.
LEMMA TheVars ==
  /\ Vars \in Seq(ToSet(Vars)) /\ ArrayVars \subseteq ToSet(Vars)
  /\ "device_connected" \in ToSet(Vars) \ ArrayVars
  /\ "CrateMCFEnabled" \in ToSet(Vars) \ ArrayVars
  /\ \A v \in ToSet(Vars) : v \notin ArrayVars => v \in {"device_connected", "CrateMCFEnabled"}
<1>1. Vars \in [1 .. Len(Vars) -> STRING] /\ Len(Vars) \in Nat /\ DOMAIN Vars = 1 .. Len(Vars)
  BY GuiAssumption, LenProperties
<1>2. Vars \in [1 .. Len(Vars) -> ToSet(Vars)]
  BY <1>1 DEF ToSet
<1>3. Vars \in Seq(ToSet(Vars))
  BY <1>1, <1>2, SeqDef
<1>4. QED
  BY <1>3, GuiAssumption DEF ArrayVars

\* The crates are lists of slots.
LEMMA TheSlots ==
  ASSUME active \in ActiveSlots
  PROVE  /\ active \in Seq(Nat) /\ ValidSlots \in Seq(Nat)
         /\ Len(active) \in Nat /\ Len(ValidSlots) \in Nat
         /\ NumModules(active) \in Nat /\ NumModules(ValidSlots) \in Nat
<1>1. active \in Seq(Nat) /\ ValidSlots \in Seq(Nat)
  BY GuiAssumption
<1>2. Len(active) \in Nat /\ Len(ValidSlots) \in Nat
  BY <1>1, LenProperties
<1>3. QED
  BY <1>1, <1>2, NumChannelsAssumption DEF NumModules

\* What the callbacks are.
LEMMA UpdateIsCallback ==
  ASSUME NEW v \in ToSet(Vars), NEW value \in Values(v)
  PROVE  UpdateOf(v, value) \in Callbacks /\ UpdateOf(v, value) \in Updates
<1>1. UpdateOf(v, value) \in [cb : {"update"}, var : {v}, value : Values(v)]
  BY DEF UpdateOf
<1>2. QED
  BY <1>1 DEF Callbacks, Updates

LEMMA PlainIsCallback ==
  ASSUME NEW cb \in {"success", "error", "slots", "disconnected"}
  PROVE  [cb |-> cb] \in Callbacks
  BY DEF Callbacks

LEMMA CallbackCases ==
  ASSUME NEW c \in Callbacks
  PROVE  \/ c.cb \in {"success", "error", "slots", "disconnected"}
         \/ /\ c.cb = "update" /\ c.var \in ToSet(Vars) /\ c.value \in Values(c.var)
            /\ c = UpdateOf(c.var, c.value)
<1>1. CASE c \in [cb : {"success", "error", "slots", "disconnected"}]
  BY <1>1
<1>2. CASE \E v \in ToSet(Vars) : c \in [cb : {"update"}, var : {v}, value : Values(v)]
  BY <1>2 DEF UpdateOf
<1>3. QED
  BY <1>1, <1>2 DEF Callbacks

LEMMA UpdateCases ==
  ASSUME NEW c \in Updates
  PROVE  /\ c \in Callbacks /\ c.cb = "update" /\ c.var \in ToSet(Vars)
         /\ c.value \in Values(c.var) /\ c = UpdateOf(c.var, c.value)
  BY DEF Updates, Callbacks, UpdateOf

\* The notifications of a change are callbacks.
Notices(vs, values) == [i \in DOMAIN vs |-> UpdateOf(vs[i], values[vs[i]])]

LEMMA NoticesAreCallbacks ==
  ASSUME NEW values, \A v \in ToSet(Vars) : values[v] \in Values(v), NEW vs \in Seq(ToSet(Vars))
  PROVE  /\ Notices(vs, values) \in Seq(Updates) /\ Len(Notices(vs, values)) = Len(vs)
         /\ \A i \in 1 .. Len(vs) : Notices(vs, values)[i] = UpdateOf(vs[i], values[vs[i]])
<1>1. DOMAIN vs = 1 .. Len(vs) /\ Len(vs) \in Nat /\ \A i \in 1 .. Len(vs) : vs[i] \in ToSet(Vars)
  BY LenProperties, ElementOfSeq
<1>2. \A i \in 1 .. Len(vs) : UpdateOf(vs[i], values[vs[i]]) \in Updates
  BY <1>1, UpdateIsCallback
<1>3. Notices(vs, values) \in [1 .. Len(vs) -> Updates]
  BY <1>1, <1>2 DEF Notices
<1>4. Notices(vs, values) \in Seq(Updates)
  BY <1>1, <1>3, SeqDef
<1>5. Len(Notices(vs, values)) = Len(vs)
  BY <1>1, <1>3, <1>4, LenProperties
<1>6. QED
  BY <1>1, <1>4, <1>5 DEF Notices

\* The configuration of the bridge never changes, and with it the types.
LEMMA SameValues ==
  ASSUME active' = active
  PROVE  /\ Callbacks' = Callbacks /\ Updates' = Updates
         /\ \A v : Values(v)' = Values(v)
  BY DEF Callbacks, Updates, Values

LEMMA ActiveStays ==
  ASSUME GuiNext \/ UNCHANGED guiVars
  PROVE  active' = active
<1>1. CASE UNCHANGED guiVars
  BY <1>1 DEF guiVars, bridge
<1>2. ASSUME NEW k \in Connects, Connection(k) \/ Deliver(k) \/ ClickConnect(k) PROVE active' = active
  BY <1>2 DEF Connection, ClientConnects, Browse, Subscribe, Read, ReadAll, ConnectRaises, Deliver,
    ClickConnect, bridge
<1>3. ASSUME NEW d, DeleteSubscription(d) \/ Disconnects(d) PROVE active' = active
  BY <1>3 DEF DeleteSubscription, Disconnects, bridge
<1>4. ASSUME NEW c, CallMethod(c) \/ ClickModule(c) \/ ClickCheck(c) PROVE active' = active
  BY <1>4 DEF CallMethod, ClickModule, ClickCheck, Calls
<1>5. CASE HelperSteps
  BY <1>5 DEF HelperSteps, ConnectAnswered, ConnectSucceeds, ConnectFails, SlotsRead, DisconnectWaited,
    bridge
<1>6. CASE RunCallback \/ CloseWaited \/ CloseWindow
  BY <1>6 DEF RunCallback, CloseWaited, CloseWindow, Exit, bridge
<1>7. CASE ClickDisconnect \/ BridgePublishes
  BY <1>7 DEF ClickDisconnect, BridgePublishes, bridge
<1>8. QED
  BY <1>1, <1>2, <1>3, <1>4, <1>5, <1>6, <1>7 DEF GuiNext, Operator

\* What leaving a callback, posting one and notifying a change keep.
LEMMA LeaveKeepsTypes ==
  ASSUME CallbackTypes, active' = active, NEW cb \in Callbacks, Leave(cb), UNCHANGED queue
  PROVE  CallbackTypes'
  BY SameValues, AppendProperties DEF CallbackTypes, Leave

LEMMA PostsKeepsTypes ==
  ASSUME CallbackTypes, active' = active, NEW cb \in Callbacks, Posts(cb), UNCHANGED queue
  PROVE  CallbackTypes'
  BY SameValues, AppendProperties DEF CallbackTypes, Posts

LEMMA NotifyQueue ==
  ASSUME CallbackTypes, PublishedTypes', active' = active, NEW vs \in Seq(ToSet(Vars)), Notify(vs)
  PROVE  /\ queue' \in [Sessions -> Seq(Updates)]
         /\ Notices(vs, published') \in Seq(Updates)
         /\ \A k \in Sessions : queue'[k] = IF sess[k] = "subscribed"
                                              THEN queue[k] \o Notices(vs, published') ELSE queue[k]
<1>1. \A v \in ToSet(Vars) : published'[v] \in Values(v)
  BY SameValues DEF PublishedTypes
<1>2. Notices(vs, published') \in Seq(Updates)
  BY <1>1, NoticesAreCallbacks
<1>3. queue' = [k \in Sessions |-> IF sess[k] = "subscribed"
                                     THEN queue[k] \o Notices(vs, published') ELSE queue[k]]
  BY DEF Notify, Notices
<1>4. \A k \in Sessions : queue[k] \o Notices(vs, published') \in Seq(Updates)
  BY <1>2, ConcatProperties DEF CallbackTypes
<1>5. QED
  BY <1>2, <1>3, <1>4 DEF CallbackTypes


LEMMA SamePublished ==
  ASSUME PublishedTypes, active' = active, published' = published
  PROVE  PublishedTypes'
  BY SameValues DEF PublishedTypes

\* Steps that leave the values of the bridge, the callbacks and the matrix alone.
LEMMA FieldsKeepTypes ==
  ASSUME GuiTypes, active' = active, UNCHANGED <<published, queue, tk, matrix>>,
         SimpleTypes', ConnTypes', CallTypes'
  PROVE  GuiTypes'
<1>1. PublishedTypes'
  BY SamePublished DEF GuiTypes
<1>2. CallbackTypes'
  BY SameValues DEF GuiTypes, CallbackTypes
<1>3. MatrixTypes'
  BY DEF GuiTypes, MatrixTypes
<1>4. QED
  BY <1>1, <1>2, <1>3 DEF GuiTypes

\* Steps that leave the values of the bridge and the matrix alone.
LEMMA CallbacksKeepTypes ==
  ASSUME GuiTypes, active' = active, UNCHANGED <<published, matrix>>,
         SimpleTypes', ConnTypes', CallTypes', CallbackTypes'
  PROVE  GuiTypes'
  BY SamePublished DEF GuiTypes, MatrixTypes

\* The coroutine of a connection.
LEMMA ConnectionTypes ==
  ASSUME GuiTypes, active' = active, NEW k \in Connects,
         ClientConnects(k) \/ Browse(k) \/ ReadAll(k) \/ ConnectRaises(k)
  PROVE  GuiTypes'
<1> USE DEF bridge, sessions, fields, helpers, widgets
<1>1. UNCHANGED <<published, queue, tk, matrix, call>>
  BY DEF ClientConnects, Browse, ReadAll, ConnectRaises
<1>2. ConnTypes'
  <2>1. CASE ClientConnects(k) \/ Browse(k) \/ ReadAll(k)
    BY <2>1 DEF ClientConnects, Browse, ReadAll, ConnectTo, GuiTypes, ConnTypes
  <2>2. CASE ConnectRaises(k)
    BY <2>2, EmptySeq DEF ConnectRaises, GuiTypes, ConnTypes
  <2>3. QED
    BY <2>1, <2>2
<1>3. SimpleTypes'
  <2>1. k \in Sessions
    BY GuiAssumption DEF Connects, Sessions
  <2>2. CASE ClientConnects(k)
    BY <2>1, <2>2 DEF ClientConnects, GuiTypes, SimpleTypes
  <2>3. CASE Browse(k)
    BY <2>3 DEF Browse, GuiTypes, SimpleTypes
  <2>4. CASE ReadAll(k)
    BY <2>4 DEF ReadAll, GuiTypes, SimpleTypes
  <2>5. CASE ConnectRaises(k)
    BY <2>5 DEF ConnectRaises, GuiTypes, SimpleTypes
  <2>6. QED
    BY <2>2, <2>3, <2>4, <2>5
<1>4. QED
  BY <1>1, <1>2, <1>3, FieldsKeepTypes DEF GuiTypes, CallTypes

LEMMA SubscribeTypes ==
  ASSUME GuiTypes, active' = active, NEW k \in Connects, Subscribe(k)
  PROVE  GuiTypes'
<1> USE DEF bridge, sessions, fields, helpers, widgets
<1>1. UNCHANGED <<published, tk, matrix, call>>
  BY DEF Subscribe
<1>2. Notices(Vars, published) \in Seq(Updates)
  BY TheVars, NoticesAreCallbacks DEF GuiTypes, PublishedTypes
<1>3. queue[subscription] \o Notices(Vars, published) \in Seq(Updates)
  BY <1>2, ConcatProperties DEF GuiTypes, SimpleTypes, CallbackTypes
<1>4. queue' = [queue EXCEPT ![subscription] = queue[subscription] \o Notices(Vars, published)]
  BY DEF Subscribe, Notices
<1>5. CallbackTypes'
  BY <1>1, <1>3, <1>4, SameValues DEF GuiTypes, CallbackTypes
<1>6. ConnTypes'
  BY TheVars DEF Subscribe, GuiTypes, ConnTypes
<1>7. SimpleTypes'
  BY DEF Subscribe, GuiTypes, SimpleTypes
<1>8. QED
  BY <1>1, <1>5, <1>6, <1>7, CallbacksKeepTypes DEF GuiTypes, CallTypes

LEMMA ReadTypes ==
  ASSUME GuiTypes, active' = active, NEW k \in Connects, Read(k)
  PROVE  GuiTypes'
<1> USE DEF bridge, sessions, fields, helpers, widgets
<1> DEFINE v == Head(conn[k].todo)
<1>1. v \in ToSet(Vars) /\ Tail(conn[k].todo) \in Seq(ToSet(Vars))
  BY HeadTailProperties DEF Read, GuiTypes, ConnTypes
<1>2. UpdateOf(v, published[v]) \in Callbacks
  BY <1>1, UpdateIsCallback DEF GuiTypes, PublishedTypes
<1>3. Posts(UpdateOf(v, published[v])) \/ UNCHANGED <<tk, blocked>>
  BY DEF Read
<1>4. UNCHANGED <<published, queue, matrix, call>>
  BY DEF Read
<1>5. CallbackTypes'
  BY <1>2, <1>3, <1>4, PostsKeepsTypes, SameValues DEF GuiTypes, CallbackTypes
<1>6. ConnTypes'
  BY <1>1 DEF Read, GuiTypes, ConnTypes
<1>7. SimpleTypes'
  BY <1>3 DEF Read, Posts, GuiTypes, SimpleTypes
<1>8. QED
  BY <1>4, <1>5, <1>6, <1>7, CallbacksKeepTypes DEF GuiTypes, CallTypes

LEMMA DeliverTypes ==
  ASSUME GuiTypes, active' = active, NEW k \in Connects, Deliver(k)
  PROVE  GuiTypes'
<1> USE DEF bridge, sessions, fields, helpers, widgets
<1>1. k \in Sessions
  BY GuiAssumption DEF Connects, Sessions
<1>2. Head(queue[k]) \in Callbacks /\ Tail(queue[k]) \in Seq(Updates)
  BY <1>1, HeadTailProperties, UpdateCases DEF Deliver, GuiTypes, CallbackTypes
<1>3. CallbackTypes'
  <2>1. tk' \in Seq(Callbacks)
    BY <1>2, AppendProperties, SMTT(30) DEF Deliver, Posts, GuiTypes, CallbackTypes
  <2>2. QED
    BY <1>2, <2>1, SameValues DEF Deliver, GuiTypes, CallbackTypes
<1>4. SimpleTypes'
  BY DEF Deliver, Posts, GuiTypes, SimpleTypes
<1>5. QED
  BY <1>3, <1>4, CallbacksKeepTypes DEF Deliver, GuiTypes, CallTypes, ConnTypes


LEMMA DisconnectTypes ==
  ASSUME GuiTypes, active' = active, NEW d \in {"button", "close"},
         DeleteSubscription(d) \/ Disconnects(d)
  PROVE  GuiTypes'
<1> USE DEF bridge, sessions, fields, helpers, widgets
<1>1. UNCHANGED <<published, tk, matrix, call, conn>>
  BY DEF DeleteSubscription, Disconnects
<1>2. CallbackTypes'
  <2>1. <<>> \in Seq(Updates)
    BY EmptySeq
  <2>2. CASE DeleteSubscription(d)
    BY <1>1, <2>1, <2>2, SameValues DEF DeleteSubscription, GuiTypes, CallbackTypes
  <2>3. CASE Disconnects(d)
    BY <1>1, <2>1, <2>3, SameValues DEF Disconnects, GuiTypes, CallbackTypes
  <2>4. QED
    BY <2>2, <2>3
<1>3. 0 \in Sessions
  BY GuiAssumption DEF Sessions
<1>4. SimpleTypes'
  <2>1. CASE DeleteSubscription(d)
    BY <1>3, <2>1 DEF DeleteSubscription, GuiTypes, SimpleTypes
  <2>2. CASE Disconnects(d)
    BY <1>3, <2>2 DEF Disconnects, GuiTypes, SimpleTypes
  <2>3. QED
    BY <2>1, <2>2
<1>5. QED
  BY <1>1, <1>2, <1>4, CallbacksKeepTypes DEF GuiTypes, CallTypes, ConnTypes

LEMMA CallMethodTypes ==
  ASSUME GuiTypes, active' = active, NEW c \in Clicks, CallMethod(c)
  PROVE  GuiTypes'
<1> USE DEF bridge, sessions, fields, helpers, widgets
<1> DEFINE v == call[c].var
           new == IF v \in ArrayVars THEN [published[v] EXCEPT ![call[c].module] = call[c].value]
                                     ELSE call[c].value
<1>1. v \in ToSet(Vars) /\ call[c].value \in BOOLEAN
  BY DEF CallMethod, GuiTypes, CallTypes
<1>2. new \in Values(v)
  BY <1>1 DEF GuiTypes, PublishedTypes, Values
<1>3. \/ published' = [published EXCEPT ![v] = new] /\ Notify(<<v>>)
      \/ UNCHANGED <<published, queue>>
  BY DEF CallMethod
<1>4. PublishedTypes'
  <2>1. published' = [published EXCEPT ![v] = new] \/ published' = published
    BY <1>3
  <2> HIDE DEF new, v
  <2>2. QED
    BY <1>2, <2>1, SameValues DEF GuiTypes, PublishedTypes
<1>5. CallbackTypes'
  <2>1. UNCHANGED tk
    BY DEF CallMethod
  <2>2. <<v>> \in Seq(ToSet(Vars))
    BY <1>1
  <2>3. queue' \in [Sessions -> Seq(Updates)]
    BY <1>3, <1>4, <2>2, NotifyQueue DEF GuiTypes, CallbackTypes
  <2>4. QED
    BY <2>1, <2>3, SameValues DEF GuiTypes, CallbackTypes
<1>6. CallTypes'
  BY DEF CallMethod, GuiTypes, CallTypes
<1>7. SimpleTypes' /\ ConnTypes' /\ MatrixTypes'
  BY DEF CallMethod, GuiTypes, SimpleTypes, ConnTypes, MatrixTypes
<1>8. QED
  BY <1>4, <1>5, <1>6, <1>7 DEF GuiTypes

\* The values of an absent device, and of one that comes back.
LEMMA BridgePublishesTypes ==
  ASSUME GuiTypes, active' = active, BridgePublishes
  PROVE  /\ GuiTypes'
         /\ \E vs \in Seq(ToSet(Vars)) :
              /\ Notify(vs)
              /\ \A v \in ToSet(Vars) : v \notin ToSet(vs) => published'[v] = published[v]
<1> USE DEF bridge, sessions, fields, helpers, widgets
<1>1. ASSUME NEW v \in ToSet(Vars) \ {"device_connected"}, Notify(<<v>>),
             IF v \in ArrayVars
               THEN \E i \in DOMAIN published[v] : published' = [published EXCEPT ![v][i] = ~@]
               ELSE published' = [published EXCEPT ![v] = ~@]
      PROVE  PublishedTypes' /\ \A w \in ToSet(Vars) \ {v} : published'[w] = published[w]
  <2>1. published[v] \in Values(v)
    BY DEF GuiTypes, PublishedTypes
  <2>2. CASE v \in ArrayVars
    <3>1. PICK i \in DOMAIN published[v] : published' = [published EXCEPT ![v][i] = ~@]
      BY <1>1, <2>2
    <3>2. [published[v] EXCEPT ![i] = ~@] \in Values(v)
      BY <2>1, <2>2 DEF Values
    <3>3. published' = [published EXCEPT ![v] = [published[v] EXCEPT ![i] = ~@]]
      BY <3>1
    <3>4. QED
      BY <3>2, <3>3, SameValues DEF GuiTypes, PublishedTypes
  <2>3. CASE v \notin ArrayVars
    BY <1>1, <2>1, <2>3, SameValues DEF GuiTypes, PublishedTypes, Values
  <2>4. QED
    BY <2>2, <2>3
<1>2. ASSUME published' = [v \in ToSet(Vars) |-> Off(v)]
      PROVE  PublishedTypes'
  <2>1. \A v \in ToSet(Vars) : Off(v) \in Values(v)
    BY DEF Off, Values
  <2>2. QED
    BY <1>2, <2>1, SameValues DEF GuiTypes, PublishedTypes
<1>3. ASSUME NEW power \in BOOLEAN,
             published' = [v \in ToSet(Vars) |->
               IF v \in ArrayVars THEN [i \in DOMAIN published[v] |-> power] ELSE TRUE]
      PROVE  PublishedTypes'
  <2>1. \A v \in ArrayVars : DOMAIN published[v] = 1 .. NumModules(active)
    BY TheVars DEF GuiTypes, PublishedTypes, Values
  <2>2. \A v \in ToSet(Vars) : published'[v] \in Values(v)
    BY <1>3, <2>1 DEF Values
  <2>3. QED
    BY <1>3, <2>2, SameValues DEF GuiTypes, PublishedTypes
<1>4. /\ PublishedTypes'
      /\ \E vs \in Seq(ToSet(Vars)) :
           /\ Notify(vs)
           /\ \A v \in ToSet(Vars) : v \notin ToSet(vs) => published'[v] = published[v]
  <2>1. CASE \E v \in ToSet(Vars) \ {"device_connected"} :
               /\ IF v \in ArrayVars
                    THEN \E i \in DOMAIN published[v] : published' = [published EXCEPT ![v][i] = ~@]
                    ELSE published' = [published EXCEPT ![v] = ~@]
               /\ Notify(<<v>>)
    <3>1. PICK v \in ToSet(Vars) \ {"device_connected"} :
               /\ IF v \in ArrayVars
                    THEN \E i \in DOMAIN published[v] : published' = [published EXCEPT ![v][i] = ~@]
                    ELSE published' = [published EXCEPT ![v] = ~@]
               /\ Notify(<<v>>)
      BY <2>1
    <3>2. PublishedTypes' /\ \A w \in ToSet(Vars) \ {v} : published'[w] = published[w]
      BY <1>1, <3>1
    <3>3. <<v>> \in Seq(ToSet(Vars)) /\ ToSet(<<v>>) = {v}
      BY DEF ToSet
    <3>4. QED
      BY <3>1, <3>2, <3>3
  <2>2. CASE Notify(Vars) /\ PublishedTypes'
    BY <2>2, TheVars
  <2>3. QED
    BY <1>2, <1>3, <2>1, <2>2 DEF BridgePublishes
<1>5. CallbackTypes'
  <2>1. PICK vs \in Seq(ToSet(Vars)) : Notify(vs)
    BY <1>4
  <2>2. queue' \in [Sessions -> Seq(Updates)]
    BY <1>4, <2>1, NotifyQueue DEF GuiTypes
  <2>3. QED
    BY <2>2, SameValues DEF BridgePublishes, GuiTypes, CallbackTypes
<1>6. SimpleTypes' /\ ConnTypes' /\ CallTypes' /\ MatrixTypes'
  BY DEF BridgePublishes, GuiTypes, SimpleTypes, ConnTypes, CallTypes, MatrixTypes
<1>7. QED
  BY <1>4, <1>5, <1>6 DEF GuiTypes


\* The helper threads: what they leave is no update.
Left(cb) == tk' = Append(tk, [cb |-> cb])

LEMMA HelperLeaves ==
  ASSUME HelperSteps
  PROVE  /\ main = "loop" /\ UNCHANGED <<main, blocked, active, published, sess, queue, conn, call, disc, client,
                                         isConnected, subscription, root, widgets>>
         /\ \/ \E k \in Connects : ConnectSucceeds(k) /\ Left("success")
            \/ \E k \in Connects : ConnectFails(k) /\ Left("error")
            \/ \E k \in Connects : SlotsRead(k) /\ (Left("slots") \/ tk' = tk)
            \/ DisconnectWaited /\ Left("disconnected")
<1> USE DEF bridge, sessions, fields, helpers
<1>1. ASSUME NEW k \in Connects, ConnectSucceeds(k)
      PROVE  /\ main = "loop" /\ Left("success")
             /\ UNCHANGED <<main, blocked, active, published, sess, queue, conn, call, disc, client,
                            isConnected, subscription, root, widgets>>
  BY <1>1 DEF ConnectSucceeds, Leave, Left
<1>2. ASSUME NEW k \in Connects, ConnectFails(k)
      PROVE  /\ main = "loop" /\ Left("error")
             /\ UNCHANGED <<main, blocked, active, published, sess, queue, conn, call, disc, client,
                            isConnected, subscription, root, widgets>>
  BY <1>2 DEF ConnectFails, Leave, Left
<1>3. ASSUME NEW k \in Connects, SlotsRead(k)
      PROVE  /\ main = "loop" /\ (Left("slots") \/ tk' = tk)
             /\ UNCHANGED <<main, blocked, active, published, sess, queue, conn, call, disc, client,
                            isConnected, subscription, root, widgets>>
  BY <1>3 DEF SlotsRead, Leave, Left
<1>4. ASSUME DisconnectWaited
      PROVE  /\ main = "loop" /\ Left("disconnected")
             /\ UNCHANGED <<main, blocked, active, published, sess, queue, conn, call, disc, client,
                            isConnected, subscription, root, widgets>>
  BY <1>4 DEF DisconnectWaited, Leave, Left
<1>5. QED
  BY <1>1, <1>2, <1>3, <1>4 DEF HelperSteps, ConnectAnswered

LEMMA HelperTypes ==
  ASSUME GuiTypes, active' = active, HelperSteps
  PROVE  GuiTypes'
<1> USE DEF widgets
<1>1. UNCHANGED <<main, blocked, published, sess, queue, conn, call, disc, client, isConnected,
                  subscription, root, widgets>>
  BY HelperLeaves
<1>2. tk' = tk \/ \E cb \in {"success", "error", "slots", "disconnected"} : Left(cb)
  BY HelperLeaves
<1>3. CallbackTypes'
  <2>1. ASSUME NEW cb \in {"success", "error", "slots", "disconnected"}, Left(cb)
        PROVE  tk' \in Seq(Callbacks)
    <3>1. [cb |-> cb] \in Callbacks
      BY PlainIsCallback
    <3>2. QED
      BY <2>1, <3>1, AppendProperties DEF Left, GuiTypes, CallbackTypes
  <2>2. tk' \in Seq(Callbacks)
    BY <1>2, <2>1 DEF GuiTypes, CallbackTypes
  <2>3. QED
    BY <1>1, <2>2, SameValues DEF GuiTypes, CallbackTypes
<1>4. helper' \in [Connects -> {"none", "wait", "done"}]
      /\ slotHelper' \in [Connects -> {"none", "read"}] /\ discHelper' \in {"none", "wait"}
      /\ mishap' \in BOOLEAN
  BY DEF HelperSteps, ConnectAnswered, ConnectSucceeds, ConnectFails, SlotsRead, DisconnectWaited,
    helpers, GuiTypes, SimpleTypes
<1>5. SimpleTypes'
  BY <1>1, <1>4 DEF GuiTypes, SimpleTypes
<1>6. QED
  BY <1>1, <1>3, <1>5, CallbacksKeepTypes DEF GuiTypes, ConnTypes, CallTypes

\* The callbacks.
LEMMA UpdateTypes ==
  ASSUME GuiTypes, active' = active, NEW v \in ToSet(Vars), NEW value \in Values(v), Update(v, value)
  PROVE  MatrixTypes' /\ label' \in {"Disconnected", "Connecting", "Failed", "Connected", "Offline"}
         /\ check' \in BOOLEAN
<1>1. MatrixTypes'
  <2>1. CASE v \in ArrayVars
    <3>1. matrix' = [matrix EXCEPT !.shown[v] = Filled(value, matrix.shown[v])]
      BY <2>1 DEF Update
    <3>2. Filled(value, matrix.shown[v]) \in [1 .. NumModules(matrix.slots) -> BOOLEAN]
      BY <2>1 DEF Filled, Values, GuiTypes, MatrixTypes
    <3>3. /\ matrix'.slots = matrix.slots
          /\ matrix'.shown = [matrix.shown EXCEPT ![v] = Filled(value, matrix.shown[v])]
          /\ matrix' = [slots |-> matrix'.slots, shown |-> matrix'.shown]
      BY <3>1 DEF GuiTypes, MatrixTypes
    <3>4. matrix'.shown \in [ArrayVars -> [1 .. NumModules(matrix.slots) -> BOOLEAN]]
      BY <2>1, <3>2, <3>3 DEF GuiTypes, MatrixTypes
    <3>5. QED
      BY <3>3, <3>4 DEF GuiTypes, MatrixTypes
  <2>2. CASE v \notin ArrayVars
    BY <2>2 DEF Update, GuiTypes, MatrixTypes
  <2>3. QED
    BY <2>1, <2>2
<1>2. check' \in BOOLEAN
  BY TheVars DEF Update, Values, GuiTypes, SimpleTypes
<1>3. QED
  BY <1>1, <1>2 DEF Update, GuiTypes, SimpleTypes

LEMMA NewMatrixTypes ==
  ASSUME NEW slots
  PROVE  /\ NewMatrix(slots).slots = slots
         /\ NewMatrix(slots) = [slots |-> NewMatrix(slots).slots, shown |-> NewMatrix(slots).shown]
         /\ NewMatrix(slots).shown \in [ArrayVars -> [1 .. NumModules(slots) -> BOOLEAN]]
  BY DEF NewMatrix

\* The callbacks one by one, and the rest that none of them touches.
Runs(cb) ==
  /\ main = "loop" /\ tk # <<>> /\ tk' = Tail(tk) /\ Head(tk).cb = cb
  /\ UNCHANGED <<bridge, sessions, conn, fields, disc, call, blocked, helper, discHelper, main, mishap>>

LEMMA RunCases ==
  ASSUME RunCallback
  PROVE  \/ Runs("update") /\ Update(Head(tk).var, Head(tk).value)
         \/ Runs("success") /\ ConnectionSuccess
         \/ Runs("slots") /\ SlotConfiguration
         \/ /\ Runs("error") /\ label' = "Failed"
            /\ UNCHANGED <<canConnect, matrix, check, fresh, slotHelper>>
         \/ /\ Runs("disconnected") /\ canConnect' = TRUE /\ label' = "Disconnected"
            /\ UNCHANGED <<matrix, check, fresh, slotHelper>>
  BY Zenon DEF RunCallback, Runs

LEMMA RunTypes ==
  ASSUME GuiTypes, active' = active, RunCallback
  PROVE  GuiTypes'
<1> USE DEF bridge, sessions, fields, helpers, widgets
<1>1. Head(tk) \in Callbacks /\ Tail(tk) \in Seq(Callbacks)
  BY HeadTailProperties DEF RunCallback, GuiTypes, CallbackTypes
<1>2. UNCHANGED <<published, queue, conn, call>> /\ tk' = Tail(tk)
  BY DEF RunCallback
<1>3. CallbackTypes'
  BY <1>1, <1>2, SameValues DEF GuiTypes, CallbackTypes
<1>4. PublishedTypes' /\ ConnTypes' /\ CallTypes'
  BY <1>2, SamePublished DEF GuiTypes, ConnTypes, CallTypes
<1>5. UNCHANGED <<sess, client, subscription, root, isConnected, disc, blocked, helper, discHelper, main,
                  mishap>>
  BY DEF RunCallback
<1>6. /\ MatrixTypes' /\ canConnect' \in BOOLEAN /\ check' \in BOOLEAN
      /\ slotHelper' \in [Connects -> {"none", "read"}]
      /\ label' \in {"Disconnected", "Connecting", "Failed", "Connected", "Offline"}
  <2>1. CASE Runs("update") /\ Update(Head(tk).var, Head(tk).value)
    <3>1. Head(tk).var \in ToSet(Vars) /\ Head(tk).value \in Values(Head(tk).var)
      BY <1>1, <2>1, CallbackCases DEF Runs
    <3>2. UNCHANGED <<canConnect, slotHelper>>
      BY <2>1 DEF Update
    <3>3. QED
      BY <2>1, <3>1, <3>2, UpdateTypes DEF GuiTypes, SimpleTypes
  <2>2. CASE ConnectionSuccess
    BY <2>2 DEF ConnectionSuccess, GuiTypes, SimpleTypes, MatrixTypes
  <2>3. CASE SlotConfiguration
    <3>1. matrix' = matrix \/ matrix' = NewMatrix(active)
      BY <2>3 DEF SlotConfiguration
    <3>2. MatrixTypes'
      BY <3>1, NewMatrixTypes DEF GuiTypes, MatrixTypes
    <3>3. QED
      BY <2>3, <3>2 DEF SlotConfiguration, GuiTypes, SimpleTypes
  <2>4. CASE label' = "Failed" /\ UNCHANGED <<canConnect, matrix, check, fresh, slotHelper>>
    BY <2>4 DEF GuiTypes, SimpleTypes, MatrixTypes
  <2>5. CASE /\ canConnect' = TRUE /\ label' = "Disconnected"
             /\ UNCHANGED <<matrix, check, fresh, slotHelper>>
    BY <2>5 DEF GuiTypes, SimpleTypes, MatrixTypes
  <2>6. QED
    BY <2>1, <2>2, <2>3, <2>4, <2>5, RunCases
<1>7. SimpleTypes'
  BY <1>5, <1>6 DEF GuiTypes, SimpleTypes
<1>8. QED
  BY <1>3, <1>4, <1>6, <1>7 DEF GuiTypes


\* The operator.
LEMMA ClickConnectTypes ==
  ASSUME GuiTypes, active' = active, NEW k \in Connects, ClickConnect(k)
  PROVE  GuiTypes'
<1>1. k \in Sessions
  BY GuiAssumption DEF Connects, Sessions
<1>2. ConnTypes'
  BY EmptySeq DEF ClickConnect, GuiTypes, ConnTypes
<1>3. SimpleTypes'
  BY <1>1 DEF ClickConnect, sessions, GuiTypes, SimpleTypes
<1>4. UNCHANGED <<published, queue, tk, matrix, call>>
  BY DEF ClickConnect, sessions
<1>5. QED
  BY <1>2, <1>3, <1>4, FieldsKeepTypes DEF GuiTypes, CallTypes

LEMMA ClickDisconnectTypes ==
  ASSUME GuiTypes, active' = active, ClickDisconnect
  PROVE  GuiTypes'
<1> USE DEF bridge, sessions, fields, helpers, widgets
<1>1. SimpleTypes'
  BY DEF ClickDisconnect, GuiTypes, SimpleTypes
<1>2. UNCHANGED <<published, queue, tk, matrix, call, conn>>
  BY DEF ClickDisconnect
<1>3. QED
  BY <1>1, <1>2, FieldsKeepTypes DEF GuiTypes, CallTypes, ConnTypes

LEMMA CallsTypes ==
  ASSUME GuiTypes, active' = active, NEW c \in Clicks, NEW var \in ToSet(Vars), NEW module,
         NEW value \in BOOLEAN, NEW at, Calls(c, var, module, value, at), check' \in BOOLEAN
  PROVE  GuiTypes'
<1> USE DEF bridge, sessions, fields, helpers
<1>1. SimpleTypes'
  BY DEF Calls, GuiTypes, SimpleTypes
<1>2. CallTypes'
  <2> DEFINE new == [pc |-> "start", var |-> var, module |-> module, value |-> value, at |-> at]
  <2>1. call' = [call EXCEPT ![c] = new]
    BY DEF Calls
  <2>2. new.pc = "start" /\ new.var = var /\ new.value = value
    OBVIOUS
  <2> HIDE DEF new
  <2>3. QED
    BY <2>1, <2>2 DEF GuiTypes, CallTypes
<1>3. UNCHANGED <<published, queue, tk, matrix, conn>>
  BY DEF Calls
<1>4. QED
  BY <1>1, <1>2, <1>3, FieldsKeepTypes DEF GuiTypes, ConnTypes

LEMMA ClickTypes ==
  ASSUME GuiTypes, active' = active, NEW c \in Clicks, ClickModule(c) \/ ClickCheck(c)
  PROVE  GuiTypes'
<1>1. CASE ClickModule(c)
  <2>1. PICK i \in 1 .. NumModules(matrix.slots), v \in Toggles :
          LET at == ModuleToSlotChannel(matrix.slots, i) IN
            Calls(c, v, ModuleIdx(at[1], at[2]), ~matrix.shown[v][i], at)
    BY <1>1 DEF ClickModule
  <2>2. v \in ToSet(Vars)
    BY TheVars DEF Toggles
  <2>3. check' \in BOOLEAN
    BY <1>1 DEF ClickModule, GuiTypes, SimpleTypes
  <2>4. QED
    BY <2>1, <2>2, <2>3, CallsTypes
<1>2. CASE ClickCheck(c)
  <2>1. Calls(c, "CrateMCFEnabled", 0, ~check, None) /\ check' \in BOOLEAN
    BY <1>2 DEF ClickCheck
  <2>2. QED
    BY <2>1, TheVars, CallsTypes
<1>3. QED
  BY <1>1, <1>2

LEMMA NothingTypes ==
  ASSUME GuiTypes, active' = active, NothingYet, UNCHANGED published,
         main' \in {"loop", "closing", "gone"},
         sess' \in [Sessions -> {"none", "open", "subscribed", "closed"}],
         queue' = [k \in Sessions |-> <<>>]
  PROVE  GuiTypes'
<1>1. 0 \in Sessions
  BY GuiAssumption DEF Sessions
<1>2. SimpleTypes'
  BY <1>1 DEF NothingYet, NoDisconnects, NoHelpers, SimpleTypes
<1>3. ConnTypes'
  BY EmptySeq DEF NothingYet, NoConnects, ConnTypes
<1>4. CallTypes'
  BY DEF NothingYet, NoCalls, CallTypes
<1>5. CallbackTypes'
  BY EmptySeq DEF NothingYet, CallbackTypes
<1>6. MatrixTypes'
  BY NewMatrixTypes DEF NothingYet, MatrixTypes
<1>7. QED
  BY <1>2, <1>3, <1>4, <1>5, <1>6, SamePublished DEF GuiTypes

LEMMA CloseTypes ==
  ASSUME GuiTypes, active' = active, CloseWindow \/ CloseWaited
  PROVE  GuiTypes'
<1> USE DEF bridge, sessions, fields, helpers, widgets
<1>1. CASE Exit
  <2>1. sess' \in [Sessions -> {"none", "open", "subscribed", "closed"}]
    BY <1>1 DEF Exit
  <2>2. QED
    BY <1>1, <2>1, NothingTypes DEF Exit
<1>2. CASE CloseWindow /\ ~Exit
  <2>1. SimpleTypes'
    BY <1>2 DEF CloseWindow, GuiTypes, SimpleTypes
  <2>2. UNCHANGED <<published, queue, tk, matrix, call, conn>>
    BY <1>2 DEF CloseWindow
  <2>3. QED
    BY <2>1, <2>2, FieldsKeepTypes DEF GuiTypes, CallTypes, ConnTypes
<1>3. QED
  BY <1>1, <1>2 DEF CloseWaited

LEMMA TypesInitially == GuiInit => GuiTypes
<1> SUFFICES ASSUME GuiInit PROVE GuiTypes
  OBVIOUS
<1>1. 0 \in Sessions
  BY GuiAssumption DEF Sessions
<1>2. SimpleTypes
  BY <1>1 DEF GuiInit, NoDisconnects, NoHelpers, SimpleTypes
<1>3. ConnTypes
  BY EmptySeq DEF GuiInit, NoConnects, ConnTypes
<1>4. CallTypes
  BY DEF GuiInit, NoCalls, CallTypes
<1>5. CallbackTypes
  BY EmptySeq DEF GuiInit, CallbackTypes
<1>6. MatrixTypes
  BY NewMatrixTypes DEF GuiInit, MatrixTypes
<1>7. PublishedTypes
  BY DEF GuiInit, PublishedTypes, Values
<1>8. QED
  BY <1>2, <1>3, <1>4, <1>5, <1>6, <1>7 DEF GuiTypes

LEMMA StutterTypes ==
  ASSUME GuiTypes, UNCHANGED guiVars
  PROVE  GuiTypes'
<1> USE DEF guiVars, bridge, sessions, fields, helpers, widgets
<1>1. active' = active
  OBVIOUS
<1>2. SimpleTypes' /\ ConnTypes' /\ CallTypes'
  BY DEF GuiTypes, SimpleTypes, ConnTypes, CallTypes
<1>3. QED
  BY <1>1, <1>2, FieldsKeepTypes

LEMMA TypesKept ==
  ASSUME GuiTypes, GuiNext \/ UNCHANGED guiVars
  PROVE  GuiTypes'
<1>1. active' = active
  BY ActiveStays
<1>2. CASE UNCHANGED guiVars
  BY <1>2, StutterTypes
<1>3. ASSUME NEW k \in Connects, Connection(k) \/ Deliver(k) \/ ClickConnect(k) PROVE GuiTypes'
  BY <1>1, <1>3, ConnectionTypes, SubscribeTypes, ReadTypes, DeliverTypes, ClickConnectTypes DEF Connection
<1>4. ASSUME NEW d \in DOMAIN disc, DeleteSubscription(d) \/ Disconnects(d) PROVE GuiTypes'
  BY <1>1, <1>4, DisconnectTypes DEF GuiTypes, SimpleTypes
<1>5. ASSUME NEW c \in Clicks, CallMethod(c) \/ ClickModule(c) \/ ClickCheck(c) PROVE GuiTypes'
  BY <1>1, <1>5, CallMethodTypes, ClickTypes
<1>6. CASE HelperSteps \/ RunCallback
  BY <1>1, <1>6, HelperTypes, RunTypes
<1>7. CASE CloseWaited \/ CloseWindow \/ ClickDisconnect \/ BridgePublishes
  BY <1>1, <1>7, CloseTypes, ClickDisconnectTypes, BridgePublishesTypes
<1>8. QED
  BY <1>2, <1>3, <1>4, <1>5, <1>6, <1>7 DEF GuiNext, Operator

LEMMA TypesImply == GuiTypes => GuiTypeOK
<1> SUFFICES ASSUME GuiTypes PROVE GuiTypeOK
  OBVIOUS
<1>1. \A k \in Sessions : \A i \in DOMAIN queue[k] : queue[k][i] \in Callbacks
  BY LenProperties, ElementOfSeq, UpdateCases DEF GuiTypes, CallbackTypes
<1>2. \A i \in DOMAIN tk : tk[i] \in Callbacks
  BY LenProperties, ElementOfSeq DEF GuiTypes, CallbackTypes
<1>3. DOMAIN matrix.shown = ArrayVars
  BY DEF GuiTypes, MatrixTypes
<1>4. QED
  BY <1>1, <1>2, <1>3 DEF GuiTypes, SimpleTypes, ConnTypes, CallTypes, GuiTypeOK

\* Every callback carries a value of its variable for the modules there are, and the
\* threads, the sessions and the widgets are in the states the code has for them.
THEOREM GuiTypesAlways == GuiSpec => []GuiTypeOK
<1>1. GuiInit => GuiTypes
  BY TypesInitially
<1>2. GuiTypes /\ [GuiNext]_guiVars => GuiTypes'
  BY TypesKept
<1>3. GuiTypes => GuiTypeOK
  BY TypesImply
<1>4. QED
  BY <1>1, <1>2, <1>3, PTL DEF GuiSpec


-----------------------------------------------------------------------------
(* The life of a connection: what is under way, and for whom *)

Has(s, cb) == \E i \in DOMAIN s : s[i].cb = cb
Unique(s, cb) == \A i, j \in DOMAIN s : s[i].cb = cb /\ s[j].cb = cb => i = j
NoUpdateAfterDisconnected(s) ==
  \A i, j \in DOMAIN s : s[i].cb = "disconnected" /\ j > i => s[j].cb # "update"

\* Always, while the main thread is in its loop.
Base ==
  /\ blocked = FALSE /\ disc["close"] = "none"
  /\ sess[0] = "none"
  /\ client # 0 => conn[client].pc # "none"
  /\ \A j, k \in Connects : j < k /\ conn[k].pc # "none" => conn[j].pc # "none"
  /\ \A k \in Connects : conn[k].pc = "none" => helper[k] = "none" /\ sess[k] = "none"
  /\ \A k \in Connects : conn[k].pc # "none" => helper[k] # "none"
  /\ (\A k \in Connects : conn[k].pc = "none") =>
       mishap = FALSE /\ canConnect = TRUE /\ discHelper = "none"
  /\ Unique(tk, "disconnected")
  /\ discHelper = "wait" => ~Has(tk, "disconnected")

\* No connection has failed or met another one, or none may begin before the last
\* one is over: the client's session is the only one.
Regular == mishap = FALSE \/ Overlap = FALSE

ClientUp == client # 0 => conn[client].pc = "up"

Orderly ==
  /\ \A k \in Sessions \ {client} : ~Alive(k)
  /\ \A k \in Connects \ {client} : conn[k].pc \in {"none", "up", "failed"}
  /\ client # 0 => sess[client] # "closed"
  /\ client # 0 /\ conn[client].pc \in {"browse", "subscribe", "read", "up"} => Alive(client)
  /\ disc["button"] \in {"delete", "close"} => ClientUp
  /\ canConnect = FALSE \/ isConnected = TRUE \/ Has(tk, "success") => ClientUp
  /\ \A k \in Connects : helper[k] = "wait" => client \in {0, k}

\* As long as no connect or disconnect has failed or met another one.
Calm ==
  /\ ~Has(tk, "error")
  /\ \A k \in Connects : helper[k] = "done" => conn[k].pc = "up"
  /\ \A k \in Connects :
       helper[k] = "wait" => client = k /\ canConnect = TRUE /\ ~Has(tk, "success")
  /\ canConnect = TRUE => /\ discHelper = "none" /\ ~Has(tk, "disconnected")
                          /\ disc["button"] \in {"none", "done"}
  /\ discHelper = "wait" /\ disc["button"] = "done" => client = 0
  /\ Has(tk, "disconnected") => client = 0 /\ disc["button"] = "done"
  /\ isConnected = TRUE => client # 0
  /\ Has(tk, "success") => canConnect = TRUE /\ client # 0
  /\ Unique(tk, "success")
  /\ NoUpdateAfterDisconnected(tk)
  /\ label = "Disconnected" => client = 0 /\ ~Has(tk, "update")

Phase ==
  main = "loop" => Base /\ (Regular => Orderly) /\ (mishap = FALSE => Calm)

\* When the window is closed.
Ending ==
  /\ main = "closing" => mishap = TRUE \/ label # "Disconnected"
  /\ main = "gone" => tk = <<>> /\ blocked = FALSE /\ \A k \in Sessions : ~Alive(k)

\* Callbacks join at the end and leave at the front.
LEMMA Joins ==
  ASSUME NEW S, NEW s \in Seq(S), NEW e \in S
  PROVE  /\ \A cb : Has(Append(s, e), cb) <=> Has(s, cb) \/ e.cb = cb
         /\ \A cb : Unique(s, cb) /\ (e.cb # cb \/ ~Has(s, cb)) => Unique(Append(s, e), cb)
         /\ NoUpdateAfterDisconnected(s) /\ (e.cb # "update" \/ ~Has(s, "disconnected"))
              => NoUpdateAfterDisconnected(Append(s, e))
<1> DEFINE n == Len(s)
           t == Append(s, e)
<1>1. /\ n \in Nat /\ DOMAIN s = 1 .. n
      /\ t \in Seq(S) /\ Len(t) = n + 1 /\ DOMAIN t = 1 .. n + 1
      /\ \A i \in 1 .. n : t[i] = s[i]
      /\ t[n + 1] = e
  BY AppendProperties, LenProperties
<1> HIDE DEF t, n
<1>2. \A i \in DOMAIN t : (i \in DOMAIN s /\ t[i] = s[i]) \/ i = n + 1
  BY <1>1
<1>3. DOMAIN s \subseteq DOMAIN t /\ n + 1 \in DOMAIN t /\ n + 1 \notin DOMAIN s
      /\ (\A i \in DOMAIN s : i < n + 1 /\ i \in Nat)
  BY <1>1
<1>4. \A cb : Has(t, cb) <=> Has(s, cb) \/ e.cb = cb
  BY <1>1, <1>2, <1>3 DEF Has
<1>5. ASSUME NEW cb, Unique(s, cb), e.cb # cb \/ ~Has(s, cb)
      PROVE  Unique(t, cb)
  BY <1>1, <1>2, <1>3, <1>5 DEF Has, Unique
<1>6. ASSUME NoUpdateAfterDisconnected(s), e.cb # "update" \/ ~Has(s, "disconnected")
      PROVE  NoUpdateAfterDisconnected(t)
  <2> SUFFICES ASSUME NEW i \in DOMAIN t, NEW j \in DOMAIN t, t[i].cb = "disconnected", j > i
               PROVE  t[j].cb # "update"
    BY DEF NoUpdateAfterDisconnected
  <2>1. i \in DOMAIN s /\ t[i] = s[i]
    BY <1>1, <1>2
  <2>2. CASE j \in DOMAIN s
    BY <1>6, <1>1, <2>1, <2>2 DEF NoUpdateAfterDisconnected
  <2>3. CASE j = n + 1
    BY <1>6, <1>1, <2>1, <2>3 DEF Has
  <2>4. QED
    BY <1>2, <2>2, <2>3
<1>7. QED
  BY <1>4, <1>5, <1>6 DEF t

LEMMA Goes ==
  ASSUME NEW S, NEW s \in Seq(S), s # <<>>
  PROVE  /\ \A cb : Has(s, cb) <=> Has(Tail(s), cb) \/ Head(s).cb = cb
         /\ \A cb : Unique(s, cb) =>
              Unique(Tail(s), cb) /\ (Head(s).cb = cb => ~Has(Tail(s), cb))
         /\ NoUpdateAfterDisconnected(s) =>
              /\ NoUpdateAfterDisconnected(Tail(s))
              /\ Head(s).cb = "disconnected" => ~Has(Tail(s), "update")
<1> DEFINE n == Len(s)
           t == Tail(s)
<1>1. /\ n \in Nat \ {0} /\ DOMAIN s = 1 .. n
      /\ t \in Seq(S) /\ Len(t) = n - 1 /\ DOMAIN t = 1 .. n - 1
      /\ \A i \in 1 .. n - 1 : t[i] = s[i + 1]
      /\ Head(s) = s[1]
  BY EmptySeq, HeadTailProperties, LenProperties
<1> HIDE DEF t, n
<1>2. \A i \in DOMAIN t : i + 1 \in DOMAIN s /\ i + 1 > 1 /\ t[i] = s[i + 1] /\ i \in Nat
  BY <1>1
<1>3. \A i \in DOMAIN s : i = 1 \/ (i - 1 \in DOMAIN t /\ t[i - 1] = s[i])
  BY <1>1
<1>4. 1 \in DOMAIN s
  BY <1>1
<1>5. \A cb : Has(s, cb) <=> Has(t, cb) \/ Head(s).cb = cb
  BY <1>1, <1>2, <1>3, <1>4 DEF Has
<1>6. ASSUME NEW cb, Unique(s, cb)
      PROVE  Unique(t, cb) /\ (Head(s).cb = cb => ~Has(t, cb))
  <2>1. Unique(t, cb)
    <3> SUFFICES ASSUME NEW i \in DOMAIN t, NEW j \in DOMAIN t, t[i].cb = cb, t[j].cb = cb
                 PROVE  i = j
      BY DEF Unique
    <3>1. i + 1 = j + 1
      BY <1>2, <1>6 DEF Unique
    <3>2. QED
      BY <1>2, <3>1
  <2>2. ASSUME Head(s).cb = cb, NEW i \in DOMAIN t, t[i].cb = cb PROVE FALSE
    <3>1. i + 1 = 1
      BY <1>1, <1>2, <1>4, <1>6, <2>2 DEF Unique
    <3>2. QED
      BY <1>2, <3>1
  <2>3. QED
    BY <2>1, <2>2 DEF Has
<1>7. ASSUME NoUpdateAfterDisconnected(s)
      PROVE  /\ NoUpdateAfterDisconnected(t)
             /\ Head(s).cb = "disconnected" => ~Has(t, "update")
  <2>1. NoUpdateAfterDisconnected(t)
    <3> SUFFICES ASSUME NEW i \in DOMAIN t, NEW j \in DOMAIN t, t[i].cb = "disconnected", j > i
                 PROVE  t[j].cb # "update"
      BY DEF NoUpdateAfterDisconnected
    <3>1. j + 1 > i + 1
      BY <1>2
    <3>2. QED
      BY <1>2, <1>7, <3>1 DEF NoUpdateAfterDisconnected
  <2>2. ASSUME Head(s).cb = "disconnected", NEW i \in DOMAIN t PROVE t[i].cb # "update"
    BY <1>1, <1>2, <1>4, <1>7, <2>2 DEF NoUpdateAfterDisconnected
  <2>3. QED
    BY <2>1, <2>2 DEF Has
<1>8. QED
  BY <1>5, <1>6, <1>7 DEF t


\* Steps that leave the connections and the callbacks alone.
Observed == <<main, blocked, disc, sess, client, conn, helper, tk, discHelper, canConnect,
              isConnected, mishap, label>>

LEMMA SamePhase ==
  ASSUME Phase, UNCHANGED Observed
  PROVE  Phase'
<1> USE DEF Observed
<1>1. Base => Base'
  BY DEF Base
<1>2. Orderly => Orderly'
  BY DEF Orderly, ClientUp, Alive
<1>3. Calm => Calm'
  BY DEF Calm
<1>4. QED
  BY <1>1, <1>2, <1>3 DEF Phase, Regular

\* The callbacks stay, and so do the button and the label: the steps of the coroutines
\* that do not post.
Posted == <<main, blocked, helper, tk, discHelper, canConnect, mishap, label>>

LEMMA ClientConnectsPhase ==
  ASSUME GuiTypes, Phase, NEW k \in Connects, ClientConnects(k)
  PROVE  Phase'
<1> USE DEF bridge, sessions, fields, helpers, widgets
<1>1. /\ UNCHANGED Posted /\ UNCHANGED <<client, isConnected, disc>>
      /\ conn[k].pc = "open" /\ sess' = [sess EXCEPT ![k] = "open"]
      /\ conn' = [conn EXCEPT ![k].pc = "browse"]
  BY DEF ClientConnects, ConnectAt, ConnectTo, Posted
<1>2. k \in Sessions /\ k # 0 /\ \A j \in Connects : j \in Sessions
  BY GuiAssumption DEF Connects, Sessions
<1>3. /\ \A j \in Connects : conn'[j].pc = IF j = k THEN "browse" ELSE conn[j].pc
      /\ \A j \in Sessions : sess'[j] = IF j = k THEN "open" ELSE sess[j]
  BY <1>1, <1>2 DEF GuiTypes, ConnTypes, SimpleTypes
<1>4. client \in Sessions /\ 0 \in Sessions /\ (client # 0 => client \in Connects)
  BY GuiAssumption DEF GuiTypes, SimpleTypes, Sessions, Connects
<1>5. Base => Base'
  BY <1>1, <1>2, <1>3, <1>4 DEF Base, Posted
<1>6. Orderly => Orderly'
  BY <1>1, <1>2, <1>3, <1>4 DEF Orderly, ClientUp, Alive, Posted
<1>7. Orderly /\ Calm => Calm'
  BY <1>1, <1>2, <1>3, <1>4 DEF Orderly, Calm, Posted
<1>8. QED
  BY <1>1, <1>5, <1>6, <1>7 DEF Phase, Regular, Posted

LEMMA BrowsePhase ==
  ASSUME GuiTypes, Phase, NEW k \in Connects, Browse(k)
  PROVE  Phase'
<1> USE DEF bridge, sessions, fields, helpers, widgets
<1>1. /\ UNCHANGED Posted /\ UNCHANGED <<client, isConnected, disc, sess>>
      /\ conn[k].pc = "browse" /\ Alive(client)
      /\ conn' = [conn EXCEPT ![k].pc = "subscribe"]
  BY DEF Browse, ConnectAt, ConnectTo, Posted
<1>2. \A j \in Connects : conn'[j].pc = IF j = k THEN "subscribe" ELSE conn[j].pc
  BY <1>1 DEF GuiTypes, ConnTypes
<1>3. client # 0 => client \in Connects
  BY GuiAssumption DEF GuiTypes, SimpleTypes, Sessions, Connects
<1>4. Base => Base'
  BY <1>1, <1>2, <1>3 DEF Base, Posted
<1>5. Orderly => Orderly'
  BY <1>1, <1>2, <1>3 DEF Orderly, ClientUp, Alive, Posted
<1>6. Orderly /\ Calm => Calm'
  BY <1>1, <1>2, <1>3 DEF Orderly, Calm, Posted
<1>7. QED
  BY <1>1, <1>4, <1>5, <1>6 DEF Phase, Regular, Posted

LEMMA SubscribePhase ==
  ASSUME GuiTypes, Phase, NEW k \in Connects, Subscribe(k)
  PROVE  Phase'
<1> USE DEF bridge, sessions, fields, helpers, widgets
<1>1. /\ UNCHANGED Posted /\ UNCHANGED <<client, isConnected, disc>>
      /\ conn[k].pc = "subscribe" /\ Alive(subscription)
      /\ sess' = [sess EXCEPT ![subscription] = "subscribed"]
      /\ conn' = [conn EXCEPT ![k] = [pc |-> "read", todo |-> Vars]]
  BY DEF Subscribe, ConnectAt, Posted
<1>2. subscription \in Sessions /\ \A j \in Connects : j \in Sessions
  BY GuiAssumption DEF Connects, Sessions, GuiTypes, SimpleTypes
<1>3. /\ \A j \in Connects : conn'[j].pc = IF j = k THEN "read" ELSE conn[j].pc
      /\ \A j \in Sessions : sess'[j] = IF j = subscription THEN "subscribed" ELSE sess[j]
  BY <1>1, <1>2 DEF GuiTypes, ConnTypes, SimpleTypes
<1>4. client \in Sessions /\ 0 \in Sessions /\ (client # 0 => client \in Connects)
  BY GuiAssumption DEF GuiTypes, SimpleTypes, Sessions, Connects
<1>5. Base => Base'
  BY <1>1, <1>2, <1>3, <1>4 DEF Base, Alive, Posted
<1>6. Orderly => Orderly'
  BY <1>1, <1>2, <1>3, <1>4 DEF Orderly, ClientUp, Alive, Posted
<1>7. Orderly /\ Calm => Calm'
  BY <1>1, <1>2, <1>3, <1>4 DEF Orderly, Calm, Posted
<1>8. QED
  BY <1>1, <1>5, <1>6, <1>7 DEF Phase, Regular, Posted

\* A connection that is under way is the client's.
LEMMA UnderWayIsClient ==
  ASSUME Orderly, NEW k \in Connects, conn[k].pc \notin {"none", "up", "failed"}
  PROVE  k = client /\ client # 0 /\ ~ClientUp
<1>1. k # 0
  BY GuiAssumption DEF Connects
<1>2. QED
  BY <1>1 DEF Orderly, ClientUp

LEMMA ReadAllPhase ==
  ASSUME GuiTypes, Phase, NEW k \in Connects, ReadAll(k)
  PROVE  Phase'
<1> USE DEF bridge, sessions, fields, helpers, widgets
<1>1. /\ UNCHANGED Posted /\ UNCHANGED <<client, disc, sess>> /\ isConnected' = TRUE
      /\ conn[k].pc = "read"
      /\ conn' = [conn EXCEPT ![k].pc = "up"]
  BY DEF ReadAll, ConnectAt, ConnectTo, Posted
<1>2. \A j \in Connects : conn'[j].pc = IF j = k THEN "up" ELSE conn[j].pc
  BY <1>1 DEF GuiTypes, ConnTypes
<1>3. client # 0 => client \in Connects
  BY GuiAssumption DEF GuiTypes, SimpleTypes, Sessions, Connects
<1>4. Base => Base'
  BY <1>1, <1>2, <1>3 DEF Base, Posted
<1>5. Orderly => k = client /\ client # 0
  BY <1>1, UnderWayIsClient
<1>6. Orderly => Orderly'
  BY <1>1, <1>2, <1>3, <1>5 DEF Orderly, ClientUp, Alive, Posted
<1>7. Orderly /\ Calm => Calm'
  BY <1>1, <1>2, <1>3, <1>5 DEF Calm, Posted
<1>8. QED
  BY <1>1, <1>4, <1>6, <1>7 DEF Phase, Regular, Posted

LEMMA ConnectRaisesPhase ==
  ASSUME GuiTypes, Phase, NEW k \in Connects, ConnectRaises(k)
  PROVE  Phase'
<1> USE DEF bridge, sessions, fields, helpers, widgets
<1>1. /\ UNCHANGED Posted /\ UNCHANGED <<client, disc, sess, isConnected>>
      /\ conn[k].pc \in {"open", "browse", "subscribe", "read"}
      /\ conn' = [conn EXCEPT ![k] = [pc |-> "failed", todo |-> <<>>]]
  BY DEF ConnectRaises, Posted
<1>2. \A j \in Connects : conn'[j].pc = IF j = k THEN "failed" ELSE conn[j].pc
  BY <1>1 DEF GuiTypes, ConnTypes
<1>3. client # 0 => client \in Connects
  BY GuiAssumption DEF GuiTypes, SimpleTypes, Sessions, Connects
<1>4. Base => Base'
  BY <1>1, <1>2, <1>3 DEF Base, Posted
<1>5. Orderly => k = client /\ client # 0 /\ ~ClientUp
  BY <1>1, UnderWayIsClient
<1>6. Orderly => Orderly'
  BY <1>1, <1>2, <1>3, <1>5 DEF Orderly, ClientUp, Alive, Posted
<1>7. Orderly /\ Calm => Calm'
  BY <1>1, <1>2, <1>3, <1>5 DEF Calm, Posted
<1>8. QED
  BY <1>1, <1>4, <1>6, <1>7 DEF Phase, Regular, Posted


\* An update that is left for the main thread, by the client's connection or session.
LEMMA PostsPhase ==
  ASSUME GuiTypes, Phase, NEW v \in ToSet(Vars), NEW value \in Values(v), Posts(UpdateOf(v, value)),
         UNCHANGED <<main, disc, sess, client, helper, discHelper, canConnect, isConnected, mishap,
                     label>>,
         \A k \in Connects : conn'[k].pc = conn[k].pc,
         Base /\ Orderly => client # 0
  PROVE  Phase'
<1> DEFINE c == UpdateOf(v, value)
<1>1. c \in Callbacks /\ c.cb = "update" /\ tk \in Seq(Callbacks)
  BY UpdateIsCallback DEF UpdateOf, GuiTypes, CallbackTypes
<1>2. CASE main # "loop"
  BY <1>2 DEF Phase
<1>3. CASE main = "loop"
  <2>1. tk' = Append(tk, c) /\ UNCHANGED blocked
    BY <1>3 DEF Posts
  <2>2. /\ \A cb : Has(tk', cb) <=> Has(tk, cb) \/ cb = "update"
        /\ \A cb : cb # "update" /\ Unique(tk, cb) => Unique(tk', cb)
        /\ NoUpdateAfterDisconnected(tk) /\ ~Has(tk, "disconnected") => NoUpdateAfterDisconnected(tk')
    BY <1>1, <2>1, Joins
  <2> HIDE DEF c
  <2>3. client # 0 => client \in Connects
    BY GuiAssumption DEF GuiTypes, SimpleTypes, Sessions, Connects
  <2>4. Base => Base'
    BY <2>1, <2>2, <2>3 DEF Base
  <2>5. Orderly => Orderly'
    BY <2>1, <2>2, <2>3 DEF Orderly, ClientUp, Alive
  <2>6. Base /\ Orderly /\ Calm => Calm'
    BY <2>1, <2>2 DEF Calm
  <2>7. QED
    BY <1>3, <2>4, <2>5, <2>6 DEF Phase, Regular
<1>4. QED
  BY <1>2, <1>3

LEMMA ReadPhase ==
  ASSUME GuiTypes, Phase, NEW k \in Connects, Read(k)
  PROVE  Phase'
<1> USE DEF bridge, sessions, fields, helpers, widgets
<1> DEFINE v == Head(conn[k].todo)
<1>1. /\ conn[k].pc = "read"
      /\ Posts(UpdateOf(v, published[v])) \/ UNCHANGED <<tk, blocked>>
      /\ UNCHANGED <<main, disc, sess, client, helper, discHelper, canConnect, isConnected, mishap,
                     label>>
      /\ conn' = [conn EXCEPT ![k].todo = Tail(@)]
  BY DEF Read, ConnectAt
<1>2. v \in ToSet(Vars) /\ published[v] \in Values(v)
  BY HeadTailProperties DEF Read, GuiTypes, ConnTypes, PublishedTypes
<1>3. \A j \in Connects : conn'[j].pc = conn[j].pc
  BY <1>1 DEF GuiTypes, ConnTypes
<1>4. Base /\ Orderly => client # 0
  BY <1>1, UnderWayIsClient
<1>5. CASE Posts(UpdateOf(v, published[v]))
  BY <1>1, <1>2, <1>3, <1>4, <1>5, PostsPhase
<1>6. CASE UNCHANGED <<tk, blocked>>
  <2>1. client # 0 => client \in Connects
    BY GuiAssumption DEF GuiTypes, SimpleTypes, Sessions, Connects
  <2>2. Base => Base'
    BY <1>1, <1>3, <1>6, <2>1 DEF Base
  <2>3. Orderly => Orderly'
    BY <1>1, <1>3, <1>6, <2>1 DEF Orderly, ClientUp, Alive
  <2>4. Calm => Calm'
    BY <1>1, <1>3, <1>6 DEF Calm
  <2>5. QED
    BY <1>1, <2>2, <2>3, <2>4 DEF Phase, Regular
<1>7. QED
  BY <1>1, <1>5, <1>6

\* The session of a notification is the client's.
LEMMA SubscribedIsClient ==
  ASSUME Base, Orderly, NEW k \in Sessions, Alive(k)
  PROVE  k = client /\ client # 0
  BY DEF Base, Orderly, Alive

LEMMA DeliverPhase ==
  ASSUME GuiTypes, Phase, NEW k \in Connects, Deliver(k)
  PROVE  Phase'
<1> USE DEF bridge, sessions, fields, helpers, widgets
<1>1. /\ Posts(Head(queue[k])) /\ queue[k] # <<>>
      /\ UNCHANGED <<main, disc, sess, client, helper, discHelper, canConnect, isConnected, mishap,
                     label, conn>>
  BY DEF Deliver
<1>2. k \in Sessions
  BY GuiAssumption DEF Connects, Sessions
<1> DEFINE c == Head(queue[k])
<1>3. c.var \in ToSet(Vars) /\ c.value \in Values(c.var) /\ c = UpdateOf(c.var, c.value)
  <2>1. Head(queue[k]) \in Updates
    BY <1>1, <1>2, HeadTailProperties DEF GuiTypes, CallbackTypes
  <2>2. QED
    BY <2>1, UpdateCases
<1>4. Base /\ Orderly => client # 0
  BY <1>2, SubscribedIsClient DEF Deliver, Alive
<1>5. QED
  BY <1>1, <1>3, <1>4, PostsPhase


LEMMA DeleteSubscriptionPhase ==
  ASSUME GuiTypes, Phase, NEW d \in {"button", "close"}, DeleteSubscription(d)
  PROVE  Phase'
<1> USE DEF bridge, sessions, fields, helpers, widgets
<1>1. /\ UNCHANGED Posted /\ UNCHANGED <<client, isConnected, conn>>
      /\ disc[d] = "delete" /\ disc' = [disc EXCEPT ![d] = "close"]
  BY DEF DeleteSubscription, Posted
<1>2. \A k \in Sessions : sess'[k] = sess[k] \/ (Alive(k) /\ sess'[k] = "open")
  BY DEF DeleteSubscription, GuiTypes, SimpleTypes, Alive
<1>3. /\ \A e \in {"button", "close"} : disc'[e] = IF e = d THEN "close" ELSE disc[e]
      /\ client \in Sessions /\ 0 \in Sessions /\ (client # 0 => client \in Connects)
      /\ \A k \in Connects : k \in Sessions
  BY <1>1, GuiAssumption DEF GuiTypes, SimpleTypes, Sessions, Connects
<1>4. Base => Base'
  BY <1>1, <1>2, <1>3 DEF Base, Alive, Posted
<1>5. Base /\ Orderly => Orderly'
  BY <1>1, <1>2, <1>3 DEF Base, Orderly, ClientUp, Alive, Posted
<1>6. Base /\ Calm => Calm'
  BY <1>1, <1>2, <1>3 DEF Base, Calm, Posted
<1>7. QED
  BY <1>1, <1>4, <1>5, <1>6 DEF Phase, Regular, Posted

LEMMA DisconnectsPhase ==
  ASSUME GuiTypes, Phase, NEW d \in {"button", "close"}, Disconnects(d)
  PROVE  Phase'
<1> USE DEF bridge, sessions, fields, helpers, widgets
<1>1. /\ UNCHANGED Posted /\ UNCHANGED conn
      /\ sess' = [sess EXCEPT ![client] = IF client = 0 THEN @ ELSE "closed"]
      /\ isConnected' = FALSE /\ client' = 0
      /\ disc[d] = "close" /\ disc' = [disc EXCEPT ![d] = "done"]
  BY DEF Disconnects, Posted
<1>2. /\ \A e \in {"button", "close"} : disc'[e] = IF e = d THEN "done" ELSE disc[e]
      /\ client \in Sessions /\ 0 \in Sessions /\ (client # 0 => client \in Connects)
      /\ \A k \in Connects : k \in Sessions /\ k # 0
  BY <1>1, GuiAssumption DEF GuiTypes, SimpleTypes, Sessions, Connects
<1>3. \A k \in Sessions : sess'[k] = IF k = client /\ client # 0 THEN "closed" ELSE sess[k]
  BY <1>1, <1>2 DEF GuiTypes, SimpleTypes
<1>4. Base => Base' /\ d = "button"
  BY <1>1, <1>2, <1>3 DEF Base, Posted
<1>5. Base /\ Orderly => Orderly'
  BY <1>1, <1>2, <1>3, <1>4 DEF Orderly, ClientUp, Alive, Posted
<1>6. Base /\ Calm => Calm'
  BY <1>1, <1>2, <1>3, <1>4 DEF Calm, Posted
<1>7. QED
  BY <1>1, <1>4, <1>5, <1>6 DEF Phase, Regular, Posted

\* The helper threads.
LEMMA ConnectSucceedsPhase ==
  ASSUME GuiTypes, Phase, NEW k \in Connects, ConnectSucceeds(k), Left("success")
  PROVE  Phase'
<1> USE DEF bridge, sessions, fields, helpers, widgets
<1>1. /\ UNCHANGED <<main, blocked, disc, sess, client, conn, discHelper, canConnect, isConnected, mishap,
                     label>>
      /\ helper[k] = "wait" /\ conn[k].pc = "up" /\ helper' = [helper EXCEPT ![k] = "done"]
  BY DEF ConnectSucceeds
<1>2. \A j \in Connects : helper'[j] = IF j = k THEN "done" ELSE helper[j]
  BY <1>1 DEF GuiTypes, SimpleTypes
<1>3. client # 0 => client \in Connects
  BY GuiAssumption DEF GuiTypes, SimpleTypes, Sessions, Connects
<1>4. k # 0
  BY GuiAssumption DEF Connects
<1> DEFINE c == [cb |-> "success"]
<1>5. c.cb = "success" /\ c \in Callbacks /\ tk \in Seq(Callbacks) /\ tk' = Append(tk, c)
  BY PlainIsCallback DEF Left, GuiTypes, CallbackTypes
<1>6. /\ \A cb : Has(tk', cb) <=> Has(tk, cb) \/ cb = "success"
      /\ Unique(tk, "disconnected") => Unique(tk', "disconnected")
      /\ Unique(tk, "success") /\ ~Has(tk, "success") => Unique(tk', "success")
      /\ NoUpdateAfterDisconnected(tk) => NoUpdateAfterDisconnected(tk')
  BY <1>5, Joins
<1> HIDE DEF c
<1>7. Base => Base'
  BY <1>1, <1>2, <1>3, <1>6 DEF Base
<1>8. Orderly => Orderly'
  BY <1>1, <1>2, <1>3, <1>4, <1>6 DEF Orderly, ClientUp, Alive
<1>9. Calm => Calm'
  BY <1>1, <1>2, <1>3, <1>4, <1>6 DEF Calm
<1>10. QED
  BY <1>1, <1>7, <1>8, <1>9 DEF Phase, Regular

LEMMA ConnectFailsPhase ==
  ASSUME GuiTypes, Phase, NEW k \in Connects, ConnectFails(k), Left("error")
  PROVE  Phase'
<1> USE DEF bridge, sessions, fields, helpers, widgets
<1>1. /\ UNCHANGED <<main, blocked, disc, sess, client, conn, discHelper, canConnect, isConnected, label>>
      /\ mishap' = TRUE /\ helper[k] = "wait" /\ helper' = [helper EXCEPT ![k] = "done"]
  BY DEF ConnectFails
<1>2. \A j \in Connects : helper'[j] = IF j = k THEN "done" ELSE helper[j]
  BY <1>1 DEF GuiTypes, SimpleTypes
<1>3. client # 0 => client \in Connects
  BY GuiAssumption DEF GuiTypes, SimpleTypes, Sessions, Connects
<1> DEFINE c == [cb |-> "error"]
<1>4. c.cb = "error" /\ c \in Callbacks /\ tk \in Seq(Callbacks) /\ tk' = Append(tk, c)
  BY PlainIsCallback DEF Left, GuiTypes, CallbackTypes
<1>5. /\ \A cb : Has(tk', cb) <=> Has(tk, cb) \/ cb = "error"
      /\ Unique(tk, "disconnected") => Unique(tk', "disconnected")
  BY <1>4, Joins
<1> HIDE DEF c
<1>6. Base => Base'
  BY <1>1, <1>2, <1>3, <1>5 DEF Base
<1>7. Orderly => Orderly'
  BY <1>1, <1>2, <1>3, <1>5 DEF Orderly, ClientUp, Alive
<1>8. QED
  BY <1>1, <1>6, <1>7 DEF Phase, Regular

LEMMA SlotsReadPhase ==
  ASSUME GuiTypes, Phase, NEW k \in Connects, SlotsRead(k), Left("slots") \/ tk' = tk
  PROVE  Phase'
<1> USE DEF bridge, sessions, fields, helpers, widgets
<1>1. UNCHANGED <<main, blocked, disc, sess, client, conn, helper, discHelper, canConnect, isConnected,
                  mishap, label>>
  BY DEF SlotsRead
<1>2. CASE tk' = tk
  BY <1>1, <1>2, SamePhase DEF Observed
<1>3. CASE Left("slots")
  <2> DEFINE c == [cb |-> "slots"]
  <2>1. c.cb = "slots" /\ c \in Callbacks /\ tk \in Seq(Callbacks) /\ tk' = Append(tk, c)
    BY <1>3, PlainIsCallback DEF Left, GuiTypes, CallbackTypes
  <2>2. /\ \A cb : Has(tk', cb) <=> Has(tk, cb) \/ cb = "slots"
        /\ \A cb : cb # "slots" /\ Unique(tk, cb) => Unique(tk', cb)
        /\ NoUpdateAfterDisconnected(tk) => NoUpdateAfterDisconnected(tk')
    BY <2>1, Joins
  <2> HIDE DEF c
  <2>3. Base => Base'
    BY <1>1, <2>2 DEF Base
  <2>4. Orderly => Orderly'
    BY <1>1, <2>2 DEF Orderly, ClientUp, Alive
  <2>5. Calm => Calm'
    BY <1>1, <2>2 DEF Calm
  <2>6. QED
    BY <1>1, <2>3, <2>4, <2>5 DEF Phase, Regular
<1>4. QED
  BY <1>2, <1>3

LEMMA DisconnectWaitedPhase ==
  ASSUME GuiTypes, Phase, DisconnectWaited, Left("disconnected")
  PROVE  Phase'
<1> USE DEF bridge, sessions, fields, helpers, widgets
<1>1. /\ UNCHANGED <<main, blocked, disc, sess, client, conn, helper, canConnect, isConnected, label>>
      /\ discHelper = "wait" /\ discHelper' = "none"
      /\ mishap' = (mishap \/ disc["button"] # "done")
  BY DEF DisconnectWaited
<1>2. mishap' = FALSE => mishap = FALSE /\ disc["button"] = "done"
  BY <1>1 DEF GuiTypes, SimpleTypes
<1> DEFINE c == [cb |-> "disconnected"]
<1>3. c.cb = "disconnected" /\ c \in Callbacks /\ tk \in Seq(Callbacks) /\ tk' = Append(tk, c)
  BY PlainIsCallback DEF Left, GuiTypes, CallbackTypes
<1>4. /\ \A cb : Has(tk', cb) <=> Has(tk, cb) \/ cb = "disconnected"
      /\ \A cb : Unique(tk, cb) /\ (cb # "disconnected" \/ ~Has(tk, cb)) => Unique(tk', cb)
      /\ NoUpdateAfterDisconnected(tk) => NoUpdateAfterDisconnected(tk')
  BY <1>3, Joins
<1> HIDE DEF c
<1>5. Base => Base'
  BY <1>1, <1>4 DEF Base
<1>6. Orderly => Orderly'
  BY <1>1, <1>4 DEF Orderly, ClientUp, Alive
<1>7. Calm /\ mishap' = FALSE => Calm'
  BY <1>1, <1>2, <1>4 DEF Calm
<1>8. QED
  BY <1>1, <1>2, <1>5, <1>6, <1>7 DEF Phase, Regular


\* The callbacks.
LEMMA RunPhase ==
  ASSUME GuiTypes, Phase, RunCallback
  PROVE  Phase'
<1> USE DEF bridge, sessions, fields, helpers, widgets
<1> DEFINE h == Head(tk)
<1>1. /\ main = "loop" /\ tk # <<>> /\ tk' = Tail(tk) /\ tk \in Seq(Callbacks)
      /\ UNCHANGED <<main, blocked, disc, sess, client, conn, helper, discHelper, isConnected, mishap>>
  BY DEF RunCallback, GuiTypes, CallbackTypes
<1>2. /\ \A cb : Has(tk, cb) <=> Has(tk', cb) \/ h.cb = cb
      /\ \A cb : Unique(tk, cb) => Unique(tk', cb) /\ (h.cb = cb => ~Has(tk', cb))
      /\ NoUpdateAfterDisconnected(tk) =>
           /\ NoUpdateAfterDisconnected(tk') /\ (h.cb = "disconnected" => ~Has(tk', "update"))
  BY <1>1, Goes
<1>3. \/ h.cb \notin {"success", "error", "disconnected"} /\ UNCHANGED canConnect
         /\ (label' = label \/ (h.cb = "update" /\ label' \in {"Connected", "Offline"}))
      \/ h.cb = "error" /\ UNCHANGED canConnect /\ label' = "Failed"
      \/ h.cb = "success" /\ canConnect' = FALSE /\ UNCHANGED label
         /\ (\E k \in Connects : conn[k].pc = "up")
      \/ h.cb = "disconnected" /\ canConnect' = TRUE /\ label' = "Disconnected"
  <2>1. CASE Runs("update") /\ Update(h.var, h.value)
    BY <2>1 DEF Runs, Update
  <2>2. CASE Runs("success") /\ ConnectionSuccess
    BY <2>2 DEF Runs, ConnectionSuccess
  <2>3. CASE Runs("slots") /\ SlotConfiguration
    BY <2>3 DEF Runs, SlotConfiguration
  <2>4. CASE Runs("error") /\ label' = "Failed" /\ UNCHANGED canConnect
    BY <2>4 DEF Runs
  <2>5. CASE Runs("disconnected") /\ canConnect' = TRUE /\ label' = "Disconnected"
    BY <2>5 DEF Runs
  <2>6. QED
    BY <2>1, <2>2, <2>3, <2>4, <2>5, RunCases
<1> HIDE DEF h
<1>4. Base => Base'
  BY <1>1, <1>2, <1>3 DEF Base
<1>5. Orderly => Orderly'
  BY <1>1, <1>2, <1>3 DEF Orderly, ClientUp, Alive
<1>6. Base /\ Calm => Calm'
  <2> SUFFICES ASSUME Base, Calm PROVE Calm'
    OBVIOUS
  <2>1. CASE h.cb \notin {"success", "error", "disconnected"} /\ UNCHANGED canConnect
             /\ (label' = label \/ (h.cb = "update" /\ label' \in {"Connected", "Offline"}))
    BY <1>1, <1>2, <2>1 DEF Calm
  <2>2. CASE h.cb = "error"
    BY <1>2, <2>2 DEF Calm
  <2>3. CASE h.cb = "success" /\ canConnect' = FALSE /\ UNCHANGED label
    BY <1>1, <1>2, <2>3 DEF Calm
  <2>4. CASE h.cb = "disconnected" /\ canConnect' = TRUE /\ label' = "Disconnected"
    BY <1>1, <1>2, <2>4 DEF Base, Calm, GuiTypes, SimpleTypes
  <2>5. QED
    BY <1>3, <2>1, <2>2, <2>3, <2>4
<1>7. QED
  BY <1>1, <1>4, <1>5, <1>6 DEF Phase, Regular


\* The operator.
LEMMA ClickConnectPhase ==
  ASSUME GuiTypes, Phase, NEW k \in Connects, ClickConnect(k)
  PROVE  Phase'
<1>1. /\ main = "loop" /\ canConnect = TRUE /\ conn[k].pc = "none"
      /\ \A j \in 1 .. k - 1 : /\ conn[j].pc # "none"
                               /\ Overlap \/ (sess[j] = "closed" /\ ~mishap)
      /\ label' = "Connecting" /\ client' = k
      /\ conn' = [conn EXCEPT ![k] = [pc |-> "open", todo |-> <<>>]]
      /\ helper' = [helper EXCEPT ![k] = "wait"]
      /\ mishap' = (mishap \/ \E j \in Connects : helper[j] = "wait" \/ Alive(j)
                                                  \/ [cb |-> "success"] \in ToSet(tk))
      /\ UNCHANGED <<sess, isConnected, disc, blocked, discHelper, tk, main, canConnect>>
  BY DEF ClickConnect, sessions, GuiTypes, SimpleTypes
<1>2. /\ \A j \in Connects : conn'[j].pc = IF j = k THEN "open" ELSE conn[j].pc
      /\ \A j \in Connects : helper'[j] = IF j = k THEN "wait" ELSE helper[j]
  BY <1>1 DEF GuiTypes, ConnTypes, SimpleTypes
<1>3. /\ client \in Sessions /\ (client # 0 => client \in Connects) /\ 0 \in Sessions
      /\ k # 0 /\ \A j \in Connects : j \in Sessions /\ j # 0 /\ j \in Int
      /\ \A j \in Connects : j < k => j \in 1 .. k - 1
      /\ mishap \in BOOLEAN /\ Overlap \in BOOLEAN
      /\ \A j \in Connects : helper[j] \in {"none", "wait", "done"}
  BY GuiAssumption DEF GuiTypes, SimpleTypes, Sessions, Connects
<1>4. Base
  BY <1>1 DEF Phase
<1>5. Has(tk, "success") => [cb |-> "success"] \in ToSet(tk)
  <2> SUFFICES ASSUME NEW i \in DOMAIN tk, tk[i].cb = "success" PROVE [cb |-> "success"] \in ToSet(tk)
    BY DEF Has
  <2>1. tk[i] \in Callbacks
    BY LenProperties, ElementOfSeq DEF GuiTypes, CallbackTypes
  <2>2. tk[i] = [cb |-> "success"]
    BY <2>1 DEF Callbacks
  <2>3. QED
    BY <2>2 DEF ToSet
<1>6. mishap' = FALSE => /\ mishap = FALSE /\ ~Has(tk, "success")
                         /\ \A j \in Connects : helper[j] # "wait" /\ ~Alive(j)
  BY <1>1, <1>3, <1>5, Zenon
\* A regular connection begins when the last one is over.
<1>7. ASSUME Regular'
      PROVE  mishap = FALSE /\ Orderly /\ Calm /\ client = 0
  <2>1. mishap = FALSE
    <3>1. CASE mishap' = FALSE
      BY <3>1, <1>6
    <3>2. CASE Overlap = FALSE /\ k # 1
      <4>1. 1 \in 1 .. k - 1
        BY <1>3, <3>2 DEF Connects
      <4>2. QED
        BY <1>1, <1>3, <3>2, <4>1
    <3>3. CASE k = 1
      <4>1. \A j \in Connects : j = 1 \/ 1 < j
        BY DEF Connects
      <4>2. \A j \in Connects : conn[j].pc = "none"
        BY <1>1, <1>4, <3>3, <4>1 DEF Base
      <4>3. QED
        BY <1>4, <4>2 DEF Base
    <3>4. QED
      BY <1>7, <3>1, <3>2, <3>3 DEF Regular
  <2>2. Orderly /\ Calm
    BY <1>1, <2>1 DEF Phase, Regular
  <2>3. ASSUME client # 0 PROVE FALSE
    <3>1. client \in Connects /\ client # k /\ conn[client].pc # "none"
      BY <1>1, <1>3, <1>4, <2>3 DEF Base
    <3>2. CASE mishap' = FALSE
      <4>1. helper[client] = "done" /\ ~Alive(client)
        BY <1>3, <1>4, <1>6, <3>1, <3>2 DEF Base
      <4>2. QED
        BY <2>2, <2>3, <3>1, <4>1 DEF Orderly, Calm
    <3>3. CASE Overlap = FALSE
      <4>1. client < k
        <5>1. ~(k < client)
          BY <1>1, <1>4, <3>1 DEF Base
        <5>2. QED
          BY <1>3, <3>1, <5>1
      <4>2. sess[client] = "closed"
        BY <1>1, <1>3, <3>1, <3>3, <4>1
      <4>3. QED
        BY <2>2, <2>3, <4>2 DEF Orderly
    <3>4. QED
      BY <1>7, <3>2, <3>3 DEF Regular
  <2>4. QED
    BY <2>1, <2>2, <2>3
<1>8. Base'
  <2>1. \A i, j \in Connects : i < j /\ conn'[j].pc # "none" => conn'[i].pc # "none"
    BY <1>1, <1>2, <1>3, <1>4 DEF Base
  <2>2. QED
    BY <1>1, <1>2, <1>3, <1>4, <2>1 DEF Base
<1>9. ASSUME Regular' PROVE Orderly'
  <2>1. /\ mishap = FALSE /\ Orderly /\ Calm /\ client = 0 /\ ~Has(tk, "success")
        /\ sess[k] = "none"
        /\ \A j \in Sessions : ~Alive(j)
    BY <1>1, <1>3, <1>4, <1>7, <1>9 DEF Base, Orderly, Calm, Alive
  <2>2. isConnected = FALSE /\ disc["button"] \in {"none", "done"}
    BY <1>1, <2>1 DEF Calm, GuiTypes, SimpleTypes
  <2>3. \A j \in Connects : helper[j] # "wait"
    BY <2>1, <1>3 DEF Calm
  <2>4. QED
    BY <1>1, <1>2, <1>3, <2>1, <2>2, <2>3 DEF Orderly, ClientUp, Alive
<1>10. ASSUME mishap' = FALSE PROVE Calm'
  <2>1. /\ mishap = FALSE /\ Orderly /\ Calm /\ client = 0 /\ ~Has(tk, "success")
        /\ \A j \in Connects : helper[j] # "wait"
    BY <1>6, <1>7, <1>10 DEF Regular
  <2>2. QED
    BY <1>1, <1>2, <1>3, <2>1 DEF Calm
<1>11. QED
  BY <1>8, <1>9, <1>10 DEF Phase, Regular

LEMMA ClickDisconnectPhase ==
  ASSUME GuiTypes, Phase, ClickDisconnect
  PROVE  Phase'
<1> USE DEF bridge, sessions, fields, helpers, widgets
<1>1. /\ main = "loop" /\ canConnect = FALSE /\ discHelper' = "wait"
      /\ disc["button"] \in {"none", "done"}
      /\ UNCHANGED <<main, blocked, sess, client, conn, helper, tk, canConnect, isConnected, mishap, label>>
  BY DEF ClickDisconnect, GuiTypes, SimpleTypes
<1>2. disc'["button"] \in {"delete", "close"} /\ disc'["close"] = disc["close"]
  BY DEF ClickDisconnect, GuiTypes, SimpleTypes
<1>3. ~Has(tk, "disconnected")
  <2> SUFFICES ASSUME NEW i \in DOMAIN tk, tk[i].cb = "disconnected" PROVE FALSE
    BY DEF Has
  <2>1. tk[i] \in Callbacks
    BY LenProperties, ElementOfSeq DEF GuiTypes, CallbackTypes
  <2>2. tk[i] = [cb |-> "disconnected"]
    BY <2>1 DEF Callbacks
  <2>3. QED
    BY <2>2 DEF ClickDisconnect, ToSet
<1>4. Base => Base'
  BY <1>1, <1>2, <1>3 DEF Base
<1>5. Orderly => Orderly'
  BY <1>1, <1>2 DEF Orderly, ClientUp, Alive
<1>6. Calm => Calm'
  BY <1>1, <1>2, <1>3 DEF Calm
<1>7. QED
  BY <1>1, <1>4, <1>5, <1>6 DEF Phase, Regular

LEMMA ClickPhase ==
  ASSUME Phase, NEW c \in Clicks, CallMethod(c) \/ ClickModule(c) \/ ClickCheck(c)
  PROVE  Phase'
<1> USE DEF bridge, sessions, fields, helpers, widgets
<1>1. ASSUME NEW var, NEW module, NEW value, NEW at, Calls(c, var, module, value, at)
      PROVE  UNCHANGED Observed
  BY <1>1 DEF Calls, Observed
<1>2. CASE CallMethod(c)
  BY <1>2, SamePhase DEF CallMethod, Observed
<1>3. CASE ClickModule(c) \/ ClickCheck(c)
  BY <1>1, <1>3, SamePhase DEF ClickModule, ClickCheck
<1>4. QED
  BY <1>2, <1>3

LEMMA PhaseInitially == GuiInit => Phase
<1> SUFFICES ASSUME GuiInit PROVE Phase
  OBVIOUS
<1>1. 0 \in Sessions /\ \A k \in Connects : k \in Sessions
  BY GuiAssumption DEF Sessions, Connects
<1>2. \A cb : ~Has(tk, cb) /\ Unique(tk, cb) /\ NoUpdateAfterDisconnected(tk)
  BY DEF GuiInit, Has, Unique, NoUpdateAfterDisconnected
<1>3. Base
  BY <1>1, <1>2 DEF GuiInit, NoConnects, NoDisconnects, NoHelpers, Base
<1>4. Orderly
  BY <1>1, <1>2 DEF GuiInit, NoConnects, NoDisconnects, NoHelpers, Orderly, ClientUp, Alive
<1>5. Calm
  BY <1>1, <1>2 DEF GuiInit, NoConnects, NoDisconnects, NoHelpers, Calm
<1>6. QED
  BY <1>3, <1>4, <1>5 DEF Phase

LEMMA PhaseKept ==
  ASSUME GuiTypes, Phase, GuiNext \/ UNCHANGED guiVars
  PROVE  Phase'
<1>1. CASE UNCHANGED guiVars \/ BridgePublishes
  <2>1. UNCHANGED Observed
    BY <1>1 DEF BridgePublishes, guiVars, bridge, sessions, fields, helpers, widgets, Observed
  <2>2. QED
    BY <2>1, SamePhase
<1>2. ASSUME NEW k \in Connects, Connection(k) \/ Deliver(k) \/ ClickConnect(k) PROVE Phase'
  BY <1>2, ClientConnectsPhase, BrowsePhase, SubscribePhase, ReadPhase, ReadAllPhase,
    ConnectRaisesPhase, DeliverPhase, ClickConnectPhase DEF Connection
<1>3. ASSUME NEW d \in DOMAIN disc, DeleteSubscription(d) \/ Disconnects(d) PROVE Phase'
  BY <1>3, DeleteSubscriptionPhase, DisconnectsPhase DEF GuiTypes, SimpleTypes
<1>4. ASSUME NEW c \in Clicks, CallMethod(c) \/ ClickModule(c) \/ ClickCheck(c) PROVE Phase'
  BY <1>4, ClickPhase
<1>5. CASE HelperSteps
  BY <1>5, HelperLeaves, ConnectSucceedsPhase, ConnectFailsPhase, SlotsReadPhase, DisconnectWaitedPhase
<1>6. CASE RunCallback \/ ClickDisconnect
  BY <1>6, RunPhase, ClickDisconnectPhase
<1>7. CASE CloseWindow \/ CloseWaited
  BY <1>7 DEF CloseWindow, CloseWaited, Exit, Phase
<1>8. QED
  BY <1>1, <1>2, <1>3, <1>4, <1>5, <1>6, <1>7 DEF GuiNext, Operator

\* Once the window is closed only the asyncio thread still runs, and it leaves the label
\* alone.
LEMMA LoopSteps ==
  ASSUME GuiNext \/ UNCHANGED guiVars
  PROVE  \/ main = "loop" /\ main' = "loop"
         \/ CloseWindow
         \/ main = "closing" /\ Exit
         \/ UNCHANGED guiVars
         \/ main = "closing" /\ UNCHANGED <<main, label, mishap>>
<1> USE DEF bridge, sessions, fields, helpers, widgets
<1>1. CASE UNCHANGED guiVars
  BY <1>1
<1>2. ASSUME NEW k \in Connects, Connection(k) \/ Deliver(k)
      PROVE  main \in {"loop", "closing"} /\ UNCHANGED <<main, label, mishap>>
  BY <1>2 DEF Connection, ClientConnects, Browse, Subscribe, Read, ReadAll, ConnectRaises, Deliver,
    ConnectAt, LoopFree
<1>3. ASSUME NEW d, DeleteSubscription(d) \/ Disconnects(d)
      PROVE  main \in {"loop", "closing"} /\ UNCHANGED <<main, label, mishap>>
  BY <1>3 DEF DeleteSubscription, Disconnects, LoopFree
<1>4. ASSUME NEW c, CallMethod(c)
      PROVE  main \in {"loop", "closing"} /\ UNCHANGED <<main, label, mishap>>
  BY <1>4 DEF CallMethod, LoopFree
<1>5. ASSUME NEW c, ClickModule(c) \/ ClickCheck(c) PROVE main = "loop" /\ UNCHANGED main
  BY <1>5 DEF ClickModule, ClickCheck, Calls
<1>6. ASSUME NEW k, ClickConnect(k) PROVE main = "loop" /\ UNCHANGED main
  BY <1>6 DEF ClickConnect
<1>7. CASE HelperSteps
  BY <1>7, HelperLeaves
<1>8. CASE RunCallback \/ ClickDisconnect \/ BridgePublishes
  BY <1>8 DEF RunCallback, ClickDisconnect, BridgePublishes
<1>9. QED
  BY <1>1, <1>2, <1>3, <1>4, <1>5, <1>6, <1>7, <1>8 DEF GuiNext, Operator, CloseWaited

LEMMA ExitEnds ==
  ASSUME GuiTypes, Exit
  PROVE  main' = "gone" /\ tk' = <<>> /\ blocked' = FALSE /\ \A k \in Sessions : ~Alive(k)'
<1>1. \A k \in Sessions : sess'[k] \in {"none", "closed"}
  BY DEF Exit
<1>2. QED
  BY <1>1 DEF Exit, NothingYet, Alive

LEMMA EndingKept ==
  ASSUME GuiTypes, Phase, Ending, GuiNext \/ UNCHANGED guiVars
  PROVE  Ending'
<1>1. CASE main' = "loop"
  BY <1>1 DEF Ending
<1>2. CASE Exit
  BY <1>2, ExitEnds DEF Ending
<1>3. CASE CloseWindow /\ ~Exit
  <2>1. main = "loop" /\ main' = "closing" /\ isConnected = TRUE /\ UNCHANGED <<label, mishap>>
    BY <1>3 DEF CloseWindow, widgets, GuiTypes, SimpleTypes
  <2>2. mishap = TRUE \/ label # "Disconnected"
    BY <2>1 DEF Phase, Calm, GuiTypes, SimpleTypes
  <2>3. QED
    BY <2>1, <2>2 DEF Ending
<1>4. CASE UNCHANGED guiVars
  BY <1>4 DEF guiVars, sessions, widgets, Ending, Alive
<1>5. CASE main = "closing" /\ UNCHANGED <<main, label, mishap>>
  BY <1>5 DEF Ending
<1>6. QED
  BY <1>1, <1>2, <1>3, <1>4, <1>5, LoopSteps

\* Once the label says "Disconnected", and as long as no connect or disconnect has
\* failed or met another one, no session is left that could still change the widgets
\* (on_disconnection_success), for every number of clicks and of variables.
THEOREM NothingLeftBehind == GuiSpec => []DisconnectedIsQuiet
<1> DEFINE Inv == GuiTypes /\ Phase /\ Ending
<1>1. GuiInit => Inv
  BY TypesInitially, PhaseInitially DEF GuiInit, Ending
<1>2. Inv /\ [GuiNext]_guiVars => Inv'
  BY TypesKept, PhaseKept, EndingKept
<1>3. Inv => DisconnectedIsQuiet
  <2> SUFFICES ASSUME GuiTypes, Phase, Ending, label = "Disconnected", mishap = FALSE
               PROVE  /\ blocked = FALSE /\ \A i \in DOMAIN tk : tk[i].cb # "update"
                      /\ \A k \in Sessions : ~Alive(k)
    BY DEF DisconnectedIsQuiet, GuiTypes, SimpleTypes
  <2>1. CASE main = "loop"
    <3>1. Base /\ Orderly /\ Calm
      BY <2>1 DEF Phase, Regular
    <3>2. client = 0 /\ ~Has(tk, "update")
      BY <3>1 DEF Calm
    <3>3. \A k \in Sessions : ~Alive(k)
      BY <3>1, <3>2 DEF Base, Orderly, Alive
    <3>4. QED
      BY <3>1, <3>2, <3>3 DEF Base, Has
  <2>2. CASE main = "closing"
    BY <2>2 DEF Ending
  <2>3. CASE main = "gone"
    BY <2>3 DEF Ending
  <2>4. QED
    BY <2>1, <2>2, <2>3 DEF GuiTypes, SimpleTypes
<1>4. QED
  BY <1>1, <1>2, <1>3, PTL DEF GuiSpec

-----------------------------------------------------------------------------
(* What the widgets show, and what they are still to be told *)

IsUpdate(c, v) == c.cb = "update" /\ c.var = v
NoUpdate(s, v) == \A i \in DOMAIN s : ~IsUpdate(s[i], v)
LastUpdate(s, v, value) ==
  \E i \in DOMAIN s : /\ s[i] = UpdateOf(v, value)
                      /\ \A j \in DOMAIN s : j > i /\ IsUpdate(s[j], v) => s[j] = UpdateOf(v, value)

\* The notifications of a session are before the callbacks that are left already: the
\* last word about a variable is among the former, if there is any.
Told(q, t, v, value) == LastUpdate(q, v, value) \/ (NoUpdate(q, v) /\ LastUpdate(t, v, value))
Quiet(q, t, v) == NoUpdate(q, v) /\ NoUpdate(t, v)

\* What joins the callbacks at the end, and what leaves them at the front.
LEMMA JoinsUpdates ==
  ASSUME NEW S, NEW s \in Seq(S), NEW e \in S, NEW v, NEW value
  PROVE  /\ ~IsUpdate(e, v) /\ NoUpdate(s, v) => NoUpdate(Append(s, e), v)
         /\ (IsUpdate(e, v) => e = UpdateOf(v, value)) /\ LastUpdate(s, v, value)
              => LastUpdate(Append(s, e), v, value)
         /\ e = UpdateOf(v, value) => LastUpdate(Append(s, e), v, value)
<1> DEFINE n == Len(s)
           t == Append(s, e)
<1>1. /\ n \in Nat /\ DOMAIN s = 1 .. n
      /\ t \in Seq(S) /\ Len(t) = n + 1 /\ DOMAIN t = 1 .. n + 1
      /\ \A i \in 1 .. n : t[i] = s[i]
      /\ t[n + 1] = e
  BY AppendProperties, LenProperties
<1> HIDE DEF t, n
<1>2. \A i \in DOMAIN t : (i \in DOMAIN s /\ t[i] = s[i]) \/ i = n + 1
  BY <1>1
<1>3. DOMAIN s \subseteq DOMAIN t /\ n + 1 \in DOMAIN t /\ \A i \in DOMAIN t : ~(i > n + 1)
  BY <1>1
<1>4. ~IsUpdate(e, v) /\ NoUpdate(s, v) => NoUpdate(t, v)
  BY <1>1, <1>2 DEF NoUpdate
<1>5. ASSUME IsUpdate(e, v) => e = UpdateOf(v, value), LastUpdate(s, v, value)
      PROVE  LastUpdate(t, v, value)
  <2>1. PICK i \in DOMAIN s :
          /\ s[i] = UpdateOf(v, value)
          /\ \A j \in DOMAIN s : j > i /\ IsUpdate(s[j], v) => s[j] = UpdateOf(v, value)
    BY <1>5 DEF LastUpdate
  <2>2. i \in DOMAIN t /\ t[i] = UpdateOf(v, value)
    BY <1>1, <1>3, <2>1
  <2>3. \A j \in DOMAIN t : j > i /\ IsUpdate(t[j], v) => t[j] = UpdateOf(v, value)
    BY <1>1, <1>2, <1>5, <2>1
  <2>4. QED
    BY <2>2, <2>3 DEF LastUpdate
<1>6. e = UpdateOf(v, value) => LastUpdate(t, v, value)
  BY <1>1, <1>3 DEF LastUpdate
<1>7. QED
  BY <1>4, <1>5, <1>6 DEF t

LEMMA GoesUpdates ==
  ASSUME NEW S, NEW s \in Seq(S), s # <<>>, NEW v, NEW value
  PROVE  /\ NoUpdate(s, v) => NoUpdate(Tail(s), v) /\ ~IsUpdate(Head(s), v)
         /\ LastUpdate(s, v, value) =>
              \/ LastUpdate(Tail(s), v, value)
              \/ NoUpdate(Tail(s), v) /\ Head(s) = UpdateOf(v, value)
<1> DEFINE n == Len(s)
           t == Tail(s)
<1>1. /\ n \in Nat \ {0} /\ DOMAIN s = 1 .. n
      /\ t \in Seq(S) /\ Len(t) = n - 1 /\ DOMAIN t = 1 .. n - 1
      /\ \A i \in 1 .. n - 1 : t[i] = s[i + 1]
      /\ Head(s) = s[1]
  BY EmptySeq, HeadTailProperties, LenProperties
<1> HIDE DEF t, n
<1>2. \A i \in DOMAIN t : i + 1 \in DOMAIN s /\ i + 1 > 1 /\ t[i] = s[i + 1] /\ i \in Nat
  BY <1>1
<1>3. \A i \in DOMAIN s : i = 1 \/ (i - 1 \in DOMAIN t /\ t[i - 1] = s[i])
  BY <1>1
<1>4. 1 \in DOMAIN s
  BY <1>1
<1>5. NoUpdate(s, v) => NoUpdate(t, v) /\ ~IsUpdate(Head(s), v)
  BY <1>1, <1>2, <1>4 DEF NoUpdate
<1>6. ASSUME LastUpdate(s, v, value), ~LastUpdate(t, v, value)
      PROVE  NoUpdate(t, v) /\ Head(s) = UpdateOf(v, value)
  <2>1. PICK i \in DOMAIN s :
          /\ s[i] = UpdateOf(v, value)
          /\ \A j \in DOMAIN s : j > i /\ IsUpdate(s[j], v) => s[j] = UpdateOf(v, value)
    BY <1>6 DEF LastUpdate
  <2>2. ASSUME NEW m \in DOMAIN t, t[m] = UpdateOf(v, value), m + 1 >= i PROVE FALSE
    <3>1. \A j \in DOMAIN t : j > m => j + 1 > i
      BY <1>1, <2>1, <2>2
    <3>2. \A j \in DOMAIN t : j > m /\ IsUpdate(t[j], v) => t[j] = UpdateOf(v, value)
      BY <1>2, <2>1, <3>1
    <3>3. QED
      BY <1>6, <2>2, <3>2 DEF LastUpdate
  <2>3. i = 1
    <3>1. i = 1 \/ (i - 1 \in DOMAIN t /\ t[i - 1] = s[i])
      BY <1>3
    <3>2. i - 1 + 1 >= i
      BY <1>1
    <3>3. QED
      BY <2>1, <2>2, <3>1, <3>2
  <2>4. NoUpdate(t, v)
    <3> SUFFICES ASSUME NEW m \in DOMAIN t, IsUpdate(t[m], v) PROVE FALSE
      BY DEF NoUpdate
    <3>1. m + 1 \in DOMAIN s /\ m + 1 > i /\ t[m] = s[m + 1] /\ m + 1 >= i
      BY <1>2, <2>3
    <3>2. t[m] = UpdateOf(v, value)
      BY <2>1, <3>1
    <3>3. QED
      BY <2>2, <3>1, <3>2
  <2>5. QED
    BY <1>1, <2>1, <2>3, <2>4
<1>7. QED
  BY <1>5, <1>6 DEF t

\* The notifications of a change.
LEMMA NoticesTell ==
  ASSUME NEW q \in Seq(Updates), NEW vs \in Seq(ToSet(Vars)), NEW values,
         \A w \in ToSet(Vars) : values[w] \in Values(w), NEW v, NEW value
  PROVE  /\ v \in ToSet(vs) => LastUpdate(q \o Notices(vs, values), v, values[v])
         /\ v \notin ToSet(vs) /\ NoUpdate(q, v) => NoUpdate(q \o Notices(vs, values), v)
         /\ v \notin ToSet(vs) /\ LastUpdate(q, v, value)
              => LastUpdate(q \o Notices(vs, values), v, value)
<1> DEFINE n == Len(q)
           m == Len(vs)
           N == Notices(vs, values)
           t == q \o N
<1>1. /\ N \in Seq(Updates) /\ Len(N) = m /\ m \in Nat /\ n \in Nat
      /\ DOMAIN q = 1 .. n /\ DOMAIN vs = 1 .. m
      /\ \A i \in 1 .. m : N[i] = UpdateOf(vs[i], values[vs[i]])
  BY NoticesAreCallbacks, LenProperties
<1> HIDE DEF N
<1>2. /\ Len(t) = n + m /\ t \in Seq(Updates)
      /\ \A i \in 1 .. n + m : t[i] = IF i <= n THEN q[i] ELSE N[i - n]
  <2>1. /\ q \o N \in Seq(Updates) /\ Len(q \o N) = Len(q) + Len(N)
        /\ \A i \in 1 .. Len(q) + Len(N) : (q \o N)[i] = IF i <= Len(q) THEN q[i] ELSE N[i - Len(q)]
    BY <1>1, ConcatProperties
  <2>2. QED
    BY <1>1, <2>1
<1>3. DOMAIN t = 1 .. n + m
  BY <1>2, LenProperties
<1> HIDE DEF t, n, m
<1>4. \A i \in DOMAIN t :
        \/ i \in DOMAIN q /\ t[i] = q[i]
        \/ i - n \in DOMAIN vs /\ i > n /\ t[i] = UpdateOf(vs[i - n], values[vs[i - n]])
  BY <1>1, <1>2, <1>3
<1>5. \A i \in DOMAIN q : i \in DOMAIN t /\ t[i] = q[i] /\ i <= n /\ i \in Nat
  BY <1>1, <1>2, <1>3
<1>6. \A i \in DOMAIN vs : n + i \in DOMAIN t /\ n + i > n /\ t[n + i] = UpdateOf(vs[i], values[vs[i]])
  <2> SUFFICES ASSUME NEW i \in DOMAIN vs
               PROVE  n + i \in DOMAIN t /\ n + i > n /\ t[n + i] = UpdateOf(vs[i], values[vs[i]])
    OBVIOUS
  <2>1. i \in 1 .. m /\ n + i \in 1 .. n + m /\ n + i > n /\ ~(n + i <= n) /\ n + i - n = i
    BY <1>1
  <2>2. QED
    BY <1>1, <1>2, <1>3, <2>1
<1>7. \A w, x, u : IsUpdate(UpdateOf(w, x), u) => w = u
  BY DEF IsUpdate, UpdateOf
<1>8. ASSUME v \in ToSet(vs) PROVE LastUpdate(t, v, values[v])
  <2>1. PICK i \in DOMAIN vs : vs[i] = v
    BY <1>8 DEF ToSet
  <2>2. \A j \in DOMAIN t : j > n + i /\ IsUpdate(t[j], v) => t[j] = UpdateOf(v, values[v])
    <3> SUFFICES ASSUME NEW j \in DOMAIN t, j > n + i, IsUpdate(t[j], v) PROVE t[j] = UpdateOf(v, values[v])
      OBVIOUS
    <3>1. j \notin DOMAIN q
      BY <1>1, <1>3, <2>1
    <3>2. j - n \in DOMAIN vs /\ t[j] = UpdateOf(vs[j - n], values[vs[j - n]])
      BY <1>4, <3>1
    <3>3. vs[j - n] = v
      BY <1>7, <3>2
    <3>4. QED
      BY <3>2, <3>3
  <2>3. n + i \in DOMAIN t /\ t[n + i] = UpdateOf(v, values[v])
    BY <1>6, <2>1
  <2>4. QED
    BY <2>2, <2>3 DEF LastUpdate
<1>9. ASSUME v \notin ToSet(vs)
      PROVE  \A i \in DOMAIN t : IsUpdate(t[i], v) => i \in DOMAIN q /\ t[i] = q[i]
  BY <1>4, <1>7, <1>9 DEF ToSet
<1>10. v \notin ToSet(vs) /\ NoUpdate(q, v) => NoUpdate(t, v)
  BY <1>9 DEF NoUpdate
<1>11. ASSUME v \notin ToSet(vs), LastUpdate(q, v, value) PROVE LastUpdate(t, v, value)
  <2>1. PICK i \in DOMAIN q :
          /\ q[i] = UpdateOf(v, value)
          /\ \A j \in DOMAIN q : j > i /\ IsUpdate(q[j], v) => q[j] = UpdateOf(v, value)
    BY <1>11 DEF LastUpdate
  <2>2. i \in DOMAIN t /\ t[i] = UpdateOf(v, value)
    BY <1>5, <2>1
  <2>3. \A j \in DOMAIN t : j > i /\ IsUpdate(t[j], v) => t[j] = UpdateOf(v, value)
    BY <1>9, <1>11, <2>1
  <2>4. QED
    BY <2>2, <2>3 DEF LastUpdate
<1>12. QED
  BY <1>8, <1>10, <1>11 DEF t, N

\* What a poll, a delivery, a read and a callback do to what is told.
LEMMA NotifiedTold ==
  ASSUME NEW q \in Seq(Updates), NEW t, NEW vs \in Seq(ToSet(Vars)), NEW values,
         \A w \in ToSet(Vars) : values[w] \in Values(w), NEW v
  PROVE  /\ v \in ToSet(vs) => Told(q \o Notices(vs, values), t, v, values[v])
         /\ v \notin ToSet(vs) =>
              /\ Told(q, t, v, values[v]) => Told(q \o Notices(vs, values), t, v, values[v])
              /\ Quiet(q, t, v) => Quiet(q \o Notices(vs, values), t, v)
<1> DEFINE r == q \o Notices(vs, values)
<1>1. /\ v \in ToSet(vs) => LastUpdate(r, v, values[v])
      /\ v \notin ToSet(vs) /\ NoUpdate(q, v) => NoUpdate(r, v)
      /\ v \notin ToSet(vs) /\ LastUpdate(q, v, values[v]) => LastUpdate(r, v, values[v])
  BY NoticesTell
<1> HIDE DEF r
<1>2. QED
  BY <1>1 DEF Told, Quiet, r

LEMMA DeliveredTold ==
  ASSUME NEW q \in Seq(Callbacks), q # <<>>, NEW t \in Seq(Callbacks), NEW v, NEW value
  PROVE  /\ Told(q, t, v, value) => Told(Tail(q), Append(t, Head(q)), v, value)
         /\ Quiet(q, t, v) => Quiet(Tail(q), Append(t, Head(q)), v)
<1> DEFINE h == Head(q)
<1>1. h \in Callbacks
  BY HeadTailProperties
<1>2. /\ NoUpdate(q, v) => NoUpdate(Tail(q), v) /\ ~IsUpdate(h, v)
      /\ LastUpdate(q, v, value) =>
           \/ LastUpdate(Tail(q), v, value)
           \/ NoUpdate(Tail(q), v) /\ h = UpdateOf(v, value)
  BY GoesUpdates
<1>3. /\ ~IsUpdate(h, v) /\ NoUpdate(t, v) => NoUpdate(Append(t, h), v)
      /\ (IsUpdate(h, v) => h = UpdateOf(v, value)) /\ LastUpdate(t, v, value)
           => LastUpdate(Append(t, h), v, value)
      /\ h = UpdateOf(v, value) => LastUpdate(Append(t, h), v, value)
  BY <1>1, JoinsUpdates
<1> HIDE DEF h
<1>4. QED
  BY <1>2, <1>3 DEF Told, Quiet, h

LEMMA PostedTold ==
  ASSUME NEW q, NEW t \in Seq(Callbacks), NEW e \in Callbacks, NEW v, NEW value,
         IsUpdate(e, v) => e = UpdateOf(v, value)
  PROVE  /\ Told(q, t, v, value) => Told(q, Append(t, e), v, value)
         /\ Quiet(q, t, v) => Told(q, Append(t, e), v, value) \/ Quiet(q, Append(t, e), v)
<1>1. /\ ~IsUpdate(e, v) /\ NoUpdate(t, v) => NoUpdate(Append(t, e), v)
      /\ LastUpdate(t, v, value) => LastUpdate(Append(t, e), v, value)
      /\ e = UpdateOf(v, value) => LastUpdate(Append(t, e), v, value)
  BY JoinsUpdates
<1>2. QED
  BY <1>1 DEF Told, Quiet

LEMMA RunTold ==
  ASSUME NEW q, NEW t \in Seq(Callbacks), t # <<>>, NEW v, NEW value
  PROVE  /\ Told(q, t, v, value) =>
              \/ Told(q, Tail(t), v, value)
              \/ Quiet(q, Tail(t), v) /\ Head(t) = UpdateOf(v, value)
         /\ Quiet(q, t, v) => Quiet(q, Tail(t), v) /\ ~IsUpdate(Head(t), v)
<1>1. /\ NoUpdate(t, v) => NoUpdate(Tail(t), v) /\ ~IsUpdate(Head(t), v)
      /\ LastUpdate(t, v, value) =>
           \/ LastUpdate(Tail(t), v, value)
           \/ NoUpdate(Tail(t), v) /\ Head(t) = UpdateOf(v, value)
  BY GoesUpdates
<1>2. QED
  BY <1>1 DEF Told, Quiet

\* A widget that has its value shows what is published; so does the label, as long as no
\* connect or disconnect has failed or met another one.
Shows(v) ==
  /\ v \in fresh =>
       IF v \in ArrayVars
         THEN \A i \in DOMAIN matrix.shown[v] \cap DOMAIN published[v] :
                matrix.shown[v][i] = published[v][i]
         ELSE v = "CrateMCFEnabled" => check = published[v]
  /\ v = "device_connected" /\ mishap = FALSE =>
       label = IF published[v] THEN "Connected" ELSE "Offline"

Tells ==
  main = "loop" /\ Regular /\ sess[client] = "subscribed" =>
    \A v \in ToSet(Vars) : \/ Told(queue[client], tk, v, published[v])
                           \/ Quiet(queue[client], tk, v) /\ Shows(v)

\* A step that neither tells nor shows anything else.
LEMMA SameTells ==
  ASSUME Tells, UNCHANGED <<main, client, published, tk, matrix, check, label, fresh, mishap>>,
         sess'[client] = "subscribed" => sess[client] = "subscribed" /\ queue'[client] = queue[client]
  PROVE  Tells'
<1> SUFFICES ASSUME main = "loop", Regular, sess'[client] = "subscribed", NEW v \in ToSet(Vars)
             PROVE  \/ Told(queue[client], tk, v, published[v])
                    \/ Quiet(queue[client], tk, v) /\ Shows(v)'
  BY DEF Tells, Regular
<1>1. Shows(v) => Shows(v)'
  BY DEF Shows
<1>2. QED
  BY <1>1 DEF Tells

\* A change of what is published, notified to the session.
LEMMA NotifyTells ==
  ASSUME GuiTypes, GuiTypes', active' = active, Tells, NEW vs \in Seq(ToSet(Vars)), Notify(vs),
         \A v \in ToSet(Vars) : v \notin ToSet(vs) => published'[v] = published[v],
         UNCHANGED <<main, sess, client, tk, matrix, check, label, fresh, mishap>>
  PROVE  Tells'
<1> SUFFICES ASSUME main = "loop", Regular, sess[client] = "subscribed", NEW v \in ToSet(Vars)
             PROVE  \/ Told(queue'[client], tk, v, published'[v])
                    \/ Quiet(queue'[client], tk, v) /\ Shows(v)'
  BY DEF Tells, Regular
<1>1. queue'[client] = queue[client] \o Notices(vs, published')
  BY NotifyQueue, ZenonT(30) DEF GuiTypes, SimpleTypes
<1>2. queue[client] \in Seq(Updates) /\ \A w \in ToSet(Vars) : published'[w] \in Values(w)
  BY SameValues DEF GuiTypes, SimpleTypes, CallbackTypes, PublishedTypes
<1>3. /\ v \in ToSet(vs) => Told(queue'[client], tk, v, published'[v])
      /\ v \notin ToSet(vs) =>
           /\ Told(queue[client], tk, v, published'[v]) => Told(queue'[client], tk, v, published'[v])
           /\ Quiet(queue[client], tk, v) => Quiet(queue'[client], tk, v)
  BY <1>1, <1>2, NotifiedTold
<1>4. v \notin ToSet(vs) => published'[v] = published[v] /\ (Shows(v) => Shows(v)')
  BY DEF Shows
<1>5. QED
  BY <1>3, <1>4 DEF Tells

LEMMA SubscribeTells ==
  ASSUME GuiTypes, Phase, Tells, NEW k \in Connects, Subscribe(k)
  PROVE  Tells'
<1> USE DEF bridge, sessions, fields, helpers, widgets
<1>1. /\ Alive(subscription) /\ UNCHANGED <<main, client, published, tk, mishap>>
      /\ queue' = [queue EXCEPT ![subscription] = queue[subscription] \o Notices(Vars, published)]
  BY DEF Subscribe, Notices
<1> SUFFICES ASSUME main = "loop", Regular, NEW v \in ToSet(Vars)
             PROVE  Told(queue'[client], tk, v, published[v])
  BY <1>1 DEF Tells, Regular
<1>2. subscription = client
  BY <1>1, SubscribedIsClient DEF Phase, GuiTypes, SimpleTypes
<1>3. /\ queue'[client] = queue[client] \o Notices(Vars, published)
      /\ queue[client] \in Seq(Updates) /\ \A w \in ToSet(Vars) : published[w] \in Values(w)
  BY <1>1, <1>2 DEF GuiTypes, SimpleTypes, CallbackTypes, PublishedTypes
<1>4. QED
  BY <1>3, TheVars, NotifiedTold

\* A callback that is left, or a value that the initial read posts.
LEMMA PostTells ==
  ASSUME GuiTypes, Tells, NEW e \in Callbacks, tk' = Append(tk, e),
         \A v \in ToSet(Vars) : IsUpdate(e, v) => e = UpdateOf(v, published[v]),
         UNCHANGED <<main, sess, queue, client, published, matrix, check, label, fresh>>,
         mishap' = FALSE => mishap = FALSE
  PROVE  Tells'
<1> SUFFICES ASSUME main = "loop", Regular, sess[client] = "subscribed", NEW v \in ToSet(Vars)
             PROVE  \/ Told(queue[client], tk', v, published[v])
                    \/ Quiet(queue[client], tk', v) /\ Shows(v)'
  BY DEF Tells, Regular
<1>1. tk \in Seq(Callbacks)
  BY DEF GuiTypes, CallbackTypes
<1>2. /\ Told(queue[client], tk, v, published[v]) => Told(queue[client], tk', v, published[v])
      /\ Quiet(queue[client], tk, v) =>
           Told(queue[client], tk', v, published[v]) \/ Quiet(queue[client], tk', v)
  BY <1>1, PostedTold
<1>3. Shows(v) => Shows(v)'
  BY DEF Shows
<1>4. QED
  BY <1>2, <1>3 DEF Tells

LEMMA ReadTells ==
  ASSUME GuiTypes, Tells, NEW k \in Connects, Read(k)
  PROVE  Tells'
<1> USE DEF bridge, sessions, fields, helpers, widgets
<1> DEFINE w == Head(conn[k].todo)
<1>1. /\ Posts(UpdateOf(w, published[w])) \/ UNCHANGED tk
      /\ UNCHANGED <<main, sess, queue, client, published, matrix, check, label, fresh, mishap>>
  BY DEF Read
<1>2. w \in ToSet(Vars)
  BY HeadTailProperties DEF Read, GuiTypes, ConnTypes
<1>3. UpdateOf(w, published[w]) \in Callbacks
  BY <1>2, UpdateIsCallback DEF GuiTypes, PublishedTypes
<1>4. \A v : IsUpdate(UpdateOf(w, published[w]), v) => w = v
  BY DEF IsUpdate, UpdateOf
<1> HIDE DEF w
<1>5. CASE main # "loop"
  BY <1>1, <1>5 DEF Tells
<1>6. CASE UNCHANGED tk
  BY <1>1, <1>6, SameTells
<1>7. CASE main = "loop" /\ Posts(UpdateOf(w, published[w]))
  <2>1. tk' = Append(tk, UpdateOf(w, published[w]))
    BY <1>7 DEF Posts
  <2>2. QED
    BY <1>1, <1>3, <1>4, <2>1, PostTells
<1>8. QED
  BY <1>1, <1>5, <1>6, <1>7

LEMMA DeliverTells ==
  ASSUME GuiTypes, Phase, Tells, NEW k \in Connects, Deliver(k)
  PROVE  Tells'
<1> USE DEF bridge, sessions, fields, helpers, widgets
<1>1. /\ sess[k] = "subscribed" /\ queue[k] # <<>> /\ Posts(Head(queue[k]))
      /\ queue' = [queue EXCEPT ![k] = Tail(@)]
      /\ UNCHANGED <<main, sess, client, published, matrix, check, label, fresh, mishap>>
  BY DEF Deliver
<1> SUFFICES ASSUME main = "loop", Regular, sess[client] = "subscribed", NEW v \in ToSet(Vars)
             PROVE  \/ Told(queue'[client], tk', v, published[v])
                    \/ Quiet(queue'[client], tk', v) /\ Shows(v)'
  BY <1>1 DEF Tells, Regular
<1>2. k \in Sessions
  BY GuiAssumption DEF Connects, Sessions
<1>3. k = client
  BY <1>1, <1>2, SubscribedIsClient DEF Phase, Alive
<1>4. queue'[client] = Tail(queue[client]) /\ tk' = Append(tk, Head(queue[client]))
  BY <1>1, <1>2, <1>3 DEF Posts, GuiTypes, CallbackTypes
<1>5. queue[client] \in Seq(Callbacks) /\ tk \in Seq(Callbacks)
  <2>1. Updates \subseteq Callbacks
    BY UpdateCases
  <2>2. queue[client] \in Seq(Updates) /\ tk \in Seq(Callbacks)
    BY <1>2, <1>3 DEF GuiTypes, CallbackTypes
  <2>3. QED
    BY <2>1, <2>2
<1>6. /\ Told(queue[client], tk, v, published[v]) => Told(queue'[client], tk', v, published[v])
      /\ Quiet(queue[client], tk, v) => Quiet(queue'[client], tk', v)
  BY <1>1, <1>3, <1>4, <1>5, DeliveredTold
<1>7. Shows(v) => Shows(v)'
  BY <1>1 DEF Shows
<1>8. QED
  BY <1>6, <1>7 DEF Tells

LEMMA DisconnectTells ==
  ASSUME GuiTypes, Phase', Tells, NEW d \in {"button", "close"}, DeleteSubscription(d) \/ Disconnects(d)
  PROVE  Tells'
<1> USE DEF bridge, sessions, fields, helpers, widgets
<1>1. CASE DeleteSubscription(d)
  <2>1. UNCHANGED <<main, client, published, tk, matrix, check, label, fresh, mishap>>
    BY <1>1 DEF DeleteSubscription
  <2>2. \E s \in {sess, [sess EXCEPT ![subscription] = IF Alive(subscription) THEN "open" ELSE @]} :
          /\ sess' = s
          /\ queue' = [k \in Sessions |-> IF s[k] = "subscribed" THEN queue[k] ELSE <<>>]
    BY <1>1 DEF DeleteSubscription
  <2>3. sess'[client] = "subscribed" => sess[client] = "subscribed"
    BY <2>2 DEF GuiTypes, SimpleTypes
  <2>4. sess'[client] = "subscribed" => queue'[client] = queue[client]
    BY <2>2 DEF GuiTypes, SimpleTypes
  <2>5. QED
    BY <2>1, <2>3, <2>4, SameTells
<1>2. CASE Disconnects(d)
  <2>1. client' = 0
    BY <1>2 DEF Disconnects
  <2>2. main' = "loop" => sess'[0] = "none"
    BY DEF Phase, Base
  <2>3. QED
    BY <2>1, <2>2 DEF Tells
<1>3. QED
  BY <1>1, <1>2

LEMMA ClickConnectTells ==
  ASSUME Phase, Tells, NEW k \in Connects, ClickConnect(k)
  PROVE  Tells'
<1>1. main = "loop" /\ conn[k].pc = "none" /\ client' = k /\ UNCHANGED sess
  BY DEF ClickConnect, sessions
<1>2. sess[k] = "none"
  BY <1>1 DEF Phase, Base
<1>3. QED
  BY <1>1, <1>2 DEF Tells

LEMMA HelperTells ==
  ASSUME GuiTypes, Tells, HelperSteps
  PROVE  Tells'
<1>1. UNCHANGED <<main, sess, queue, client, published, matrix, check, label, fresh>>
  BY HelperLeaves DEF widgets
<1>2. mishap' = FALSE => mishap = FALSE
  BY DEF HelperSteps, ConnectAnswered, ConnectSucceeds, ConnectFails, SlotsRead, DisconnectWaited,
    GuiTypes, SimpleTypes
<1>3. tk' = tk \/ \E cb \in {"success", "error", "slots", "disconnected"} : Left(cb)
  BY HelperLeaves
<1>4. ASSUME NEW cb \in {"success", "error", "slots", "disconnected"}, Left(cb)
      PROVE  Tells'
  <2>1. [cb |-> cb] \in Callbacks /\ tk' = Append(tk, [cb |-> cb])
    BY <1>4, PlainIsCallback DEF Left
  <2>2. \A v \in ToSet(Vars) : ~IsUpdate([cb |-> cb], v)
    BY DEF IsUpdate
  <2>3. QED
    BY <1>1, <1>2, <2>1, <2>2, PostTells
<1>5. CASE tk' = tk
  <2> SUFFICES ASSUME main = "loop", Regular, sess[client] = "subscribed", NEW v \in ToSet(Vars)
               PROVE  \/ Told(queue[client], tk, v, published[v])
                      \/ Quiet(queue[client], tk, v) /\ Shows(v)'
    BY <1>1, <1>2, <1>5 DEF Tells, Regular
  <2>1. Shows(v) => Shows(v)'
    BY <1>1, <1>2 DEF Shows
  <2>2. QED
    BY <2>1 DEF Tells
<1>6. QED
  BY <1>3, <1>4, <1>5

LEMMA CallMethodTells ==
  ASSUME GuiTypes, GuiTypes', active' = active, Tells, NEW c \in Clicks, CallMethod(c)
  PROVE  Tells'
<1> USE DEF bridge, sessions, fields, helpers, widgets
<1> DEFINE v == call[c].var
           new == IF v \in ArrayVars THEN [published[v] EXCEPT ![call[c].module] = call[c].value]
                                     ELSE call[c].value
<1>1. UNCHANGED <<main, sess, client, tk, matrix, check, label, fresh, mishap>>
  BY DEF CallMethod
<1>2. \/ published' = [published EXCEPT ![v] = new] /\ Notify(<<v>>)
      \/ UNCHANGED <<published, queue>>
  BY DEF CallMethod
<1>3. v \in ToSet(Vars)
  BY DEF CallMethod, GuiTypes, CallTypes
<1> HIDE DEF v, new
<1>4. CASE published' = [published EXCEPT ![v] = new] /\ Notify(<<v>>)
  <2>1. <<v>> \in Seq(ToSet(Vars)) /\ ToSet(<<v>>) = {v}
    BY <1>3 DEF ToSet
  <2>2. \A w \in ToSet(Vars) : w \notin ToSet(<<v>>) => published'[w] = published[w]
    BY <1>4, <2>1 DEF GuiTypes, PublishedTypes
  <2>3. QED
    BY <1>1, <1>4, <2>1, <2>2, NotifyTells
<1>5. CASE UNCHANGED <<published, queue>>
  BY <1>1, <1>5, SameTells
<1>6. QED
  BY <1>2, <1>4, <1>5

\* A click leaves the widgets alone, but for the check box, which is not told any more.
LEMMA ClickTells ==
  ASSUME Tells, NEW c \in Clicks, ClickModule(c) \/ ClickCheck(c)
  PROVE  Tells'
<1> USE DEF bridge, sessions, fields, helpers, widgets
<1>1. UNCHANGED <<main, sess, queue, client, published, tk, matrix, label, mishap>>
  BY DEF ClickModule, ClickCheck, Calls
<1>2. \/ UNCHANGED <<check, fresh>>
      \/ fresh' = fresh \ {"CrateMCFEnabled"}
  BY DEF ClickModule, ClickCheck
<1> SUFFICES ASSUME main = "loop", Regular, sess[client] = "subscribed", NEW v \in ToSet(Vars)
             PROVE  \/ Told(queue[client], tk, v, published[v])
                    \/ Quiet(queue[client], tk, v) /\ Shows(v)'
  BY <1>1 DEF Tells, Regular
<1>3. Shows(v) => Shows(v)'
  BY <1>1, <1>2 DEF Shows
<1>4. QED
  BY <1>3 DEF Tells

\* An update shows its value; the other callbacks keep what is shown, and those that write
\* something else on the label come when the session is over.
LEMMA UpdateShows ==
  ASSUME GuiTypes, NEW w \in ToSet(Vars), NEW value, Update(w, value), UNCHANGED <<published, mishap>>
  PROVE  /\ value = published[w] => Shows(w)'
         /\ \A v \in ToSet(Vars) : v # w /\ Shows(v) => Shows(v)'
<1>1. ASSUME w \in ArrayVars
      PROVE  /\ \A v \in ArrayVars : v # w => matrix'.shown[v] = matrix.shown[v]
             /\ \A i \in DOMAIN matrix'.shown[w] \cap DOMAIN value : matrix'.shown[w][i] = value[i]
             /\ UNCHANGED <<label, check>>
  <2>1. matrix' = [matrix EXCEPT !.shown[w] = Filled(value, @)]
    BY <1>1 DEF Update
  <2>2. matrix'.shown = [matrix.shown EXCEPT ![w] = Filled(value, matrix.shown[w])]
    BY <2>1 DEF GuiTypes, MatrixTypes
  <2>3. /\ \A v \in ArrayVars : v # w => matrix'.shown[v] = matrix.shown[v]
        /\ matrix'.shown[w] = Filled(value, matrix.shown[w])
    BY <1>1, <2>2 DEF GuiTypes, MatrixTypes
  <2>4. UNCHANGED <<label, check>>
    BY <1>1, TheVars DEF Update
  <2>5. \A i \in DOMAIN Filled(value, matrix.shown[w]) \cap DOMAIN value :
          Filled(value, matrix.shown[w])[i] = value[i]
    BY DEF Filled
  <2>6. QED
    BY <2>3, <2>4, <2>5
<1>2. ASSUME w \notin ArrayVars
      PROVE  /\ UNCHANGED matrix
             /\ w = "CrateMCFEnabled" => check' = value /\ UNCHANGED label
             /\ w = "device_connected" =>
                  label' = (IF value THEN "Connected" ELSE "Offline") /\ UNCHANGED check
  BY <1>2 DEF Update
<1>3. fresh' = fresh \cup {w}
  BY DEF Update
<1>4. ASSUME value = published[w] PROVE Shows(w)'
  <2>1. CASE w \in ArrayVars
    BY <1>1, <1>4, <2>1, TheVars DEF Shows
  <2>2. CASE w \notin ArrayVars
    BY <1>2, <1>4, <2>2, TheVars DEF Shows
  <2>3. QED
    BY <2>1, <2>2
<1>5. ASSUME NEW v \in ToSet(Vars), v # w, Shows(v) PROVE Shows(v)'
  <2>1. CASE w \in ArrayVars
    BY <1>1, <1>3, <1>5, <2>1 DEF Shows
  <2>2. CASE w \notin ArrayVars
    BY <1>2, <1>3, <1>5, <2>2, TheVars DEF Shows
  <2>3. QED
    BY <2>1, <2>2
<1>6. QED
  BY <1>4, <1>5

LEMMA RunTells ==
  ASSUME GuiTypes, Phase, Tells, RunCallback
  PROVE  Tells'
<1> USE DEF bridge, sessions, fields, helpers, widgets
<1> DEFINE h == Head(tk)
<1>1. /\ tk # <<>> /\ tk' = Tail(tk) /\ tk \in Seq(Callbacks)
      /\ UNCHANGED <<main, sess, queue, client, published, mishap>>
  BY DEF RunCallback, GuiTypes, CallbackTypes
<1> SUFFICES ASSUME main = "loop", Regular, sess[client] = "subscribed", NEW v \in ToSet(Vars)
             PROVE  \/ Told(queue[client], tk', v, published[v])
                    \/ Quiet(queue[client], tk', v) /\ Shows(v)'
  BY <1>1 DEF Tells, Regular
<1>2. /\ Told(queue[client], tk, v, published[v]) =>
           \/ Told(queue[client], tk', v, published[v])
           \/ Quiet(queue[client], tk', v) /\ h = UpdateOf(v, published[v])
      /\ Quiet(queue[client], tk, v) => Quiet(queue[client], tk', v) /\ ~IsUpdate(h, v)
  BY <1>1, RunTold
<1>3. Base /\ (mishap = FALSE => Calm)
  BY DEF Phase
<1>4. h \in Callbacks /\ Has(tk, h.cb)
  <2>1. 1 \in DOMAIN tk /\ h = tk[1]
    BY <1>1, EmptySeq, LenProperties, HeadTailProperties
  <2>2. QED
    BY <1>1, <2>1, HeadTailProperties DEF Has
<1>5. h = UpdateOf(v, published[v]) => h.cb = "update" /\ h.var = v /\ h.value = published[v]
  BY DEF UpdateOf
<1> HIDE DEF h
<1>6. ASSUME h = UpdateOf(v, published[v]) \/ (~IsUpdate(h, v) /\ Shows(v)) PROVE Shows(v)'
  <2>1. CASE h.cb = "update" /\ Update(h.var, h.value)
    <3>1. h.var \in ToSet(Vars)
      BY <1>4, <2>1, CallbackCases
    <3>2. PICK w, x : w = h.var /\ x = h.value
      OBVIOUS
    <3>3. w \in ToSet(Vars) /\ Update(w, x)
      BY <2>1, <3>1, <3>2
    <3>4. /\ x = published[w] => Shows(w)'
          /\ v # w /\ Shows(v) => Shows(v)'
      BY <1>1, <3>3, UpdateShows
    <3>5. CASE h = UpdateOf(v, published[v])
      BY <1>5, <3>2, <3>4, <3>5
    <3>6. CASE ~IsUpdate(h, v) /\ Shows(v)
      BY <2>1, <3>2, <3>4, <3>6 DEF IsUpdate
    <3>7. QED
      BY <1>6, <3>5, <3>6
  <2>2. CASE h.cb = "success" /\ ConnectionSuccess
    BY <1>1, <1>5, <1>6, <2>2 DEF ConnectionSuccess, Shows
  <2>3. CASE h.cb = "slots" /\ SlotConfiguration
    <3>1. Shows(v) /\ UNCHANGED <<label, check>>
      BY <1>5, <1>6, <2>3 DEF SlotConfiguration
    <3>2. UNCHANGED <<matrix, fresh>> \/ fresh' = fresh \ ArrayVars
      BY <2>3 DEF SlotConfiguration
    <3>3. QED
      BY <1>1, <3>1, <3>2 DEF Shows
  <2>4. CASE h.cb = "error" /\ UNCHANGED <<matrix, check, fresh>>
    <3>1. mishap # FALSE /\ Shows(v)
      BY <1>3, <1>4, <1>5, <1>6, <2>4 DEF Calm
    <3>2. QED
      BY <1>1, <2>4, <3>1 DEF Shows
  <2>5. CASE h.cb = "disconnected" /\ UNCHANGED <<matrix, check, fresh>>
    <3>1. mishap # FALSE /\ Shows(v)
      BY <1>3, <1>4, <1>5, <1>6, <2>5 DEF Base, Calm
    <3>2. QED
      BY <1>1, <2>5, <3>1 DEF Shows
  <2>6. QED
    BY <2>1, <2>2, <2>3, <2>4, <2>5, RunCases DEF Runs, h
<1>7. QED
  BY <1>2, <1>6 DEF Tells

LEMMA TellsKept ==
  ASSUME GuiTypes, GuiTypes', Phase, Phase', Tells, GuiNext \/ UNCHANGED guiVars
  PROVE  Tells'
<1>1. active' = active
  BY ActiveStays
<1>2. CASE UNCHANGED guiVars \/ ClickDisconnect
  <2>1. UNCHANGED <<main, client, published, tk, matrix, check, label, fresh, mishap, sess, queue>>
    BY <1>2 DEF ClickDisconnect, guiVars, bridge, sessions, fields, widgets
  <2>2. QED
    BY <2>1, SameTells
<1>3. ASSUME NEW k \in Connects, Connection(k) PROVE Tells'
  <2>1. CASE ClientConnects(k) \/ Browse(k) \/ ReadAll(k) \/ ConnectRaises(k)
    <3>1. /\ UNCHANGED <<main, client, published, tk, matrix, check, label, fresh, mishap, queue>>
          /\ sess' = sess \/ sess' = [sess EXCEPT ![k] = "open"]
      BY <2>1 DEF ClientConnects, Browse, ReadAll, ConnectRaises, bridge, sessions, fields, widgets
    <3>2. sess'[client] = "subscribed" => sess[client] = "subscribed"
      BY <3>1 DEF GuiTypes, SimpleTypes
    <3>3. QED
      BY <3>1, <3>2, SameTells
  <2>2. QED
    BY <1>3, <2>1, SubscribeTells, ReadTells DEF Connection
<1>4. ASSUME NEW k \in Connects, Deliver(k) \/ ClickConnect(k) PROVE Tells'
  BY <1>4, DeliverTells, ClickConnectTells
<1>5. ASSUME NEW d \in DOMAIN disc, DeleteSubscription(d) \/ Disconnects(d) PROVE Tells'
  BY <1>5, DisconnectTells DEF GuiTypes, SimpleTypes
<1>6. ASSUME NEW c \in Clicks, CallMethod(c) \/ ClickModule(c) \/ ClickCheck(c) PROVE Tells'
  BY <1>1, <1>6, CallMethodTells, ClickTells
<1>7. CASE HelperSteps \/ RunCallback
  BY <1>7, HelperTells, RunTells
<1>8. CASE BridgePublishes
  <2>1. PICK vs \in Seq(ToSet(Vars)) :
          Notify(vs) /\ \A v \in ToSet(Vars) : v \notin ToSet(vs) => published'[v] = published[v]
    BY <1>1, <1>8, BridgePublishesTypes
  <2>2. UNCHANGED <<main, sess, client, tk, matrix, check, label, fresh, mishap>>
    BY <1>8 DEF BridgePublishes, fields, widgets
  <2>3. QED
    BY <1>1, <2>1, <2>2, NotifyTells
<1>9. CASE CloseWindow \/ CloseWaited
  BY <1>9 DEF CloseWindow, CloseWaited, Exit, Tells
<1>10. QED
  BY <1>2, <1>3, <1>4, <1>5, <1>6, <1>7, <1>8, <1>9 DEF GuiNext, Operator

\* When the widgets are for the slots of the bridge, they are in its order, and the place
\* of a slot is the same on both sides.
LEMMA SamePlaces ==
  ASSUME GuiTypes, ToSet(matrix.slots) = ToSet(active)
  PROVE  /\ matrix.slots = active
         /\ \A i \in DOMAIN active : SelectInSeq(matrix.slots, LAMBDA s : s = active[i]) = i
<1>1. active \in Seq(Nat) /\ ValidSlots \in Seq(Nat) /\ active \in ActiveSlots
  BY TheSlots DEF GuiTypes, PublishedTypes
<1>2. Ascending(active) /\ Ascending(ValidSlots)
  BY <1>1, GuiAssumption
<1>3. matrix.slots = active
  BY <1>1, <1>2, OneOrder DEF GuiTypes, MatrixTypes
<1>4. ASSUME NEW i \in DOMAIN active PROVE SelectInSeq(active, LAMBDA s : s = active[i]) = i
  <2>1. Len(active) \in Nat /\ DOMAIN active = 1 .. Len(active) /\ \A j \in DOMAIN active : active[j] \in Nat
    BY <1>1, LenProperties, ElementOfSeq
  <2>2. \A j \in 1 .. Len(active) : active[j] = active[i] => j = i
    BY <1>2, <2>1 DEF Ascending
  <2>3. {j \in 1 .. Len(active) : active[j] = active[i]} = {i}
    BY <2>1, <2>2
  <2>4. SelectInSeq(active, LAMBDA s : s = active[i]) =
          LET I == {j \in 1 .. Len(active) : active[j] = active[i]} IN IF I # {} THEN Min(I) ELSE 0
    BY DEF SelectInSeq
  <2>5. QED
    BY <2>3, <2>4 DEF Min
<1>5. QED
  BY <1>3, <1>4

\* In the states the invariant describes, what has settled is shown.
LEMMA SettledShows ==
  ASSUME GuiTypes, Phase, Tells, Regular, Settled
  PROVE  \A v \in ToSet(Vars) : Shows(v)
<1> SUFFICES ASSUME NEW v \in ToSet(Vars) PROVE Shows(v)
  OBVIOUS
<1>1. /\ main = "loop" /\ tk = <<>> /\ sess[client] = "subscribed" /\ queue[client] = <<>>
  BY DEF Settled
<1>2. ~LastUpdate(queue[client], v, published[v]) /\ ~LastUpdate(tk, v, published[v])
  BY <1>1 DEF LastUpdate
<1>3. QED
  BY <1>1, <1>2 DEF Tells, Told

LEMMA ShownAgrees ==
  ASSUME GuiTypes, ToSet(matrix.slots) = ToSet(active), NEW v \in fresh, v \in ToSet(Vars), Shows(v)
  PROVE  Agrees(v)
<1>1. CASE v \notin ArrayVars
  BY <1>1 DEF Shows, Agrees
<1>2. CASE v \in ArrayVars
  <2>1. SUFFICES ASSUME NEW i \in DOMAIN active, NEW ch \in 1 .. NumChannels
        PROVE  matrix.shown[v][Position(SelectInSeq(matrix.slots, LAMBDA s : s = active[i]), ch)]
                 = published[v][Position(i, ch)]
    BY <1>2 DEF Agrees
  <2>2. SelectInSeq(matrix.slots, LAMBDA s : s = active[i]) = i /\ matrix.slots = active
    BY SamePlaces
  <2>3. active \in Seq(Int) /\ i \in 1 .. Len(active)
    BY TheSlots, LenProperties DEF GuiTypes, PublishedTypes
  <2>4. Position(i, ch) \in 1 .. NumModules(active)
    BY <2>3, PositionInArray
  <2>5. /\ DOMAIN matrix.shown[v] = 1 .. NumModules(active)
        /\ DOMAIN published[v] = 1 .. NumModules(active)
    BY <1>2, <2>2 DEF GuiTypes, MatrixTypes, PublishedTypes, Values
  <2>6. matrix.shown[v][Position(i, ch)] = published[v][Position(i, ch)]
    BY <1>2, <2>4, <2>5 DEF Shows
  <2>7. QED
    BY <2>2, <2>6
<1>3. QED
  BY <1>1, <1>2

GuiInv == GuiTypes /\ Phase /\ Tells

LEMMA GuiInvInitially == GuiInit => GuiInv
<1> SUFFICES ASSUME GuiInit PROVE GuiInv
  OBVIOUS
<1>1. client = 0 /\ sess[0] = "none"
  BY GuiAssumption DEF GuiInit, Sessions
<1>2. QED
  BY <1>1, TypesInitially, PhaseInitially DEF GuiInv, Tells

LEMMA GuiInvKept == GuiInv /\ [GuiNext]_guiVars => GuiInv'
<1> SUFFICES ASSUME GuiInv, GuiNext \/ UNCHANGED guiVars PROVE GuiInv'
  OBVIOUS
<1>1. GuiTypes' /\ Phase'
  BY TypesKept, PhaseKept DEF GuiInv
<1>2. QED
  BY <1>1, TellsKept DEF GuiInv

LEMMA GuiInvShows == GuiInv /\ Regular => ShownIsPublished
<1> SUFFICES ASSUME GuiInv, Regular, Settled, ToSet(matrix.slots) = ToSet(active), NEW v \in fresh
             PROVE  Agrees(v)
  BY DEF ShownIsPublished
<1>1. CASE v \in ToSet(Vars)
  BY <1>1, SettledShows, ShownAgrees DEF GuiInv
<1>2. CASE v \notin ToSet(Vars)
  BY <1>2, TheVars DEF Agrees
<1>3. QED
  BY <1>1, <1>2

\* Whatever the interleaving of the initial reads, the notifications and the callbacks, the
\* widgets that have been told show what the bridge publishes, module by module, once
\* nothing is under way, for every number of variables, channels, slots and clicks, as long
\* as connections do not overlap or no connect or disconnect has failed or met another.
THEOREM WidgetsShow == GuiSpec => [](Regular => ShownIsPublished)
<1>1. GuiInv => (Regular => ShownIsPublished)
  BY GuiInvShows
<1>2. QED
  BY <1>1, GuiInvInitially, GuiInvKept, PTL DEF GuiSpec

\* If Connect is pressed again only after a Disconnect that has closed the session, the
\* widgets agree with the bridge once nothing is under way, even when reads, timeouts and
\* disconnections fail on the way.
THEOREM WidgetsShowWithoutOverlap ==
  ASSUME Overlap = FALSE
  PROVE  GuiSpec => []ShownIsPublished
<1>1. GuiInv => ShownIsPublished
  BY GuiInvShows DEF Regular
<1>2. QED
  BY <1>1, GuiInvInitially, GuiInvKept, PTL DEF GuiSpec

\* The label says whether the device is connected once nothing is under way, unless a
\* connect or disconnect has failed or met another one (_update_ui).
THEOREM LabelTells == GuiSpec => []LabelIsTrue
<1>1. GuiInv => LabelIsTrue
  <2> SUFFICES ASSUME GuiInv, Settled, mishap = FALSE
               PROVE  label = IF published["device_connected"] THEN "Connected" ELSE "Offline"
    BY DEF LabelIsTrue, GuiInv, GuiTypes, SimpleTypes
  <2>1. Shows("device_connected")
    BY SettledShows, TheVars DEF GuiInv, Regular
  <2>2. QED
    BY <2>1 DEF Shows
<1>2. QED
  BY <1>1, GuiInvInitially, GuiInvKept, PTL DEF GuiSpec

=============================================================================
