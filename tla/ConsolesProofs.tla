--------------------------- MODULE ConsolesProofs ---------------------------
(* Proofs about the terminal clients: what the display survives (Tui), what a  *)
(* reconnection restores (OpcuaCli), what is left in the stream (TcpCli).      *)
EXTENDS Tui, OpcuaCli, TcpCli, TLAPS

-----------------------------------------------------------------------------
(* Tui *)

LEMMA ReadOrderFacts ==
  /\ Len(ReadOrder) = 8
  /\ Arrays = {"CrateMCFThreshold", "BoardSlotId", "BoardCurrentLimit", "ModulePowerEnabled",
               "ModuleState", "ModuleTriggerEnabled", "ModuleTriggerDelay"}
  /\ ReadOrder[1] = "device_connected" /\ ReadOrder[2] = "CrateMCFThreshold"
  /\ ReadOrder[3] = "BoardSlotId" /\ ReadOrder[4] = "BoardCurrentLimit"
  /\ ReadOrder[5] = "ModulePowerEnabled" /\ ReadOrder[6] = "ModuleState"
  /\ ReadOrder[7] = "ModuleTriggerEnabled" /\ ReadOrder[8] = "ModuleTriggerDelay"
<1>1. Len(ReadOrder) = 8 /\ DOMAIN ReadOrder = 1 .. 8
  BY DEF ReadOrder
<1>2. /\ ReadOrder[1] = "device_connected" /\ ReadOrder[2] = "CrateMCFThreshold"
      /\ ReadOrder[3] = "BoardSlotId" /\ ReadOrder[4] = "BoardCurrentLimit"
      /\ ReadOrder[5] = "ModulePowerEnabled" /\ ReadOrder[6] = "ModuleState"
      /\ ReadOrder[7] = "ModuleTriggerEnabled" /\ ReadOrder[8] = "ModuleTriggerDelay"
  BY DEF ReadOrder
<1>3. Arrays = {ReadOrder[i] : i \in 1 .. 8} \ {"device_connected"}
  BY <1>1 DEF Arrays
<1>4. 1 .. 8 = {1, 2, 3, 4, 5, 6, 7, 8}
  OBVIOUS
<1>5. QED
  BY <1>1, <1>2, <1>3, <1>4

\* What the current update has read is there.
ReadSoFar ==
  display.pc = "read" =>
    /\ display.at < 8
    /\ \A i \in 1 .. display.at : ReadOrder[i] \in Arrays => ReadOrder[i] \in seen

TuiInv ==
  /\ display \in [pc : {"connect", "poll", "read", "draw", "wait", "bye", "gone", "crashed"},
                  at : 0 .. 8]
  /\ seen \subseteq Arrays
  /\ ReadSoFar
  /\ (filled = TRUE) => seen = Arrays

LEMMA TuiInitially == TuiInit => TuiInv
  BY DEF TuiInit, TuiInv, ReadSoFar

\* Where the display's task goes.
LEMMA Goes ==
  ASSUME NEW pc \in {"poll", "read", "draw", "wait", "bye", "gone", "crashed"}, To(pc)
  PROVE  /\ display'.pc = pc /\ display'.at = 0
         /\ display' \in [pc : {"connect", "poll", "read", "draw", "wait", "bye", "gone",
                                "crashed"}, at : 0 .. 8]
  BY DEF To

\* Steps that leave what has been read alone.
LEMMA StaysRead ==
  ASSUME TuiInv, UNCHANGED <<seen, filled, display>>
  PROVE  TuiInv'
  BY DEF TuiInv, ReadSoFar

LEMMA GoesOn ==
  ASSUME TuiInv, UNCHANGED <<seen, filled>>,
         NEW pc \in {"poll", "read", "draw", "wait", "bye", "gone", "crashed"}, To(pc)
  PROVE  TuiInv'
<1>1. ReadSoFar'
  BY Goes DEF ReadSoFar
<1>2. QED
  BY <1>1, Goes DEF TuiInv

LEMMA ReadKeepsInv == TuiInv /\ ReadVar => TuiInv'
<1> SUFFICES ASSUME TuiInv, ReadVar PROVE TuiInv'
  OBVIOUS
<1> DEFINE v == ReadOrder[display.at + 1]
<1>0. /\ display.pc = "read" /\ display.at \in 0 .. 7
      /\ \A i \in 1 .. display.at : ReadOrder[i] \in Arrays => ReadOrder[i] \in seen
      /\ seen \subseteq Arrays
      /\ display \in [pc : {"connect", "poll", "read", "draw", "wait", "bye", "gone", "crashed"},
                      at : 0 .. 8]
  BY DEF ReadVar, TuiInv, ReadSoFar
<1>1. CASE UpdateDone /\ UNCHANGED <<seen, seenDevice, filled>>
  BY <1>1, GoesOn DEF UpdateDone
<1>2. CASE /\ seen' = seen \cup ({v} \cap Arrays)
           /\ Advance
  <2>1. seen' \subseteq Arrays
    BY <1>0, <1>2
  <2>2. \A i \in 1 .. display.at + 1 : ReadOrder[i] \in Arrays => ReadOrder[i] \in seen'
    BY <1>0, <1>2
  <2>3. CASE display.at + 1 = 8
    <3>1. To("draw")
      BY <1>2, <2>3, ReadOrderFacts DEF Advance, UpdateDone
    <3>2. seen' = Arrays
      <4>1. \A i \in 2 .. 8 : ReadOrder[i] \in Arrays => ReadOrder[i] \in seen'
        BY <1>0, <2>2, <2>3
      <4>2. Arrays \subseteq seen'
        BY <4>1, ReadOrderFacts
      <4>3. QED
        BY <2>1, <4>2
    <3>3. ReadSoFar'
      BY <3>1, Goes DEF ReadSoFar
    <3>4. QED
      BY <2>1, <3>1, <3>2, <3>3, Goes DEF TuiInv
  <2>4. CASE display.at + 1 # 8
    <3>1. display' = [display EXCEPT !.at = display.at + 1] /\ UNCHANGED filled
      BY <1>2, <2>4, ReadOrderFacts DEF Advance
    <3>2. display'.pc = "read" /\ display'.at = display.at + 1 /\ display'.at \in 0 .. 7
      BY <1>0, <2>4, <3>1
    <3>3. ReadSoFar'
      BY <2>2, <3>2 DEF ReadSoFar
    <3>4. (filled' = TRUE) => seen' = Arrays
      BY <1>2, <2>1, <3>1 DEF TuiInv
    <3>5. display' \in [pc : {"connect", "poll", "read", "draw", "wait", "bye", "gone",
                              "crashed"}, at : 0 .. 8]
      BY <1>0, <3>1, <3>2
    <3>6. QED
      BY <2>1, <3>3, <3>4, <3>5 DEF TuiInv
  <2>5. QED
    BY <2>3, <2>4
<1>3. QED
  BY <1>1, <1>2 DEF ReadVar

LEMMA TuiInductive == TuiInv /\ [TuiNext]_tuiVars => TuiInv'
<1> SUFFICES ASSUME TuiInv, [TuiNext]_tuiVars PROVE TuiInv'
  OBVIOUS
<1>1. CASE ReadVar
  BY <1>1, ReadKeepsInv
<1>2. CASE BridgeSteps
  BY <1>2, StaysRead
     DEF BridgeSteps, PublishFast, PublishSlow, PublishLoss, SessionLost, SessionBack, shown_
<1>3. CASE TuiConnect \/ Poll_ \/ Draw \/ Wait \/ Bye
  <2>1. \E pc \in {"poll", "read", "draw", "wait", "bye", "gone", "crashed"} : To(pc)
    BY <1>3 DEF TuiConnect, Poll_, Draw, Wait, Bye
  <2>2. UNCHANGED <<seen, filled>>
    BY <1>3 DEF TuiConnect, Poll_, Draw, Wait, Bye, shown_
  <2>3. QED
    BY <2>1, <2>2, GoesOn
<1>4. CASE Keys \/ CallDone
  <2>1. UNCHANGED <<seen, filled, display>>
    BY <1>4 DEF Keys, KeyQuit, KeyArrow, KeyView, KeyCommand, KeyStep, CallDone, shown_
  <2>2. QED
    BY <2>1, StaysRead
<1>5. CASE UNCHANGED tuiVars
  BY <1>5, StaysRead DEF tuiVars, shown_
<1>6. QED
  BY <1>1, <1>2, <1>3, <1>4, <1>5 DEF TuiNext, DisplaySteps

-----------------------------------------------------------------------------
(* Types of the display's state, of which TuiInv has display and seen *)

BridgeFlags ==
  /\ serving \in BOOLEAN /\ interrupted \in BOOLEAN /\ device \in BOOLEAN
  /\ goodFast \in BOOLEAN /\ goodSlow \in BOOLEAN

ClientFlags ==
  /\ running \in BOOLEAN /\ redraw \in BOOLEAN /\ due \in BOOLEAN
  /\ seenDevice \in BOOLEAN /\ torn \in BOOLEAN /\ filled \in BOOLEAN

TuiFlags == BridgeFlags /\ ClientFlags

TuiChoices ==
  /\ goodSlow = TRUE => goodFast = TRUE
  /\ input \in {"none", "keys", "call", "dead", "ended"}
  /\ viewNarrow \in Views /\ viewRight \in Views \ {"CURRENT"}
  /\ sel \in 0 .. NumSlots - 1

LEMMA SlotChoice ==
  ASSUME NEW s \in 0 .. NumSlots - 1, NEW d \in {-1, 1}
  PROVE  (s + d) % NumSlots \in 0 .. NumSlots - 1
<1>1. NumSlots \in Nat \ {0} /\ s + d \in Int
  BY TuiAssumption
<1>2. \A a \in Int : a % NumSlots \in 0 .. NumSlots - 1
  BY <1>1
<1>3. QED
  BY <1>1, <1>2

LEMMA BridgeFlagStep == BridgeFlags /\ [TuiNext]_tuiVars => BridgeFlags'
<1> SUFFICES ASSUME BridgeFlags, [TuiNext]_tuiVars PROVE BridgeFlags'
  OBVIOUS
<1>1. CASE DisplaySteps \/ Keys \/ CallDone \/ UNCHANGED tuiVars
  <2>1. UNCHANGED <<outside, published_>>
    <3>1. CASE DisplaySteps
      BY <3>1 DEF DisplaySteps, TuiConnect, Poll_, ReadVar, Draw, Wait, Bye
    <3>2. CASE Keys \/ CallDone
      BY <3>2 DEF Keys, KeyQuit, KeyArrow, KeyView, KeyCommand, KeyStep, CallDone
    <3>3. CASE UNCHANGED tuiVars
      BY <3>3 DEF tuiVars
    <3>4. QED
      BY <1>1, <3>1, <3>2, <3>3
  <2>2. QED
    BY <2>1 DEF BridgeFlags, outside, published_
<1>2. CASE PublishFast
  BY <1>2 DEF PublishFast, BridgeFlags, outside
<1>3. CASE PublishSlow
  BY <1>3 DEF PublishSlow, BridgeFlags, outside
<1>4. CASE SessionBack
  BY <1>4 DEF SessionBack, BridgeFlags, published_
<1>5. CASE PublishLoss \/ SessionLost
  <2>1. interrupted' \in BOOLEAN
    BY <1>5 DEF PublishLoss, SessionLost, Interrupts
  <2>2. CASE PublishLoss
    BY <2>1, <2>2 DEF PublishLoss, BridgeFlags
  <2>3. CASE SessionLost
    BY <2>1, <2>3 DEF SessionLost, BridgeFlags, published_
  <2>4. QED
    BY <1>5, <2>2, <2>3
<1>6. QED
  BY <1>1, <1>2, <1>3, <1>4, <1>5 DEF TuiNext, BridgeSteps

LEMMA ClientFlagStep == TuiFlags /\ [TuiNext]_tuiVars => ClientFlags'
<1> SUFFICES ASSUME TuiFlags, [TuiNext]_tuiVars PROVE ClientFlags'
  OBVIOUS
<1> USE DEF TuiFlags, ClientFlags
<1>1. CASE ReadVar
  <2>1. /\ UNCHANGED <<torn, running>>
        /\ \/ UNCHANGED seenDevice \/ seenDevice' = device
    BY <1>1 DEF ReadVar
  <2>2. /\ due' \in {due, FALSE} /\ redraw' \in {redraw, TRUE} /\ filled' \in {filled, TRUE}
    BY <1>1 DEF ReadVar, Advance, UpdateDone
  <2>3. QED
    BY <2>1, <2>2 DEF BridgeFlags
<1>2. CASE TuiConnect
  BY <1>2 DEF TuiConnect, shown_
<1>3. CASE Poll_
  <2>1. torn' \in BOOLEAN
    BY <1>3 DEF Poll_
  <2>2. UNCHANGED <<running, redraw, due, seenDevice, filled>>
    BY <1>3 DEF Poll_, keys_
  <2>3. QED
    BY <2>1, <2>2
<1>4. CASE Draw
  <2>1. UNCHANGED <<running, due, seenDevice, torn, filled>> /\ redraw' \in {redraw, FALSE}
    BY <1>4 DEF Draw, shown_
  <2>2. QED
    BY <2>1
<1>5. CASE Wait
  <2>1. UNCHANGED <<running, redraw, seenDevice, torn, filled>> /\ due' \in {due, TRUE}
    BY <1>5 DEF Wait, shown_
  <2>2. QED
    BY <2>1
<1>6. CASE Bye
  BY <1>6 DEF Bye, shown_
<1>7. CASE Keys \/ CallDone
  <2>1. UNCHANGED <<due, seenDevice, torn, filled>>
    BY <1>7 DEF Keys, KeyQuit, KeyArrow, KeyView, KeyCommand, KeyStep, CallDone, shown_
  <2>2. running' \in {running, FALSE} /\ redraw' \in {redraw, TRUE}
    BY <1>7 DEF Keys, KeyQuit, KeyArrow, KeyView, KeyCommand, KeyStep, CallDone
  <2>3. QED
    BY <2>1, <2>2
<1>8. CASE BridgeSteps \/ UNCHANGED tuiVars
  <2>1. UNCHANGED <<running, redraw, due, seenDevice, filled>>
    BY <1>8 DEF BridgeSteps, PublishFast, PublishSlow, PublishLoss, SessionLost, SessionBack,
                tuiVars, keys_, shown_
  <2>2. UNCHANGED torn \/ torn' = (torn \/ Between)
    BY <1>8 DEF BridgeSteps, PublishFast, PublishSlow, PublishLoss, SessionLost, SessionBack,
                tuiVars, shown_
  <2>3. torn' \in BOOLEAN
    BY <2>2
  <2>4. QED
    BY <2>1, <2>3
<1>9. QED
  BY <1>1, <1>2, <1>3, <1>4, <1>5, <1>6, <1>7, <1>8 DEF TuiNext, DisplaySteps

LEMMA FlagStep == TuiFlags /\ [TuiNext]_tuiVars => TuiFlags'
  BY BridgeFlagStep, ClientFlagStep DEF TuiFlags

LEMMA ChoiceStep == TuiFlags /\ TuiChoices /\ [TuiNext]_tuiVars => TuiChoices'
<1> SUFFICES ASSUME TuiFlags, TuiChoices, [TuiNext]_tuiVars PROVE TuiChoices'
  OBVIOUS
<1> USE DEF TuiChoices, published_, views, outside
<1>1. CASE ReadVar \/ TuiConnect \/ Poll_ \/ Draw \/ Wait \/ Bye
  BY <1>1 DEF ReadVar, TuiConnect, Poll_, Draw, Wait, Bye, keys_
<1>2. CASE KeyArrow
  <2>1. sel' \in 0 .. NumSlots - 1
    BY <1>2, SlotChoice DEF KeyArrow
  <2>2. QED
    BY <1>2, <2>1 DEF KeyArrow
<1>3. CASE KeyView
  <2>1. viewNarrow' \in Views /\ viewRight' \in Views \ {"CURRENT"}
    BY <1>3 DEF KeyView, Views
  <2>2. QED
    BY <1>3, <2>1 DEF KeyView
<1>4. CASE KeyQuit \/ KeyCommand \/ KeyStep \/ CallDone
  BY <1>4 DEF KeyQuit, KeyCommand, KeyStep, CallDone
<1>5. CASE BridgeSteps
  BY <1>5 DEF BridgeSteps, PublishFast, PublishSlow, PublishLoss, SessionLost, SessionBack,
             keys_, TuiFlags
<1>6. CASE UNCHANGED tuiVars
  BY <1>6 DEF tuiVars, keys_
<1>7. QED
  BY <1>1, <1>2, <1>3, <1>4, <1>5, <1>6 DEF TuiNext, DisplaySteps, Keys

LEMMA TuiTypesInitially == TuiInit => TuiFlags /\ TuiChoices
<1> SUFFICES ASSUME TuiInit PROVE TuiFlags /\ TuiChoices
  OBVIOUS
<1>1. TuiFlags
  BY DEF TuiInit, TuiFlags, BridgeFlags, ClientFlags
<1>2. goodSlow = TRUE => goodFast = TRUE
  BY DEF TuiInit
<1>3. viewNarrow \in Views /\ viewRight \in Views \ {"CURRENT"}
  BY DEF TuiInit, Views
<1>4. input = "none" /\ sel \in 0 .. NumSlots - 1
  BY TuiAssumption DEF TuiInit
<1>5. QED
  BY <1>1, <1>2, <1>3, <1>4 DEF TuiChoices

\* For any number of slots of a crate and any sizes: the selected slot exists, and the
\* matrices chosen are ones that are drawn (handle_input), among the types.
THEOREM TuiTypesAlways == TuiSpec => []TuiTypeOK
<1>1. TuiInv /\ TuiFlags /\ TuiChoices => TuiTypeOK
  BY ReadOrderFacts DEF TuiInv, TuiFlags, BridgeFlags, ClientFlags, TuiChoices, TuiTypeOK
<1>2. QED
  BY <1>1, TuiTypesInitially, TuiInitially, TuiInductive, FlagStep, ChoiceStep, PTL
     DEF TuiSpec

-----------------------------------------------------------------------------
(* What the display survives *)

\* An update that has read the boards' limits found the slow variables Good, and
\* reads on to the end unless something goes away under it.
Steady ==
  interrupted = FALSE =>
    /\ display.pc = "read" /\ display.at >= 1 => serving = TRUE
    /\ display.pc = "read" /\ display.at >= 4 => goodSlow = TRUE
    /\ filled = FALSE /\ ~(display.pc = "read" /\ display.at >= 4) =>
         "ModulePowerEnabled" \notin seen

TuiAll == TuiInv /\ TuiFlags /\ TuiChoices /\ Steady

LEMMA SteadyRead == TuiAll /\ ReadVar => Steady'
<1> SUFFICES ASSUME TuiAll, ReadVar, interrupted' = FALSE PROVE Steady'
  BY DEF Steady
<1> USE DEF TuiAll, Steady
<1> DEFINE at == display.at
           v == ReadOrder[at + 1]
<1>0. /\ display.pc = "read" /\ at \in 0 .. 7
      /\ display \in [pc : {"connect", "poll", "read", "draw", "wait", "bye", "gone", "crashed"},
                      at : 0 .. 8]
      /\ interrupted = FALSE /\ UNCHANGED <<serving, goodSlow>>
  BY DEF ReadVar, TuiInv, ReadSoFar, outside, published_
<1>1. CASE ~Readable(v) /\ UpdateDone /\ UNCHANGED <<seen, filled>>
  <2>1. at < 4
    <3>1. SUFFICES ASSUME at >= 4 PROVE FALSE
      BY <1>0
    <3>2. serving = TRUE /\ goodSlow = TRUE /\ goodFast = TRUE
      BY <1>0, <3>1 DEF TuiChoices
    <3>3. QED
      BY <1>1, <3>2 DEF Readable
  <2>2. display'.pc = "draw"
    BY <1>1 DEF UpdateDone, To
  <2>3. QED
    BY <1>0, <1>1, <2>1, <2>2
<1>2. CASE Readable(v) /\ seen' = seen \cup ({v} \cap Arrays) /\ Advance
  <2>1. serving = TRUE /\ (at = 3 => goodSlow = TRUE)
    BY <1>2, ReadOrderFacts DEF Readable, SlowVars
  <2>2. at < 4 => ("ModulePowerEnabled" \notin seen => "ModulePowerEnabled" \notin seen')
    BY <1>0, <1>2, ReadOrderFacts
  <2>3. CASE at = 7
    <3>1. filled' = TRUE /\ display'.pc = "draw"
      BY <1>2, <2>3, ReadOrderFacts DEF Advance, UpdateDone, To
    <3>2. QED
      BY <3>1
  <2>4. CASE at # 7
    <3>0. display.at + 1 # Len(ReadOrder)
      BY <1>0, <2>4, ReadOrderFacts
    <3>1. UNCHANGED filled /\ display' = [display EXCEPT !.at = at + 1]
      BY <1>2, <3>0 DEF Advance
    <3>2. display'.pc = "read" /\ display'.at = at + 1
      BY <1>0, <3>1
    <3>3. at + 1 >= 4 => goodSlow' = TRUE
      BY <1>0, <2>1
    <3>4. QED
      BY <1>0, <2>1, <2>2, <3>1, <3>2, <3>3
  <2>5. QED
    BY <2>3, <2>4
<1>3. QED
  BY <1>1, <1>2 DEF ReadVar

LEMMA SteadyStep == TuiAll /\ [TuiNext]_tuiVars => Steady'
<1> SUFFICES ASSUME TuiAll, [TuiNext]_tuiVars PROVE Steady'
  OBVIOUS
<1>0. display.at \in 0 .. 8 /\ interrupted \in BOOLEAN
  BY DEF TuiAll, TuiInv, TuiFlags, BridgeFlags
<1>1. CASE ReadVar
  BY <1>1, SteadyRead
<1>2. CASE TuiConnect \/ Poll_ \/ Draw \/ Wait \/ Bye
  <2>1. \E pc \in {"poll", "read", "draw", "wait", "bye", "gone", "crashed"} : To(pc)
    BY <1>2 DEF TuiConnect, Poll_, Draw, Wait, Bye
  <2>2. display'.at = 0
    BY <2>1, Goes
  <2>3. display.pc # "read"
    BY <1>2 DEF TuiConnect, Poll_, Draw, Wait, Bye
  <2>4. UNCHANGED <<interrupted, seen, filled>>
    BY <1>2 DEF TuiConnect, Poll_, Draw, Wait, Bye, shown_, outside
  <2>5. QED
    BY <2>2, <2>3, <2>4 DEF TuiAll, Steady
<1>3. CASE Keys \/ CallDone \/ UNCHANGED tuiVars
  <2>1. UNCHANGED <<serving, interrupted, goodSlow, seen, filled, display>>
    BY <1>3 DEF Keys, KeyQuit, KeyArrow, KeyView, KeyCommand, KeyStep, CallDone, shown_,
                outside, published_, tuiVars
  <2>2. QED
    BY <2>1 DEF TuiAll, Steady
<1>4. CASE PublishFast \/ PublishSlow \/ SessionBack
  <2>1. UNCHANGED <<interrupted, seen, filled, display>>
    BY <1>4 DEF PublishFast, PublishSlow, SessionBack, outside, shown_
  <2>2. (serving = TRUE => serving' = TRUE) /\ (goodSlow = TRUE => goodSlow' = TRUE)
    BY <1>4 DEF PublishFast, PublishSlow, SessionBack, outside, published_
  <2>3. QED
    BY <2>1, <2>2 DEF TuiAll, Steady
<1>5. CASE PublishLoss \/ SessionLost
  <2>1. Interrupts /\ UNCHANGED <<seen, filled, display>>
    BY <1>5 DEF PublishLoss, SessionLost, shown_
  <2>2. interrupted' = FALSE =>
          interrupted = FALSE /\ ~(display.pc = "read" /\ display.at > 0)
    BY <1>0, <2>1 DEF Interrupts
  <2>3. QED
    BY <1>0, <2>1, <2>2 DEF TuiAll, Steady
<1>6. QED
  BY <1>1, <1>2, <1>3, <1>4, <1>5 DEF TuiNext, DisplaySteps, BridgeSteps

\* On 80 columns or more the matrices of a crate fit in each of the four layouts
\* (draw: 160, 240 and 320 leave room for two, three and four); what needs more room
\* is the lines of the boards' values.
LEMMA MatricesFit == \A w \in Nat : w >= 80 => LastColumn(w) < w
<1> SUFFICES ASSUME NEW w \in Nat, w >= 80 PROVE LastColumn(w) < w
  OBVIOUS
<1>1. NumSlots \in 1 .. 18
  BY TuiAssumption
<1>2. CASE w >= 320
  BY <1>1, <1>2 DEF LastColumn, Offset
<1>3. CASE w \in 240 .. 319
  BY <1>1, <1>3 DEF LastColumn, Offset
<1>4. CASE w \in 160 .. 239
  BY <1>1, <1>4 DEF LastColumn, Offset
<1>5. CASE w < 160
  BY <1>1, <1>5 DEF LastColumn, Offset
<1>6. QED
  BY <1>2, <1>3, <1>4, <1>5

LEMMA RoomFits == Roomy => \A t \in Terminals : Fits(t)
<1> SUFFICES ASSUME Roomy, NEW t \in Terminals PROVE Fits(t)
  OBVIOUS
<1>1. t.h \in Nat /\ t.w \in Nat /\ t.w >= 80 /\ NumSlots \in 1 .. 18
  BY TuiAssumption
<1>2. 30 < t.h /\ 4 * NumSlots + 15 < t.w
  BY DEF Roomy
<1>3. LastColumn(t.w) < t.w
  BY <1>1, MatricesFit
<1>4. QED
  BY <1>1, <1>2, <1>3 DEF Fits

\* For any slots of a crate, and a terminal resized between any sizes with room for
\* them, neither a place outside of the terminal nor an array that is not there ends
\* the display, but after a loss between two reads before the first complete update.
THEOREM DisplaySurvivesCorrect == TuiSpec => DisplaySurvives
<1>1. ASSUME TuiAll, [TuiNext]_tuiVars, Roomy, display'.pc = "crashed", display.pc # "crashed"
      PROVE  interrupted = TRUE /\ filled = FALSE
  <2>1. CASE Draw
    <3>1. display.pc = "draw" /\ \E t \in Terminals : ~(Fits(t) /\ Indexable(t))
      BY <1>1, <2>1 DEF Draw, To
    <3>2. PICK t \in Terminals : ~Indexable(t)
      BY <1>1, <3>1, RoomFits
    <3>3. seen # Arrays /\ "ModulePowerEnabled" \in seen
      <4>1. "ModulePowerEnabled" \in seen
        BY <3>2 DEF Indexable
      <4>2. PICK view \in Drawn(t.w) : ~(Needs(view) \subseteq seen)
        BY <3>2 DEF Indexable
      <4>3. Needs(view) \subseteq Arrays
        BY ReadOrderFacts DEF Needs
      <4>4. QED
        BY <4>1, <4>2, <4>3
    <3>4. filled \in BOOLEAN /\ interrupted \in BOOLEAN
      BY <1>1 DEF TuiAll, TuiFlags, BridgeFlags, ClientFlags
    <3>5. filled = FALSE
      BY <1>1, <3>3, <3>4 DEF TuiAll, TuiInv
    <3>6. QED
      BY <1>1, <3>1, <3>3, <3>4, <3>5 DEF TuiAll, Steady
  <2>2. CASE ReadVar
    <3>1. display.pc = "read"
      BY <2>2 DEF ReadVar
    <3>2. CASE To("draw")
      BY <1>1, <3>2 DEF To
    <3>3. CASE display' = [display EXCEPT !.at = display.at + 1]
      BY <1>1, <3>1, <3>3 DEF TuiAll, TuiInv
    <3>4. QED
      BY <2>2, <3>2, <3>3 DEF ReadVar, Advance, UpdateDone
  <2>3. CASE TuiConnect \/ Poll_ \/ Wait \/ Bye
    <3>1. \E pc \in {"poll", "read", "draw", "bye", "gone"} : To(pc)
      BY <2>3 DEF TuiConnect, Poll_, Wait, Bye
    <3>2. QED
      BY <1>1, <3>1 DEF To
  <2>4. CASE Keys \/ CallDone \/ BridgeSteps \/ UNCHANGED tuiVars
    BY <1>1, <2>4
       DEF Keys, KeyQuit, KeyArrow, KeyView, KeyCommand, KeyStep, CallDone, BridgeSteps,
           PublishFast, PublishSlow, PublishLoss, SessionLost, SessionBack, tuiVars
  <2>5. QED
    BY <1>1, <2>1, <2>2, <2>3, <2>4 DEF TuiNext, DisplaySteps
<1>2. TuiAll /\ [TuiNext]_tuiVars =>
        [Roomy /\ display'.pc = "crashed" =>
           display.pc = "crashed" \/ (interrupted /\ ~filled)]_tuiVars
  BY <1>1
<1>3. TuiInit => TuiFlags /\ TuiChoices /\ Steady
  <2>1. TuiInit => display.pc = "connect" /\ seen = {}
    BY DEF TuiInit
  <2>2. QED
    BY <2>1, TuiTypesInitially DEF Steady
<1>4. TuiAll /\ [TuiNext]_tuiVars => TuiAll'
  BY TuiInductive, FlagStep, ChoiceStep, SteadyStep DEF TuiAll
<1>5. TuiInit => TuiAll
  BY <1>3, TuiInitially DEF TuiAll
<1>6. QED
  BY <1>2, <1>4, <1>5, PTL DEF TuiSpec, DisplaySurvives

-----------------------------------------------------------------------------
(* OpcuaCli *)

OpcuaTypes ==
  /\ cli \in [at : {"start", "prompt", "ensure", "run", "connect", "restore", "walk", "bye",
                    "gone"},
              cmd : Commands_]
  /\ handles \subseteq CliVars /\ names \subseteq Names
  /\ todo \subseteq Names /\ left \subseteq CliVars
  /\ wanted \subseteq CliVars

\* MonitoredIsRemembered at every moment; while subscribe("all") goes on, the
\* name is there.
Remembered ==
  /\ handles # {} => "all" \in names \/ handles \subseteq names
  /\ names \cap CliVars \subseteq handles
  /\ At("walk") => "all" \in names

\* The session that the bridge has is this client's, with its subscription.
Consistent == session = "up" => found = TRUE /\ sub # "dead"

\* Where the operator's wishes are, from one step of a reconnection to the next.
Kept ==
  /\ At("start") => wanted = {} /\ sub = "none"
  /\ restoring # "no" => cli.at \in {"connect", "restore", "walk"}
  /\ cli.at \in {"connect", "restore"} => restoring # "no"
  /\ unrestored = {} =>
       /\ cli.at \in {"prompt", "ensure", "run"} \/ (At("walk") /\ restoring = "no") =>
            Consistent /\ wanted \subseteq handles
       /\ At("connect") => sub = "none" /\ ("all" \in todo \/ wanted \subseteq todo)
       /\ At("restore") \/ (At("walk") /\ restoring # "no") =>
            /\ Consistent
            /\ \A v \in wanted :
                 v \in handles \/ v \in todo \/ "all" \in todo \/ (At("walk") /\ v \in left)

OpcuaInv == OpcuaTypes /\ Remembered /\ Kept

LEMMA OpcuaInitially == OpcuaInit => OpcuaInv
  BY DEF OpcuaInit, OpcuaInv, OpcuaTypes, Remembered, Kept, Commands_, Names, At

LEMMA ReconnectsKeepsInv ==
  ASSUME OpcuaInv, NEW why \in {"ensure", "command"}, Reconnects(why),
         At("ensure") \/ At("run"), UNCHANGED <<left, wanted, unrestored>>
  PROVE  OpcuaInv'
<1> USE DEF OpcuaInv, OpcuaTypes, Reconnects, At, Goto
<1>1. OpcuaTypes'
  OBVIOUS
<1>2. Remembered'
  BY DEF Remembered
<1>3. Kept'
  BY DEF Kept, Remembered, Names
<1>4. QED
  BY <1>1, <1>2, <1>3

LEMMA SubscribeKeepsInv ==
  ASSUME OpcuaInv, NEW n \in Names, Subscribe_(n),
         At("run") \/ (At("restore") /\ n \in todo)
  PROVE  OpcuaInv'
<1> USE DEF OpcuaInv, OpcuaTypes, At, Goto, Return, nodes
<1>1. CASE /\ n # "all" /\ SubscribeOne(n)
           /\ Return /\ todo' = todo \ {n}
           /\ UNCHANGED <<session, found, restoring, left>>
  <2> USE <1>1 DEF SubscribeOne, Monitors, Told, Unrestored, Names
  <2>1. OpcuaTypes'
    OBVIOUS
  <2>2. Remembered'
    BY DEF Remembered
  <2>3. Kept'
    BY DEF Kept, Consistent, Works
  <2>4. QED
    BY <2>1, <2>2, <2>3
<1>2. CASE /\ n = "all" /\ (sub # "none" \/ Works)
           /\ sub' = IF sub = "none" THEN "live" ELSE sub
           /\ names' = names \cup {"all"}
           /\ left' = CliVars /\ todo' = todo \ {n}
           /\ Goto("walk")
           /\ UNCHANGED <<session, found, handles, restoring, wanted, unrestored>>
  <2>1. OpcuaTypes'
    BY <1>2 DEF Names
  <2>2. Remembered'
    BY <1>2, CliVarsAssumption DEF Remembered
  <2>3. Kept'
    BY <1>2 DEF Kept, Consistent, Works
  <2>4. QED
    BY <2>1, <2>2, <2>3
<1>3. CASE sub = "none" /\ Raises /\ UNCHANGED <<session, nodes, wanted>>
  <2>1. OpcuaTypes'
    BY <1>3 DEF Raises, Unrestored
  <2>2. Remembered'
    BY <1>3 DEF Remembered, Raises
  <2>3. Kept'
    BY <1>3 DEF Kept, Consistent, Raises, Unrestored
  <2>4. QED
    BY <2>1, <2>2, <2>3
<1>4. QED
  BY <1>1, <1>2, <1>3 DEF Subscribe_

LEMMA RunKeepsInv == OpcuaInv /\ RunCommand => OpcuaInv'
<1> SUFFICES ASSUME OpcuaInv, RunCommand PROVE OpcuaInv'
  OBVIOUS
<1>0. At("run") /\ cli.cmd.name \in Names
  BY DEF RunCommand, OpcuaInv, OpcuaTypes, Commands_, Names
<1>1. CASE cli.cmd.op = "subscribe" /\ Subscribe_(cli.cmd.name)
  <2>1. PICK n \in Names : n = cli.cmd.name
    BY <1>0
  <2>2. Subscribe_(n)
    BY <1>1, <2>1
  <2>3. QED
    BY <1>0, <2>2, SubscribeKeepsInv
<1>2. CASE /\ IF cli.cmd.name = "all" THEN UnsubscribeAll ELSE UnsubscribeOne(cli.cmd.name)
           /\ Goto("prompt")
           /\ UNCHANGED <<session, found, restoring, todo, left, unrestored>>
  <2> USE <1>0, <1>2 DEF OpcuaInv, OpcuaTypes, Goto, At, UnsubscribeAll, UnsubscribeOne
  <2>1. OpcuaTypes'
    OBVIOUS
  <2>2. Remembered'
    BY DEF Remembered
  <2>3. Kept'
    BY DEF Kept, Consistent
  <2>4. QED
    BY <2>1, <2>2, <2>3
<1>3. CASE Reconnects("command") /\ UNCHANGED <<left, wanted, unrestored>>
  BY <1>0, <1>3, ReconnectsKeepsInv
<1>4. CASE /\ Goto("prompt") \/ Goto("bye")
           /\ UNCHANGED <<session, nodes, restoring, todo, left, wanted, unrestored>>
  <2> USE <1>0, <1>4 DEF OpcuaInv, OpcuaTypes, Goto, At, nodes
  <2>1. OpcuaTypes'
    OBVIOUS
  <2>2. Remembered'
    BY DEF Remembered
  <2>3. Kept'
    BY DEF Kept, Consistent
  <2>4. QED
    BY <2>1, <2>2, <2>3
<1>5. QED
  BY <1>1, <1>2, <1>3, <1>4 DEF RunCommand, Request

LEMMA WalkKeepsInv == OpcuaInv /\ Walk => OpcuaInv'
<1> SUFFICES ASSUME OpcuaInv, Walk PROVE OpcuaInv'
  OBVIOUS
<1> USE DEF OpcuaInv, OpcuaTypes, At, Goto, Return, nodes
<1>0. At("walk")
  BY DEF Walk
<1>1. CASE left = {} /\ Return
           /\ UNCHANGED <<session, nodes, restoring, todo, left, wanted, unrestored>>
  <2>1. OpcuaTypes'
    BY <1>1
  <2>2. Remembered'
    BY <1>0, <1>1 DEF Remembered
  <2>3. Kept'
    BY <1>0, <1>1 DEF Kept, Consistent
  <2>4. QED
    BY <2>1, <2>2, <2>3
<1>2. ASSUME NEW v \in left,
             handles' = handles \cup {v}, left' = left \ {v}, Told(v),
             UNCHANGED <<session, cli, found, sub, names, restoring, todo, unrestored>>
      PROVE  OpcuaInv'
  <2>1. OpcuaTypes'
    BY <1>2 DEF Told
  <2>2. Remembered'
    BY <1>0, <1>2 DEF Remembered
  <2>3. Kept'
    BY <1>0, <1>2 DEF Kept, Consistent, Told
  <2>4. QED
    BY <2>1, <2>2, <2>3
<1>3. CASE Raises /\ UNCHANGED <<session, nodes, wanted>>
  <2>1. OpcuaTypes'
    BY <1>3 DEF Raises
  <2>2. Remembered'
    BY <1>3 DEF Remembered, Raises
  <2>3. Kept'
    BY <1>0, <1>3 DEF Kept, Consistent, Raises, Unrestored
  <2>4. QED
    BY <2>1, <2>2, <2>3
<1>4. QED
  BY <1>1, <1>2, <1>3 DEF Walk

LEMMA OpcuaInductive == OpcuaInv /\ [OpcuaNext]_opcuaVars => OpcuaInv'
<1> SUFFICES ASSUME OpcuaInv, [OpcuaNext]_opcuaVars PROVE OpcuaInv'
  OBVIOUS
<1> USE DEF OpcuaInv, OpcuaTypes, At, Goto, nodes
<1>1. CASE SessionDies
  BY <1>1 DEF SessionDies, Remembered, Kept, Consistent
<1>2. CASE FirstConnect
  BY <1>2 DEF FirstConnect, Remembered, Kept, Consistent
<1>3. ASSUME NEW c \in Commands_, Type(c) PROVE OpcuaInv'
  BY <1>3 DEF Type, Remembered, Kept, Consistent
<1>4. CASE EnsureConnected
  <2>1. CASE Reconnects("ensure")
    BY <1>4, <2>1, ReconnectsKeepsInv DEF EnsureConnected
  <2>2. CASE Goto("run") /\ UNCHANGED <<session, nodes, restoring, todo>>
    BY <1>4, <2>2 DEF EnsureConnected, Remembered, Kept, Consistent
  <2>3. QED
    BY <1>4, <2>1, <2>2 DEF EnsureConnected
<1>5. CASE Connect_
  <2>1. OpcuaTypes'
    BY <1>5 DEF Connect_, Raises
  <2>2. Remembered'
    BY <1>5 DEF Connect_, Raises, Remembered
  <2>3. Kept'
    BY <1>5 DEF Connect_, Raises, Unrestored, Kept, Consistent
  <2>4. QED
    BY <2>1, <2>2, <2>3
<1>6. CASE Restored
  BY <1>6 DEF Restored, Remembered, Kept, Consistent
<1>7. CASE RestoreOne
  BY <1>7, SubscribeKeepsInv DEF RestoreOne
<1>8. CASE Walk
  BY <1>8, WalkKeepsInv
<1>9. CASE RunCommand
  BY <1>9, RunKeepsInv
<1>10. CASE Leave_
  BY <1>10 DEF Leave_, Disconnected_, Remembered, Kept, Consistent
<1>11. CASE EndOfInput \/ UNCHANGED opcuaVars
  BY <1>11 DEF EndOfInput, opcuaVars, Remembered, Kept, Consistent
<1>12. QED
  BY <1>1, <1>2, <1>3, <1>4, <1>5, <1>6, <1>7, <1>8, <1>9, <1>10, <1>11 DEF OpcuaNext

\* Outside a reconnection, each monitored variable stands under a name that the
\* next reconnection saves, and each variable's name has its handle, for any set
\* of variables and any sequence of commands and losses (subscribe, unsubscribe).
THEOREM RememberedCorrect == OpcuaSpec => []MonitoredIsRemembered
<1>1. OpcuaInv => MonitoredIsRemembered
  BY DEF OpcuaInv, Remembered, MonitoredIsRemembered
<1>2. QED
  BY <1>1, OpcuaInitially, OpcuaInductive, PTL DEF OpcuaSpec

\* A command finds the session's own nodes and subscription and all the operator
\* has been told is monitored, unless a reconnection has failed before: the
\* saved names restore every handle, through "all" or one by one (reconnect).
THEOREM RestoresCorrect == OpcuaSpec => []ReconnectRestores
<1>1. OpcuaInv => ReconnectRestores
  BY DEF OpcuaInv, Kept, Consistent, ReconnectRestores, At, Works
<1>2. QED
  BY <1>1, OpcuaInitially, OpcuaInductive, PTL DEF OpcuaSpec

\* The rest of the types.
LEMMA OpcuaTypeStep == OpcuaTypeOK /\ OpcuaTypes' /\ [OpcuaNext]_opcuaVars => OpcuaTypeOK'
<1> SUFFICES ASSUME OpcuaTypeOK, OpcuaTypes', [OpcuaNext]_opcuaVars
             PROVE  /\ session' \in {"up", "down"} /\ found' \in BOOLEAN
                    /\ sub' \in {"none", "live", "dead"}
                    /\ restoring' \in {"no", "ensure", "command"}
                    /\ unrestored' \subseteq {"connect", "subscribe"}
  BY DEF OpcuaTypes, OpcuaTypeOK
<1> USE DEF OpcuaTypeOK, nodes
<1>1. CASE SessionDies \/ FirstConnect
  BY <1>1 DEF SessionDies, FirstConnect
<1>2. CASE EnsureConnected \/ Connect_ \/ Restored
  BY <1>2 DEF EnsureConnected, Reconnects, Connect_, Restored, Raises, Unrestored, Disconnected_
<1>3. CASE RestoreOne \/ Walk
  BY <1>3 DEF RestoreOne, Subscribe_, SubscribeOne, Monitors, Walk, Raises, Unrestored, Told
<1>4. CASE RunCommand
  BY <1>4 DEF RunCommand, Request, Subscribe_, SubscribeOne, Monitors, Raises, Unrestored, Told,
     UnsubscribeAll, UnsubscribeOne, Reconnects, Disconnected_
<1>5. CASE \/ \E c \in Commands_ : Type(c)
           \/ Leave_ \/ EndOfInput
           \/ UNCHANGED opcuaVars
  BY <1>5 DEF Type, Leave_, Disconnected_, EndOfInput, opcuaVars
<1>6. QED
  BY <1>1, <1>2, <1>3, <1>4, <1>5 DEF OpcuaNext

\* Whatever is lost and raised, the handles are of variables and the names of
\* variables or "all", for any set of variables.
THEOREM OpcuaTypesAlways == OpcuaSpec => []OpcuaTypeOK
<1>1. OpcuaInit => OpcuaTypeOK
  BY OpcuaInitially DEF OpcuaInit, OpcuaInv, OpcuaTypes, OpcuaTypeOK
<1>2. OpcuaInv => OpcuaTypes
  BY DEF OpcuaInv
<1>3. QED
  BY <1>1, <1>2, OpcuaInitially, OpcuaInductive, OpcuaTypeStep, PTL DEF OpcuaSpec

-----------------------------------------------------------------------------
(* TcpCli *)

\* What the stream holds, with the lock taken as well as free.
StreamInv ==
  /\ task \in [Tasks -> {"idle", "lock", "connect", "reply"}]
  /\ cut = FALSE => unread = 0
  /\ cut \in BOOLEAN

LEMMA StreamInductive == StreamInv /\ [TcpNext]_tcpVars => StreamInv'
<1> SUFFICES ASSUME StreamInv, [TcpNext]_tcpVars PROVE StreamInv'
  OBVIOUS
<1> USE DEF StreamInv, Step, Over, wire_
<1>1. ASSUME NEW t \in Tasks, Exchange(t) PROVE StreamInv'
  <2>1. task' \in [Tasks -> {"idle", "lock", "connect", "reply"}] /\ cut' = cut
    BY <1>1 DEF Exchange, Lock, TcpConnect, TcpReply, TcpFails
  <2>2. unread' = unread \/ unread' = 0 \/ unread > 0
    BY <1>1 DEF Exchange, Lock, TcpConnect, TcpReply, TcpFails
  <2>3. QED
    BY <2>1, <2>2
<1>2. CASE KeepaliveEnds \/ Cleanup
  <2>1. Cancelled_
    BY <1>2 DEF KeepaliveEnds, Cleanup
  <2>2. /\ task' \in [Tasks -> {"idle", "lock", "connect", "reply"}]
        /\ cut' \in BOOLEAN
    BY <2>1 DEF Cancelled_, Tasks
  <2>3. cut' = FALSE => cut = FALSE /\ unread' = unread + 0
    BY <2>1 DEF Cancelled_
  <2>4. QED
    BY <2>2, <2>3
<1>3. CASE TcpDisconnect
  BY <1>3 DEF TcpDisconnect
<1>4. CASE RunCli \/ Command \/ KeepaliveOn \/ KeepaliveOff \/ Quit
  BY <1>4 DEF RunCli, Command, KeepaliveOn, KeepaliveOff, Quit, Tasks
<1>5. CASE KeepaliveDue \/ ServerLeaves \/ UNCHANGED tcpVars
  BY <1>5 DEF KeepaliveDue, ServerLeaves, tcpVars, Tasks
<1>6. QED
  BY <1>1, <1>2, <1>3, <1>4, <1>5 DEF TcpNext, RunCliSteps

\* Nothing is left in the stream between two requests unless one was cancelled,
\* for any number of commands "keepalive 0" (_send_recv, keepalive_loop).
THEOREM NothingUnreadCorrect == TcpSpec => []NothingUnread
<1>1. TcpInit => StreamInv
  BY DEF TcpInit, StreamInv
<1>2. StreamInv => NothingUnread
  BY DEF StreamInv, NothingUnread
<1>3. QED
  BY <1>1, <1>2, StreamInductive, PTL DEF TcpSpec

Places == {"idle", "lock", "connect", "reply"}
Held == {"connect", "reply"}  \* within "async with self._lock"

\* The lock, and what the commands "keepalive 0" can have left in the stream: one
\* reply each, the one under way not yet, and one of the end.
LeftBehind ==
  toggles + CASE mainLoop = "keepalive_off" -> -1
              [] mainLoop \in {"disconnect", "gone"} -> 1
              [] OTHER -> 0

TcpTypes ==
  /\ link \in {"none", "open", "half", "reset"}
  /\ mainLoop \in {"connect", "prompt", "busy", "keepalive_off", "cleanup", "disconnect", "gone"}
  /\ alive \in [enabled : BOOLEAN, task : BOOLEAN]
  /\ cut \in BOOLEAN

LockHeld ==
  /\ holder \in Tasks \cup {"free"}
  /\ task \in [Tasks -> Places]
  /\ \A t \in Tasks : task[t] \in Held <=> holder = t

Leftovers ==
  /\ toggles \in 0 .. MaxToggles
  /\ unread \in Nat /\ unread <= LeftBehind
  /\ mainLoop = "keepalive_off" => toggles > 0
  /\ task["main"] # "idle" => mainLoop = "busy"
  /\ mainLoop \in {"connect", "disconnect", "gone"} => task["keepalive"] = "idle"
  /\ mainLoop \in {"connect", "disconnect", "gone"} => alive.task = FALSE
  /\ mainLoop = "connect" => holder = "free"

TcpInv == TcpTypes /\ LockHeld /\ Leftovers

LEMMA TcpTypeStep == TcpTypes /\ [TcpNext]_tcpVars => TcpTypes'
<1> SUFFICES ASSUME TcpTypes, [TcpNext]_tcpVars PROVE TcpTypes'
  OBVIOUS
<1> USE DEF TcpTypes, wire_
<1>1. ASSUME NEW t \in Tasks, Exchange(t) PROVE TcpTypes'
  <2>1. CASE Lock(t)
    BY <2>1 DEF Lock
  <2>2. CASE TcpConnect(t) \/ TcpReply(t) \/ TcpFails(t)
    BY <2>2 DEF TcpConnect, TcpReply, TcpFails, Over
  <2>3. QED
    BY <1>1, <2>1, <2>2 DEF Exchange
<1>2. CASE KeepaliveEnds \/ Cleanup
  BY <1>2 DEF KeepaliveEnds, Cleanup, Cancelled_
<1>3. CASE RunCli
  <2>1. alive' \in [enabled : BOOLEAN, task : BOOLEAN]
    <3>1. CASE UNCHANGED alive
      BY <3>1
    <3>2. ASSUME NEW e \in BOOLEAN, alive' = [enabled |-> e, task |-> e]
          PROVE  alive' \in [enabled : BOOLEAN, task : BOOLEAN]
      BY <3>2
    <3>3. QED
      BY <1>3, <3>1, <3>2 DEF RunCli
  <2>2. QED
    BY <1>3, <2>1 DEF RunCli
<1>4. CASE Command \/ KeepaliveOn \/ KeepaliveOff \/ Quit \/ TcpDisconnect
  <2>1. alive' \in [enabled : BOOLEAN, task : BOOLEAN]
    <3>1. CASE alive' = [enabled |-> TRUE, task |-> TRUE]
      BY <3>1
    <3>2. CASE alive' \in {alive, [alive EXCEPT !.enabled = FALSE]}
      BY <3>2
    <3>3. QED
      BY <1>4, <3>1, <3>2 DEF Command, KeepaliveOn, KeepaliveOff, Quit, TcpDisconnect
  <2>2. CASE Command \/ TcpDisconnect
    BY <2>1, <2>2 DEF Command, TcpDisconnect
  <2>3. CASE KeepaliveOn \/ KeepaliveOff \/ Quit
    BY <2>1, <2>3 DEF KeepaliveOn, KeepaliveOff, Quit
  <2>4. QED
    BY <1>4, <2>2, <2>3
<1>5. CASE KeepaliveDue \/ ServerLeaves \/ UNCHANGED tcpVars
  BY <1>5 DEF KeepaliveDue, ServerLeaves, tcpVars
<1>6. QED
  BY <1>1, <1>2, <1>3, <1>4, <1>5 DEF TcpNext, RunCliSteps

LEMMA LockStep == LockHeld /\ Leftovers /\ [TcpNext]_tcpVars => LockHeld'
<1> SUFFICES ASSUME LockHeld, Leftovers, [TcpNext]_tcpVars PROVE LockHeld'
  OBVIOUS
<1> USE DEF LockHeld, Places, Held, Step, wire_
<1>1. ASSUME NEW t \in Tasks, Exchange(t) PROVE LockHeld'
  <2>1. CASE Lock(t)
    BY <2>1 DEF Lock, Tasks
  <2>2. CASE TcpConnect(t) /\ Step(t, "reply") /\ UNCHANGED holder
    BY <2>2 DEF TcpConnect
  <2>3. CASE task[t] \in Held /\ Over(t)
    BY <2>3 DEF Over, Tasks
  <2>4. QED
    BY <1>1, <2>1, <2>2, <2>3 DEF Exchange, TcpConnect, TcpReply, TcpFails
<1>2. CASE KeepaliveEnds \/ Cleanup
  BY <1>2 DEF KeepaliveEnds, Cleanup, Cancelled_, Tasks
<1>3. CASE RunCli \/ Command
  <2>1. task["main"] = "idle" /\ UNCHANGED holder
    BY <1>3 DEF RunCli, Command, Leftovers
  <2>2. UNCHANGED task \/ Step("main", "lock")
    BY <1>3 DEF RunCli, Command
  <2>3. QED
    BY <2>1, <2>2 DEF Tasks
<1>4. CASE KeepaliveDue
  BY <1>4 DEF KeepaliveDue, Tasks
<1>5. CASE KeepaliveOn \/ KeepaliveOff \/ Quit \/ TcpDisconnect \/ ServerLeaves \/ UNCHANGED tcpVars
  BY <1>5 DEF KeepaliveOn, KeepaliveOff, Quit, TcpDisconnect, ServerLeaves, tcpVars
<1>6. QED
  BY <1>1, <1>2, <1>3, <1>4, <1>5 DEF TcpNext, RunCliSteps

LEMMA LeftoverStep == TcpInv /\ [TcpNext]_tcpVars => Leftovers'
<1> SUFFICES ASSUME TcpInv, [TcpNext]_tcpVars PROVE Leftovers'
  OBVIOUS
<1> USE MaxTogglesAssumption DEF TcpInv, TcpTypes, LockHeld, Leftovers, LeftBehind, Places, Held, Step, wire_
<1>1. ASSUME NEW t \in Tasks, Exchange(t) PROVE Leftovers'
  <2>0. task[t] # "idle" /\ (t = "main" => mainLoop = "busy")
    BY <1>1 DEF Exchange, Lock, TcpConnect, TcpReply, TcpFails
  <2>1. CASE Lock(t)
    BY <2>0, <2>1 DEF Lock, Tasks
  <2>2. CASE TcpConnect(t)
    BY <2>0, <2>2 DEF TcpConnect, Over, Tasks
  <2>3. CASE TcpReply(t)
    BY <2>0, <2>3 DEF TcpReply, Over, Tasks
  <2>4. CASE TcpFails(t)
    BY <2>0, <2>4 DEF TcpFails, Over, Tasks
  <2>5. QED
    BY <1>1, <2>1, <2>2, <2>3, <2>4 DEF Exchange
<1>2. CASE KeepaliveEnds
  BY <1>2 DEF KeepaliveEnds, Cancelled_, Tasks
<1>3. CASE Cleanup
  BY <1>3 DEF Cleanup, Cancelled_, Tasks
<1>4. CASE RunCli
  BY <1>4 DEF RunCli, Tasks
<1>5. CASE Command \/ KeepaliveOn \/ Quit
  BY <1>5 DEF Command, KeepaliveOn, Quit, Tasks
<1>6. CASE KeepaliveOff
  BY <1>6 DEF KeepaliveOff
<1>7. CASE TcpDisconnect
  BY <1>7 DEF TcpDisconnect, Tasks
<1>8. CASE KeepaliveDue
  BY <1>8 DEF KeepaliveDue, Tasks
<1>9. CASE ServerLeaves \/ UNCHANGED tcpVars
  BY <1>9 DEF ServerLeaves, tcpVars
<1>10. QED
  BY <1>1, <1>2, <1>3, <1>4, <1>5, <1>6, <1>7, <1>8, <1>9 DEF TcpNext, RunCliSteps

LEMMA TcpAlways == TcpSpec => []TcpInv
<1>1. TcpInit => TcpInv
  <2> SUFFICES ASSUME TcpInit PROVE TcpInv
    OBVIOUS
  <2> USE DEF TcpInit
  <2>1. TcpTypes
    BY DEF TcpTypes
  <2>2. LockHeld
    BY DEF LockHeld, Tasks, Places, Held
  <2>3. Leftovers
    BY MaxTogglesAssumption DEF Leftovers, LeftBehind, Tasks
  <2>4. QED
    BY <2>1, <2>2, <2>3 DEF TcpInv
<1>2. TcpInv /\ [TcpNext]_tcpVars => TcpInv'
  BY TcpTypeStep, LockStep, LeftoverStep DEF TcpInv
<1>3. QED
  BY <1>1, <1>2, PTL DEF TcpSpec

\* At most one of the two tasks is between acquiring _tcp_lock and releasing it.
OneAtATime ==
  \A t, u \in Tasks : task[t] \in Held /\ task[u] \in Held => t = u

\* Only one of the two tasks writes to the connection or reads from it, and it is
\* the one that has the lock, wherever the other is cancelled (_send_recv).
THEOREM ExchangesAreExclusive == TcpSpec => []OneAtATime
<1>1. TcpInv => OneAtATime
  BY DEF TcpInv, LockHeld, OneAtATime
<1>2. QED
  BY <1>1, TcpAlways, PTL

\* However often the keepalive is turned on and off, what is left in the stream
\* is at most one reply for each time it was cancelled.
THEOREM TcpTypesAlways == TcpSpec => []TcpTypeOK
<1>1. TcpInv => TcpTypeOK
  BY MaxTogglesAssumption
     DEF TcpInv, TcpTypes, LockHeld, Leftovers, LeftBehind, TcpTypeOK, Places
<1>2. QED
  BY <1>1, TcpAlways, PTL
=============================================================================
