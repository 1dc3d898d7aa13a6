------------------------ MODULE TriggerControlProofs ------------------------
(* Proofs about the requests that leave the power alone.                       *)
EXTENDS TriggerControl, TLAPS

Places == (Slots \cup {0}) \X Nat

Kinds == {"SET_ALL_TRIG_EN", "SET_ALL_TRIG_DELAY", "SET_CH_TRIG", "SET_CH_DELAY", "SET_LIMITS",
          "SET_L1SCALERS_EN", "GET", "FAST_POLL", "L1SCALERS_POLL", "GET_STATE", "SET_CTRL",
          "SET_PARAM", "SET_BUSY", "RESET_TIB_COUNT"}

\* The parameters of a request.
Params(r) ==
  /\ r.kind \in {"SET_ALL_TRIG_EN", "SET_CH_TRIG", "SET_L1SCALERS_EN", "SET_CTRL"} =>
       r.on \in BOOLEAN
  /\ r.kind \in {"SET_ALL_TRIG_DELAY", "SET_CH_DELAY", "SET_PARAM"} => r.value \in Nat
  /\ r.kind = "SET_LIMITS" => r.min \in Nat /\ r.max \in Nat
  /\ r.kind = "SET_BUSY" => r.mask \in SUBSET Slots
  /\ r.kind \in {"GET", "FAST_POLL"} => r.slots \in SUBSET Slots

\* The accesses of a request that begins.
Whole(r, P) ==
  /\ r.kind \in Kinds
  /\ r.kind = "SET_ALL_TRIG_EN" => P = active \X {0}
  /\ r.kind = "SET_ALL_TRIG_DELAY" => P = {p \in Slots \X Channels : Mutable(p[1], p[2])}
  /\ r.kind \in {"SET_CH_TRIG", "SET_CH_DELAY"} =>
       Mutable(r.slot, r.ch) /\ P = {<<r.slot, r.ch>>}
  /\ r.kind = "SET_LIMITS" => r.slot \in active /\ P = {r.slot} \X {1, 2}
  /\ r.kind = "SET_L1SCALERS_EN" => P = {1} \X (IF r.on THEN 1 .. 4 ELSE {1})
  /\ r.kind = "GET" => r.slots \in SUBSET active /\ P = r.slots \X (1 .. PollReads)
  /\ r.kind = "FAST_POLL" =>
       /\ r.slots \in SUBSET active
       /\ P = ({0} \X (1 .. 3)) \cup (r.slots \X (1 .. PollReads))
  /\ r.kind = "L1SCALERS_POLL" => P = active \X {1, 2}
  /\ r.kind = "GET_STATE" => P = {0} \X (1 .. 3)
  /\ r.kind \in {"SET_CTRL", "SET_PARAM"} => P = {<<0, 1>>}
  /\ r.kind = "SET_BUSY" => P = {0} \X {1, 2} \/ (P = {} /\ r.mask = busy)
  /\ r.kind = "RESET_TIB_COUNT" => P = {0} \X {1, 2}

Starting == \E r, P : Params(r) /\ Whole(r, P) /\ Begin(r, P)
Refusing == \E r : Refuse(r)

LEMMA Starts ==
  ASSUME NEW r, NEW P, Params(r), Whole(r, P), Begin(r, P)
  PROVE  Starting
  BY DEF Starting

LEMMA Refuses == ASSUME NEW r, Refuse(r) PROVE Refusing
  BY DEF Refusing

LEMMA BoardRequestsStart ==
  ASSUME TriggerTypeOK, BoardRequest
  PROVE  Starting \/ Refusing
<1>0. active \in SUBSET Slots /\ Slots \subseteq Nat \ {0} /\ Values \subseteq Nat
  BY TriggerAssumption DEF TriggerTypeOK
<1>1. ASSUME NEW on \in BOOLEAN, SetAllTriggers(on) PROVE Starting
  <2> DEFINE r == [kind |-> "SET_ALL_TRIG_EN", on |-> on]
             P == active \X {0}
  <2>1. Params(r) /\ Whole(r, P)
    BY <1>0 DEF Params, Whole, Kinds
  <2>2. Begin(r, P)
    BY <1>1 DEF SetAllTriggers
  <2> HIDE DEF r, P
  <2>3. QED
    BY <2>1, <2>2, Starts
<1>2. ASSUME NEW on \in BOOLEAN, SetScalers(on) PROVE Starting
  <2> DEFINE r == [kind |-> "SET_L1SCALERS_EN", on |-> on]
             P == {1} \X (IF on THEN 1 .. 4 ELSE {1})
  <2>1. Params(r) /\ Whole(r, P)
    BY <1>0 DEF Params, Whole, Kinds
  <2>2. Begin(r, P)
    BY <1>2 DEF SetScalers
  <2> HIDE DEF r, P
  <2>3. QED
    BY <2>1, <2>2, Starts
<1>3. ASSUME NEW v \in Values, SetAllDelays(v) PROVE Starting
  <2> DEFINE r == [kind |-> "SET_ALL_TRIG_DELAY", value |-> v]
             P == {p \in Slots \X Channels : Mutable(p[1], p[2])}
  <2>1. Params(r) /\ Whole(r, P)
    BY <1>0 DEF Params, Whole, Kinds
  <2>2. Begin(r, P)
    BY <1>3 DEF SetAllDelays
  <2> HIDE DEF r, P
  <2>3. QED
    BY <2>1, <2>2, Starts
<1>4. ASSUME NEW s \in Slot, NEW c \in Channels, NEW on \in BOOLEAN, SetChannelTrigger(s, c, on) PROVE Starting \/ Refusing
  <2> DEFINE r == [kind |-> "SET_CH_TRIG", on |-> on, slot |-> s, ch |-> c]
             P == {<<s, c>>}
  <2>1. (Mutable(s, c) /\ Begin(r, P)) \/ Refuse(r)
    BY <1>4 DEF SetChannelTrigger
  <2>2. Mutable(s, c) => Params(r) /\ Whole(r, P)
    BY <1>0 DEF Params, Whole, Kinds
  <2> HIDE DEF r, P
  <2>3. QED
    BY <2>1, <2>2, Starts, Refuses
<1>5. ASSUME NEW s \in Slot, NEW c \in Channels, NEW v \in Values, SetChannelDelay(s, c, v) PROVE Starting \/ Refusing
  <2> DEFINE r == [kind |-> "SET_CH_DELAY", value |-> v, slot |-> s, ch |-> c]
             P == {<<s, c>>}
  <2>1. (Mutable(s, c) /\ Begin(r, P)) \/ Refuse(r)
    BY <1>5 DEF SetChannelDelay
  <2>2. Mutable(s, c) => Params(r) /\ Whole(r, P)
    BY <1>0 DEF Params, Whole, Kinds
  <2> HIDE DEF r, P
  <2>3. QED
    BY <2>1, <2>2, Starts, Refuses
<1>6. ASSUME NEW s \in Slot, NEW min \in Values, NEW max \in Values, SetLimits(s, min, max) PROVE Starting \/ Refusing
  <2> DEFINE r == [kind |-> "SET_LIMITS", slot |-> s, min |-> min, max |-> max]
             P == {s} \X {1, 2}
  <2>1. (s \in active /\ Begin(r, P)) \/ Refuse(r)
    BY <1>6 DEF SetLimits
  <2>2. s \in active => Params(r) /\ Whole(r, P)
    BY <1>0 DEF Params, Whole, Kinds
  <2> HIDE DEF r, P
  <2>3. QED
    BY <2>1, <2>2, Starts, Refuses
<1>7. ASSUME NEW s \in Slot, Get(s) PROVE Starting \/ Refusing
  <2> DEFINE r == [kind |-> "GET", slots |-> {s}]
             P == {s} \X (1 .. PollReads)
  <2>1. (s \in active /\ Begin(r, P)) \/ Refuse(r)
    BY <1>7 DEF Get
  <2>2. s \in active => Params(r) /\ Whole(r, P)
    BY <1>0 DEF Params, Whole, Kinds
  <2> HIDE DEF r, P
  <2>3. QED
    BY <2>1, <2>2, Starts, Refuses
<1>8. ASSUME Poll PROVE Starting
  <2> DEFINE r == [kind |-> "GET", slots |-> active]
             P == active \X (1 .. PollReads)
  <2>1. Params(r) /\ Whole(r, P)
    BY <1>0 DEF Params, Whole, Kinds
  <2>2. Begin(r, P)
    BY <1>8 DEF Poll
  <2> HIDE DEF r, P
  <2>3. QED
    BY <2>1, <2>2, Starts
<1>9. ASSUME PollScalers PROVE Starting
  <2> DEFINE r == [kind |-> "L1SCALERS_POLL"]
             P == active \X {1, 2}
  <2>1. Params(r) /\ Whole(r, P)
    BY <1>0 DEF Params, Whole, Kinds
  <2>2. Begin(r, P)
    BY <1>9 DEF PollScalers
  <2> HIDE DEF r, P
  <2>3. QED
    BY <2>1, <2>2, Starts
<1>10. QED
  BY <1>1, <1>2, <1>3, <1>4, <1>5, <1>6, <1>7, <1>8, <1>9 DEF BoardRequest

LEMMA CrateRequestsStart ==
  ASSUME TriggerTypeOK, CrateRequest
  PROVE  Starting
<1>0. active \in SUBSET Slots /\ busy \in SUBSET Slots /\ Values \subseteq Nat
  BY TriggerAssumption DEF TriggerTypeOK
<1>1. ASSUME GetState PROVE Starting
  <2> DEFINE r == [kind |-> "GET_STATE"]
             P == {0} \X (1 .. 3)
  <2>1. Params(r) /\ Whole(r, P)
    BY <1>0 DEF Params, Whole, Kinds
  <2>2. Begin(r, P)
    BY <1>1 DEF GetState
  <2> HIDE DEF r, P
  <2>3. QED
    BY <2>1, <2>2, Starts
<1>2. ASSUME FastPoll PROVE Starting
  <2> DEFINE r == [kind |-> "FAST_POLL", slots |-> active]
             P == ({0} \X (1 .. 3)) \cup (active \X (1 .. PollReads))
  <2>1. Params(r) /\ Whole(r, P)
    BY <1>0 DEF Params, Whole, Kinds
  <2>2. Begin(r, P)
    BY <1>2 DEF FastPoll
  <2> HIDE DEF r, P
  <2>3. QED
    BY <2>1, <2>2, Starts
<1>3. ASSUME ResetCounters PROVE Starting
  <2> DEFINE r == [kind |-> "RESET_TIB_COUNT"]
             P == {0} \X {1, 2}
  <2>1. Params(r) /\ Whole(r, P)
    BY <1>0 DEF Params, Whole, Kinds
  <2>2. Begin(r, P)
    BY <1>3 DEF ResetCounters
  <2> HIDE DEF r, P
  <2>3. QED
    BY <2>1, <2>2, Starts
<1>4. ASSUME NEW on \in BOOLEAN, SetControl(on) PROVE Starting
  <2> DEFINE r == [kind |-> "SET_CTRL", on |-> on]
             P == {<<0, 1>>}
  <2>1. Params(r) /\ Whole(r, P)
    BY <1>0 DEF Params, Whole, Kinds
  <2>2. Begin(r, P)
    BY <1>4 DEF SetControl
  <2> HIDE DEF r, P
  <2>3. QED
    BY <2>1, <2>2, Starts
<1>5. ASSUME NEW v \in Values, SetParameter(v) PROVE Starting
  <2> DEFINE r == [kind |-> "SET_PARAM", value |-> v]
             P == {<<0, 1>>}
  <2>1. Params(r) /\ Whole(r, P)
    BY <1>0 DEF Params, Whole, Kinds
  <2>2. Begin(r, P)
    BY <1>5 DEF SetParameter
  <2> HIDE DEF r, P
  <2>3. QED
    BY <2>1, <2>2, Starts
<1>6. ASSUME NEW mask \in SUBSET Slots, SetBusyMask(mask) PROVE Starting
  <2> DEFINE r == [kind |-> "SET_BUSY", mask |-> mask]
             P == {0} \X {1, 2}
  <2>1. Params(r) /\ Whole(r, P)
    BY <1>0 DEF Params, Whole, Kinds
  <2>2. Begin(r, P)
    BY <1>6 DEF SetBusyMask
  <2> HIDE DEF r, P
  <2>3. QED
    BY <2>1, <2>2, Starts
<1>7. ASSUME NEW s \in Slot, NEW on \in BOOLEAN, SetBusySlot(s, on) PROVE Starting
  <2>1. CASE s \in Slots
    BY <1>0, <1>6, <1>7, <2>1 DEF SetBusySlot, Bit
  <2>2. CASE s \notin Slots
    <3> DEFINE r == [kind |-> "SET_BUSY", mask |-> busy]
    <3>1. Params(r) /\ Whole(r, {})
      BY <1>0 DEF Params, Whole, Kinds
    <3>2. Begin(r, {})
      BY <1>7, <2>2 DEF SetBusySlot
    <3> HIDE DEF r
    <3>3. QED
      BY <3>1, <3>2, Starts
  <2>3. QED
    BY <2>1, <2>2
<1>8. QED
  BY <1>1, <1>2, <1>3, <1>4, <1>5, <1>6, <1>7 DEF CrateRequest

-----------------------------------------------------------------------------
(* Types *)

\* A request in progress: its parameters, and accesses that are left to it.
Fits(r, P) ==
  /\ Params(r)
  /\ P \in SUBSET Places
  /\ r.kind \in {"SET_ALL_TRIG_EN", "L1SCALERS_POLL"} => \A p \in P : p[1] \in active
  /\ r.kind \in {"SET_ALL_TRIG_DELAY", "SET_CH_TRIG", "SET_CH_DELAY"} =>
       \A p \in P : Mutable(p[1], p[2])

Fitting == reply = "none" => Fits(req, todo)

TypeInv == TriggerTypeOK /\ Fitting

LEMMA ConstantTypes ==
  /\ Slots \subseteq Nat \ {0} /\ 1 \in Slots /\ LeftSlots \subseteq Slots
  /\ Channels \subseteq Nat /\ MaxValue \in Nat /\ PollReads \in Nat
  /\ HalfSize \in Nat \ {0} /\ HalfSize * HalfSize \in Nat \ {0} /\ MaxIters \in Nat
  BY TriggerAssumption DEF Channels

LEMMA ProductOfPlaces ==
  ASSUME NEW A \in SUBSET (Slots \cup {0}), NEW B \in SUBSET Nat
  PROVE  A \X B \in SUBSET Places /\ \A p \in A \X B : p[1] \in A
  BY DEF Places

LEMMA WholeFits ==
  ASSUME TriggerTypeOK, NEW r, NEW P, Params(r), Whole(r, P)
  PROVE  Fits(r, P)
<1>0. /\ active \in SUBSET (Slots \cup {0}) /\ {0} \in SUBSET (Slots \cup {0})
      /\ {1} \in SUBSET (Slots \cup {0})
      /\ {0} \in SUBSET Nat /\ {1} \in SUBSET Nat /\ {1, 2} \in SUBSET Nat /\ 1 .. 3 \in SUBSET Nat
      /\ 1 .. 4 \in SUBSET Nat /\ 1 .. PollReads \in SUBSET Nat
  BY ConstantTypes DEF TriggerTypeOK
<1>1. CASE r.kind = "SET_ALL_TRIG_EN"
  <2>1. P = active \X {0}
    BY <1>1 DEF Whole
  <2>2. P \in SUBSET Places /\ \A p \in P : p[1] \in active
    BY <1>0, <2>1, ProductOfPlaces
  <2>3. QED
    BY <1>1, <2>2 DEF Fits
<1>2. CASE r.kind = "SET_ALL_TRIG_DELAY"
  <2>1. P = {p \in Slots \X Channels : Mutable(p[1], p[2])}
    BY <1>2 DEF Whole
  <2>2. P \in SUBSET Places
    BY <2>1, ConstantTypes DEF Places
  <2>3. QED
    BY <1>2, <2>1, <2>2 DEF Fits
<1>3. CASE r.kind \in {"SET_CH_TRIG", "SET_CH_DELAY"}
  <2>1. Mutable(r.slot, r.ch) /\ P = {<<r.slot, r.ch>>}
    BY <1>3 DEF Whole
  <2>2. r.slot \in Slots \cup {0} /\ r.ch \in Nat
    BY <1>0, <2>1, ConstantTypes DEF Mutable
  <2>3. P \in SUBSET Places
    BY <2>1, <2>2 DEF Places
  <2>4. QED
    BY <1>3, <2>1, <2>3 DEF Fits
<1>4. CASE r.kind = "SET_LIMITS"
  <2>1. {r.slot} \in SUBSET (Slots \cup {0}) /\ P = {r.slot} \X {1, 2}
    BY <1>0, <1>4 DEF Whole
  <2>2. QED
    BY <1>0, <1>4, <2>1, ProductOfPlaces DEF Fits
<1>5. CASE r.kind = "SET_L1SCALERS_EN"
  <2>1. P = {1} \X (1 .. 4) \/ P = {1} \X {1}
    BY <1>5 DEF Whole
  <2>2. QED
    BY <1>0, <1>5, <2>1, ProductOfPlaces DEF Fits
<1>6. CASE r.kind = "GET"
  <2>1. r.slots \in SUBSET (Slots \cup {0}) /\ P = r.slots \X (1 .. PollReads)
    BY <1>0, <1>6 DEF Whole
  <2>2. QED
    BY <1>0, <1>6, <2>1, ProductOfPlaces DEF Fits
<1>7. CASE r.kind = "FAST_POLL"
  <2>1. /\ r.slots \in SUBSET (Slots \cup {0})
        /\ P = ({0} \X (1 .. 3)) \cup (r.slots \X (1 .. PollReads))
    BY <1>0, <1>7 DEF Whole
  <2>2. {0} \X (1 .. 3) \in SUBSET Places /\ r.slots \X (1 .. PollReads) \in SUBSET Places
    BY <1>0, <2>1, ProductOfPlaces
  <2>3. QED
    BY <1>7, <2>1, <2>2 DEF Fits
<1>8. CASE r.kind = "L1SCALERS_POLL"
  <2>1. P = active \X {1, 2}
    BY <1>8 DEF Whole
  <2>2. P \in SUBSET Places /\ \A p \in P : p[1] \in active
    BY <1>0, <2>1, ProductOfPlaces
  <2>3. QED
    BY <1>8, <2>2 DEF Fits
<1>9. CASE r.kind \in {"GET_STATE", "RESET_TIB_COUNT"}
  <2>0. {0} \X (1 .. 3) \in SUBSET Places /\ {0} \X {1, 2} \in SUBSET Places
    BY <1>0, ProductOfPlaces
  <2>1. P = {0} \X (1 .. 3) \/ P = {0} \X {1, 2}
    BY <1>9 DEF Whole
  <2>2. P \in SUBSET Places
    BY <2>0, <2>1
  <2>3. QED
    BY <1>9, <2>2 DEF Fits
<1>10. CASE r.kind \in {"SET_CTRL", "SET_PARAM"}
  <2>1. P = {<<0, 1>>}
    BY <1>10 DEF Whole
  <2>2. P \in SUBSET Places
    BY <2>1 DEF Places
  <2>3. QED
    BY <1>10, <2>2 DEF Fits
<1>11. CASE r.kind = "SET_BUSY"
  <2>1. P = {0} \X {1, 2} \/ P = {}
    BY <1>11 DEF Whole
  <2>2. QED
    BY <1>0, <1>11, <2>1, ProductOfPlaces DEF Fits
<1>12. QED
  BY <1>1, <1>2, <1>3, <1>4, <1>5, <1>6, <1>7, <1>8, <1>9, <1>10, <1>11 DEF Whole, Kinds

LEMMA WrittenIs ==
  ASSUME NEW v \in Nat
  PROVE  Written(v) = Saturated(v) /\ Saturated(v) \in 0 .. MaxValue
<1>1. Saturated(v) \in 0 .. MaxValue
  BY ConstantTypes DEF Saturated
<1>2. \A m \in Nat : \A n \in 0 .. m : n % (m + 1) = n
  OBVIOUS
<1>3. QED
  BY <1>1, <1>2, ConstantTypes DEF Written, Saturated

\* An access that removes a place keeps what is left fitting.
LEMMA KeepsFitting ==
  ASSUME Fitting, reply = "none", UNCHANGED <<config, req, reply>>, todo' \in SUBSET todo
  PROVE  Fitting'
<1>1. Fits(req, todo)
  BY DEF Fitting
<1>2. Fits(req, todo)'
  BY <1>1 DEF Fits, Params, Mutable, config
<1>3. QED
  BY <1>2 DEF Fitting

LEMMA BeginKeepsTypes ==
  ASSUME TypeInv, NEW r, NEW P, Params(r), Whole(r, P), Begin(r, P)
  PROVE  TypeInv'
<1>1. Fits(r, P)
  BY WholeFits DEF TypeInv
<1>0. req' = r /\ todo' = P /\ active' = active /\ immutable' = immutable
  BY DEF Begin, config
<1>2. Fits(req, todo)'
  BY <1>0, <1>1 DEF Fits, Params, Mutable
<1>3. TriggerTypeOK'
  <2>1. todo' \in SUBSET ((Slots \cup {0}) \X Nat)
    BY <1>0, <1>1 DEF Fits, Places
  <2>2. 0 \in 0 .. HalfSize - 1
    BY ConstantTypes
  <2>3. QED
    BY <2>1, <2>2 DEF TypeInv, TriggerTypeOK, Begin, config, boards, crate
<1>4. QED
  BY <1>2, <1>3 DEF TypeInv, Fitting

LEMMA RefuseKeepsTypes ==
  ASSUME TypeInv, NEW r, Refuse(r)
  PROVE  TypeInv'
  BY DEF TypeInv, TriggerTypeOK, Fitting, Refuse, config, boards, crate, locals, ghosts

LEMMA ConfigKeepsTypes ==
  ASSUME TypeInv, NEW cfg \in Configs, SetConfig(cfg)
  PROVE  TypeInv'
<1>1. cfg.masks \in Masks
  BY TriggerAssumption
<1>2. QED
  BY <1>1 DEF TypeInv, TriggerTypeOK, Fitting, SetConfig, boards, crate, locals, ghosts

LEMMA CtrlTypes ==
  ASSUME TriggerTypeOK, NEW new, WriteCtrl(new),
         new \in SUBSET {"MCF_EN", "CT_CLEAR", "LATCH_TIMESTAMP"}
  PROVE  /\ ctrl' \in SUBSET {"MCF_EN", "CT_CLEAR", "LATCH_TIMESTAMP"}
         /\ tib' \in {0, 1} /\ stamp' \in Nat /\ busy' \in SUBSET Slots /\ param' \in 0 .. MaxValue
  BY DEF TriggerTypeOK, WriteCtrl

\* A place that is left names a slot and a number.
LEMMA PlaceLeft ==
  ASSUME TypeInv, NEW p \in todo
  PROVE  p[1] \in Slots \cup {0} /\ p[2] \in Nat /\ p = <<p[1], p[2]>>
  BY DEF TypeInv, TriggerTypeOK

\* What every access has in common.
LEMMA AccessFacts ==
  ASSUME TypeInv, NEW kinds, NEW p, Does(kinds, p)
  PROVE  /\ p \in todo /\ p[1] \in Slots \cup {0} /\ p[2] \in Nat /\ p = <<p[1], p[2]>>
         /\ reply = "none" /\ reply' = "none" /\ req' = req /\ req.kind \in kinds
         /\ active' = active /\ immutable' = immutable /\ clock' = clock
         /\ Fits(req, todo)
         /\ todo' \in SUBSET todo => Fitting'
<1>1. /\ p \in todo /\ reply = "none" /\ reply' = reply /\ req' = req /\ req.kind \in kinds
      /\ UNCHANGED config /\ clock' = clock
  BY DEF Does, First
<1>2. todo' \in SUBSET todo => Fitting'
  BY <1>1, KeepsFitting DEF TypeInv
<1>3. QED
  BY <1>1, <1>2, PlaceLeft DEF TypeInv, Fitting, config

LEMMA WriteTriggersKeepsTypes ==
  ASSUME TypeInv, NEW p, WriteTriggers(p)
  PROVE  TypeInv'
<1>1. Does({"SET_ALL_TRIG_EN"}, p) /\ todo' \in SUBSET todo
  BY DEF WriteTriggers, Advance
<1>2. l1' \in Masks
  BY <1>1, AccessFacts
     DEF WriteTriggers, AllTriggers, TypeInv, TriggerTypeOK, Masks, Fits, Params
<1>3. QED
  BY <1>1, <1>2, AccessFacts
     DEF WriteTriggers, Advance, TypeInv, TriggerTypeOK, crate, locals

LEMMA WriteTriggerKeepsTypes ==
  ASSUME TypeInv, NEW p, WriteTrigger(p)
  PROVE  TypeInv'
<1>1. Does({"SET_CH_TRIG"}, p) /\ todo' \in SUBSET todo
  BY DEF WriteTrigger, Advance
<1>2. p[1] \in Slots /\ p[2] \in Channels
  BY <1>1, AccessFacts DEF Fits, Mutable, TypeInv, TriggerTypeOK
<1>3. l1' \in Masks
  BY <1>1, <1>2, AccessFacts
     DEF WriteTrigger, Bit, TypeInv, TriggerTypeOK, Masks, Fits, Params
<1>4. QED
  BY <1>1, <1>3, AccessFacts
     DEF WriteTrigger, Advance, TypeInv, TriggerTypeOK, crate, locals

LEMMA WriteDelayKeepsTypes ==
  ASSUME TypeInv, NEW p, WriteDelay(p)
  PROVE  TypeInv'
<1>1. Does({"SET_ALL_TRIG_DELAY", "SET_CH_DELAY"}, p) /\ todo' \in SUBSET todo
  BY DEF WriteDelay, Outcome
<1>2. Written(req.value) \in 0 .. MaxValue
  BY <1>1, AccessFacts, WrittenIs DEF Fits, Params
<1>3. delay' \in [Slots -> [Channels -> 0 .. MaxValue]]
  <2>1. delay \in [Slots -> [Channels -> 0 .. MaxValue]]
    BY DEF TypeInv, TriggerTypeOK
  <2>2. delay' = delay \/ delay' = [delay EXCEPT ![p[1]][p[2]] = Written(req.value)]
    BY DEF WriteDelay
  <2>3. QED
    BY <1>2, <2>1, <2>2
<1>4. QED
  BY <1>1, <1>3, AccessFacts
     DEF WriteDelay, Outcome, TypeInv, TriggerTypeOK, crate, locals

LEMMA WriteLimitKeepsTypes ==
  ASSUME TypeInv, NEW p, WriteLimit(p)
  PROVE  TypeInv'
<1>1. Does({"SET_LIMITS"}, p) /\ todo' \in SUBSET todo
  BY DEF WriteLimit, Outcome
<1>2. Written(req.min) \in 0 .. MaxValue /\ Written(req.max) \in 0 .. MaxValue
  BY <1>1, AccessFacts, WrittenIs DEF Fits, Params
<1>3. limits' \in [Slots -> [min : 0 .. MaxValue, max : 0 .. MaxValue]]
  <2>1. limits \in [Slots -> [min : 0 .. MaxValue, max : 0 .. MaxValue]]
    BY DEF TypeInv, TriggerTypeOK
  <2> DEFINE new == IF p[2] = 1 THEN [limits EXCEPT ![p[1]].min = Written(req.min)]
                                ELSE [limits EXCEPT ![p[1]].max = Written(req.max)]
  <2>2. new \in [Slots -> [min : 0 .. MaxValue, max : 0 .. MaxValue]]
    BY <1>2, <2>1
  <2>3. limits' = new \/ limits' = limits
    BY DEF WriteLimit
  <2>4. QED
    BY <2>1, <2>2, <2>3
<1>4. QED
  BY <1>1, <1>3, AccessFacts
     DEF WriteLimit, Outcome, TypeInv, TriggerTypeOK, crate, locals

LEMMA BroadcastTypes ==
  ASSUME TriggerTypeOK, NEW n
  PROVE  Broadcast(n) \in [Slots -> [on : BOOLEAN, n : 0 .. HalfSize * HalfSize - 1]]
<1>1. 0 \in 0 .. HalfSize * HalfSize - 1
  BY ConstantTypes
<1>2. QED
  BY <1>1 DEF Broadcast, TriggerTypeOK

LEMMA CounterTypes ==
  ASSUME TriggerTypeOK, NEW s \in Slots
  PROVE  scaler[s].n \in 0 .. HalfSize * HalfSize - 1 /\ scaler[s].n \in Nat
<1> DEFINE size == HalfSize * HalfSize
<1>1. size \in Nat \ {0}
  BY ConstantTypes
<1>2. scaler \in [Slots -> [on : BOOLEAN, n : 0 .. size - 1]]
  BY DEF TriggerTypeOK
<1> HIDE DEF size
<1>3. scaler[s].n \in 0 .. size - 1
  BY <1>2
<1>4. scaler[s].n \in Nat
  BY <1>1, <1>3
<1>5. QED
  BY <1>3, <1>4 DEF size

LEMMA WriteScalersKeepsTypes ==
  ASSUME TypeInv, NEW p, WriteScalers(p)
  PROVE  TypeInv'
<1>1. Does({"SET_L1SCALERS_EN"}, p) /\ todo' \in SUBSET todo
  BY DEF WriteScalers
<1>2. scaler' \in [Slots -> [on : BOOLEAN, n : 0 .. HalfSize * HalfSize - 1]]
  BY BroadcastTypes DEF WriteScalers, TypeInv, TriggerTypeOK
<1>3. QED
  BY <1>1, <1>2, AccessFacts
     DEF WriteScalers, TypeInv, TriggerTypeOK, crate, locals

LEMMA ReadBoardKeepsTypes ==
  ASSUME TypeInv, NEW p, ReadBoard(p)
  PROVE  TypeInv'
<1>1. Does({"GET", "FAST_POLL"}, p) /\ todo' \in SUBSET todo
  BY DEF ReadBoard, Outcome
<1>2. QED
  BY <1>1, AccessFacts
     DEF ReadBoard, Outcome, TypeInv, TriggerTypeOK, boards, crate, locals

LEMMA ReadLowKeepsTypes ==
  ASSUME TypeInv, NEW p, ReadLow(p)
  PROVE  TypeInv'
<1>1. Does({"L1SCALERS_POLL"}, p) /\ todo' \in SUBSET todo
  BY DEF ReadLow, Outcome
<1>2. scaler[p[1]].n \in Nat
  <2>1. p[1] \in Slots
    BY <1>1, AccessFacts DEF Fits, TypeInv, TriggerTypeOK
  <2>2. QED
    BY <2>1, CounterTypes DEF TypeInv
<1>3. \A n \in Nat : n % HalfSize \in 0 .. HalfSize - 1
  BY ConstantTypes
<1>4. low' \in 0 .. HalfSize - 1 /\ seen' \in Nat
  BY <1>2, <1>3 DEF ReadLow, TypeInv, TriggerTypeOK
<1>5. QED
  BY <1>1, <1>4, AccessFacts
     DEF ReadLow, Outcome, TypeInv, TriggerTypeOK, boards, crate

LEMMA ReadHighKeepsTypes ==
  ASSUME TypeInv, NEW p, ReadHigh(p)
  PROVE  TypeInv'
<1>1. Does({"L1SCALERS_POLL"}, p) /\ todo' \in SUBSET todo
  BY DEF ReadHigh, Outcome
<1>2. QED
  BY <1>1, AccessFacts
     DEF ReadHigh, Outcome, TypeInv, TriggerTypeOK, boards, crate, locals

LEMMA LatchKeepsTypes ==
  ASSUME TypeInv, NEW p, Latch(p)
  PROVE  TypeInv'
<1>1. Does(StateKinds, p) /\ todo' \in SUBSET todo /\ WriteCtrl(LatchBit(p[2]))
  BY DEF Latch, Advance
<1>2. LatchBit(p[2]) \in SUBSET {"MCF_EN", "CT_CLEAR", "LATCH_TIMESTAMP"}
  BY DEF LatchBit, Bit, TypeInv, TriggerTypeOK
<1>3. QED
  BY <1>1, <1>2, AccessFacts, CtrlTypes
     DEF Latch, Advance, TypeInv, TriggerTypeOK, boards, locals

LEMMA ReadStampKeepsTypes ==
  ASSUME TypeInv, NEW p, ReadStamp(p)
  PROVE  TypeInv'
<1>1. Does(StateKinds, p) /\ UNCHANGED ghosts /\ UNCHANGED boards /\ UNCHANGED crate
  BY DEF ReadStamp
<1>2. {0} \X (1 .. 3) \in SUBSET Places
  BY DEF Places
<1>3. todo' \in SUBSET Places /\ iter' \in Nat
  BY <1>2 DEF ReadStamp, TypeInv, TriggerTypeOK, Places
<1>4. Fitting'
  <2>1. req' = req /\ req.kind \in {"GET_STATE", "FAST_POLL"}
    BY <1>1, AccessFacts DEF StateKinds
  <2>2. QED
    BY <1>1, <1>3, <2>1, AccessFacts DEF Fitting, Fits, Params
<1>5. QED
  BY <1>1, <1>3, <1>4, AccessFacts
     DEF ReadStamp, TypeInv, TriggerTypeOK, boards, crate, ghosts, Places

LEMMA WriteControlKeepsTypes ==
  ASSUME TypeInv, NEW p, WriteControl(p)
  PROVE  TypeInv'
<1>1. Does({"SET_CTRL"}, p) /\ todo' \in SUBSET todo /\ WriteCtrl(Bit(ctrl, "MCF_EN", req.on))
  BY DEF WriteControl, Advance
<1>2. Bit(ctrl, "MCF_EN", req.on) \in SUBSET {"MCF_EN", "CT_CLEAR", "LATCH_TIMESTAMP"}
  BY DEF Bit, TypeInv, TriggerTypeOK
<1>3. QED
  BY <1>1, <1>2, AccessFacts, CtrlTypes
     DEF WriteControl, Advance, TypeInv, TriggerTypeOK, boards, locals

LEMMA WriteParameterKeepsTypes ==
  ASSUME TypeInv, NEW p, WriteParameter(p)
  PROVE  TypeInv'
<1>1. Does({"SET_PARAM"}, p) /\ todo' \in SUBSET todo
  BY DEF WriteParameter, Advance
<1>2. param' \in 0 .. MaxValue
  BY <1>1, AccessFacts, WrittenIs DEF WriteParameter, Fits, Params
<1>3. QED
  BY <1>1, <1>2, AccessFacts
     DEF WriteParameter, Advance, TypeInv, TriggerTypeOK, boards, locals

LEMMA WriteBusyKeepsTypes ==
  ASSUME TypeInv, NEW p, WriteBusy(p)
  PROVE  TypeInv'
<1>1. Does({"SET_BUSY"}, p) /\ todo' \in SUBSET todo
  BY DEF WriteBusy, Advance
<1>2. busy' \in SUBSET Slots
  BY <1>1, AccessFacts DEF WriteBusy, Fits, Params, TypeInv, TriggerTypeOK
<1>3. QED
  BY <1>1, <1>2, AccessFacts
     DEF WriteBusy, Advance, TypeInv, TriggerTypeOK, boards, locals

LEMMA ClearCountersKeepsTypes ==
  ASSUME TypeInv, NEW p, ClearCounters(p)
  PROVE  TypeInv'
<1>1. Does({"RESET_TIB_COUNT"}, p) /\ todo' \in SUBSET todo /\ WriteCtrl(ClearBit(p[2]))
  BY DEF ClearCounters, Advance
<1>2. ClearBit(p[2]) \in SUBSET {"MCF_EN", "CT_CLEAR", "LATCH_TIMESTAMP"}
  BY DEF ClearBit, Bit, TypeInv, TriggerTypeOK
<1>3. QED
  BY <1>1, <1>2, AccessFacts, CtrlTypes
     DEF ClearCounters, Advance, TypeInv, TriggerTypeOK, boards, locals

LEMMA AnswerKeepsTypes ==
  ASSUME TypeInv, Answer
  PROVE  TypeInv'
<1>1. reply' \in {"ACK", "ERROR", "DATA"} /\ interrupted' \in BOOLEAN
  BY DEF Answer
<1>2. QED
  BY <1>1 DEF Answer, TypeInv, TriggerTypeOK, Fitting, config, boards, crate, locals

LEMMA RestartKeepsTypes ==
  ASSUME TypeInv, Restart
  PROVE  TypeInv'
<1>1. reply' # "none" /\ UNCHANGED <<boards, busy, param, ctrl, stamp, locals, got, lost, cleared, asked, seen>>
  BY DEF Restart
<1>2. active' \in SUBSET Slots /\ immutable' \in Masks /\ tib' \in {0, 1} /\ clock' \in Nat
  BY DEF Restart, TypeInv, TriggerTypeOK, Masks
<1>3. todo' \in SUBSET ((Slots \cup {0}) \X Nat) /\ err' \in BOOLEAN /\ interrupted' \in BOOLEAN
  BY DEF Restart
<1>4. reply' \in {"none", "ACK", "ERROR", "DATA"}
  BY DEF Restart
<1>5. QED
  BY <1>1, <1>2, <1>3, <1>4 DEF TypeInv, TriggerTypeOK, Fitting, boards, locals

LEMMA EnvironmentKeepsTypes ==
  ASSUME TypeInv, ClockTicks \/ (\E s \in Slots : Trigger(s)) \/ UNCHANGED triggerVars
  PROVE  TypeInv'
<1> USE DEF TypeInv, TriggerTypeOK, Fitting, Fits, Params, Mutable,
            config, handling, boards, crate, locals, ghosts
<1>1. CASE ClockTicks
  BY <1>1 DEF ClockTicks
<1>2. ASSUME NEW s \in Slots, Trigger(s) PROVE TypeInv'
  <2> DEFINE size == HalfSize * HalfSize
  <2>1. size \in Nat \ {0} /\ \A n \in Nat : (n + 1) % size \in 0 .. size - 1
    BY ConstantTypes
  <2>2. (scaler[s].n + 1) % size \in 0 .. size - 1
    <3>1. scaler[s].n \in Nat
      BY CounterTypes
    <3> HIDE DEF size
    <3>2. QED
      BY <2>1, <3>1
  <2> HIDE DEF size
  <2>3. scaler \in [Slots -> [on : BOOLEAN, n : 0 .. size - 1]]
    BY DEF size
  <2>4. scaler' = scaler \/ scaler' = [scaler EXCEPT ![s].n = (@ + 1) % size]
    BY <1>2 DEF Trigger, size
  <2>5. scaler' \in [Slots -> [on : BOOLEAN, n : 0 .. size - 1]]
    <3> DEFINE x == (scaler[s].n + 1) % size
               N == 0 .. size - 1
    <3>1. x \in N /\ (scaler' = scaler \/ scaler' = [scaler EXCEPT ![s].n = x])
      BY <2>2, <2>4
    <3> HIDE DEF x, N
    <3>2. scaler' \in [Slots -> [on : BOOLEAN, n : N]]
      BY <2>3, <3>1, SMTT(30) DEF N
    <3>3. QED
      BY <3>2 DEF N
  <2>6. /\ tib' \in {0, 1}
        /\ UNCHANGED <<config, handling, l1, delay, limits, busy, param, ctrl, stamp, clock,
                       locals, ghosts>>
    BY <1>2 DEF Trigger
  <2>7. scaler' \in [Slots -> [on : BOOLEAN, n : 0 .. HalfSize * HalfSize - 1]]
    BY <2>5 DEF size
  <2>8. TriggerTypeOK'
    BY <2>6, <2>7
  <2>9. Fitting'
    BY <2>6
  <2>10. QED
    BY <2>8, <2>9
<1>3. CASE UNCHANGED triggerVars
  BY <1>3 DEF triggerVars
<1>4. QED
  BY <1>1, <1>2, <1>3

LEMMA RequestsStart ==
  ASSUME TypeInv, BoardRequest \/ CrateRequest
  PROVE  Starting \/ Refusing
  BY BoardRequestsStart, CrateRequestsStart DEF TypeInv

LEMMA TypesInductive == TypeInv /\ [TriggerNext]_triggerVars => TypeInv'
<1> SUFFICES ASSUME TypeInv, [TriggerNext]_triggerVars PROVE TypeInv'
  OBVIOUS
<1>1. CASE BoardRequest \/ CrateRequest
  <2>1. ASSUME Starting PROVE TypeInv'
    BY <2>1, BeginKeepsTypes DEF Starting
  <2>2. ASSUME Refusing PROVE TypeInv'
    BY <2>2, RefuseKeepsTypes DEF Refusing
  <2>3. QED
    BY <1>1, <2>1, <2>2, RequestsStart
<1>2. ASSUME NEW p \in todo, BoardAccess(p) PROVE TypeInv'
  BY <1>2, WriteTriggersKeepsTypes, WriteTriggerKeepsTypes, WriteDelayKeepsTypes,
     WriteLimitKeepsTypes, WriteScalersKeepsTypes, ReadBoardKeepsTypes, ReadLowKeepsTypes,
     ReadHighKeepsTypes DEF BoardAccess
<1>3. ASSUME NEW p \in todo, CrateAccess(p) PROVE TypeInv'
  BY <1>3, LatchKeepsTypes, ReadStampKeepsTypes, WriteControlKeepsTypes,
     WriteParameterKeepsTypes, WriteBusyKeepsTypes, ClearCountersKeepsTypes DEF CrateAccess
<1>4. QED
  BY <1>1, <1>2, <1>3, ConfigKeepsTypes, AnswerKeepsTypes, RestartKeepsTypes,
     EnvironmentKeepsTypes DEF TriggerNext

LEMMA TypesInitially == TriggerInit => TypeInv
<1> SUFFICES ASSUME TriggerInit PROVE TypeInv
  OBVIOUS
<1>1. 0 \in 0 .. HalfSize - 1 /\ 0 \in 0 .. HalfSize * HalfSize - 1 /\ 0 \in 0 .. MaxValue
      /\ MaxValue \in 0 .. MaxValue
  BY ConstantTypes
<1>2. scaler \in [Slots -> [on : BOOLEAN, n : 0 .. HalfSize * HalfSize - 1]]
  BY <1>1 DEF TriggerInit
<1>3. QED
  BY <1>1, <1>2 DEF TriggerInit, TypeInv, TriggerTypeOK, Fitting, Masks

\* Every variable keeps its type, and a request in progress its parameters and its
\* places, in every crate and for all limits.
THEOREM TriggerTypesCorrect == TriggerSpec => []TriggerTypeOK
<1>1. TypeInv => TriggerTypeOK
  BY DEF TypeInv
<1>2. QED
  BY <1>1, TypesInitially, TypesInductive, PTL DEF TriggerSpec

-----------------------------------------------------------------------------
(* Protected channels *)

Protection ==
  \A s \in Slots, c \in Channels : ~Mutable(s, c) =>
    (c \in l1'[s] <=> c \in l1[s]) /\ delay'[s][c] = delay[s][c]

LEMMA ProtectedByTriggers ==
  ASSUME TypeInv, NEW p, WriteTriggers(p)
  PROVE  Protection
<1>1. p[1] \in active /\ delay' = delay /\ l1 \in Masks /\ immutable \in Masks
  BY AccessFacts DEF WriteTriggers, TypeInv, TriggerTypeOK, Fits
<1>2. SUFFICES ASSUME NEW s \in Slots, NEW c \in Channels, ~Mutable(s, c)
              PROVE  c \in l1'[s] <=> c \in l1[s]
  BY <1>1 DEF Protection
<1>3. CASE s = p[1]
  <2>1. c \in immutable[s]
    BY <1>1, <1>2, <1>3 DEF Mutable
  <2>2. l1'[s] = AllTriggers(l1[s], immutable[s], req.on)
    BY <1>1, <1>3 DEF WriteTriggers, Masks
  <2>3. QED
    BY <2>1, <2>2 DEF AllTriggers
<1>4. CASE s # p[1]
  BY <1>1, <1>4 DEF WriteTriggers, Masks
<1>5. QED
  BY <1>3, <1>4

LEMMA ProtectedByTrigger ==
  ASSUME TypeInv, NEW p, WriteTrigger(p)
  PROVE  Protection
<1>1. Mutable(p[1], p[2]) /\ delay' = delay /\ l1 \in Masks
  BY AccessFacts DEF WriteTrigger, TypeInv, TriggerTypeOK, Fits
<1>2. l1' = [l1 EXCEPT ![p[1]] = Bit(@, p[2], req.on)]
  BY DEF WriteTrigger
<1>3. QED
  BY <1>1, <1>2 DEF Protection, Bit, Masks

LEMMA ProtectedByDelay ==
  ASSUME TypeInv, NEW p, WriteDelay(p)
  PROVE  Protection
<1>1. Mutable(p[1], p[2]) /\ l1' = l1 /\ delay \in [Slots -> [Channels -> 0 .. MaxValue]]
  BY AccessFacts DEF WriteDelay, TypeInv, TriggerTypeOK, Fits
<1>2. delay' = delay \/ delay' = [delay EXCEPT ![p[1]][p[2]] = Written(req.value)]
  BY DEF WriteDelay
<1>3. QED
  BY <1>1, <1>2 DEF Protection

LEMMA ProtectionHolds == TypeInv /\ TriggerNext => Protection
<1> SUFFICES ASSUME TypeInv, TriggerNext PROVE Protection
  OBVIOUS
<1>1. UNCHANGED <<l1, delay>> => Protection
  BY DEF Protection
<1>2. CASE BoardRequest \/ CrateRequest
  BY <1>1, <1>2, RequestsStart DEF Starting, Refusing, Begin, Refuse, boards
<1>3. ASSUME NEW p \in todo, BoardAccess(p) PROVE Protection
  BY <1>1, <1>3, ProtectedByTriggers, ProtectedByTrigger, ProtectedByDelay
     DEF BoardAccess, WriteLimit, WriteScalers, ReadBoard, ReadLow, ReadHigh, boards
<1>4. ASSUME NEW p \in todo, CrateAccess(p) PROVE Protection
  BY <1>1, <1>4
     DEF CrateAccess, Latch, ReadStamp, WriteControl, WriteParameter, WriteBusy, ClearCounters, boards
<1>5. QED
  BY <1>1, <1>2, <1>3, <1>4
     DEF TriggerNext, SetConfig, Answer, Restart, ClockTicks, Trigger, boards

\* No request, failure or restart changes the trigger or the delay of a channel that
\* is immutable or in a slot left out, for any crate and any masks: the places of a
\* request are chosen when it comes, and the masks stay until it is answered.
THEOREM ProtectionCorrect == TriggerSpec => ProtectedTriggersKept
<1>1. TypeInv /\ [TriggerNext]_triggerVars => [Protection]_triggerVars
  BY ProtectionHolds
<1>2. QED
  BY <1>1, TypesInitially, TypesInductive, PTL DEF TriggerSpec, ProtectedTriggersKept, Protection

-----------------------------------------------------------------------------
(* The reset of the TIB counters *)

\* Where the clear bit may be set, and what a reset has reached.
Resetting == reply = "none" /\ req.kind = "RESET_TIB_COUNT"

ClearBitKnown ==
  "CT_CLEAR" \in ctrl =>
    \/ interrupted = TRUE
    \/ Resetting /\ <<0, 1>> \notin todo /\ <<0, 2>> \in todo

ResetSoFar ==
  Resetting =>
    /\ todo \in SUBSET {<<0, 1>>, <<0, 2>>}
    /\ <<0, 1>> \in todo => <<0, 2>> \in todo
    /\ <<0, 1>> \notin todo => cleared = TRUE \/ interrupted = TRUE
    /\ <<0, 2>> \notin todo => "CT_CLEAR" \notin ctrl

ResetInv == ClearBitKnown /\ ResetSoFar

LEMMA ResetInitially == TriggerInit => ResetInv
  BY DEF TriggerInit, ResetInv, ClearBitKnown, ResetSoFar, Resetting

\* Steps of other requests, which leave the clear bit alone.
LEMMA ResetUntouched ==
  ASSUME ResetInv, ~Resetting, ~Resetting', interrupted' = interrupted,
         "CT_CLEAR" \in ctrl' => "CT_CLEAR" \in ctrl
  PROVE  ResetInv'
  BY DEF ResetInv, ClearBitKnown, ResetSoFar

LEMMA ClearKeepsReset ==
  ASSUME TypeInv, ResetInv, NEW p, ClearCounters(p)
  PROVE  ResetInv'
<1>1. Does({"RESET_TIB_COUNT"}, p) /\ First(p) /\ todo' = todo \ {p} /\ interrupted' = interrupted
  BY DEF ClearCounters, Advance, Does
<1>2. Resetting /\ Resetting' /\ p \in todo
  BY <1>1, AccessFacts DEF Resetting
<1>3. /\ ctrl' = ClearBit(p[2])
      /\ cleared' = (cleared \/ "CT_CLEAR" \in ctrl' \ ctrl)
      /\ cleared \in BOOLEAN
  BY DEF ClearCounters, WriteCtrl, TypeInv, TriggerTypeOK
<1>4. CASE p = <<0, 1>>
  <2>1. <<0, 1>> \notin todo' /\ <<0, 2>> \in todo' /\ todo' \in SUBSET {<<0, 1>>, <<0, 2>>}
    BY <1>1, <1>2, <1>4 DEF ResetInv, ResetSoFar
  <2>2. ctrl' = ctrl \cup {"CT_CLEAR"}
    BY <1>3, <1>4 DEF ClearBit, Bit
  <2>3. "CT_CLEAR" \in ctrl => interrupted = TRUE
    BY <1>2, <1>4 DEF ResetInv, ClearBitKnown
  <2>4. cleared' = TRUE \/ interrupted' = TRUE
    BY <1>1, <1>3, <2>2, <2>3
  <2>5. QED
    BY <1>2, <2>1, <2>4 DEF ResetInv, ClearBitKnown, ResetSoFar
<1>5. CASE p = <<0, 2>>
  <2>1. <<0, 1>> \notin todo
    <3> SUFFICES ASSUME <<0, 1>> \in todo PROVE FALSE
      OBVIOUS
    <3>1. 0 < 0 \/ (0 = 0 /\ 2 <= 1)
      BY <1>1, <1>5 DEF First
    <3>2. QED
      BY <3>1
  <2>2. <<0, 1>> \notin todo' /\ <<0, 2>> \notin todo' /\ todo' \in SUBSET {<<0, 1>>, <<0, 2>>}
    BY <1>1, <1>2, <1>5, <2>1 DEF ResetInv, ResetSoFar
  <2>3. "CT_CLEAR" \notin ctrl'
    BY <1>3, <1>5 DEF ClearBit, Bit
  <2>4. cleared' = TRUE \/ interrupted' = TRUE
    BY <1>1, <1>2, <1>3, <2>1 DEF ResetInv, ResetSoFar
  <2>5. QED
    BY <1>2, <2>2, <2>3, <2>4 DEF ResetInv, ClearBitKnown, ResetSoFar
<1>6. QED
  BY <1>2, <1>4, <1>5 DEF ResetInv, ResetSoFar

LEMMA BoardAccessKeepsReset ==
  ASSUME TypeInv, ResetInv, NEW p \in todo, BoardAccess(p)
  PROVE  ResetInv'
<1> DEFINE others == Kinds \ {"RESET_TIB_COUNT"}
<1>1. Does(others, p) /\ UNCHANGED <<ctrl, interrupted>>
  BY DEF BoardAccess, WriteTriggers, WriteTrigger, WriteDelay, WriteLimit, WriteScalers, ReadBoard,
         ReadLow, ReadHigh, Does, Kinds, StateKinds, crate
<1>2. ~Resetting /\ ~Resetting'
  BY <1>1, AccessFacts DEF Resetting
<1>3. QED
  BY <1>1, <1>2, ResetUntouched

LEMMA CrateAccessKeepsReset ==
  ASSUME TypeInv, ResetInv, NEW p \in todo, CrateAccess(p)
  PROVE  ResetInv'
<1> DEFINE others == Kinds \ {"RESET_TIB_COUNT"}
<1>1. ASSUME Does(others, p), interrupted' = interrupted, "CT_CLEAR" \in ctrl' => "CT_CLEAR" \in ctrl
      PROVE  ResetInv'
  <2>1. ~Resetting /\ ~Resetting'
    BY <1>1, AccessFacts DEF Resetting
  <2>2. QED
    BY <1>1, <2>1, ResetUntouched
<1>2. CASE Latch(p)
  BY <1>1, <1>2 DEF Latch, Advance, WriteCtrl, LatchBit, Bit, Does, Kinds, StateKinds
<1>3. CASE ReadStamp(p)
  BY <1>1, <1>3 DEF ReadStamp, crate, ghosts, Does, Kinds, StateKinds
<1>4. CASE WriteControl(p)
  BY <1>1, <1>4 DEF WriteControl, WriteCtrl, Bit, Does, Kinds
<1>5. CASE WriteParameter(p)
  BY <1>1, <1>5 DEF WriteParameter, Does, Kinds
<1>6. CASE WriteBusy(p)
  BY <1>1, <1>6 DEF WriteBusy, Does, Kinds
<1>7. QED
  BY <1>2, <1>3, <1>4, <1>5, <1>6, ClearKeepsReset DEF CrateAccess

LEMMA BeginKeepsReset ==
  ASSUME ResetInv, NEW r, NEW P, Whole(r, P), Begin(r, P)
  PROVE  ResetInv'
<1>1. req' = r /\ todo' = P /\ ctrl' = ctrl /\ interrupted' = interrupted
  BY DEF Begin, crate
<1>2. "CT_CLEAR" \in ctrl => interrupted = TRUE
  BY DEF Begin, ResetInv, ClearBitKnown, Resetting
<1>3. r.kind = "RESET_TIB_COUNT" => P = {<<0, 1>>, <<0, 2>>}
  BY DEF Whole
<1>4. QED
  BY <1>1, <1>2, <1>3 DEF ResetInv, ClearBitKnown, ResetSoFar, Resetting

LEMMA AnswerKeepsReset ==
  ASSUME TypeInv, ResetInv, Answer
  PROVE  ResetInv'
<1>1. ~Resetting' /\ ctrl' = ctrl /\ todo = {}
  BY DEF Answer, Resetting, crate
<1>2. CASE req.kind = "RESET_TIB_COUNT"
  <2>1. "CT_CLEAR" \notin ctrl
    BY <1>1, <1>2 DEF ResetInv, ResetSoFar, Resetting, Answer
  <2>2. QED
    BY <1>1, <2>1 DEF ResetInv, ClearBitKnown, ResetSoFar
<1>3. CASE req.kind # "RESET_TIB_COUNT"
  BY <1>1, <1>3 DEF ResetInv, ClearBitKnown, ResetSoFar, Resetting, Answer
<1>4. QED
  BY <1>2, <1>3

LEMMA RestartKeepsReset ==
  ASSUME TypeInv, ResetInv, Restart
  PROVE  ResetInv'
<1>1. ~Resetting' /\ ctrl' = ctrl
  BY DEF Restart, Resetting
<1>2. "CT_CLEAR" \in ctrl => interrupted' = TRUE
  BY DEF Restart, ResetInv, ClearBitKnown, Resetting, TypeInv, TriggerTypeOK
<1>3. QED
  BY <1>1, <1>2 DEF ResetInv, ClearBitKnown, ResetSoFar

LEMMA ResetInductive == TypeInv /\ ResetInv /\ [TriggerNext]_triggerVars => ResetInv'
<1> SUFFICES ASSUME TypeInv, ResetInv, [TriggerNext]_triggerVars PROVE ResetInv'
  OBVIOUS
<1>1. CASE BoardRequest \/ CrateRequest
  <2>1. ASSUME Starting PROVE ResetInv'
    BY <2>1, BeginKeepsReset DEF Starting
  <2>2. ASSUME Refusing PROVE ResetInv'
    BY <2>2 DEF Refusing, Refuse, ResetInv, ClearBitKnown, ResetSoFar, Resetting, crate, ghosts
  <2>3. QED
    BY <1>1, <2>1, <2>2, RequestsStart
<1>2. ASSUME NEW cfg \in Configs, SetConfig(cfg) PROVE ResetInv'
  BY <1>2 DEF SetConfig, ResetInv, ClearBitKnown, ResetSoFar, Resetting, crate, ghosts
<1>3. CASE ClockTicks
  BY <1>3 DEF ClockTicks, ResetInv, ClearBitKnown, ResetSoFar, Resetting, handling, crate, ghosts
<1>4. ASSUME NEW s \in Slots, Trigger(s) PROVE ResetInv'
  BY <1>4 DEF Trigger, ResetInv, ClearBitKnown, ResetSoFar, Resetting, handling, ghosts
<1>5. CASE UNCHANGED triggerVars
  BY <1>5 DEF triggerVars, ResetInv, ClearBitKnown, ResetSoFar, Resetting, handling, crate, ghosts
<1>6. QED
  BY <1>1, <1>2, <1>3, <1>4, <1>5, BoardAccessKeepsReset, CrateAccessKeepsReset,
     AnswerKeepsReset, RestartKeepsReset DEF TriggerNext

\* The only step that acknowledges what was in progress is its answer.
LEMMA AcknowledgedByAnswer ==
  ASSUME TypeInv, TriggerNext, reply = "none", reply' = "ACK"
  PROVE  Answer
<1>1. CASE BoardRequest \/ CrateRequest
  BY <1>1, RequestsStart DEF Starting, Refusing, Begin, Refuse
<1>2. ASSUME NEW p \in todo, BoardAccess(p) \/ CrateAccess(p) PROVE FALSE
  BY <1>2
     DEF BoardAccess, WriteTriggers, WriteTrigger, WriteDelay, WriteLimit, WriteScalers, ReadBoard,
         ReadLow, ReadHigh, CrateAccess, Latch, ReadStamp, WriteControl, WriteParameter, WriteBusy,
         ClearCounters, Does
<1>3. QED
  BY <1>1, <1>2 DEF TriggerNext, SetConfig, Restart, ClockTicks, Trigger, handling

\* A reset that is acknowledged has cleared the counters and leaves the bit cleared,
\* unless a process died in the middle of the last one: the clear bit is then known to be
\* set nowhere else, so that setting it makes an edge.
THEOREM ResetCorrect == TriggerSpec => ResetTakesEffect
<1> DEFINE Effect == Acknowledges("RESET_TIB_COUNT") =>
                       (cleared \/ interrupted) /\ "CT_CLEAR" \notin ctrl
<1>1. TypeInv /\ ResetInv /\ [TriggerNext]_triggerVars => [Effect]_triggerVars
  <2> SUFFICES ASSUME TypeInv, ResetInv, TriggerNext, Acknowledges("RESET_TIB_COUNT")
               PROVE  (cleared \/ interrupted) /\ "CT_CLEAR" \notin ctrl
    OBVIOUS
  <2>1. Resetting /\ todo = {}
    BY AcknowledgedByAnswer DEF Acknowledges, Answer, Resetting
  <2>2. QED
    BY <2>1 DEF ResetInv, ResetSoFar
<1>2. QED
  BY <1>1, TypesInitially, TypesInductive, ResetInitially, ResetInductive, PTL
     DEF TriggerSpec, ResetTakesEffect

-----------------------------------------------------------------------------
(* The timestamp of a reply *)

Stamping == reply = "none" /\ req.kind \in StateKinds

\* The latch bit is clear before the access that sets it, so that it makes an edge; once
\* that access is over the stamp is one of this request.
StampSoFar ==
  Stamping =>
    /\ <<0, 1>> \notin todo /\ <<0, 2>> \in todo => "LATCH_TIMESTAMP" \notin ctrl
    /\ <<0, 2>> \notin todo => stamp >= asked

AskedBefore == reply = "none" => asked <= clock

StampInv == AskedBefore /\ StampSoFar /\ TimestampFresh

LEMMA StampInitially == TriggerInit => StampInv
  BY DEF TriggerInit, StampInv, AskedBefore, StampSoFar, Stamping, TimestampFresh

\* Steps that are not about the state of the L2CB.
LEMMA StampUntouched ==
  ASSUME AskedBefore, ~Stamping', reply' # "DATA",
         reply' = "none" => reply = "none" /\ UNCHANGED <<asked, clock>>
  PROVE  StampInv'
  BY DEF StampInv, AskedBefore, StampSoFar, TimestampFresh

LEMMA LatchKeepsStamp ==
  ASSUME TypeInv, StampInv, NEW p, Latch(p)
  PROVE  StampInv'
<1>1. /\ Does(StateKinds, p) /\ First(p) /\ todo' = todo \ {p} /\ asked' = asked
      /\ p[1] = 0 /\ p[2] < 3 /\ WriteCtrl(LatchBit(p[2]))
  BY DEF Latch, Advance, Does
<1>2. /\ Stamping /\ Stamping' /\ clock' = clock /\ reply' = "none" /\ reply = "none"
      /\ p \in todo /\ p = <<0, p[2]>> /\ p[2] \in Nat
  BY <1>1, AccessFacts DEF Stamping
<1>3. clock \in Nat /\ asked \in Nat /\ asked <= clock
  BY <1>2 DEF StampInv, AskedBefore, TypeInv, TriggerTypeOK
<1>4. CASE p = <<0, 2>>
  <2>1. <<0, 1>> \notin todo
    <3> SUFFICES ASSUME <<0, 1>> \in todo PROVE FALSE
      OBVIOUS
    <3>1. 0 < 0 \/ (0 = 0 /\ 2 <= 1)
      BY <1>1, <1>4 DEF First
    <3>2. QED
      BY <3>1
  <2>2. "LATCH_TIMESTAMP" \notin ctrl
    BY <1>2, <1>4, <2>1 DEF StampInv, StampSoFar
  <2>3. stamp' = clock
    BY <1>1, <1>4, <2>2 DEF WriteCtrl, LatchBit, Bit
  <2>4. QED
    BY <1>1, <1>2, <1>3, <1>4, <2>3 DEF StampInv, AskedBefore, StampSoFar, TimestampFresh
<1>5. CASE p # <<0, 2>>
  <2>1. p[2] # 2
    BY <1>2, <1>5
  <2>2. "LATCH_TIMESTAMP" \notin ctrl' /\ stamp' = stamp
    BY <1>1, <2>1 DEF WriteCtrl, LatchBit, Bit
  <2>3. <<0, 2>> \notin todo' => <<0, 2>> \notin todo
    BY <1>1, <1>5
  <2>4. QED
    BY <1>1, <1>2, <1>3, <2>2, <2>3 DEF StampInv, AskedBefore, StampSoFar, TimestampFresh
<1>6. QED
  BY <1>4, <1>5

\* What the accesses between the latches keep: the places of the latches, and the stamp.
LEMMA OthersKeepStamp ==
  ASSUME TypeInv, StampInv, NEW p, Does(StateKinds, p), UNCHANGED <<ctrl, stamp, asked>>,
         \/ {<<0, 1>>, <<0, 2>>} \subseteq todo'
         \/ (<<0, 1>> \in todo' <=> <<0, 1>> \in todo) /\ (<<0, 2>> \in todo' <=> <<0, 2>> \in todo)
  PROVE  StampInv'
<1>1. Stamping /\ Stamping' /\ reply = "none" /\ reply' = "none" /\ clock' = clock
  BY AccessFacts DEF Stamping
<1>2. QED
  BY <1>1 DEF StampInv, AskedBefore, StampSoFar, TimestampFresh

LEMMA CrateAccessKeepsStamp ==
  ASSUME TypeInv, StampInv, NEW p \in todo, CrateAccess(p)
  PROVE  StampInv'
<1> DEFINE others == Kinds \ StateKinds
<1>1. ASSUME Does(others, p), asked' = asked PROVE StampInv'
  <2>1. ~Stamping' /\ reply = "none" /\ reply' = "none" /\ clock' = clock
    BY <1>1, AccessFacts DEF Stamping
  <2>2. QED
    BY <1>1, <2>1, StampUntouched DEF StampInv
<1>2. CASE ReadStamp(p)
  <2>1. /\ Does(StateKinds, p) /\ UNCHANGED <<ctrl, stamp, asked>>
        /\ \/ todo' = todo \cup ({0} \X (1 .. 3))
           \/ p = <<0, 3>> /\ todo' = todo \ {p}
    BY <1>2 DEF ReadStamp, crate, ghosts
  <2>2. QED
    BY <2>1, OthersKeepStamp
<1>3. CASE WriteControl(p) \/ WriteParameter(p) \/ WriteBusy(p) \/ ClearCounters(p)
  BY <1>1, <1>3 DEF WriteControl, WriteParameter, WriteBusy, ClearCounters, Does, Kinds, StateKinds
<1>4. QED
  BY <1>2, <1>3, LatchKeepsStamp DEF CrateAccess

LEMMA BoardAccessKeepsStamp ==
  ASSUME TypeInv, StampInv, NEW p \in todo, BoardAccess(p)
  PROVE  StampInv'
<1>1. UNCHANGED <<ctrl, stamp, asked>>
  BY DEF BoardAccess, WriteTriggers, WriteTrigger, WriteDelay, WriteLimit, WriteScalers, ReadBoard,
         ReadLow, ReadHigh, crate
<1>2. CASE ReadBoard(p)
  <2>1. p[1] # 0 /\ todo' = todo \ {p} /\ Does(Kinds, p)
    BY <1>2 DEF ReadBoard, Outcome, Does, Kinds
  <2>2. p # <<0, 1>> /\ p # <<0, 2>>
    BY <2>1
  <2>3. CASE req.kind \in StateKinds
    <3>1. Does(StateKinds, p)
      BY <2>1, <2>3 DEF Does
    <3>2. QED
      BY <1>1, <2>1, <2>2, <3>1, OthersKeepStamp
  <2>4. CASE req.kind \notin StateKinds
    <3>1. ~Stamping' /\ reply = "none" /\ reply' = "none" /\ clock' = clock
      BY <2>1, <2>4, AccessFacts DEF Stamping
    <3>2. QED
      BY <1>1, <3>1, StampUntouched DEF StampInv
  <2>5. QED
    BY <2>3, <2>4
<1>3. CASE ~ReadBoard(p)
  <2>1. Does(Kinds \ StateKinds, p)
    BY <1>3
       DEF BoardAccess, WriteTriggers, WriteTrigger, WriteDelay, WriteLimit, WriteScalers, ReadLow,
           ReadHigh, Does, Kinds, StateKinds
  <2>2. ~Stamping' /\ reply = "none" /\ reply' = "none" /\ clock' = clock
    BY <2>1, AccessFacts DEF Stamping
  <2>3. QED
    BY <1>1, <2>2, StampUntouched DEF StampInv
<1>4. QED
  BY <1>2, <1>3

LEMMA BeginKeepsStamp ==
  ASSUME TypeInv, StampInv, NEW r, NEW P, Whole(r, P), Begin(r, P)
  PROVE  StampInv'
<1>1. req' = r /\ todo' = P /\ reply' = "none" /\ asked' = clock /\ clock' = clock /\ clock \in Nat
  BY DEF Begin, TypeInv, TriggerTypeOK
<1>2. r.kind \in StateKinds => <<0, 1>> \in P /\ <<0, 2>> \in P
  BY DEF Whole, StateKinds
<1>3. QED
  BY <1>1, <1>2 DEF StampInv, AskedBefore, StampSoFar, Stamping, TimestampFresh

LEMMA AnswerKeepsStamp ==
  ASSUME StampInv, Answer
  PROVE  StampInv'
<1>1. /\ reply = "none" /\ reply' # "none" /\ req' = req /\ todo = {}
      /\ UNCHANGED <<stamp, asked>>
  BY DEF Answer, crate
<1>2. req.kind \in StateKinds => stamp >= asked
  BY <1>1 DEF StampInv, StampSoFar, Stamping
<1>3. QED
  BY <1>1, <1>2 DEF StampInv, AskedBefore, StampSoFar, Stamping, TimestampFresh

LEMMA StampInductive == TypeInv /\ StampInv /\ [TriggerNext]_triggerVars => StampInv'
<1> SUFFICES ASSUME TypeInv, StampInv, [TriggerNext]_triggerVars PROVE StampInv'
  OBVIOUS
<1>1. CASE BoardRequest \/ CrateRequest
  <2>1. ASSUME Starting PROVE StampInv'
    BY <2>1, BeginKeepsStamp DEF Starting
  <2>2. ASSUME Refusing PROVE StampInv'
    BY <2>2 DEF Refusing, Refuse, StampInv, AskedBefore, StampSoFar, Stamping, TimestampFresh
  <2>3. QED
    BY <1>1, <2>1, <2>2, RequestsStart
<1>2. ASSUME NEW cfg \in Configs, SetConfig(cfg) PROVE StampInv'
  BY <1>2 DEF SetConfig, StampInv, AskedBefore, StampSoFar, Stamping, TimestampFresh
<1>3. CASE Restart
  BY <1>3 DEF Restart, StampInv, AskedBefore, StampSoFar, Stamping, TimestampFresh
<1>4. CASE ClockTicks
  <2>1. clock \in Nat /\ clock' = clock + 1 /\ asked \in Nat /\ asked' = asked
    BY <1>4 DEF ClockTicks, TypeInv, TriggerTypeOK, ghosts
  <2>2. QED
    BY <1>4, <2>1
       DEF ClockTicks, StampInv, AskedBefore, StampSoFar, Stamping, TimestampFresh, handling, crate
<1>5. ASSUME NEW s \in Slots, Trigger(s) PROVE StampInv'
  BY <1>5 DEF Trigger, StampInv, AskedBefore, StampSoFar, Stamping, TimestampFresh, handling, ghosts
<1>6. CASE UNCHANGED triggerVars
  BY <1>6
     DEF triggerVars, StampInv, AskedBefore, StampSoFar, Stamping, TimestampFresh, handling, crate,
         ghosts
<1>7. QED
  BY <1>1, <1>2, <1>3, <1>4, <1>5, <1>6, BoardAccessKeepsStamp, CrateAccessKeepsStamp,
     AnswerKeepsStamp DEF TriggerNext

\* The timestamp of a reply has been latched since the request came, for any number of
\* reads of an unchanged value and whatever the latch bit was before: it is cleared first.
THEOREM TimestampCorrect == TriggerSpec => []TimestampFresh
<1>1. StampInv => TimestampFresh
  BY DEF StampInv
<1>2. QED
  BY <1>1, TypesInitially, TypesInductive, StampInitially, StampInductive, PTL DEF TriggerSpec

-----------------------------------------------------------------------------
(* What an answer says *)

\* What a request has done so far, if no access has failed: for each of its places, the
\* place is still left or what it stands for is done.
TriggersSoFar ==
  req.kind = "SET_ALL_TRIG_EN" =>
    \A s \in active :
      \/ <<s, 0>> \in todo
      \/ l1[s] \ immutable[s] = IF req.on THEN Channels \ immutable[s] ELSE {}

DelaysSoFar ==
  req.kind = "SET_ALL_TRIG_DELAY" =>
    \A s \in Slots, c \in Channels :
      Mutable(s, c) => <<s, c>> \in todo \/ delay[s][c] = Saturated(req.value)

ChannelSoFar ==
  /\ req.kind \in {"SET_CH_TRIG", "SET_CH_DELAY"} =>
       Mutable(req.slot, req.ch) /\ todo \subseteq {<<req.slot, req.ch>>}
  /\ req.kind = "SET_CH_TRIG" => todo # {} \/ (req.ch \in l1[req.slot] <=> req.on)
  /\ req.kind = "SET_CH_DELAY" => todo # {} \/ delay[req.slot][req.ch] = Saturated(req.value)

LimitsSoFar ==
  req.kind = "SET_LIMITS" =>
    /\ req.slot \in Slots /\ todo \subseteq {req.slot} \X {1, 2}
    /\ <<req.slot, 1>> \in todo \/ limits[req.slot].min = Saturated(req.min)
    /\ <<req.slot, 2>> \in todo \/ limits[req.slot].max = Saturated(req.max)

\* The last broadcast decides.
ScalersSoFar ==
  req.kind = "SET_L1SCALERS_EN" =>
    LET last == IF req.on THEN 4 ELSE 1 IN
      /\ todo \subseteq {1} \X (1 .. last)
      /\ <<1, last>> \notin todo =>
           todo = {} /\ (~lost => \A s \in Slots : scaler[s].on = req.on)

CrateSoFar ==
  /\ req.kind = "SET_CTRL" => todo # {} \/ ("MCF_EN" \in ctrl <=> req.on)
  /\ req.kind = "SET_PARAM" => todo # {} \/ param = Saturated(req.value)

BusySoFar ==
  req.kind = "SET_BUSY" =>
    /\ todo \subseteq {0} \X {1, 2}
    /\ <<0, 1>> \in todo \/ busy \cap LeftSlots = req.mask \cap LeftSlots
    /\ <<0, 2>> \in todo \/ busy \ LeftSlots = req.mask \ LeftSlots

ReadsSoFar ==
  /\ req.kind \in {"GET", "FAST_POLL"} =>
       LET reads == req.slots \X (1 .. PollReads) IN
         /\ got \subseteq reads /\ reads \subseteq todo \cup got
         /\ \A p \in todo : p[1] = 0 \/ p \in reads
  /\ req.kind = "L1SCALERS_POLL" =>
       /\ got \subseteq active \X {2} /\ active \X {2} \subseteq todo \cup got
       /\ todo \subseteq active \X {1, 2}

SoFar ==
  /\ TriggersSoFar /\ DelaysSoFar /\ ChannelSoFar /\ LimitsSoFar /\ ScalersSoFar
  /\ CrateSoFar /\ BusySoFar /\ ReadsSoFar

HonestInv == (reply = "none" /\ err = FALSE => SoFar) /\ RepliesAreHonest

LEMMA HonestInitially == TriggerInit => HonestInv
  BY DEF TriggerInit, HonestInv, RepliesAreHonest

\* Of a request of one kind the others' promises say nothing.
LEMMA OfOneKind ==
  /\ req'.kind = "SET_ALL_TRIG_EN" /\ TriggersSoFar' => SoFar'
  /\ req'.kind = "SET_ALL_TRIG_DELAY" /\ DelaysSoFar' => SoFar'
  /\ req'.kind \in {"SET_CH_TRIG", "SET_CH_DELAY"} /\ ChannelSoFar' => SoFar'
  /\ req'.kind = "SET_LIMITS" /\ LimitsSoFar' => SoFar'
  /\ req'.kind = "SET_L1SCALERS_EN" /\ ScalersSoFar' => SoFar'
  /\ req'.kind \in {"SET_CTRL", "SET_PARAM"} /\ CrateSoFar' => SoFar'
  /\ req'.kind = "SET_BUSY" /\ BusySoFar' => SoFar'
  /\ req'.kind \in {"GET", "FAST_POLL", "L1SCALERS_POLL"} /\ ReadsSoFar' => SoFar'
  /\ req'.kind \in {"GET_STATE", "RESET_TIB_COUNT"} => SoFar'
  BY DEF SoFar, TriggersSoFar, DelaysSoFar, ChannelSoFar, LimitsSoFar, ScalersSoFar, CrateSoFar,
         BusySoFar, ReadsSoFar

\* An access does not answer: what it has to keep.
LEMMA AccessKeepsHonest ==
  ASSUME TypeInv, HonestInv, NEW kinds, NEW p, Does(kinds, p),
         SoFar /\ err = FALSE /\ err' = FALSE => SoFar', err' = FALSE => err = FALSE
  PROVE  HonestInv'
<1>1. reply = "none" /\ reply' = "none"
  BY AccessFacts
<1>2. RepliesAreHonest'
  BY <1>1 DEF RepliesAreHonest
<1>3. QED
  BY <1>1, <1>2 DEF HonestInv

LEMMA TriggersKeepHonest ==
  ASSUME TypeInv, HonestInv, NEW p, WriteTriggers(p)
  PROVE  HonestInv'
<1>1. /\ Does({"SET_ALL_TRIG_EN"}, p) /\ todo' = todo \ {p} /\ err' = err
      /\ l1' = [l1 EXCEPT ![p[1]] = AllTriggers(@, immutable[p[1]], req.on)]
  BY DEF WriteTriggers, Advance
<1>2. /\ active' = active /\ immutable' = immutable /\ req' = req /\ req.kind = "SET_ALL_TRIG_EN"
      /\ l1 \in Masks /\ immutable \in Masks /\ p[1] \in active /\ active \subseteq Slots
      /\ p \in todo
  BY <1>1, AccessFacts DEF TypeInv, TriggerTypeOK, Fits
<1>3. ASSUME SoFar PROVE TriggersSoFar'
  <2> SUFFICES ASSUME NEW s \in active, <<s, 0>> \notin todo'
               PROVE  l1'[s] \ immutable[s] = IF req.on THEN Channels \ immutable[s] ELSE {}
    BY <1>2 DEF TriggersSoFar
  <2>1. CASE s = p[1]
    <3>1. l1'[s] = AllTriggers(l1[s], immutable[s], req.on) /\ l1[s] \subseteq Channels
      BY <1>1, <1>2, <2>1 DEF Masks
    <3>2. QED
      BY <3>1 DEF AllTriggers
  <2>2. CASE s # p[1]
    <3>1. <<s, 0>> \notin todo /\ l1'[s] = l1[s]
      BY <1>1, <1>2, <2>2 DEF Masks
    <3>2. QED
      BY <1>2, <1>3, <3>1 DEF SoFar, TriggersSoFar
  <2>3. QED
    BY <2>1, <2>2
<1>4. QED
  BY <1>1, <1>2, <1>3, OfOneKind, AccessKeepsHonest

LEMMA TriggerKeepsHonest ==
  ASSUME TypeInv, HonestInv, NEW p, WriteTrigger(p)
  PROVE  HonestInv'
<1>1. /\ Does({"SET_CH_TRIG"}, p) /\ todo' = todo \ {p} /\ err' = err
      /\ l1' = [l1 EXCEPT ![p[1]] = Bit(@, p[2], req.on)]
  BY DEF WriteTrigger, Advance
<1>2. /\ active' = active /\ immutable' = immutable /\ req' = req /\ req.kind = "SET_CH_TRIG"
      /\ l1 \in Masks /\ active \subseteq Slots /\ p \in todo /\ req.on \in BOOLEAN
  BY <1>1, AccessFacts DEF TypeInv, TriggerTypeOK, Fits, Params
<1>3. ASSUME SoFar PROVE ChannelSoFar'
  <2>1. Mutable(req.slot, req.ch) /\ p = <<req.slot, req.ch>> /\ todo' = {}
    BY <1>1, <1>2, <1>3 DEF SoFar, ChannelSoFar
  <2>2. req.slot \in Slots
    BY <1>2, <2>1 DEF Mutable
  <2>3. l1'[req.slot] = Bit(l1[req.slot], req.ch, req.on)
    BY <1>1, <1>2, <2>1, <2>2 DEF Masks
  <2>4. req.ch \in l1'[req.slot] <=> req.on
    BY <1>2, <2>3 DEF Bit
  <2>5. QED
    BY <1>2, <2>1, <2>4 DEF ChannelSoFar, Mutable
<1>4. QED
  BY <1>1, <1>2, <1>3, OfOneKind, AccessKeepsHonest

LEMMA DelayKeepsHonest ==
  ASSUME TypeInv, HonestInv, NEW p, WriteDelay(p)
  PROVE  HonestInv'
<1>1. Does({"SET_ALL_TRIG_DELAY", "SET_CH_DELAY"}, p) /\ todo' = todo \ {p}
  BY DEF WriteDelay, Outcome
<1>2. /\ active' = active /\ immutable' = immutable /\ req' = req
      /\ req.kind \in {"SET_ALL_TRIG_DELAY", "SET_CH_DELAY"}
      /\ delay \in [Slots -> [Channels -> 0 .. MaxValue]] /\ active \subseteq Slots /\ p \in todo
      /\ Mutable(p[1], p[2]) /\ p = <<p[1], p[2]>>
      /\ Written(req.value) = Saturated(req.value)
  BY <1>1, AccessFacts, WrittenIs DEF TypeInv, TriggerTypeOK, Fits, Params
<1>3. /\ err' = FALSE => err = FALSE
      /\ err' = FALSE => delay' = [delay EXCEPT ![p[1]][p[2]] = Saturated(req.value)]
  BY <1>2 DEF WriteDelay, Outcome, TypeInv, TriggerTypeOK
<1>4. ASSUME SoFar, err' = FALSE PROVE SoFar'
  <2>1. p[1] \in Slots /\ p[2] \in Channels
    BY <1>2 DEF Mutable
  <2>2. /\ delay'[p[1]][p[2]] = Saturated(req.value)
        /\ \A s \in Slots, c \in Channels : <<s, c>> # p => delay'[s][c] = delay[s][c]
    BY <1>2, <1>3, <1>4, <2>1
  <2>3. CASE req.kind = "SET_ALL_TRIG_DELAY"
    <3>1. DelaysSoFar'
      <4> SUFFICES ASSUME NEW s \in Slots, NEW c \in Channels, Mutable(s, c), <<s, c>> \notin todo'
                   PROVE  delay'[s][c] = Saturated(req.value)
        BY <1>2 DEF DelaysSoFar, Mutable
      <4>1. CASE <<s, c>> = p
        BY <2>2, <4>1
      <4>2. CASE <<s, c>> # p
        BY <1>1, <1>4, <2>2, <2>3, <4>2 DEF SoFar, DelaysSoFar
      <4>3. QED
        BY <4>1, <4>2
    <3>2. QED
      BY <1>2, <2>3, <3>1, OfOneKind
  <2>4. CASE req.kind = "SET_CH_DELAY"
    <3>1. Mutable(req.slot, req.ch) /\ p = <<req.slot, req.ch>> /\ todo' = {}
      BY <1>1, <1>2, <1>4, <2>4 DEF SoFar, ChannelSoFar
    <3>2. ChannelSoFar'
      BY <1>2, <2>2, <2>4, <3>1 DEF ChannelSoFar, Mutable
    <3>3. QED
      BY <1>2, <2>4, <3>2, OfOneKind
  <2>5. QED
    BY <1>2, <2>3, <2>4
<1>5. QED
  BY <1>1, <1>3, <1>4, AccessKeepsHonest

LEMMA LimitKeepsHonest ==
  ASSUME TypeInv, HonestInv, NEW p, WriteLimit(p)
  PROVE  HonestInv'
<1>1. Does({"SET_LIMITS"}, p) /\ todo' = todo \ {p}
  BY DEF WriteLimit, Outcome
<1>2. /\ req' = req /\ req.kind = "SET_LIMITS" /\ p \in todo
      /\ limits \in [Slots -> [min : 0 .. MaxValue, max : 0 .. MaxValue]]
      /\ Written(req.min) = Saturated(req.min) /\ Written(req.max) = Saturated(req.max)
  BY <1>1, AccessFacts, WrittenIs DEF TypeInv, TriggerTypeOK, Fits, Params
<1>3. /\ err' = FALSE => err = FALSE
      /\ err' = FALSE =>
           limits' = IF p[2] = 1 THEN [limits EXCEPT ![p[1]].min = Saturated(req.min)]
                                 ELSE [limits EXCEPT ![p[1]].max = Saturated(req.max)]
  BY <1>2 DEF WriteLimit, Outcome, TypeInv, TriggerTypeOK
<1>4. ASSUME SoFar, err' = FALSE PROVE LimitsSoFar'
  <2>1. req.slot \in Slots /\ p \in {req.slot} \X {1, 2} /\ todo \subseteq {req.slot} \X {1, 2}
    BY <1>2, <1>4 DEF SoFar, LimitsSoFar
  <2>2. CASE p = <<req.slot, 1>>
    <3>1. limits'[req.slot].min = Saturated(req.min) /\ limits'[req.slot].max = limits[req.slot].max
      BY <1>2, <1>3, <1>4, <2>1, <2>2
    <3>2. QED
      BY <1>1, <1>2, <1>4, <2>1, <2>2, <3>1 DEF SoFar, LimitsSoFar
  <2>3. CASE p = <<req.slot, 2>>
    <3>1. limits'[req.slot].max = Saturated(req.max) /\ limits'[req.slot].min = limits[req.slot].min
      BY <1>2, <1>3, <1>4, <2>1, <2>3
    <3>2. QED
      BY <1>1, <1>2, <1>4, <2>1, <2>3, <3>1 DEF SoFar, LimitsSoFar
  <2>4. QED
    BY <2>1, <2>2, <2>3
<1>5. QED
  BY <1>1, <1>2, <1>3, <1>4, OfOneKind, AccessKeepsHonest

LEMMA ScalersKeepHonest ==
  ASSUME TypeInv, HonestInv, NEW p, WriteScalers(p)
  PROVE  HonestInv'
<1>1. Does({"SET_L1SCALERS_EN"}, p) /\ First(p) /\ todo' = todo \ {p} /\ err' = err
  BY DEF WriteScalers, Does
<1>2. req' = req /\ req.kind = "SET_L1SCALERS_EN" /\ p \in todo /\ req.on \in BOOLEAN
  BY <1>1, AccessFacts DEF Fits, Params
<1>3. lost' = TRUE \/ (scaler' = Broadcast(p[2]) /\ lost' = lost)
  BY DEF WriteScalers
<1>4. ASSUME SoFar PROVE ScalersSoFar'
  <2> DEFINE last == IF req.on THEN 4 ELSE 1
  <2>1. todo \subseteq {1} \X (1 .. last) /\ (<<1, last>> \notin todo => todo = {})
    BY <1>2, <1>4 DEF SoFar, ScalersSoFar
  <2>2. <<1, last>> \in todo /\ p[1] = 1 /\ p[2] \in 1 .. last /\ p = <<1, p[2]>>
    BY <1>2, <2>1
  <2>3. <<1, last>> \notin todo' => p[2] = last
    BY <1>1, <2>2
  <2>4. p[2] = last => todo' = {}
    <3> SUFFICES ASSUME p[2] = last, NEW q \in todo, q # p PROVE FALSE
      BY <1>1
    <3>1. q = <<1, q[2]>> /\ q[2] \in 1 .. last
      BY <2>1
    <3>2. p[1] < q[1] \/ (p[1] = q[1] /\ p[2] <= q[2])
      BY <1>1 DEF First
    <3>3. QED
      BY <2>2, <3>1, <3>2
  <2>5. ASSUME p[2] = last, lost' # TRUE PROVE \A s \in Slots : scaler'[s].on = req.on
    <3>1. scaler' = [s \in Slots |-> [on |-> last = 4, n |-> IF last = 2 THEN 0 ELSE scaler[s].n]]
      BY <1>3, <2>5 DEF Broadcast
    <3>2. (req.on = TRUE /\ last = 4) \/ (req.on = FALSE /\ last # 4)
      BY <1>2
    <3> HIDE DEF last
    <3>3. CASE req.on = TRUE /\ last = 4
      BY <3>1, <3>3
    <3>4. CASE req.on = FALSE /\ last # 4
      <4>1. (last = 4) = FALSE
        BY <3>4
      <4>2. QED
        BY <3>1, <3>4, <4>1
    <3>5. QED
      BY <3>2, <3>3, <3>4
  <2>6. lost' \in BOOLEAN
    BY <1>3 DEF TypeInv, TriggerTypeOK
  <2>7. QED
    BY <1>1, <1>2, <2>1, <2>3, <2>4, <2>5, <2>6 DEF ScalersSoFar
<1>5. QED
  BY <1>1, <1>2, <1>4, OfOneKind, AccessKeepsHonest

LEMMA ReadsKeepHonest ==
  ASSUME TypeInv, HonestInv, NEW p, ReadBoard(p) \/ ReadLow(p) \/ ReadHigh(p)
  PROVE  HonestInv'
<1>1. Does({"GET", "FAST_POLL", "L1SCALERS_POLL"}, p)
  BY DEF ReadBoard, ReadLow, ReadHigh, Does
<1>2. /\ active' = active /\ req' = req /\ req.kind \in {"GET", "FAST_POLL", "L1SCALERS_POLL"}
      /\ p \in todo
  BY <1>1, AccessFacts
<1>3. /\ err' = FALSE => err = FALSE
      /\ err' = FALSE => todo' = todo \ {p}
      /\ err' = FALSE => \/ got' = got \cup {p} /\ ~ReadLow(p)
                         \/ got' = got /\ req.kind = "L1SCALERS_POLL" /\ p[2] = 1
  BY <1>2 DEF ReadBoard, ReadLow, ReadHigh, Outcome, Does, TypeInv, TriggerTypeOK
<1>4. ASSUME SoFar, err' = FALSE PROVE ReadsSoFar'
  <2>1. CASE req.kind \in {"GET", "FAST_POLL"}
    <3> DEFINE reads == req.slots \X (1 .. PollReads)
    <3>1. got \subseteq reads /\ reads \subseteq todo \cup got /\ \A q \in todo : q[1] = 0 \/ q \in reads
      BY <1>4, <2>1 DEF SoFar, ReadsSoFar
    <3>2. p[1] # 0
      BY <2>1 DEF ReadBoard, ReadLow, ReadHigh, Does
    <3>3. got' = got \cup {p} /\ todo' = todo \ {p}
      BY <1>3, <1>4, <2>1
    <3>4. /\ got' \subseteq reads /\ reads \subseteq todo' \cup got'
          /\ \A q \in todo' : q[1] = 0 \/ q \in reads
      <4> HIDE DEF reads
      <4>1. QED
        BY <1>2, <3>1, <3>2, <3>3
    <3>5. QED
      BY <1>2, <2>1, <3>4 DEF ReadsSoFar
  <2>2. CASE req.kind = "L1SCALERS_POLL"
    <3> DEFINE reads == active \X {2}
    <3>1. got \subseteq reads /\ reads \subseteq todo \cup got /\ todo \subseteq active \X {1, 2}
      BY <1>4, <2>2 DEF SoFar, ReadsSoFar
    <3>2. p[2] = 1 \/ p[2] = 2
      BY <1>2, <3>1
    <3>3. (p[2] = 1 => p \notin reads) /\ (p[2] = 2 => p \in reads)
      BY <1>2, <3>1
    <3>4. p[2] = 2 => ~ReadLow(p)
      BY DEF ReadLow
    <3>5. p[2] = 1 => ReadLow(p)
      BY <2>2 DEF ReadBoard, ReadHigh, Does
    <3>6. todo' = todo \ {p} /\ (p[2] = 1 => got' = got) /\ (p[2] = 2 => got' = got \cup {p})
      BY <1>3, <1>4, <3>5
    <3>7. got' \subseteq reads /\ reads \subseteq todo' \cup got' /\ todo' \subseteq active \X {1, 2}
      <4> HIDE DEF reads
      <4>1. QED
        BY <3>1, <3>2, <3>3, <3>6
    <3>8. QED
      BY <1>2, <2>2, <3>7 DEF ReadsSoFar
  <2>3. QED
    BY <1>2, <2>1, <2>2
<1>5. QED
  BY <1>1, <1>2, <1>3, <1>4, OfOneKind, AccessKeepsHonest

LEMMA BusyKeepsHonest ==
  ASSUME TypeInv, HonestInv, NEW p, WriteBusy(p)
  PROVE  HonestInv'
<1>1. /\ Does({"SET_BUSY"}, p) /\ todo' = todo \ {p} /\ err' = err
      /\ p[2] = 1 => busy' = (busy \ LeftSlots) \cup (req.mask \cap LeftSlots)
      /\ p[2] # 1 =>
           busy' = (busy \ (Slots \ LeftSlots)) \cup (req.mask \cap (Slots \ LeftSlots))
  BY DEF WriteBusy, Advance
<1>2. /\ req' = req /\ req.kind = "SET_BUSY" /\ p \in todo /\ req.mask \subseteq Slots
      /\ busy \subseteq Slots /\ LeftSlots \subseteq Slots
  BY <1>1, AccessFacts, ConstantTypes DEF TypeInv, TriggerTypeOK, Fits, Params
<1>3. ASSUME SoFar PROVE BusySoFar'
  <2>1. /\ todo \subseteq {0} \X {1, 2}
        /\ <<0, 1>> \in todo \/ busy \cap LeftSlots = req.mask \cap LeftSlots
        /\ <<0, 2>> \in todo \/ busy \ LeftSlots = req.mask \ LeftSlots
    BY <1>2, <1>3 DEF SoFar, BusySoFar
  <2>2. CASE p = <<0, 1>>
    <3>1. busy' \cap LeftSlots = req.mask \cap LeftSlots /\ busy' \ LeftSlots = busy \ LeftSlots
      BY <1>1, <1>2, <2>2
    <3>2. QED
      BY <1>1, <1>2, <2>1, <2>2, <3>1 DEF BusySoFar
  <2>3. CASE p = <<0, 2>>
    <3>1. busy' \ LeftSlots = req.mask \ LeftSlots /\ busy' \cap LeftSlots = busy \cap LeftSlots
      BY <1>1, <1>2, <2>3
    <3>2. QED
      BY <1>1, <1>2, <2>1, <2>3, <3>1 DEF BusySoFar
  <2>4. QED
    BY <1>2, <2>1, <2>2, <2>3
<1>4. QED
  BY <1>1, <1>2, <1>3, OfOneKind, AccessKeepsHonest

LEMMA ControlKeepsHonest ==
  ASSUME TypeInv, HonestInv, NEW p, WriteControl(p) \/ WriteParameter(p)
  PROVE  HonestInv'
<1>1. Does({"SET_CTRL", "SET_PARAM"}, p) /\ err' = err
  BY DEF WriteControl, WriteParameter, Advance, Does
<1>2. /\ req' = req /\ req.kind \in {"SET_CTRL", "SET_PARAM"}
      /\ req.kind = "SET_CTRL" => req.on \in BOOLEAN
      /\ req.kind = "SET_PARAM" => Written(req.value) = Saturated(req.value)
  BY <1>1, AccessFacts, WrittenIs DEF Fits, Params
<1>3. CASE WriteControl(p)
  <2>1. ctrl' = Bit(ctrl, "MCF_EN", req.on) /\ req.kind = "SET_CTRL"
    BY <1>3 DEF WriteControl, WriteCtrl, Does
  <2>2. "MCF_EN" \in ctrl' <=> req.on
    BY <1>2, <2>1 DEF Bit
  <2>3. CrateSoFar'
    BY <1>2, <2>1, <2>2 DEF CrateSoFar
  <2>4. QED
    BY <1>1, <1>2, <2>3, OfOneKind, AccessKeepsHonest
<1>4. CASE WriteParameter(p)
  <2>1. param' = Written(req.value) /\ req.kind = "SET_PARAM"
    BY <1>4 DEF WriteParameter, Does
  <2>2. CrateSoFar'
    BY <1>2, <2>1 DEF CrateSoFar
  <2>3. QED
    BY <1>1, <1>2, <2>2, OfOneKind, AccessKeepsHonest
<1>5. QED
  BY <1>3, <1>4

LEMMA StateKeepsHonest ==
  ASSUME TypeInv, HonestInv, NEW p, Latch(p) \/ ReadStamp(p)
  PROVE  HonestInv'
<1>1. /\ Does(StateKinds, p) /\ err' = err /\ got' = got /\ p[1] = 0
      /\ todo' = todo \ {p} \/ todo' = todo \cup ({0} \X (1 .. 3))
  BY DEF Latch, ReadStamp, Advance, ghosts
<1>2. req' = req /\ req.kind \in StateKinds /\ p \in todo
  BY <1>1, AccessFacts
<1>6. req.kind = "FAST_POLL" => 0 \notin req.slots
  BY <1>1, AccessFacts, ConstantTypes DEF Fits, Params
<1>3. ASSUME SoFar, req.kind = "FAST_POLL" PROVE ReadsSoFar'
  <2> DEFINE reads == req.slots \X (1 .. PollReads)
  <2>1. got \subseteq reads /\ reads \subseteq todo \cup got /\ \A q \in todo : q[1] = 0 \/ q \in reads
    BY <1>3 DEF SoFar, ReadsSoFar
  <2>2. p \notin reads \/ 0 \in req.slots
    BY <1>1
  <2>3. 0 \notin req.slots
    BY <1>3, <1>6
  <2>4. QED
    BY <1>1, <1>2, <1>3, <2>1, <2>2, <2>3 DEF ReadsSoFar
<1>4. SoFar => SoFar'
  BY <1>2, <1>3, OfOneKind DEF StateKinds
<1>5. QED
  BY <1>1, <1>4, AccessKeepsHonest

LEMMA ClearKeepsHonest ==
  ASSUME TypeInv, HonestInv, NEW p, ClearCounters(p)
  PROVE  HonestInv'
<1>1. Does({"RESET_TIB_COUNT"}, p) /\ err' = err
  BY DEF ClearCounters, Advance
<1>2. req' = req /\ req.kind = "RESET_TIB_COUNT"
  BY <1>1, AccessFacts
<1>3. QED
  BY <1>1, <1>2, OfOneKind, AccessKeepsHonest

LEMMA BeginKeepsHonest ==
  ASSUME TypeInv, HonestInv, NEW r, NEW P, Params(r), Whole(r, P), Begin(r, P)
  PROVE  HonestInv'
<1>1. /\ req' = r /\ todo' = P /\ reply' = "none" /\ got' = {} /\ lost' = FALSE
      /\ UNCHANGED <<active, immutable, l1, delay, limits, scaler, busy, param, ctrl>>
  BY DEF Begin, config, boards, crate
<1>2. RepliesAreHonest'
  BY <1>1 DEF RepliesAreHonest
<1>3. active \subseteq Slots
  BY DEF TypeInv, TriggerTypeOK
<1>4. SoFar'
  <2>1. CASE r.kind = "SET_ALL_TRIG_EN"
    <3>1. TriggersSoFar'
      BY <1>1, <2>1 DEF Whole, TriggersSoFar
    <3>2. QED
      BY <1>1, <2>1, <3>1, OfOneKind
  <2>2. CASE r.kind = "SET_ALL_TRIG_DELAY"
    <3>1. DelaysSoFar'
      BY <1>1, <2>2 DEF Whole, DelaysSoFar, Mutable
    <3>2. QED
      BY <1>1, <2>2, <3>1, OfOneKind
  <2>3. CASE r.kind \in {"SET_CH_TRIG", "SET_CH_DELAY"}
    <3>1. ChannelSoFar'
      BY <1>1, <2>3 DEF Whole, ChannelSoFar, Mutable
    <3>2. QED
      BY <1>1, <2>3, <3>1, OfOneKind
  <2>4. CASE r.kind = "SET_LIMITS"
    <3>1. LimitsSoFar'
      BY <1>1, <1>3, <2>4 DEF Whole, LimitsSoFar
    <3>2. QED
      BY <1>1, <2>4, <3>1, OfOneKind
  <2>5. CASE r.kind = "SET_L1SCALERS_EN"
    <3>1. /\ P = {1} \X (IF r.on THEN 1 .. 4 ELSE {1})
          /\ P = {1} \X (1 .. (IF r.on THEN 4 ELSE 1))
      BY <2>5 DEF Whole
    <3>2. <<1, IF r.on THEN 4 ELSE 1>> \in P
      BY <3>1
    <3>3. ScalersSoFar'
      BY <1>1, <3>1, <3>2 DEF ScalersSoFar
    <3>4. QED
      BY <1>1, <2>5, <3>3, OfOneKind
  <2>6. CASE r.kind \in {"SET_CTRL", "SET_PARAM"}
    <3>1. CrateSoFar'
      BY <1>1, <2>6 DEF Whole, CrateSoFar
    <3>2. QED
      BY <1>1, <2>6, <3>1, OfOneKind
  <2>7. CASE r.kind = "SET_BUSY"
    <3>1. P = {0} \X {1, 2} \/ (P = {} /\ r.mask = busy)
      BY <2>7 DEF Whole
    <3>2. BusySoFar'
      BY <1>1, <3>1 DEF BusySoFar
    <3>3. QED
      BY <1>1, <2>7, <3>2, OfOneKind
  <2>8. CASE r.kind \in {"GET", "FAST_POLL", "L1SCALERS_POLL"}
    <3>1. ASSUME r.kind = "GET" PROVE ReadsSoFar'
      BY <1>1, <3>1 DEF Whole, ReadsSoFar
    <3>2. ASSUME r.kind = "FAST_POLL" PROVE ReadsSoFar'
      <4>1. P = ({0} \X (1 .. 3)) \cup (r.slots \X (1 .. PollReads))
        BY <3>2 DEF Whole
      <4>2. QED
        BY <1>1, <3>2, <4>1 DEF ReadsSoFar
    <3>3. ASSUME r.kind = "L1SCALERS_POLL" PROVE ReadsSoFar'
      <4>1. P = active \X {1, 2}
        BY <3>3 DEF Whole
      <4>2. active \X {2} \subseteq P
        BY <4>1
      <4>3. QED
        BY <1>1, <3>3, <4>1, <4>2 DEF ReadsSoFar
    <3>4. ReadsSoFar'
      BY <2>8, <3>1, <3>2, <3>3
    <3>5. QED
      BY <1>1, <2>8, <3>4, OfOneKind
  <2>9. CASE r.kind \in {"GET_STATE", "RESET_TIB_COUNT"}
    BY <1>1, <2>9, OfOneKind
  <2>10. r.kind \in Kinds
    BY DEF Whole
  <2>11. QED
    BY <2>1, <2>2, <2>3, <2>4, <2>5, <2>6, <2>7, <2>8, <2>9, <2>10 DEF Kinds
<1>5. QED
  BY <1>1, <1>2, <1>4 DEF HonestInv

\* With no place left, everything that was promised is done.
LEMMA NothingLeft ==
  ASSUME TypeInv, SoFar, todo = {}
  PROVE  /\ Done
         /\ req.kind \in {"GET", "FAST_POLL"} => got = req.slots \X (1 .. PollReads)
         /\ req.kind = "L1SCALERS_POLL" => got = active \X {2}
<1>0. limits \in [Slots -> [min : 0 .. MaxValue, max : 0 .. MaxValue]] /\ active \subseteq Slots
  BY DEF TypeInv, TriggerTypeOK
<1>1. /\ req.kind = "SET_ALL_TRIG_EN" =>
           \A s \in active : l1[s] \ immutable[s] = IF req.on THEN Channels \ immutable[s] ELSE {}
      /\ req.kind = "SET_ALL_TRIG_DELAY" =>
           \A s \in Slots, c \in Channels : Mutable(s, c) => delay[s][c] = Saturated(req.value)
      /\ req.kind = "SET_CH_TRIG" => (req.ch \in l1[req.slot] <=> req.on)
      /\ req.kind = "SET_CH_DELAY" => delay[req.slot][req.ch] = Saturated(req.value)
  BY DEF SoFar, TriggersSoFar, DelaysSoFar, ChannelSoFar
<1>2. req.kind = "SET_LIMITS" =>
        limits[req.slot] = [min |-> Saturated(req.min), max |-> Saturated(req.max)]
  BY <1>0 DEF SoFar, LimitsSoFar
<1>3. req.kind = "SET_L1SCALERS_EN" /\ ~lost => \A s \in Slots : scaler[s].on = req.on
  BY DEF SoFar, ScalersSoFar
<1>4. /\ req.kind = "SET_CTRL" => ("MCF_EN" \in ctrl <=> req.on)
      /\ req.kind = "SET_PARAM" => param = Saturated(req.value)
  BY DEF SoFar, CrateSoFar
<1>5. req.kind = "SET_BUSY" => busy = req.mask
  <2> SUFFICES ASSUME req.kind = "SET_BUSY" PROVE busy = req.mask
    OBVIOUS
  <2>1. busy \cap LeftSlots = req.mask \cap LeftSlots /\ busy \ LeftSlots = req.mask \ LeftSlots
    BY DEF SoFar, BusySoFar
  <2>2. QED
    BY <2>1
<1>6. /\ req.kind \in {"GET", "FAST_POLL"} => got = req.slots \X (1 .. PollReads)
      /\ req.kind = "L1SCALERS_POLL" => got = active \X {2}
  <2>1. \A G, R : G \subseteq R /\ R \subseteq {} \cup G => G = R
    OBVIOUS
  <2>2. QED
    BY <2>1 DEF SoFar, ReadsSoFar
<1>7. QED
  BY <1>1, <1>2, <1>3, <1>4, <1>5, <1>6 DEF Done

LEMMA AnswerKeepsHonest ==
  ASSUME TypeInv, HonestInv, Answer
  PROVE  HonestInv'
<1>1. /\ reply = "none" /\ todo = {} /\ reply' # "none" /\ (reply' # "ERROR" => err = FALSE)
      /\ UNCHANGED <<active, immutable, req, l1, delay, limits, scaler, busy, param, ctrl, lost, got>>
  BY DEF Answer, config, boards, crate, TypeInv, TriggerTypeOK
<1>2. ASSUME reply' # "ERROR" PROVE RepliesAreHonest'
  <2>1. SoFar
    BY <1>1, <1>2 DEF HonestInv
  <2>2. Done' /\ (req.kind \in {"GET", "FAST_POLL"} => got = req.slots \X (1 .. PollReads))
        /\ (req.kind = "L1SCALERS_POLL" => got = active \X {2})
    BY <1>1, <2>1, NothingLeft DEF Done, Mutable
  <2>3. QED
    BY <1>1, <2>2 DEF RepliesAreHonest
<1>3. QED
  BY <1>1, <1>2 DEF HonestInv, RepliesAreHonest

\* Steps of the environment leave alone everything a promise is about.
LEMMA EnvironmentKeepsHonest ==
  ASSUME TypeInv, HonestInv,
         UNCHANGED <<config, handling, l1, delay, limits, busy, param, ctrl, got, lost>>,
         \A s \in Slots : scaler'[s].on = scaler[s].on
  PROVE  HonestInv'
<1>1. SoFar => SoFar'
  BY DEF SoFar, TriggersSoFar, DelaysSoFar, ChannelSoFar, LimitsSoFar, ScalersSoFar, CrateSoFar,
         BusySoFar, ReadsSoFar, Mutable, config, handling
<1>2. Done => Done'
  BY DEF Done, Mutable, config, handling
<1>3. QED
  BY <1>1, <1>2 DEF HonestInv, RepliesAreHonest, config, handling

LEMMA HonestInductive == TypeInv /\ HonestInv /\ [TriggerNext]_triggerVars => HonestInv'
<1> SUFFICES ASSUME TypeInv, HonestInv, [TriggerNext]_triggerVars PROVE HonestInv'
  OBVIOUS
<1>1. CASE BoardRequest \/ CrateRequest
  <2>1. ASSUME Starting PROVE HonestInv'
    BY <2>1, BeginKeepsHonest DEF Starting
  <2>2. ASSUME Refusing PROVE HonestInv'
    BY <2>2 DEF Refusing, Refuse, HonestInv, RepliesAreHonest
  <2>3. QED
    BY <1>1, <2>1, <2>2, RequestsStart
<1>2. ASSUME NEW cfg \in Configs, SetConfig(cfg) PROVE HonestInv'
  <2>1. reply' = "ACK" /\ req'.kind = "SET_CONFIG"
    BY <1>2 DEF SetConfig
  <2>2. QED
    BY <2>1 DEF HonestInv, RepliesAreHonest, Done
<1>3. CASE Restart
  BY <1>3 DEF Restart, HonestInv, RepliesAreHonest
<1>4. CASE ClockTicks
  BY <1>4, EnvironmentKeepsHonest DEF ClockTicks, boards, crate, ghosts
<1>5. ASSUME NEW t \in Slots, Trigger(t) PROVE HonestInv'
  <2>1. \A s \in Slots : scaler'[s].on = scaler[s].on
    BY <1>5, CounterTypes DEF Trigger, TypeInv, TriggerTypeOK
  <2>2. QED
    BY <1>5, <2>1, EnvironmentKeepsHonest DEF Trigger, ghosts
<1>6. CASE UNCHANGED triggerVars
  BY <1>6, EnvironmentKeepsHonest DEF triggerVars, boards, crate, ghosts
<1>7. ASSUME NEW p \in todo, BoardAccess(p) PROVE HonestInv'
  BY <1>7, TriggersKeepHonest, TriggerKeepsHonest, DelayKeepsHonest, LimitKeepsHonest,
     ScalersKeepHonest, ReadsKeepHonest DEF BoardAccess
<1>8. ASSUME NEW p \in todo, CrateAccess(p) PROVE HonestInv'
  BY <1>8, StateKeepsHonest, ControlKeepsHonest, BusyKeepsHonest, ClearKeepsHonest DEF CrateAccess
<1>9. QED
  BY <1>1, <1>2, <1>3, <1>4, <1>5, <1>6, <1>7, <1>8, AnswerKeepsHonest DEF TriggerNext

\* An acknowledged request has set all its registers and a reply with data has read all of
\* it, for any crate, any limits and any number of reads: no failure of an access is lost,
\* and none of the accesses undoes what another one of the same request did.
THEOREM HonestyCorrect == TriggerSpec => []RepliesAreHonest
<1>1. HonestInv => RepliesAreHonest
  BY DEF HonestInv
<1>2. QED
  BY <1>1, TypesInitially, TypesInductive, HonestInitially, HonestInductive, PTL DEF TriggerSpec

=============================================================================
