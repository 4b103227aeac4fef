-------------------------- MODULE CorridorRollProofs --------------------------
(* TLAPS proofs about CorridorRoll, for any number of scripts and callbacks,  *)
(* any scale and any values the callbacks may return. IInv is about what a    *)
(* call accumulates, RunInv about which callbacks it runs.                    *)
EXTENDS CorridorRoll, TLAPS

\* What a call has accumulated and what it still owes, phase by phase.
Phases ==
    /\ pc = "idle" =>
         /\ total = NoModifiers
         /\ rollsLeft = 0
         /\ placed = FALSE
         /\ history = NoHistory
    /\ pc \in {"script", "call"} =>
         /\ total.extra = Lesser(MaxExtra, history.extra)
         /\ rollsLeft = 0
         /\ history.rolls = 0
    /\ pc = "roll" =>
         history.rolls + rollsLeft = 1 + Lesser(MaxExtra, history.extra)
    /\ pc = "passthrough" =>
         /\ history.rolls + rollsLeft = 1
         /\ history.extra = 0

HitsAreRolls == history.hits <= history.rolls /\ (placed <=> history.hits > 0)

\* Inside a script's loop the table is at least as long as when it was measured.
InLoop == pc = "call" => script \in Scripts /\ count <= Len(slots[script])

\* What the running total is while it was never clamped, while no delta was
\* negative and while none was positive.
Sums ==
    /\ "clamped" \notin history.seen => total.delta = history.delta
    /\ "down" \notin history.seen =>
         /\ history.delta >= 0
         /\ total.delta = Lesser(history.delta, 7 * Scale)
    /\ "up" \notin history.seen =>
         /\ history.delta <= 0
         /\ total.delta = Clamp(history.delta, -Scale, 0)

IInv == TypeOK /\ Phases /\ HitsAreRolls /\ InLoop /\ Sums

-----------------------------------------------------------------------------
(* Facts about the arithmetic of the two functions.                          *)

\* std::clamp stays within its bounds.
LEMMA ClampBounds ==
    ASSUME NEW x \in Int, NEW low \in Int, NEW high \in Int, low <= high
    PROVE  Clamp(x, low, high) \in low..high
BY DEF Clamp

\* Clamping every addition of deltas that are not negative gives the lesser of
\* their sum and the upper bound.
LEMMA RisingSum ==
    ASSUME NEW sum \in Nat, NEW delta \in Nat, NEW scale \in Nat
    PROVE  Clamp(Lesser(sum, 7 * scale) + delta, -scale, 7 * scale)
             = Lesser(sum + delta, 7 * scale)
BY DEF Clamp, Lesser

\* Clamping every addition of deltas that are not positive gives the greater of
\* their sum and the lower bound.
LEMMA FallingSum ==
    ASSUME NEW sum \in Int, sum <= 0, NEW delta \in Int, delta <= 0, NEW scale \in Nat
    PROVE  Clamp(Clamp(sum, -scale, 0) + delta, -scale, 7 * scale)
             = Clamp(sum + delta, -scale, 0)
BY DEF Clamp

\* Capping at every addition gives the cap of the sum.
LEMMA SaturatingSum ==
    ASSUME NEW sum \in Nat, NEW extra \in Nat
    PROVE  Lesser(MaxExtra, Lesser(MaxExtra, sum) + Lesser(extra, MaxExtra))
             = Lesser(MaxExtra, sum + extra)
BY DEF Lesser, MaxExtra

\* Products of naturals are naturals.
LEMMA ProductNat == \A x, y \in Nat : x * y \in Nat
OBVIOUS

\* A native chance scaled twice is at most one.
LEMMA ScaledChance ==
    ASSUME NEW c \in Chances
    PROVE  c * Scale \in 0..FullChance /\ FullChance \in Nat
<1>1. c \in Int /\ 0 <= c /\ c <= Scale /\ Scale \in Nat /\ Scale > 0
  BY CorridorAssumption
<1>2. c * Scale \in Int /\ Scale * Scale \in Int /\ 0 <= c * Scale
  BY <1>1
<1>3. c * Scale <= Scale * Scale
  BY <1>1
<1> QED
  BY <1>2, <1>3 DEF FullChance

-----------------------------------------------------------------------------
\* The invariant holds initially.
LEMMA InitIInv == Init => IInv
<1> SUFFICES ASSUME Init PROVE IInv
  OBVIOUS
<1>1. slots \in [Scripts -> SlotLists]
  BY DEF Init, SlotLists
<1>2. FullChance \in Nat /\ Scale \in Nat /\ NumScripts \in Nat /\ MaxSlots \in Nat
  BY CorridorAssumption, ProductNat DEF FullChance
<1>3. total \in [delta : -Scale..7 * Scale, extra : 0..MaxExtra]
  BY <1>2 DEF Init, NoModifiers, MaxExtra
<1>4. history \in [expected : SUBSET Slots, called : SUBSET Slots, delta : Int,
                  seen : SUBSET {"up", "down", "clamped"}, extra : Nat,
                  rolls : 0..MaxExtra + 1, hits : 0..MaxExtra + 1]
  BY DEF Init, NoHistory, MaxExtra
<1>5. placed \in BOOLEAN
  BY Zenon DEF Init
<1>6. /\ script \in 1..NumScripts + 1
      /\ count \in 0..MaxSlots
      /\ index \in 1..MaxSlots + 1
      /\ chance \in 0..FullChance
      /\ rollsLeft \in 0..MaxExtra + 1
  BY <1>2 DEF Init, MaxExtra
<1>7. TypeOK
  BY <1>1, <1>3, <1>4, <1>5, <1>6 DEF Init, TypeOK
<1>8. Phases /\ HitsAreRolls /\ InLoop
  BY DEF Init, Phases, HitsAreRolls, InLoop, NoModifiers, NoHistory
<1>9. Sums
  BY <1>2 DEF Init, NoModifiers, NoHistory, Sums, Lesser, Clamp
<1> QED
  BY <1>7, <1>8, <1>9 DEF IInv

-----------------------------------------------------------------------------
(* Facts about the callback tables.                                          *)

\* dd.on keeps a table within its bound when there is room for one more.
LEMMA AppendSlot ==
    ASSUME NEW table \in SlotLists, Len(table) < MaxSlots
    PROVE  Append(table, "fn") \in SlotLists
BY CorridorAssumption DEF SlotLists

\* A failing callback's slot changes, the table's length does not.
LEMMA DisableSlot ==
    ASSUME NEW table \in SlotLists, NEW i \in 1..Len(table)
    PROVE  [table EXCEPT ![i] = "off"] \in SlotLists
BY CorridorAssumption DEF SlotLists

\* A reloaded script's table holds functions only.
LEMMA FreshTable ==
    ASSUME NEW n \in 0..MaxSlots
    PROVE  [i \in 1..n |-> "fn"] \in SlotLists
BY CorridorAssumption DEF SlotLists

-----------------------------------------------------------------------------
\* The callback that is running: its place and its script's table.
LEMMA RunningSlot ==
    ASSUME IInv, NEW registers \in BOOLEAN, Calls(registers)
    PROVE  /\ script \in Scripts
           /\ index \in 1..Len(slots[script])
           /\ index + 1 \in 1..MaxSlots + 1
           /\ <<script, index>> \in Slots
           /\ AfterCall(registers) \in SlotLists
           /\ Len(AfterCall(registers)) >= Len(slots[script])
<1>1. /\ script \in Scripts
      /\ slots[script] \in SlotLists
      /\ index \in 1..MaxSlots + 1
      /\ count \in 0..MaxSlots
      /\ count <= Len(slots[script])
      /\ index <= count
  BY DEF IInv, InLoop, TypeOK, Calls
<1>2. slots[script] \in Seq({"fn", "off"}) /\ Len(slots[script]) \in Nat
  BY <1>1 DEF SlotLists
<1>3. index \in 1..Len(slots[script]) /\ index + 1 \in 1..MaxSlots + 1 /\ index \in 1..MaxSlots
  BY <1>1, <1>2, CorridorAssumption
<1>4. <<script, index>> \in Slots
  BY <1>1, <1>3 DEF Slots
<1>5. AfterCall(registers) \in SlotLists
  BY <1>1, AppendSlot DEF AfterCall, Calls
<1>6. Len(AfterCall(registers)) >= Len(slots[script])
  BY <1>2 DEF AfterCall
<1> QED
  BY <1>1, <1>3, <1>4, <1>5, <1>6

\* The sums depend on the total and the answers alone.
LEMMA SameSums ==
    ASSUME Sums, total'.delta = total.delta, history'.delta = history.delta,
           history'.seen = history.seen
    PROVE  Sums'
BY DEF Sums

\* An empty call has nothing to add up.
LEMMA NoSums ==
    ASSUME total'.delta = 0, history'.delta = 0
    PROVE  Sums'
BY CorridorAssumption DEF Sums, Lesser, Clamp

\* A callback that answers adds to the modifiers and keeps their invariant.
LEMMA AnswerStep ==
    ASSUME IInv, NEW registers \in BOOLEAN, NEW answer \in Answers,
           CallbackAnswers(registers, answer)
    PROVE  IInv'
<1> USE DEF CallbackAnswers, at
<1>1. /\ script \in Scripts
      /\ index + 1 \in 1..MaxSlots + 1
      /\ <<script, index>> \in Slots
      /\ AfterCall(registers) \in SlotLists
      /\ Len(AfterCall(registers)) >= Len(slots[script])
  BY RunningSlot
<1>2. /\ answer.delta \in Int
      /\ answer.extra \in Nat \union {-1}
  BY CorridorAssumption DEF Answers
<1>3. slots' \in [Scripts -> SlotLists] /\ slots'[script] = AfterCall(registers)
  BY <1>1 DEF IInv, TypeOK
<1>4. /\ total.delta \in Int /\ total.extra \in 0..MaxExtra
      /\ history.delta \in Int /\ history.extra \in Nat
      /\ total.extra = Lesser(MaxExtra, history.extra)
      /\ rollsLeft = 0 /\ history.rolls = 0 /\ history.hits \in 0..MaxExtra + 1
  BY DEF IInv, TypeOK, Phases, Calls
<1>5. AddDelta(answer) \in -Scale..7 * Scale
  <2>1. total.delta + answer.delta \in Int /\ -Scale \in Int /\ 7 * Scale \in Int
        /\ -Scale <= 7 * Scale
    BY <1>2, <1>4, CorridorAssumption
  <2> QED
    BY <2>1, ClampBounds DEF AddDelta
<1>6. /\ history'.extra \in Nat
      /\ AddExtra(answer) = Lesser(MaxExtra, history'.extra)
      /\ AddExtra(answer) \in 0..MaxExtra
  <2>1. history'.extra = IF answer.extra >= 0 THEN history.extra + answer.extra
                                              ELSE history.extra
    BY <1>4 DEF IInv, TypeOK
  <2>2. CASE answer.extra >= 0
    BY <1>2, <1>4, <2>1, <2>2, SaturatingSum DEF AddExtra, Lesser, MaxExtra
  <2>3. CASE ~(answer.extra >= 0)
    BY <1>4, <2>1, <2>3 DEF AddExtra, Lesser, MaxExtra
  <2> QED
    BY <2>2, <2>3
<1>7. total' \in [delta : -Scale..7 * Scale, extra : 0..MaxExtra]
  BY <1>5, <1>6
<1>8. history' \in [expected : SUBSET Slots, called : SUBSET Slots, delta : Int,
                   seen : SUBSET {"up", "down", "clamped"}, extra : Nat,
                   rolls : 0..MaxExtra + 1, hits : 0..MaxExtra + 1]
  <2>1. history.called \union {<<script, index>>} \in SUBSET Slots
    BY <1>1 DEF IInv, TypeOK
  <2>2. history.delta + answer.delta \in Int
    BY <1>2, <1>4
  <2>3. (IF answer.extra >= 0 THEN history.extra + answer.extra ELSE history.extra) \in Nat
    BY <1>2, <1>4
  <2>4. history.seen \union Seen(answer) \in SUBSET {"up", "down", "clamped"}
    BY DEF IInv, TypeOK, Seen
  <2> QED
    BY <2>1, <2>2, <2>3, <2>4 DEF IInv, TypeOK
<1>9. TypeOK'
  BY <1>1, <1>3, <1>7, <1>8 DEF IInv, TypeOK
<1>10. Phases'
  BY <1>4, <1>6 DEF IInv, TypeOK, Phases, Calls
<1>11. HitsAreRolls'
  BY DEF IInv, TypeOK, HitsAreRolls
<1>12. InLoop'
  <2>1. pc = "call" /\ UNCHANGED <<script, count>>
    BY DEF Calls
  <2>2. count <= Len(slots[script])
    BY <2>1 DEF IInv, InLoop
  <2>3. {count, Len(slots[script]), Len(AfterCall(registers))} \subseteq Int
    BY <1>1 DEF IInv, TypeOK, SlotLists
  <2>4. count <= Len(AfterCall(registers))
    BY <1>1, <2>2, <2>3
  <2> QED
    BY <1>1, <1>3, <2>1, <2>4 DEF InLoop
<1>13. Sums'
  <2>1. /\ history'.delta = history.delta + answer.delta
        /\ history'.seen = history.seen \union Seen(answer)
        /\ total'.delta = AddDelta(answer)
        /\ Scale \in Nat
    BY CorridorAssumption DEF IInv, TypeOK
  <2>2. ASSUME "clamped" \notin history'.seen PROVE total'.delta = history'.delta
    <3>1. "clamped" \notin history.seen /\ total.delta + answer.delta \in -Scale..7 * Scale
      BY <2>1, <2>2 DEF Seen
    <3> QED
      BY <1>2, <1>4, <2>1, <3>1 DEF IInv, Sums, AddDelta, Clamp
  <2>3. ASSUME "down" \notin history'.seen
        PROVE  history'.delta >= 0 /\ total'.delta = Lesser(history'.delta, 7 * Scale)
    <3>1. "down" \notin history.seen /\ ~(answer.delta < 0)
      BY <2>1, <2>3 DEF Seen
    <3>2. /\ history.delta \in Nat /\ answer.delta \in Nat
          /\ total.delta = Lesser(history.delta, 7 * Scale)
      BY <1>2, <1>4, <3>1 DEF IInv, Sums
    <3> QED
      BY <2>1, <3>2, RisingSum DEF AddDelta
  <2>4. ASSUME "up" \notin history'.seen
        PROVE  history'.delta <= 0 /\ total'.delta = Clamp(history'.delta, -Scale, 0)
    <3>1. "up" \notin history.seen /\ ~(answer.delta > 0)
      BY <2>1, <2>4 DEF Seen
    <3>2. /\ history.delta <= 0 /\ answer.delta <= 0
          /\ total.delta = Clamp(history.delta, -Scale, 0)
      BY <1>2, <1>4, <3>1 DEF IInv, Sums
    <3> QED
      BY <1>2, <1>4, <2>1, <3>2, FallingSum DEF AddDelta
  <2> QED
    BY <2>2, <2>3, <2>4 DEF Sums
<1> QED
  BY <1>9, <1>10, <1>11, <1>12, <1>13 DEF IInv

\* A callback that fails leaves the modifiers alone.
LEMMA FailStep ==
    ASSUME IInv, NEW registers \in BOOLEAN, CallbackFails(registers)
    PROVE  IInv'
<1> USE DEF CallbackFails, at
<1>1. /\ script \in Scripts
      /\ index \in 1..Len(slots[script])
      /\ index + 1 \in 1..MaxSlots + 1
      /\ <<script, index>> \in Slots
      /\ AfterCall(registers) \in SlotLists
      /\ Len(AfterCall(registers)) >= Len(slots[script])
  BY RunningSlot
<1>2. /\ slots[script] \in Seq({"fn", "off"})
      /\ AfterCall(registers) \in Seq({"fn", "off"})
      /\ index \in 1..Len(AfterCall(registers))
  <2>1. slots[script] \in SlotLists
    BY <1>1 DEF IInv, TypeOK
  <2>2. /\ slots[script] \in Seq({"fn", "off"})
        /\ AfterCall(registers) \in Seq({"fn", "off"})
    BY <1>1, <2>1, Zenon DEF SlotLists
  <2>3. Len(slots[script]) \in Nat /\ Len(AfterCall(registers)) \in Nat
    BY <2>2
  <2> QED
    BY <1>1, <2>2, <2>3
<1>3. /\ Disabled(AfterCall(registers)) \in SlotLists
      /\ Len(Disabled(AfterCall(registers))) = Len(AfterCall(registers))
  BY <1>1, <1>2, DisableSlot DEF Disabled
<1>4. /\ slots' \in [Scripts -> SlotLists]
      /\ slots'[script] = Disabled(AfterCall(registers))
  BY <1>1, <1>3 DEF IInv, TypeOK
<1>5. history' \in [expected : SUBSET Slots, called : SUBSET Slots, delta : Int,
                   seen : SUBSET {"up", "down", "clamped"}, extra : Nat,
                   rolls : 0..MaxExtra + 1, hits : 0..MaxExtra + 1]
  BY <1>1 DEF IInv, TypeOK
<1>6. TypeOK'
  BY <1>1, <1>4, <1>5 DEF IInv, TypeOK, AfterError
<1>7. Phases'
  BY DEF IInv, TypeOK, Phases, Calls
<1>8. HitsAreRolls'
  BY DEF IInv, TypeOK, HitsAreRolls
<1>9. InLoop'
  <2>1. pc = "call" /\ UNCHANGED <<script, count>>
    BY DEF Calls
  <2>2. count <= Len(slots[script])
    BY <2>1 DEF IInv, InLoop
  <2>3. {count, Len(slots[script]), Len(AfterCall(registers))} \subseteq Int
    BY <1>2 DEF IInv, TypeOK
  <2>4. count <= Len(AfterCall(registers))
    BY <1>1, <2>2, <2>3
  <2> QED
    BY <1>1, <1>3, <1>4, <2>1, <2>4 DEF InLoop
<1>10. Sums'
  BY SameSums DEF IInv, TypeOK
<1> QED
  BY <1>6, <1>7, <1>8, <1>9, <1>10 DEF IInv

-----------------------------------------------------------------------------
\* The hook's own steps: entering, making the rolls, returning.
LEMMA EnterStep ==
    ASSUME IInv, NEW c \in Chances, NEW valid \in BOOLEAN, Enter(c, valid)
    PROVE  IInv'
<1> USE DEF Enter, at
<1>1. c * Scale \in 0..FullChance
  BY ScaledChance
<1>2. history' \in [expected : SUBSET Slots, called : SUBSET Slots, delta : Int,
                   seen : SUBSET {"up", "down", "clamped"}, extra : Nat,
                   rolls : 0..MaxExtra + 1, hits : 0..MaxExtra + 1]
  BY DEF NoHistory, Enabled, MaxExtra
<1>3. TypeOK'
  BY <1>1, <1>2 DEF IInv, TypeOK, MaxExtra
<1>4. Phases'
  BY DEF IInv, TypeOK, Phases, NoHistory, NoModifiers, Lesser, MaxExtra
<1>5. HitsAreRolls'
  BY DEF IInv, Phases, HitsAreRolls, NoHistory
<1>6. InLoop'
  BY DEF InLoop
<1>7. Sums'
  BY NoSums DEF IInv, Phases, NoModifiers, NoHistory
<1> QED
  BY <1>3, <1>4, <1>5, <1>6, <1>7 DEF IInv

\* One native roll is made.
LEMMA RollStep ==
    ASSUME IInv, NEW hit \in BOOLEAN, NativeRoll(hit)
    PROVE  IInv'
<1> USE DEF NativeRoll, at
<1>1. /\ rollsLeft \in 1..MaxExtra + 1
      /\ history.rolls \in Nat /\ history.hits \in Nat /\ history.extra \in Nat
      /\ history.hits <= history.rolls
      /\ history.rolls + rollsLeft <= MaxExtra + 1
  BY DEF IInv, TypeOK, Phases, HitsAreRolls, Lesser, MaxExtra
<1>2. /\ history'.rolls = history.rolls + 1
      /\ history'.hits = IF hit THEN history.hits + 1 ELSE history.hits
      /\ history'.extra = history.extra
  BY DEF IInv, TypeOK
<1>3. history' \in [expected : SUBSET Slots, called : SUBSET Slots, delta : Int,
                   seen : SUBSET {"up", "down", "clamped"}, extra : Nat,
                   rolls : 0..MaxExtra + 1, hits : 0..MaxExtra + 1]
  <2>1. history.rolls + 1 \in 0..MaxExtra + 1
    BY <1>1 DEF MaxExtra
  <2>2. (IF hit THEN history.hits + 1 ELSE history.hits) \in 0..MaxExtra + 1
    BY <1>1 DEF MaxExtra
  <2> QED
    BY <2>1, <2>2 DEF IInv, TypeOK
<1>4. placed' \in BOOLEAN
  BY Zenon DEF IInv, TypeOK, Placed
<1>5. rollsLeft' \in 0..MaxExtra + 1
  BY <1>1 DEF MaxExtra
<1>6. TypeOK'
  BY <1>3, <1>4, <1>5 DEF IInv, TypeOK
<1>7. Phases'
  BY <1>1, <1>2 DEF IInv, Phases
<1>8. HitsAreRolls'
  <2>1. placed' <=> hit \/ placed
    BY Zenon DEF Placed
  <2>2. placed <=> history.hits > 0
    BY DEF IInv, HitsAreRolls
  <2>3. CASE hit
    <3>1. history'.hits > 0 /\ history'.hits <= history'.rolls
      BY <1>1, <1>2, <2>3
    <3> QED
      BY <2>1, <2>3, <3>1 DEF HitsAreRolls
  <2>4. CASE ~hit
    <3>1. history'.hits = history.hits /\ history'.hits <= history'.rolls
      BY <1>1, <1>2, <2>4
    <3> QED
      BY <2>1, <2>2, <2>4, <3>1 DEF HitsAreRolls
  <2> QED
    BY <2>3, <2>4
<1>9. InLoop'
  BY DEF InLoop
<1>10. Sums'
  BY SameSums DEF IInv, TypeOK
<1> QED
  BY <1>6, <1>7, <1>8, <1>9, <1>10 DEF IInv

\* The adjusted chance and the number of rolls are computed.
LEMMA BeginRollsStep ==
    ASSUME IInv, BeginRolls
    PROVE  IInv'
<1> USE DEF BeginRolls, at
<1>1. /\ Scale \in Nat /\ total.delta \in Int /\ chance \div Scale \in Int
      /\ FullChance \in Nat
  BY CorridorAssumption, ProductNat DEF IInv, TypeOK, FullChance
<1>2. chance' \in 0..FullChance
  <2> DEFINE multiplier == Clamp(Scale + total.delta, 0, 8 * Scale)
  <2>1. multiplier \in Int
    BY <1>1 DEF Clamp
  <2>2. (chance \div Scale) * multiplier \in Int
    BY <1>1, <2>1
  <2> HIDE DEF multiplier
  <2>3. Clamp((chance \div Scale) * multiplier, 0, FullChance) \in 0..FullChance
    BY <1>1, <2>2, ClampBounds
  <2> QED
    BY <2>3 DEF multiplier
<1>3. /\ total.extra \in 0..MaxExtra
      /\ total.extra = Lesser(MaxExtra, history.extra)
      /\ history.rolls = 0
  BY DEF IInv, TypeOK, Phases
<1>4. RollsFor \in 0..MaxExtra + 1 /\ RollsFor = 1 + Lesser(MaxExtra, history.extra)
  BY <1>3 DEF RollsFor, Lesser, MaxExtra
<1>5. TypeOK'
  BY <1>2, <1>4 DEF IInv, TypeOK
<1>6. Phases'
  BY <1>3, <1>4 DEF Phases, Lesser, MaxExtra
<1>7. HitsAreRolls' /\ InLoop' /\ Sums'
  BY DEF IInv, HitsAreRolls, InLoop, Sums
<1> QED
  BY <1>5, <1>6, <1>7 DEF IInv

\* The loop's bookkeeping steps.
LEMMA LoopStep ==
    ASSUME IInv, BeginScript \/ SkipDisabled \/ EndScript \/ Panic
    PROVE  IInv'
<1> USE DEF at
<1>1. CASE BeginScript
  <2>1. /\ script \in Scripts
        /\ slots[script] \in Seq({"fn", "off"})
        /\ Len(slots[script]) <= MaxSlots
    BY <1>1 DEF BeginScript, IInv, TypeOK, SlotLists
  <2>2. Len(slots[script]) \in 0..MaxSlots /\ 1 \in 1..MaxSlots + 1
    BY <2>1, CorridorAssumption
  <2>3. TypeOK'
    BY <1>1, <2>2 DEF BeginScript, IInv, TypeOK
  <2>4. Phases' /\ HitsAreRolls' /\ InLoop' /\ Sums'
    BY <1>1, <2>1 DEF BeginScript, IInv, Phases, HitsAreRolls, InLoop, Sums
  <2> QED
    BY <2>3, <2>4 DEF IInv
<1>2. CASE SkipDisabled
  <2>1. index + 1 \in 1..MaxSlots + 1
    BY <1>2, CorridorAssumption DEF SkipDisabled, IInv, TypeOK
  <2>2. TypeOK'
    BY <1>2, <2>1 DEF SkipDisabled, IInv, TypeOK
  <2>3. Phases' /\ HitsAreRolls' /\ InLoop' /\ Sums'
    BY <1>2 DEF SkipDisabled, IInv, Phases, HitsAreRolls, InLoop, Sums
  <2> QED
    BY <2>2, <2>3 DEF IInv
<1>3. CASE EndScript
  <2>1. script + 1 \in 1..NumScripts + 1
    BY <1>3, CorridorAssumption DEF EndScript, IInv, InLoop, Scripts
  <2>2. TypeOK'
    BY <1>3, <2>1 DEF EndScript, IInv, TypeOK
  <2>3. Phases' /\ HitsAreRolls' /\ InLoop' /\ Sums'
    BY <1>3 DEF EndScript, IInv, Phases, HitsAreRolls, InLoop, Sums
  <2> QED
    BY <2>2, <2>3 DEF IInv
<1>4. CASE Panic
  <2>1. TypeOK'
    BY <1>4 DEF Panic, IInv, TypeOK
  <2>2. Phases' /\ HitsAreRolls' /\ InLoop' /\ Sums'
    BY <1>4 DEF Panic, IInv, Phases, HitsAreRolls, InLoop, Sums
  <2> QED
    BY <2>1, <2>2 DEF IInv
<1> QED
  BY <1>1, <1>2, <1>3, <1>4

\* Between two calls: the hook returns, a script is reloaded.
LEMMA IdleStep ==
    ASSUME IInv, Return \/ \E s \in Scripts : Reload(s)
    PROVE  IInv'
<1>1. CASE Return
  <2>1. /\ 0 \in 0..FullChance /\ 0 \in 0..MaxSlots /\ 1 \in 1..MaxSlots + 1
        /\ 1 \in 1..NumScripts + 1
    BY CorridorAssumption, ProductNat DEF FullChance
  <2>2. NoModifiers \in [delta : -Scale..7 * Scale, extra : 0..MaxExtra]
    BY CorridorAssumption DEF NoModifiers, MaxExtra
  <2>3. NoHistory \in [expected : SUBSET Slots, called : SUBSET Slots, delta : Int,
                      seen : SUBSET {"up", "down", "clamped"}, extra : Nat,
                      rolls : 0..MaxExtra + 1, hits : 0..MaxExtra + 1]
    BY DEF NoHistory, MaxExtra
  <2>4. placed' \in BOOLEAN
    BY <1>1, Zenon DEF Return
  <2>5. TypeOK'
    BY <1>1, <2>1, <2>2, <2>3, <2>4 DEF Return, IInv, TypeOK
  <2>6. Phases' /\ HitsAreRolls' /\ InLoop'
    BY <1>1 DEF Return, IInv, Phases, HitsAreRolls, InLoop, NoHistory
  <2>7. Sums'
    BY <1>1, NoSums DEF Return, NoModifiers, NoHistory
  <2> QED
    BY <2>5, <2>6, <2>7 DEF IInv
<1>2. ASSUME NEW s \in Scripts, Reload(s)
      PROVE  IInv'
  <2> USE DEF at
  <2>1. slots' \in [Scripts -> SlotLists]
    BY <1>2, FreshTable DEF Reload, IInv, TypeOK
  <2>2. TypeOK'
    BY <1>2, <2>1 DEF Reload, IInv, TypeOK
  <2>3. Phases' /\ HitsAreRolls' /\ InLoop' /\ Sums'
    BY <1>2 DEF Reload, IInv, Phases, HitsAreRolls, InLoop, Sums
  <2> QED
    BY <2>2, <2>3 DEF IInv
<1> QED
  BY <1>1, <1>2

\* Every step keeps the invariant.
LEMMA StepIInv == IInv /\ [Next]_vars => IInv'
<1> SUFFICES ASSUME IInv, [Next]_vars PROVE IInv'
  OBVIOUS
<1>1. CASE BeginScript \/ SkipDisabled \/ EndScript \/ Panic
  BY <1>1, LoopStep
<1>2. CASE BeginRolls
  BY <1>2, BeginRollsStep
<1>3. CASE Return \/ \E s \in Scripts : Reload(s)
  BY <1>3, IdleStep
<1>4. CASE \E registers \in BOOLEAN : CallbackFails(registers)
  BY <1>4, FailStep
<1>5. CASE \E registers \in BOOLEAN, answer \in Answers : CallbackAnswers(registers, answer)
  BY <1>5, AnswerStep
<1>6. CASE \E hit \in BOOLEAN : NativeRoll(hit)
  BY <1>6, RollStep
<1>7. CASE \E c \in Chances, valid \in BOOLEAN : Enter(c, valid)
  BY <1>7, EnterStep
<1>8. CASE UNCHANGED vars
  BY <1>8 DEF vars, IInv, TypeOK, Phases, HitsAreRolls, InLoop, Sums
<1> QED
  BY <1>1, <1>2, <1>3, <1>4, <1>5, <1>6, <1>7, <1>8 DEF Next, Step

-----------------------------------------------------------------------------
\* The inductive invariant holds in every reachable state.
THEOREM Invariance == Spec => []IInv
BY InitIInv, StepIInv, PTL DEF Spec

\* Type correctness: the accumulated modifiers, the loop indices and the number
\* of native calls stay within their ranges whatever the callbacks return.
THEOREM TypeCorrect == Spec => []TypeOK
<1>1. IInv => TypeOK
  BY DEF IInv
<1> QED
  BY <1>1, Invariance, PTL

\* Unless deltas of both signs meet a clamp, the total is the clamped sum.
THEOREM DeltasCorrect == Spec => []DeltasAddUnlessMixed
<1>1. IInv => DeltasAddUnlessMixed
  <2> SUFFICES ASSUME IInv, history.seen # {"up", "down", "clamped"}
               PROVE  total.delta = Clamp(history.delta, -Scale, 7 * Scale)
    BY DEF DeltasAddUnlessMixed
  <2>1. /\ total.delta \in -Scale..7 * Scale /\ history.delta \in Int /\ Scale \in Nat
        /\ history.seen \subseteq {"up", "down", "clamped"}
    BY CorridorAssumption DEF IInv, TypeOK
  <2>2. CASE "clamped" \notin history.seen
    BY <2>1, <2>2 DEF IInv, Sums, Clamp
  <2>3. CASE "down" \notin history.seen
    BY <2>1, <2>3 DEF IInv, Sums, Clamp, Lesser
  <2>4. CASE "up" \notin history.seen
    BY <2>1, <2>4 DEF IInv, Sums, Clamp
  <2> QED
    BY <2>1, <2>2, <2>3, <2>4
<1> QED
  BY <1>1, Invariance, PTL

\* The number of native calls is one plus the capped sum of all extra rolls.
THEOREM RollsCorrect == Spec => []RollsAreCappedSum
<1>1. IInv => RollsAreCappedSum
  <2> SUFFICES ASSUME IInv, Returned
               PROVE  history.rolls = 1 + Lesser(MaxExtra, history.extra)
    BY DEF RollsAreCappedSum
  <2>1. history.rolls + rollsLeft = 1 + Lesser(MaxExtra, history.extra)
    BY DEF IInv, Phases, Returned, Lesser, MaxExtra
  <2> QED
    BY <2>1 DEF IInv, TypeOK, Returned
<1> QED
  BY <1>1, Invariance, PTL

\* The hook's result says exactly whether one of the native calls placed.
THEOREM PlacedCorrect == Spec => []PlacedIffSomeRollPlaced
<1>1. IInv => PlacedIffSomeRollPlaced
  BY DEF IInv, HitsAreRolls, PlacedIffSomeRollPlaced
<1> QED
  BY <1>1, Invariance, PTL

-----------------------------------------------------------------------------
(* Which callbacks run. The callbacks that are still ahead are expected exactly *)
(* when they are enabled now, those that were registered meanwhile lying beyond *)
(* the count; the callbacks passed have been called exactly when expected.      *)

\* The table holds a function at place k.
FnAt(table, k) == k \in 1..Len(table) /\ table[k] = "fn"

\* The loop has gone past callback k of script s.
Passed(s, k) == s < script \/ (pc = "call" /\ s = script /\ k < index)

\* The loop will reach callback k of script s, should it be among the counted.
WithinCount(s, k) == pc = "call" /\ s = script => k <= count

AheadAsExpected ==
    pc \in {"script", "call"} =>
        \A s \in Scripts, k \in 1..MaxSlots :
            ~Passed(s, k) =>
                (<<s, k>> \in history.expected <=> FnAt(slots[s], k) /\ WithinCount(s, k))

PassedHaveRun ==
    pc \in {"script", "call"} =>
        \A s \in Scripts, k \in 1..MaxSlots :
            <<s, k>> \in history.called <=> <<s, k>> \in history.expected /\ Passed(s, k)

OnlyExpected == history.called \subseteq history.expected

AtRest == pc = "idle" => script = 1

\* A callback that failed stays off until its script's table is replaced.
FailedAreOff ==
    \A s \in Scripts, k \in 1..MaxSlots :
        <<s, k>> \in failed => k \in 1..Len(slots[s]) /\ slots[s][k] = "off"

RunInv == IInv /\ AheadAsExpected /\ PassedHaveRun /\ OnlyExpected /\ AtRest /\ FailedAreOff

\* What Enabled says of one callback.
LEMMA EnabledIsFn ==
    ASSUME TypeOK, NEW s \in Scripts, NEW k \in 1..MaxSlots
    PROVE  <<s, k>> \in Enabled <=> FnAt(slots[s], k)
<1>1. slots[s] \in Seq({"fn", "off"})
  BY DEF TypeOK, SlotLists
<1>2. DOMAIN slots[s] = 1..Len(slots[s])
  BY <1>1
<1>3. <<s, k>> \in Slots
  BY DEF Slots
<1> QED
  BY <1>2, <1>3 DEF Enabled, FnAt

\* The loop's own steps: entering a table, skipping a slot, leaving the table.
LEMMA LoopRun ==
    ASSUME RunInv, BeginScript \/ SkipDisabled \/ EndScript
    PROVE  RunInv'
<1> USE DEF at
<1>1. IInv'
  BY LoopStep DEF RunInv
<1>2. /\ UNCHANGED <<slots, failed, history>>
      /\ \A s \in Scripts : s \in Int /\ slots[s] \in Seq({"fn", "off"}) /\ Len(slots[s]) \in Nat
      /\ script \in Int /\ index \in Int /\ count \in Int
  BY DEF RunInv, IInv, TypeOK, Scripts, SlotLists, BeginScript, SkipDisabled, EndScript
<1>3. OnlyExpected' /\ FailedAreOff' /\ AtRest'
  BY <1>2 DEF RunInv, OnlyExpected, FailedAreOff, AtRest, BeginScript, SkipDisabled, EndScript
<1>4. ASSUME NEW s \in Scripts, NEW k \in 1..MaxSlots
      PROVE  /\ ~Passed(s, k)' =>
                  (<<s, k>> \in history.expected <=> FnAt(slots[s], k) /\ WithinCount(s, k)')
             /\ <<s, k>> \in history.called <=> <<s, k>> \in history.expected /\ Passed(s, k)'
  <2>1. /\ pc \in {"script", "call"}
        /\ ~Passed(s, k) =>
             (<<s, k>> \in history.expected <=> FnAt(slots[s], k) /\ WithinCount(s, k))
        /\ <<s, k>> \in history.called <=> <<s, k>> \in history.expected /\ Passed(s, k)
    BY DEF RunInv, AheadAsExpected, PassedHaveRun, BeginScript, SkipDisabled, EndScript
  <2>2. CASE BeginScript
    <3>1. (Passed(s, k)' <=> Passed(s, k)) /\ (FnAt(slots[s], k) => WithinCount(s, k)')
      BY <1>2, <2>2 DEF BeginScript, Passed, FnAt, WithinCount
    <3>2. WithinCount(s, k)
      BY <2>2 DEF BeginScript, WithinCount
    <3> QED
      BY <2>1, <3>1, <3>2
  <2>3. CASE SkipDisabled
    <3>1. WithinCount(s, k)' <=> WithinCount(s, k)
      BY <1>2, <2>3 DEF SkipDisabled, WithinCount
    <3>2. CASE s = script /\ k = index
      <4>1. ~FnAt(slots[s], k) /\ ~Passed(s, k) /\ Passed(s, k)'
        BY <1>2, <2>3, <3>2 DEF SkipDisabled, Passed, FnAt
      <4> QED
        BY <2>1, <4>1
    <3>3. CASE ~(s = script /\ k = index)
      <4>1. Passed(s, k)' <=> Passed(s, k)
        BY <1>2, <2>3, <3>3 DEF SkipDisabled, Passed
      <4> QED
        BY <2>1, <3>1, <4>1
    <3> QED
      BY <3>2, <3>3
  <2>4. CASE EndScript
    <3>1. WithinCount(s, k)'
      BY <2>4 DEF EndScript, WithinCount
    <3>2. CASE s = script /\ k >= index
      <4>1. ~WithinCount(s, k) /\ ~Passed(s, k) /\ Passed(s, k)'
        BY <1>2, <2>4, <3>2 DEF EndScript, Passed, WithinCount
      <4> QED
        BY <2>1, <4>1
    <3>3. CASE ~(s = script /\ k >= index)
      <4>1. Passed(s, k)' <=> Passed(s, k)
        BY <1>2, <2>4, <3>3 DEF EndScript, Passed
      <4>2. ~Passed(s, k) => WithinCount(s, k)
        BY <1>2, <2>4, <3>3 DEF EndScript, Passed, WithinCount
      <4> QED
        BY <2>1, <3>1, <4>1, <4>2
    <3> QED
      BY <3>2, <3>3
  <2> QED
    BY <2>2, <2>3, <2>4
<1>5. AheadAsExpected'
  BY <1>2, <1>4 DEF AheadAsExpected
<1>6. PassedHaveRun'
  BY <1>2, <1>4 DEF PassedHaveRun
<1> QED
  BY <1>1, <1>3, <1>5, <1>6 DEF RunInv

\* A callback runs: it is the one the loop has reached, it was expected, and the
\* counted callbacks beyond it are as they were, though the table may grow.
LEMMA CallRun ==
    ASSUME RunInv, NEW registers \in BOOLEAN, Calls(registers), IInv',
           index' = index + 1, UNCHANGED <<pc, script, count>>,
           history'.expected = history.expected,
           history'.called = history.called \union {<<script, index>>},
           NEW table \in SlotLists, slots' = [slots EXCEPT ![script] = table],
           Len(table) >= Len(slots[script]),
           \A k \in 1..Len(slots[script]) : k # index => table[k] = slots[script][k]
    PROVE  AheadAsExpected' /\ PassedHaveRun' /\ OnlyExpected'
<1>1. /\ script \in Scripts /\ script \in Int
      /\ index \in 1..Len(slots[script])
      /\ index \in 1..MaxSlots
      /\ <<script, index>> \in Slots
  BY RunningSlot DEF RunInv, Slots, Scripts
<1>2. /\ \A s \in Scripts : s \in Int /\ slots[s] \in SlotLists /\ Len(slots[s]) \in Nat
      /\ Len(table) \in Nat /\ count \in Nat /\ count <= Len(slots[script])
      /\ index <= count /\ slots[script][index] = "fn" /\ pc = "call"
  <2>1. \A s \in Scripts : s \in Int /\ slots[s] \in SlotLists
    <3>1. slots \in [Scripts -> SlotLists]
      BY DEF RunInv, IInv, TypeOK
    <3>2. \A s \in Scripts : s \in Int
      BY DEF Scripts
    <3> QED
      BY <3>1, <3>2
  <2>2. \A list \in SlotLists : Len(list) \in Nat
    BY DEF SlotLists
  <2>3. count \in Nat /\ count <= Len(slots[script])
    BY CorridorAssumption DEF RunInv, IInv, InLoop, TypeOK, Calls
  <2> QED
    BY <2>1, <2>2, <2>3 DEF Calls
<1>3. slots'[script] = table /\ \A s \in Scripts : s # script => slots'[s] = slots[s]
  BY <1>1 DEF RunInv, IInv, TypeOK
<1>4. ASSUME NEW s \in Scripts, NEW k \in 1..MaxSlots
      PROVE  /\ ~Passed(s, k) =>
                  (<<s, k>> \in history.expected <=> FnAt(slots[s], k) /\ WithinCount(s, k))
             /\ <<s, k>> \in history.called <=> <<s, k>> \in history.expected /\ Passed(s, k)
  BY <1>2 DEF RunInv, AheadAsExpected, PassedHaveRun
<1>5. <<script, index>> \in history.expected
  <2>1. ~Passed(script, index) /\ FnAt(slots[script], index) /\ WithinCount(script, index)
    BY <1>1, <1>2 DEF Passed, FnAt, WithinCount
  <2> QED
    BY <1>1, <1>4, <2>1
<1>6. ASSUME NEW s \in Scripts, NEW k \in 1..MaxSlots
      PROVE  /\ ~Passed(s, k)' =>
                  (<<s, k>> \in history'.expected <=> FnAt(slots'[s], k) /\ WithinCount(s, k)')
             /\ <<s, k>> \in history'.called <=> <<s, k>> \in history'.expected /\ Passed(s, k)'
  <2>1. WithinCount(s, k)' <=> WithinCount(s, k)
    BY DEF WithinCount
  <2>2. CASE s = script /\ k = index
    <3>1. Passed(s, k)'
      BY <1>1, <1>2, <2>2 DEF Passed
    <3> QED
      BY <1>5, <2>2, <3>1
  <2>3. CASE ~(s = script /\ k = index)
    <3>1. Passed(s, k)' <=> Passed(s, k)
      BY <1>1, <1>2, <2>3 DEF Passed
    <3>2. <<s, k>> # <<script, index>>
      BY <2>3
    <3>3. ~Passed(s, k) =>
            (FnAt(slots'[s], k) /\ WithinCount(s, k) <=> FnAt(slots[s], k) /\ WithinCount(s, k))
      <4>1. CASE s # script
        BY <1>3, <4>1
      <4>2. CASE s = script
        <5>1. slots'[s] = table /\ k # index
          BY <1>3, <2>3, <4>2
        <5>2. WithinCount(s, k) => k \in 1..Len(slots[script]) /\ k \in 1..Len(table)
          BY <1>2, <4>2 DEF WithinCount
        <5>3. k \in 1..Len(slots[script]) => table[k] = slots[script][k]
          BY <5>1
        <5> QED
          BY <4>2, <5>1, <5>2, <5>3 DEF FnAt
      <4> QED
        BY <4>1, <4>2
    <3> QED
      BY <1>4, <2>1, <3>1, <3>2, <3>3
  <2> QED
    BY <2>2, <2>3
<1>7. AheadAsExpected'
  BY <1>6 DEF AheadAsExpected
<1>8. PassedHaveRun'
  BY <1>6 DEF PassedHaveRun
<1>9. OnlyExpected'
  BY <1>5 DEF RunInv, OnlyExpected
<1> QED
  BY <1>7, <1>8, <1>9

\* What a callback may have done to its own table while it ran.
LEMMA GrownTable ==
    ASSUME RunInv, NEW registers \in BOOLEAN, Calls(registers)
    PROVE  /\ AfterCall(registers) \in SlotLists
           /\ Len(AfterCall(registers)) >= Len(slots[script])
           /\ \A k \in 1..Len(slots[script]) : AfterCall(registers)[k] = slots[script][k]
<1>1. /\ AfterCall(registers) \in SlotLists
      /\ Len(AfterCall(registers)) >= Len(slots[script])
      /\ slots[script] \in SlotLists
  BY RunningSlot DEF RunInv, IInv, TypeOK
<1>2. \A k \in 1..Len(slots[script]) : AfterCall(registers)[k] = slots[script][k]
  BY <1>1 DEF AfterCall, SlotLists
<1> QED
  BY <1>1, <1>2

\* A callback that answers: nothing that failed comes back.
LEMMA AnswerRun ==
    ASSUME RunInv, NEW registers \in BOOLEAN, NEW answer \in Answers,
           CallbackAnswers(registers, answer)
    PROVE  RunInv'
<1> USE DEF CallbackAnswers, at
<1>1. IInv'
  BY AnswerStep DEF RunInv
<1>2. PICK table \in SlotLists :
        /\ table = AfterCall(registers)
        /\ Len(table) >= Len(slots[script])
        /\ \A k \in 1..Len(slots[script]) : table[k] = slots[script][k]
  BY GrownTable
<1>3. slots' = [slots EXCEPT ![script] = table]
  BY <1>2
<1>4. /\ history'.expected = history.expected
      /\ history'.called = history.called \union {<<script, index>>}
  BY DEF RunInv, IInv, TypeOK
<1>5. Calls(registers) /\ index' = index + 1 /\ UNCHANGED <<pc, script, count>>
  OBVIOUS
<1>6. AheadAsExpected' /\ PassedHaveRun' /\ OnlyExpected'
  BY <1>1, <1>2, <1>3, <1>4, <1>5, CallRun
<1>7. AtRest'
  BY DEF AtRest, Calls
<1>8. FailedAreOff'
  <2> SUFFICES ASSUME NEW s \in Scripts, NEW k \in 1..MaxSlots, <<s, k>> \in failed
               PROVE  k \in 1..Len(slots'[s]) /\ slots'[s][k] = "off"
    BY DEF FailedAreOff
  <2>1. k \in 1..Len(slots[s]) /\ slots[s][k] = "off"
    BY DEF RunInv, FailedAreOff
  <2>2. slots'[s] = IF s = script THEN table ELSE slots[s]
    BY <1>3 DEF RunInv, IInv, TypeOK
  <2>3. Len(slots[s]) \in Nat /\ Len(table) \in Nat
    BY DEF RunInv, IInv, TypeOK, SlotLists
  <2> QED
    BY <1>2, <2>1, <2>2, <2>3
<1> QED
  BY <1>1, <1>6, <1>7, <1>8 DEF RunInv

\* A callback that fails: its slot is off from now on.
LEMMA FailRun ==
    ASSUME RunInv, NEW registers \in BOOLEAN, CallbackFails(registers)
    PROVE  RunInv'
<1> USE DEF CallbackFails, at
<1>1. IInv'
  BY FailStep DEF RunInv
<1>2. PICK grown \in SlotLists :
        /\ grown = AfterCall(registers)
        /\ Len(grown) >= Len(slots[script])
        /\ \A k \in 1..Len(slots[script]) : grown[k] = slots[script][k]
  BY GrownTable
<1>3. index \in 1..Len(slots[script]) /\ script \in Scripts
  BY RunningSlot DEF RunInv
<1>4. Len(slots[script]) \in Nat /\ grown \in Seq({"fn", "off"}) /\ Len(grown) \in Nat
  BY <1>3 DEF RunInv, IInv, TypeOK, SlotLists
<1>5. index \in 1..Len(grown)
  BY <1>2, <1>3, <1>4
<1>6. Disabled(grown) \in SlotLists
  BY <1>5, DisableSlot DEF Disabled
<1>7. PICK table \in SlotLists :
        /\ table = Disabled(grown)
        /\ Len(table) = Len(grown)
        /\ table[index] = "off"
        /\ \A k \in 1..Len(slots[script]) : k # index => table[k] = slots[script][k]
  BY <1>2, <1>4, <1>5, <1>6 DEF Disabled
<1>8. slots' = [slots EXCEPT ![script] = table] /\ Len(table) >= Len(slots[script])
  BY <1>2, <1>7
<1>9. /\ history'.expected = history.expected
      /\ history'.called = history.called \union {<<script, index>>}
  BY DEF RunInv, IInv, TypeOK
<1>10. Calls(registers) /\ index' = index + 1 /\ UNCHANGED <<pc, script, count>>
  BY DEF AfterError
<1>11. AheadAsExpected' /\ PassedHaveRun' /\ OnlyExpected'
  BY <1>1, <1>7, <1>8, <1>9, <1>10, CallRun
<1>12. AtRest'
  BY DEF AtRest, Calls
<1>13. FailedAreOff'
  <2> SUFFICES ASSUME NEW s \in Scripts, NEW k \in 1..MaxSlots, <<s, k>> \in failed'
               PROVE  k \in 1..Len(slots'[s]) /\ slots'[s][k] = "off"
    BY DEF FailedAreOff
  <2>1. slots'[s] = IF s = script THEN table ELSE slots[s]
    BY <1>8 DEF RunInv, IInv, TypeOK
  <2>2. Len(slots[s]) \in Nat /\ Len(table) \in Nat
    BY DEF RunInv, IInv, TypeOK, SlotLists
  <2>3. CASE s = script /\ k = index
    BY <1>5, <1>7, <2>1, <2>3
  <2>4. CASE ~(s = script /\ k = index)
    <3>1. <<s, k>> \in failed
      BY <2>4
    <3>2. k \in 1..Len(slots[s]) /\ slots[s][k] = "off"
      BY <3>1 DEF RunInv, FailedAreOff
    <3>3. s = script => k \in 1..Len(table) /\ table[k] = slots[script][k]
      BY <1>7, <1>8, <2>2, <2>4, <3>2
    <3> QED
      BY <2>1, <3>2, <3>3
  <2> QED
    BY <2>3, <2>4
<1> QED
  BY <1>1, <1>11, <1>12, <1>13 DEF RunInv

\* The engine's call begins: what is enabled now is expected.
LEMMA EnterRun ==
    ASSUME RunInv, NEW c \in Chances, NEW valid \in BOOLEAN, Enter(c, valid)
    PROVE  RunInv'
<1> USE DEF Enter, at
<1>1. IInv'
  BY EnterStep DEF RunInv
<1>2. /\ history'.called = {}
      /\ valid => history'.expected = Enabled
      /\ UNCHANGED <<slots, script, failed>>
      /\ script = 1 /\ (pc' = "script" => valid) /\ pc' # "call" /\ pc' # "idle"
  BY DEF NoHistory, RunInv, AtRest
<1>3. OnlyExpected' /\ FailedAreOff' /\ AtRest'
  BY <1>2 DEF RunInv, OnlyExpected, FailedAreOff, AtRest
<1>4. \A s \in Scripts, k \in 1..MaxSlots : ~Passed(s, k)' /\ WithinCount(s, k)'
  BY <1>2 DEF Passed, WithinCount, Scripts
<1>5. \A s \in Scripts, k \in 1..MaxSlots : <<s, k>> \in Enabled <=> FnAt(slots[s], k)
  BY EnabledIsFn DEF RunInv, IInv
<1>6. AheadAsExpected'
  BY <1>2, <1>4, <1>5 DEF AheadAsExpected
<1>7. PassedHaveRun'
  BY <1>2, <1>4 DEF PassedHaveRun
<1> QED
  BY <1>1, <1>3, <1>6, <1>7 DEF RunInv

\* The steps outside the scripts' loops change no callback.
LEMMA OutsideRun ==
    ASSUME RunInv,
           BeginRolls \/ Return \/ Panic \/ \E hit \in BOOLEAN : NativeRoll(hit)
    PROVE  RunInv'
<1> USE DEF BeginRolls, Return, Panic, NativeRoll, at
<1>1. IInv'
  BY BeginRollsStep, IdleStep, LoopStep, RollStep DEF RunInv
<1>2. pc' \notin {"script", "call"} /\ (pc' = "idle" => script' = 1)
  OBVIOUS
<1>3. UNCHANGED <<slots, failed>>
  OBVIOUS
<1>4. history'.called \subseteq history'.expected
  <2>1. CASE BeginRolls \/ Panic
    BY <2>1 DEF RunInv, OnlyExpected
  <2>2. CASE Return
    BY <2>2 DEF NoHistory
  <2>3. CASE \E hit \in BOOLEAN : NativeRoll(hit)
    <3>1. history'.called = history.called /\ history'.expected = history.expected
      BY <2>3 DEF RunInv, IInv, TypeOK
    <3> QED
      BY <3>1 DEF RunInv, OnlyExpected
  <2> QED
    BY <2>1, <2>2, <2>3
<1>5. FailedAreOff'
  BY <1>3 DEF RunInv, FailedAreOff
<1> QED
  BY <1>1, <1>2, <1>4, <1>5
  DEF RunInv, AheadAsExpected, PassedHaveRun, OnlyExpected, AtRest

\* A reloaded script starts with a clean record of failures.
LEMMA ReloadRun ==
    ASSUME RunInv, NEW t \in Scripts, Reload(t)
    PROVE  RunInv'
<1> USE DEF Reload, at
<1>1. IInv'
  BY IdleStep DEF RunInv
<1>2. FailedAreOff'
  <2> SUFFICES ASSUME NEW s \in Scripts, NEW k \in 1..MaxSlots, <<s, k>> \in failed'
               PROVE  k \in 1..Len(slots'[s]) /\ slots'[s][k] = "off"
    BY DEF FailedAreOff
  <2>1. <<s, k>> \in failed /\ s # t
    OBVIOUS
  <2>2. slots'[s] = slots[s]
    BY <2>1 DEF RunInv, IInv, TypeOK
  <2> QED
    BY <2>1, <2>2 DEF RunInv, FailedAreOff
<1> QED
  BY <1>1, <1>2 DEF RunInv, AheadAsExpected, PassedHaveRun, OnlyExpected, AtRest

\* The invariant holds initially and every step keeps it.
LEMMA InitRunInv == Init => RunInv
BY InitIInv DEF Init, RunInv, AheadAsExpected, PassedHaveRun, OnlyExpected, AtRest,
                FailedAreOff, NoHistory

\* Every step keeps what the loops have run and still have before them.
LEMMA StepRunInv == RunInv /\ [Next]_vars => RunInv'
<1> SUFFICES ASSUME RunInv, [Next]_vars PROVE RunInv'
  OBVIOUS
<1>1. CASE BeginScript \/ SkipDisabled \/ EndScript
  BY <1>1, LoopRun
<1>2. CASE BeginRolls \/ Return \/ Panic \/ \E hit \in BOOLEAN : NativeRoll(hit)
  BY <1>2, OutsideRun
<1>3. CASE \E s \in Scripts : Reload(s)
  BY <1>3, ReloadRun
<1>4. CASE \E registers \in BOOLEAN : CallbackFails(registers)
  BY <1>4, FailRun
<1>5. CASE \E registers \in BOOLEAN, answer \in Answers : CallbackAnswers(registers, answer)
  BY <1>5, AnswerRun
<1>6. CASE \E c \in Chances, valid \in BOOLEAN : Enter(c, valid)
  BY <1>6, EnterRun
<1>7. CASE UNCHANGED vars
  <2>1. IInv'
    BY <1>7, StepIInv DEF RunInv
  <2> QED
    BY <1>7, <2>1 DEF vars, at, RunInv, AheadAsExpected, PassedHaveRun, Passed, WithinCount,
                      OnlyExpected, AtRest, FailedAreOff
<1> QED
  BY <1>1, <1>2, <1>3, <1>4, <1>5, <1>6, <1>7 DEF Next, Step

\* A callback called by a step is the one the loop has reached, and it was on.
LEMMA CalledIsOn ==
    ASSUME RunInv, [Next]_vars
    PROVE  (history'.called \ history.called) \intersect failed = {}
<1>1. CASE \E registers \in BOOLEAN :
              \/ CallbackFails(registers)
              \/ \E answer \in Answers : CallbackAnswers(registers, answer)
  <2>1. PICK registers \in BOOLEAN :
           \/ CallbackFails(registers)
           \/ \E answer \in Answers : CallbackAnswers(registers, answer)
    BY <1>1
  <2>2. Calls(registers)
    BY <2>1 DEF CallbackFails, CallbackAnswers
  <2>3. script \in Scripts /\ index \in 1..MaxSlots
    BY <2>2, RunningSlot DEF RunInv, Slots
  <2>4. slots[script][index] = "fn"
    BY <2>2 DEF Calls
  <2>5. <<script, index>> \notin failed
    BY <2>3, <2>4 DEF RunInv, FailedAreOff
  <2>6. history'.called = history.called \union {<<script, index>>}
    BY <2>1 DEF CallbackFails, CallbackAnswers, RunInv, IInv, TypeOK
  <2> QED
    BY <2>5, <2>6
<1>2. CASE \/ BeginScript \/ SkipDisabled \/ EndScript \/ BeginRolls \/ Panic
           \/ \E s \in Scripts : Reload(s)
           \/ UNCHANGED vars
  <2>1. history' = history
    BY <1>2 DEF BeginScript, SkipDisabled, EndScript, BeginRolls, Panic, Reload, vars
  <2> QED
    BY <2>1
<1>3. CASE Return \/ \E c \in Chances, valid \in BOOLEAN : Enter(c, valid)
  <2>1. history'.called = {}
    BY <1>3 DEF Return, Enter, NoHistory
  <2> QED
    BY <2>1
<1>4. CASE \E hit \in BOOLEAN : NativeRoll(hit)
  <2>1. history'.called = history.called
    BY <1>4 DEF NativeRoll, RunInv, IInv, TypeOK
  <2> QED
    BY <2>1
<1> QED
  BY <1>1, <1>2, <1>3, <1>4 DEF Next, Step

\* Every callback enabled when the call began has run when the modifiers are
\* complete, whatever failed or was registered on the way, and no other ran.
THEOREM CallbacksCorrect == Spec => []EveryEnabledCallbackRuns
<1>1. RunInv => EveryEnabledCallbackRuns
  <2> SUFFICES ASSUME RunInv PROVE EveryEnabledCallbackRuns
    OBVIOUS
  <2>1. history.called \subseteq history.expected /\ history.expected \subseteq Slots
    BY DEF RunInv, OnlyExpected, IInv, TypeOK
  <2>2. ASSUME Accumulated PROVE history.expected \subseteq history.called
    <3> SUFFICES ASSUME NEW s \in Scripts, NEW k \in 1..MaxSlots, <<s, k>> \in history.expected
                 PROVE  <<s, k>> \in history.called
      BY <2>1 DEF Slots
    <3>1. pc = "script" /\ script > NumScripts /\ script \in Int
      BY <2>2 DEF Accumulated, RunInv, IInv, TypeOK
    <3>2. Passed(s, k)
      BY <3>1, CorridorAssumption DEF Passed, Scripts
    <3> QED
      BY <3>1, <3>2 DEF RunInv, PassedHaveRun
  <2> QED
    BY <2>1, <2>2 DEF EveryEnabledCallbackRuns
<1> QED
  BY <1>1, InitRunInv, StepRunInv, PTL DEF Spec

\* A callback that failed is never called again before its script is reloaded.
THEOREM FailedCorrect == Spec => FailedNeverRunsAgain
<1>1. RunInv /\ [Next]_vars =>
        [(history'.called \ history.called) \intersect failed = {}]_vars
  BY CalledIsOn
<1> QED
  BY <1>1, InitRunInv, StepRunInv, PTL DEF Spec, FailedNeverRunsAgain
===============================================================================
