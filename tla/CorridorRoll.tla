----------------------------- MODULE CorridorRoll -----------------------------
(* The corridor-return roll: hooked_corridor_return (game_bridge.cpp) asks    *)
(* dispatch_corridor_return_roll (core.cpp) to run every registered callback  *)
(* of every script, accumulates what they return and repeats the native roll. *)
(*                                                                            *)
(* Chances and multiplier deltas are fixed-point integers: Scale stands for   *)
(* 1.0. A callback raises an error or answers with a record: nil, a wrong     *)
(* type and an invalid delta are delta 0, an invalid extra_rolls is -1.       *)
EXTENDS Integers, Sequences

CONSTANTS
    NumScripts,  \* scripts with a Lua state, in dispatch order
    MaxSlots,    \* bound: callbacks registered by one script
    Scale,       \* the integer that stands for 1.0
    Chances,     \* native chances the engine rolls with
    Deltas,      \* chance_multiplier_delta values callbacks return
    Extras,      \* extra_rolls values callbacks return; -1 is an invalid one
    Unprotected  \* TRUE: a callback may return a table whose metamethod raises

Scripts == 1..NumScripts
MaxExtra == 4
FullChance == Scale * Scale   \* 1.0 as a product of a chance and a multiplier
Answers == [delta : Deltas, extra : Extras]
SlotLists == {table \in Seq({"fn", "off"}) : Len(table) <= MaxSlots}
Slots == Scripts \X (1..MaxSlots)

ASSUME CorridorAssumption ==
    /\ NumScripts \in Nat
    /\ MaxSlots \in Nat
    /\ Scale \in Nat \ {0}
    /\ Chances \subseteq 0..Scale
    /\ Deltas \subseteq Int
    /\ Extras \subseteq Nat \union {-1}
    /\ Unprotected \in BOOLEAN

Lesser(a, b) == IF a <= b THEN a ELSE b
Clamp(x, low, high) == IF x < low THEN low ELSE IF x > high THEN high ELSE x

VARIABLES
    slots,     \* [Scripts -> SlotLists]: each script's corridor_return_roll table
    pc,        \* "idle", "script", "call", "roll", "passthrough" or "panicked"
    script,    \* the script the dispatch has reached
    count,     \* rawlen of its table, read before its loop
    index,     \* the loop index
    chance,    \* the chance of the call in progress
    total,     \* CorridorModifiers accumulated so far
    rollsLeft, \* native calls still to make
    placed,    \* what the hook will return
    failed,    \* history: callbacks that failed since their script was loaded
    history    \* of the call in progress, read by the properties only:
               \*   expected  callbacks that were enabled when it began
               \*   called    callbacks that ran
               \*   delta     exact sum of the deltas answered
               \*   seen      "up", "down": a delta of that sign was answered;
               \*             "clamped": an addition left the range
               \*   extra     exact sum of the valid extra rolls answered
               \*   rolls     native calls made
               \*   hits      native calls that placed something

at == <<script, count, index>>
vars == <<slots, pc, script, count, index, chance, total, rollsLeft, placed,
          failed, history>>

TypeOK ==
    /\ slots \in [Scripts -> SlotLists]
    /\ pc \in {"idle", "script", "call", "roll", "passthrough", "panicked"}
    /\ script \in 1..NumScripts + 1
    /\ count \in 0..MaxSlots
    /\ index \in 1..MaxSlots + 1
    /\ chance \in 0..FullChance
    /\ total \in [delta : -Scale..7 * Scale, extra : 0..MaxExtra]
    /\ rollsLeft \in 0..MaxExtra + 1
    /\ placed \in BOOLEAN
    /\ failed \subseteq Slots
    /\ history \in [expected : SUBSET Slots, called : SUBSET Slots, delta : Int,
                   seen : SUBSET {"up", "down", "clamped"}, extra : Nat,
                   rolls : 0..MaxExtra + 1, hits : 0..MaxExtra + 1]

NoModifiers == [delta |-> 0, extra |-> 0]

NoHistory == [expected |-> {}, called |-> {}, delta |-> 0, seen |-> {},
              extra |-> 0, rolls |-> 0, hits |-> 0]

Init ==
    /\ slots \in [Scripts -> UNION {[1..n -> {"fn"}] : n \in 0..MaxSlots}]
    /\ pc = "idle"
    /\ script = 1
    /\ count = 0
    /\ index = 1
    /\ chance = 0
    /\ total = NoModifiers
    /\ rollsLeft = 0
    /\ placed = FALSE
    /\ failed = {}
    /\ history = NoHistory

Enabled == {slot \in Slots : slot[2] \in DOMAIN slots[slot[1]] /\ slots[slot[1]][slot[2]] = "fn"}

\* A successful hot reload gives the script a fresh callback table.
Reload(s) ==
    /\ pc = "idle"
    /\ \E n \in 0..MaxSlots : slots' = [slots EXCEPT ![s] = [i \in 1..n |-> "fn"]]
    /\ failed' = {slot \in failed : slot[1] # s}
    /\ UNCHANGED <<pc, at, chance, total, rollsLeft, placed, history>>

-----------------------------------------------------------------------------
\* The engine calls the hook. Without a callback, a known content, a raid and
\* a readable torchlight the native roll is made once, as it was asked for.
Enter(c, valid) ==
    /\ pc = "idle"
    /\ pc' = IF valid THEN "script" ELSE "passthrough"
    /\ chance' = c * Scale
    /\ rollsLeft' = IF valid THEN 0 ELSE 1
    /\ history' = [NoHistory EXCEPT !.expected = IF valid THEN Enabled ELSE {}]
    /\ UNCHANGED <<slots, at, total, placed, failed>>

BeginScript ==
    /\ pc = "script"
    /\ script \in Scripts
    /\ pc' = "call"
    /\ count' = Len(slots[script])
    /\ index' = 1
    /\ UNCHANGED <<slots, script, chance, total, rollsLeft, placed, failed, history>>

SkipDisabled ==
    /\ pc = "call"
    /\ index <= count
    /\ slots[script][index] = "off"
    /\ index' = index + 1
    /\ UNCHANGED <<slots, pc, script, count, chance, total, rollsLeft, placed, failed, history>>

\* What one answer adds to the accumulated modifiers. The delta is clamped at
\* every addition, extra_rolls saturate at 4.
AddDelta_Unclamped(answer) == total.delta + answer.delta   \* mutant: no clamp here
AddDelta_Dropped(answer) ==                    \* mutant: not added when it leaves the range
    IF total.delta + answer.delta \in -Scale..7 * Scale
      THEN total.delta + answer.delta ELSE total.delta
AddDelta(answer) == Clamp(total.delta + answer.delta, -Scale, 7 * Scale)

\* What the addition shows of the order the deltas are added in.
Seen(answer) ==
    {kind \in {"up", "down", "clamped"} :
       \/ kind = "up" /\ answer.delta > 0
       \/ kind = "down" /\ answer.delta < 0
       \/ kind = "clamped" /\ total.delta + answer.delta \notin -Scale..7 * Scale}

AddExtra(answer) ==
    IF answer.extra >= 0
      THEN Lesser(MaxExtra, total.extra + Lesser(answer.extra, MaxExtra))
      ELSE total.extra

\* Where a failing callback leaves the loop: at the next one.
AfterError_Breaks == count + 1                 \* mutant: break for continue
AfterError == index + 1

\* The callback may itself call dd.on, which appends to its script's table.
AfterCall(registers) ==
    IF registers THEN Append(slots[script], "fn") ELSE slots[script]

Calls(registers) ==
    /\ pc = "call"
    /\ index <= count
    /\ slots[script][index] = "fn"
    /\ registers => Len(slots[script]) < MaxSlots

CallbackAnswers(registers, answer) ==
    /\ Calls(registers)
    /\ slots' = [slots EXCEPT ![script] = AfterCall(registers)]
    /\ index' = index + 1
    /\ total' = [delta |-> AddDelta(answer), extra |-> AddExtra(answer)]
    /\ history' = [history EXCEPT
                     !.called = @ \union {<<script, index>>},
                     !.delta = @ + answer.delta,
                     !.seen = @ \union Seen(answer),
                     !.extra = IF answer.extra >= 0 THEN @ + answer.extra ELSE @]
    /\ UNCHANGED <<pc, script, count, chance, rollsLeft, placed, failed>>

\* The failing callback's slot becomes false, which keeps the table's length.
Disabled_None(table) == table                  \* mutant: the slot is left alone
Disabled(table) == [table EXCEPT ![index] = "off"]

CallbackFails(registers) ==
    /\ Calls(registers)
    /\ slots' = [slots EXCEPT ![script] = Disabled(AfterCall(registers))]
    /\ index' = AfterError
    /\ history' = [history EXCEPT !.called = @ \union {<<script, index>>}]
    /\ failed' = failed \union {<<script, index>>}
    /\ UNCHANGED <<pc, script, count, chance, total, rollsLeft, placed>>

\* The answer's fields are read with lua_getfield outside lua_pcall: an __index
\* metamethod that raises has no handler and Lua's panic ends the process.
Panic ==
    /\ Unprotected
    /\ pc = "call"
    /\ index <= count
    /\ slots[script][index] = "fn"
    /\ pc' = "panicked"
    /\ UNCHANGED <<slots, at, chance, total, rollsLeft, placed, failed, history>>

EndScript ==
    /\ pc = "call"
    /\ index > count
    /\ pc' = "script"
    /\ script' = script + 1
    /\ UNCHANGED <<slots, count, index, chance, total, rollsLeft, placed, failed, history>>

-----------------------------------------------------------------------------
\* Back in the hook: the adjusted chance and the number of rolls.
RollsFor_ExtraOnly == Lesser(total.extra, MaxExtra)   \* mutant: < for <=
RollsFor == Lesser(total.extra, MaxExtra) + 1

BeginRolls ==
    /\ pc = "script"
    /\ script > NumScripts
    /\ pc' = "roll"
    /\ LET multiplier == Clamp(Scale + total.delta, 0, 8 * Scale) IN
       chance' = Clamp((chance \div Scale) * multiplier, 0, FullChance)
    /\ rollsLeft' = RollsFor
    /\ UNCHANGED <<slots, at, total, placed, failed, history>>

\* One call of the native function, which places something or not.
Placed_LastRoll(hit) == hit                    \* mutant: the last roll decides
Placed(hit) == hit \/ placed

NativeRoll(hit) ==
    /\ pc \in {"roll", "passthrough"}
    /\ rollsLeft > 0
    /\ rollsLeft' = rollsLeft - 1
    /\ placed' = Placed(hit)
    /\ history' = [history EXCEPT !.rolls = @ + 1,
                                  !.hits = IF hit THEN @ + 1 ELSE @]
    /\ UNCHANGED <<slots, pc, at, chance, total, failed>>

Return ==
    /\ pc \in {"roll", "passthrough"}
    /\ rollsLeft = 0
    /\ pc' = "idle"
    /\ script' = 1
    /\ count' = 0
    /\ index' = 1
    /\ chance' = 0
    /\ total' = NoModifiers
    /\ placed' = FALSE
    /\ history' = NoHistory
    /\ UNCHANGED <<slots, rollsLeft, failed>>

Step ==
    \/ BeginScript \/ SkipDisabled \/ EndScript \/ BeginRolls \/ Return \/ Panic
    \/ \E registers \in BOOLEAN :
          \/ CallbackFails(registers)
          \/ \E answer \in Answers : CallbackAnswers(registers, answer)
    \/ \E hit \in BOOLEAN : NativeRoll(hit)

Next ==
    \/ Step
    \/ \E s \in Scripts : Reload(s)
    \/ \E c \in Chances, valid \in BOOLEAN : Enter(c, valid)

Spec == Init /\ [][Next]_vars

-----------------------------------------------------------------------------
(* Properties.                                                               *)

Returned == pc \in {"roll", "passthrough"} /\ rollsLeft = 0
Accumulated == pc = "script" /\ script > NumScripts

\* The native function runs once per call plus once per extra roll asked for
\* by all scripts together, at most four: saturating answer by answer gives
\* the same number as capping the sum, and a hit does not stop the loop.
RollsAreCappedSum ==
    Returned => history.rolls = 1 + Lesser(MaxExtra, history.extra)

\* The hook reports a placement exactly when one of the native rolls placed.
PlacedIffSomeRollPlaced == placed <=> history.hits > 0

\* Every callback enabled when the call began runs in it, whether others fail
\* before it or register more; callbacks registered meanwhile wait for the next
\* call.
EveryEnabledCallbackRuns ==
    /\ Accumulated => history.called = history.expected
    /\ history.called \subseteq history.expected

\* A callback that failed is never called again before its script is reloaded,
\* whatever is registered after it and however many calls follow.
FailedNeverRunsAgain ==
    [][(history'.called \ history.called) \intersect failed = {}]_vars

\* The order of the mods matters in one case only: deltas of both signs were
\* answered and an addition left the range. Otherwise clamping after every
\* callback, as dispatch_corridor_return_roll does, gives the clamped sum of all
\* deltas, whatever their order, the failures between them and the callbacks
\* registered meanwhile.
DeltasAddUnlessMixed ==
    \/ total.delta = Clamp(history.delta, -Scale, 7 * Scale)
    \/ history.seen = {"up", "down", "clamped"}

\* LUA_API.md: deltas from all mods add together before the final clamp.
DeltasAddBeforeClamp ==
    Accumulated => total.delta = Clamp(history.delta, -Scale, 7 * Scale)
=============================================================================
