------------------------------ MODULE DotLedger ------------------------------
(* What LUA_API.md promises of actor:defer_dot, without queue, lock or order:  *)
(* a bounded set of pending ticks. Asking again for a pending tick changes     *)
(* nothing, and every pending tick leaves the set once, at a boundary of its   *)
(* battle.                                                                     *)
EXTENDS Naturals, FiniteSets

CONSTANTS
    Ticks,      \* the requests [battle, actor, dot] that scripts can make
    Battles,    \* the battles whose action-end boundaries are reached
    Capacity    \* how many ticks may be pending

VARIABLES pending, boundary

Init == pending = {} /\ boundary = {}

\* A new request is accepted while there is room.
Accept(tick) ==
    /\ tick \notin pending
    /\ Cardinality(pending) < Capacity
    /\ pending' = pending \union {tick}
    /\ UNCHANGED boundary

\* One battle at a time reaches its boundary.
Open(battle) == boundary = {} /\ boundary' = {battle} /\ UNCHANGED pending

\* A pending tick is handed to the engine, in the boundary of its own battle.
HandOver(tick) ==
    /\ tick \in pending
    /\ tick.battle \in boundary
    /\ pending' = pending \ {tick}
    /\ UNCHANGED boundary

\* The boundary closes when nothing of its battle is pending any more.
Close ==
    /\ \A tick \in pending : tick.battle \notin boundary
    /\ boundary' = {}
    /\ UNCHANGED pending

Next ==
    \/ \E tick \in Ticks : Accept(tick) \/ HandOver(tick)
    \/ \E battle \in Battles : Open(battle)
    \/ Close

Spec == Init /\ [][Next]_<<pending, boundary>>
=============================================================================
