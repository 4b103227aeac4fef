----------------------------- MODULE DeferredDots -----------------------------
(* trigger_dot, defer_dot and flush_deferred_dots of game_bridge.cpp: the      *)
(* queue of deferred damage-over-time ticks under its SRW lock, and the nested *)
(* calls that reach it. A native tick may resolve further effects, run further *)
(* Lua callbacks and reach a further action end before it returns, so each     *)
(* thread has a stack of frames; the lock is exclusive and not recursive.      *)
EXTENDS Naturals, Sequences, FiniteSets

CONSTANTS
    Threads,     \* threads that call into the bridge
    Battles, Actors,
    Dots,        \* the DoT names that have a tick and a predicate in the profile;
                 \* for any other both primitives return false at once
    Capacity,    \* kMaximumDeferredDots (64)
    MaxDepth,    \* bound: frames on each thread's stack
    MaxAccepted, \* bound: requests accepted in one behaviour
    Nobody       \* the holder of a free lock

Ticks == [battle : Battles, actor : Actors, dot : Dots]
Requests == [tick : Ticks, serial : Nat]
Kinds == {"callback", "defer", "flush", "scan", "deliver", "native"}

ASSUME DotsAssumption ==
    /\ Capacity \in Nat
    /\ MaxDepth \in [Threads -> Nat]
    /\ MaxAccepted \in Nat
    /\ Nobody \notin Threads

VARIABLES
    queue,     \* g_deferred_dots, each request with its acceptance number
    lock,      \* the holder of g_deferred_lock
    stack,     \* [Threads -> frames, the innermost first]
    status,    \* the <<actor, dot>> pairs the native predicates report
    accepted,  \* history: requests accepted so far
    finished   \* history: accepted requests ticked or dropped at a boundary

vars == <<queue, lock, stack, status, accepted, finished>>

\* A frame: the battle it works for and, by kind, the tick a "defer" asks for,
\* the loop index of a "scan", the local vector of a "scan" or a "deliver".
Frame(kind, battle, tick, i, ready) ==
    [kind |-> kind, battle |-> battle, tick |-> tick, i |-> i, ready |-> ready]
Plain(kind, battle) == Frame(kind, battle, <<>>, 1, <<>>)

Top(t) == Head(stack[t])
Running(t, kind) == stack[t] # <<>> /\ Top(t).kind = kind
Native(t) == stack[t] = <<>> \/ Running(t, "native")
Push(t, frame) == stack' = [stack EXCEPT ![t] = <<frame>> \o @]
Pop(t) == stack' = [stack EXCEPT ![t] = Tail(@)]
Replace(t, frame) == stack' = [stack EXCEPT ![t] = <<frame>> \o Tail(@)]

TypeOK ==
    /\ queue \in Seq(Requests)
    /\ lock \in Threads \union {Nobody}
    /\ \A t \in Threads : \A n \in DOMAIN stack[t] :
          LET frame == stack[t][n] IN
          /\ frame.kind \in Kinds
          /\ frame.battle \in Battles
          /\ frame.tick \in Ticks \union {<<>>}
          /\ frame.i \in Nat \ {0}
          /\ frame.ready \in Seq(Requests)
    /\ status \subseteq Actors \X Dots
    /\ accepted \in Nat
    /\ finished \subseteq Nat

Init ==
    /\ queue = <<>>
    /\ lock = Nobody
    /\ stack = [t \in Threads |-> <<>>]
    /\ status \in SUBSET (Actors \X Dots)
    /\ accepted = 0
    /\ finished = {}

history == <<accepted, finished>>

-----------------------------------------------------------------------------
(* The engine. It runs when a thread's innermost frame is native code.        *)

\* Statuses come and go as native code runs.
StatusChange(actor, dot) ==
    /\ \E t \in Threads : Native(t)
    /\ status' = IF <<actor, dot>> \in status THEN status \ {<<actor, dot>>}
                                              ELSE status \union {<<actor, dot>>}
    /\ UNCHANGED <<queue, lock, stack, history>>

\* An effect is applied and a script's handler runs.
EnterCallback(t, battle) ==
    /\ Native(t)
    /\ Len(stack[t]) < MaxDepth[t]
    /\ Push(t, Plain("callback", battle))
    /\ UNCHANGED <<queue, lock, status, history>>

\* hooked_state_transition after the native transition reached the action end;
\* any other transition does nothing here.
ActionEnd(t, battle) ==
    /\ Native(t)
    /\ Len(stack[t]) < MaxDepth[t]
    /\ Push(t, Plain("flush", battle))
    /\ UNCHANGED <<queue, lock, status, history>>

\* A handler or a native tick returns to the frame that called it.
ReturnFrom(t, kind) ==
    /\ kind \in {"callback", "native"}
    /\ Running(t, kind)
    /\ Pop(t)
    /\ UNCHANGED <<queue, lock, status, history>>

-----------------------------------------------------------------------------
(* The two primitives, called from a handler.                                 *)

HasStatus(tick) == <<tick.actor, tick.dot>> \in status

\* trigger_dot returns false unless the status is present now.
TriggerDot(t, actor, dot) ==
    /\ Running(t, "callback")
    /\ Len(stack[t]) < MaxDepth[t]
    /\ <<actor, dot>> \in status
    /\ Push(t, Plain("native", Top(t).battle))
    /\ UNCHANGED <<queue, lock, status, history>>

\* defer_dot asks nothing of the status.
DeferDot(t, actor, dot) ==
    /\ Running(t, "callback")
    /\ Len(stack[t]) < MaxDepth[t]
    /\ accepted < MaxAccepted
    /\ Push(t, Frame("defer", Top(t).battle,
               [battle |-> Top(t).battle, actor |-> actor, dot |-> dot], 1, <<>>))
    /\ UNCHANGED <<queue, lock, status, history>>

\* defer_dot's test for a pending request of the same battle, actor and DoT.
Duplicate_Never(tick) == FALSE                 \* mutant: no coalescing
Duplicate(tick) == \E i \in DOMAIN queue : queue[i].tick = tick

HasRoom == Len(queue) < Capacity

\* defer_dot's critical section: nothing else touches the queue inside it. The
\* call succeeds for a new request and for a duplicate, and fails when full.
DeferLocked(t) ==
    /\ Running(t, "defer")
    /\ lock = Nobody
    /\ IF ~Duplicate(Top(t).tick) /\ HasRoom
         THEN /\ accepted' = accepted + 1
              /\ queue' = Append(queue, [tick |-> Top(t).tick, serial |-> accepted + 1])
         ELSE UNCHANGED <<queue, accepted>>
    /\ Pop(t)
    /\ UNCHANGED <<lock, status, finished>>

-----------------------------------------------------------------------------
(* flush_deferred_dots: take the battle's requests under the lock, tick them   *)
(* after releasing it.                                                         *)

FlushLock(t) ==
    /\ Running(t, "flush")
    /\ lock = Nobody
    /\ lock' = t
    /\ Replace(t, Plain("scan", Top(t).battle))
    /\ UNCHANGED <<queue, status, history>>

RemoveAt(seq, i) == SubSeq(seq, 1, i - 1) \o SubSeq(seq, i + 1, Len(seq))

\* The iterator after an erase stays where it is.
IndexAfterErase_Back(i) == i - 1               \* mutant: steps back
IndexAfterErase_Skips(i) == i + 1              \* mutant: ++it after erase
IndexAfterErase(i) == i

ReadyAfter(ready, request) == Append(ready, request)

FlushScan(t) ==
    /\ Running(t, "scan")
    /\ LET frame == Top(t) IN
       /\ frame.i <= Len(queue)
       /\ IF queue[frame.i].tick.battle = frame.battle
            THEN /\ queue' = RemoveAt(queue, frame.i)
                 /\ Replace(t, [frame EXCEPT !.i = IndexAfterErase(@),
                                  !.ready = ReadyAfter(@, queue[frame.i])])
            ELSE Replace(t, [frame EXCEPT !.i = @ + 1]) /\ UNCHANGED queue
    /\ UNCHANGED <<lock, status, history>>

LockAfterScan_Kept(t) == t                     \* mutant: released after the ticks
LockAfterScan(t) == Nobody

FlushUnlock(t) ==
    /\ Running(t, "scan")
    /\ Top(t).i > Len(queue)
    /\ lock' = LockAfterScan(t)
    /\ Replace(t, [Top(t) EXCEPT !.kind = "deliver", !.i = 1])
    /\ UNCHANGED <<queue, status, history>>

\* One request of the local vector: its predicate is asked again, its native
\* tick runs on top of this frame.
ReadyLeft_SkippedStays(frame, ticks) ==        \* mutant: index kept when skipped
    IF ticks THEN Tail(frame.ready) ELSE frame.ready
ReadyLeft(frame, ticks) == Tail(frame.ready)

FlushDeliver(t) ==
    /\ Running(t, "deliver")
    /\ LET frame == Top(t) IN
       /\ frame.ready # <<>>
       /\ LET request == Head(frame.ready)
              ticks == HasStatus(request.tick)
              rest == [frame EXCEPT !.ready = ReadyLeft(frame, ticks)]
          IN /\ finished' = finished \union {request.serial}
             /\ stack' = [stack EXCEPT ![t] =
                   IF ticks THEN <<Plain("native", frame.battle), rest>> \o Tail(@)
                            ELSE <<rest>> \o Tail(@)]
    /\ UNCHANGED <<queue, lock, status, accepted>>

FlushReturn(t) ==
    /\ Running(t, "deliver")
    /\ Top(t).ready = <<>>
    /\ Pop(t)
    /\ UNCHANGED <<queue, lock, status, history>>

-----------------------------------------------------------------------------
Step(t) ==
    \/ \E battle \in Battles : EnterCallback(t, battle) \/ ActionEnd(t, battle)
    \/ \E kind \in Kinds : ReturnFrom(t, kind)
    \/ \E actor \in Actors, dot \in Dots : TriggerDot(t, actor, dot) \/ DeferDot(t, actor, dot)
    \/ DeferLocked(t) \/ FlushLock(t) \/ FlushScan(t) \/ FlushUnlock(t)
    \/ FlushDeliver(t) \/ FlushReturn(t)

Next ==
    \/ \E t \in Threads : Step(t)
    \/ \E actor \in Actors, dot \in Dots : StatusChange(actor, dot)

Spec == Init /\ [][Next]_vars

-----------------------------------------------------------------------------
(* Properties.                                                               *)

Frames(t) == {stack[t][n] : n \in DOMAIN stack[t]}
Queued == {queue[i].serial : i \in DOMAIN queue}
InFlight == UNION {{frame.ready[i].serial : i \in DOMAIN frame.ready} :
                      frame \in UNION {Frames(t) : t \in Threads}}

Increasing(requests) ==
    \A i, j \in DOMAIN requests : i < j => requests[i].serial < requests[j].serial

\* Of the same battle, everything in `older` was accepted before all of `newer`.
Precedes(older, newer) ==
    \A i \in DOMAIN older, j \in DOMAIN newer :
        older[i].tick.battle = newer[j].tick.battle => older[i].serial < newer[j].serial

\* Every accepted request is in exactly one place: still queued, in the local
\* vector of a running flush, or finished. None is lost or delivered twice
\* however flushes, ticks and handlers nest. Each flush delivers in the order of
\* acceptance, and all it took is older than what is queued of its battle.
\* Between flushes there is no such order: a tick whose handler defers again and
\* reaches another boundary of the battle has the newer requests delivered
\* there, before the outer flush's remaining, older ones.
AcceptedOnceInOrder ==
    /\ 1..accepted = Queued \union InFlight \union finished
    /\ Queued \intersect InFlight = {}
    /\ Queued \intersect finished = {}
    /\ InFlight \intersect finished = {}
    /\ Increasing(queue)
    /\ \A t \in Threads :
          /\ \A frame \in Frames(t) : Increasing(frame.ready) /\ Precedes(frame.ready, queue)
          /\ \A outer, inner \in DOMAIN stack[t] : inner < outer =>
                Precedes(stack[t][outer].ready, stack[t][inner].ready)

\* Repeated requests for the same battle, actor and DoT are coalesced while one
\* is pending.
Coalesced ==
    \A i, j \in DOMAIN queue : queue[i].tick = queue[j].tick => i = j

\* The lock is held only while a flush moves requests: never while native code
\* or a handler runs, whose own defer_dot or nested flush would wait for itself.
LockOnlyWhileScanning ==
    \A t \in Threads : (lock = t) <=> Running(t, "scan")

\* The queue implements the ledger: the set of pending ticks is bounded, grows
\* by new requests only and is emptied of a battle's ticks by its boundary.
Ledger == INSTANCE DotLedger WITH
    pending <- {queue[i].tick : i \in DOMAIN queue},
    boundary <- IF lock = Nobody THEN {} ELSE {Top(lock).battle}
ImplementsLedger == Ledger!Spec
=============================================================================
