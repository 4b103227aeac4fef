-------------------------- MODULE DeferredDotsProofs --------------------------
(* TLAPS proofs about DeferredDots, for any number of threads, battles, actors *)
(* and DoTs, any capacity and any nesting.                                     *)
EXTENDS DeferredDots, CallStackLemmas, FiniteSetTheorems

FrameSet == [kind : Kinds, battle : Battles, tick : Ticks \union {<<>>},
             i : Nat \ {0}, ready : Seq(Requests)]

Typed ==
    /\ queue \in Seq(Requests)
    /\ lock \in Threads \union {Nobody}
    /\ stack \in [Threads -> Seq(FrameSet)]
    /\ status \subseteq Actors \X Dots
    /\ accepted \in Nat
    /\ finished \subseteq Nat

\* The frames of a thread, numbered from the outermost call.
Level(t) == Len(stack[t])
At(t, d) == FromBottom(stack[t], d)
Vector(t, d) == IF d \in 1..Level(t) THEN At(t, d).ready ELSE <<>>

\* Only flushes hold requests, only the innermost frame scans, under the lock.
Shapes ==
    \A t \in Threads : \A d \in 1..Level(t) :
        /\ At(t, d).kind = "defer" => At(t, d).tick \in Ticks
        /\ At(t, d).kind \notin {"scan", "deliver"} => At(t, d).ready = <<>>
        /\ At(t, d).kind = "scan" => d = Level(t) /\ lock = t

LockHeld == lock \in Threads => Running(lock, "scan")

\* What a scan has passed is of other battles; what it has taken is older than
\* everything it has not reached.
ScanProgress ==
    \A t \in Threads : Running(t, "scan") =>
        \A k \in DOMAIN queue :
            /\ k < Top(t).i => queue[k].tick.battle # Top(t).battle
            /\ k >= Top(t).i =>
                 \A j \in DOMAIN Top(t).ready : Top(t).ready[j].serial < queue[k].serial

\* Where the accepted requests are, frame by frame.
Held == {n \in Nat : \E t \in Threads, d \in Nat :
                       \E j \in DOMAIN Vector(t, d) : Vector(t, d)[j].serial = n}
HeldOnce ==
    \A t, u \in Threads : \A d, e \in Nat :
        \A j \in DOMAIN Vector(t, d), k \in DOMAIN Vector(u, e) :
            Vector(t, d)[j].serial = Vector(u, e)[k].serial => t = u /\ d = e
InOrder ==
    /\ Increasing(queue)
    /\ \A t \in Threads : \A d \in Nat : Increasing(Vector(t, d))
Accounted ==
    /\ 1..accepted = Queued \union Held \union finished
    /\ Queued \intersect Held = {}
    /\ Queued \intersect finished = {}
    /\ Held \intersect finished = {}
\* What a flush took is older than what is queued of its battle, and than what
\* the flushes nested inside it took later.
Batches ==
    /\ \A t \in Threads : \A d \in Nat : Precedes(Vector(t, d), queue)
    /\ \A t \in Threads : \A d, e \in Nat : d < e => Precedes(Vector(t, d), Vector(t, e))
Books == Accounted /\ HeldOnce /\ InOrder /\ Batches

IInv == Typed /\ Shapes /\ LockHeld /\ ScanProgress /\ Books /\ Coalesced

-----------------------------------------------------------------------------
(* Frames and what an action does to them.                                   *)

\* Every numbered frame is a frame of the model, every vector a sequence.
LEMMA StackFacts ==
    ASSUME Typed, NEW t \in Threads
    PROVE  /\ stack[t] \in Seq(FrameSet)
           /\ Level(t) \in Nat
           /\ \A d \in 1..Level(t) : At(t, d) \in FrameSet
           /\ \A d \in Nat : Vector(t, d) \in Seq(Requests)
<1>1. stack[t] \in Seq(FrameSet)
  BY DEF Typed
<1>2. Level(t) \in Nat /\ \A d \in 1..Level(t) : At(t, d) \in FrameSet
  BY <1>1, NumberedFrames DEF Level, At
<1>3. \A d \in Nat : Vector(t, d) \in Seq(Requests)
  BY <1>2 DEF Vector, FrameSet
<1> QED BY <1>1, <1>2, <1>3

\* A thread that runs a kind of code has a frame of that kind innermost.
LEMMA RunningTop ==
    ASSUME Typed, NEW t \in Threads, NEW kind, Running(t, kind)
    PROVE  /\ stack[t] # <<>>
           /\ Level(t) \in Nat
           /\ Level(t) \in 1..Level(t)
           /\ Top(t) = At(t, Level(t))
           /\ Top(t) \in FrameSet
           /\ Top(t).kind = kind
           /\ Vector(t, Level(t)) = Top(t).ready
<1>1. stack[t] \in Seq(FrameSet) /\ stack[t] # <<>> /\ Top(t).kind = kind
  BY StackFacts DEF Running
<1>2. /\ Level(t) \in Nat
      /\ Level(t) >= 1
      /\ Top(t) = At(t, Level(t))
      /\ Top(t) \in FrameSet
  BY <1>1, TopFrame DEF Top, Level, At
<1> QED BY <1>1, <1>2 DEF Vector

\* A pushed frame is on top, the frames below it are untouched.
LEMMA PushStep ==
    ASSUME Typed, NEW t \in Threads, NEW f \in FrameSet, Push(t, f)
    PROVE  /\ stack' \in [Threads -> Seq(FrameSet)]
           /\ stack'[t] # <<>>
           /\ Top(t)' = f
           /\ Level(t)' = Level(t) + 1
           /\ FromBottom(stack'[t], Level(t) + 1) = f
           /\ \A d \in 1..Level(t) : At(t, d)' = At(t, d)
           /\ \A u \in Threads : u # t => stack'[u] = stack[u]
<1>1. stack \in [Threads -> Seq(FrameSet)] /\ stack[t] \in Seq(FrameSet)
  BY DEF Typed
<1>2. /\ stack' = [stack EXCEPT ![t] = <<f>> \o stack[t]]
      /\ stack'[t] = <<f>> \o stack[t]
  BY <1>1 DEF Push
<1>3. <<f>> \o stack[t] \in Seq(FrameSet)
  BY <1>1, PushFrame
<1>4. stack' \in [Threads -> Seq(FrameSet)] /\ \A u \in Threads : u # t => stack'[u] = stack[u]
  BY <1>1, <1>2, <1>3
<1>5. /\ stack'[t] # <<>>
      /\ Head(stack'[t]) = f
      /\ Len(stack'[t]) = Len(stack[t]) + 1
      /\ FromBottom(stack'[t], Len(stack[t]) + 1) = f
      /\ \A d \in 1..Len(stack[t]) : FromBottom(stack'[t], d) = FromBottom(stack[t], d)
  BY <1>1, <1>2, PushFrame
<1> QED BY <1>4, <1>5 DEF Top, Level, At

\* A return removes the innermost frame only.
LEMMA PopStep ==
    ASSUME Typed, NEW t \in Threads, stack[t] # <<>>, Pop(t)
    PROVE  /\ stack' \in [Threads -> Seq(FrameSet)]
           /\ Level(t) \in Nat
           /\ Level(t) >= 1
           /\ Level(t)' = Level(t) - 1
           /\ \A d \in 1..(Level(t) - 1) : At(t, d)' = At(t, d)
           /\ \A u \in Threads : u # t => stack'[u] = stack[u]
<1>1. stack \in [Threads -> Seq(FrameSet)] /\ stack[t] \in Seq(FrameSet)
  BY DEF Typed
<1>2. /\ stack' = [stack EXCEPT ![t] = Tail(stack[t])]
      /\ stack'[t] = Tail(stack[t])
  BY <1>1 DEF Pop
<1>3. /\ Tail(stack[t]) \in Seq(FrameSet)
      /\ Len(Tail(stack[t])) = Len(stack[t]) - 1
      /\ \A d \in 1..Len(Tail(stack[t])) : FromBottom(Tail(stack[t]), d) = FromBottom(stack[t], d)
  BY <1>1, PopFrame
<1>4. Len(stack[t]) \in Nat /\ Len(stack[t]) >= 1
  BY <1>1, TopFrame
<1>5. stack' \in [Threads -> Seq(FrameSet)] /\ \A u \in Threads : u # t => stack'[u] = stack[u]
  BY <1>1, <1>2, <1>3
<1> QED BY <1>2, <1>3, <1>4, <1>5 DEF Level, At

\* A call that goes on changes its own frame only.
LEMMA ReplaceStep ==
    ASSUME Typed, NEW t \in Threads, stack[t] # <<>>, NEW f \in FrameSet, Replace(t, f)
    PROVE  /\ stack' \in [Threads -> Seq(FrameSet)]
           /\ stack'[t] # <<>>
           /\ Top(t)' = f
           /\ Level(t) \in Nat
           /\ Level(t) >= 1
           /\ Level(t)' = Level(t)
           /\ FromBottom(stack'[t], Level(t)) = f
           /\ \A d \in 1..Level(t) : d # Level(t) => At(t, d)' = At(t, d)
           /\ \A u \in Threads : u # t => stack'[u] = stack[u]
<1>1. stack \in [Threads -> Seq(FrameSet)] /\ stack[t] \in Seq(FrameSet)
  BY DEF Typed
<1>2. /\ stack' = [stack EXCEPT ![t] = <<f>> \o Tail(stack[t])]
      /\ stack'[t] = <<f>> \o Tail(stack[t])
  BY <1>1 DEF Replace
<1>3. <<f>> \o Tail(stack[t]) \in Seq(FrameSet)
  BY <1>1, ReplaceFrame
<1>4. stack' \in [Threads -> Seq(FrameSet)] /\ \A u \in Threads : u # t => stack'[u] = stack[u]
  BY <1>1, <1>2, <1>3
<1>5. /\ stack'[t] # <<>>
      /\ Head(stack'[t]) = f
      /\ Len(stack[t]) \in Nat
      /\ Len(stack[t]) >= 1
      /\ Len(stack'[t]) = Len(stack[t])
      /\ FromBottom(stack'[t], Len(stack[t])) = f
      /\ \A d \in 1..Len(stack[t]) :
            d # Len(stack[t]) => FromBottom(stack'[t], d) = FromBottom(stack[t], d)
  BY <1>1, <1>2, ReplaceFrame
<1> QED BY <1>4, <1>5 DEF Top, Level, At

\* A thread whose stack stays as it is.
LEMMA OtherThread ==
    ASSUME NEW u \in Threads, stack'[u] = stack[u]
    PROVE  /\ Level(u)' = Level(u)
           /\ \A d \in Nat : At(u, d)' = At(u, d) /\ Vector(u, d)' = Vector(u, d)
           /\ Top(u)' = Top(u)
           /\ \A kind : Running(u, kind)' <=> Running(u, kind)
BY DEF Level, At, Vector, Top, Running, FromBottom

\* Frames below a running call, or below anything but a scan, do not scan.
LEMMA NoScan ==
    ASSUME Typed, Shapes, NEW t \in Threads, ~Running(t, "scan")
    PROVE  \A d \in 1..Level(t) : At(t, d).kind # "scan"
<1> SUFFICES ASSUME NEW d \in 1..Level(t), At(t, d).kind = "scan"
             PROVE  FALSE
  OBVIOUS
<1>1. d = Level(t)
  BY DEF Shapes
<1>2. stack[t] \in Seq(FrameSet) /\ stack[t] # <<>>
  BY <1>1, StackFacts, EmptySeq DEF Level
<1>3. Top(t) = At(t, d)
  BY <1>1, <1>2, TopFrame DEF Top, At, Level
<1> QED BY <1>2, <1>3 DEF Running

\* The control part of the invariant.
Control == Shapes /\ LockHeld /\ ScanProgress

\* Calling something that is neither a scan nor a delivery.
LEMMA PushPlain ==
    ASSUME Typed, Control,
           NEW t \in Threads, NEW f \in FrameSet,
           ~Running(t, "scan"), Push(t, f), UNCHANGED <<queue, lock>>,
           f.kind # "scan", f.kind = "defer" => f.tick \in Ticks, f.ready = <<>>
    PROVE  /\ stack' \in [Threads -> Seq(FrameSet)]
           /\ Control'
           /\ \A u \in Threads : \A d \in Nat : Vector(u, d)' = Vector(u, d)
<1>1. /\ stack' \in [Threads -> Seq(FrameSet)]
      /\ stack'[t] # <<>>
      /\ Top(t)' = f
      /\ Level(t)' = Level(t) + 1
      /\ FromBottom(stack'[t], Level(t) + 1) = f
      /\ \A d \in 1..Level(t) : At(t, d)' = At(t, d)
      /\ \A u \in Threads : u # t => stack'[u] = stack[u]
  BY PushStep
<1>2. Level(t) \in Nat
  BY StackFacts
<1>3. \A d \in 1..Level(t) : At(t, d).kind # "scan"
  BY NoScan DEF Control
<1>4. ~Running(t, "scan")'
  BY <1>1 DEF Running
<1>5. Shapes'
  <2> SUFFICES ASSUME NEW u \in Threads, NEW d \in 1..Level(u)'
               PROVE  /\ At(u, d)'.kind = "defer" => At(u, d)'.tick \in Ticks
                      /\ At(u, d)'.kind \notin {"scan", "deliver"} => At(u, d)'.ready = <<>>
                      /\ At(u, d)'.kind = "scan" => d = Level(u)' /\ lock' = u
    BY DEF Shapes
  <2>1. CASE u # t
    <3>1. Level(u)' = Level(u) /\ At(u, d)' = At(u, d)
      BY <2>1, <1>1, OtherThread, StackFacts
    <3> QED BY <3>1 DEF Control, Shapes
  <2>2. CASE u = t /\ d = Level(t) + 1
    <3>1. At(u, d)' = f
      BY <2>2, <1>1 DEF At
    <3> QED BY <3>1
  <2>3. CASE u = t /\ d # Level(t) + 1
    <3>1. d \in 1..Level(t)
      BY <2>3, <1>1, <1>2
    <3>2. At(u, d)' = At(t, d)
      BY <2>3, <3>1, <1>1
    <3> QED BY <3>1, <3>2, <1>3 DEF Control, Shapes
  <2> QED BY <2>1, <2>2, <2>3
<1>6. \A u \in Threads : Running(u, "scan") => u # t /\ Running(u, "scan")' /\ Top(u)' = Top(u)
  BY <1>1, OtherThread
<1>7. \A u \in Threads : Running(u, "scan")' => Running(u, "scan") /\ Top(u)' = Top(u)
  BY <1>1, <1>4, OtherThread
<1>8. LockHeld'
  BY <1>6 DEF Control, LockHeld, Running, Top
<1>9. ScanProgress'
  BY <1>7 DEF Control, ScanProgress
<1>10. ASSUME NEW u \in Threads, NEW d \in Nat
       PROVE  Vector(u, d)' = Vector(u, d)
  <2>1. CASE u # t
    BY <2>1, <1>1, OtherThread
  <2>2. CASE u = t
    BY <2>2, <1>1, <1>2 DEF Vector, At
  <2> QED BY <2>1, <2>2
<1> QED BY <1>1, <1>5, <1>8, <1>9, <1>10 DEF Control

\* Returning from something that is not a scan and owes nothing. The queue may
\* change under a free lock: nobody scans it then.
LEMMA PopPlain ==
    ASSUME Typed, Control,
           NEW t \in Threads, stack[t] # <<>>, ~Running(t, "scan"), Top(t).ready = <<>>,
           Pop(t), UNCHANGED lock, queue' = queue \/ lock = Nobody
    PROVE  /\ stack' \in [Threads -> Seq(FrameSet)]
           /\ Control'
           /\ \A u \in Threads : \A d \in Nat : Vector(u, d)' = Vector(u, d)
<1>1. /\ stack' \in [Threads -> Seq(FrameSet)]
      /\ Level(t) \in Nat
      /\ Level(t) >= 1
      /\ Level(t)' = Level(t) - 1
      /\ \A d \in 1..(Level(t) - 1) : At(t, d)' = At(t, d)
      /\ \A u \in Threads : u # t => stack'[u] = stack[u]
  BY PopStep
<1>2. Top(t) = At(t, Level(t))
  BY StackFacts, TopFrame DEF Top, At, Level
<1>3. \A d \in 1..Level(t) : At(t, d).kind # "scan"
  BY NoScan DEF Control
<1>4. Shapes'
  <2> SUFFICES ASSUME NEW u \in Threads, NEW d \in 1..Level(u)'
               PROVE  /\ At(u, d)'.kind = "defer" => At(u, d)'.tick \in Ticks
                      /\ At(u, d)'.kind \notin {"scan", "deliver"} => At(u, d)'.ready = <<>>
                      /\ At(u, d)'.kind = "scan" => d = Level(u)' /\ lock' = u
    BY DEF Shapes
  <2>1. CASE u # t
    <3>1. Level(u)' = Level(u) /\ At(u, d)' = At(u, d)
      BY <2>1, <1>1, OtherThread, StackFacts
    <3> QED BY <3>1 DEF Control, Shapes
  <2>2. CASE u = t
    <3>1. d \in 1..(Level(t) - 1) /\ d \in 1..Level(t)
      BY <2>2, <1>1
    <3>2. At(u, d)' = At(t, d)
      BY <2>2, <3>1, <1>1
    <3> QED BY <2>2, <3>1, <3>2, <1>3 DEF Control, Shapes
  <2> QED BY <2>1, <2>2
<1>5. ~Running(t, "scan")'
  <2>1. SUFFICES ASSUME Running(t, "scan")'
                 PROVE  FALSE
    OBVIOUS
  <2>2. stack'[t] # <<>> /\ stack'[t] \in Seq(FrameSet) /\ Head(stack'[t]).kind = "scan"
    BY <2>1, <1>1 DEF Running, Top
  <2>3. Len(stack'[t]) >= 1 /\ Head(stack'[t]) = FromBottom(stack'[t], Len(stack'[t]))
    BY <2>2, TopFrame
  <2>4. Level(t) - 1 \in 1..Level(t) /\ Head(stack'[t]) = At(t, Level(t) - 1)
    BY <2>3, <1>1 DEF Level, At
  <2> QED BY <2>2, <2>4, <1>3
<1>6. \A u \in Threads : Running(u, "scan")' => u # t /\ Running(u, "scan") /\ Top(u)' = Top(u)
  BY <1>1, <1>5, OtherThread
<1>7. LockHeld'
  <2>1. \A u \in Threads : Running(u, "scan") => Running(u, "scan")'
    BY <1>1, OtherThread
  <2> QED BY <2>1 DEF Control, LockHeld, Running, Top
<1>8. \A u \in Threads : Running(u, "scan") => lock = u
  <2> TAKE u \in Threads
  <2> HAVE Running(u, "scan")
  <2> QED BY RunningTop DEF Control, Shapes
<1>9. ScanProgress'
  <2>1. CASE queue' = queue
    BY <2>1, <1>6 DEF Control, ScanProgress
  <2>2. CASE lock = Nobody
    BY <2>2, <1>6, <1>8, DotsAssumption DEF ScanProgress
  <2> QED BY <2>1, <2>2
<1>10. ASSUME NEW u \in Threads, NEW d \in Nat
       PROVE  Vector(u, d)' = Vector(u, d)
  <2>1. CASE u # t
    BY <2>1, <1>1, OtherThread
  <2>2. CASE u = t /\ d \in 1..(Level(t) - 1)
    BY <2>2, <1>1 DEF Vector
  <2>3. CASE u = t /\ d \notin 1..(Level(t) - 1)
    <3>1. Vector(u, d)' = <<>>
      BY <2>3, <1>1 DEF Vector
    <3>2. Vector(u, d) = <<>>
      BY <2>3, <1>1, <1>2 DEF Vector
    <3> QED BY <3>1, <3>2
  <2> QED BY <2>1, <2>2, <2>3
<1> QED BY <1>1, <1>4, <1>7, <1>9, <1>10 DEF Control

\* A frame that is replaced keeps its number: shapes and vectors afterwards.
LEMMA ReplaceAny ==
    ASSUME Typed, Control,
           NEW t \in Threads, NEW f \in FrameSet, stack[t] # <<>>, Replace(t, f),
           f.kind = "defer" => f.tick \in Ticks,
           f.kind \notin {"scan", "deliver"} => f.ready = <<>>,
           f.kind = "scan" => lock' = t,
           \A u \in Threads : u # t => lock' = lock \/ lock # u
    PROVE  /\ stack' \in [Threads -> Seq(FrameSet)]
           /\ Shapes'
           /\ \A u \in Threads : u # t =>
                 (Running(u, "scan")' <=> Running(u, "scan")) /\ Top(u)' = Top(u)
           /\ Running(t, f.kind)' /\ Top(t)' = f
           /\ \A u \in Threads : \A d \in Nat :
                 Vector(u, d)' = IF u = t /\ d = Level(t) THEN f.ready ELSE Vector(u, d)
<1>1. /\ stack' \in [Threads -> Seq(FrameSet)]
      /\ stack'[t] # <<>>
      /\ Top(t)' = f
      /\ Level(t) \in Nat
      /\ Level(t) >= 1
      /\ Level(t)' = Level(t)
      /\ FromBottom(stack'[t], Level(t)) = f
      /\ \A d \in 1..Level(t) : d # Level(t) => At(t, d)' = At(t, d)
      /\ \A u \in Threads : u # t => stack'[u] = stack[u]
  BY ReplaceStep
<1>2. Shapes'
  <2> SUFFICES ASSUME NEW u \in Threads, NEW d \in 1..Level(u)'
               PROVE  /\ At(u, d)'.kind = "defer" => At(u, d)'.tick \in Ticks
                      /\ At(u, d)'.kind \notin {"scan", "deliver"} => At(u, d)'.ready = <<>>
                      /\ At(u, d)'.kind = "scan" => d = Level(u)' /\ lock' = u
    BY DEF Shapes
  <2>1. CASE u # t
    <3>1. Level(u)' = Level(u) /\ At(u, d)' = At(u, d)
      BY <2>1, <1>1, OtherThread, StackFacts
    <3> QED BY <2>1, <3>1 DEF Control, Shapes
  <2>2. CASE u = t /\ d = Level(t)
    <3>1. At(u, d)' = f
      BY <2>2, <1>1 DEF At
    <3> QED BY <2>2, <3>1, <1>1
  <2>3. CASE u = t /\ d # Level(t)
    <3>1. d \in 1..Level(t) /\ At(u, d)' = At(t, d)
      BY <2>3, <1>1
    <3> QED BY <2>3, <3>1 DEF Control, Shapes
  <2> QED BY <2>1, <2>2, <2>3
<1>3. \A u \in Threads : u # t =>
         (Running(u, "scan")' <=> Running(u, "scan")) /\ Top(u)' = Top(u)
  BY <1>1, OtherThread
<1>4. Running(t, f.kind)'
  BY <1>1 DEF Running
<1>5. ASSUME NEW u \in Threads, NEW d \in Nat
      PROVE  Vector(u, d)' = IF u = t /\ d = Level(t) THEN f.ready ELSE Vector(u, d)
  <2>1. CASE u # t
    BY <2>1, <1>1, OtherThread
  <2>2. CASE u = t /\ d = Level(t)
    BY <2>2, <1>1 DEF Vector, At
  <2>3. CASE u = t /\ d # Level(t)
    BY <2>3, <1>1 DEF Vector
  <2> QED BY <2>1, <2>2, <2>3
<1> QED BY <1>1, <1>2, <1>3, <1>4, <1>5

-----------------------------------------------------------------------------
(* The books: queue, local vectors and finished requests.                    *)

\* erase closes the gap and keeps the order of the others.
LEMMA RemoveAtFacts ==
    ASSUME NEW S, NEW q \in Seq(S), NEW k \in 1..Len(q)
    PROVE  /\ RemoveAt(q, k) \in Seq(S)
           /\ Len(RemoveAt(q, k)) = Len(q) - 1
           /\ DOMAIN RemoveAt(q, k) = 1..(Len(q) - 1)
           /\ \A i \in 1..(Len(q) - 1) :
                 RemoveAt(q, k)[i] = IF i < k THEN q[i] ELSE q[i + 1]
BY ErasedAt DEF RemoveAt

\* Steps that move no request.
LEMMA BooksKept ==
    ASSUME Books, UNCHANGED <<queue, accepted, finished>>,
           \A u \in Threads : \A d \in Nat : Vector(u, d)' = Vector(u, d)
    PROVE  Books'
<1>1. Held' = Held
  BY DEF Held
<1>2. Queued' = Queued
  BY DEF Queued
<1>3. Accounted'
  BY <1>1, <1>2 DEF Books, Accounted
<1>4. HeldOnce' /\ InOrder'
  BY DEF Books, HeldOnce, InOrder, Increasing
<1>5. Batches'
  BY DEF Books, Batches, Precedes
<1> QED BY <1>3, <1>4, <1>5 DEF Books

\* Serials are naturals.
LEMMA SerialsAreNat ==
    ASSUME Typed
    PROVE  /\ DOMAIN queue = 1..Len(queue)
           /\ Len(queue) \in Nat
           /\ \A k \in DOMAIN queue : queue[k] \in Requests /\ queue[k].serial \in Nat
           /\ \A t \in Threads : \A d \in Nat : \A j \in DOMAIN Vector(t, d) :
                 Vector(t, d)[j] \in Requests /\ Vector(t, d)[j].serial \in Nat
<1>1. /\ DOMAIN queue = 1..Len(queue)
      /\ Len(queue) \in Nat
      /\ \A k \in DOMAIN queue : queue[k] \in Requests
  BY LenProperties DEF Typed
<1>2. ASSUME NEW t \in Threads, NEW d \in Nat, NEW j \in DOMAIN Vector(t, d)
      PROVE  Vector(t, d)[j] \in Requests
  BY StackFacts, LenProperties
<1> QED BY <1>1, <1>2 DEF Requests

\* An accepted request gets the next number and the last place.
LEMMA BooksAccept ==
    ASSUME Typed, Books, NEW tick \in Ticks,
           queue' = Append(queue, [tick |-> tick, serial |-> accepted + 1]),
           accepted' = accepted + 1, UNCHANGED finished,
           \A u \in Threads : \A d \in Nat : Vector(u, d)' = Vector(u, d)
    PROVE  Books' /\ queue' \in Seq(Requests)
<1> DEFINE new == [tick |-> tick, serial |-> accepted + 1]
<1>1. new \in Requests /\ accepted \in Nat /\ queue \in Seq(Requests)
  BY DEF Typed, Requests
<1>2. /\ queue' \in Seq(Requests)
      /\ Len(queue') = Len(queue) + 1
      /\ \A i \in 1..Len(queue) : queue'[i] = queue[i]
      /\ queue'[Len(queue) + 1] = new
  BY <1>1, AppendProperties
<1>3. DOMAIN queue' = 1..(Len(queue) + 1)
  BY <1>2, LenProperties
<1>4. Held' = Held
  BY DEF Held
<1>5. Queued' = Queued \union {accepted + 1}
  BY <1>2, <1>3, SerialsAreNat DEF Queued
<1>6. \A n \in Queued \union Held \union finished : n \in 1..accepted
  BY DEF Books, Accounted
<1>7. 1..(accepted + 1) = (1..accepted) \union {accepted + 1} /\ accepted + 1 \notin 1..accepted
  BY <1>1
<1>8. Accounted'
  BY <1>4, <1>5, <1>6, <1>7 DEF Books, Accounted
<1>9. HeldOnce'
  BY DEF Books, HeldOnce
<1>10. Increasing(queue')
  <2> SUFFICES ASSUME NEW i \in 1..(Len(queue) + 1), NEW j \in 1..(Len(queue) + 1), i < j
               PROVE  queue'[i].serial < queue'[j].serial
    BY <1>3 DEF Increasing
  <2>1. i \in DOMAIN queue /\ queue'[i] = queue[i] /\ queue[i].serial \in Queued
    BY <1>2, SerialsAreNat DEF Queued
  <2>2. queue[i].serial < accepted + 1
    BY <2>1, <1>1, <1>6
  <2>3. CASE j = Len(queue) + 1
    BY <2>1, <2>2, <2>3, <1>2
  <2>4. CASE j # Len(queue) + 1
    <3>1. j \in DOMAIN queue /\ queue'[j] = queue[j]
      BY <2>4, <1>2, SerialsAreNat
    <3> QED BY <2>1, <3>1 DEF Books, InOrder, Increasing
  <2> QED BY <2>3, <2>4
<1>11. InOrder'
  BY <1>10 DEF Books, InOrder, Increasing
<1>12. ASSUME NEW t \in Threads, NEW d \in Nat,
              NEW i \in DOMAIN Vector(t, d), NEW j \in 1..(Len(queue) + 1),
              Vector(t, d)[i].tick.battle = queue'[j].tick.battle
       PROVE  Vector(t, d)[i].serial < queue'[j].serial
  <2>1. CASE j = Len(queue) + 1
    <3>1. Vector(t, d)[i].serial \in Held
      BY SerialsAreNat DEF Held
    <3>2. Vector(t, d)[i].serial < accepted + 1
      BY <3>1, <1>1, <1>6
    <3> QED BY <2>1, <3>2, <1>2
  <2>2. CASE j # Len(queue) + 1
    <3>1. j \in DOMAIN queue /\ queue'[j] = queue[j]
      BY <2>2, <1>2, SerialsAreNat
    <3> QED BY <3>1, <1>12 DEF Books, Batches, Precedes
  <2> QED BY <2>1, <2>2
<1>13. Batches'
  <2>1. ASSUME NEW t \in Threads, NEW d \in Nat
        PROVE  Precedes(Vector(t, d), queue)'
    BY <1>3, <1>12 DEF Precedes
  <2>2. ASSUME NEW t \in Threads, NEW d \in Nat, NEW e \in Nat, d < e
        PROVE  Precedes(Vector(t, d), Vector(t, e))'
    BY <2>2 DEF Books, Batches, Precedes
  <2> QED BY <2>1, <2>2 DEF Batches
<1> QED BY <1>2, <1>8, <1>9, <1>11, <1>13 DEF Books

\* A request that a scan takes goes from the queue to the scan's vector.
LEMMA BooksMove ==
    ASSUME Typed, Books,
           NEW t \in Threads, NEW l \in Nat, NEW k \in DOMAIN queue,
           \A j \in DOMAIN Vector(t, l) : Vector(t, l)[j].serial < queue[k].serial,
           \A m \in DOMAIN queue : m < k => queue[m].tick.battle # queue[k].tick.battle,
           \A e \in Nat : e > l => Vector(t, e) = <<>>,
           queue' = RemoveAt(queue, k), UNCHANGED <<accepted, finished>>,
           \A u \in Threads : \A d \in Nat : Vector(u, d)' =
              IF u = t /\ d = l THEN Append(Vector(t, l), queue[k]) ELSE Vector(u, d)
    PROVE  Books'
<1> DEFINE old == Vector(t, l)
           new == Append(Vector(t, l), queue[k])
           x == queue[k].serial
<1>1. /\ queue \in Seq(Requests)
      /\ Len(queue) \in Nat
      /\ k \in 1..Len(queue)
      /\ queue[k] \in Requests
      /\ x \in Nat
      /\ old \in Seq(Requests)
  BY SerialsAreNat, StackFacts DEF Typed
<1>2. /\ DOMAIN queue' = 1..(Len(queue) - 1)
      /\ \A i \in 1..(Len(queue) - 1) : queue'[i] = IF i < k THEN queue[i] ELSE queue[i + 1]
  BY <1>1, RemoveAtFacts
<1>3. /\ Len(old) \in Nat
      /\ DOMAIN old = 1..Len(old)
      /\ DOMAIN new = 1..(Len(old) + 1)
      /\ \A j \in 1..Len(old) : new[j] = old[j]
      /\ new[Len(old) + 1] = queue[k]
  BY <1>1, AppendProperties, LenProperties
<1>4. x \in Queued /\ x \notin Held /\ x \notin finished
  BY DEF Queued, Books, Accounted
<1>5. Queued' = Queued \ {x}
  <2>1. ASSUME NEW i \in DOMAIN queue, i # k
        PROVE  queue[i].serial # x
    BY <2>1, <1>1, SerialsAreNat DEF Books, InOrder, Increasing
  <2>2. ASSUME NEW n \in Queued, n # x
        PROVE  n \in Queued'
    <3>1. PICK i \in DOMAIN queue : n = queue[i].serial
      BY DEF Queued
    <3>2. i \in 1..Len(queue) /\ i # k
      BY <3>1, <2>2, <1>1, SerialsAreNat
    <3>3. CASE i < k
      <4>1. i \in DOMAIN queue' /\ queue'[i] = queue[i]
        BY <3>2, <3>3, <1>1, <1>2
      <4> QED BY <4>1, <3>1 DEF Queued
    <3>4. CASE i > k
      <4>1. i - 1 \in 1..(Len(queue) - 1) /\ ~(i - 1 < k) /\ (i - 1) + 1 = i
        BY <3>2, <3>4, <1>1
      <4> QED BY <4>1, <3>1, <1>2 DEF Queued
    <3> QED BY <3>2, <3>3, <3>4, <1>1
  <2>3. ASSUME NEW n \in Queued'
        PROVE  n \in Queued /\ n # x
    <3>1. PICK i \in 1..(Len(queue) - 1) : n = queue'[i].serial
      BY <1>2 DEF Queued
    <3>2. CASE i < k
      <4>1. i \in DOMAIN queue /\ i # k /\ queue'[i] = queue[i]
        BY <3>2, <1>1, <1>2, SerialsAreNat
      <4> QED BY <4>1, <3>1, <2>1 DEF Queued
    <3>3. CASE ~(i < k)
      <4>1. i + 1 \in DOMAIN queue /\ i + 1 # k
        BY <3>3, <1>1, SerialsAreNat
      <4> QED BY <3>1, <3>3, <4>1, <2>1, <1>2 DEF Queued
    <3> QED BY <3>2, <3>3
  <2> QED BY <2>2, <2>3
<1>6. Held' = Held \union {x}
  <2>1. ASSUME NEW n \in Held
        PROVE  n \in Held'
    <3>1. PICK u \in Threads, d \in Nat :
             \E j \in DOMAIN Vector(u, d) : Vector(u, d)[j].serial = n
      BY <2>1 DEF Held
    <3>2. PICK j \in DOMAIN Vector(u, d) : Vector(u, d)[j].serial = n
      BY <3>1
    <3>3. j \in DOMAIN Vector(u, d)' /\ Vector(u, d)'[j].serial = n
      <4>1. CASE u = t /\ d = l
        BY <4>1, <3>2, <1>3
      <4>2. CASE ~(u = t /\ d = l)
        BY <4>2, <3>2
      <4> QED BY <4>1, <4>2
    <3> QED BY <3>3, <2>1 DEF Held
  <2>2. x \in Held'
    <3>1. Len(old) + 1 \in DOMAIN Vector(t, l)' /\ Vector(t, l)'[Len(old) + 1].serial = x
      BY <1>3
    <3> QED BY <3>1, <1>1 DEF Held
  <2>3. ASSUME NEW n \in Held', n # x
        PROVE  n \in Held
    <3>1. PICK u \in Threads, d \in Nat :
             \E j \in DOMAIN Vector(u, d)' : Vector(u, d)'[j].serial = n
      BY <2>3 DEF Held
    <3>2. PICK j \in DOMAIN Vector(u, d)' : Vector(u, d)'[j].serial = n
      BY <3>1
    <3>3. j \in DOMAIN Vector(u, d) /\ Vector(u, d)[j].serial = n
      <4>1. CASE u = t /\ d = l
        BY <4>1, <3>2, <2>3, <1>3
      <4>2. CASE ~(u = t /\ d = l)
        BY <4>2, <3>2
      <4> QED BY <4>1, <4>2
    <3>4. n \in Nat
      BY <2>3 DEF Held
    <3> QED BY <3>3, <3>4 DEF Held
  <2> QED BY <2>1, <2>2, <2>3
<1>7. Accounted'
  BY <1>4, <1>5, <1>6 DEF Books, Accounted
<1>8. ASSUME NEW u \in Threads, NEW d \in Nat, NEW j \in DOMAIN Vector(u, d)'
      PROVE  \/ j \in DOMAIN Vector(u, d) /\ Vector(u, d)'[j] = Vector(u, d)[j]
             \/ u = t /\ d = l /\ j = Len(old) + 1 /\ Vector(u, d)'[j] = queue[k]
  <2>1. CASE u = t /\ d = l
    BY <2>1, <1>3
  <2>2. CASE ~(u = t /\ d = l)
    BY <2>2
  <2> QED BY <2>1, <2>2
<1>9. ASSUME NEW u \in Threads, NEW d \in Nat, NEW j \in DOMAIN Vector(u, d)
      PROVE  Vector(u, d)[j].serial # x
  BY <1>4, <1>1 DEF Held
<1>10. HeldOnce'
  <2> SUFFICES ASSUME NEW u \in Threads, NEW v \in Threads, NEW d \in Nat, NEW e \in Nat,
                      NEW i \in DOMAIN Vector(u, d)', NEW j \in DOMAIN Vector(v, e)',
                      Vector(u, d)'[i].serial = Vector(v, e)'[j].serial
               PROVE  u = v /\ d = e
    BY DEF HeldOnce
  <2>1. CASE i \in DOMAIN Vector(u, d) /\ Vector(u, d)'[i] = Vector(u, d)[i]
             /\ j \in DOMAIN Vector(v, e) /\ Vector(v, e)'[j] = Vector(v, e)[j]
    BY <2>1 DEF Books, HeldOnce
  <2> QED BY <2>1, <1>8, <1>9
<1>11. Increasing(queue')
  <2> SUFFICES ASSUME NEW i \in 1..(Len(queue) - 1), NEW j \in 1..(Len(queue) - 1), i < j
               PROVE  queue'[i].serial < queue'[j].serial
    BY <1>2 DEF Increasing
  <2>1. PICK m \in DOMAIN queue : queue'[i] = queue[m] /\ m = IF i < k THEN i ELSE i + 1
    BY <1>1, <1>2, SerialsAreNat
  <2>2. PICK n \in DOMAIN queue : queue'[j] = queue[n] /\ n = IF j < k THEN j ELSE j + 1
    BY <1>1, <1>2, SerialsAreNat
  <2>3. m < n
    BY <2>1, <2>2, <1>1
  <2> QED BY <2>1, <2>2, <2>3 DEF Books, InOrder, Increasing
<1>12. Increasing(new)
  <2> SUFFICES ASSUME NEW i \in 1..(Len(old) + 1), NEW j \in 1..(Len(old) + 1), i < j
               PROVE  new[i].serial < new[j].serial
    BY <1>3 DEF Increasing
  <2>1. i \in DOMAIN old /\ new[i] = old[i]
    BY <1>3
  <2>2. CASE j = Len(old) + 1
    BY <2>1, <2>2, <1>3
  <2>3. CASE j # Len(old) + 1
    <3>1. j \in DOMAIN old /\ new[j] = old[j]
      BY <2>3, <1>3
    <3> QED BY <2>1, <3>1 DEF Books, InOrder, Increasing
  <2> QED BY <2>2, <2>3
<1>13. InOrder'
  <2> HIDE DEF new
  <2>1. ASSUME NEW u \in Threads, NEW d \in Nat
        PROVE  Increasing(Vector(u, d)')
    BY <1>12 DEF Books, InOrder, new
  <2> QED BY <2>1, <1>11 DEF InOrder, Increasing
<1>14. ASSUME NEW u \in Threads, NEW d \in Nat,
              NEW i \in DOMAIN Vector(u, d)', NEW j \in DOMAIN queue',
              Vector(u, d)'[i].tick.battle = queue'[j].tick.battle
       PROVE  Vector(u, d)'[i].serial < queue'[j].serial
  <2>1. PICK m \in DOMAIN queue : queue'[j] = queue[m] /\ m # k
    <3>1. CASE j < k
      BY <3>1, <1>1, <1>2, SerialsAreNat
    <3>2. CASE ~(j < k)
      <4>1. j + 1 \in DOMAIN queue /\ j + 1 # k /\ queue'[j] = queue[j + 1]
        BY <3>2, <1>1, <1>2, SerialsAreNat
      <4> QED BY <4>1
    <3> QED BY <3>1, <3>2
  <2>2. CASE i \in DOMAIN Vector(u, d) /\ Vector(u, d)'[i] = Vector(u, d)[i]
    BY <2>1, <2>2, <1>14 DEF Books, Batches, Precedes
  <2>3. CASE Vector(u, d)'[i] = queue[k]
    <3>1. queue[m].tick.battle = queue[k].tick.battle
      BY <2>1, <2>3, <1>14
    <3>2. m > k
      BY <2>1, <3>1, <1>1, SerialsAreNat
    <3> QED BY <2>1, <2>3, <3>2 DEF Books, InOrder, Increasing
  <2> QED BY <2>2, <2>3, <1>8
<1>15. ASSUME NEW u \in Threads, NEW d \in Nat, NEW e \in Nat, d < e,
              NEW i \in DOMAIN Vector(u, d)', NEW j \in DOMAIN Vector(u, e)',
              Vector(u, d)'[i].tick.battle = Vector(u, e)'[j].tick.battle
       PROVE  Vector(u, d)'[i].serial < Vector(u, e)'[j].serial
  <2>1. i \in DOMAIN Vector(u, d) /\ Vector(u, d)'[i] = Vector(u, d)[i]
    <3>1. SUFFICES ASSUME u = t, d = l
                   PROVE  FALSE
      BY <1>8
    <3>2. Vector(u, e)' = <<>>
      BY <3>1, <1>15
    <3> QED BY <3>2
  <2>2. CASE j \in DOMAIN Vector(u, e) /\ Vector(u, e)'[j] = Vector(u, e)[j]
    BY <2>1, <2>2, <1>15 DEF Books, Batches, Precedes
  <2>3. CASE Vector(u, e)'[j] = queue[k]
    BY <2>1, <2>3, <1>15 DEF Books, Batches, Precedes
  <2> QED BY <2>2, <2>3, <1>8
<1>16. Batches'
  BY <1>14, <1>15 DEF Batches, Precedes
<1> QED BY <1>7, <1>10, <1>13, <1>16 DEF Books

\* A request that a delivery has dealt with leaves its vector for good.
LEMMA BooksFinish ==
    ASSUME Typed, Books,
           NEW t \in Threads, NEW l \in Nat, Vector(t, l) # <<>>,
           finished' = finished \union {Head(Vector(t, l)).serial},
           UNCHANGED <<queue, accepted>>,
           \A u \in Threads : \A d \in Nat : Vector(u, d)' =
              IF u = t /\ d = l THEN Tail(Vector(t, l)) ELSE Vector(u, d)
    PROVE  Books' /\ finished' \subseteq Nat
<1> DEFINE old == Vector(t, l)
           new == Tail(Vector(t, l))
           x == Head(Vector(t, l)).serial
<1>1. /\ old \in Seq(Requests)
      /\ old # <<>>
      /\ Len(old) \in Nat
      /\ Len(old) >= 1
      /\ DOMAIN old = 1..Len(old)
      /\ Head(old) = old[1]
      /\ Head(old) \in Requests
  BY StackFacts, TopFrame, LenProperties
<1>2. x \in Nat /\ x = old[1].serial /\ 1 \in DOMAIN old
  BY <1>1 DEF Requests
<1>3. /\ DOMAIN new = 1..(Len(old) - 1)
      /\ \A j \in 1..(Len(old) - 1) : new[j] = old[j + 1]
  <2>1. /\ new \in Seq(Requests)
        /\ Len(new) = Len(old) - 1
        /\ \A j \in 1..Len(new) : new[j] = old[j + 1]
    BY <1>1, HeadTailProperties
  <2>2. DOMAIN new = 1..Len(new)
    BY <2>1, LenProperties
  <2> QED BY <2>1, <2>2
<1> HIDE DEF new, old, x
<1>4. Increasing(old)
  BY DEF Books, InOrder, old
<1>5. \A j \in 1..(Len(old) - 1) : j + 1 \in DOMAIN old /\ old[j + 1].serial # x
  <2> TAKE j \in 1..(Len(old) - 1)
  <2>1. j + 1 \in DOMAIN old /\ 1 < j + 1
    BY <1>1
  <2>2. old[1].serial < old[j + 1].serial
    BY <2>1, <1>2, <1>4 DEF Increasing
  <2>3. old[1].serial \in Nat
    BY <1>2
  <2>4. old[j + 1].serial \in Nat
    BY <2>1, SerialsAreNat DEF old
  <2> QED BY <2>1, <2>2, <2>3, <2>4, <1>2
<1>6. ASSUME NEW u \in Threads, NEW d \in Nat, NEW j \in DOMAIN Vector(u, d)'
      PROVE  /\ Vector(u, d)'[j].serial # x
             /\ \E i \in DOMAIN Vector(u, d) : Vector(u, d)'[j] = Vector(u, d)[i]
  <2>1. CASE u = t /\ d = l
    BY <2>1, <1>3, <1>5 DEF old, new
  <2>2. CASE ~(u = t /\ d = l)
    <3>1. Vector(u, d)' = Vector(u, d)
      BY <2>2
    <3>2. Vector(u, d)[j].serial # old[1].serial
      BY <2>2, <3>1, <1>2 DEF Books, HeldOnce, old
    <3> QED BY <3>1, <3>2, <1>2
  <2> QED BY <2>1, <2>2
<1>7. x \in Held
  BY <1>2 DEF Held, old
<1>8. Held' = Held \ {x}
  <2>1. ASSUME NEW n \in Held'
        PROVE  n \in Held /\ n # x
    <3>1. PICK u \in Threads, d \in Nat :
             \E j \in DOMAIN Vector(u, d)' : Vector(u, d)'[j].serial = n
      BY <2>1 DEF Held
    <3>2. PICK j \in DOMAIN Vector(u, d)' : Vector(u, d)'[j].serial = n
      BY <3>1
    <3>3. n \in Nat
      BY <2>1 DEF Held
    <3> QED BY <3>2, <3>3, <1>6 DEF Held
  <2>2. ASSUME NEW n \in Held, n # x
        PROVE  n \in Held'
    <3>1. PICK u \in Threads, d \in Nat :
             \E j \in DOMAIN Vector(u, d) : Vector(u, d)[j].serial = n
      BY <2>2 DEF Held
    <3>2. PICK j \in DOMAIN Vector(u, d) : Vector(u, d)[j].serial = n
      BY <3>1
    <3>3. \E i \in DOMAIN Vector(u, d)' : Vector(u, d)'[i].serial = n
      <4>1. CASE u = t /\ d = l
        <5>1. j \in 1..Len(old) /\ j # 1 /\ old[j].serial = n
          BY <4>1, <3>2, <2>2, <1>1, <1>2 DEF old
        <5>2. j - 1 \in 1..(Len(old) - 1) /\ (j - 1) + 1 = j
          BY <5>1, <1>1
        <5>3. j - 1 \in DOMAIN new /\ new[j - 1].serial = n
          BY <5>1, <5>2, <1>3
        <5> QED BY <4>1, <5>3 DEF new
      <4>2. CASE ~(u = t /\ d = l)
        BY <4>2, <3>2
      <4> QED BY <4>1, <4>2
    <3>4. n \in Nat
      BY <2>2 DEF Held
    <3> QED BY <3>3, <3>4 DEF Held
  <2> QED BY <2>1, <2>2
<1>9. Queued' = Queued
  BY DEF Queued
<1>10. finished' = finished \union {x}
  BY DEF x
<1>11. Accounted'
  BY <1>7, <1>8, <1>9, <1>10 DEF Books, Accounted
<1>12. HeldOnce'
  <2> SUFFICES ASSUME NEW u \in Threads, NEW v \in Threads, NEW d \in Nat, NEW e \in Nat,
                      NEW i \in DOMAIN Vector(u, d)', NEW j \in DOMAIN Vector(v, e)',
                      Vector(u, d)'[i].serial = Vector(v, e)'[j].serial
               PROVE  u = v /\ d = e
    BY DEF HeldOnce
  <2>1. PICK m \in DOMAIN Vector(u, d) : Vector(u, d)'[i] = Vector(u, d)[m]
    BY <1>6
  <2>2. PICK n \in DOMAIN Vector(v, e) : Vector(v, e)'[j] = Vector(v, e)[n]
    BY <1>6
  <2> QED BY <2>1, <2>2 DEF Books, HeldOnce
<1>13. Increasing(new)
  <2> SUFFICES ASSUME NEW i \in 1..(Len(old) - 1), NEW j \in 1..(Len(old) - 1), i < j
               PROVE  new[i].serial < new[j].serial
    BY <1>3 DEF Increasing
  <2>1. /\ i + 1 \in DOMAIN old
        /\ j + 1 \in DOMAIN old
        /\ i + 1 < j + 1
        /\ new[i] = old[i + 1]
        /\ new[j] = old[j + 1]
    BY <1>1, <1>3
  <2> QED BY <2>1, <1>4 DEF Increasing
<1>14. InOrder'
  <2>1. ASSUME NEW u \in Threads, NEW d \in Nat
        PROVE  Increasing(Vector(u, d)')
    BY <1>13 DEF Books, InOrder, new
  <2> QED BY <2>1 DEF Books, InOrder, Increasing
<1>15. ASSUME NEW u \in Threads, NEW d \in Nat
       PROVE  Precedes(Vector(u, d), queue)'
  BY <1>6 DEF Books, Batches, Precedes
<1>16. ASSUME NEW u \in Threads, NEW d \in Nat, NEW e \in Nat, d < e
       PROVE  Precedes(Vector(u, d), Vector(u, e))'
  <2> SUFFICES ASSUME NEW i \in DOMAIN Vector(u, d)', NEW j \in DOMAIN Vector(u, e)',
                      Vector(u, d)'[i].tick.battle = Vector(u, e)'[j].tick.battle
               PROVE  Vector(u, d)'[i].serial < Vector(u, e)'[j].serial
    BY DEF Precedes
  <2>1. PICK m \in DOMAIN Vector(u, d) : Vector(u, d)'[i] = Vector(u, d)[m]
    BY <1>6
  <2>2. PICK n \in DOMAIN Vector(u, e) : Vector(u, e)'[j] = Vector(u, e)[n]
    BY <1>6
  <2> QED BY <2>1, <2>2, <1>16 DEF Books, Batches, Precedes
<1>17. Batches'
  BY <1>15, <1>16 DEF Batches
<1> QED BY <1>2, <1>10, <1>11, <1>12, <1>14, <1>17 DEF Books, Typed

-----------------------------------------------------------------------------
(* The actions.                                                              *)

\* Only the thread whose scan holds the lock scans.
LEMMA ScannerHoldsLock ==
    ASSUME Typed, Control, NEW t \in Threads, Running(t, "scan")
    PROVE  lock = t
BY RunningTop DEF Control, Shapes

\* Native code and handlers do not scan, and frames without a vector are frames.
LEMMA PlainFrames ==
    ASSUME NEW kind \in Kinds, NEW battle \in Battles
    PROVE  /\ Plain(kind, battle) \in FrameSet
           /\ Plain(kind, battle).kind = kind
           /\ Plain(kind, battle).battle = battle
           /\ Plain(kind, battle).i = 1
           /\ Plain(kind, battle).ready = <<>>
BY EmptySeq DEF Plain, Frame, FrameSet

\* A frame that changes some of its fields is a frame.
LEMMA FrameFields ==
    ASSUME NEW f \in FrameSet, NEW kind \in Kinds, NEW ready \in Seq(Requests)
    PROVE  /\ [f EXCEPT !.kind = kind, !.i = 1] \in FrameSet
           /\ [f EXCEPT !.kind = kind, !.i = 1].kind = kind
           /\ [f EXCEPT !.kind = kind, !.i = 1].ready = f.ready
           /\ [f EXCEPT !.ready = ready] \in FrameSet
           /\ [f EXCEPT !.ready = ready].kind = f.kind
           /\ [f EXCEPT !.ready = ready].battle = f.battle
           /\ [f EXCEPT !.ready = ready].ready = ready
<1>1. [f EXCEPT !.kind = kind, !.i = 1] \in FrameSet
  <2>1. \A g \in FrameSet : \A n \in Nat \ {0} : [g EXCEPT !.i = n] \in FrameSet
    BY DEF FrameSet
  <2>2. [f EXCEPT !.kind = kind] \in FrameSet
    BY DEF FrameSet
  <2>3. [f EXCEPT !.kind = kind, !.i = 1] = [[f EXCEPT !.kind = kind] EXCEPT !.i = 1]
    OBVIOUS
  <2>4. PICK n \in Nat \ {0} : n = 1
    OBVIOUS
  <2>5. [[f EXCEPT !.kind = kind] EXCEPT !.i = n] \in FrameSet
    BY <2>1, <2>2
  <2> QED BY <2>3, <2>4, <2>5
<1>2. [f EXCEPT !.ready = ready] \in FrameSet
  BY DEF FrameSet
<1>3. /\ [f EXCEPT !.kind = kind, !.i = 1].kind = kind
      /\ [f EXCEPT !.kind = kind, !.i = 1].ready = f.ready
  BY DEF FrameSet
<1>4. /\ [f EXCEPT !.ready = ready].kind = f.kind
      /\ [f EXCEPT !.ready = ready].battle = f.battle
      /\ [f EXCEPT !.ready = ready].ready = ready
  BY DEF FrameSet
<1> QED BY <1>1, <1>2, <1>3, <1>4

\* The engine calls into the bridge.
LEMMA EngineCalls ==
    ASSUME IInv, NEW t \in Threads, NEW battle \in Battles,
           EnterCallback(t, battle) \/ ActionEnd(t, battle)
    PROVE  IInv'
<1>1. PICK kind \in {"callback", "flush"} :
         Push(t, Plain(kind, battle)) /\ UNCHANGED <<queue, lock, status, accepted, finished>>
  BY DEF EnterCallback, ActionEnd, history
<1>2. ~Running(t, "scan")
  BY DEF EnterCallback, ActionEnd, Native, Running
<1>3. Plain(kind, battle) \in FrameSet /\ Plain(kind, battle).kind = kind
      /\ Plain(kind, battle).ready = <<>>
  BY PlainFrames DEF Kinds
<1>4. /\ stack' \in [Threads -> Seq(FrameSet)]
      /\ Control'
      /\ \A u \in Threads : \A d \in Nat : Vector(u, d)' = Vector(u, d)
  BY <1>1, <1>2, <1>3, PushPlain DEF IInv, Control
<1>5. Books'
  BY <1>1, <1>4, BooksKept DEF IInv
<1> QED BY <1>1, <1>4, <1>5 DEF IInv, Typed, Control, Coalesced

\* A handler calls one of the two primitives.
LEMMA PrimitiveCalls ==
    ASSUME IInv, NEW t \in Threads, NEW actor \in Actors, NEW dot \in Dots,
           TriggerDot(t, actor, dot) \/ DeferDot(t, actor, dot)
    PROVE  IInv'
<1>1. Running(t, "callback") /\ UNCHANGED <<queue, lock, status, accepted, finished>>
  BY DEF TriggerDot, DeferDot, history
<1>2. ~Running(t, "scan")
  BY <1>1 DEF Running
<1>3. Top(t).battle \in Battles
  BY <1>1, RunningTop DEF IInv, FrameSet
<1>4. PICK f \in FrameSet :
         /\ Push(t, f)
         /\ f.kind # "scan"
         /\ f.kind = "defer" => f.tick \in Ticks
         /\ f.ready = <<>>
  <2>1. CASE TriggerDot(t, actor, dot)
    BY <2>1, <1>3, PlainFrames DEF TriggerDot, Kinds
  <2>2. CASE DeferDot(t, actor, dot)
    <3> DEFINE tick == [battle |-> Top(t).battle, actor |-> actor, dot |-> dot]
               f == Frame("defer", Top(t).battle, tick, 1, <<>>)
    <3>1. tick \in Ticks
      BY <1>3 DEF Ticks
    <3> HIDE DEF tick
    <3>2. f \in FrameSet /\ f.kind = "defer" /\ f.tick = tick /\ f.ready = <<>>
      BY <3>1, <1>3, EmptySeq DEF Frame, FrameSet, Kinds
    <3>3. Push(t, f)
      BY <2>2 DEF DeferDot, tick
    <3> QED BY <3>1, <3>2, <3>3
  <2> QED BY <2>1, <2>2
<1>5. /\ stack' \in [Threads -> Seq(FrameSet)]
      /\ Control'
      /\ \A u \in Threads : \A d \in Nat : Vector(u, d)' = Vector(u, d)
  BY <1>1, <1>2, <1>4, PushPlain DEF IInv, Control
<1>6. Books'
  BY <1>1, <1>5, BooksKept DEF IInv
<1> QED BY <1>1, <1>5, <1>6 DEF IInv, Typed, Control, Coalesced

\* Handlers, native ticks and flushes return.
LEMMA Returns ==
    ASSUME IInv, NEW t \in Threads,
           (\E kind \in Kinds : ReturnFrom(t, kind)) \/ FlushReturn(t)
    PROVE  IInv'
<1>1. PICK kind \in {"callback", "native", "deliver"} :
         /\ Running(t, kind)
         /\ kind = "deliver" => Top(t).ready = <<>>
         /\ Pop(t)
         /\ UNCHANGED <<queue, lock, status, accepted, finished>>
  BY DEF ReturnFrom, FlushReturn, history
<1>2. stack[t] # <<>> /\ ~Running(t, "scan")
  BY <1>1 DEF Running
<1>3. Top(t).ready = <<>>
  BY <1>1, RunningTop DEF IInv, Shapes
<1>4. /\ stack' \in [Threads -> Seq(FrameSet)]
      /\ Control'
      /\ \A u \in Threads : \A d \in Nat : Vector(u, d)' = Vector(u, d)
  BY <1>1, <1>2, <1>3, PopPlain DEF IInv, Control
<1>5. Books'
  BY <1>1, <1>4, BooksKept DEF IInv
<1> QED BY <1>1, <1>4, <1>5 DEF IInv, Typed, Control, Coalesced

\* defer_dot's critical section.
LEMMA DeferLockedStep ==
    ASSUME IInv, NEW t \in Threads, DeferLocked(t)
    PROVE  IInv'
<1>1. Running(t, "defer") /\ lock = Nobody /\ Pop(t) /\ UNCHANGED <<lock, status, finished>>
  BY DEF DeferLocked
<1>2. stack[t] # <<>> /\ ~Running(t, "scan")
  BY <1>1 DEF Running
<1>3. Top(t).ready = <<>> /\ Top(t).tick \in Ticks
  BY <1>1, RunningTop DEF IInv, Shapes
<1>4. /\ stack' \in [Threads -> Seq(FrameSet)]
      /\ Control'
      /\ \A u \in Threads : \A d \in Nat : Vector(u, d)' = Vector(u, d)
  BY <1>1, <1>2, <1>3, PopPlain DEF IInv, Control
<1>5. CASE ~Duplicate(Top(t).tick) /\ HasRoom
  <2> DEFINE new == [tick |-> Top(t).tick, serial |-> accepted + 1]
  <2>1. accepted' = accepted + 1 /\ queue' = Append(queue, new)
    BY <1>5 DEF DeferLocked
  <2>2. Books' /\ queue' \in Seq(Requests)
    BY <1>1, <1>3, <1>4, <2>1, BooksAccept DEF IInv
  <2>3. accepted' \in Nat
    BY <2>1 DEF IInv, Typed
  <2>4. Typed'
    BY <1>1, <1>4, <2>2, <2>3 DEF IInv, Typed
  <2>5. Coalesced'
    <3>1. queue \in Seq(Requests) /\ new \in Requests
      BY <1>3 DEF IInv, Typed, Requests
    <3>2. /\ Len(queue) \in Nat
          /\ DOMAIN queue = 1..Len(queue)
          /\ DOMAIN queue' = 1..(Len(queue) + 1)
          /\ \A i \in 1..Len(queue) : queue'[i] = queue[i]
          /\ queue'[Len(queue) + 1].tick = Top(t).tick
      BY <2>1, <3>1, AppendProperties, LenProperties
    <3>3. \A i \in 1..Len(queue) : queue[i].tick # Top(t).tick
      BY <1>5, <3>2 DEF Duplicate
    <3> SUFFICES ASSUME NEW i \in 1..(Len(queue) + 1), NEW j \in 1..(Len(queue) + 1),
                        queue'[i].tick = queue'[j].tick
                 PROVE  i = j
      BY <3>2 DEF Coalesced
    <3>4. CASE i \in 1..Len(queue) /\ j \in 1..Len(queue)
      BY <3>2, <3>4 DEF IInv, Coalesced
    <3>5. CASE i = Len(queue) + 1 \/ j = Len(queue) + 1
      BY <3>2, <3>3, <3>5
    <3> QED BY <3>2, <3>4, <3>5
  <2> QED BY <1>4, <2>2, <2>4, <2>5 DEF IInv, Control
<1>6. CASE ~(~Duplicate(Top(t).tick) /\ HasRoom)
  <2>1. UNCHANGED <<queue, accepted, finished>>
    BY <1>6, <1>1 DEF DeferLocked
  <2>2. Books'
    BY <2>1, <1>4, BooksKept DEF IInv
  <2> QED BY <1>1, <1>4, <2>1, <2>2 DEF IInv, Typed, Control, Coalesced
<1> QED BY <1>5, <1>6

\* A flush starts its scan: it has passed nothing and taken nothing yet.
LEMMA FlushLockStep ==
    ASSUME IInv, NEW t \in Threads, FlushLock(t)
    PROVE  IInv'
<1>1. /\ Running(t, "flush")
      /\ lock = Nobody
      /\ lock' = t
      /\ Replace(t, Plain("scan", Top(t).battle))
      /\ UNCHANGED <<queue, status, accepted, finished>>
  BY DEF FlushLock, history
<1>2. /\ stack[t] # <<>>
      /\ Top(t).battle \in Battles
      /\ Vector(t, Level(t)) = <<>>
      /\ Level(t) \in Nat
  BY <1>1, RunningTop DEF IInv, Shapes, FrameSet
<1>3. PICK f \in FrameSet :
         /\ Replace(t, f)
         /\ f.kind = "scan"
         /\ f.i = 1
         /\ f.ready = <<>>
  BY <1>1, <1>2, PlainFrames DEF Kinds
<1>4. /\ stack' \in [Threads -> Seq(FrameSet)]
      /\ Shapes'
      /\ \A u \in Threads : u # t =>
            (Running(u, "scan")' <=> Running(u, "scan")) /\ Top(u)' = Top(u)
      /\ Running(t, f.kind)'
      /\ Top(t)' = f
      /\ \A u \in Threads : \A d \in Nat :
            Vector(u, d)' = IF u = t /\ d = Level(t) THEN f.ready ELSE Vector(u, d)
  <2>1. Typed /\ Control
    BY DEF IInv, Control
  <2>2. \A u \in Threads : u # t => lock' = lock \/ lock # u
    BY <1>1, DotsAssumption
  <2> QED BY <2>1, <2>2, <1>1, <1>2, <1>3, ReplaceAny
<1>5. \A u \in Threads : \A d \in Nat : Vector(u, d)' = Vector(u, d)
  BY <1>2, <1>3, <1>4
<1>6. Books'
  BY <1>1, <1>5, BooksKept DEF IInv
<1>7. \A u \in Threads : u # t => ~Running(u, "scan")
  BY <1>1, ScannerHoldsLock, DotsAssumption DEF IInv, Control
<1>8. LockHeld'
  BY <1>1, <1>3, <1>4 DEF LockHeld, Running, Top
<1>9. ScanProgress'
  <2> SUFFICES ASSUME NEW u \in Threads, Running(u, "scan")', NEW k \in DOMAIN queue
               PROVE  /\ k < Top(u)'.i => queue[k].tick.battle # Top(u)'.battle
                      /\ k >= Top(u)'.i =>
                           \A j \in DOMAIN Top(u)'.ready :
                              Top(u)'.ready[j].serial < queue[k].serial
    BY <1>1 DEF ScanProgress
  <2>1. u = t
    BY <1>4, <1>7
  <2>2. k \in Nat /\ k >= 1
    BY SerialsAreNat DEF IInv
  <2> QED BY <2>1, <2>2, <1>3, <1>4
<1> QED BY <1>1, <1>4, <1>6, <1>8, <1>9 DEF IInv, Typed, Coalesced

\* The scan looks at one request: takes it or passes it.
LEMMA FlushScanStep ==
    ASSUME IInv, NEW t \in Threads, FlushScan(t)
    PROVE  IInv'
<1>1. /\ Running(t, "scan")
      /\ Top(t).i <= Len(queue)
      /\ UNCHANGED <<lock, status, accepted, finished>>
  BY DEF FlushScan, history
<1>2. /\ stack[t] # <<>>
      /\ Top(t) \in FrameSet
      /\ Vector(t, Level(t)) = Top(t).ready
      /\ Level(t) \in Nat
      /\ lock = t
      /\ t # Nobody
  BY <1>1, RunningTop, ScannerHoldsLock, DotsAssumption DEF IInv, Control
<1>3. \A u \in Threads : u # t => ~Running(u, "scan")
  BY <1>2, ScannerHoldsLock DEF IInv, Control
<1>4. PICK k \in DOMAIN queue : k = Top(t).i
  BY <1>1, <1>2, SerialsAreNat DEF IInv, FrameSet
<1>5. /\ queue \in Seq(Requests)
      /\ Len(queue) \in Nat
      /\ k \in 1..Len(queue)
      /\ queue[k] \in Requests
      /\ Top(t).ready \in Seq(Requests)
      /\ Top(t).kind = "scan"
  BY <1>1, <1>2, SerialsAreNat, RunningTop DEF IInv, Typed, FrameSet
<1>6. /\ \A m \in DOMAIN queue : m < k => queue[m].tick.battle # Top(t).battle
      /\ \A m \in DOMAIN queue : m >= k =>
            \A j \in DOMAIN Top(t).ready : Top(t).ready[j].serial < queue[m].serial
  BY <1>1, <1>4 DEF IInv, ScanProgress
<1>7. CASE queue[k].tick.battle = Top(t).battle
  <2>1. queue' = RemoveAt(queue, k)
    BY <1>4, <1>7 DEF FlushScan
  <2>2. /\ DOMAIN queue' = 1..(Len(queue) - 1)
        /\ queue' \in Seq(Requests)
        /\ \A i \in 1..(Len(queue) - 1) : queue'[i] = IF i < k THEN queue[i] ELSE queue[i + 1]
    BY <2>1, <1>5, RemoveAtFacts
  <2>3. PICK f \in FrameSet :
           /\ Replace(t, f)
           /\ f.kind = "scan"
           /\ f.battle = Top(t).battle
           /\ f.i = k
           /\ f.ready = Append(Top(t).ready, queue[k])
    <3> DEFINE f == [Top(t) EXCEPT !.i = IndexAfterErase(@),
                                   !.ready = ReadyAfter(@, queue[k])]
    <3>1. Replace(t, f)
      BY <1>4, <1>7 DEF FlushScan
    <3>2. Append(Top(t).ready, queue[k]) \in Seq(Requests)
      BY <1>5, AppendProperties
    <3>3. /\ f \in FrameSet
          /\ f.kind = "scan"
          /\ f.battle = Top(t).battle
          /\ f.i = k
          /\ f.ready = Append(Top(t).ready, queue[k])
      BY <1>2, <1>4, <1>5, <3>2 DEF FrameSet, IndexAfterErase, ReadyAfter
    <3> QED BY <3>1, <3>3
  <2>4. /\ stack' \in [Threads -> Seq(FrameSet)]
        /\ Shapes'
        /\ \A u \in Threads : u # t =>
              (Running(u, "scan")' <=> Running(u, "scan")) /\ Top(u)' = Top(u)
        /\ Running(t, f.kind)'
        /\ Top(t)' = f
        /\ \A u \in Threads : \A d \in Nat :
              Vector(u, d)' = IF u = t /\ d = Level(t) THEN f.ready ELSE Vector(u, d)
    <3>1. Typed /\ Control
      BY DEF IInv, Control
    <3> QED BY <3>1, <1>1, <1>2, <2>3, ReplaceAny
  <2>5. Books'
    <3>1. \A j \in DOMAIN Vector(t, Level(t)) :
             Vector(t, Level(t))[j].serial < queue[k].serial
      BY <1>2, <1>5, <1>6
    <3>2. \A u \in Threads : \A d \in Nat : Vector(u, d)' =
             IF u = t /\ d = Level(t) THEN Append(Vector(t, Level(t)), queue[k])
                                      ELSE Vector(u, d)
      BY <1>2, <2>3, <2>4
    <3>3. PICK l \in Nat : l = Level(t)
      BY <1>2
    <3>4. /\ \A j \in DOMAIN Vector(t, l) : Vector(t, l)[j].serial < queue[k].serial
          /\ \A u \in Threads : \A d \in Nat : Vector(u, d)' =
                IF u = t /\ d = l THEN Append(Vector(t, l), queue[k]) ELSE Vector(u, d)
      BY <3>1, <3>2, <3>3
    <3>5. \A m \in DOMAIN queue : m < k => queue[m].tick.battle # queue[k].tick.battle
      BY <1>6, <1>7
    <3>6. \A e \in Nat : e > l => Vector(t, e) = <<>>
      BY <1>2, <3>3 DEF Vector
    <3> QED BY <3>4, <3>5, <3>6, <1>1, <2>1, BooksMove DEF IInv
  <2>6. Typed'
    BY <1>1, <2>2, <2>4 DEF IInv, Typed
  <2>7. LockHeld'
    BY <1>1, <1>2, <2>3, <2>4 DEF LockHeld, Running, Top
  <2>8. ScanProgress'
    <3>1. /\ Len(Top(t).ready) \in Nat
          /\ DOMAIN Top(t).ready = 1..Len(Top(t).ready)
          /\ DOMAIN f.ready = 1..(Len(Top(t).ready) + 1)
          /\ \A j \in 1..Len(Top(t).ready) : f.ready[j] = Top(t).ready[j]
          /\ f.ready[Len(Top(t).ready) + 1] = queue[k]
      BY <1>5, <2>3, AppendProperties, LenProperties
    <3> SUFFICES ASSUME NEW u \in Threads, Running(u, "scan")', NEW m \in DOMAIN queue'
                 PROVE  /\ m < Top(u)'.i => queue'[m].tick.battle # Top(u)'.battle
                        /\ m >= Top(u)'.i =>
                             \A j \in DOMAIN Top(u)'.ready :
                                Top(u)'.ready[j].serial < queue'[m].serial
      BY DEF ScanProgress
    <3>2. u = t /\ Top(u)' = f
      BY <2>4, <1>3
    <3>3. CASE m < k
      <4>1. m \in DOMAIN queue /\ queue'[m] = queue[m]
        BY <3>3, <2>2, <1>5, SerialsAreNat DEF IInv
      <4> QED BY <4>1, <3>2, <3>3, <1>5, <1>6, <2>2, <2>3
    <3>4. CASE ~(m < k)
      <4>1. m + 1 \in DOMAIN queue /\ m + 1 > k /\ queue'[m] = queue[m + 1]
        BY <3>4, <2>2, <1>5, SerialsAreNat DEF IInv
      <4>2. queue[k].serial < queue[m + 1].serial
        BY <4>1, <1>5 DEF IInv, Books, InOrder, Increasing
      <4>3. \A j \in DOMAIN f.ready : f.ready[j].serial < queue'[m].serial
        <5> TAKE j \in DOMAIN f.ready
        <5>1. CASE j \in 1..Len(Top(t).ready)
          <6>1. j \in DOMAIN Top(t).ready /\ f.ready[j] = Top(t).ready[j]
            BY <5>1, <3>1
          <6>2. m + 1 >= k
            BY <4>1, <1>5, SerialsAreNat DEF IInv
          <6>3. Top(t).ready[j].serial < queue[m + 1].serial
            BY <6>1, <6>2, <4>1, <1>6
          <6> QED BY <6>1, <6>3, <4>1
        <5>2. CASE j = Len(Top(t).ready) + 1
          BY <5>2, <3>1, <4>1, <4>2
        <5> QED BY <5>1, <5>2, <3>1
      <4> QED BY <4>3, <3>2, <3>4, <2>3
    <3> QED BY <3>3, <3>4
  <2>9. Coalesced'
    <3> SUFFICES ASSUME NEW i \in 1..(Len(queue) - 1), NEW j \in 1..(Len(queue) - 1),
                        queue'[i].tick = queue'[j].tick
                 PROVE  i = j
      BY <2>2 DEF Coalesced
    <3>1. PICK m \in DOMAIN queue : queue'[i] = queue[m] /\ m = IF i < k THEN i ELSE i + 1
      BY <1>5, <2>2, SerialsAreNat DEF IInv
    <3>2. PICK n \in DOMAIN queue : queue'[j] = queue[n] /\ n = IF j < k THEN j ELSE j + 1
      BY <1>5, <2>2, SerialsAreNat DEF IInv
    <3>3. m = n
      BY <3>1, <3>2 DEF IInv, Coalesced
    <3> QED BY <3>1, <3>2, <3>3, <1>5
  <2> QED BY <2>4, <2>5, <2>6, <2>7, <2>8, <2>9 DEF IInv
<1>8. CASE queue[k].tick.battle # Top(t).battle
  <2>1. UNCHANGED queue
    BY <1>4, <1>8 DEF FlushScan
  <2>2. PICK f \in FrameSet :
           /\ Replace(t, f)
           /\ f.kind = "scan"
           /\ f.battle = Top(t).battle
           /\ f.i = k + 1
           /\ f.ready = Top(t).ready
    <3> DEFINE f == [Top(t) EXCEPT !.i = @ + 1]
    <3>1. Replace(t, f)
      BY <1>4, <1>8 DEF FlushScan
    <3>2. /\ f \in FrameSet
          /\ f.kind = "scan"
          /\ f.battle = Top(t).battle
          /\ f.i = k + 1
          /\ f.ready = Top(t).ready
      BY <1>2, <1>4, <1>5 DEF FrameSet
    <3> QED BY <3>1, <3>2
  <2>3. /\ stack' \in [Threads -> Seq(FrameSet)]
        /\ Shapes'
        /\ \A u \in Threads : u # t =>
              (Running(u, "scan")' <=> Running(u, "scan")) /\ Top(u)' = Top(u)
        /\ Running(t, f.kind)'
        /\ Top(t)' = f
        /\ \A u \in Threads : \A d \in Nat :
              Vector(u, d)' = IF u = t /\ d = Level(t) THEN f.ready ELSE Vector(u, d)
    <3>1. Typed /\ Control
      BY DEF IInv, Control
    <3> QED BY <3>1, <1>1, <1>2, <2>2, ReplaceAny
  <2>4. \A u \in Threads : \A d \in Nat : Vector(u, d)' = Vector(u, d)
    BY <2>2, <2>3, <1>2
  <2>5. Books'
    BY <2>1, <2>4, <1>1, BooksKept DEF IInv
  <2>6. LockHeld'
    BY <1>1, <1>2, <2>2, <2>3 DEF LockHeld, Running, Top
  <2>7. ScanProgress'
    <3> SUFFICES ASSUME NEW u \in Threads, Running(u, "scan")', NEW m \in DOMAIN queue
                 PROVE  /\ m < Top(u)'.i => queue[m].tick.battle # Top(u)'.battle
                        /\ m >= Top(u)'.i =>
                             \A j \in DOMAIN Top(u)'.ready :
                                Top(u)'.ready[j].serial < queue[m].serial
      BY <2>1 DEF ScanProgress
    <3>1. u = t /\ Top(u)' = f
      BY <2>3, <1>3
    <3>2. m \in Nat /\ k \in Nat
      BY <1>5, SerialsAreNat DEF IInv
    <3>3. m < k + 1 => m < k \/ m = k
      BY <3>2
    <3>4. m >= k + 1 => m >= k
      BY <3>2
    <3> QED BY <3>1, <3>3, <3>4, <2>2, <1>6, <1>8
  <2> QED BY <1>1, <2>1, <2>3, <2>5, <2>6, <2>7 DEF IInv, Typed, Coalesced
<1> QED BY <1>7, <1>8

\* The scan is over: the lock is released and the vector is delivered.
LEMMA FlushUnlockStep ==
    ASSUME IInv, NEW t \in Threads, FlushUnlock(t)
    PROVE  IInv'
<1>1. /\ Running(t, "scan")
      /\ lock' = Nobody
      /\ UNCHANGED <<queue, status, accepted, finished>>
  BY DEF FlushUnlock, LockAfterScan, history
<1>2. /\ stack[t] # <<>>
      /\ Top(t) \in FrameSet
      /\ Vector(t, Level(t)) = Top(t).ready
      /\ Level(t) \in Nat
      /\ lock = t
  BY <1>1, RunningTop, ScannerHoldsLock DEF IInv, Control
<1>3. PICK f \in FrameSet : Replace(t, f) /\ f.kind = "deliver" /\ f.ready = Top(t).ready
  <2> DEFINE f == [Top(t) EXCEPT !.kind = "deliver", !.i = 1]
  <2>0. "deliver" \in Kinds
    BY DEF Kinds
  <2>1. f \in FrameSet /\ f.kind = "deliver" /\ f.ready = Top(t).ready
    BY <1>2, <2>0, FrameFields DEF FrameSet
  <2>2. Replace(t, f)
    BY DEF FlushUnlock
  <2> QED BY <2>1, <2>2
<1>4. /\ stack' \in [Threads -> Seq(FrameSet)]
      /\ Shapes'
      /\ \A u \in Threads : u # t =>
            (Running(u, "scan")' <=> Running(u, "scan")) /\ Top(u)' = Top(u)
      /\ Running(t, f.kind)'
      /\ Top(t)' = f
      /\ \A u \in Threads : \A d \in Nat :
            Vector(u, d)' = IF u = t /\ d = Level(t) THEN f.ready ELSE Vector(u, d)
  <2>1. Typed /\ Control
    BY DEF IInv, Control
  <2> QED BY <2>1, <1>1, <1>2, <1>3, ReplaceAny
<1>5. \A u \in Threads : \A d \in Nat : Vector(u, d)' = Vector(u, d)
  BY <1>2, <1>3, <1>4
<1>6. Books'
  BY <1>1, <1>5, BooksKept DEF IInv
<1>7. \A u \in Threads : ~Running(u, "scan")'
  <2> TAKE u \in Threads
  <2>1. CASE u = t
    BY <2>1, <1>3, <1>4 DEF Running
  <2>2. CASE u # t
    BY <2>2, <1>2, <1>4, ScannerHoldsLock DEF IInv, Control
  <2> QED BY <2>1, <2>2
<1>8. LockHeld' /\ ScanProgress'
  BY <1>1, <1>7, DotsAssumption DEF LockHeld, ScanProgress
<1> QED BY <1>1, <1>4, <1>6, <1>8 DEF IInv, Typed, Coalesced

\* A delivery drops or ticks its first request; a native tick runs on top of it.
LEMMA FlushDeliverStep ==
    ASSUME IInv, NEW t \in Threads, FlushDeliver(t)
    PROVE  IInv'
<1> DEFINE request == Head(Top(t).ready)
<1>1. /\ Running(t, "deliver")
      /\ Top(t).ready # <<>>
      /\ finished' = finished \union {request.serial}
      /\ UNCHANGED <<queue, lock, status, accepted>>
  BY DEF FlushDeliver
<1>2. /\ stack[t] # <<>>
      /\ stack[t] \in Seq(FrameSet)
      /\ Top(t) \in FrameSet
      /\ Vector(t, Level(t)) = Top(t).ready
      /\ ~Running(t, "scan")
  BY <1>1, RunningTop, StackFacts DEF IInv, Running
<1>3. PICK l \in Nat : l = Level(t)
  BY <1>1, RunningTop DEF IInv
<1>4. PICK f \in FrameSet :
         /\ f = [Top(t) EXCEPT !.ready = ReadyLeft(Top(t), HasStatus(request.tick))]
         /\ f.kind = "deliver"
         /\ f.battle = Top(t).battle
         /\ f.ready = Tail(Top(t).ready)
  <2>1. Top(t).ready \in Seq(Requests) /\ Top(t).kind = "deliver"
    BY <1>1, <1>2 DEF FrameSet, Running
  <2>2. Tail(Top(t).ready) \in Seq(Requests)
    BY <1>1, <2>1, HeadTailProperties
  <2>3. PICK top \in FrameSet : top = Top(t) /\ top.kind = "deliver"
    BY <1>2, <2>1
  <2>4. PICK rest \in Seq(Requests) : rest = Tail(Top(t).ready)
    BY <2>2
  <2>5. [top EXCEPT !.ready = rest] = [Top(t) EXCEPT !.ready = ReadyLeft(Top(t), HasStatus(request.tick))]
    BY <2>3, <2>4 DEF ReadyLeft
  <2>6. /\ [top EXCEPT !.ready = rest] \in FrameSet
        /\ [top EXCEPT !.ready = rest].kind = top.kind
        /\ [top EXCEPT !.ready = rest].battle = top.battle
        /\ [top EXCEPT !.ready = rest].ready = rest
    <3>1. "deliver" \in Kinds
      BY DEF Kinds
    <3> QED BY <3>1, FrameFields
  <2> QED BY <2>3, <2>4, <2>5, <2>6
<1>5. Typed /\ Control
  BY DEF IInv, Control
<1>6. /\ stack' \in [Threads -> Seq(FrameSet)]
      /\ Control'
      /\ \A u \in Threads : \A d \in Nat :
            Vector(u, d)' = IF u = t /\ d = l THEN f.ready ELSE Vector(u, d)
  <2>1. CASE ~HasStatus(request.tick)
    <3>1. Replace(t, f)
      BY <1>4, <2>1 DEF FlushDeliver, Replace
    <3>2. /\ stack' \in [Threads -> Seq(FrameSet)]
          /\ Shapes'
          /\ \A u \in Threads : u # t =>
                (Running(u, "scan")' <=> Running(u, "scan")) /\ Top(u)' = Top(u)
          /\ Running(t, f.kind)'
          /\ Top(t)' = f
          /\ \A u \in Threads : \A d \in Nat :
                Vector(u, d)' = IF u = t /\ d = Level(t) THEN f.ready ELSE Vector(u, d)
      BY <3>1, <1>1, <1>2, <1>4, <1>5, ReplaceAny
    <3>3. ~Running(t, "scan")'
      BY <3>2, <1>4 DEF Running
    <3>4. LockHeld' /\ ScanProgress'
      <4>1. \A u \in Threads : Running(u, "scan") => Running(u, "scan")'
        BY <1>2, <3>2
      <4>2. \A u \in Threads : Running(u, "scan")' => Running(u, "scan") /\ Top(u)' = Top(u)
        BY <3>2, <3>3
      <4>3. LockHeld'
        BY <4>1, <1>1, <1>5 DEF Control, LockHeld, Running, Top
      <4>4. ScanProgress'
        BY <4>2, <1>1, <1>5 DEF Control, ScanProgress
      <4> QED BY <4>3, <4>4
    <3> QED BY <3>2, <3>4, <1>3 DEF Control
  <2>2. CASE HasStatus(request.tick)
    <3>1. PICK g \in FrameSet : /\ g = Plain("native", Top(t).battle)
                                /\ g.kind = "native"
                                /\ g.ready = <<>>
      <4>1. "native" \in Kinds /\ Top(t).battle \in Battles
        BY <1>2 DEF FrameSet, Kinds
      <4> QED BY <4>1, PlainFrames
    <3>2. /\ stack \in [Threads -> Seq(FrameSet)]
          /\ stack' = [stack EXCEPT ![t] = <<g, f>> \o Tail(stack[t])]
      BY <1>4, <2>2, <3>1 DEF FlushDeliver, IInv, Typed
    <3>3. /\ stack'[t] \in Seq(FrameSet)
          /\ stack'[t] # <<>>
          /\ Len(stack[t]) \in Nat
          /\ Len(stack[t]) >= 1
          /\ Len(stack'[t]) = Len(stack[t]) + 1
          /\ Head(stack'[t]) = g
          /\ FromBottom(stack'[t], Len(stack[t]) + 1) = g
          /\ FromBottom(stack'[t], Len(stack[t])) = f
          /\ \A d \in 1..Len(stack[t]) :
                d # Len(stack[t]) => FromBottom(stack'[t], d) = FromBottom(stack[t], d)
      <4>1. stack'[t] = <<g, f>> \o Tail(stack[t])
        BY <3>2
      <4>2. PICK s \in Seq(FrameSet) : s = stack[t]
        BY <1>2
      <4>3. /\ <<g, f>> \o Tail(s) \in Seq(FrameSet)
            /\ <<g, f>> \o Tail(s) # <<>>
            /\ Len(s) \in Nat
            /\ Len(s) >= 1
            /\ Len(<<g, f>> \o Tail(s)) = Len(s) + 1
            /\ Head(<<g, f>> \o Tail(s)) = g
            /\ FromBottom(<<g, f>> \o Tail(s), Len(s) + 1) = g
            /\ FromBottom(<<g, f>> \o Tail(s), Len(s)) = f
            /\ \A d \in 1..Len(s) :
                  d # Len(s) => FromBottom(<<g, f>> \o Tail(s), d) = FromBottom(s, d)
        BY <4>2, <1>2, ReplaceAndPushFrame
      <4> QED BY <4>1, <4>2, <4>3
    <3>4. /\ stack' \in [Threads -> Seq(FrameSet)]
          /\ \A u \in Threads : u # t => stack'[u] = stack[u]
      BY <3>2, <3>3
    <3>5. /\ Level(t)' = l + 1
          /\ l \in Nat
          /\ l >= 1
          /\ FromBottom(stack'[t], l + 1) = g
          /\ FromBottom(stack'[t], l) = f
          /\ \A d \in 1..l : d # l => At(t, d)' = At(t, d)
          /\ Top(t)' = g
      BY <3>3, <1>3 DEF Level, At, Top
    <3>6. \A d \in 1..l : At(t, d).kind # "scan"
      BY <1>2, <1>3, NoScan DEF IInv
    <3>7. Shapes'
      <4> SUFFICES ASSUME NEW u \in Threads, NEW d \in 1..Level(u)'
                   PROVE  /\ At(u, d)'.kind = "defer" => At(u, d)'.tick \in Ticks
                          /\ At(u, d)'.kind \notin {"scan", "deliver"} => At(u, d)'.ready = <<>>
                          /\ At(u, d)'.kind = "scan" => d = Level(u)' /\ lock' = u
        BY DEF Shapes
      <4>1. CASE u # t
        <5>1. Level(u)' = Level(u) /\ At(u, d)' = At(u, d)
          BY <4>1, <3>4, OtherThread, StackFacts DEF IInv
        <5> QED BY <5>1, <1>1 DEF IInv, Shapes
      <4>2. CASE u = t /\ d = l + 1
        <5>1. At(u, d)' = g
          BY <4>2, <3>5 DEF At
        <5> QED BY <5>1, <3>1
      <4>3. CASE u = t /\ d = l
        <5>1. At(u, d)' = f
          BY <4>3, <3>5 DEF At
        <5> QED BY <5>1, <1>4
      <4>4. CASE u = t /\ d # l + 1 /\ d # l
        <5>1. d \in 1..l /\ d \in 1..Level(t)
          BY <4>4, <3>5, <1>3
        <5>2. At(u, d)' = At(t, d)
          BY <4>4, <5>1, <3>5
        <5> QED BY <5>1, <5>2, <3>6 DEF IInv, Shapes
      <4> QED BY <4>1, <4>2, <4>3, <4>4
    <3>8. ~Running(t, "scan")'
      BY <3>5, <3>1 DEF Running
    <3>9. \A u \in Threads : u # t =>
             (Running(u, "scan")' <=> Running(u, "scan")) /\ Top(u)' = Top(u)
      BY <3>4, OtherThread
    <3>10. LockHeld' /\ ScanProgress'
      <4>1. \A u \in Threads : Running(u, "scan") => Running(u, "scan")'
        BY <1>2, <3>9
      <4>2. \A u \in Threads : Running(u, "scan")' => Running(u, "scan") /\ Top(u)' = Top(u)
        BY <3>8, <3>9
      <4>3. LockHeld'
        BY <4>1, <1>1, <1>5 DEF Control, LockHeld, Running, Top
      <4>4. ScanProgress'
        BY <4>2, <1>1, <1>5 DEF Control, ScanProgress
      <4> QED BY <4>3, <4>4
    <3>11. ASSUME NEW u \in Threads, NEW d \in Nat
           PROVE  Vector(u, d)' = IF u = t /\ d = l THEN f.ready ELSE Vector(u, d)
      <4>1. CASE u # t
        BY <4>1, <3>4, OtherThread
      <4>2. CASE u = t /\ d = l
        BY <4>2, <3>5 DEF Vector, At
      <4>3. CASE u = t /\ d = l + 1
        <5>1. Vector(u, d)' = <<>>
          BY <4>3, <3>5, <3>1 DEF Vector, At
        <5>2. Vector(u, d) = <<>> /\ ~(d = l)
          BY <4>3, <1>3, <3>5 DEF Vector
        <5> QED BY <5>1, <5>2
      <4>4. CASE u = t /\ d # l /\ d # l + 1
        BY <4>4, <3>5, <1>3 DEF Vector
      <4> QED BY <4>1, <4>2, <4>3, <4>4
    <3> QED BY <3>4, <3>7, <3>10, <3>11 DEF Control
  <2> QED BY <2>1, <2>2
<1>7. Vector(t, l) = Top(t).ready
  BY <1>2, <1>3
<1>8. /\ Vector(t, l) # <<>>
      /\ finished' = finished \union {Head(Vector(t, l)).serial}
      /\ \A u \in Threads : \A d \in Nat : Vector(u, d)' =
            IF u = t /\ d = l THEN Tail(Vector(t, l)) ELSE Vector(u, d)
  BY <1>1, <1>4, <1>6, <1>7
<1>9. Books' /\ finished' \subseteq Nat
  BY <1>1, <1>8, BooksFinish DEF IInv
<1> QED BY <1>1, <1>6, <1>9 DEF IInv, Typed, Control, Coalesced

-----------------------------------------------------------------------------
(* The inductive invariant and the properties.                               *)

\* No thread has called yet and nothing has been accepted.
LEMMA InitEstablishes == Init => IInv
<1> SUFFICES ASSUME Init PROVE IInv
  OBVIOUS
<1>1. Typed
  BY EmptySeq DEF Init, Typed
<1>2. \A t \in Threads : stack[t] = <<>> /\ Level(t) = 0
  BY EmptySeq DEF Init, Level
<1>3. \A t \in Threads : \A d \in Nat : Vector(t, d) = <<>>
  BY <1>2 DEF Vector
<1>4. DOMAIN queue = {} /\ \A t \in Threads : \A d \in Nat : DOMAIN Vector(t, d) = {}
  <2>1. DOMAIN <<>> = {}
    OBVIOUS
  <2> QED BY <1>3, <2>1 DEF Init
<1>5. Shapes /\ LockHeld /\ ScanProgress
  BY <1>2, DotsAssumption DEF Init, Shapes, LockHeld, ScanProgress, Running
<1>6. Held = {} /\ Queued = {} /\ finished = {}
  BY <1>4 DEF Held, Queued, Init
<1>7. 1..accepted = {}
  BY DEF Init
<1>8. Books
  BY <1>4, <1>6, <1>7 DEF Books, Accounted, HeldOnce, InOrder, Increasing, Batches, Precedes
<1>9. Coalesced
  BY <1>4 DEF Coalesced
<1> QED BY <1>1, <1>5, <1>8, <1>9 DEF IInv

\* Every step preserves the invariant.
LEMMA StepPreserves == IInv /\ [Next]_vars => IInv'
<1> SUFFICES ASSUME IInv, [Next]_vars
             PROVE  IInv'
  OBVIOUS
<1>1. ASSUME NEW actor \in Actors, NEW dot \in Dots, StatusChange(actor, dot)
      PROVE  IInv'
  <2>1. UNCHANGED <<queue, lock, stack, accepted, finished>>
    BY <1>1 DEF StatusChange, history
  <2>2. status' \subseteq Actors \X Dots
    BY <1>1 DEF StatusChange, IInv, Typed
  <2>3. \A t \in Threads : \A d \in Nat : Vector(t, d)' = Vector(t, d)
    BY <2>1 DEF Vector, Level, At
  <2>4. Books'
    BY <2>1, <2>3, BooksKept DEF IInv
  <2>5. Shapes' /\ LockHeld' /\ ScanProgress' /\ Coalesced'
    BY <2>1 DEF IInv, Shapes, LockHeld, ScanProgress, Coalesced, Level, At, Running, Top
  <2> QED BY <2>1, <2>2, <2>4, <2>5 DEF IInv, Typed
<1>2. CASE UNCHANGED vars
  <2>1. UNCHANGED <<queue, lock, stack, status, accepted, finished>>
    BY <1>2 DEF vars
  <2>2. \A t \in Threads : \A d \in Nat : Vector(t, d)' = Vector(t, d)
    BY <2>1 DEF Vector, Level, At
  <2>3. Books'
    BY <2>1, <2>2, BooksKept DEF IInv
  <2>4. Shapes' /\ LockHeld' /\ ScanProgress' /\ Coalesced'
    BY <2>1 DEF IInv, Shapes, LockHeld, ScanProgress, Coalesced, Level, At, Running, Top
  <2> QED BY <2>1, <2>3, <2>4 DEF IInv, Typed
<1>3. ASSUME NEW t \in Threads, Step(t)
      PROVE  IInv'
  BY <1>3, EngineCalls, PrimitiveCalls, Returns, DeferLockedStep, FlushLockStep,
     FlushScanStep, FlushUnlockStep, FlushDeliverStep DEF Step
<1> QED BY <1>1, <1>2, <1>3 DEF Next

\* The invariant holds in every state.
LEMMA Invariance == Spec => []IInv
BY InitEstablishes, StepPreserves, PTL DEF Spec


\* Typing: queue, lock, frames and histories have their types.
THEOREM TypeCorrect == Spec => []TypeOK
<1>1. IInv => TypeOK
  <2> SUFFICES ASSUME IInv PROVE TypeOK
    OBVIOUS
  <2>1. ASSUME NEW t \in Threads, NEW n \in DOMAIN stack[t]
        PROVE  stack[t][n] \in FrameSet
    BY NumberedFrames DEF IInv, Typed
  <2> QED BY <2>1 DEF IInv, Typed, TypeOK, FrameSet
<1> QED BY <1>1, Invariance, PTL

\* The lock of the queue is held exactly by the thread whose innermost frame is
\* a scan, so no handler or native tick runs under it.
THEOREM LockCorrect == Spec => []LockOnlyWhileScanning
<1>1. IInv => LockOnlyWhileScanning
  BY ScannerHoldsLock DEF IInv, Control, LockOnlyWhileScanning, LockHeld
<1> QED BY <1>1, Invariance, PTL

\* At most one request of the same battle, actor and DoT is queued.
THEOREM CoalescedCorrect == Spec => []Coalesced
<1>1. IInv => Coalesced
  BY DEF IInv
<1> QED BY <1>1, Invariance, PTL

\* The property's set of requests in flight is the one counted frame by frame.
LEMMA InFlightIsHeld ==
    ASSUME Typed
    PROVE  InFlight = Held
<1>1. ASSUME NEW n \in InFlight
      PROVE  n \in Held
  <2>a. PICK t \in Threads : \E frame \in Frames(t) :
           \E i \in DOMAIN frame.ready : n = frame.ready[i].serial
    BY <1>1 DEF InFlight
  <2>1. PICK m \in DOMAIN stack[t] :
           \E i \in DOMAIN stack[t][m].ready : n = stack[t][m].ready[i].serial
    BY <2>a DEF Frames
  <2>2. PICK i \in DOMAIN stack[t][m].ready : n = stack[t][m].ready[i].serial
    BY <2>1
  <2>3. PICK d \in 1..Level(t) : d \in Nat /\ stack[t][m] = At(t, d)
    BY NumberedFrames DEF Typed, Level, At
  <2>4. Vector(t, d) = stack[t][m].ready
    BY <2>3 DEF Vector
  <2>5. n \in Nat
    BY <2>2, <2>3, <2>4, SerialsAreNat
  <2> QED BY <2>2, <2>3, <2>4, <2>5 DEF Held
<1>2. ASSUME NEW n \in Held
      PROVE  n \in InFlight
  <2>1. PICK t \in Threads, d \in Nat :
           \E j \in DOMAIN Vector(t, d) : Vector(t, d)[j].serial = n
    BY <1>2 DEF Held
  <2>2. PICK j \in DOMAIN Vector(t, d) : Vector(t, d)[j].serial = n
    BY <2>1
  <2>3. d \in 1..Level(t) /\ Vector(t, d) = At(t, d).ready
    <3>1. DOMAIN <<>> = {}
      OBVIOUS
    <3> QED BY <2>2, <3>1 DEF Vector
  <2>4. Level(t) \in Nat /\ DOMAIN stack[t] = 1..Level(t)
    BY NumberedFrames DEF Typed, Level
  <2>5. PICK m \in DOMAIN stack[t] : stack[t][m] = At(t, d)
    BY <2>3, <2>4 DEF At, FromBottom, Level
  <2>6. stack[t][m] \in UNION {Frames(u) : u \in Threads}
    BY DEF Frames
  <2>7. n \in {stack[t][m].ready[i].serial : i \in DOMAIN stack[t][m].ready}
    BY <2>2, <2>3, <2>5
  <2> QED BY <2>6, <2>7 DEF InFlight
<1> QED BY <1>1, <1>2

\* Every accepted request is in exactly one place, in the order of acceptance
\* within its flush: no nesting of flushes, ticks and handlers loses one or
\* delivers one twice, and an inner flush took its requests after the outer one.
THEOREM AcceptedCorrect == Spec => []AcceptedOnceInOrder
<1>1. IInv => AcceptedOnceInOrder
  <2> SUFFICES ASSUME IInv PROVE AcceptedOnceInOrder
    OBVIOUS
  <2>1. InFlight = Held
    BY InFlightIsHeld DEF IInv
  <2>2. ASSUME NEW t \in Threads, NEW frame \in Frames(t)
        PROVE  Increasing(frame.ready) /\ Precedes(frame.ready, queue)
    <3>1. PICK m \in DOMAIN stack[t] : frame = stack[t][m]
      BY DEF Frames
    <3>2. PICK d \in 1..Level(t) : d \in Nat /\ frame = At(t, d)
      BY <3>1, NumberedFrames DEF IInv, Typed, Level, At
    <3>3. Vector(t, d) = frame.ready
      BY <3>2 DEF Vector
    <3> QED BY <3>2, <3>3 DEF IInv, Books, InOrder, Batches
  <2>3. ASSUME NEW t \in Threads, NEW outer \in DOMAIN stack[t], NEW inner \in DOMAIN stack[t],
               inner < outer
        PROVE  Precedes(stack[t][outer].ready, stack[t][inner].ready)
    <3>1. Level(t) \in Nat /\ outer \in 1..Level(t) /\ inner \in 1..Level(t)
      BY StackFacts, LenProperties DEF IInv, Level
    <3>2. PICK d \in 1..Level(t) : d = Level(t) - outer + 1
      BY <3>1
    <3>3. PICK e \in 1..Level(t) : e = Level(t) - inner + 1
      BY <3>1
    <3>4. /\ d \in Nat /\ e \in Nat /\ d < e
          /\ Level(t) - d + 1 = outer
          /\ Level(t) - e + 1 = inner
      BY <2>3, <3>1, <3>2, <3>3
    <3>5. Vector(t, d) = stack[t][outer].ready /\ Vector(t, e) = stack[t][inner].ready
      BY <3>4 DEF Vector, At, FromBottom, Level
    <3> QED BY <3>4, <3>5 DEF IInv, Books, Batches
  <2> QED BY <2>1, <2>2, <2>3 DEF AcceptedOnceInOrder, IInv, Books, Accounted, InOrder
<1> QED BY <1>1, Invariance, PTL

-----------------------------------------------------------------------------
(* The queue implements the ledger of pending ticks.                         *)

Pending == {queue[i].tick : i \in DOMAIN queue}
Boundary == IF lock = Nobody THEN {} ELSE {Top(lock).battle}

\* Steps of a thread that does not scan leave the open boundary alone.
LEMMA BoundaryKept ==
    ASSUME IInv, NEW t \in Threads, ~Running(t, "scan"), UNCHANGED lock,
           \A u \in Threads : u # t => stack'[u] = stack[u]
    PROVE  Boundary' = Boundary
<1>1. CASE lock = Nobody
  BY <1>1 DEF Boundary
<1>2. CASE lock # Nobody
  <2>1. lock \in Threads /\ lock # t
    BY <1>2 DEF IInv, Typed, LockHeld
  <2>2. Top(lock)' = Top(lock)
    BY <2>1 DEF Top
  <2> QED BY <1>2, <2>2 DEF Boundary
<1> QED BY <1>1, <1>2

\* A set of the elements of a sequence is no larger than the sequence.
LEMMA PendingBound ==
    ASSUME Typed
    PROVE  Cardinality(Pending) <= Len(queue)
<1>1. Len(queue) \in Nat /\ DOMAIN queue = 1..Len(queue)
  BY SerialsAreNat
<1> DEFINE f == [i \in 1..Len(queue) |-> queue[i].tick]
<1>2. f \in Surjection(1..Len(queue), Pending)
  BY <1>1 DEF Surjection, Pending
<1>3. ExistsSurjection(1..Len(queue), Pending)
  BY <1>2 DEF ExistsSurjection
<1> QED BY <1>1, <1>3, FS_SurjCardinalityBound

\* The frames of the other threads, whatever one thread does to its own.
LEMMA OnlyOwnStack ==
    ASSUME Typed, NEW t \in Threads, NEW e, stack' = [stack EXCEPT ![t] = e]
    PROVE  \A u \in Threads : u # t => stack'[u] = stack[u]
BY DEF Typed

\* An accepted request is a new pending tick, and there was room for it.
LEMMA DeferLockedLedger ==
    ASSUME IInv, NEW t \in Threads, DeferLocked(t)
    PROVE  (\E tick \in Ticks : Ledger!Accept(tick)) \/ UNCHANGED <<Pending, Boundary>>
<1>1. Running(t, "defer") /\ lock = Nobody /\ Pop(t) /\ lock' = lock
  BY DEF DeferLocked
<1>2. Top(t).tick \in Ticks
  BY <1>1, RunningTop DEF IInv, Shapes
<1>3. Boundary' = Boundary
  BY <1>1 DEF Boundary
<1>4. CASE ~Duplicate(Top(t).tick) /\ HasRoom
  <2>1. PICK new \in Requests : new.tick = Top(t).tick /\ queue' = Append(queue, new)
    <3> DEFINE r == [tick |-> Top(t).tick, serial |-> accepted + 1]
    <3>1. r \in Requests /\ r.tick = Top(t).tick
      BY <1>2 DEF Requests, IInv, Typed
    <3>2. queue' = Append(queue, r)
      BY <1>4 DEF DeferLocked
    <3> QED BY <3>1, <3>2
  <2>2. /\ Len(queue) \in Nat
        /\ DOMAIN queue = 1..Len(queue)
        /\ DOMAIN queue' = 1..(Len(queue) + 1)
        /\ \A i \in 1..Len(queue) : queue'[i] = queue[i]
        /\ queue'[Len(queue) + 1] = new
    BY <2>1, AppendProperties, LenProperties DEF IInv, Typed
  <2>3. Pending' = Pending \union {Top(t).tick}
    BY <2>1, <2>2 DEF Pending
  <2>4. Top(t).tick \notin Pending
    BY <1>4 DEF Duplicate, Pending
  <2>5. Cardinality(Pending) < Capacity
    <3>1. Cardinality(Pending) <= Len(queue)
      BY PendingBound DEF IInv
    <3>2. Len(queue) < Capacity /\ Capacity \in Nat
      BY <1>4, DotsAssumption DEF HasRoom
    <3>3. Cardinality(Pending) \in Nat
      <4>1. IsFiniteSet(1..Len(queue))
        BY <2>2, FS_Interval
      <4> DEFINE f == [i \in 1..Len(queue) |-> queue[i].tick]
      <4>2. f \in Surjection(1..Len(queue), Pending)
        BY <2>2 DEF Surjection, Pending
      <4>3. IsFiniteSet(Pending)
        BY <4>1, <4>2, FS_Surjection
      <4> QED BY <4>3, FS_CardinalityType
    <3> QED BY <3>1, <3>2, <3>3, <2>2
  <2>6. Ledger!Cardinality(Pending) = Cardinality(Pending)
    BY DEF Ledger!Cardinality, Cardinality
  <2>7. PICK tick \in Ticks : tick = Top(t).tick
    BY <1>2
  <2>8. Ledger!Accept(tick)
    BY <1>3, <2>3, <2>4, <2>5, <2>6, <2>7 DEF Ledger!Accept, Pending, Boundary
  <2> QED BY <2>8
<1>5. CASE ~(~Duplicate(Top(t).tick) /\ HasRoom)
  <2>1. UNCHANGED queue
    BY <1>5 DEF DeferLocked
  <2> QED BY <2>1, <1>3 DEF Pending
<1> QED BY <1>4, <1>5

\* A flush that gets the lock opens its battle's boundary.
LEMMA FlushLockLedger ==
    ASSUME IInv, NEW t \in Threads, FlushLock(t)
    PROVE  \E battle \in Battles : Ledger!Open(battle)
<1>1. /\ Running(t, "flush")
      /\ lock = Nobody
      /\ lock' = t
      /\ Replace(t, Plain("scan", Top(t).battle))
      /\ UNCHANGED queue
  BY DEF FlushLock
<1>2. stack[t] # <<>> /\ Top(t).battle \in Battles /\ t # Nobody
  BY <1>1, RunningTop, DotsAssumption DEF IInv, FrameSet
<1>3. PICK f \in FrameSet : Replace(t, f) /\ f.battle = Top(t).battle
  BY <1>1, <1>2, PlainFrames DEF Kinds
<1>4. Top(t)' = f
  BY <1>2, <1>3, ReplaceStep DEF IInv
<1>5. Boundary = {} /\ Boundary' = {Top(t).battle}
  BY <1>1, <1>2, <1>3, <1>4 DEF Boundary, Top
<1>6. Pending' = Pending
  BY <1>1 DEF Pending
<1>7. Ledger!Open(Top(t).battle)
  BY <1>5, <1>6 DEF Ledger!Open, Pending, Boundary
<1> QED BY <1>2, <1>7

\* A scan hands over a tick of its battle, or changes nothing pending.
LEMMA FlushScanLedger ==
    ASSUME IInv, NEW t \in Threads, FlushScan(t)
    PROVE  (\E tick \in Ticks : Ledger!HandOver(tick)) \/ UNCHANGED <<Pending, Boundary>>
<1>1. /\ Running(t, "scan")
      /\ Top(t).i <= Len(queue)
      /\ UNCHANGED lock
  BY DEF FlushScan
<1>2. /\ stack[t] # <<>>
      /\ Top(t) \in FrameSet
      /\ lock = t
      /\ t # Nobody
  BY <1>1, RunningTop, ScannerHoldsLock, DotsAssumption DEF IInv, Control
<1>3. PICK k \in DOMAIN queue : k = Top(t).i
  BY <1>1, <1>2, SerialsAreNat DEF IInv, FrameSet
<1>4. PICK f \in FrameSet : Replace(t, f) /\ f.battle = Top(t).battle
  <2> DEFINE g == [Top(t) EXCEPT !.i = IndexAfterErase(@),
                                 !.ready = ReadyAfter(@, queue[k])]
             h == [Top(t) EXCEPT !.i = @ + 1]
  <2>1. Top(t).ready \in Seq(Requests) /\ queue[k] \in Requests
    BY <1>2, SerialsAreNat DEF IInv, FrameSet
  <2>2. Append(Top(t).ready, queue[k]) \in Seq(Requests)
    BY <2>1, AppendProperties
  <2>3. g \in FrameSet /\ g.battle = Top(t).battle
    BY <1>2, <2>2 DEF FrameSet, IndexAfterErase, ReadyAfter
  <2>4. h \in FrameSet /\ h.battle = Top(t).battle
    BY <1>2 DEF FrameSet
  <2>5. Replace(t, g) \/ Replace(t, h)
    BY <1>3 DEF FlushScan
  <2> QED BY <2>3, <2>4, <2>5
<1>5. Top(t)' = f
  BY <1>2, <1>4, ReplaceStep DEF IInv
<1>6. Boundary' = Boundary /\ Boundary = {Top(t).battle}
  BY <1>1, <1>2, <1>4, <1>5 DEF Boundary, Top
<1>7. CASE queue[k].tick.battle = Top(t).battle
  <2>1. queue' = RemoveAt(queue, k)
    BY <1>3, <1>7 DEF FlushScan
  <2>2. /\ k \in 1..Len(queue)
        /\ Len(queue) \in Nat
        /\ DOMAIN queue = 1..Len(queue)
        /\ queue[k].tick \in Ticks
    BY SerialsAreNat DEF IInv, Requests
  <2>3. /\ DOMAIN queue' = 1..(Len(queue) - 1)
        /\ \A i \in 1..(Len(queue) - 1) : queue'[i] = IF i < k THEN queue[i] ELSE queue[i + 1]
    BY <2>1, <2>2, RemoveAtFacts DEF IInv, Typed
  <2>4. ASSUME NEW p \in Pending, p # queue[k].tick
        PROVE  p \in Pending'
    <3>1. PICK i \in 1..Len(queue) : p = queue[i].tick /\ i # k
      BY <2>2, <2>4 DEF Pending
    <3>2. PICK j \in DOMAIN queue' : queue'[j] = queue[i]
      <4>1. CASE i < k
        BY <4>1, <2>2, <2>3
      <4>2. CASE i > k
        <5>1. i - 1 \in 1..(Len(queue) - 1) /\ ~(i - 1 < k) /\ (i - 1) + 1 = i
          BY <4>2, <2>2
        <5> QED BY <5>1, <2>3
      <4> QED BY <4>1, <4>2, <3>1, <2>2
    <3> QED BY <3>1, <3>2 DEF Pending
  <2>5. ASSUME NEW p \in Pending'
        PROVE  p \in Pending /\ p # queue[k].tick
    <3>1. PICK i \in 1..(Len(queue) - 1) : p = queue'[i].tick
      BY <2>3 DEF Pending
    <3>2. PICK m \in DOMAIN queue : queue'[i] = queue[m] /\ m # k
      BY <2>2, <2>3
    <3> QED BY <3>1, <3>2 DEF Pending, IInv, Coalesced
  <2>6. Pending' = Pending \ {queue[k].tick}
    BY <2>4, <2>5
  <2>7. queue[k].tick \in Pending
    BY DEF Pending
  <2>8. PICK tick \in Ticks : tick = queue[k].tick
    BY <2>2
  <2>9. Ledger!HandOver(tick)
    BY <1>6, <1>7, <2>6, <2>7, <2>8 DEF Ledger!HandOver, Pending, Boundary
  <2> QED BY <2>9
<1>8. CASE queue[k].tick.battle # Top(t).battle
  <2>1. UNCHANGED queue
    BY <1>3, <1>8 DEF FlushScan
  <2> QED BY <2>1, <1>6 DEF Pending
<1> QED BY <1>7, <1>8

\* A scan that is over closes the boundary: nothing of its battle is pending.
LEMMA FlushUnlockLedger ==
    ASSUME IInv, NEW t \in Threads, FlushUnlock(t)
    PROVE  Ledger!Close
<1>1. /\ Running(t, "scan")
      /\ Top(t).i > Len(queue)
      /\ lock' = Nobody
      /\ UNCHANGED queue
  BY DEF FlushUnlock, LockAfterScan
<1>2. lock = t /\ t # Nobody /\ Top(t).i \in Nat
  BY <1>1, RunningTop, ScannerHoldsLock, DotsAssumption DEF IInv, Control, FrameSet
<1>3. Boundary = {Top(t).battle} /\ Boundary' = {}
  BY <1>1, <1>2 DEF Boundary
<1>4. \A k \in DOMAIN queue : queue[k].tick.battle # Top(t).battle
  <2> TAKE k \in DOMAIN queue
  <2>1. k < Top(t).i
    BY <1>1, <1>2, SerialsAreNat DEF IInv
  <2> QED BY <2>1, <1>1 DEF IInv, ScanProgress
<1>5. \A tick \in Pending : tick.battle \notin Boundary
  BY <1>3, <1>4 DEF Pending
<1>6. Pending' = Pending
  BY <1>1 DEF Pending
<1> QED BY <1>3, <1>5, <1>6 DEF Ledger!Close, Pending, Boundary

\* Every step of the queue is a step of the ledger or none.
LEMMA LedgerStep ==
    ASSUME IInv, [Next]_vars
    PROVE  Ledger!Next \/ UNCHANGED <<Pending, Boundary>>
<1>1. CASE UNCHANGED vars
  BY <1>1 DEF vars, Pending, Boundary, Top
<1>2. ASSUME NEW actor \in Actors, NEW dot \in Dots, StatusChange(actor, dot)
      PROVE  UNCHANGED <<Pending, Boundary>>
  BY <1>2 DEF StatusChange, Pending, Boundary, Top
<1>3. ASSUME NEW t \in Threads, Step(t)
      PROVE  Ledger!Next \/ UNCHANGED <<Pending, Boundary>>
  <2>1. CASE DeferLocked(t)
    BY <2>1, DeferLockedLedger DEF Ledger!Next
  <2>2. CASE FlushLock(t)
    BY <2>2, FlushLockLedger DEF Ledger!Next
  <2>3. CASE FlushScan(t)
    BY <2>3, FlushScanLedger DEF Ledger!Next
  <2>4. CASE FlushUnlock(t)
    BY <2>4, FlushUnlockLedger DEF Ledger!Next
  <2>5. CASE \/ \E battle \in Battles : EnterCallback(t, battle) \/ ActionEnd(t, battle)
             \/ \E actor \in Actors, dot \in Dots :
                   TriggerDot(t, actor, dot) \/ DeferDot(t, actor, dot)
             \/ \E kind \in Kinds : ReturnFrom(t, kind)
             \/ FlushDeliver(t) \/ FlushReturn(t)
    <3>1. UNCHANGED <<queue, lock>> /\ ~Running(t, "scan")
      BY <2>5 DEF EnterCallback, ActionEnd, TriggerDot, DeferDot, ReturnFrom, FlushDeliver,
         FlushReturn, Native, Running
    <3>2. PICK e : stack' = [stack EXCEPT ![t] = e]
      BY <2>5 DEF EnterCallback, ActionEnd, TriggerDot, DeferDot, ReturnFrom, FlushDeliver,
         FlushReturn, Push, Pop
    <3>3. Boundary' = Boundary
      BY <3>1, <3>2, OnlyOwnStack, BoundaryKept DEF IInv
    <3> QED BY <3>1, <3>3 DEF Pending
  <2> QED BY <1>3, <2>1, <2>2, <2>3, <2>4, <2>5 DEF Step
<1> QED BY <1>1, <1>2, <1>3 DEF Next

\* The detailed queue, with its lock, its scan and its nesting, implements the
\* ledger: pending ticks are bounded, new when accepted, and a boundary ends only
\* when nothing of its battle is pending.
THEOREM QueueImplementsLedger == Spec => ImplementsLedger
<1>1. Init => Ledger!Init
  <2> SUFFICES ASSUME Init PROVE Ledger!Init
    OBVIOUS
  <2>1. DOMAIN queue = {} /\ lock = Nobody
    BY DEF Init
  <2> QED BY <2>1 DEF Ledger!Init
<1>2. IInv /\ [Next]_vars => [Ledger!Next]_<<Pending, Boundary>>
  BY LedgerStep
<1>3. IInv /\ [Next]_vars =>
         [Ledger!Next]_<<{queue[i].tick : i \in DOMAIN queue},
                         IF lock = Nobody THEN {} ELSE {Top(lock).battle}>>
  BY <1>2 DEF Pending, Boundary
<1> QED BY <1>1, <1>3, Invariance, PTL DEF Spec, ImplementsLedger, Ledger!Spec
=============================================================================
