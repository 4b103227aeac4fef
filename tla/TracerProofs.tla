------------------------------ MODULE TracerProofs ------------------------------
(* For any number of threads, calls, tiles and areas: the trace tells what ran, *)
(* every roll's heroes are in it before the roll, and the selected tile is the  *)
(* one that changed. The argument is about the hooks' frames, counted from the  *)
(* bottom of their thread's stack: a frame knows the move below it (Nested), so *)
(* following the records of a thread gives the moves of its stack (Followed).   *)
EXTENDS Tracer, CallStackLemmas

-----------------------------------------------------------------------------
(* The inductive invariant.                                                  *)

Pictures == [tiles : [1..Captured -> {"nothing", "battle"}], whole : BOOLEAN] \union {NoTiles}

Frames ==
    [function : Functions,
     phase : {"enter", "native", "exit", "leave", "dump", "hero", "roll"},
     passed : BOOLEAN,
     record : Records,
     area : TileStates \union {<<>>},
     before : Pictures,
     selected : {FirstOf(tiles) : tiles \in SUBSET (1..Captured)},
     placed : 0..Tiles,
     whole : BOOLEAN]

Typed ==
    /\ stage \in {"create", "roll", "move", "restored", "done"}
    /\ hooked \subseteq Functions
    /\ open \in BOOLEAN
    /\ file \in Seq(Records)
    /\ sequence \in 0..MaxCalls
    /\ sequence <= calls
    /\ current \in [Threads -> 0..MaxCalls]
    /\ depth \in [Threads -> 0..MaxDepth]
    /\ dumped \in [Threads -> 0..Never]
    /\ stack \in [Threads -> Seq(Frames)]
    /\ \A t \in Threads : Len(stack[t]) <= MaxDepth
    /\ calls \in 0..MaxCalls
    /\ blind \in BOOLEAN

\* A frame of a thread, counted from the bottom, and the number of the move it
\* is: 0 stands for the game.
FrameAt(t, d) == FromBottom(stack[t], d)
SequenceAt(t, d) == IF d = 0 THEN 0 ELSE FrameAt(t, d).record.sequence

\* Nothing runs before the file exists; a file that has a move in it stays open.
Installed ==
    /\ stage = "create" =>
          /\ hooked = {} /\ file = <<>>
          /\ \A t \in Threads : stack[t] = <<>> /\ dumped[t] = Never
    /\ stage \in {"roll", "restored"} => hooked = {}
    /\ stage = "move" => hooked = {"roll"}
    /\ stage \in {"roll", "move", "restored"} => open
    /\ "move" \in hooked => stage = "done" /\ open
    /\ \A t \in Threads : \A d \in 1..Len(stack[t]) :
          FrameAt(t, d).function = "move" => "move" \in hooked

MovePhases == {"enter", "native", "exit", "leave"}
RollPhases == {"dump", "hero", "native", "roll", "leave"}

\* What the frame numbered d of thread t knows, and what the thread's
\* bookkeeping says of it.
FrameOK(t, d) ==
    LET f == FrameAt(t, d) IN
    /\ f.function = "move" => f.phase \in MovePhases
    /\ f.function = "roll" => f.phase \in RollPhases
    /\ f.passed => f.phase \in DOMAIN EventOf
    /\ d < Len(stack[t]) => f.function = "move" /\ f.phase = "native"
    /\ f.function = "move" =>
          /\ f.record = Record("move_enter", t, f.record.sequence, d, SequenceAt(t, d - 1))
          /\ f.record.sequence \in 1..sequence
    /\ f.function = "roll" =>
          f.record = Record("return_roll", t, current[t], depth[t], 0)

InRoll(t) == stack[t] # <<>> /\ Top(t).function = "roll"

NestedIn(t) ==
    /\ \A d \in 1..Len(stack[t]) : FrameOK(t, d)
    /\ depth[t] = IF InRoll(t) THEN Len(stack[t]) - 1 ELSE Len(stack[t])
    /\ current[t] = SequenceAt(t, depth[t])

Nested == \A t \in Threads : NestedIn(t)

\* Following the file record by record.
Follows(t, records, after) ==
    after = [n \in 0..Len(records) |->
                IF n = 0 THEN <<>> ELSE Follow(t, after[n - 1], records[n])]

FollowedIn(t) ==
    /\ \E after : Follows(t, file, after)
    /\ \A after : Follows(t, file, after) => after[Len(file)] = TracedMoves(t)

Followed == \A t \in Threads : FollowedIn(t)

\* A number is given to one move, and its enter record is written once.
Numbered ==
    /\ \A i \in DOMAIN file : file[i].event = "move_enter" => file[i].sequence <= sequence
    /\ \A i, j \in DOMAIN file :
          /\ file[i].event = "move_enter" /\ file[j].event = "move_enter"
          /\ file[i].sequence = file[j].sequence
          => i = j
    /\ \A t \in Threads : At(t, "enter") =>
          \A i \in DOMAIN file :
              file[i].event = "move_enter" => file[i].sequence # Top(t).record.sequence
    /\ \A t, u \in Threads :
          /\ At(t, "enter") /\ At(u, "enter")
          /\ Top(t).record.sequence = Top(u).record.sequence
          => t = u

\* The heroes of a thread's move are in the file.
HeroIn(t, n) ==
    \E j \in DOMAIN file :
        file[j].event = "hero_actor" /\ file[j].thread = t /\ file[j].sequence = n

HeroOf(t) ==
    /\ At(t, "hero") => dumped[t] = Top(t).record.sequence
    /\ ~blind /\ open =>
          /\ dumped[t] # Never /\ ~At(t, "hero") => HeroIn(t, dumped[t])
          /\ InRoll(t) /\ Top(t).phase \in {"native", "roll"} =>
                HeroIn(t, Top(t).record.sequence)

HeroesDumped == RollsKnowTheirHeroes /\ \A t \in Threads : HeroOf(t)

\* What a roll remembers of the area until it has compared it.
TilesOf(t) ==
    InRoll(t) =>
        /\ Top(t).phase \in {"dump", "hero", "native"} =>
              /\ Top(t).area \in TileStates
              /\ Top(t).before \in Captures(Top(t).area)
        /\ Top(t).phase = "roll" /\ Top(t).whole =>
              Top(t).selected = IF Top(t).placed <= Captured THEN Top(t).placed ELSE NoTile

TilesCompared == \A t \in Threads : TilesOf(t)

TraceInv == Typed /\ Installed /\ Nested /\ Followed /\ Numbered /\ HeroesDumped /\ TilesCompared

-----------------------------------------------------------------------------
(* Facts about the stacks and the file.                                      *)

\* A stack without its innermost frame, after a call and after a replacement.
LEMMA TailOfPush ==
    ASSUME NEW S, NEW s \in Seq(S), NEW f \in S
    PROVE  Tail(<<f>> \o s) = s
<1>1. /\ <<f>> \in Seq(S) /\ (<<f>> \o s) \in Seq(S) /\ (<<f>> \o s) # <<>>
      /\ Len(s) \in Nat /\ Len(<<f>> \o s) = Len(s) + 1
  BY PushFrame
<1>2. /\ Tail(<<f>> \o s) \in Seq(S)
      /\ Len(Tail(<<f>> \o s)) = Len(s)
      /\ \A i \in 1..Len(s) : Tail(<<f>> \o s)[i] = (<<f>> \o s)[i + 1]
  BY <1>1, HeadTailProperties
<1>3. \A i \in 1..Len(s) : (<<f>> \o s)[i + 1] = s[i]
  <2> TAKE i \in 1..Len(s)
  <2>1. i + 1 \in 1..(Len(<<f>>) + Len(s)) /\ Len(<<f>>) = 1 /\ i + 1 > 1 /\ (i + 1) - 1 = i
    BY <1>1
  <2>2. (<<f>> \o s)[i + 1] = s[(i + 1) - Len(<<f>>)]
    BY <1>1, <2>1, ConcatProperties
  <2> QED
    BY <2>1, <2>2
<1> QED
  BY <1>1, <1>2, <1>3, SeqEqual

\* The number below another one.
LEMMA OneBelow == \A n, k \in Nat : k = n - 1 /\ k >= 1 => k \in 1..n /\ k < n /\ k # 0
OBVIOUS

\* A function on 1..n is a sequence of length n.
LEMMA FunctionIsSeq ==
    ASSUME NEW S, NEW n \in Nat, NEW f \in [1..n -> S]
    PROVE  f \in Seq(S) /\ Len(f) = n
OBVIOUS

\* The numbers of a stack of frames begin with the innermost one's.
LEMMA NumbersOfStack ==
    ASSUME NEW s \in Seq(Frames), s # <<>>
    PROVE  /\ NumbersOf(s) # <<>>
           /\ NumbersOf(s) \in Seq(0..MaxCalls)
           /\ Len(NumbersOf(s)) = Len(s)
           /\ Head(NumbersOf(s)) = Head(s).record.sequence
           /\ Tail(NumbersOf(s)) = NumbersOf(Tail(s))
           /\ NumbersOf(s) = <<Head(s).record.sequence>> \o NumbersOf(Tail(s))
<1>1. /\ Len(s) \in Nat /\ Len(s) >= 1 /\ s \in [1..Len(s) -> Frames]
      /\ Head(s) = s[1] /\ Head(s) \in Frames
      /\ Tail(s) \in Seq(Frames) /\ Len(Tail(s)) = Len(s) - 1
      /\ \A i \in 1..(Len(s) - 1) : Tail(s)[i] = s[i + 1]
  BY LenProperties, EmptySeq, HeadTailProperties
<1>2. \A f \in Frames : f.record.sequence \in 0..MaxCalls
  BY DEF Frames, Records
<1>3. /\ NumbersOf(s) \in [1..Len(s) -> 0..MaxCalls]
      /\ \A i \in 1..Len(s) : NumbersOf(s)[i] = s[i].record.sequence
  BY <1>1, <1>2 DEF NumbersOf
<1>4. NumbersOf(s) \in Seq(0..MaxCalls) /\ Len(NumbersOf(s)) = Len(s)
  BY <1>1, <1>3, FunctionIsSeq
<1>5. NumbersOf(s) # <<>>
  BY <1>1, <1>4, EmptySeq
<1>6. /\ DOMAIN Tail(s) = 1..(Len(s) - 1) /\ Tail(s) \in [1..(Len(s) - 1) -> Frames]
      /\ Len(s) - 1 \in Nat
  BY <1>1, LenProperties
<1>7. /\ NumbersOf(Tail(s)) \in [1..(Len(s) - 1) -> 0..MaxCalls]
      /\ \A i \in 1..(Len(s) - 1) : NumbersOf(Tail(s))[i] = Tail(s)[i].record.sequence
  BY <1>2, <1>6 DEF NumbersOf
<1>8. NumbersOf(Tail(s)) \in Seq(0..MaxCalls) /\ Len(NumbersOf(Tail(s))) = Len(s) - 1
  BY <1>6, <1>7, FunctionIsSeq
<1>9. /\ Head(NumbersOf(s)) = NumbersOf(s)[1]
      /\ Tail(NumbersOf(s)) \in Seq(0..MaxCalls)
      /\ Len(Tail(NumbersOf(s))) = Len(s) - 1
      /\ \A i \in 1..(Len(s) - 1) : Tail(NumbersOf(s))[i] = NumbersOf(s)[i + 1]
  BY <1>4, <1>5, HeadTailProperties
<1>10. Head(NumbersOf(s)) = Head(s).record.sequence
  BY <1>1, <1>3, <1>9
<1>11. Tail(NumbersOf(s)) = NumbersOf(Tail(s))
  <2>1. ASSUME NEW i \in 1..(Len(s) - 1)
        PROVE  Tail(NumbersOf(s))[i] = NumbersOf(Tail(s))[i]
    <3>1. i + 1 \in 1..Len(s)
      BY <1>1
    <3> QED
      BY <1>1, <1>3, <1>7, <1>9, <3>1
  <2> QED
    BY <1>8, <1>9, <2>1, SeqEqual
<1>12. NumbersOf(s) = <<Head(NumbersOf(s))>> \o Tail(NumbersOf(s))
  BY <1>4, <1>5, HeadTailProperties, ConcatProperties, SeqEqual
<1> QED
  BY <1>4, <1>5, <1>10, <1>11, <1>12, Zenon

\* One record more takes the reader one step further.
LEMMA FollowOne ==
    ASSUME NEW t, NEW records \in Seq(Records), NEW record \in Records, NEW moves,
           \E after : Follows(t, records, after),
           \A after : Follows(t, records, after) => after[Len(records)] = moves
    PROVE  /\ \E after : Follows(t, Append(records, record), after)
           /\ \A after : Follows(t, Append(records, record), after) =>
                 after[Len(Append(records, record))] = Follow(t, moves, record)
<1>1. PICK longer \in Seq(Records) :
        /\ longer = Append(records, record)
        /\ Len(longer) = Len(records) + 1
        /\ \A n \in 1..Len(records) : longer[n] = records[n]
        /\ longer[Len(records) + 1] = record
  BY AppendProperties
<1>2. Len(records) \in Nat
  BY LenProperties
<1>3. \E after : Follows(t, longer, after)
  <2>1. PICK before : Follows(t, records, before)
    OBVIOUS
  <2>2. /\ \A n \in 0..Len(records) :
              before[n] = IF n = 0 THEN <<>> ELSE Follow(t, before[n - 1], records[n])
    BY <2>1 DEF Follows
  <2> DEFINE after == [n \in 0..Len(longer) |->
                         IF n = Len(longer) THEN Follow(t, before[Len(records)], record)
                                            ELSE before[n]]
  <2>3. ASSUME NEW n \in 0..Len(longer)
        PROVE  after[n] = IF n = 0 THEN <<>> ELSE Follow(t, after[n - 1], longer[n])
    <3>1. CASE n = Len(longer)
      <4>1. /\ n # 0 /\ n - 1 = Len(records) /\ n - 1 \in 0..Len(longer)
            /\ n - 1 # Len(longer) /\ longer[n] = record
        BY <1>1, <1>2, <3>1
      <4> QED
        BY <3>1, <4>1
    <3>2. CASE n # Len(longer)
      <4>1. n \in 0..Len(records) /\ after[n] = before[n]
        BY <1>1, <1>2, <3>2
      <4>2. CASE n = 0
        BY <2>2, <4>1, <4>2
      <4>3. CASE n # 0
        <5>1. /\ n \in 1..Len(records) /\ n - 1 \in 0..Len(longer) /\ n - 1 # Len(longer)
              /\ longer[n] = records[n]
          BY <1>1, <1>2, <4>1, <4>3
        <5>2. after[n - 1] = before[n - 1]
          BY <5>1
        <5> QED
          BY <2>2, <4>1, <4>3, <5>1, <5>2
      <4> QED
        BY <4>2, <4>3
    <3> QED
      BY <3>1, <3>2
  <2>4. after = [n \in 0..Len(longer) |->
                    IF n = 0 THEN <<>> ELSE Follow(t, after[n - 1], longer[n])]
    BY <2>3
  <2> HIDE DEF after
  <2> QED
    BY <2>4 DEF Follows
<1>4. ASSUME NEW after, Follows(t, longer, after)
      PROVE  after[Len(longer)] = Follow(t, moves, record)
  <2>1. \A n \in 0..Len(longer) :
           after[n] = IF n = 0 THEN <<>> ELSE Follow(t, after[n - 1], longer[n])
    BY <1>4 DEF Follows
  <2> DEFINE before == [n \in 0..Len(records) |-> after[n]]
  <2>2. ASSUME NEW n \in 0..Len(records)
        PROVE  before[n] = IF n = 0 THEN <<>> ELSE Follow(t, before[n - 1], records[n])
    <3>1. n \in 0..Len(longer) /\ before[n] = after[n]
      BY <1>1, <1>2
    <3>2. CASE n = 0
      BY <2>1, <3>1, <3>2
    <3>3. CASE n # 0
      <4>1. n \in 1..Len(records) /\ n - 1 \in 0..Len(records) /\ longer[n] = records[n]
        BY <1>1, <1>2, <3>3
      <4>2. before[n - 1] = after[n - 1]
        BY <4>1
      <4> QED
        BY <2>1, <3>1, <3>3, <4>1, <4>2
    <3> QED
      BY <3>2, <3>3
  <2>3. before = [n \in 0..Len(records) |->
                     IF n = 0 THEN <<>> ELSE Follow(t, before[n - 1], records[n])]
    BY <2>2
  <2>4. before[Len(records)] = after[Len(records)]
    BY <1>2
  <2> HIDE DEF before
  <2>5. after[Len(records)] = moves
    BY <2>3, <2>4 DEF Follows
  <2>6. /\ Len(longer) \in 0..Len(longer) /\ Len(longer) # 0
        /\ Len(longer) - 1 = Len(records) /\ longer[Len(longer)] = record
    BY <1>1, <1>2
  <2> QED
    BY <2>1, <2>5, <2>6
<1> QED
  BY <1>1, <1>3, <1>4

-----------------------------------------------------------------------------
(* What calls, returns and steps inside a hook do to the stacks.             *)

\* A thread's innermost frame has the highest number.
LEMMA TopIsFrame ==
    ASSUME Typed, NEW t \in Threads, stack[t] # <<>>
    PROVE  /\ stack[t] \in Seq(Frames) /\ Len(stack[t]) \in Nat /\ Len(stack[t]) >= 1
           /\ Top(t) \in Frames
           /\ Top(t) = FrameAt(t, Len(stack[t]))
<1>1. stack[t] \in Seq(Frames)
  BY DEF Typed
<1> QED
  BY <1>1, TopFrame DEF Top, FrameAt

\* Stacks are as long as their frames are numbered.
LEMMA StackFrames ==
    ASSUME Typed, NEW t \in Threads
    PROVE  /\ stack[t] \in Seq(Frames) /\ Len(stack[t]) \in Nat
           /\ Len(stack[t]) = 0 <=> stack[t] = <<>>
           /\ \A d \in 1..Len(stack[t]) : FrameAt(t, d) \in Frames
<1>1. stack[t] \in Seq(Frames)
  BY DEF Typed
<1> QED
  BY <1>1, NumberedFrames, EmptySeq DEF FrameAt

\* A hook goes on: its frame changes, all others stay.
LEMMA Replaced ==
    ASSUME Typed, NEW t \in Threads, stack[t] # <<>>, NEW g \in Frames, Replace(t, g)
    PROVE  /\ stack' \in [Threads -> Seq(Frames)]
           /\ stack'[t] # <<>> /\ Len(stack'[t]) = Len(stack[t])
           /\ Head(stack'[t]) = g
           /\ Tail(stack'[t]) = Tail(stack[t])
           /\ \A d \in 1..Len(stack[t]) :
                 FrameAt(t, d)' = IF d = Len(stack[t]) THEN g ELSE FrameAt(t, d)
           /\ \A u \in Threads : u # t => stack'[u] = stack[u]
<1>1. stack[t] \in Seq(Frames) /\ stack \in [Threads -> Seq(Frames)]
  BY DEF Typed
<1>2. PICK s \in Seq(Frames) : s = stack[t] /\ s # <<>>
  BY <1>1
<1>3. PICK r : r = <<g>> \o Tail(s)
  OBVIOUS
<1>4. /\ r \in Seq(Frames) /\ r # <<>> /\ Len(s) \in Nat /\ Len(r) = Len(s) /\ Head(r) = g
      /\ FromBottom(r, Len(s)) = g
      /\ \A d \in 1..Len(s) : d # Len(s) => FromBottom(r, d) = FromBottom(s, d)
  BY <1>2, <1>3, ReplaceFrame
<1>5. Tail(r) = Tail(s)
  <2>1. Tail(s) \in Seq(Frames)
    BY <1>2, HeadTailProperties
  <2> QED
    BY <1>3, <2>1, TailOfPush
<1>6. stack' = [stack EXCEPT ![t] = r]
  BY <1>2, <1>3 DEF Replace
<1>7. stack'[t] = r /\ \A u \in Threads : u # t => stack'[u] = stack[u]
  BY <1>1, <1>6
<1>8. \A d : FrameAt(t, d)' = FromBottom(r, d) /\ FrameAt(t, d) = FromBottom(s, d)
  BY <1>2, <1>7 DEF FrameAt
<1>9. stack' \in [Threads -> Seq(Frames)]
  BY <1>1, <1>4, <1>6
<1> QED
  BY <1>2, <1>4, <1>5, <1>7, <1>8, <1>9

\* A hook is entered: one frame more, numbered after the others.
LEMMA Pushed ==
    ASSUME Typed, NEW t \in Threads, NEW g \in Frames,
           stack' = [stack EXCEPT ![t] = <<g>> \o @]
    PROVE  /\ stack' \in [Threads -> Seq(Frames)]
           /\ stack'[t] # <<>> /\ Len(stack'[t]) = Len(stack[t]) + 1
           /\ Head(stack'[t]) = g
           /\ Tail(stack'[t]) = stack[t]
           /\ \A d \in 1..(Len(stack[t]) + 1) :
                 FrameAt(t, d)' = IF d = Len(stack[t]) + 1 THEN g ELSE FrameAt(t, d)
           /\ \A u \in Threads : u # t => stack'[u] = stack[u]
<1>1. stack[t] \in Seq(Frames) /\ stack \in [Threads -> Seq(Frames)]
  BY DEF Typed
<1>2. PICK s \in Seq(Frames) : s = stack[t]
  BY <1>1
<1>3. PICK r : r = <<g>> \o s
  OBVIOUS
<1>4. /\ r \in Seq(Frames) /\ r # <<>> /\ Len(s) \in Nat /\ Len(r) = Len(s) + 1 /\ Head(r) = g
      /\ FromBottom(r, Len(s) + 1) = g
      /\ \A d \in 1..Len(s) : FromBottom(r, d) = FromBottom(s, d)
  BY <1>2, <1>3, PushFrame
<1>5. Tail(r) = s
  BY <1>2, <1>3, TailOfPush
<1>6. stack' = [stack EXCEPT ![t] = r]
  BY <1>2, <1>3
<1>7. stack'[t] = r /\ \A u \in Threads : u # t => stack'[u] = stack[u]
  BY <1>1, <1>6
<1>8. \A d : FrameAt(t, d)' = FromBottom(r, d) /\ FrameAt(t, d) = FromBottom(s, d)
  BY <1>2, <1>7 DEF FrameAt
<1>9. stack' \in [Threads -> Seq(Frames)]
  BY <1>1, <1>4, <1>6
<1>10. \A d \in 1..(Len(s) + 1) : d = Len(s) + 1 \/ d \in 1..Len(s)
  BY <1>4
<1> QED
  BY <1>2, <1>4, <1>5, <1>7, <1>8, <1>9, <1>10

\* A hook returns: its frame is gone.
LEMMA Popped ==
    ASSUME Typed, NEW t \in Threads, stack[t] # <<>>,
           stack' = [stack EXCEPT ![t] = Tail(@)]
    PROVE  /\ stack' \in [Threads -> Seq(Frames)]
           /\ stack'[t] = Tail(stack[t]) /\ Len(stack'[t]) = Len(stack[t]) - 1
           /\ Len(stack'[t]) \in Nat
           /\ \A d \in 1..Len(stack'[t]) : FrameAt(t, d)' = FrameAt(t, d)
           /\ \A u \in Threads : u # t => stack'[u] = stack[u]
<1>1. stack[t] \in Seq(Frames) /\ stack \in [Threads -> Seq(Frames)]
  BY DEF Typed
<1>2. PICK s \in Seq(Frames) : s = stack[t] /\ s # <<>>
  BY <1>1
<1>3. PICK r : r = Tail(s)
  OBVIOUS
<1>4. /\ r \in Seq(Frames) /\ Len(r) = Len(s) - 1 /\ Len(r) \in Nat
      /\ \A d \in 1..Len(r) : FromBottom(r, d) = FromBottom(s, d)
  BY <1>2, <1>3, PopFrame
<1>5. stack' = [stack EXCEPT ![t] = r]
  BY <1>2, <1>3
<1>6. stack'[t] = r /\ \A u \in Threads : u # t => stack'[u] = stack[u]
  BY <1>1, <1>5
<1>7. \A d : FrameAt(t, d)' = FromBottom(r, d) /\ FrameAt(t, d) = FromBottom(s, d)
  BY <1>2, <1>6 DEF FrameAt
<1>8. stack' \in [Threads -> Seq(Frames)]
  BY <1>1, <1>4, <1>5
<1> QED
  BY <1>2, <1>3, <1>4, <1>6, <1>7, <1>8

\* What happens in one thread does not concern the frames of another.
LEMMA OtherNested ==
    ASSUME Typed, NEW u \in Threads, NestedIn(u), sequence' \in Nat, sequence <= sequence',
           stack'[u] = stack[u], current'[u] = current[u], depth'[u] = depth[u]
    PROVE  NestedIn(u)'
<1>1. sequence \in Nat
  BY TracerAssumption DEF Typed
<1>2. \A d : FrameAt(u, d)' = FrameAt(u, d) /\ SequenceAt(u, d)' = SequenceAt(u, d)
  BY DEF FrameAt, SequenceAt
<1>3. ASSUME NEW d \in 1..Len(stack[u])
      PROVE  FrameOK(u, d)'
  <2>1. FrameOK(u, d)
    BY DEF NestedIn
  <2>2. FrameAt(u, d).record.sequence \in 1..sequence =>
          FrameAt(u, d).record.sequence \in 1..sequence'
    BY <1>1
  <2>3. FrameAt(u, d)' = FrameAt(u, d) /\ SequenceAt(u, d - 1)' = SequenceAt(u, d - 1)
    BY <1>2
  <2> QED
    BY <2>1, <2>2, <2>3 DEF FrameOK
<1>4. InRoll(u)' <=> InRoll(u)
  BY DEF InRoll, Top
<1>5. SequenceAt(u, depth[u]) = SequenceAt(u, depth[u])'
  BY DEF SequenceAt, FrameAt
<1> QED
  BY <1>3, <1>4, <1>5 DEF NestedIn

-----------------------------------------------------------------------------
(* The frames and the thread's bookkeeping.                                  *)

\* Going on inside a hook keeps what the frames know.
LEMMA ReplaceNested ==
    ASSUME Typed, Nested, NEW t \in Threads, stack[t] # <<>>, NEW g \in Frames,
           Replace(t, g), g.function = Top(t).function, g.record = Top(t).record,
           g.function = "move" => g.phase \in MovePhases,
           g.function = "roll" => g.phase \in RollPhases,
           g.passed => g.phase \in DOMAIN EventOf,
           UNCHANGED <<sequence, current, depth>>
    PROVE  Nested'
<1>1. /\ stack'[t] # <<>> /\ Len(stack'[t]) = Len(stack[t]) /\ Head(stack'[t]) = g
      /\ \A d \in 1..Len(stack[t]) :
            FrameAt(t, d)' = IF d = Len(stack[t]) THEN g ELSE FrameAt(t, d)
      /\ \A u \in Threads : u # t => stack'[u] = stack[u]
  BY Replaced
<1>2. /\ Len(stack[t]) \in Nat /\ Len(stack[t]) >= 1
      /\ Top(t) = FrameAt(t, Len(stack[t]))
  BY TopIsFrame
<1>3. sequence \in Nat /\ depth[t] \in Nat
  BY TracerAssumption DEF Typed
<1>4. NestedIn(t)
  BY DEF Nested
<1>5. \A k \in 0..Len(stack[t]) : SequenceAt(t, k)' = SequenceAt(t, k)
  BY <1>1, <1>2 DEF SequenceAt
<1>6. ASSUME NEW d \in 1..Len(stack[t])
      PROVE  FrameOK(t, d)'
  <2>1. FrameOK(t, d)
    BY <1>4 DEF NestedIn
  <2>2. d - 1 \in 0..Len(stack[t])
    BY <1>2
  <2>3. SequenceAt(t, d - 1)' = SequenceAt(t, d - 1)
    BY <1>5, <2>2
  <2>4. CASE d = Len(stack[t])
    <3>1. FrameAt(t, d)' = g /\ FrameAt(t, d) = Top(t) /\ ~(d < Len(stack'[t]))
      BY <1>1, <1>2, <2>4
    <3> QED
      BY <2>1, <2>3, <3>1 DEF FrameOK
  <2>5. CASE d # Len(stack[t])
    <3>1. FrameAt(t, d)' = FrameAt(t, d) /\ d < Len(stack[t]) /\ Len(stack'[t]) = Len(stack[t])
      BY <1>1, <1>2, <2>5
    <3> QED
      BY <2>1, <2>3, <3>1 DEF FrameOK
  <2> QED
    BY <2>4, <2>5
<1>7. InRoll(t)' <=> InRoll(t)
  BY <1>1 DEF InRoll, Top
<1>8. depth[t] \in 0..Len(stack[t])
  BY <1>2, <1>3, <1>4 DEF NestedIn
<1>9. SequenceAt(t, depth[t])' = SequenceAt(t, depth[t])
  <2>1. PICK k \in 0..Len(stack[t]) : k = depth[t]
    BY <1>8
  <2>2. SequenceAt(t, k)' = SequenceAt(t, k)
    BY <1>5
  <2> QED
    BY <2>1, <2>2 DEF SequenceAt, FrameAt
<1>10. NestedIn(t)'
  BY <1>1, <1>4, <1>6, <1>7, <1>9 DEF NestedIn
<1>11. ASSUME NEW u \in Threads, u # t PROVE NestedIn(u)'
  BY <1>1, <1>3, <1>11, OtherNested DEF Nested
<1> QED
  BY <1>10, <1>11 DEF Nested

\* A call from the game or from a running move: the new frame knows the move it
\* was called from.
LEMMA PushNested ==
    ASSUME Typed, Nested, NEW t \in Threads, stack[t] = <<>> \/ InMove(t),
           NEW g \in Frames, stack' = [stack EXCEPT ![t] = <<g>> \o @], ~g.passed,
           sequence' \in Nat, sequence <= sequence',
           \A u \in Threads : u # t => current'[u] = current[u] /\ depth'[u] = depth[u],
           \/ /\ g.function = "move" /\ g.phase = "enter"
              /\ g.record = Record("move_enter", t, g.record.sequence, depth[t] + 1, current[t])
              /\ g.record.sequence \in 1..sequence'
              /\ current'[t] = g.record.sequence /\ depth'[t] = depth[t] + 1
           \/ /\ g.function = "roll" /\ g.phase = "dump"
              /\ g.record = Record("return_roll", t, current[t], depth[t], 0)
              /\ current'[t] = current[t] /\ depth'[t] = depth[t]
    PROVE  Nested'
<1>1. /\ stack'[t] # <<>> /\ Len(stack'[t]) = Len(stack[t]) + 1 /\ Head(stack'[t]) = g
      /\ \A d \in 1..(Len(stack[t]) + 1) :
            FrameAt(t, d)' = IF d = Len(stack[t]) + 1 THEN g ELSE FrameAt(t, d)
      /\ \A u \in Threads : u # t => stack'[u] = stack[u]
  BY Pushed
<1>2. Len(stack[t]) \in Nat /\ sequence \in Nat
  BY StackFrames, TracerAssumption DEF Typed
<1>3. NestedIn(t)
  BY DEF Nested
<1>4. ~InRoll(t) /\ depth[t] = Len(stack[t])
  BY <1>3 DEF NestedIn, InRoll, InMove
<1>5. ASSUME NEW k \in 0..Len(stack[t]) PROVE SequenceAt(t, k)' = SequenceAt(t, k)
  <2>1. CASE k = 0
    BY <2>1 DEF SequenceAt
  <2>2. CASE k # 0
    <3>1. k \in 1..(Len(stack[t]) + 1) /\ k # Len(stack[t]) + 1
      BY <1>2, <2>2
    <3>2. FrameAt(t, k)' = FrameAt(t, k)
      BY <1>1, <3>1
    <3> QED
      BY <2>2, <3>2 DEF SequenceAt
  <2> QED
    BY <2>1, <2>2
<1>6. current[t] = SequenceAt(t, Len(stack[t]))
  <2>1. current[t] = SequenceAt(t, depth[t])
    BY <1>3 DEF NestedIn
  <2> QED
    BY <1>4, <2>1
<1>7. ASSUME NEW d \in 1..Len(stack[t])
      PROVE  FrameOK(t, d)'
  <2>1. FrameOK(t, d)
    BY <1>3 DEF NestedIn
  <2>2. /\ d - 1 \in 0..Len(stack[t]) /\ d \in 1..(Len(stack[t]) + 1) /\ d # Len(stack[t]) + 1
    BY <1>2
  <2>3. FrameAt(t, d)' = FrameAt(t, d) /\ SequenceAt(t, d - 1)' = SequenceAt(t, d - 1)
    BY <1>1, <1>5, <2>2
  <2>4. FrameAt(t, d).function = "move" /\ FrameAt(t, d).phase = "native"
    <3>1. CASE d < Len(stack[t])
      BY <2>1, <3>1 DEF FrameOK
    <3>2. CASE d = Len(stack[t])
      <4>1. stack[t] # <<>> /\ FrameAt(t, d) = Top(t)
        BY <1>2, <3>2, StackFrames, TopIsFrame
      <4> QED
        BY <4>1 DEF InMove, At
    <3> QED
      BY <1>2, <3>1, <3>2
  <2>5. FrameAt(t, d).record.sequence \in 1..sequence'
    BY <1>2, <2>1, <2>4 DEF FrameOK
  <2> QED
    BY <2>1, <2>3, <2>4, <2>5 DEF FrameOK
<1>8. ASSUME NEW d, d = Len(stack[t]) + 1
      PROVE  FrameOK(t, d)'
  <2>1. /\ d \in 1..(Len(stack[t]) + 1) /\ d - 1 = Len(stack[t]) /\ d - 1 \in 0..Len(stack[t])
        /\ ~(d < Len(stack'[t]))
    BY <1>1, <1>2, <1>8
  <2>2. FrameAt(t, d)' = g
    BY <1>1, <1>8, <2>1
  <2>3. SequenceAt(t, d - 1)' = current[t]
    BY <1>5, <1>6, <2>1
  <2> QED
    BY <1>4, <1>8, <2>1, <2>2, <2>3 DEF FrameOK, MovePhases, RollPhases
<1>9. \A d \in 1..Len(stack'[t]) : FrameOK(t, d)'
  <2>1. \A d \in 1..Len(stack'[t]) : d \in 1..Len(stack[t]) \/ d = Len(stack[t]) + 1
    BY <1>1, <1>2
  <2> QED
    BY <1>7, <1>8, <2>1
<1>10. /\ depth'[t] = IF InRoll(t)' THEN Len(stack'[t]) - 1 ELSE Len(stack'[t])
       /\ depth'[t] = IF g.function = "roll" THEN Len(stack[t]) ELSE Len(stack[t]) + 1
  BY <1>1, <1>2, <1>4 DEF InRoll, Top
<1>11. \A d : SequenceAt(t, d)' = IF d = 0 THEN 0 ELSE FrameAt(t, d)'.record.sequence
  BY DEF SequenceAt
<1>12. current'[t] = SequenceAt(t, depth[t])'
  <2>1. PICK k : k = depth'[t]
    OBVIOUS
  <2>2. CASE g.function = "move"
    <3>1. k = Len(stack[t]) + 1 /\ k \in 1..(Len(stack[t]) + 1) /\ k # 0
      BY <1>2, <1>10, <2>1, <2>2
    <3>2. SequenceAt(t, k)' = g.record.sequence
      BY <1>1, <1>11, <3>1
    <3> QED
      BY <2>1, <2>2, <3>2 DEF SequenceAt, FrameAt
  <2>3. CASE g.function = "roll"
    <3>1. k = Len(stack[t]) /\ k \in 0..Len(stack[t])
      BY <1>2, <1>10, <2>1, <2>3
    <3>2. SequenceAt(t, k)' = current[t]
      BY <1>5, <1>6, <3>1
    <3> QED
      BY <2>1, <2>3, <3>2 DEF SequenceAt, FrameAt
  <2> QED
    BY <2>2, <2>3
<1>13. NestedIn(t)'
  BY <1>9, <1>10, <1>12 DEF NestedIn
<1>14. ASSUME NEW u \in Threads, u # t PROVE NestedIn(u)'
  BY <1>1, <1>14, OtherNested DEF Nested
<1> QED
  BY <1>13, <1>14 DEF Nested

\* A return: the bookkeeping is what the move below had.
LEMMA PopNested ==
    ASSUME Typed, Nested, NEW t \in Threads, stack[t] # <<>>,
           stack' = [stack EXCEPT ![t] = Tail(@)],
           sequence' = sequence,
           \A u \in Threads : u # t => current'[u] = current[u] /\ depth'[u] = depth[u],
           \/ /\ Top(t).function = "move"
              /\ current'[t] = Top(t).record.parent /\ depth'[t] = depth[t] - 1
           \/ /\ Top(t).function = "roll"
              /\ current'[t] = current[t] /\ depth'[t] = depth[t]
    PROVE  Nested'
<1>1. /\ stack' \in [Threads -> Seq(Frames)]
      /\ stack'[t] = Tail(stack[t]) /\ Len(stack'[t]) = Len(stack[t]) - 1
      /\ Len(stack'[t]) \in Nat
      /\ \A d \in 1..Len(stack'[t]) : FrameAt(t, d)' = FrameAt(t, d)
      /\ \A u \in Threads : u # t => stack'[u] = stack[u]
  BY Popped
<1>2. /\ Len(stack[t]) \in Nat /\ Len(stack[t]) >= 1 /\ sequence \in Nat
      /\ Top(t) = FrameAt(t, Len(stack[t]))
  <2>1. sequence \in Nat
    BY TracerAssumption DEF Typed
  <2> QED
    BY <2>1, TopIsFrame
<1>3. NestedIn(t)
  BY DEF Nested
<1>4. \A k \in 0..Len(stack'[t]) : SequenceAt(t, k)' = SequenceAt(t, k)
  BY <1>1 DEF SequenceAt
<1>5. ASSUME NEW d \in 1..Len(stack'[t])
      PROVE  FrameOK(t, d)' /\ FrameAt(t, d).function = "move"
  <2>1. /\ d \in 1..Len(stack[t]) /\ d < Len(stack[t]) /\ d - 1 \in 0..Len(stack'[t])
    BY <1>1, <1>2
  <2>2. FrameOK(t, d)
    BY <1>3, <2>1 DEF NestedIn
  <2>3. FrameAt(t, d)' = FrameAt(t, d) /\ SequenceAt(t, d - 1)' = SequenceAt(t, d - 1)
    BY <1>1, <1>4, <2>1
  <2>4. FrameAt(t, d).function = "move" /\ FrameAt(t, d).phase = "native"
    BY <2>1, <2>2 DEF FrameOK
  <2> QED
    BY <2>2, <2>3, <2>4 DEF FrameOK
<1>6. ~InRoll(t)'
  <2> SUFFICES ASSUME stack'[t] # <<>> PROVE Head(stack'[t]).function # "roll"
    BY DEF InRoll, Top
  <2>1. PICK s \in Seq(Frames) : s = stack'[t] /\ s # <<>>
    BY <1>1
  <2>2. Len(s) \in Nat /\ Len(s) >= 1 /\ Head(s) = FromBottom(s, Len(s))
    BY <2>1, TopFrame
  <2>3. PICK k \in 1..Len(stack'[t]) : k = Len(s)
    BY <2>1, <2>2
  <2>4. FrameAt(t, k)' = Head(s) /\ FrameAt(t, k)' = FrameAt(t, k)
    BY <1>1, <2>1, <2>2, <2>3 DEF FrameAt
  <2> QED
    BY <1>5, <2>1, <2>4
<1>7. depth'[t] = Len(stack'[t])
  <2>1. Top(t).function = "move" => ~InRoll(t)
    BY DEF InRoll
  <2>2. Top(t).function = "roll" => InRoll(t)
    BY DEF InRoll
  <2> QED
    BY <1>1, <1>2, <1>3, <2>1, <2>2 DEF NestedIn
<1>8. current'[t] = SequenceAt(t, depth[t])'
  <2>0. Len(stack'[t]) \in 0..Len(stack'[t])
    BY <1>1
  <2>1. PICK k \in 0..Len(stack'[t]) : k = Len(stack'[t]) /\ k = depth'[t]
    BY <1>7, <2>0
  <2>2. SequenceAt(t, k)' = SequenceAt(t, k)
    BY <1>4
  <2>3. current'[t] = SequenceAt(t, k)
    <3>1. CASE Top(t).function = "move"
      <4>1. PICK n \in 1..Len(stack[t]) : n = Len(stack[t])
        BY <1>2
      <4>2. FrameOK(t, n) /\ FrameAt(t, n) = Top(t) /\ n - 1 = k
        BY <1>1, <1>2, <1>3, <2>1, <4>1 DEF NestedIn
      <4>3. Top(t).record.parent = SequenceAt(t, n - 1)
        BY <3>1, <4>2 DEF FrameOK, Record
      <4> QED
        BY <3>1, <4>2, <4>3
    <3>2. CASE Top(t).function = "roll"
      <4>1. depth[t] = k /\ current[t] = SequenceAt(t, depth[t])
        BY <1>3, <2>1, <3>2 DEF NestedIn
      <4> QED
        BY <3>2, <4>1
    <3> QED
      BY <3>1, <3>2
  <2> QED
    BY <2>1, <2>2, <2>3 DEF SequenceAt, FrameAt
<1>9. NestedIn(t)'
  BY <1>5, <1>6, <1>7, <1>8 DEF NestedIn
<1>10. ASSUME NEW u \in Threads, u # t PROVE NestedIn(u)'
  BY <1>1, <1>2, <1>10, OtherNested DEF Nested
<1> QED
  BY <1>9, <1>10 DEF Nested

-----------------------------------------------------------------------------
(* What a reader of the trace sees.                                          *)

\* No frames, no numbers, and that is not the broken trace.
LEMMA NoNumbers == NumbersOf(<<>>) = <<>> /\ Len(<<>>) = 0 /\ <<>> # Broken
<1>1. PICK s \in Seq(Frames) : s = <<>>
  BY EmptySeq
<1>2. s \in [1..0 -> Frames] /\ DOMAIN s = 1..0 /\ Len(s) = 0
  BY <1>1, EmptySeq, LenProperties
<1>3. NumbersOf(s) \in [1..0 -> 0..MaxCalls]
  BY <1>2 DEF NumbersOf
<1>4. NumbersOf(s) \in Seq(0..MaxCalls) /\ Len(NumbersOf(s)) = 0
  BY <1>3, FunctionIsSeq
<1>5. NumbersOf(s) = <<>>
  BY <1>4, EmptySeq
<1>6. <<0>> \in Seq({0}) /\ Len(<<0>>) = 1
  OBVIOUS
<1>7. <<>> # <<0>>
  BY <1>1, <1>2, <1>6
<1> QED
  BY <1>1, <1>2, <1>5, <1>7 DEF Broken

\* The moves below the innermost frame: as many as there are frames, and the
\* innermost of them is the one that frame was called from.
LEMMA MovesBelow ==
    ASSUME Typed, Nested, NEW t \in Threads, stack[t] # <<>>,
           NEW moves, moves = NumbersOf(Tail(stack[t]))
    PROVE  /\ Len(moves) = Len(stack[t]) - 1
           /\ SequenceAt(t, Len(stack[t]) - 1) = IF moves = <<>> THEN 0 ELSE Head(moves)
           /\ moves # Broken
<1>1. PICK s \in Seq(Frames) : s = stack[t] /\ s # <<>>
  BY DEF Typed
<1>2. /\ Len(s) \in Nat /\ Len(s) >= 1
      /\ Tail(s) \in Seq(Frames) /\ Len(Tail(s)) = Len(s) - 1 /\ Len(Tail(s)) \in Nat
      /\ \A d \in 1..Len(Tail(s)) : FromBottom(Tail(s), d) = FromBottom(s, d)
  BY <1>1, TopFrame, PopFrame
<1>3. CASE Tail(s) = <<>>
  <2>1. moves = <<>> /\ Len(moves) = 0 /\ moves # Broken
    BY <1>1, <1>3, NoNumbers
  <2>2. Len(s) = 1
    <3>1. Len(Tail(s)) = 0
      BY <1>3, NoNumbers, Zenon
    <3>2. PICK n \in Nat, m \in Nat : n = Len(s) /\ m = Len(Tail(s)) /\ m = n - 1
      BY <1>2, Zenon
    <3>3. n = 1
      BY <3>1, <3>2
    <3> QED
      BY <3>2, <3>3
  <2>3. Len(stack[t]) - 1 = 0
    BY <1>1, <2>2
  <2> QED
    BY <2>1, <2>3 DEF SequenceAt
<1>4. CASE Tail(s) # <<>>
  <2>1. PICK r \in Seq(Frames) : r = Tail(s) /\ r # <<>>
    BY <1>2, <1>4
  <2>2. /\ moves # <<>> /\ moves \in Seq(0..MaxCalls)
        /\ Len(moves) = Len(r)
        /\ Head(moves) = Head(r).record.sequence
    BY <1>1, <2>1, NumbersOfStack
  <2>3. Len(r) \in Nat /\ Len(r) >= 1 /\ Head(r) = FromBottom(r, Len(r))
    BY <2>1, TopFrame
  <2>4. PICK k \in 1..Len(stack[t]) :
           k = Len(stack[t]) - 1 /\ k = Len(r) /\ k < Len(stack[t]) /\ k # 0
    <3>1. PICK n \in Nat, k \in Nat :
            n = Len(stack[t]) /\ k = Len(r) /\ k = n - 1 /\ k >= 1
      BY <1>1, <1>2, <2>1, <2>3
    <3>2. k \in 1..n /\ k < n /\ k # 0
      BY <3>1, OneBelow, Zenon
    <3> QED
      BY <3>1, <3>2
  <2>5. Head(r) = FrameAt(t, k)
    BY <1>1, <1>2, <2>1, <2>3, <2>4 DEF FrameAt
  <2>6. FrameOK(t, k)
    BY DEF Nested, NestedIn
  <2>7. FrameAt(t, k).record.sequence \in 1..sequence
    BY <2>4, <2>6 DEF FrameOK
  <2>8. Head(moves) # 0
    BY <2>2, <2>5, <2>7
  <2>9. moves # Broken
    BY <2>8 DEF Broken
  <2> QED
    BY <2>2, <2>4, <2>5, <2>9 DEF SequenceAt
<1> QED
  BY <1>3, <1>4

\* With a move innermost, its own number comes on top of these.
LEMMA MovesAll ==
    ASSUME Typed, Nested, NEW t \in Threads, stack[t] # <<>>, Top(t).function = "move",
           NEW moves, moves = NumbersOf(stack[t])
    PROVE  /\ moves # <<>>
           /\ Len(moves) = Len(stack[t])
           /\ Head(moves) = Top(t).record.sequence
           /\ Tail(moves) = NumbersOf(Tail(stack[t]))
           /\ moves # Broken
<1>1. /\ stack[t] \in Seq(Frames) /\ Len(stack[t]) \in Nat /\ Len(stack[t]) >= 1
      /\ Top(t) = FrameAt(t, Len(stack[t]))
  BY TopIsFrame
<1>2. /\ moves # <<>> /\ Len(moves) = Len(stack[t])
      /\ Head(moves) = Top(t).record.sequence
      /\ Tail(moves) = NumbersOf(Tail(stack[t]))
  BY <1>1, NumbersOfStack DEF Top
<1>3. PICK k \in 1..Len(stack[t]) : k = Len(stack[t])
  BY <1>1
<1>4. FrameOK(t, k) /\ FrameAt(t, k) = Top(t)
  BY <1>1, <1>3 DEF Nested, NestedIn
<1>5. Top(t).record.sequence \in 1..sequence
  BY <1>4 DEF FrameOK
<1>6. moves # Broken
  BY <1>2, <1>5 DEF Broken
<1> QED
  BY <1>2, <1>6

\* The traced moves before and after a step inside a hook.
LEMMA ReplaceTraced ==
    ASSUME Typed, NEW t \in Threads, stack[t] # <<>>, NEW g \in Frames, Replace(t, g),
           g.record = Top(t).record
    PROVE  /\ TracedMoves(t) = IF Traced(Top(t)) THEN NumbersOf(stack[t])
                                                 ELSE NumbersOf(Tail(stack[t]))
           /\ TracedMoves(t)' =
                 IF Traced(g) THEN <<Top(t).record.sequence>> \o NumbersOf(Tail(stack[t]))
                              ELSE NumbersOf(Tail(stack[t]))
           /\ NumbersOf(stack[t]) = <<Top(t).record.sequence>> \o NumbersOf(Tail(stack[t]))
           /\ \A u \in Threads : u # t => TracedMoves(u)' = TracedMoves(u)
<1>1. /\ stack' \in [Threads -> Seq(Frames)]
      /\ stack'[t] # <<>> /\ Head(stack'[t]) = g /\ Tail(stack'[t]) = Tail(stack[t])
      /\ \A u \in Threads : u # t => stack'[u] = stack[u]
  BY Replaced
<1>2. stack[t] \in Seq(Frames)
  BY DEF Typed
<1>3. PICK s \in Seq(Frames) : s = stack'[t] /\ s # <<>>
  BY <1>1
<1>4. NumbersOf(s) = <<Head(s).record.sequence>> \o NumbersOf(Tail(s))
  BY <1>3, NumbersOfStack
<1>5. NumbersOf(stack[t]) = <<Top(t).record.sequence>> \o NumbersOf(Tail(stack[t]))
  BY <1>2, NumbersOfStack DEF Top
<1>6. TracedMoves(t)' = IF Traced(g) THEN NumbersOf(s) ELSE NumbersOf(Tail(s))
  BY <1>1, <1>3 DEF TracedMoves, Top
<1>7. \A u \in Threads : u # t => TracedMoves(u)' = TracedMoves(u)
  BY <1>1 DEF TracedMoves, Top
<1>8. TracedMoves(t) = IF Traced(Top(t)) THEN NumbersOf(stack[t])
                                         ELSE NumbersOf(Tail(stack[t]))
  BY DEF TracedMoves
<1> QED
  BY <1>1, <1>3, <1>4, <1>5, <1>6, <1>7, <1>8

\* A hook that is entered has traced nothing yet.
LEMMA PushTraced ==
    ASSUME Typed, NEW t \in Threads, stack[t] = <<>> \/ InMove(t),
           NEW g \in Frames, stack' = [stack EXCEPT ![t] = <<g>> \o @],
           g.phase \in {"enter", "dump"}
    PROVE  \A u \in Threads : TracedMoves(u)' = TracedMoves(u)
<1>1. /\ stack'[t] # <<>> /\ Head(stack'[t]) = g /\ Tail(stack'[t]) = stack[t]
      /\ \A u \in Threads : u # t => stack'[u] = stack[u]
  BY Pushed
<1>2. ~Traced(g) /\ (stack[t] = <<>> \/ Traced(Top(t)))
  BY DEF Traced, InMove, At
<1>3. TracedMoves(t)' = NumbersOf(Tail(stack'[t]))
  BY <1>1, <1>2 DEF TracedMoves, Top
<1>4. TracedMoves(t) = NumbersOf(stack[t])
  BY <1>2 DEF TracedMoves
<1>5. \A u \in Threads : u # t => TracedMoves(u)' = TracedMoves(u)
  BY <1>1 DEF TracedMoves, Top
<1> QED
  BY <1>1, <1>3, <1>4, <1>5

\* A hook that returns has nothing left in the trace; what it returns into has.
LEMMA PopTraced ==
    ASSUME Typed, Nested, NEW t \in Threads, stack[t] # <<>>, Top(t).phase = "leave",
           stack' = [stack EXCEPT ![t] = Tail(@)]
    PROVE  \A u \in Threads : TracedMoves(u)' = TracedMoves(u)
<1>1. /\ stack' \in [Threads -> Seq(Frames)]
      /\ stack'[t] = Tail(stack[t]) /\ Len(stack'[t]) = Len(stack[t]) - 1
      /\ Len(stack'[t]) \in Nat
      /\ \A d \in 1..Len(stack'[t]) : FrameAt(t, d)' = FrameAt(t, d)
      /\ \A u \in Threads : u # t => stack'[u] = stack[u]
  BY Popped
<1>2. Len(stack[t]) \in Nat /\ Len(stack[t]) >= 1
  BY TopIsFrame
<1>3. ~Traced(Top(t))
  BY DEF Traced
<1>4. stack'[t] = <<>> \/ Traced(Head(stack'[t]))
  <2> SUFFICES ASSUME stack'[t] # <<>> PROVE Traced(Head(stack'[t]))
    OBVIOUS
  <2>1. PICK s \in Seq(Frames) : s = stack'[t] /\ s # <<>>
    BY <1>1
  <2>2. Len(s) \in Nat /\ Len(s) >= 1 /\ Head(s) = FromBottom(s, Len(s))
    BY <2>1, TopFrame
  <2>3. PICK k \in 1..Len(stack'[t]) : k = Len(s)
    BY <2>1, <2>2
  <2>4. FrameAt(t, k)' = Head(s) /\ FrameAt(t, k)' = FrameAt(t, k)
    BY <1>1, <2>1, <2>2, <2>3 DEF FrameAt
  <2>5. k \in 1..Len(stack[t]) /\ k < Len(stack[t])
    BY <1>1, <1>2, <2>1, <2>3
  <2>6. FrameOK(t, k)
    BY <2>5 DEF Nested, NestedIn
  <2> QED
    BY <2>1, <2>4, <2>5, <2>6 DEF FrameOK, Traced
<1>5. TracedMoves(t) = NumbersOf(Tail(stack[t]))
  BY <1>3 DEF TracedMoves
<1>6. TracedMoves(t)' = NumbersOf(stack'[t])
  BY <1>4 DEF TracedMoves, Top
<1>7. \A u \in Threads : u # t => TracedMoves(u)' = TracedMoves(u)
  BY <1>1 DEF TracedMoves, Top
<1> QED
  BY <1>1, <1>5, <1>6, <1>7

\* As long as nothing is written and no move's tracing changes, nothing changes
\* for the reader; otherwise the reader follows the record.
LEMMA FollowedKept ==
    ASSUME Followed, file' = file, \A u \in Threads : TracedMoves(u)' = TracedMoves(u)
    PROVE  Followed'
BY DEF Followed, FollowedIn

\* The reader follows the record that is written.
LEMMA FollowedAppend ==
    ASSUME Typed, Followed, NEW record \in Records, file' = Append(file, record),
           \A u \in Threads : TracedMoves(u)' = Follow(u, TracedMoves(u), record)
    PROVE  Followed'
<1> SUFFICES ASSUME NEW u \in Threads PROVE FollowedIn(u)'
  BY DEF Followed
<1>1. file \in Seq(Records) /\ FollowedIn(u)
  BY DEF Typed, Followed
<1>2. PICK records \in Seq(Records) : records = file
  BY <1>1
<1>3. PICK moves : moves = TracedMoves(u)
  OBVIOUS
<1>4. /\ \E after : Follows(u, records, after)
      /\ \A after : Follows(u, records, after) => after[Len(records)] = moves
  BY <1>1, <1>2, <1>3 DEF FollowedIn
<1>5. /\ \E after : Follows(u, Append(records, record), after)
      /\ \A after : Follows(u, Append(records, record), after) =>
            after[Len(Append(records, record))] = Follow(u, moves, record)
  BY <1>4, FollowOne
<1> QED
  BY <1>2, <1>3, <1>5 DEF FollowedIn

-----------------------------------------------------------------------------
(* What most steps keep.                                                     *)

\* Where a hook runs, the file was opened; in a move it is open still.
LEMMA MoveMeansOpen ==
    ASSUME Typed, Installed, NEW t \in Threads, stack[t] # <<>>
    PROVE  /\ stage # "create"
           /\ Top(t).function = "move" => "move" \in hooked /\ open
<1>1. stage # "create"
  BY DEF Installed
<1>2. PICK k \in 1..Len(stack[t]) : Top(t) = FrameAt(t, k)
  <2>1. Len(stack[t]) \in 1..Len(stack[t]) /\ Top(t) = FrameAt(t, Len(stack[t]))
    BY TopIsFrame
  <2> QED
    BY <2>1
<1> QED
  BY <1>1, <1>2 DEF Installed

\* Steps of the hooks leave the installation alone.
LEMMA ReplaceInstalled ==
    ASSUME Typed, Installed, NEW t \in Threads, stack[t] # <<>>, NEW g \in Frames,
           Replace(t, g), g.function = Top(t).function, UNCHANGED setup
    PROVE  Installed'
<1>1. /\ Len(stack'[t]) = Len(stack[t])
      /\ \A d \in 1..Len(stack[t]) :
            FrameAt(t, d)' = IF d = Len(stack[t]) THEN g ELSE FrameAt(t, d)
      /\ \A u \in Threads : u # t => stack'[u] = stack[u]
  BY Replaced
<1>2. stage # "create" /\ (g.function = "move" => "move" \in hooked)
  BY MoveMeansOpen
<1>3. ASSUME NEW u \in Threads, NEW d \in 1..Len(stack'[u]), FrameAt(u, d)'.function = "move"
      PROVE  "move" \in hooked
  <2>1. CASE u = t
    BY <1>1, <1>2, <1>3, <2>1 DEF Installed
  <2>2. CASE u # t
    BY <1>1, <1>3, <2>2 DEF Installed, FrameAt
  <2> QED
    BY <2>1, <2>2
<1> QED
  BY <1>2, <1>3 DEF Installed, setup

\* A call begins only where a hook is in place.
LEMMA PushInstalled ==
    ASSUME Typed, Installed, NEW t \in Threads, NEW g \in Frames,
           stack' = [stack EXCEPT ![t] = <<g>> \o @], g.function \in hooked, UNCHANGED setup
    PROVE  Installed'
<1>1. /\ Len(stack'[t]) = Len(stack[t]) + 1 /\ Len(stack[t]) \in Nat
      /\ \A d \in 1..(Len(stack[t]) + 1) :
            FrameAt(t, d)' = IF d = Len(stack[t]) + 1 THEN g ELSE FrameAt(t, d)
      /\ \A u \in Threads : u # t => stack'[u] = stack[u]
  BY Pushed, StackFrames
<1>2. stage # "create"
  BY DEF Installed
<1>3. ASSUME NEW u \in Threads, NEW d \in 1..Len(stack'[u]), FrameAt(u, d)'.function = "move"
      PROVE  "move" \in hooked
  <2>1. CASE u = t
    <3>1. d = Len(stack[t]) + 1 \/ d \in 1..Len(stack[t])
      BY <1>1, <2>1
    <3>2. FrameAt(t, d)' = IF d = Len(stack[t]) + 1 THEN g ELSE FrameAt(t, d)
      BY <1>1, <2>1
    <3> QED
      BY <1>3, <2>1, <3>1, <3>2 DEF Installed
  <2>2. CASE u # t
    BY <1>1, <1>3, <2>2 DEF Installed, FrameAt
  <2> QED
    BY <2>1, <2>2
<1> QED
  BY <1>2, <1>3 DEF Installed, setup

\* A return leaves the moves below.
LEMMA PopInstalled ==
    ASSUME Typed, Installed, NEW t \in Threads, stack[t] # <<>>,
           stack' = [stack EXCEPT ![t] = Tail(@)], UNCHANGED setup
    PROVE  Installed'
<1>1. /\ Len(stack'[t]) = Len(stack[t]) - 1 /\ Len(stack[t]) \in Nat
      /\ \A d \in 1..Len(stack'[t]) : FrameAt(t, d)' = FrameAt(t, d)
      /\ \A u \in Threads : u # t => stack'[u] = stack[u]
  BY Popped, StackFrames
<1>2. stage # "create"
  BY MoveMeansOpen
<1>3. ASSUME NEW u \in Threads, NEW d \in 1..Len(stack'[u]), FrameAt(u, d)'.function = "move"
      PROVE  "move" \in hooked
  <2>1. CASE u = t
    <3>1. d \in 1..Len(stack[t]) /\ FrameAt(t, d)' = FrameAt(t, d)
      BY <1>1, <2>1
    <3> QED
      BY <1>3, <2>1, <3>1 DEF Installed
  <2>2. CASE u # t
    BY <1>1, <1>3, <2>2 DEF Installed, FrameAt
  <2> QED
    BY <2>1, <2>2
<1> QED
  BY <1>2, <1>3 DEF Installed, setup

\* A step inside a hook writes nothing but these.
LEMMA ReplaceTyped ==
    ASSUME Typed, NEW t \in Threads, stack[t] # <<>>, NEW g \in Frames, Replace(t, g),
           UNCHANGED <<setup, sequence, current, depth, calls>>,
           file' \in Seq(Records), dumped' \in [Threads -> 0..Never], blind' \in BOOLEAN
    PROVE  Typed'
<1>1. /\ stack' \in [Threads -> Seq(Frames)] /\ Len(stack'[t]) = Len(stack[t])
      /\ \A u \in Threads : u # t => stack'[u] = stack[u]
  BY Replaced
<1>2. \A u \in Threads : Len(stack'[u]) <= MaxDepth
  BY <1>1 DEF Typed
<1> QED
  BY <1>1, <1>2 DEF Typed, setup

\* Numbers stay unique as long as no move is numbered and none enters the file.
LEMMA NumberedKept ==
    ASSUME Typed, Numbered, sequence' = sequence,
           file' = file \/ \E record \in Records :
                              file' = Append(file, record) /\ record.event # "move_enter",
           \A u \in Threads : At(u, "enter")' =>
               At(u, "enter") /\ Top(u)'.record.sequence = Top(u).record.sequence
    PROVE  Numbered'
<1>1. ASSUME NEW i \in DOMAIN file', file'[i].event = "move_enter"
      PROVE  i \in DOMAIN file /\ file'[i] = file[i]
  <2>1. CASE file' = file
    BY <1>1, <2>1
  <2>2. CASE file' # file
    <3>1. PICK record \in Records : file' = Append(file, record) /\ record.event # "move_enter"
      BY <2>2
    <3>2. /\ file \in Seq(Records) /\ Len(file) \in Nat /\ DOMAIN file = 1..Len(file)
          /\ file' \in Seq(Records) /\ Len(file') = Len(file) + 1
          /\ \A n \in 1..Len(file) : file'[n] = file[n]
          /\ file'[Len(file) + 1] = record
      BY <3>1, AppendProperties, LenProperties DEF Typed
    <3>3. i \in 1..Len(file')
      BY <1>1, <3>2, LenProperties
    <3>4. i # Len(file) + 1
      BY <1>1, <3>1, <3>2, Zenon
    <3>5. i \in 1..Len(file)
      BY <3>2, <3>3, <3>4
    <3> QED
      BY <3>2, <3>5
  <2> QED
    BY <2>1, <2>2
<1>2. \A i \in DOMAIN file' : file'[i].event = "move_enter" => file'[i].sequence <= sequence'
  BY <1>1 DEF Numbered
<1>3. \A i, j \in DOMAIN file' :
          /\ file'[i].event = "move_enter" /\ file'[j].event = "move_enter"
          /\ file'[i].sequence = file'[j].sequence
          => i = j
  BY <1>1 DEF Numbered
<1>4. ASSUME NEW u \in Threads, At(u, "enter")', NEW i \in DOMAIN file',
             file'[i].event = "move_enter"
      PROVE  file'[i].sequence # Top(u)'.record.sequence
  BY <1>1, <1>4 DEF Numbered
<1>5. ASSUME NEW u \in Threads, NEW v \in Threads, At(u, "enter")', At(v, "enter")',
             Top(u)'.record.sequence = Top(v)'.record.sequence
      PROVE  u = v
  BY <1>5 DEF Numbered
<1> QED
  BY <1>2, <1>3, <1>4, <1>5 DEF Numbered

\* What is in the file stays in it.
LEMMA AppendKeeps ==
    ASSUME Typed, NEW record \in Records, file' = Append(file, record)
    PROVE  /\ file' \in Seq(Records)
           /\ Len(file) \in Nat /\ DOMAIN file = 1..Len(file)
           /\ Len(file') = Len(file) + 1 /\ DOMAIN file' = 1..(Len(file) + 1)
           /\ \A n \in 1..Len(file) : file'[n] = file[n]
           /\ file'[Len(file) + 1] = record
<1>1. file \in Seq(Records)
  BY DEF Typed
<1>2. /\ Len(file) \in Nat /\ DOMAIN file = 1..Len(file)
      /\ file' \in Seq(Records) /\ Len(file') = Len(file) + 1
      /\ \A n \in 1..Len(file) : file'[n] = file[n]
      /\ file'[Len(file) + 1] = record
  BY <1>1, AppendProperties, LenProperties
<1>3. DOMAIN file' = 1..(Len(file) + 1)
  BY <1>2, LenProperties
<1> QED
  BY <1>2, <1>3

\* A hero in the file stays in it.
LEMMA HeroStays ==
    ASSUME Typed, NEW u, NEW n, HeroIn(u, n),
           file' = file \/ \E record \in Records : file' = Append(file, record)
    PROVE  HeroIn(u, n)'
<1>1. PICK j \in DOMAIN file :
        file[j].event = "hero_actor" /\ file[j].thread = u /\ file[j].sequence = n
  BY DEF HeroIn
<1>2. j \in DOMAIN file' /\ file'[j] = file[j]
  <2>1. CASE file' = file
    BY <2>1
  <2>2. ASSUME NEW record \in Records, file' = Append(file, record)
        PROVE  j \in DOMAIN file' /\ file'[j] = file[j]
    <3>1. /\ Len(file) \in Nat /\ DOMAIN file = 1..Len(file)
          /\ DOMAIN file' = 1..(Len(file) + 1)
          /\ \A i \in 1..Len(file) : file'[i] = file[i]
      BY <2>2, AppendKeeps
    <3> QED
      BY <3>1
  <2> QED
    BY <2>1, <2>2
<1> QED
  BY <1>1, <1>2 DEF HeroIn

\* A thread that neither dumps nor enters the native roll keeps its heroes.
LEMMA HeroKept ==
    ASSUME Typed, NEW u \in Threads, HeroOf(u), dumped'[u] = dumped[u],
           open' => open, blind => blind',
           file' = file \/ \E record \in Records : file' = Append(file, record),
           At(u, "hero") <=> At(u, "hero")',
           At(u, "hero")' => Top(u)'.record = Top(u).record,
           InRoll(u)' /\ Top(u)'.phase \in {"native", "roll"} =>
               /\ InRoll(u) /\ Top(u).phase \in {"native", "roll"}
               /\ Top(u)'.record = Top(u).record
    PROVE  HeroOf(u)'
<1>1. At(u, "hero")' => dumped'[u] = Top(u)'.record.sequence
  BY DEF HeroOf
<1>2. ASSUME ~blind', open', dumped'[u] # Never, ~At(u, "hero")'
      PROVE  HeroIn(u, dumped[u])'
  <2>1. PICK n : n = dumped[u] /\ n = dumped'[u]
    OBVIOUS
  <2>2. HeroIn(u, n)
    BY <1>2, <2>1 DEF HeroOf
  <2>3. HeroIn(u, n)'
    BY <2>2, HeroStays
  <2> QED
    BY <2>1, <2>3 DEF HeroIn
<1>3. ASSUME ~blind', open', InRoll(u)', Top(u)'.phase \in {"native", "roll"}
      PROVE  HeroIn(u, Top(u).record.sequence)'
  <2>1. PICK n : n = Top(u).record.sequence /\ n = Top(u)'.record.sequence
    BY <1>3
  <2>2. HeroIn(u, n)
    BY <1>3, <2>1 DEF HeroOf
  <2>3. HeroIn(u, n)'
    BY <2>2, HeroStays
  <2> QED
    BY <2>1, <2>3 DEF HeroIn
<1> QED
  BY <1>1, <1>2, <1>3 DEF HeroOf

\* Steps of one thread keep the heroes of the others.
LEMMA OtherHeroes ==
    ASSUME Typed, NEW t \in Threads, \A u \in Threads : HeroOf(u),
           \A u \in Threads : u # t => dumped'[u] = dumped[u] /\ stack'[u] = stack[u],
           open' => open, blind => blind',
           file' = file \/ \E record \in Records : file' = Append(file, record)
    PROVE  \A u \in Threads : u # t => HeroOf(u)'
<1> SUFFICES ASSUME NEW u \in Threads, u # t PROVE HeroOf(u)'
  OBVIOUS
<1>1. Top(u)' = Top(u) /\ (InRoll(u)' <=> InRoll(u)) /\ (At(u, "hero")' <=> At(u, "hero"))
  BY DEF Top, InRoll, At
<1> QED
  BY <1>1, HeroKept

\* A roll's record goes out when its heroes are in the file.
LEMMA RollsKept ==
    ASSUME Typed, RollsKnowTheirHeroes, blind => blind',
           file' = file \/
               \E record \in Records :
                  /\ file' = Append(file, record)
                  /\ record.event = "return_roll" =>
                        blind' \/ HeroIn(record.thread, record.sequence)
    PROVE  RollsKnowTheirHeroes'
<1> SUFFICES ASSUME ~blind', NEW i \in DOMAIN file', file'[i].event = "return_roll"
             PROVE  \E j \in 1..(i - 1) : /\ file'[j].event = "hero_actor"
                                          /\ file'[j].thread = file'[i].thread
                                          /\ file'[j].sequence = file'[i].sequence
  BY DEF RollsKnowTheirHeroes
<1>1. CASE file' = file
  BY <1>1 DEF RollsKnowTheirHeroes
<1>2. ASSUME NEW record \in Records, file' = Append(file, record),
             record.event = "return_roll" =>
                blind' \/ HeroIn(record.thread, record.sequence)
      PROVE  \E j \in 1..(i - 1) : /\ file'[j].event = "hero_actor"
                                   /\ file'[j].thread = file'[i].thread
                                   /\ file'[j].sequence = file'[i].sequence
  <2>1. /\ Len(file) \in Nat /\ DOMAIN file = 1..Len(file)
        /\ DOMAIN file' = 1..(Len(file) + 1)
        /\ \A n \in 1..Len(file) : file'[n] = file[n]
        /\ file'[Len(file) + 1] = record
    BY <1>2, AppendKeeps
  <2>2. CASE i = Len(file) + 1
    <3>1. record = file'[i] /\ HeroIn(record.thread, record.sequence)
      BY <1>2, <2>1, <2>2, Zenon
    <3>2. PICK j \in DOMAIN file :
            /\ file[j].event = "hero_actor"
            /\ file[j].thread = record.thread /\ file[j].sequence = record.sequence
      BY <3>1 DEF HeroIn
    <3>3. j \in 1..(i - 1) /\ file'[j] = file[j]
      BY <2>1, <2>2, <3>2
    <3> QED
      BY <3>1, <3>2, <3>3
  <2>3. CASE i # Len(file) + 1
    <3>1. i \in DOMAIN file /\ file'[i] = file[i]
      BY <2>1, <2>3
    <3>2. PICK j \in 1..(i - 1) : /\ file[j].event = "hero_actor"
                                  /\ file[j].thread = file[i].thread
                                  /\ file[j].sequence = file[i].sequence
      BY <3>1 DEF RollsKnowTheirHeroes
    <3>3. file'[j] = file[j]
      BY <2>1, <3>1, <3>2
    <3> QED
      BY <3>1, <3>2, <3>3
  <2> QED
    BY <2>2, <2>3
<1> QED
  BY <1>1, <1>2

\* What the rolls of other threads remember is theirs.
LEMMA OtherTiles ==
    ASSUME NEW t \in Threads, TilesCompared, TilesOf(t)',
           \A u \in Threads : u # t => stack'[u] = stack[u]
    PROVE  TilesCompared'
<1> SUFFICES ASSUME NEW u \in Threads, u # t PROVE TilesOf(u)'
  BY DEF TilesCompared
<1>1. Top(u)' = Top(u) /\ (InRoll(u)' <=> InRoll(u))
  BY DEF Top, InRoll
<1> QED
  BY <1>1 DEF TilesCompared, TilesOf

-----------------------------------------------------------------------------
(* Each step keeps the invariant.                                            *)

\* A step that touches neither threads nor file.
LEMMA SetupStep ==
    ASSUME TraceInv, UNCHANGED <<file, calling>>, open' => open,
           stage' \in {"create", "roll", "move", "restored", "done"},
           hooked' \subseteq Functions, open' \in BOOLEAN, Installed'
    PROVE  TraceInv'
<1>1. Typed'
  BY DEF TraceInv, Typed, calling, locals
<1>2. Nested'
  BY DEF TraceInv, Nested, NestedIn, FrameOK, FrameAt, SequenceAt, InRoll, Top, calling, locals
<1>3. Followed'
  BY FollowedKept DEF TraceInv, TracedMoves, Top, calling
<1>4. Numbered'
  BY DEF TraceInv, Numbered, At, Top, calling
<1>5. HeroesDumped'
  <2>1. RollsKnowTheirHeroes'
    BY DEF TraceInv, HeroesDumped, RollsKnowTheirHeroes, calling
  <2>2. ASSUME NEW u \in Threads PROVE HeroOf(u)'
    <3>1. Top(u)' = Top(u) /\ (InRoll(u)' <=> InRoll(u)) /\ (At(u, "hero")' <=> At(u, "hero"))
      BY DEF Top, InRoll, At, calling
    <3>2. HeroOf(u) /\ Typed /\ dumped' = dumped /\ blind' = blind /\ file' = file
      BY DEF TraceInv, HeroesDumped, calling, locals
    <3> QED
      BY <3>1, <3>2, HeroKept
  <2> QED
    BY <2>1, <2>2 DEF HeroesDumped
<1>6. TilesCompared'
  BY DEF TraceInv, TilesCompared, TilesOf, InRoll, Top, calling
<1> QED
  BY <1>1, <1>2, <1>3, <1>4, <1>5, <1>6 DEF TraceInv

\* The installer's steps after the file was created.
LEMMA WorkerSteps ==
    ASSUME TraceInv, RestoreRoll \/ CloseFile \/ \E f \in Functions : Patch(f)
    PROVE  TraceInv'
<1>1. Typed /\ Installed
  BY DEF TraceInv
<1>2. \A u \in Threads : \A d : FrameAt(u, d) = FromBottom(stack[u], d)
  BY DEF FrameAt
<1>3. CASE RestoreRoll
  <2>1. /\ stage = "move" /\ hooked = {"roll"} /\ "move" \notin hooked /\ open
    BY <1>1, <1>3 DEF RestoreRoll, Installed
  <2>2. /\ stage' = "restored" /\ hooked' = {} /\ open' = open /\ file' = file
        /\ stack' = stack /\ UNCHANGED calling
    BY <1>3 DEF RestoreRoll, calling
  <2>3. Installed'
    BY <1>1, <2>1, <2>2 DEF Installed, FrameAt
  <2> QED
    BY <1>1, <2>1, <2>2, <2>3, SetupStep DEF Typed
<1>4. CASE CloseFile
  <2>1. hooked = {} /\ stage # "create"
    BY <1>1, <1>4 DEF CloseFile, Installed
  <2>2. /\ stage' = "done" /\ hooked' = hooked /\ open' = FALSE /\ file' = file
        /\ stack' = stack /\ UNCHANGED calling
    BY <1>4 DEF CloseFile, calling
  <2>3. Installed'
    BY <1>1, <2>1, <2>2 DEF Installed, FrameAt
  <2> QED
    BY <1>1, <2>1, <2>2, <2>3, SetupStep DEF Typed
<1>5. CASE \E f \in Functions : Patch(f)
  <2>1. PICK f \in Functions : Patch(f)
    BY <1>5
  <2>2. /\ stage = f /\ stage # "create" /\ open /\ open' = open /\ file' = file
        /\ hooked' = hooked \union {f} /\ stack' = stack /\ UNCHANGED calling
        /\ stage' = IF f = "roll" THEN "move" ELSE "done"
    BY <1>1, <2>1 DEF Patch, Installed, Functions, calling
  <2>3. f = "roll" => hooked = {}
    BY <1>1, <2>2 DEF Installed
  <2>4. f = "roll" \/ f = "move"
    BY DEF Functions
  <2>5. hooked' \subseteq Functions
    BY <1>1, <2>2 DEF Typed
  <2>6. f = "roll" => hooked' = {"roll"}
    BY <2>2, <2>3
  <2>7. \A u \in Threads : \A d \in 1..Len(stack'[u]) :
           FrameAt(u, d)'.function = "move" => "move" \in hooked'
    BY <1>1, <2>2 DEF Installed, FrameAt
  <2>8. Installed'
    BY <2>2, <2>4, <2>6, <2>7 DEF Installed
  <2> QED
    BY <1>1, <2>2, <2>4, <2>5, <2>8, SetupStep DEF Typed
<1> QED
  BY <1>3, <1>4, <1>5

\* The file gets its first record, or there is none.
LEMMA CreateFileStep == ASSUME TraceInv, CreateFile PROVE TraceInv'
<1>1. Typed /\ Installed /\ UNCHANGED <<hooked, calling>> /\ stage = "create"
  BY DEF TraceInv, CreateFile
<1>2. /\ hooked = {} /\ file = <<>>
      /\ \A u \in Threads : stack[u] = <<>> /\ dumped[u] = Never
  BY <1>1 DEF Installed
<1>3. /\ stack' = stack /\ dumped' = dumped /\ blind' = blind /\ sequence' = sequence
      /\ current' = current /\ depth' = depth /\ calls' = calls /\ hooked' = hooked
  BY <1>1 DEF calling, locals
<1>4. CASE stage' = "done" /\ UNCHANGED <<open, file>>
  <2>1. Installed'
    BY <1>1, <1>2, <1>3, <1>4, EmptySeq DEF Installed, FrameAt
  <2> QED
    BY <1>1, <1>4, <2>1, SetupStep DEF Typed
<1>5. ASSUME stage' = "roll", open' = TRUE,
             file' = <<Record("session_start", "worker", 0, 0, 0)>>
      PROVE  TraceInv'
  <2>1. Record("session_start", "worker", 0, 0, 0) \in Records
    BY TracerAssumption DEF Record, Records
  <2>2. PICK first \in Records : /\ first = Record("session_start", "worker", 0, 0, 0)
                                 /\ first.event = "session_start" /\ first.sequence = 0
    BY <2>1 DEF Record
  <2>3. file' = Append(file, first)
    BY <1>2, <1>5, <2>2
  <2>4. /\ file' \in Seq(Records) /\ DOMAIN file' = {1} /\ file'[1] = first
    BY <1>5, <2>2
  <2>5. Typed'
    BY <1>1, <1>3, <1>5, <2>4 DEF Typed
  <2>6. Installed'
    <3>1. \A u \in Threads : Len(stack'[u]) = 0
      BY <1>2, <1>3, NoNumbers
    <3> QED
      BY <1>2, <1>3, <1>5, <3>1 DEF Installed
  <2>7. Nested'
    BY <1>3 DEF TraceInv, Nested, NestedIn, FrameOK, FrameAt, SequenceAt, InRoll, Top
  <2>8. Followed'
    <3>1. ASSUME NEW u \in Threads
          PROVE  TracedMoves(u)' = Follow(u, TracedMoves(u), first)
      <4>1. TracedMoves(u) = <<>> /\ TracedMoves(u)' = <<>>
        BY <1>2, <1>3, NoNumbers DEF TracedMoves
      <4>2. Follow(u, <<>>, first) = <<>>
        BY <2>2 DEF Follow
      <4> QED
        BY <4>1, <4>2
    <3> QED
      BY <1>1, <2>3, <3>1, FollowedAppend DEF TraceInv
  <2>9. Numbered'
    <3>1. \A u \in Threads : ~At(u, "enter")'
      BY <1>2, <1>3 DEF At
    <3> QED
      BY <1>1, <2>2, <2>3, <3>1, <1>3, NumberedKept DEF TraceInv
  <2>10. HeroesDumped'
    <3>1. RollsKnowTheirHeroes'
      BY <2>2, <2>4 DEF RollsKnowTheirHeroes
    <3>2. \A u \in Threads : HeroOf(u)'
      BY <1>2, <1>3 DEF HeroOf, At, InRoll
    <3> QED
      BY <3>1, <3>2 DEF HeroesDumped
  <2>11. TilesCompared'
    BY <1>2, <1>3 DEF TilesCompared, TilesOf, InRoll
  <2> QED
    BY <2>5, <2>6, <2>7, <2>8, <2>9, <2>10, <2>11 DEF TraceInv
<1> QED
  BY <1>4, <1>5 DEF CreateFile

\* The phases in which a record is written.
LEMMA Phases ==
    /\ DOMAIN EventOf = {"enter", "exit", "hero", "roll"}
    /\ EventOf["enter"] = "move_enter" /\ EventOf["exit"] = "move_exit"
    /\ EventOf["hero"] = "hero_actor" /\ EventOf["roll"] = "return_roll"
    /\ PhaseAfter["enter"] = "native" /\ PhaseAfter["exit"] = "leave"
    /\ PhaseAfter["hero"] = "native" /\ PhaseAfter["roll"] = "leave"
BY DEF EventOf, PhaseAfter

\* What the innermost frame of a thread knows.
LEMMA TopKnows ==
    ASSUME Typed, Nested, NEW t \in Threads, stack[t] # <<>>,
           NEW f, f = Top(t), NEW below, below = SequenceAt(t, Len(stack[t]) - 1)
    PROVE  /\ f \in Frames /\ Len(stack[t]) \in Nat
           /\ f.function = "move" \/ f.function = "roll"
           /\ f.passed => f.phase \in DOMAIN EventOf
           /\ f.function = "move" =>
                 /\ f.phase \in MovePhases
                 /\ f.record = Record("move_enter", t, f.record.sequence, Len(stack[t]), below)
                 /\ f.record.sequence \in 1..sequence
           /\ f.function = "roll" =>
                 /\ f.phase \in RollPhases
                 /\ f.record = Record("return_roll", t, below, Len(stack[t]) - 1, 0)
<1>1. /\ Len(stack[t]) \in Nat /\ Len(stack[t]) >= 1
      /\ f \in Frames /\ f = FrameAt(t, Len(stack[t]))
  BY TopIsFrame
<1>2. PICK k \in 1..Len(stack[t]) : k = Len(stack[t])
  BY <1>1
<1>3. NestedIn(t) /\ FrameOK(t, k) /\ FrameAt(t, k) = f
  BY <1>1, <1>2 DEF Nested, NestedIn
<1>4. f.function = "move" \/ f.function = "roll"
  BY <1>1 DEF Frames, Functions
<1>5. f.function = "roll" => depth[t] = k - 1 /\ current[t] = below
  BY <1>2, <1>3 DEF NestedIn, InRoll
<1> QED
  BY <1>1, <1>2, <1>3, <1>4, <1>5 DEF FrameOK

\* What a step inside a hook keeps, whatever it writes.
LEMMA InsideStep ==
    ASSUME TraceInv, NEW t \in Threads, stack[t] # <<>>, NEW g \in Frames,
           Replace(t, g), g.function = Top(t).function, g.record = Top(t).record,
           g.function = "move" => g.phase \in MovePhases,
           g.function = "roll" => g.phase \in RollPhases,
           g.passed => g.phase \in DOMAIN EventOf,
           UNCHANGED <<setup, sequence, current, depth, calls>>,
           file' \in Seq(Records), dumped' \in [Threads -> 0..Never], blind' \in BOOLEAN
    PROVE  Typed' /\ Installed' /\ Nested'
<1>1. Typed /\ Installed /\ Nested
  BY DEF TraceInv
<1>2. Typed'
  BY <1>1, ReplaceTyped
<1>3. Installed'
  BY <1>1, ReplaceInstalled
<1>4. Nested'
  BY <1>1, ReplaceNested
<1> QED
  BY <1>2, <1>3, <1>4

\* The innermost frames after a step inside a hook.
LEMMA TopAfter ==
    ASSUME Typed, NEW t \in Threads, stack[t] # <<>>, NEW g \in Frames, Replace(t, g)
    PROVE  /\ Top(t)' = g
           /\ InRoll(t)' <=> g.function = "roll"
           /\ \A phase : At(t, phase)' <=> g.phase = phase
           /\ \A u \in Threads : u # t =>
                 /\ stack'[u] = stack[u] /\ Top(u)' = Top(u)
                 /\ \A phase : At(u, phase)' <=> At(u, phase)
<1>1. /\ stack'[t] # <<>> /\ Head(stack'[t]) = g
      /\ \A u \in Threads : u # t => stack'[u] = stack[u]
  BY Replaced
<1> QED
  BY <1>1 DEF Top, InRoll, At

\* The file is tested: with a file nothing else happens, and only a roll can
\* find that there is none.
LEMMA TestFileStep ==
    ASSUME TraceInv, NEW t \in Threads, TestFile(t)
    PROVE  TraceInv'
<1>1. /\ Typed /\ Installed /\ Nested /\ Followed /\ Numbered /\ TilesOf(t) /\ TilesCompared
      /\ HeroesDumped /\ HeroOf(t)
  BY DEF TraceInv, TilesCompared, HeroesDumped
<1>2. /\ stack[t] # <<>> /\ Top(t).phase \in DOMAIN EventOf
      /\ UNCHANGED <<setup, sequence, current, depth, calls, file, dumped, blind>>
  BY DEF TestFile, At, locals
<1>3. PICK f \in Frames : f = Top(t)
  BY <1>1, <1>2, TopIsFrame
<1>4. /\ f.function = "move" \/ f.function = "roll"
      /\ f.function = "move" => f.phase \in MovePhases /\ open
      /\ f.function = "roll" => f.phase \in RollPhases
  <2>1. PICK below : below = SequenceAt(t, Len(stack[t]) - 1)
    OBVIOUS
  <2> QED
    BY <1>1, <1>2, <1>3, <2>1, TopKnows, MoveMeansOpen
<1>5. PICK g \in Frames :
        /\ Replace(t, g)
        /\ g.function = f.function /\ g.record = f.record /\ g.area = f.area
        /\ g.before = f.before /\ g.selected = f.selected /\ g.placed = f.placed
        /\ g.whole = f.whole
        /\ \/ open /\ g.phase = f.phase
           \/ ~open /\ g.phase = PhaseAfter[f.phase] /\ g.passed = f.passed
  <2>1. CASE open
    <3>1. [f EXCEPT !.passed = TRUE] \in Frames
      BY DEF Frames
    <3>2. PICK g \in Frames : g = [f EXCEPT !.passed = TRUE]
      BY <3>1
    <3>3. Replace(t, g)
      BY <1>3, <2>1, <3>2 DEF TestFile
    <3> QED
      BY <2>1, <3>2, <3>3 DEF Frames
  <2>2. CASE ~open
    <3>1. [f EXCEPT !.phase = PhaseAfter[@]] \in Frames
      BY <1>2, <1>3, Phases DEF Frames
    <3>2. PICK g \in Frames : g = [f EXCEPT !.phase = PhaseAfter[@]]
      BY <3>1
    <3>3. Replace(t, g)
      BY <1>3, <2>2, <3>2 DEF TestFile
    <3> QED
      BY <2>2, <3>2, <3>3 DEF Frames
  <2> QED
    BY <2>1, <2>2
<1>6. f.passed = FALSE /\ (g.passed => g.phase \in DOMAIN EventOf)
  <2>1. f.passed = FALSE
    BY <1>3 DEF TestFile, Frames
  <2> QED
    BY <1>2, <1>3, <1>5, <2>1
<1>7. ~open => /\ f.function = "roll"
               /\ \/ f.phase = "hero" /\ g.phase = "native"
                  \/ f.phase = "roll" /\ g.phase = "leave"
  BY <1>2, <1>3, <1>4, <1>5, Phases DEF RollPhases
<1>8. /\ g.function = "move" => g.phase \in MovePhases
      /\ g.function = "roll" => g.phase \in RollPhases
  BY <1>4, <1>5, <1>7 DEF RollPhases
<1>9. file \in Seq(Records) /\ dumped \in [Threads -> 0..Never] /\ blind \in BOOLEAN
  BY <1>1 DEF Typed
<1>10. Typed' /\ Installed' /\ Nested'
  BY <1>2, <1>3, <1>5, <1>6, <1>8, <1>9, InsideStep
<1>11. /\ Top(t)' = g /\ (InRoll(t)' <=> g.function = "roll")
       /\ \A phase : At(t, phase)' <=> g.phase = phase
       /\ \A u \in Threads : u # t =>
             /\ stack'[u] = stack[u] /\ Top(u)' = Top(u)
             /\ \A phase : At(u, phase)' <=> At(u, phase)
  BY <1>1, <1>2, <1>5, TopAfter
<1>12. Followed'
  <2>1. Traced(g) <=> Traced(f)
    BY <1>4, <1>5, <1>7 DEF Traced
  <2>2. \A u \in Threads : TracedMoves(u)' = TracedMoves(u)
    BY <1>1, <1>2, <1>3, <1>5, <2>1, ReplaceTraced
  <2> QED
    BY <1>1, <1>2, <2>2, FollowedKept
<1>13. Numbered'
  <2>1. \A u \in Threads : At(u, "enter")' =>
           At(u, "enter") /\ Top(u)'.record.sequence = Top(u).record.sequence
    BY <1>2, <1>3, <1>5, <1>7, <1>11 DEF At
  <2> QED
    BY <1>1, <1>2, <2>1, NumberedKept
<1>14. HeroesDumped'
  <2>1. HeroOf(t)'
    <3>1. CASE open
      <4>1. /\ At(t, "hero") <=> At(t, "hero")'
            /\ InRoll(t)' => InRoll(t)
        BY <1>2, <1>3, <1>5, <1>11, <3>1 DEF At, InRoll
      <4> QED
        BY <1>1, <1>2, <1>3, <1>5, <1>11, <3>1, <4>1, HeroKept DEF setup
    <3>2. CASE ~open
      BY <1>2, <1>7, <1>11, <3>2 DEF HeroOf, setup
    <3> QED
      BY <3>1, <3>2
  <2>2. \A u \in Threads : u # t => HeroOf(u)'
    BY <1>1, <1>2, <1>11, OtherHeroes DEF HeroesDumped, setup
  <2>3. RollsKnowTheirHeroes'
    BY <1>1, <1>2, RollsKept DEF HeroesDumped
  <2> QED
    BY <2>1, <2>2, <2>3 DEF HeroesDumped
<1>15. TilesCompared'
  <2>1. TilesOf(t)'
    BY <1>1, <1>2, <1>3, <1>5, <1>7, <1>11 DEF TilesOf, InRoll
  <2> QED
    BY <1>1, <1>11, <2>1, OtherTiles
<1> QED
  BY <1>10, <1>12, <1>13, <1>14, <1>15 DEF TraceInv

\* The record that is written, phase by phase.
LEMMA RecordOfPhase ==
    ASSUME Typed, Nested, NEW t \in Threads, stack[t] # <<>>,
           Top(t).phase \in DOMAIN EventOf,
           NEW f, f = Top(t), NEW below, below = SequenceAt(t, Len(stack[t]) - 1),
           NEW level, level = Len(stack[t])
    PROVE  /\ RecordNow(t) \in Records
           /\ \/ /\ f.function = "move" /\ f.phase = "enter"
                 /\ RecordNow(t) = Record("move_enter", t, f.record.sequence, level, below)
              \/ /\ f.function = "move" /\ f.phase = "exit"
                 /\ RecordNow(t) = Record("move_exit", t, f.record.sequence, level, below)
              \/ /\ f.function = "roll" /\ f.phase = "hero" /\ f.record.sequence = below
                 /\ RecordNow(t) = Record("hero_actor", t, below, 0, 0)
              \/ /\ f.function = "roll" /\ f.phase = "roll" /\ f.record.sequence = below
                 /\ RecordNow(t) = Record("return_roll", t, below, level - 1, 0)
<1>1. /\ f \in Frames
      /\ f.function = "move" \/ f.function = "roll"
      /\ f.function = "move" =>
            /\ f.phase \in MovePhases
            /\ f.record = Record("move_enter", t, f.record.sequence, level, below)
      /\ f.function = "roll" =>
            /\ f.phase \in RollPhases
            /\ f.record = Record("return_roll", t, below, level - 1, 0)
  BY TopKnows
<1>2. /\ f.record \in Records /\ f.record.sequence \in 0..MaxCalls
      /\ f.record.thread \in Threads \union {"worker"}
      /\ f.record.depth \in 0..MaxDepth /\ f.record.parent \in 0..MaxCalls
  BY <1>1 DEF Frames, Records
<1>3. At(t, "hero") <=> f.phase = "hero"
  BY DEF At
<1>4. CASE f.function = "move"
  <2>1. f.phase = "enter" \/ f.phase = "exit"
    BY <1>1, <1>4, Phases DEF MovePhases
  <2>2. RecordNow(t) = [f.record EXCEPT !.event = EventOf[f.phase]]
    BY <1>3, <2>1 DEF RecordNow
  <2>3. CASE f.phase = "enter"
    <3>1. RecordNow(t) = Record("move_enter", t, f.record.sequence, level, below)
      BY <1>1, <1>4, <2>2, <2>3, Phases DEF Record
    <3>2. RecordNow(t) = f.record
      BY <1>1, <1>4, <3>1
    <3> QED
      BY <1>2, <1>4, <2>3, <3>1, <3>2
  <2>4. CASE f.phase = "exit"
    <3>1. f.record = Record("move_enter", t, f.record.sequence, level, below)
      BY <1>1, <1>4
    <3>2. RecordNow(t) = Record("move_exit", t, f.record.sequence, level, below)
      BY <2>2, <2>4, <3>1, Phases DEF Record
    <3>3. level \in 0..MaxDepth /\ below \in 0..MaxCalls /\ t \in Threads
      BY <1>2, <3>1 DEF Record
    <3>4. Record("move_exit", t, f.record.sequence, level, below) \in Records
      BY <1>2, <3>3, Phases DEF Record, Records
    <3> QED
      BY <1>4, <2>4, <3>2, <3>4
  <2> QED
    BY <2>1, <2>3, <2>4
<1>5. CASE f.function = "roll"
  <2>1. f.phase = "hero" \/ f.phase = "roll"
    BY <1>1, <1>5, Phases DEF RollPhases
  <2>2. f.record = Record("return_roll", t, below, level - 1, 0) /\ f.record.sequence = below
    BY <1>1, <1>5 DEF Record
  <2>3. CASE f.phase = "hero"
    <3>1. RecordNow(t) = Record("hero_actor", t, below, 0, 0)
      BY <1>3, <2>2, <2>3 DEF RecordNow
    <3>2. Record("hero_actor", t, below, 0, 0) \in Records
      BY <1>2, <2>2, TracerAssumption, Phases DEF Record, Records
    <3> QED
      BY <1>5, <2>2, <2>3, <3>1, <3>2
  <2>4. CASE f.phase = "roll"
    <3>1. RecordNow(t) = [f.record EXCEPT !.event = EventOf[f.phase]]
      BY <1>3, <2>4 DEF RecordNow
    <3>2. RecordNow(t) = Record("return_roll", t, below, level - 1, 0)
      BY <2>2, <2>4, <3>1, Phases DEF Record
    <3>3. RecordNow(t) = f.record
      BY <2>2, <3>2
    <3> QED
      BY <1>2, <1>5, <2>2, <2>4, <3>2, <3>3
  <2> QED
    BY <2>1, <2>3, <2>4
<1> QED
  BY <1>1, <1>4, <1>5

\* The reader understands the record: the thread's open moves after it are those
\* of its stack.
LEMMA RecordFollowed ==
    ASSUME Typed, Nested, NEW t \in Threads, stack[t] # <<>>,
           Top(t).phase \in DOMAIN EventOf,
           NEW record, record = RecordNow(t), NEW g \in Frames, Replace(t, g),
           g.function = Top(t).function, g.record = Top(t).record,
           g.phase = PhaseAfter[Top(t).phase]
    PROVE  \A u \in Threads : TracedMoves(u)' = Follow(u, TracedMoves(u), record)
<1>1. PICK f, below, level, moves, all :
        /\ f = Top(t) /\ below = SequenceAt(t, Len(stack[t]) - 1) /\ level = Len(stack[t])
        /\ moves = NumbersOf(Tail(stack[t])) /\ all = NumbersOf(stack[t])
  OBVIOUS
<1>2. \/ /\ f.function = "move" /\ f.phase = "enter"
         /\ record = Record("move_enter", t, f.record.sequence, level, below)
      \/ /\ f.function = "move" /\ f.phase = "exit"
         /\ record = Record("move_exit", t, f.record.sequence, level, below)
      \/ /\ f.function = "roll" /\ f.phase = "hero"
         /\ record = Record("hero_actor", t, below, 0, 0)
      \/ /\ f.function = "roll" /\ f.phase = "roll"
         /\ record = Record("return_roll", t, below, level - 1, 0)
  BY <1>1, RecordOfPhase
<1>3. /\ TracedMoves(t) = IF Traced(f) THEN all ELSE moves
      /\ TracedMoves(t)' = IF Traced(g) THEN <<f.record.sequence>> \o moves ELSE moves
      /\ \A u \in Threads : u # t => TracedMoves(u)' = TracedMoves(u)
  BY <1>1, ReplaceTraced
<1>4. /\ Len(moves) = level - 1 /\ moves # Broken /\ level \in Nat
      /\ below = IF moves = <<>> THEN 0 ELSE Head(moves)
  BY <1>1, MovesBelow, StackFrames
<1>5. f.function = "move" =>
        /\ all # <<>> /\ Len(all) = level /\ Head(all) = f.record.sequence
        /\ Tail(all) = moves /\ all # Broken
  BY <1>1, MovesAll
<1>6. TracedMoves(t)' = Follow(t, TracedMoves(t), record)
  <2>1. CASE f.phase = "enter" /\ f.function = "move"
    <3>1. ~Traced(f) /\ Traced(g)
      BY <1>1, <2>1, Phases DEF Traced
    <3>2. /\ record.event = "move_enter" /\ record.thread = t
          /\ record.sequence = f.record.sequence /\ record.depth = Len(moves) + 1
          /\ record.parent = below
      BY <1>2, <1>4, <2>1 DEF Record
    <3>3. Follow(t, moves, record) = <<f.record.sequence>> \o moves
      BY <1>4, <3>2 DEF Follow
    <3> QED
      BY <1>3, <3>1, <3>3
  <2>2. CASE f.phase = "exit" /\ f.function = "move"
    <3>1. Traced(f) /\ ~Traced(g)
      BY <1>1, <2>2, Phases DEF Traced
    <3>2. /\ record.event = "move_exit" /\ record.thread = t
          /\ record.sequence = f.record.sequence /\ record.depth = level
      BY <1>2, <2>2 DEF Record
    <3>3. Follow(t, all, record) = moves
      BY <1>5, <2>2, <3>2 DEF Follow
    <3> QED
      BY <1>3, <3>1, <3>3
  <2>3. CASE f.phase = "hero" /\ f.function = "roll"
    <3>1. ~Traced(f) /\ ~Traced(g)
      BY <1>1, <2>3 DEF Traced
    <3>2. record.event = "hero_actor" /\ record.thread = t /\ record.sequence = below
      BY <1>2, <2>3 DEF Record
    <3>3. Follow(t, moves, record) = moves
      BY <1>4, <3>2 DEF Follow
    <3> QED
      BY <1>3, <3>1, <3>3
  <2>4. CASE f.phase = "roll" /\ f.function = "roll"
    <3>1. ~Traced(f) /\ ~Traced(g)
      BY <1>1, <2>4 DEF Traced
    <3>2. /\ record.event = "return_roll" /\ record.thread = t /\ record.sequence = below
          /\ record.depth = Len(moves)
      BY <1>2, <1>4, <2>4 DEF Record
    <3>3. Follow(t, moves, record) = moves
      BY <1>4, <3>2 DEF Follow
    <3> QED
      BY <1>3, <3>1, <3>3
  <2> QED
    BY <1>2, <2>1, <2>2, <2>3, <2>4
<1>7. ASSUME NEW u \in Threads, u # t
      PROVE  TracedMoves(u)' = Follow(u, TracedMoves(u), record)
  <2>1. record.thread = t
    BY <1>2 DEF Record
  <2> QED
    BY <1>3, <1>7, <2>1 DEF Follow
<1> QED
  BY <1>6, <1>7

\* A move's enter record brings a number into the file that was not there.
LEMMA EnterNumbered ==
    ASSUME Typed, Nested, Numbered, NEW t \in Threads, At(t, "enter"),
           NEW record \in Records, file' = Append(file, record),
           record.event = "move_enter", record.sequence = Top(t).record.sequence,
           Top(t).function = "move", sequence' = sequence, ~At(t, "enter")',
           \A u \in Threads : u # t => stack'[u] = stack[u]
    PROVE  Numbered'
<1>1. /\ Len(file) \in Nat /\ DOMAIN file = 1..Len(file)
      /\ DOMAIN file' = 1..(Len(file) + 1)
      /\ \A n \in 1..Len(file) : file'[n] = file[n]
      /\ file'[Len(file) + 1] = record
  BY AppendKeeps
<1>2. ASSUME NEW i \in DOMAIN file'
      PROVE  \/ i \in DOMAIN file /\ file'[i] = file[i]
             \/ i = Len(file) + 1 /\ file'[i] = record
  BY <1>1
<1>3. record.sequence \in 1..sequence
  BY TopKnows DEF At
<1>4. \A i \in DOMAIN file : file[i].event = "move_enter" => file[i].sequence # record.sequence
  BY DEF Numbered
<1>5. \A i \in DOMAIN file' : file'[i].event = "move_enter" => file'[i].sequence <= sequence'
  BY <1>2, <1>3 DEF Numbered
<1>6. ASSUME NEW i \in DOMAIN file', NEW j \in DOMAIN file',
             file'[i].event = "move_enter", file'[j].event = "move_enter",
             file'[i].sequence = file'[j].sequence
      PROVE  i = j
  BY <1>2, <1>4, <1>6 DEF Numbered
<1>7. ASSUME NEW u \in Threads, At(u, "enter")'
      PROVE  /\ u # t /\ At(u, "enter") /\ Top(u)' = Top(u)
             /\ Top(u).record.sequence # record.sequence
  <2>1. u # t /\ At(u, "enter") /\ Top(u)' = Top(u)
    BY <1>7 DEF At, Top
  <2> QED
    BY <2>1 DEF Numbered
<1>8. ASSUME NEW u \in Threads, At(u, "enter")', NEW i \in DOMAIN file',
             file'[i].event = "move_enter"
      PROVE  file'[i].sequence # Top(u)'.record.sequence
  BY <1>2, <1>7, <1>8 DEF Numbered
<1>9. ASSUME NEW u \in Threads, NEW v \in Threads, At(u, "enter")', At(v, "enter")',
             Top(u)'.record.sequence = Top(v)'.record.sequence
      PROVE  u = v
  BY <1>7, <1>9 DEF Numbered
<1> QED
  BY <1>5, <1>6, <1>8, <1>9 DEF Numbered

\* A record is written, or lost because the file was closed.
LEMMA WriteRecordStep ==
    ASSUME TraceInv, NEW t \in Threads, WriteRecord(t)
    PROVE  TraceInv'
<1>1. /\ Typed /\ Installed /\ Nested /\ Followed /\ Numbered /\ TilesOf(t) /\ TilesCompared
      /\ RollsKnowTheirHeroes /\ HeroOf(t) /\ \A u \in Threads : HeroOf(u)
  BY DEF TraceInv, TilesCompared, HeroesDumped
<1>2. /\ stack[t] # <<>> /\ Top(t).passed
      /\ UNCHANGED <<setup, sequence, current, depth, calls, dumped, blind>>
      /\ open' = open /\ sequence' = sequence /\ dumped' = dumped /\ blind' = blind
  BY DEF WriteRecord, locals, setup
<1>3. PICK f \in Frames : f = Top(t)
  BY <1>1, <1>2, TopIsFrame
<1>4. PICK level, below : level = Len(stack[t]) /\ below = SequenceAt(t, Len(stack[t]) - 1)
  OBVIOUS
<1>5. /\ f.phase \in DOMAIN EventOf
      /\ f.function = "move" \/ f.function = "roll"
      /\ f.function = "move" => open
  BY <1>1, <1>2, <1>3, <1>4, TopKnows, MoveMeansOpen
<1>6. PICK record \in Records :
        /\ record = RecordNow(t)
        /\ \/ /\ f.function = "move" /\ f.phase = "enter"
              /\ record = Record("move_enter", t, f.record.sequence, level, below)
           \/ /\ f.function = "move" /\ f.phase = "exit"
              /\ record = Record("move_exit", t, f.record.sequence, level, below)
           \/ /\ f.function = "roll" /\ f.phase = "hero" /\ f.record.sequence = below
              /\ record = Record("hero_actor", t, below, 0, 0)
           \/ /\ f.function = "roll" /\ f.phase = "roll" /\ f.record.sequence = below
              /\ record = Record("return_roll", t, below, level - 1, 0)
  BY <1>1, <1>2, <1>3, <1>4, <1>5, RecordOfPhase
<1>7. PICK g \in Frames :
        /\ Replace(t, g)
        /\ g.function = f.function /\ g.record = f.record /\ g.area = f.area
        /\ g.before = f.before /\ g.selected = f.selected /\ g.placed = f.placed
        /\ g.whole = f.whole /\ g.phase = PhaseAfter[f.phase] /\ g.passed = FALSE
  <2>1. [f EXCEPT !.passed = FALSE, !.phase = PhaseAfter[@]] \in Frames
    BY <1>5, Phases DEF Frames
  <2>2. PICK g \in Frames : g = [f EXCEPT !.passed = FALSE, !.phase = PhaseAfter[@]]
    BY <2>1
  <2>3. Replace(t, g)
    BY <1>3, <2>2 DEF WriteRecord
  <2> QED
    BY <2>2, <2>3 DEF Frames
<1>8. \/ f.phase \in {"enter", "hero"} /\ g.phase = "native"
      \/ f.phase \in {"exit", "roll"} /\ g.phase = "leave"
  BY <1>6, <1>7, Phases
<1>9. /\ g.function = "move" => g.phase \in MovePhases
      /\ g.function = "roll" => g.phase \in RollPhases
      /\ g.phase \notin {"enter", "dump", "hero", "roll"}
  BY <1>8 DEF MovePhases, RollPhases
<1>10. /\ \/ open /\ file' = Append(file, record)
          \/ ~open /\ file' = file /\ f.function = "roll"
       /\ file' = file \/ file' = Append(file, record)
  BY <1>5, <1>6 DEF WriteRecord
<1>11. /\ file' \in Seq(Records) /\ dumped' \in [Threads -> 0..Never] /\ blind' \in BOOLEAN
  BY <1>1, <1>2, <1>10, AppendKeeps DEF Typed
<1>12. Typed' /\ Installed' /\ Nested'
  BY <1>2, <1>3, <1>7, <1>9, <1>11, InsideStep
<1>13. /\ Top(t)' = g /\ (InRoll(t)' <=> g.function = "roll")
       /\ \A phase : At(t, phase)' <=> g.phase = phase
       /\ \A u \in Threads : u # t =>
             /\ stack'[u] = stack[u] /\ Top(u)' = Top(u)
             /\ \A phase : At(u, phase)' <=> At(u, phase)
  BY <1>1, <1>2, <1>7, TopAfter
<1>14. Followed'
  <2>1. CASE file' = Append(file, record)
    <3>1. \A u \in Threads : TracedMoves(u)' = Follow(u, TracedMoves(u), record)
      BY <1>1, <1>2, <1>3, <1>5, <1>6, <1>7, RecordFollowed
    <3> QED
      BY <1>1, <2>1, <3>1, FollowedAppend
  <2>2. CASE ~open /\ file' = file /\ f.function = "roll"
    <3>1. ~Traced(g) /\ ~Traced(f)
      BY <1>7, <2>2 DEF Traced
    <3>2. \A u \in Threads : TracedMoves(u)' = TracedMoves(u)
      BY <1>1, <1>2, <1>3, <1>7, <3>1, ReplaceTraced
    <3> QED
      BY <1>1, <2>2, <3>2, FollowedKept
  <2> QED
    BY <1>10, <2>1, <2>2
<1>15. Numbered'
  <2>1. CASE f.function = "move" /\ f.phase = "enter"
    <3>1. /\ record.event = "move_enter" /\ record.sequence = Top(t).record.sequence
      BY <1>3, <1>6, <2>1 DEF Record
    <3>2. /\ file' = Append(file, record) /\ At(t, "enter") /\ ~At(t, "enter")'
      BY <1>2, <1>3, <1>9, <1>10, <1>13, <2>1 DEF At
    <3> QED
      BY <1>1, <1>2, <1>3, <1>13, <2>1, <3>1, <3>2, EnterNumbered
  <2>2. CASE ~(f.function = "move" /\ f.phase = "enter")
    <3>1. record.event # "move_enter"
      BY <1>6, <2>2 DEF Record
    <3>2. \A u \in Threads : At(u, "enter")' =>
             At(u, "enter") /\ Top(u)'.record.sequence = Top(u).record.sequence
      BY <1>9, <1>13
    <3> QED
      BY <1>1, <1>2, <1>10, <3>1, <3>2, NumberedKept
  <2> QED
    BY <2>1, <2>2
<1>16. RollsKnowTheirHeroes'
  <2>1. ASSUME record.event = "return_roll", file' = Append(file, record)
        PROVE  blind' \/ HeroIn(record.thread, record.sequence)
    <3>1. /\ f.phase = "roll" /\ f.function = "roll" /\ open
          /\ record.thread = t /\ record.sequence = Top(t).record.sequence
      BY <1>2, <1>3, <1>6, <1>10, <2>1 DEF Record
    <3>2. InRoll(t) /\ Top(t).phase = "roll"
      BY <1>2, <1>3, <3>1 DEF InRoll
    <3> QED
      BY <1>1, <1>2, <3>1, <3>2 DEF HeroOf
  <2> QED
    BY <1>1, <1>2, <1>10, <2>1, RollsKept
<1>17. HeroOf(t)'
  <2>1. CASE f.phase = "hero"
    <3>1. dumped[t] = f.record.sequence /\ f.function = "roll" /\ f.record.sequence = below
      BY <1>1, <1>2, <1>3, <1>6, <2>1 DEF HeroOf, At
    <3>2. /\ record.event = "hero_actor" /\ record.thread = t /\ record.sequence = below
      BY <1>6, <2>1 DEF Record
    <3>3. open' => HeroIn(t, below)'
      <4> SUFFICES ASSUME open' PROVE HeroIn(t, below)'
        OBVIOUS
      <4>1. file' = Append(file, record)
        BY <1>2, <1>10
      <4>2. Len(file) + 1 \in DOMAIN file' /\ file'[Len(file) + 1] = record
        BY <1>1, <4>1, AppendKeeps
      <4> QED
        BY <3>2, <4>2 DEF HeroIn
    <3>4. /\ dumped'[t] = below /\ Top(t)'.record.sequence = below /\ ~At(t, "hero")'
      BY <1>2, <1>7, <1>9, <1>13, <3>1
    <3> QED
      BY <3>3, <3>4 DEF HeroOf, HeroIn
  <2>2. CASE f.phase # "hero"
    <3>1. ~At(t, "hero") /\ ~At(t, "hero")'
      BY <1>3, <1>9, <1>13, <2>2 DEF At
    <3>2. ~(InRoll(t)' /\ Top(t)'.phase \in {"native", "roll"})
      BY <1>6, <1>7, <1>8, <1>13, <2>2
    <3>3. file' = file \/ \E r \in Records : file' = Append(file, r)
      BY <1>10
    <3> QED
      BY <1>1, <1>2, <3>1, <3>2, <3>3, HeroKept
  <2> QED
    BY <2>1, <2>2
<1>18. HeroesDumped'
  <2>1. file' = file \/ \E r \in Records : file' = Append(file, r)
    BY <1>10
  <2>2. \A u \in Threads : u # t => HeroOf(u)'
    BY <1>1, <1>2, <1>13, <2>1, OtherHeroes
  <2> QED
    BY <1>16, <1>17, <2>2 DEF HeroesDumped
<1>19. TilesCompared'
  <2>1. TilesOf(t)'
    <3>1. InRoll(t)' => (g.phase = "native" /\ f.phase = "hero") \/ g.phase = "leave"
      BY <1>8, <1>13, <1>6, <1>7
    <3>2. InRoll(t)' => InRoll(t)
      BY <1>2, <1>3, <1>7, <1>13 DEF InRoll
    <3> QED
      BY <1>1, <1>3, <1>7, <1>13, <3>1, <3>2 DEF TilesOf
  <2> QED
    BY <1>1, <1>13, <2>1, OtherTiles
<1> QED
  BY <1>12, <1>14, <1>15, <1>18, <1>19 DEF TraceInv

\* The native move returns.
LEMMA MoveReturnsStep ==
    ASSUME TraceInv, NEW t \in Threads, MoveReturns(t)
    PROVE  TraceInv'
<1>1. /\ Typed /\ Installed /\ Nested /\ Followed /\ Numbered /\ TilesCompared
      /\ RollsKnowTheirHeroes /\ HeroOf(t) /\ \A u \in Threads : HeroOf(u)
  BY DEF TraceInv, TilesCompared, HeroesDumped
<1>2. /\ stack[t] # <<>> /\ Top(t).phase = "native" /\ Top(t).function = "move"
      /\ UNCHANGED <<setup, sequence, current, depth, calls, file, dumped, blind>>
      /\ open' = open /\ sequence' = sequence /\ dumped' = dumped /\ blind' = blind
      /\ file' = file
  BY DEF MoveReturns, InMove, At, locals, setup
<1>3. PICK f \in Frames : f = Top(t)
  BY <1>1, <1>2, TopIsFrame
<1>4. f.passed = FALSE
  <2>1. f.passed \in BOOLEAN
    BY DEF Frames
  <2>2. f.passed => f.phase \in DOMAIN EventOf
    BY <1>1, <1>2, <1>3, TopKnows
  <2> QED
    BY <1>2, <1>3, <2>1, <2>2, Phases
<1>5. PICK g \in Frames :
        /\ Replace(t, g)
        /\ g.function = "move" /\ g.record = f.record /\ g.phase = "exit" /\ g.passed = FALSE
  <2>1. [f EXCEPT !.phase = "exit"] \in Frames
    BY DEF Frames
  <2>2. PICK g \in Frames : g = [f EXCEPT !.phase = "exit"]
    BY <2>1
  <2>3. Replace(t, g)
    BY <1>3, <2>2 DEF MoveReturns
  <2> QED
    BY <1>2, <1>3, <1>4, <2>2, <2>3 DEF Frames
<1>6. /\ file' \in Seq(Records) /\ dumped' \in [Threads -> 0..Never] /\ blind' \in BOOLEAN
  BY <1>1, <1>2 DEF Typed
<1>7. Typed' /\ Installed' /\ Nested'
  BY <1>2, <1>3, <1>5, <1>6, InsideStep DEF MovePhases
<1>8. /\ Top(t)' = g /\ (InRoll(t)' <=> g.function = "roll")
      /\ \A phase : At(t, phase)' <=> g.phase = phase
      /\ \A u \in Threads : u # t =>
            /\ stack'[u] = stack[u] /\ Top(u)' = Top(u)
            /\ \A phase : At(u, phase)' <=> At(u, phase)
  BY <1>1, <1>2, <1>5, TopAfter
<1>9. Followed'
  <2>1. Traced(g) /\ Traced(f)
    BY <1>2, <1>3, <1>5 DEF Traced
  <2>2. \A u \in Threads : TracedMoves(u)' = TracedMoves(u)
    BY <1>1, <1>2, <1>3, <1>5, <2>1, ReplaceTraced
  <2> QED
    BY <1>1, <1>2, <2>2, FollowedKept
<1>10. Numbered'
  <2>1. \A u \in Threads : At(u, "enter")' =>
           At(u, "enter") /\ Top(u)'.record.sequence = Top(u).record.sequence
    BY <1>5, <1>8
  <2> QED
    BY <1>1, <1>2, <2>1, NumberedKept
<1>11. HeroesDumped'
  <2>1. ~At(t, "hero") /\ ~At(t, "hero")' /\ ~InRoll(t)'
    BY <1>2, <1>5, <1>8 DEF At
  <2>2. HeroOf(t)'
    BY <1>1, <1>2, <2>1, HeroKept
  <2>3. \A u \in Threads : u # t => HeroOf(u)'
    BY <1>1, <1>2, <1>8, OtherHeroes
  <2>4. RollsKnowTheirHeroes'
    BY <1>1, <1>2, RollsKept
  <2> QED
    BY <2>2, <2>3, <2>4 DEF HeroesDumped
<1>12. TilesCompared'
  <2>1. TilesOf(t)'
    BY <1>5, <1>8 DEF TilesOf
  <2> QED
    BY <1>1, <1>8, <2>1, OtherTiles
<1> QED
  BY <1>7, <1>9, <1>10, <1>11, <1>12 DEF TraceInv

\* The heroes' buffs are dumped, or were, or cannot be.
LEMMA DumpStep ==
    ASSUME TraceInv, NEW t \in Threads, Dump(t)
    PROVE  TraceInv'
<1>1. /\ Typed /\ Installed /\ Nested /\ Followed /\ Numbered /\ TilesCompared /\ TilesOf(t)
      /\ RollsKnowTheirHeroes /\ HeroOf(t) /\ \A u \in Threads : HeroOf(u)
  BY DEF TraceInv, TilesCompared, HeroesDumped
<1>2. /\ stack[t] # <<>> /\ Top(t).phase = "dump"
      /\ UNCHANGED <<setup, sequence, current, depth, calls, file>>
      /\ open' = open /\ sequence' = sequence /\ file' = file /\ (blind => blind')
  BY DEF Dump, At, locals, setup
<1>3. PICK f \in Frames : f = Top(t)
  BY <1>1, <1>2, TopIsFrame
<1>4. /\ f.function = "roll" /\ f.passed = FALSE /\ f.record.sequence \in 0..MaxCalls
  <2>1. f.passed \in BOOLEAN /\ f.record.sequence \in 0..MaxCalls
    BY DEF Frames, Records
  <2>2. /\ f.passed => f.phase \in DOMAIN EventOf
        /\ f.function = "move" \/ f.function = "roll"
        /\ f.function = "move" => f.phase \in MovePhases
    BY <1>1, <1>2, <1>3, TopKnows
  <2> QED
    BY <1>2, <1>3, <2>1, <2>2, Phases DEF MovePhases
<1>5. f.record.sequence # Never /\ f.record.sequence \in 0..Never
  BY <1>4, TracerAssumption DEF Never
<1>6. PICK g \in Frames :
        /\ Replace(t, g)
        /\ g.function = "roll" /\ g.record = f.record /\ g.passed = FALSE
        /\ g.area = f.area /\ g.before = f.before
        /\ \/ /\ g.phase = "native" /\ dumped[t] = f.record.sequence
              /\ dumped' = dumped /\ blind' = blind
           \/ /\ g.phase = "hero" /\ blind' = blind
              /\ dumped' = [dumped EXCEPT ![t] = f.record.sequence]
           \/ /\ g.phase = "native" /\ blind' = TRUE
              /\ \/ dumped' = [dumped EXCEPT ![t] = f.record.sequence]
                 \/ dumped' = dumped
  <2>1. /\ [f EXCEPT !.phase = "native"] \in Frames
        /\ [f EXCEPT !.phase = "hero"] \in Frames
    BY DEF Frames
  <2>2. PICK n \in Frames, h \in Frames :
          n = [f EXCEPT !.phase = "native"] /\ h = [f EXCEPT !.phase = "hero"]
    BY <2>1
  <2>3. /\ n.function = "roll" /\ n.record = f.record /\ n.passed = FALSE
        /\ n.area = f.area /\ n.before = f.before /\ n.phase = "native"
        /\ h.function = "roll" /\ h.record = f.record /\ h.passed = FALSE
        /\ h.area = f.area /\ h.before = f.before /\ h.phase = "hero"
    BY <1>4, <2>2 DEF Frames
  <2>4. \/ /\ dumped[t] = f.record.sequence /\ Replace(t, n)
           /\ dumped' = dumped /\ blind' = blind
        \/ /\ dumped' = [dumped EXCEPT ![t] = f.record.sequence]
           /\ (Replace(t, h) /\ blind' = blind) \/ (Replace(t, n) /\ blind' = TRUE)
        \/ Replace(t, n) /\ blind' = TRUE /\ dumped' = dumped
    BY <1>3, <2>2 DEF Dump, DumpMark
  <2>5. CASE Replace(t, n)
    BY <2>3, <2>4, <2>5
  <2>6. CASE ~Replace(t, n)
    BY <2>3, <2>4, <2>6
  <2> QED
    BY <2>5, <2>6
<1>7. /\ file' \in Seq(Records) /\ dumped' \in [Threads -> 0..Never] /\ blind' \in BOOLEAN
      /\ \A u \in Threads : u # t => dumped'[u] = dumped[u]
      /\ dumped' = [dumped EXCEPT ![t] = f.record.sequence] => dumped'[t] = f.record.sequence
  <2>1. /\ file \in Seq(Records) /\ dumped \in [Threads -> 0..Never] /\ blind \in BOOLEAN
    BY <1>1 DEF Typed
  <2> QED
    BY <1>2, <1>5, <1>6, <2>1
<1>8. g.phase \in RollPhases
  BY <1>6 DEF RollPhases
<1>9. Typed' /\ Installed' /\ Nested'
  BY <1>2, <1>3, <1>4, <1>6, <1>7, <1>8, InsideStep
<1>10. /\ Top(t)' = g /\ (InRoll(t)' <=> g.function = "roll")
       /\ \A phase : At(t, phase)' <=> g.phase = phase
       /\ \A u \in Threads : u # t =>
             /\ stack'[u] = stack[u] /\ Top(u)' = Top(u)
             /\ \A phase : At(u, phase)' <=> At(u, phase)
  BY <1>1, <1>2, <1>6, TopAfter
<1>11. Followed'
  <2>1. ~Traced(g) /\ ~Traced(f)
    BY <1>4, <1>6 DEF Traced
  <2>2. \A u \in Threads : TracedMoves(u)' = TracedMoves(u)
    BY <1>1, <1>2, <1>3, <1>6, <2>1, ReplaceTraced
  <2> QED
    BY <1>1, <1>2, <2>2, FollowedKept
<1>12. Numbered'
  <2>1. \A u \in Threads : At(u, "enter")' =>
           At(u, "enter") /\ Top(u)'.record.sequence = Top(u).record.sequence
    BY <1>6, <1>10
  <2> QED
    BY <1>1, <1>2, <2>1, NumberedKept
<1>13. HeroesDumped'
  <2>1. HeroOf(t)'
    <3>1. CASE g.phase = "hero"
      BY <1>6, <1>7, <1>10, <3>1 DEF HeroOf
    <3>2. CASE blind' = TRUE /\ g.phase = "native"
      BY <1>10, <3>2 DEF HeroOf
    <3>3. CASE /\ g.phase = "native" /\ dumped[t] = f.record.sequence
               /\ dumped' = dumped /\ blind' = blind
      <4>1. PICK n : n = dumped[t]
        OBVIOUS
      <4>2. ~blind /\ open => HeroIn(t, n)
        BY <1>1, <1>2, <1>5, <3>3, <4>1 DEF HeroOf, At
      <4>3. ~blind' /\ open' => HeroIn(t, n)'
        BY <1>2, <3>3, <4>2 DEF HeroIn
      <4> QED
        BY <1>6, <1>10, <3>3, <4>1, <4>3 DEF HeroOf, HeroIn
    <3> QED
      BY <1>6, <3>1, <3>2, <3>3
  <2>2. \A u \in Threads : u # t => HeroOf(u)'
    BY <1>1, <1>2, <1>7, <1>10, OtherHeroes
  <2>3. RollsKnowTheirHeroes'
    BY <1>1, <1>2, RollsKept
  <2> QED
    BY <2>1, <2>2, <2>3 DEF HeroesDumped
<1>14. TilesCompared'
  <2>1. TilesOf(t)'
    BY <1>1, <1>2, <1>3, <1>4, <1>6, <1>10 DEF TilesOf, InRoll
  <2> QED
    BY <1>1, <1>10, <2>1, OtherTiles
<1> QED
  BY <1>9, <1>11, <1>12, <1>13, <1>14 DEF TraceInv

\* The first changed tile, when no tile or one tile has changed.
LEMMA FirstOfOne == FirstOf({}) = NoTile /\ \A i \in Int : FirstOf({i}) = i
<1>1. FirstOf({}) = NoTile
  BY DEF FirstOf
<1>2. ASSUME NEW i \in Int PROVE FirstOf({i}) = i
  <2>1. \A k \in {i} : k = i
    OBVIOUS
  <2>2. FirstOf({i}) = CHOOSE k \in {i} : \A j \in {i} : k <= j
    BY DEF FirstOf
  <2>3. \E k \in {i} : \A j \in {i} : k <= j
    OBVIOUS
  <2> QED
    BY <2>1, <2>2, <2>3
<1> QED
  BY <1>1, <1>2

\* The tiles of an area, and those a record has room for.
LEMMA AreaTiles ==
    ASSUME NEW area \in TileStates
    PROVE  /\ DOMAIN area = 1..Len(area) /\ Len(area) \in 0..Tiles
           /\ Shown(area) \in 0..Captured /\ Shown(area) <= Len(area)
           /\ Shown(area) = Captured \/ Shown(area) = Len(area)
           /\ \A i \in 1..Len(area) : area[i] \in {"nothing", "battle"}
<1>1. area \in Seq({"nothing", "battle"}) /\ Len(area) <= Tiles
  BY DEF TileStates
<1>2. /\ Captured \in Nat /\ Tiles \in Nat /\ Len(area) \in Nat
      /\ DOMAIN area = 1..Len(area)
      /\ \A i \in 1..Len(area) : area[i] \in {"nothing", "battle"}
  BY <1>1, TracerAssumption
<1>3. /\ Shown(area) \in 0..Captured /\ Shown(area) <= Len(area)
      /\ Shown(area) = Captured \/ Shown(area) = Len(area)
  BY <1>2 DEF Shown
<1> QED
  BY <1>1, <1>2, <1>3

\* Only the capture of all the tiles there is room for is whole.
LEMMA WholeCapture ==
    ASSUME NEW area \in TileStates, NEW picture \in Captures(area)
    PROVE  picture.whole \in BOOLEAN
           /\ (picture.whole => picture = Capture(area, Shown(area)))
<1>1. CASE picture = Unread
  BY <1>1 DEF Unread
<1>2. ASSUME NEW n \in 0..Shown(area), picture = Capture(area, n)
      PROVE  picture.whole \in BOOLEAN
             /\ (picture.whole => picture = Capture(area, Shown(area)))
  <2>1. picture.whole = (n = Shown(area))
    BY <1>2 DEF Capture
  <2> QED
    BY <1>2, <2>1
<1> QED
  BY <1>1, <1>2 DEF Captures

\* A capture is a picture of the tiles.
LEMMA CaptureTyped ==
    ASSUME NEW area \in TileStates, NEW picture \in Captures(area)
    PROVE  picture \in Pictures
<1>1. CASE picture = Unread
  BY <1>1 DEF Unread, Pictures
<1>2. ASSUME NEW n \in 0..Shown(area), picture = Capture(area, n)
      PROVE  picture \in Pictures
  <2>1. \A i \in 1..Captured :
           (IF i <= n THEN area[i] ELSE "nothing") \in {"nothing", "battle"}
    <3> SUFFICES ASSUME NEW i \in 1..Captured, i <= n
                 PROVE  area[i] \in {"nothing", "battle"}
      OBVIOUS
    <3>1. i \in 1..Len(area)
      BY AreaTiles
    <3> QED
      BY <3>1, AreaTiles
  <2>2. [i \in 1..Captured |-> IF i <= n THEN area[i] ELSE "nothing"]
           \in [1..Captured -> {"nothing", "battle"}]
    BY <2>1
  <2> QED
    BY <1>2, <2>2 DEF Capture, Pictures
<1> QED
  BY <1>1, <1>2 DEF Captures

\* k is the smaller of an area's tiles and a record's.
LEMMA Smaller ==
    ASSUME NEW n \in Nat, NEW c \in Nat, NEW k \in 0..c, k <= n, k = c \/ k = n
    PROVE  /\ \A i \in 1..k : i \in 1..c /\ i \in 1..n /\ i <= k /\ i # 0 /\ i <= c
           /\ \A i \in 0..n : i \notin 1..k => i = 0 \/ ~(i <= c)
OBVIOUS

\* Two whole captures differ in the tile that was filled and nowhere else.
LEMMA ChangedTile ==
    ASSUME NEW area \in TileStates, NEW placed \in {NoTile} \union DOMAIN area,
           placed # NoTile => area[placed] = "nothing",
           NEW area2, area2 = [i \in DOMAIN area |-> IF i = placed THEN "battle" ELSE area[i]],
           NEW before, before = Capture(area, Shown(area)),
           NEW after, after = Capture(area2, Shown(area2))
    PROVE  Selected(before.tiles, after.tiles, Shown(area2))
              = IF placed <= Captured THEN placed ELSE NoTile
<1>1. /\ Captured \in Nat /\ NoTile = 0
      /\ DOMAIN area = 1..Len(area) /\ Len(area) \in Nat /\ placed \in 0..Len(area)
  BY AreaTiles, TracerAssumption DEF NoTile
<1>2. PICK count : count = Shown(area)
  OBVIOUS
<1>3. /\ \A i \in 1..count : i \in 1..Captured /\ i \in DOMAIN area /\ i <= count
                            /\ i # 0 /\ i <= Captured
      /\ placed \notin 1..count => placed = NoTile \/ ~(placed <= Captured)
  <2>1. count \in 0..Captured /\ count <= Len(area) /\ (count = Captured \/ count = Len(area))
    BY <1>2, AreaTiles
  <2>2. /\ \A i \in 1..count : i \in 1..Captured /\ i \in 1..Len(area) /\ i <= count
                              /\ i # 0 /\ i <= Captured
        /\ \A i \in 0..Len(area) : i \notin 1..count => i = 0 \/ ~(i <= Captured)
    BY <1>1, <2>1, Smaller
  <2> QED
    BY <1>1, <2>2, Zenon
<1>4. Shown(area2) = count
  <2>1. Len(area2) = Len(area)
    BY <1>1
  <2> QED
    BY <1>2, <2>1 DEF Shown
<1>5. \A i \in 1..count : /\ i \in 1..Captured /\ i \in DOMAIN area /\ i <= count
  BY <1>3, Zenon
<1>6. \A i \in 1..count : before.tiles[i] = area[i] /\ after.tiles[i] = area2[i]
  BY <1>2, <1>4, <1>5 DEF Capture
<1>7. PICK changed :
        /\ changed = {i \in 1..count : before.tiles[i] # after.tiles[i]}
        /\ Selected(before.tiles, after.tiles, Shown(area2)) = FirstOf(changed)
  BY <1>4 DEF Selected
<1>8. \A i \in 1..count : i \in changed <=> i = placed
  <2> TAKE i \in 1..count
  <2>1. i \in changed <=> area[i] # (IF i = placed THEN "battle" ELSE area[i])
    BY <1>5, <1>6, <1>7
  <2>2. CASE i = placed
    <3>1. placed # NoTile /\ area[i] = "nothing"
      BY <1>1, <1>3, <2>2, Zenon
    <3> QED
      BY <2>1, <2>2, <3>1
  <2>3. CASE i # placed
    BY <2>1, <2>3
  <2> QED
    BY <2>2, <2>3
<1>9. CASE placed \in 1..count
  <2>1. changed = {placed}
    BY <1>7, <1>8, <1>9
  <2>2. FirstOf(changed) = placed
    BY <1>1, <1>9, <2>1, FirstOfOne
  <2>3. placed <= Captured
    BY <1>3, <1>9, Zenon
  <2> QED
    BY <1>7, <2>2, <2>3
<1>10. CASE placed \notin 1..count
  <2>1. changed = {}
    BY <1>7, <1>8, <1>10
  <2>2. FirstOf(changed) = NoTile
    BY <2>1, FirstOfOne
  <2>3. placed = NoTile \/ ~(placed <= Captured)
    BY <1>3, <1>10, Zenon
  <2> QED
    BY <1>7, <2>2, <2>3
<1> QED
  BY <1>9, <1>10

\* The native roll returns, and the tiles are compared.
LEMMA RollReturnsStep ==
    ASSUME TraceInv, NEW t \in Threads, RollReturns(t)
    PROVE  TraceInv'
<1>1. /\ Typed /\ Installed /\ Nested /\ Followed /\ Numbered /\ TilesCompared /\ TilesOf(t)
      /\ RollsKnowTheirHeroes /\ HeroOf(t) /\ \A u \in Threads : HeroOf(u)
  BY DEF TraceInv, TilesCompared, HeroesDumped
<1>2. /\ stack[t] # <<>> /\ Top(t).phase = "native" /\ Top(t).function = "roll"
      /\ UNCHANGED <<setup, sequence, current, depth, calls, file, dumped, blind>>
      /\ open' = open /\ sequence' = sequence /\ dumped' = dumped /\ blind' = blind
      /\ file' = file
  BY DEF RollReturns, At, locals, setup
<1>3. PICK f \in Frames : f = Top(t)
  BY <1>1, <1>2, TopIsFrame
<1>4. f.passed = FALSE
  <2>1. f.passed \in BOOLEAN
    BY DEF Frames
  <2>2. f.passed => f.phase \in DOMAIN EventOf
    BY <1>1, <1>2, <1>3, TopKnows
  <2> QED
    BY <1>2, <1>3, <2>1, <2>2, Phases
<1>5. f.area \in TileStates /\ f.before \in Captures(f.area)
  BY <1>1, <1>2, <1>3 DEF TilesOf, InRoll
<1>6. PICK placed \in {NoTile} \union {i \in DOMAIN f.area : f.area[i] = "nothing"} :
        LET area == [i \in DOMAIN f.area |-> IF i = placed THEN "battle" ELSE f.area[i]]
        IN \E after \in Captures(area) :
              Replace(t, [f EXCEPT !.phase = "roll", !.area = <<>>, !.before = NoTiles,
                 !.selected = Selected(f.before.tiles, after.tiles, Shown(area)),
                 !.placed = placed, !.whole = f.before.whole /\ after.whole])
  BY <1>3, ZenonT(60) DEF RollReturns
<1>7. PICK area2 :
        area2 = [i \in DOMAIN f.area |-> IF i = placed THEN "battle" ELSE f.area[i]]
  OBVIOUS
<1>8. PICK after \in Captures(area2) :
        Replace(t, [f EXCEPT !.phase = "roll", !.area = <<>>, !.before = NoTiles,
           !.selected = Selected(f.before.tiles, after.tiles, Shown(area2)),
           !.placed = placed, !.whole = f.before.whole /\ after.whole])
  BY <1>6, <1>7, Zenon
<1>9. PICK selected : selected = Selected(f.before.tiles, after.tiles, Shown(area2))
  OBVIOUS
<1>10. PICK whole : whole = (f.before.whole /\ after.whole)
  OBVIOUS
<1>11. Replace(t, [f EXCEPT !.phase = "roll", !.area = <<>>, !.before = NoTiles,
                     !.selected = selected, !.placed = placed, !.whole = whole])
  BY <1>8, <1>9, <1>10
<1>12. whole \in BOOLEAN
  BY <1>10
<1>13. area2 \in TileStates /\ placed \in {NoTile} \union DOMAIN f.area /\ placed \in 0..Tiles
  <2>1. /\ DOMAIN f.area = 1..Len(f.area) /\ Len(f.area) \in 0..Tiles /\ Tiles \in Nat
        /\ \A i \in 1..Len(f.area) : f.area[i] \in {"nothing", "battle"}
    BY <1>5, AreaTiles, TracerAssumption
  <2>2. PICK n \in 0..Tiles : n = Len(f.area)
    BY <2>1
  <2>3. /\ area2 = [i \in 1..n |-> IF i = placed THEN "battle" ELSE f.area[i]]
        /\ \A i \in 1..n :
              (IF i = placed THEN "battle" ELSE f.area[i]) \in {"nothing", "battle"}
    BY <1>7, <2>1, <2>2
  <2>4. area2 \in Seq({"nothing", "battle"}) /\ Len(area2) = n
    BY <2>1, <2>3
  <2>5. placed \in {NoTile} \union DOMAIN f.area
    BY <1>6
  <2>6. placed \in 0..Tiles
    BY <2>1, <2>2, <2>5 DEF NoTile
  <2> QED
    BY <2>2, <2>4, <2>5, <2>6 DEF TileStates
<1>14. selected \in {FirstOf(tiles) : tiles \in SUBSET (1..Captured)}
  <2>1. \A i \in 1..Shown(area2) : i \in 1..Captured
    BY <1>13, AreaTiles, TracerAssumption
  <2>2. {i \in 1..Shown(area2) : f.before.tiles[i] # after.tiles[i]} \in SUBSET (1..Captured)
    BY <2>1
  <2> QED
    BY <1>9, <2>2 DEF Selected
<1>15. PICK g \in Frames :
        /\ Replace(t, g)
        /\ g.function = "roll" /\ g.record = f.record /\ g.phase = "roll" /\ g.passed = FALSE
        /\ g.selected = selected /\ g.placed = placed /\ g.whole = whole
  <2> DEFINE next == [f EXCEPT !.phase = "roll", !.area = <<>>, !.before = NoTiles,
                         !.selected = selected, !.placed = placed, !.whole = whole]
  <2>1. next \in Frames
    BY <1>12, <1>13, <1>14 DEF Frames, Pictures
  <2>2. /\ next.function = "roll" /\ next.record = f.record /\ next.phase = "roll"
        /\ next.passed = FALSE /\ next.selected = selected /\ next.placed = placed
        /\ next.whole = whole
    BY <1>2, <1>3, <1>4 DEF Frames
  <2>3. Replace(t, next)
    BY <1>11
  <2> HIDE DEF next
  <2> QED
    BY <2>1, <2>2, <2>3
<1>16. whole => selected = IF placed <= Captured THEN placed ELSE NoTile
  <2> SUFFICES ASSUME whole PROVE selected = IF placed <= Captured THEN placed ELSE NoTile
    OBVIOUS
  <2>1. f.before = Capture(f.area, Shown(f.area)) /\ after = Capture(area2, Shown(area2))
    BY <1>5, <1>8, <1>10, <1>13, WholeCapture
  <2>2. placed # NoTile => f.area[placed] = "nothing"
    BY <1>6
  <2> QED
    BY <1>5, <1>7, <1>9, <1>13, <2>1, <2>2, ChangedTile
<1>17. /\ file' \in Seq(Records) /\ dumped' \in [Threads -> 0..Never] /\ blind' \in BOOLEAN
  BY <1>1, <1>2 DEF Typed
<1>18. Typed' /\ Installed' /\ Nested'
  BY <1>2, <1>3, <1>15, <1>17, InsideStep DEF RollPhases
<1>19. /\ Top(t)' = g /\ (InRoll(t)' <=> g.function = "roll")
       /\ \A phase : At(t, phase)' <=> g.phase = phase
       /\ \A u \in Threads : u # t =>
             /\ stack'[u] = stack[u] /\ Top(u)' = Top(u)
             /\ \A phase : At(u, phase)' <=> At(u, phase)
  BY <1>1, <1>2, <1>15, TopAfter
<1>20. Followed'
  <2>1. ~Traced(g) /\ ~Traced(f)
    BY <1>2, <1>3, <1>15 DEF Traced
  <2>2. \A u \in Threads : TracedMoves(u)' = TracedMoves(u)
    BY <1>1, <1>2, <1>3, <1>15, <2>1, ReplaceTraced
  <2> QED
    BY <1>1, <1>2, <2>2, FollowedKept
<1>21. Numbered'
  <2>1. \A u \in Threads : At(u, "enter")' =>
           At(u, "enter") /\ Top(u)'.record.sequence = Top(u).record.sequence
    BY <1>15, <1>19
  <2> QED
    BY <1>1, <1>2, <2>1, NumberedKept
<1>22. HeroesDumped'
  <2>1. HeroOf(t)'
    <3>1. /\ ~At(t, "hero") /\ ~At(t, "hero")'
          /\ InRoll(t) /\ Top(t).phase \in {"native", "roll"}
          /\ Top(t)'.record = Top(t).record
      BY <1>2, <1>3, <1>15, <1>19 DEF At, InRoll
    <3> QED
      BY <1>1, <1>2, <3>1, HeroKept
  <2>2. \A u \in Threads : u # t => HeroOf(u)'
    BY <1>1, <1>2, <1>19, OtherHeroes
  <2>3. RollsKnowTheirHeroes'
    BY <1>1, <1>2, RollsKept
  <2> QED
    BY <2>1, <2>2, <2>3 DEF HeroesDumped
<1>23. TilesCompared'
  <2>1. TilesOf(t)'
    BY <1>15, <1>16, <1>19 DEF TilesOf
  <2> QED
    BY <1>1, <1>19, <2>1, OtherTiles
<1> QED
  BY <1>18, <1>20, <1>21, <1>22, <1>23 DEF TraceInv

\* A fresh frame, and whose it is.
LEMMA EnterStep ==
    ASSUME TraceInv, NEW t \in Threads, stack[t] = <<>> \/ InMove(t), NEW g \in Frames,
           stack' = [stack EXCEPT ![t] = <<g>> \o @], g.function \in hooked,
           g.phase \in {"enter", "dump"}, UNCHANGED <<setup, file, dumped, blind>>,
           g.function = "roll" =>
               /\ g.area \in TileStates
               /\ g.before \in Captures(g.area)
               /\ g.phase = "dump"
    PROVE  /\ Installed' /\ Followed' /\ HeroesDumped' /\ TilesCompared'
           /\ \A u \in Threads : u # t => stack'[u] = stack[u]
           /\ Top(t)' = g /\ (At(t, "enter")' <=> g.phase = "enter")
<1>1. /\ Typed /\ Installed /\ Nested /\ Followed /\ TilesCompared
      /\ RollsKnowTheirHeroes /\ HeroOf(t) /\ \A u \in Threads : HeroOf(u)
  BY DEF TraceInv, TilesCompared, HeroesDumped
<1>2. /\ open' = open /\ file' = file /\ dumped' = dumped /\ blind' = blind
  BY DEF setup
<1>3. /\ stack'[t] # <<>> /\ Head(stack'[t]) = g
      /\ \A u \in Threads : u # t => stack'[u] = stack[u]
  BY <1>1, Pushed
<1>4. /\ Top(t)' = g /\ (InRoll(t)' <=> g.function = "roll")
      /\ \A phase : At(t, phase)' <=> g.phase = phase
  BY <1>3 DEF Top, InRoll, At
<1>5. Installed'
  BY <1>1, PushInstalled
<1>6. Followed'
  <2>1. \A u \in Threads : TracedMoves(u)' = TracedMoves(u)
    BY <1>1, PushTraced
  <2> QED
    BY <1>1, <1>2, <2>1, FollowedKept
<1>7. HeroesDumped'
  <2>1. HeroOf(t)'
    <3>1. ~At(t, "hero") /\ ~At(t, "hero")' /\ Top(t)'.phase \notin {"native", "roll"}
      BY <1>4 DEF InMove, At
    <3> QED
      BY <1>1, <1>2, <3>1, HeroKept
  <2>2. \A u \in Threads : u # t => HeroOf(u)'
    BY <1>1, <1>2, <1>3, OtherHeroes
  <2>3. RollsKnowTheirHeroes'
    BY <1>1, <1>2, RollsKept
  <2> QED
    BY <2>1, <2>2, <2>3 DEF HeroesDumped
<1>8. TilesCompared'
  <2>1. TilesOf(t)'
    BY <1>4 DEF TilesOf
  <2> QED
    BY <1>1, <1>3, <2>1, OtherTiles
<1> QED
  BY <1>3, <1>4, <1>5, <1>6, <1>7, <1>8

\* A call is possible only while there is room for it.
LEMMA PushTyped ==
    ASSUME Typed, Nested, NEW t \in Threads, NEW function, Enters(t, function),
           NEW g \in Frames, stack' = [stack EXCEPT ![t] = <<g>> \o @]
    PROVE  /\ stack' \in [Threads -> Seq(Frames)]
           /\ \A u \in Threads : Len(stack'[u]) <= MaxDepth
           /\ calls' = calls + 1 /\ calls' \in 0..MaxCalls /\ sequence + 1 \in 0..MaxCalls
           /\ sequence + 1 <= calls' /\ sequence <= calls'
           /\ depth[t] = Len(stack[t]) /\ depth[t] + 1 \in 0..MaxDepth
<1>1. /\ calls \in 0..MaxCalls /\ sequence \in 0..MaxCalls /\ sequence <= calls
      /\ MaxCalls \in Nat /\ MaxDepth \in Nat
  BY TracerAssumption DEF Typed
<1>2. calls' = calls + 1 /\ calls < MaxCalls /\ Len(stack[t]) < MaxDepth
  BY DEF Enters
<1>3. /\ stack' \in [Threads -> Seq(Frames)] /\ Len(stack'[t]) = Len(stack[t]) + 1
      /\ \A u \in Threads : u # t => stack'[u] = stack[u]
  BY Pushed
<1>4. Len(stack[t]) \in Nat
  BY StackFrames
<1>5. depth[t] = Len(stack[t])
  <2>1. ~InRoll(t)
    BY DEF Enters, InMove, InRoll
  <2> QED
    BY <2>1 DEF Nested, NestedIn
<1>6. \A u \in Threads : Len(stack'[u]) <= MaxDepth
  <2>1. Len(stack[t]) + 1 <= MaxDepth
    BY <1>1, <1>2, <1>4
  <2> QED
    BY <1>3, <2>1 DEF Typed
<1>7. /\ calls + 1 \in 0..MaxCalls /\ sequence + 1 \in 0..MaxCalls
      /\ sequence + 1 <= calls + 1 /\ sequence <= calls + 1
  BY <1>1, <1>2
<1>8. depth[t] + 1 \in 0..MaxDepth
  BY <1>1, <1>2, <1>4, <1>5
<1> QED
  BY <1>2, <1>3, <1>5, <1>6, <1>7, <1>8

\* A move is entered: it takes the next number.
LEMMA MoveEnterStep ==
    ASSUME TraceInv, NEW t \in Threads, MoveEnter(t)
    PROVE  TraceInv'
<1>1. Typed /\ Installed /\ Nested /\ Numbered
  BY DEF TraceInv
<1>2. /\ Enters(t, "move") /\ (stack[t] = <<>> \/ InMove(t)) /\ "move" \in hooked
      /\ UNCHANGED <<setup, file, dumped, blind>>
      /\ sequence' = sequence + 1
      /\ current' = [current EXCEPT ![t] = sequence + 1]
      /\ depth' = [depth EXCEPT ![t] = depth[t] + 1]
  BY DEF MoveEnter, Enters, NextSequence
<1>3. /\ sequence \in 0..MaxCalls /\ sequence \in Nat /\ current \in [Threads -> 0..MaxCalls]
      /\ depth \in [Threads -> 0..MaxDepth] /\ file \in Seq(Records)
      /\ MaxCalls \in Nat
  BY <1>1, TracerAssumption DEF Typed
<1>0. /\ sequence + 1 \in 1..(sequence + 1)
      /\ \E number, level, parent :
            number = sequence + 1 /\ level = depth[t] + 1 /\ parent = current[t]
  BY <1>3
<1>4. PICK number, level, parent :
        /\ number = sequence + 1 /\ level = depth[t] + 1 /\ parent = current[t]
        /\ number \in 1..(sequence + 1)
  BY <1>0
<1>5. PICK record : record = Record("move_enter", t, number, level, parent)
  OBVIOUS
<1>6. PICK g : g = Frame("move", record, <<>>, NoTiles)
  OBVIOUS
<1>7. stack' = [stack EXCEPT ![t] = <<g>> \o @]
  BY <1>4, <1>5, <1>6 DEF MoveEnter, NextSequence
<1>8. NoTile = FirstOf({}) /\ NoTile = 0 /\ {} \in SUBSET (1..Captured)
  BY FirstOfOne DEF NoTile
<1>9. NoTile \in {FirstOf(tiles) : tiles \in SUBSET (1..Captured)} /\ NoTile \in 0..Tiles
  BY <1>8, TracerAssumption
<1>10. depth[t] + 1 \in 0..MaxDepth /\ sequence + 1 \in 0..MaxCalls
  <2>1. Len(stack[t]) \in Nat /\ Len(stack[t]) < MaxDepth
    BY <1>1, <1>2, StackFrames DEF Enters
  <2>2. depth[t] = Len(stack[t])
    <3>1. ~InRoll(t)
      BY <1>2 DEF InMove, InRoll
    <3> QED
      BY <1>1, <3>1 DEF Nested, NestedIn
  <2>3. calls < MaxCalls /\ sequence <= calls /\ calls \in 0..MaxCalls
    BY <1>1, <1>2 DEF Enters, Typed
  <2> QED
    BY <1>3, <2>1, <2>2, <2>3, TracerAssumption
<1>11. record \in Records
  BY <1>3, <1>4, <1>5, <1>10, Phases DEF Record, Records
<1>12. /\ g \in Frames /\ g.function = "move" /\ g.phase = "enter" /\ g.passed = FALSE
       /\ g.record = record
  BY <1>6, <1>9, <1>11 DEF Frame, Frames, Functions, Pictures
<1>13. record.sequence = number
  BY <1>5 DEF Record
<1>14. /\ stack' \in [Threads -> Seq(Frames)]
       /\ \A u \in Threads : Len(stack'[u]) <= MaxDepth
       /\ calls' \in 0..MaxCalls /\ sequence + 1 <= calls'
  BY <1>1, <1>2, <1>7, <1>12, PushTyped
<1>15. /\ Installed' /\ Followed' /\ HeroesDumped' /\ TilesCompared'
       /\ \A u \in Threads : u # t => stack'[u] = stack[u]
       /\ Top(t)' = g /\ (At(t, "enter")' <=> g.phase = "enter")
  BY <1>2, <1>7, <1>12, EnterStep
<1>16. Typed'
  <2>1. current' \in [Threads -> 0..MaxCalls] /\ depth' \in [Threads -> 0..MaxDepth]
    BY <1>2, <1>3, <1>10
  <2>2. sequence' \in 0..MaxCalls /\ sequence' <= calls'
    BY <1>2, <1>10, <1>14
  <2> QED
    BY <1>1, <1>2, <1>14, <2>1, <2>2 DEF Typed, setup
<1>17. Nested'
  <2>1. sequence' \in Nat /\ sequence <= sequence' /\ number \in 1..sequence'
    BY <1>2, <1>3, <1>4
  <2>2. /\ \A u \in Threads : u # t => current'[u] = current[u] /\ depth'[u] = depth[u]
        /\ current'[t] = number /\ depth'[t] = depth[t] + 1
    BY <1>2, <1>3, <1>4
  <2>3. g.record = Record("move_enter", t, g.record.sequence, depth[t] + 1, current[t])
    BY <1>4, <1>5, <1>12, <1>13
  <2> QED
    BY <1>1, <1>2, <1>7, <1>12, <1>13, <2>1, <2>2, <2>3, PushNested
<1>18. Numbered'
  <2>1. file' = file /\ sequence' = sequence + 1
    BY <1>2
  <2>2. \A i \in DOMAIN file : file[i].sequence \in Nat
    <3>1. \A r \in Records : r.sequence \in 0..MaxCalls
      BY DEF Records
    <3>2. \A i \in DOMAIN file : file[i] \in Records
      BY <1>3, LenProperties
    <3>3. \A n \in 0..MaxCalls : n \in Nat
      BY <1>3
    <3> QED
      BY <3>1, <3>2, <3>3
  <2>3. \A i \in DOMAIN file : file[i].event = "move_enter" =>
           file[i].sequence <= sequence + 1 /\ file[i].sequence # number
    BY <1>1, <1>3, <1>4, <2>2 DEF Numbered
  <2>4. ASSUME NEW u \in Threads, u # t, At(u, "enter")'
        PROVE  /\ At(u, "enter") /\ Top(u)' = Top(u)
               /\ Top(u).record.sequence # number
    <3>1. At(u, "enter") /\ Top(u)' = Top(u)
      BY <1>15, <2>4 DEF At, Top
    <3>2. Top(u).function = "move"
      BY <1>1, <3>1, TopKnows DEF At, RollPhases
    <3>3. Top(u).record.sequence \in 1..sequence
      BY <1>1, <3>1, <3>2, TopKnows DEF At
    <3>4. \A n \in 1..sequence : n # number
      BY <1>3, <1>4
    <3> QED
      BY <3>1, <3>3, <3>4, Zenon
  <2>5. Top(t)'.record.sequence = number
    BY <1>12, <1>13, <1>15
  <2>6. \A u \in Threads : At(u, "enter")' =>
           \A i \in DOMAIN file :
               file[i].event = "move_enter" => file[i].sequence # Top(u)'.record.sequence
    <3> SUFFICES ASSUME NEW u \in Threads, At(u, "enter")',
                        NEW i \in DOMAIN file, file[i].event = "move_enter"
                 PROVE  file[i].sequence # Top(u)'.record.sequence
      OBVIOUS
    <3>1. CASE u = t
      BY <2>3, <2>5, <3>1
    <3>2. CASE u # t
      BY <1>1, <2>4, <3>2 DEF Numbered
    <3> QED
      BY <3>1, <3>2
  <2>7. \A u, v \in Threads :
           /\ At(u, "enter")' /\ At(v, "enter")'
           /\ Top(u)'.record.sequence = Top(v)'.record.sequence
           => u = v
    BY <1>1, <2>4, <2>5 DEF Numbered
  <2> QED
    BY <1>1, <2>1, <2>3, <2>6, <2>7 DEF Numbered
<1> QED
  BY <1>15, <1>16, <1>17, <1>18 DEF TraceInv

\* A roll is entered: it belongs to the move its thread is in.
LEMMA RollEnterStep ==
    ASSUME TraceInv, NEW t \in Threads, RollEnter(t)
    PROVE  TraceInv'
<1>1. Typed /\ Installed /\ Nested /\ Numbered
  BY DEF TraceInv
<1>2. /\ Enters(t, "roll") /\ (stack[t] = <<>> \/ InMove(t)) /\ "roll" \in hooked
      /\ UNCHANGED <<setup, file, dumped, blind>>
      /\ sequence' = sequence /\ current' = current /\ depth' = depth
  BY DEF RollEnter, Enters, locals
<1>3. /\ sequence \in 0..MaxCalls /\ sequence \in Nat /\ current \in [Threads -> 0..MaxCalls]
      /\ depth \in [Threads -> 0..MaxDepth] /\ MaxCalls \in Nat
  BY <1>1, TracerAssumption DEF Typed
<1>4. PICK area \in Areas :
        \E before \in Captures(area) :
          stack' = [stack EXCEPT ![t] = <<Frame("roll",
                      Record("return_roll", t, current[t], depth[t], 0), area, before)>> \o @]
  BY DEF RollEnter
<1>5. PICK record : record = Record("return_roll", t, current[t], depth[t], 0)
  OBVIOUS
<1>6. PICK before \in Captures(area) :
        stack' = [stack EXCEPT ![t] = <<Frame("roll",
                    Record("return_roll", t, current[t], depth[t], 0), area, before)>> \o @]
  BY <1>4
<1>7. PICK g : g = Frame("roll", record, area, before)
  OBVIOUS
<1>8. stack' = [stack EXCEPT ![t] = <<g>> \o @]
  BY <1>5, <1>6, <1>7
<1>9. NoTile = FirstOf({}) /\ NoTile = 0 /\ {} \in SUBSET (1..Captured)
  BY FirstOfOne DEF NoTile
<1>10. NoTile \in {FirstOf(tiles) : tiles \in SUBSET (1..Captured)} /\ NoTile \in 0..Tiles
  BY <1>9, TracerAssumption
<1>11. record \in Records
  <2>1. current[t] \in 0..MaxCalls /\ depth[t] \in 0..MaxDepth /\ 0 \in 0..MaxCalls
    BY <1>3
  <2> QED
    BY <1>5, <2>1, Phases DEF Record, Records
<1>12. area \in TileStates /\ before \in Pictures
  <2>1. area \in TileStates
    BY TracerAssumption
  <2> QED
    BY <1>6, <2>1, CaptureTyped
<1>13. /\ g \in Frames /\ g.function = "roll" /\ g.phase = "dump" /\ g.passed = FALSE
       /\ g.record = record /\ g.area = area /\ g.before = before
  BY <1>7, <1>10, <1>11, <1>12 DEF Frame, Frames, Functions
<1>14. /\ stack' \in [Threads -> Seq(Frames)]
       /\ \A u \in Threads : Len(stack'[u]) <= MaxDepth
       /\ calls' \in 0..MaxCalls /\ sequence <= calls'
  BY <1>1, <1>2, <1>8, <1>13, PushTyped
<1>15. /\ Installed' /\ Followed' /\ HeroesDumped' /\ TilesCompared'
       /\ \A u \in Threads : u # t => stack'[u] = stack[u]
       /\ Top(t)' = g /\ (At(t, "enter")' <=> g.phase = "enter")
  BY <1>2, <1>6, <1>8, <1>12, <1>13, EnterStep, Zenon
<1>16. Typed'
  BY <1>1, <1>2, <1>14 DEF Typed, setup
<1>17. Nested'
  <2>1. sequence' \in Nat /\ sequence <= sequence'
    BY <1>2, <1>3
  <2> QED
    BY <1>1, <1>2, <1>5, <1>8, <1>13, <2>1, PushNested
<1>18. Numbered'
  <2>1. \A u \in Threads : At(u, "enter")' =>
           At(u, "enter") /\ Top(u)'.record.sequence = Top(u).record.sequence
    BY <1>13, <1>15 DEF At, Top
  <2> QED
    BY <1>1, <1>2, <2>1, NumberedKept
<1> QED
  BY <1>15, <1>16, <1>17, <1>18 DEF TraceInv

\* A hook returns.
LEMMA LeaveStep ==
    ASSUME TraceInv, NEW t \in Threads, At(t, "leave"),
           stack' = [stack EXCEPT ![t] = Tail(@)],
           UNCHANGED <<setup, file, sequence, dumped, calls, blind>>,
           current' \in [Threads -> 0..MaxCalls], depth' \in [Threads -> 0..MaxDepth],
           \A u \in Threads : u # t => current'[u] = current[u] /\ depth'[u] = depth[u],
           \/ /\ Top(t).function = "move"
              /\ current'[t] = Top(t).record.parent /\ depth'[t] = depth[t] - 1
           \/ /\ Top(t).function = "roll"
              /\ current'[t] = current[t] /\ depth'[t] = depth[t]
    PROVE  TraceInv'
<1>1. /\ Typed /\ Installed /\ Nested /\ Followed /\ Numbered /\ TilesCompared
      /\ RollsKnowTheirHeroes /\ HeroOf(t) /\ \A u \in Threads : HeroOf(u)
  BY DEF TraceInv, TilesCompared, HeroesDumped
<1>2. /\ stack[t] # <<>> /\ Top(t).phase = "leave"
      /\ open' = open /\ file' = file /\ sequence' = sequence /\ dumped' = dumped
      /\ blind' = blind
  BY DEF At, setup
<1>3. /\ stack' \in [Threads -> Seq(Frames)]
      /\ stack'[t] = Tail(stack[t]) /\ Len(stack'[t]) = Len(stack[t]) - 1
      /\ Len(stack'[t]) \in Nat /\ Len(stack[t]) \in Nat
      /\ \A d \in 1..Len(stack'[t]) : FrameAt(t, d)' = FrameAt(t, d)
      /\ \A u \in Threads : u # t => stack'[u] = stack[u]
  BY <1>1, <1>2, Popped, StackFrames
<1>4. Typed'
  <2>1. \A u \in Threads : Len(stack'[u]) <= MaxDepth
    BY <1>1, <1>3, TracerAssumption DEF Typed
  <2> QED
    BY <1>1, <1>2, <1>3, <2>1 DEF Typed, setup
<1>5. Installed'
  BY <1>1, <1>2, PopInstalled
<1>6. Nested'
  BY <1>1, <1>2, PopNested
<1>7. Followed'
  <2>1. \A u \in Threads : TracedMoves(u)' = TracedMoves(u)
    BY <1>1, <1>2, PopTraced
  <2> QED
    BY <1>1, <1>2, <2>1, FollowedKept
<1>8. stack'[t] = <<>> \/ (Top(t)'.function = "move" /\ Top(t)'.phase = "native")
  <2> SUFFICES ASSUME stack'[t] # <<>>
               PROVE  Top(t)'.function = "move" /\ Top(t)'.phase = "native"
    OBVIOUS
  <2>1. PICK s \in Seq(Frames) : s = stack'[t] /\ s # <<>>
    BY <1>3
  <2>2. Len(s) \in Nat /\ Len(s) >= 1 /\ Head(s) = FromBottom(s, Len(s))
    BY <2>1, TopFrame
  <2>3. PICK k \in 1..Len(stack'[t]) : k = Len(s)
    BY <2>1, <2>2
  <2>4. FrameAt(t, k)' = Head(s) /\ FrameAt(t, k)' = FrameAt(t, k)
    BY <1>3, <2>1, <2>2, <2>3 DEF FrameAt
  <2>5. k \in 1..Len(stack[t]) /\ k < Len(stack[t])
    BY <1>3, <2>1, <2>3
  <2>6. FrameOK(t, k)
    BY <1>1, <2>5 DEF Nested, NestedIn
  <2> QED
    BY <2>1, <2>4, <2>5, <2>6 DEF FrameOK, Top
<1>9. ~At(t, "enter")' /\ ~At(t, "hero")' /\ ~InRoll(t)' /\ ~At(t, "hero")
  BY <1>2, <1>8 DEF At, InRoll
<1>10. \A u \in Threads : u # t => (At(u, "enter")' <=> At(u, "enter")) /\ Top(u)' = Top(u)
  BY <1>3 DEF At, Top
<1>11. Numbered'
  <2>1. \A u \in Threads : At(u, "enter")' =>
           At(u, "enter") /\ Top(u)'.record.sequence = Top(u).record.sequence
    BY <1>9, <1>10
  <2> QED
    BY <1>1, <1>2, <2>1, NumberedKept
<1>12. HeroesDumped'
  <2>1. HeroOf(t)'
    BY <1>1, <1>2, <1>9, HeroKept
  <2>2. \A u \in Threads : u # t => HeroOf(u)'
    BY <1>1, <1>2, <1>3, OtherHeroes
  <2>3. RollsKnowTheirHeroes'
    BY <1>1, <1>2, RollsKept
  <2> QED
    BY <2>1, <2>2, <2>3 DEF HeroesDumped
<1>13. TilesCompared'
  <2>1. TilesOf(t)'
    BY <1>9 DEF TilesOf
  <2> QED
    BY <1>1, <1>3, <2>1, OtherTiles
<1> QED
  BY <1>4, <1>5, <1>6, <1>7, <1>11, <1>12, <1>13 DEF TraceInv

\* A traced move returns, and a traced roll.
LEMMA MoveLeaveStep ==
    ASSUME TraceInv, NEW t \in Threads, MoveLeave(t)
    PROVE  TraceInv'
<1>1. Typed /\ Nested
  BY DEF TraceInv
<1>2. /\ At(t, "leave") /\ stack[t] # <<>> /\ Top(t).function = "move"
      /\ stack' = [stack EXCEPT ![t] = Tail(@)]
      /\ UNCHANGED <<setup, file, sequence, dumped, calls, blind>>
      /\ current' = [current EXCEPT ![t] = Top(t).record.parent]
      /\ depth' = [depth EXCEPT ![t] = depth[t] - 1]
  BY DEF MoveLeave, At, CurrentAfter, DepthAfter
<1>3. /\ current \in [Threads -> 0..MaxCalls] /\ depth \in [Threads -> 0..MaxDepth]
      /\ MaxDepth \in Nat
  BY <1>1, TracerAssumption DEF Typed
<1>4. Top(t).record.parent \in 0..MaxCalls
  <2>1. Top(t) \in Frames
    BY <1>1, <1>2, TopIsFrame
  <2> QED
    BY <2>1 DEF Frames, Records
<1>5. depth[t] - 1 \in 0..MaxDepth
  <2>1. Len(stack[t]) \in Nat /\ Len(stack[t]) >= 1
    BY <1>1, <1>2, TopIsFrame
  <2>2. depth[t] = Len(stack[t])
    BY <1>1, <1>2 DEF Nested, NestedIn, InRoll
  <2>3. depth[t] \in 0..MaxDepth
    BY <1>3
  <2> QED
    BY <1>3, <2>1, <2>2, <2>3
<1>6. current' \in [Threads -> 0..MaxCalls] /\ depth' \in [Threads -> 0..MaxDepth]
  BY <1>2, <1>3, <1>4, <1>5
<1>7. /\ \A u \in Threads : u # t => current'[u] = current[u] /\ depth'[u] = depth[u]
      /\ current'[t] = Top(t).record.parent /\ depth'[t] = depth[t] - 1
  BY <1>2, <1>3
<1> QED
  BY <1>2, <1>6, <1>7, LeaveStep

\* A traced roll returns.
LEMMA RollLeaveStep ==
    ASSUME TraceInv, NEW t \in Threads, RollLeave(t)
    PROVE  TraceInv'
<1>1. current \in [Threads -> 0..MaxCalls] /\ depth \in [Threads -> 0..MaxDepth]
  BY DEF TraceInv, Typed
<1> QED
  BY <1>1, LeaveStep DEF RollLeave, locals

-----------------------------------------------------------------------------
(* The theorems.                                                             *)

\* In the beginning nothing is hooked, nothing runs and there is no file.
LEMMA InitTrace == Init => TraceInv
<1> SUFFICES ASSUME Init PROVE TraceInv
  OBVIOUS
<1>1. /\ MaxCalls \in Nat /\ MaxDepth \in Nat
      /\ 0 \in 0..MaxCalls /\ 0 \in 0..MaxDepth /\ Never \in 0..Never
  BY TracerAssumption DEF Never
<1>2. \A t \in Threads : stack[t] = <<>> /\ Len(stack[t]) = 0 /\ TracedMoves(t) = <<>>
  BY NoNumbers, Zenon DEF Init, TracedMoves
<1>3. file = <<>> /\ Len(file) = 0 /\ DOMAIN file = {}
  BY DEF Init
<1>4. Typed
  <2>1. /\ current \in [Threads -> 0..MaxCalls] /\ depth \in [Threads -> 0..MaxDepth]
        /\ dumped \in [Threads -> 0..Never] /\ file \in Seq(Records)
        /\ stack \in [Threads -> Seq(Frames)]
    BY <1>1 DEF Init
  <2>2. \A t \in Threads : Len(stack[t]) <= MaxDepth
    <3>1. 0 <= MaxDepth
      BY <1>1
    <3>2. \A t \in Threads : Len(stack[t]) = 0
      BY <1>2
    <3> QED
      BY <3>1, <3>2, Zenon
  <2>3. /\ stage = "create" /\ hooked = {} /\ open = FALSE /\ blind = FALSE
        /\ sequence = 0 /\ calls = 0 /\ sequence <= calls
    BY DEF Init
  <2> QED
    BY <1>1, <2>1, <2>2, <2>3 DEF Typed
<1>5. Installed
  BY <1>2 DEF Init, Installed
<1>6. Nested
  <2> SUFFICES ASSUME NEW t \in Threads PROVE NestedIn(t)
    BY DEF Nested
  <2>1. ~InRoll(t) /\ 1..Len(stack[t]) = {}
    BY <1>2 DEF InRoll
  <2> QED
    BY <1>2, <2>1 DEF NestedIn, Init, SequenceAt
<1>7. Followed
  <2> SUFFICES ASSUME NEW t \in Threads PROVE FollowedIn(t)
    BY DEF Followed
  <2>1. PICK nothing : nothing = [n \in 0..0 |-> <<>>]
    OBVIOUS
  <2>2. nothing = [n \in 0..0 |-> IF n = 0 THEN <<>> ELSE Follow(t, nothing[n - 1], file[n])]
    BY <2>1
  <2>3. Follows(t, file, nothing)
    BY <1>3, <2>2 DEF Follows
  <2>4. ASSUME NEW after, Follows(t, file, after) PROVE after[0] = <<>>
    <3>1. after = [n \in 0..0 |-> IF n = 0 THEN <<>> ELSE Follow(t, after[n - 1], file[n])]
      BY <1>3, <2>4 DEF Follows
    <3>2. 0 \in 0..0
      OBVIOUS
    <3> QED
      BY <3>1, <3>2
  <2> QED
    BY <1>2, <1>3, <2>3, <2>4 DEF FollowedIn
<1>8. Numbered
  BY <1>2, <1>3 DEF Numbered, At
<1>9. HeroesDumped
  BY <1>2, <1>3 DEF HeroesDumped, RollsKnowTheirHeroes, HeroOf, At, InRoll, Init
<1>10. TilesCompared
  BY <1>2 DEF TilesCompared, TilesOf, InRoll
<1> QED
  BY <1>4, <1>5, <1>6, <1>7, <1>8, <1>9, <1>10 DEF TraceInv

\* A step that changes nothing.
LEMMA Stutter == TraceInv /\ UNCHANGED vars => TraceInv'
<1> SUFFICES ASSUME TraceInv, UNCHANGED vars PROVE TraceInv'
  OBVIOUS
<1>1. /\ UNCHANGED <<file, calling>> /\ open' = open /\ stage' = stage /\ hooked' = hooked
      /\ stack' = stack /\ dumped' = dumped /\ file' = file
  BY DEF vars, calling, setup, locals
<1>2. Typed /\ Installed
  BY DEF TraceInv
<1>3. Installed'
  BY <1>1, <1>2 DEF Installed, FrameAt
<1> QED
  BY <1>1, <1>2, <1>3, SetupStep DEF Typed

\* The invariant: what every frame knows of the move below it, what the file
\* says of every thread, whose numbers and heroes are in it, and what a roll
\* remembers of its tiles.
THEOREM Invariance == Spec => []TraceInv
<1>1. TraceInv /\ Next => TraceInv'
  <2> SUFFICES ASSUME TraceInv, Next PROVE TraceInv'
    OBVIOUS
  <2>1. CASE CreateFile
    BY <2>1, CreateFileStep
  <2>2. CASE RestoreRoll \/ CloseFile \/ \E f \in Functions : Patch(f)
    BY <2>2, WorkerSteps
  <2>3. ASSUME NEW t \in Threads, Hook(t) PROVE TraceInv'
    <3>1. CASE TestFile(t)
      BY <3>1, TestFileStep
    <3>2. CASE WriteRecord(t)
      BY <3>2, WriteRecordStep
    <3>3. CASE MoveEnter(t)
      BY <3>3, MoveEnterStep
    <3>4. CASE MoveReturns(t)
      BY <3>4, MoveReturnsStep
    <3>5. CASE MoveLeave(t)
      BY <3>5, MoveLeaveStep
    <3>6. CASE RollEnter(t)
      BY <3>6, RollEnterStep
    <3>7. CASE Dump(t)
      BY <3>7, DumpStep
    <3>8. CASE RollReturns(t)
      BY <3>8, RollReturnsStep
    <3>9. CASE RollLeave(t)
      BY <3>9, RollLeaveStep
    <3> QED
      BY <2>3, <3>1, <3>2, <3>3, <3>4, <3>5, <3>6, <3>7, <3>8, <3>9 DEF Hook
  <2> QED
    BY <2>1, <2>2, <2>3 DEF Next, Worker
<1> QED
  BY <1>1, InitTrace, Stutter, PTL DEF Spec

\* Whatever the hooks of all threads do, the bookkeeping keeps its types, and
\* below the innermost hook of a thread there are only moves whose native
\* function runs.
THEOREM TypeCorrect == Spec => []TypeOK
<1>1. TraceInv => TypeOK
  <2> SUFFICES ASSUME TraceInv PROVE TypeOK
    OBVIOUS
  <2>1. Typed /\ Nested
    BY DEF TraceInv
  <2>2. ASSUME NEW t \in Threads, NEW n \in DOMAIN stack[t]
        PROVE  /\ stack[t][n].record \in Records
               /\ n # 1 => stack[t][n].function = "move" /\ stack[t][n].phase = "native"
    <3>1. PICK s \in Seq(Frames) : s = stack[t]
      BY <2>1 DEF Typed
    <3>2. /\ Len(s) \in Nat /\ DOMAIN s = 1..Len(s)
          /\ Len(s) + 1 - n \in 1..Len(s)
          /\ s[n] = FromBottom(s, Len(s) + 1 - n)
      BY <2>2, <3>1, NumberedFrames
    <3>3. PICK d \in 1..Len(s) : d = Len(s) + 1 - n
      BY <3>2
    <3>4. s[n] = FrameAt(t, d) /\ s[n] \in Frames
      BY <3>1, <3>2, <3>3, NumberedFrames DEF FrameAt
    <3>5. s[n].record \in Records
      BY <3>4 DEF Frames
    <3>6. ASSUME n # 1 PROVE s[n].function = "move" /\ s[n].phase = "native"
      <4>1. n \in 1..Len(s)
        BY <2>2, <3>1, <3>2
      <4>2. d < Len(s)
        BY <3>2, <3>3, <3>6, <4>1
      <4>3. FrameOK(t, d)
        BY <2>1, <3>1 DEF Nested, NestedIn
      <4> QED
        BY <3>1, <3>4, <4>2, <4>3 DEF FrameOK
    <3> QED
      BY <3>1, <3>5, <3>6
  <2> QED
    BY <2>1, <2>2 DEF Typed, TypeOK
<1> QED
  BY <1>1, Invariance, PTL

\* The trace alone tells what ran: in every thread, and however the threads'
\* records mix in the file, following it gives the moves that are running, and
\* no number is given twice.
THEOREM TraceCorrect == Spec => []TraceReplays
<1>1. TraceInv => TraceReplays
  <2> SUFFICES ASSUME TraceInv PROVE TraceReplays
    OBVIOUS
  <2>1. ASSUME NEW t \in Threads PROVE OpenMoves(t) = TracedMoves(t)
    <3>1. /\ \E after : Follows(t, file, after)
          /\ \A after : Follows(t, file, after) => after[Len(file)] = TracedMoves(t)
      BY DEF TraceInv, Followed, FollowedIn
    <3>2. PICK after : after = CHOOSE g : Follows(t, file, g)
      OBVIOUS
    <3>3. Follows(t, file, after)
      BY <3>1, <3>2
    <3>4. OpenMoves(t) = after[Len(file)]
      BY <3>2 DEF OpenMoves, Follows
    <3> QED
      BY <3>1, <3>3, <3>4
  <2>2. \A i, j \in DOMAIN file :
           /\ file[i].event = "move_enter" /\ file[j].event = "move_enter"
           /\ file[i].sequence = file[j].sequence
           => i = j
    BY DEF TraceInv, Numbered
  <2> QED
    BY <2>1, <2>2 DEF TraceReplays
<1> QED
  BY <1>1, Invariance, PTL

\* A roll's heroes are in the trace before the roll, if none was unreadable.
THEOREM HeroesCorrect == Spec => []RollsKnowTheirHeroes
<1>1. TraceInv => RollsKnowTheirHeroes
  BY DEF TraceInv, HeroesDumped
<1> QED
  BY <1>1, Invariance, PTL

\* A roll's record names the tile the native roll filled, if all were readable.
THEOREM TilesCorrect == Spec => []SelectedTileIsTheChange
<1>1. TraceInv => SelectedTileIsTheChange
  <2> SUFFICES ASSUME TraceInv, NEW t \in Threads, At(t, "roll"), Top(t).whole
               PROVE  Top(t).selected =
                         IF Top(t).placed <= Captured THEN Top(t).placed ELSE NoTile
    BY DEF SelectedTileIsTheChange
  <2>1. stack[t] # <<>> /\ Top(t).phase = "roll"
    BY DEF At
  <2>2. Top(t).function = "roll"
    BY <2>1, TopKnows DEF TraceInv, MovePhases
  <2> QED
    BY <2>1, <2>2 DEF TraceInv, TilesCompared, TilesOf, InRoll
<1> QED
  BY <1>1, Invariance, PTL
===============================================================================
