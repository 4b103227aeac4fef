-------------------------------- MODULE Tracer --------------------------------
(* The opt-in corridor tracer of tracer.cpp: its hooks around move-to-area and  *)
(* the corridor-return roll, the thread-local bookkeeping that tells a reader   *)
(* of the trace which roll belongs to which move, and the binary file that all  *)
(* threads append to, against its own installation and rollback. A native move  *)
(* reaches rolls and further moves before it returns.                           *)
EXTENDS Integers, Sequences

CONSTANTS
    Threads,
    Tiles,      \* bound: tiles of an area (256 in the code)
    Captured,   \* kMaximumTiles (32): the tiles a record has room for
    Areas,      \* the contents an area may have when a roll begins
    MaxCalls,   \* bound: traced calls in one behaviour
    MaxDepth    \* bound: traced calls running in one thread

TileStates == {area \in Seq({"nothing", "battle"}) : Len(area) <= Tiles}

ASSUME TracerAssumption ==
    /\ {Tiles, Captured, MaxCalls, MaxDepth} \subseteq Nat
    /\ Areas \subseteq TileStates

VARIABLES
    stage,     \* where install stands
    hooked,    \* the functions whose calls run a hook
    open,      \* g_file is a valid handle
    file,      \* the records in the trace file
    sequence,  \* g_sequence
    current,   \* [Threads -> g_current_move]
    depth,     \* [Threads -> g_move_depth]
    dumped,    \* [Threads -> g_last_hero_dump]
    stack,     \* [Threads -> the hooks' frames, the innermost first]
    calls,     \* traced calls so far
    blind      \* history: the raid or a hero could not be read for a dump

setup == <<stage, hooked, open>>
locals == <<current, depth, dumped>>
vars == <<setup, file, sequence, locals, stack, calls, blind>>

Never == MaxCalls + 1          \* ~0, no sequence number
NoTile == 0                    \* selected_tile is -1; tiles count from 1 here
Functions == {"move", "roll"}

\* The phases in which a hook writes a record, and the record's event.
EventOf == [enter |-> "move_enter", exit |-> "move_exit",
            hero |-> "hero_actor", roll |-> "return_roll"]
PhaseAfter == [enter |-> "native", exit |-> "leave", hero |-> "native", roll |-> "leave"]

\* A Record's fields that place it among the calls.
Record(event, t, seq, deep, parent) ==
    [event |-> event, thread |-> t, sequence |-> seq, depth |-> deep, parent |-> parent]
Records ==
    [event : {"session_start"} \union {EventOf[p] : p \in DOMAIN EventOf},
     thread : Threads \union {"worker"}, sequence : 0..MaxCalls,
     depth : 0..MaxDepth, parent : 0..MaxCalls]

\* The tiles of an area that a record has room for: min(total, kMaximumTiles).
Shown(area) == IF Len(area) < Captured THEN Len(area) ELSE Captured

\* capture_area: the tiles up to the first unreadable one; the others stay zero,
\* which means "nothing". It may also fail before the first tile.
Capture(area, readable) ==
    [tiles |-> [i \in 1..Captured |-> IF i <= readable THEN area[i] ELSE "nothing"],
     whole |-> readable = Shown(area)]
Unread == [tiles |-> [i \in 1..Captured |-> "nothing"], whole |-> FALSE]
Captures(area) == {Capture(area, n) : n \in 0..Shown(area)} \union {Unread}

NoTiles == [tiles |-> <<>>, whole |-> FALSE]

\* A hook's frame: where it stands, whether write_record has found a file, and
\* its record. For a roll also the area, what was captured of it before, and the
\* record's selected_tile; placed (the tile the native roll filled) and whole (no
\* tile was unreadable) are history.
Frame(function, record, area, before) ==
    [function |-> function, phase |-> IF function = "move" THEN "enter" ELSE "dump",
     passed |-> FALSE, record |-> record, area |-> area, before |-> before,
     selected |-> NoTile, placed |-> NoTile, whole |-> FALSE]

Top(t) == Head(stack[t])
At(t, phase) == stack[t] # <<>> /\ Top(t).phase = phase
Replace(t, frame) == stack' = [stack EXCEPT ![t] = <<frame>> \o Tail(@)]

TypeOK ==
    /\ stage \in {"create", "roll", "move", "restored", "done"}
    /\ hooked \subseteq Functions
    /\ open \in BOOLEAN
    /\ file \in Seq(Records)
    /\ sequence \in 0..MaxCalls
    /\ current \in [Threads -> 0..MaxCalls]
    /\ depth \in [Threads -> 0..MaxDepth]
    /\ dumped \in [Threads -> 0..Never]
    /\ \A t \in Threads : \A n \in DOMAIN stack[t] :
          /\ stack[t][n].record \in Records
          /\ n # 1 => stack[t][n].function = "move" /\ stack[t][n].phase = "native"
    /\ calls \in 0..MaxCalls
    /\ blind \in BOOLEAN

Init ==
    /\ stage = "create"
    /\ hooked = {}
    /\ open = FALSE
    /\ file = <<>>
    /\ sequence = 0
    /\ current = [t \in Threads |-> 0]
    /\ depth = [t \in Threads |-> 0]
    /\ dumped = [t \in Threads |-> Never]
    /\ stack = [t \in Threads |-> <<>>]
    /\ calls = 0
    /\ blind = FALSE

-----------------------------------------------------------------------------
(* install, in the worker; BridgeInstall has the patches themselves.          *)

calling == <<sequence, locals, stack, calls, blind>>

CreateFile ==
    /\ stage = "create"
    /\ \/ /\ stage' = "roll"
          /\ open' = TRUE
          /\ file' = <<Record("session_start", "worker", 0, 0, 0)>>
       \/ stage' = "done" /\ UNCHANGED <<open, file>>
    /\ UNCHANGED <<hooked, calling>>

Patch(function) ==
    /\ stage = function
    /\ hooked' = hooked \union {function}
    /\ stage' = IF function = "roll" THEN "move" ELSE "done"
    /\ UNCHANGED <<open, file, calling>>

\* The move hook failed: the roll hook is taken out again ...
RestoreRoll ==
    /\ stage = "move"
    /\ stage' = "restored"
    /\ hooked' = {}
    /\ UNCHANGED <<open, file, calling>>

\* ... and the file is closed, whoever is still in a hook.
CloseFile ==
    /\ stage \in {"roll", "restored"}
    /\ stage' = "done"
    /\ open' = FALSE
    /\ UNCHANGED <<hooked, file, calling>>

-----------------------------------------------------------------------------
(* write_record, called in a writing phase of a hook.                         *)

\* g_file is tested without the lock; without a file the hook just goes on.
TestFile(t) ==
    /\ \E p \in DOMAIN EventOf : At(t, p)
    /\ ~Top(t).passed
    /\ Replace(t, IF open THEN [Top(t) EXCEPT !.passed = TRUE]
                          ELSE [Top(t) EXCEPT !.phase = PhaseAfter[@]])
    /\ UNCHANGED <<setup, file, sequence, locals, calls, blind>>

\* A hero record has the sequence number only.
RecordNow(t) ==
    IF At(t, "hero") THEN Record("hero_actor", t, Top(t).record.sequence, 0, 0)
    ELSE [Top(t).record EXCEPT !.event = EventOf[Top(t).phase]]

\* Under the lock. The record of a file closed in between is lost.
WriteRecord(t) ==
    /\ stack[t] # <<>>
    /\ Top(t).passed
    /\ file' = IF open THEN Append(file, RecordNow(t)) ELSE file
    /\ Replace(t, [Top(t) EXCEPT !.passed = FALSE, !.phase = PhaseAfter[@]])
    /\ UNCHANGED <<setup, sequence, locals, calls, blind>>

-----------------------------------------------------------------------------
(* hooked_move.                                                               *)

InMove(t) == At(t, "native") /\ Top(t).function = "move"
Enters(t, function) ==
    /\ stack[t] = <<>> \/ InMove(t)
    /\ function \in hooked
    /\ calls < MaxCalls
    /\ Len(stack[t]) < MaxDepth
    /\ calls' = calls + 1

\* One fetch_add for all threads.
NextSequence_PerThread(t) == current[t] + 1    \* mutant: a thread-local counter
NextSequence(t) == sequence + 1

MoveEnter(t) ==
    /\ Enters(t, "move")
    /\ sequence' = NextSequence(t)
    /\ current' = [current EXCEPT ![t] = NextSequence(t)]
    /\ depth' = [depth EXCEPT ![t] = @ + 1]
    /\ stack' = [stack EXCEPT ![t] = <<Frame("move",
          Record("move_enter", t, NextSequence(t), depth[t] + 1, current[t]),
          <<>>, NoTiles)>> \o @]
    /\ UNCHANGED <<setup, file, dumped, blind>>

MoveReturns(t) ==
    /\ InMove(t)
    /\ Replace(t, [Top(t) EXCEPT !.phase = "exit"])
    /\ UNCHANGED <<setup, file, sequence, locals, calls, blind>>

\* The hook returns with the bookkeeping as it found it.
CurrentAfter_Zero(frame) == 0                  \* mutant: forgets the outer move
CurrentAfter(frame) == frame.record.parent
DepthAfter_Twice(t) == depth[t] - 2            \* mutant: the exit record counts too
DepthAfter(t) == depth[t] - 1

MoveLeave(t) ==
    /\ At(t, "leave")
    /\ Top(t).function = "move"
    /\ current' = [current EXCEPT ![t] = CurrentAfter(Top(t))]
    /\ depth' = [depth EXCEPT ![t] = DepthAfter(t)]
    /\ stack' = [stack EXCEPT ![t] = Tail(@)]
    /\ UNCHANGED <<setup, file, sequence, dumped, calls, blind>>

-----------------------------------------------------------------------------
(* hooked_roll.                                                               *)

RollEnter(t) ==
    /\ Enters(t, "roll")
    /\ \E area \in Areas : \E before \in Captures(area) :
          stack' = [stack EXCEPT ![t] = <<Frame("roll",
             Record("return_roll", t, current[t], depth[t], 0), area, before)>> \o @]
    /\ UNCHANGED <<setup, file, sequence, locals, blind>>

\* dump_hero_buffs, with one hero record for all its records: once per move and
\* thread, and not at all without a raid; the mark is set before anything is read.
DumpMark_Global(t) == \E u \in Threads : dumped[u] = Top(t).record.sequence   \* mutant: not thread_local
DumpMark(t) == dumped[t] = Top(t).record.sequence

Dump(t) ==
    /\ At(t, "dump")
    /\ \/ /\ DumpMark(t)
          /\ Replace(t, [Top(t) EXCEPT !.phase = "native"])
          /\ UNCHANGED <<dumped, blind>>
       \/ /\ ~DumpMark(t)
          /\ dumped' = [dumped EXCEPT ![t] = Top(t).record.sequence]
          /\ \/ Replace(t, [Top(t) EXCEPT !.phase = "hero"]) /\ UNCHANGED blind
             \/ Replace(t, [Top(t) EXCEPT !.phase = "native"]) /\ blind' = TRUE
       \/ /\ Replace(t, [Top(t) EXCEPT !.phase = "native"])
          /\ blind' = TRUE
          /\ UNCHANGED dumped
    /\ UNCHANGED <<setup, file, sequence, current, depth, calls>>

\* The first tile whose content the native roll changed, of the tile_count that
\* capture_area has written. (If it never got that far, both pictures are zero.)
FirstOf(tiles) ==
    IF tiles = {} THEN NoTile ELSE CHOOSE i \in tiles : \A j \in tiles : i <= j
Selected_SkipsFirst(before, after, count) ==   \* mutant: starts at index 1
    FirstOf({i \in 2..count : before[i] # after[i]})
Selected(before, after, count) == FirstOf({i \in 1..count : before[i] # after[i]})

\* The native roll fills one empty tile or none; then the area is captured again.
RollReturns(t) ==
    /\ At(t, "native")
    /\ Top(t).function = "roll"
    /\ LET frame == Top(t) IN
       \E placed \in {NoTile} \union {i \in DOMAIN frame.area : frame.area[i] = "nothing"} :
          LET area == [i \in DOMAIN frame.area |->
                         IF i = placed THEN "battle" ELSE frame.area[i]]
          IN \E after \in Captures(area) : Replace(t, [frame EXCEPT !.phase = "roll",
                !.area = <<>>,
                !.before = NoTiles,
                !.selected = Selected(frame.before.tiles, after.tiles, Shown(area)),
                !.placed = placed,
                !.whole = frame.before.whole /\ after.whole])
    /\ UNCHANGED <<setup, file, sequence, locals, calls, blind>>

RollLeave(t) ==
    /\ At(t, "leave")
    /\ Top(t).function = "roll"
    /\ stack' = [stack EXCEPT ![t] = Tail(@)]
    /\ UNCHANGED <<setup, file, sequence, locals, calls, blind>>

-----------------------------------------------------------------------------
Worker == CreateFile \/ RestoreRoll \/ CloseFile \/ \E f \in Functions : Patch(f)

Hook(t) ==
    \/ TestFile(t) \/ WriteRecord(t)
    \/ MoveEnter(t) \/ MoveReturns(t) \/ MoveLeave(t)
    \/ RollEnter(t) \/ Dump(t) \/ RollReturns(t) \/ RollLeave(t)

Next == Worker \/ \E t \in Threads : Hook(t)

Spec == Init /\ [][Next]_vars

-----------------------------------------------------------------------------
(* Properties.                                                               *)

Broken == <<0>>                \* 0 is no move's number

\* How a reader follows one thread through the trace: the moves that are open
\* after a record, the innermost first.
Follow(t, moves, record) ==
    LET innermost == IF moves = <<>> THEN 0 ELSE Head(moves)
    IN IF moves = Broken \/ record.thread # t THEN moves ELSE
       CASE record.event = "move_enter" ->
               IF record.depth = Len(moves) + 1 /\ record.parent = innermost
                 THEN <<record.sequence>> \o moves ELSE Broken
         [] record.event = "move_exit" ->
               IF record.sequence = innermost /\ record.depth = Len(moves) /\ moves # <<>>
                 THEN Tail(moves) ELSE Broken
         [] record.event = "return_roll" ->
               IF record.sequence = innermost /\ record.depth = Len(moves)
                 THEN moves ELSE Broken
         [] OTHER -> IF record.sequence = innermost THEN moves ELSE Broken
OpenMoves(t) ==
    LET after[n \in 0..Len(file)] ==
            IF n = 0 THEN <<>> ELSE Follow(t, after[n - 1], file[n])
    IN after[Len(file)]

\* The moves of a thread whose enter record is written and whose exit is not.
\* Only the innermost hook can be about to write one of them: all below it are
\* moves whose native function runs (TypeOK).
Traced(frame) == frame.function = "move" /\ frame.phase \in {"native", "exit"}
NumbersOf(frames) == [n \in DOMAIN frames |-> frames[n].record.sequence]
TracedMoves(t) ==
    NumbersOf(IF stack[t] = <<>> \/ Traced(Top(t)) THEN stack[t] ELSE Tail(stack[t]))

\* The trace alone tells what ran: followed thread by thread, enters and exits
\* nest, depth and parent agree with them, every roll carries the number of the
\* innermost open move, and the open moves are those really running. A number
\* names one move of one thread.
TraceReplays ==
    /\ \A t \in Threads : OpenMoves(t) = TracedMoves(t)
    /\ \A i, j \in DOMAIN file :
          /\ file[i].event = "move_enter" /\ file[j].event = "move_enter"
          /\ file[i].sequence = file[j].sequence
          => i = j

\* A roll's heroes are in the trace before it: dumped by its own thread for its
\* own move, even if another thread is in a move or a nested move came between.
\* (As long as nothing was unreadable: a dump that failed is not tried again.)
RollsKnowTheirHeroes ==
    ~blind => \A i \in DOMAIN file : file[i].event = "return_roll" =>
        \E j \in 1..(i - 1) :
            /\ file[j].event = "hero_actor"
            /\ file[j].thread = file[i].thread
            /\ file[j].sequence = file[i].sequence

\* A roll's record goes out with the right selected_tile if both captures are
\* complete: the tile the native roll filled, or none when it filled none or one
\* beyond those a record has room for.
SelectedTileIsTheChange ==
    \A t \in Threads : At(t, "roll") /\ Top(t).whole =>
        Top(t).selected = IF Top(t).placed <= Captured THEN Top(t).placed ELSE NoTile
=============================================================================
