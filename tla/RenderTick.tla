------------------------------ MODULE RenderTick ------------------------------
(* What the renderer does once a frame: on_render_tick's polls and scans, as in *)
(* HotReload, and then dispatch_render_tick, which calls every render_tick      *)
(* callback of every working script. A callback may fail, which disables it,    *)
(* and may register further callbacks with dd.on.                               *)
EXTENDS HotReload

CONSTANT MaxSlots   \* bound: callbacks that one script registers

ASSUME SlotsAssumption == MaxSlots \in Nat \ {0}

VARIABLES
    callbacks,  \* [Ids -> each script's callbacks.render_tick: "on", or "off" where
                \* a failing function was replaced by false]
    phase,      \* the frame: "none", "owed" before its dispatch, or "run"
    turn,       \* dispatch_render_tick's script, as an index in scripts
    slot,       \* its callback index
    count,      \* the callbacks the script had when its turn came
    planned,    \* history: the callbacks that were on when the dispatch began
    ran         \* history: the callbacks called in this dispatch, in order

dispatchVars == <<phase, turn, slot, count, planned, ran>>
tickVars == <<vars, callbacks, dispatchVars>>

Tables == UNION {[1..n -> {"on", "off"}] : n \in 0..MaxSlots}
Callbacks == Ids \X (1..MaxSlots)

\* Only a listed script with a working state holds callbacks: one that is
\* unloaded, or never loaded, is not called any more.
TickTypeOK ==
    /\ TypeOK
    /\ callbacks \in [Ids -> Tables]
    /\ phase \in {"none", "owed", "run"}
    /\ turn \in Nat
    /\ slot \in 1..(MaxSlots + 1)
    /\ count \in 0..MaxSlots
    /\ planned \subseteq Callbacks
    /\ ran \in Seq(Callbacks)
    /\ \A id \in Ids : callbacks[id] # <<>> => Listed(id) /\ live[id] # 0

TickInit ==
    /\ Init
    /\ callbacks = [id \in Ids |-> <<>>]
    /\ phase = "none"
    /\ turn = 0
    /\ slot = 1
    /\ count = 0
    /\ planned = {}
    /\ ran = <<>>

-----------------------------------------------------------------------------
(* A frame and its reloads.                                                   *)

\* Whatever the timers say, a frame ends with a dispatch.
BeginTick ==
    /\ phase = "none"
    /\ pc = "idle"
    /\ Frame \/ (due = {} /\ UNCHANGED vars)
    /\ phase' = "owed"
    /\ UNCHANGED <<callbacks, turn, slot, count, planned, ran>>

\* A new state has a table of its own, filled by what its chunk registers; a
\* rejected candidate takes its table with it.
FreshTables == {[k \in 1..n |-> "on"] : n \in 0..(MaxSlots - 1)}

TableKept_Never == FALSE                       \* mutant: a rejected reload resets it too
TableKept == ~Loads

CommitTable ==
    /\ Commit
    /\ \E table \in FreshTables :
          callbacks' = [callbacks EXCEPT ![loading] =
                          IF TableKept THEN @ ELSE table]
    /\ UNCHANGED dispatchVars

\* An erased script's tables go with its state.
TableAfterPrune_Kept(id) == callbacks[id]      \* mutant: outlives its state
TableAfterPrune(id) == IF Listed(id)' THEN callbacks[id] ELSE <<>>

PruneTable ==
    /\ Prune
    /\ callbacks' = [id \in Ids |-> TableAfterPrune(id)]
    /\ UNCHANGED dispatchVars

Rest ==
    /\ PollScript \/ EndPoll \/ ScanMod \/ EndScan \/ AddFound \/ LoadStat \/ LoadRead
       \/ Editor \/ \E timer \in Timers : Elapse(timer)
    /\ UNCHANGED <<callbacks, dispatchVars>>

-----------------------------------------------------------------------------
(* dispatch_render_tick.                                                      *)

IsFunction(id, k) == k \in DOMAIN callbacks[id] /\ callbacks[id][k] = "on"
On == {c \in Callbacks : Listed(c[1]) /\ live[c[1]] # 0 /\ IsFunction(c[1], c[2])}

BeginDispatch ==
    /\ phase = "owed"
    /\ pc = "idle"
    /\ phase' = "run"
    /\ turn' = 0
    /\ slot' = 1
    /\ count' = 0
    /\ planned' = On
    /\ ran' = <<>>
    /\ UNCHANGED <<vars, callbacks>>

\* The length of the table is read once, before its first callback.
CountOf(id) == IF live[id] = 0 THEN 0 ELSE Len(callbacks[id])
More_ReadAgain ==                              \* mutant: rawlen in the loop
    turn \in DOMAIN scripts /\ slot <= CountOf(scripts[turn])
More == slot <= count

NextScript ==
    /\ phase = "run"
    /\ turn <= Len(scripts)
    /\ ~More
    /\ turn' = turn + 1
    /\ slot' = 1
    /\ count' = IF turn' \in DOMAIN scripts THEN CountOf(scripts[turn']) ELSE 0
    /\ UNCHANGED <<vars, callbacks, phase, planned, ran>>

\* A callback that failed leaves false in its slot; the next one has its turn.
Disabled_Removed(table, k) ==                  \* mutant: nil in its place
    SubSeq(table, 1, k - 1) \o SubSeq(table, k + 1, Len(table))
Disabled(table, k) == [table EXCEPT ![k] = "off"]

\* What a call may do to its script's table: nothing, register another callback,
\* fail, or fail after having registered one.
AfterCall(table, k) ==
    LET grown == {table} \union IF Len(table) < MaxSlots THEN {Append(table, "on")} ELSE {}
    IN grown \union {Disabled(t, k) : t \in grown}

RunCallback ==
    /\ phase = "run"
    /\ turn \in DOMAIN scripts
    /\ More
    /\ LET id == scripts[turn] IN
       \/ /\ ~IsFunction(id, slot)
          /\ UNCHANGED <<callbacks, ran>>
       \/ /\ IsFunction(id, slot)
          /\ ran' = Append(ran, <<id, slot>>)
          /\ \E table \in AfterCall(callbacks[id], slot) :
                callbacks' = [callbacks EXCEPT ![id] = table]
    /\ slot' = slot + 1
    /\ UNCHANGED <<vars, phase, turn, count, planned>>

EndDispatch ==
    /\ phase = "run"
    /\ turn > Len(scripts)
    /\ phase' = "none"
    /\ turn' = 0
    /\ planned' = {}
    /\ ran' = <<>>
    /\ UNCHANGED <<vars, callbacks, slot, count>>

-----------------------------------------------------------------------------
Dispatch == BeginDispatch \/ NextScript \/ RunCallback \/ EndDispatch

TickNext == BeginTick \/ CommitTable \/ PruneTable \/ Rest \/ Dispatch

TickSpec == TickInit /\ [][TickNext]_tickVars

-----------------------------------------------------------------------------
(* Properties.                                                               *)

\* The order of the scripts and, of one script, of the registrations.
Before(c, d) ==
    \E i, j \in DOMAIN scripts :
        /\ scripts[i] = c[1]
        /\ scripts[j] = d[1]
        /\ i < j \/ (i = j /\ c[2] < d[2])

\* A frame calls exactly the callbacks that were on when its dispatch began:
\* each once, in the order of the scripts and their registrations, whatever the
\* others did. A callback registered meanwhile waits for the next frame.
EveryCallbackOnce ==
    /\ \A m, n \in DOMAIN ran : m < n => Before(ran[m], ran[n])
    /\ phase = "run" /\ turn > Len(scripts) => planned = {ran[i] : i \in DOMAIN ran}

\* A failing callback stays off until a reload of its script succeeds or its mod
\* is removed: neither time, nor a rejected reload, nor another script brings it back.
OffUntilReloaded ==
    [][\A c \in Callbacks :
          /\ c[2] \in DOMAIN callbacks[c[1]]
          /\ callbacks[c[1]][c[2]] = "off"
          /\ Listed(c[1])'
          /\ ~(pc = "commit" /\ loading = c[1] /\ Loads)
          => c[2] \in DOMAIN callbacks'[c[1]] /\ callbacks'[c[1]][c[2]] = "off"]_tickVars
=============================================================================
