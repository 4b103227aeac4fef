------------------------------ MODULE Bootstrap ------------------------------
(* From the game's first call into the proxy winmm.dll to a running framework: *)
(* winmm_proxy.cpp's forwarders and their one-time load of the real winmm.dll, *)
(* start_async and initialize_thread of core.cpp. It composes with             *)
(* BridgeInstall, whose installers are the worker's last stage. Any thread of  *)
(* the game may forward a call, and any may reach the exported test functions, *)
(* at any moment.                                                              *)
EXTENDS BridgeInstall, FiniteSets

CONSTANTS
    Threads,     \* the game's threads that call into the proxy
    Main,        \* the one that renders and resolves effects, and so meets the hooks
    LoadFaults,  \* bound: failures of the real winmm.dll's load
    Nobody       \* not a thread

ASSUME BootstrapAssumption ==
    /\ LoadFaults \in Nat
    /\ Main \in Threads
    /\ Nobody \notin Threads
    /\ "done" \notin Threads \union {Nobody}    \* a value of once like no thread's

VARIABLES
    once,      \* g_winmm_once: the thread in load_real_winmm, Nobody, or "done"
    winmm,     \* the forwarding pointers: "none", "some" or "all" of them resolved
    loads,     \* failures of the load still to come
    place,     \* [Threads -> where its call into the proxy stands]
    state,     \* g_state
    worker,    \* where initialize_thread stands
    workers,   \* history: worker threads created
    core,      \* core_loaded: ddlua/init.lua has a lua_State
    runtime    \* g_runtime is published

proxy == <<once, winmm, loads, place>>
boot == <<state, worker, workers, core, runtime>>
bootVars == <<proxy, boot>>
allVars == <<vars, bootVars>>

Idle == "idle"
BootTypeOK ==
    /\ TypeOK
    /\ once \in Threads \union {Nobody, "done"}
    /\ winmm \in {"none", "some", "all"}
    /\ loads \in 0..LoadFaults
    /\ place \in [Threads -> {Idle, "ready", "load", "start", "create", "forward",
                              "fallback", "tick"}]
    /\ state \in 0..3
    /\ worker \in {"none", "paths", "scan", "install", "done"}
    /\ workers \in 0..1
    /\ core \in BOOLEAN
    /\ runtime \in BOOLEAN

BootInit ==
    /\ Init
    /\ once = Nobody
    /\ winmm = "none"
    /\ loads = LoadFaults
    /\ place = [t \in Threads |-> Idle]
    /\ state = 0
    /\ worker = "none"
    /\ workers = 0
    /\ core = FALSE
    /\ runtime = FALSE

Alive == call.phase # "crashed"
Is(t, p) == Alive /\ place[t] = p
MayCall(t) == Is(t, Idle) /\ (t = Main => call.phase = "none")
Goto(t, p) == place' = [place EXCEPT ![t] = p]

-----------------------------------------------------------------------------
(* winmm_proxy.cpp: every forwarder is ready() and then the real function or   *)
(* the fallback.                                                               *)

\* InitOnceExecuteOnce: the first caller runs load_real_winmm, the others wait;
\* once it has succeeded it returns at once.
Forwarder(t) ==
    /\ MayCall(t)
    /\ Goto(t, IF once = "done" THEN "start" ELSE "ready")
    /\ UNCHANGED <<vars, once, winmm, loads, boot>>

EnterOnce(t) ==
    /\ Is(t, "ready")
    /\ \/ once = "done" /\ Goto(t, "start") /\ UNCHANGED once
       \/ once = Nobody /\ Goto(t, "load") /\ once' = t
    /\ UNCHANGED <<vars, winmm, loads, boot>>

\* The real library is missing, or lacks some function: the callback fails.
\* A later caller runs it again.
OnceAfterFailure_Done == "done"                \* mutant: the callback returns TRUE
OnceAfterFailure_Held == once                  \* mutant: the flag stays taken
OnceAfterFailure == Nobody

LoadFails(t) ==
    /\ Is(t, "load")
    /\ loads > 0
    /\ loads' = loads - 1
    /\ winmm' \in {winmm, "some"}
    /\ once' = OnceAfterFailure
    /\ Goto(t, "fallback")
    /\ UNCHANGED <<vars, boot>>

LoadSucceeds(t) ==
    /\ Is(t, "load")
    /\ winmm' = "all"
    /\ once' = "done"
    /\ Goto(t, "start")
    /\ UNCHANGED <<vars, loads, boot>>

\* start_async: one compare-exchange decides who creates the worker.
MayStart_AfterFailureToo == state \in {0, 3}   \* mutant: starts again after a failure
MayStart == state = 0

StartAsync(t) ==
    /\ Is(t, "start")
    /\ IF MayStart
         THEN state' = 1 /\ Goto(t, "create")
         ELSE UNCHANGED state /\ Goto(t, "forward")
    /\ UNCHANGED <<vars, once, winmm, loads, worker, workers, core, runtime>>

StateWithoutThread_Forgotten == state          \* mutant: CreateThread's failure ignored
StateWithoutThread == 3

CreateWorker(t) ==
    /\ Is(t, "create")
    /\ Goto(t, "forward")
    /\ \/ worker' = "paths" /\ workers' = workers + 1 /\ UNCHANGED state
       \/ state' = StateWithoutThread /\ UNCHANGED <<worker, workers>>
    /\ UNCHANGED <<vars, once, winmm, loads, core, runtime>>

\* The real function, the fallback result, or an exported tick is over.
Return(t) ==
    /\ \E p \in {"forward", "fallback", "tick"} : Is(t, p)
    /\ Goto(t, Idle)
    /\ UNCHANGED <<vars, once, winmm, loads, boot>>

\* on_render_tick and the two dispatchers do nothing without a runtime.
Tick(t) ==
    /\ MayCall(t)
    /\ runtime
    /\ Goto(t, "tick")
    /\ UNCHANGED <<vars, once, winmm, loads, boot>>

-----------------------------------------------------------------------------
(* initialize_thread.                                                         *)

Stage(w) == Alive /\ worker = w

PathsFail ==
    /\ Stage("paths")
    /\ state' = 3
    /\ worker' = "done"
    /\ UNCHANGED <<vars, proxy, workers, core, runtime>>

\* Paths, log, the executable's hash; then refresh_discovery loads the scripts.
RuntimeBeforeScan_Early == TRUE                \* mutant: published before the scan
RuntimeBeforeScan == FALSE

Paths ==
    /\ Stage("paths")
    /\ worker' = "scan"
    /\ runtime' = RuntimeBeforeScan
    /\ UNCHANGED <<vars, proxy, state, workers, core>>

\* The scan ends, whether or not core loads, and the runtime is published.
Scan ==
    /\ Stage("scan")
    /\ core' \in BOOLEAN
    /\ runtime' = TRUE
    /\ worker' = "install"
    /\ UNCHANGED <<vars, proxy, state, workers>>

Installing == Install /\ Stage("install") /\ UNCHANGED bootVars

HookReady_CoreOnly == TRUE                     \* mutant: a failed render hook is ignored
HookReady == supported => site["swap"] = "render"

\* The installers have returned; a missing bridge or tracer changes nothing.
Settle ==
    /\ Stage("install")
    /\ pc = "done"
    /\ state' = IF core /\ HookReady THEN 2 ELSE 3
    /\ worker' = "done"
    /\ UNCHANGED <<vars, proxy, workers, core, runtime>>

-----------------------------------------------------------------------------
Call(t) ==
    \/ EnterOnce(t) \/ LoadFails(t) \/ LoadSucceeds(t)
    \/ StartAsync(t) \/ CreateWorker(t) \/ Return(t)

Worker == PathsFail \/ Paths \/ Scan \/ Installing \/ Settle

BootNext ==
    \/ \E t \in Threads : Forwarder(t) \/ Tick(t) \/ Call(t)
    \/ Worker
    \/ Game /\ Is(Main, Idle) /\ UNCHANGED bootVars

\* Threads that are in the proxy run, and so does the worker; whether the game
\* calls anything is its own affair.
BootSpec ==
    /\ BootInit /\ [][BootNext]_allVars
    /\ WF_allVars(Worker)
    /\ \A t \in Threads : WF_allVars(Call(t))

-----------------------------------------------------------------------------
(* Properties.                                                               *)

\* A forwarder calls through a pointer only when every pointer is resolved,
\* however many threads come first and however many loads have failed, and only
\* when the framework has been started. load_real_winmm runs in one thread at a
\* time, initialize_thread in one thread ever.
ForwardsResolved ==
    /\ \A t \in Threads :
          /\ place[t] \in {"start", "create", "forward"} => winmm = "all"
          /\ place[t] = "forward" => state # 0
          /\ place[t] = "load" => once = t
    /\ workers + Cardinality({t \in Threads : place[t] = "create"}) <= 1

\* Scripts change hands by publication: no tick or dispatch touches them while
\* the worker still loads them, and it never does again afterwards.
ScriptsHandedOver ==
    \A t \in Threads : place[t] = "tick" => worker \in {"install", "done"}

\* State 2, which the exported DDLua_GetInitializationState reports, can be
\* relied on: core runs, the runtime is published, all installers are through,
\* and on a supported build the renderer drives the framework.
ReadyMeansReady ==
    state = 2 =>
        /\ core /\ runtime /\ worker = "done"
        /\ supported => pc = "done" /\ site["swap"] = "render"

\* Every call into the proxy comes back, whoever else is loading and failing;
\* and initialisation, once started, ends: 1 is never the last state.
CallsReturn ==
    /\ \A t \in Threads : place[t] = "ready" ~> place[t] = Idle \/ ~Alive
    /\ state = 1 ~> state \in {2, 3} \/ ~Alive
=============================================================================
