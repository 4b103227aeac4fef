# Verification of the DDLua framework

TLA+ models, TLC runs and TLAPS proofs for the DDLua framework, a `winmm.dll`
proxy that runs Lua mods inside Darkest Dungeon 1. Paths below are relative to
the repository (`src/core.cpp` is the framework's core).

## The system

| Component | State | Operations | Meets |
|---|---|---|---|
| WinMM proxy (`winmm_proxy.cpp`) | `g_winmm_once`, the real functions' pointers | forwarders, `ready()` | starts the core on the first forwarded call |
| Bootstrap (`core.cpp`: `start_async`, `initialize_thread`) | `g_state`, `g_runtime` | one worker thread: hash, build id, first scan, installers | publishes the runtime, installs all hooks |
| Hot reload (`core.cpp`) | `runtime->scripts`, each with `lua_State`, `observed_write`, `callbacks_ref` | poll (250 ms), scan (2 s), load, commit, reject, erase | runs in `on_render_tick`, against whoever edits files |
| render_tick dispatch (`core.cpp`) | callback tables | call every callback, disable failing ones | after every frame |
| Corridor dispatch (`core.cpp`, `game_bridge.cpp`) | callback tables, accumulated modifiers | `hooked_corridor_return`, `dispatch_corridor_return_roll`, `dd.on` | the engine's placement roll, all mods |
| Effect dispatch (`core.cpp`, `game_bridge.cpp`) | handler tables, contexts and their `active` flag | `hooked_apply`, `hooked_named`, before/after handlers, `dd.effect` | the engine's per-target apply, nested through DoT ticks |
| Deferred DoTs (`game_bridge.cpp`) | `g_deferred_dots`, `g_deferred_lock` | `trigger_dot`, `defer_dot`, `flush_deferred_dots` | handlers push, action ends flush |
| Hooks (`game_bridge.cpp`, `tracer.cpp`, `render_hook.cpp`) | patched code, trampolines, `g_original_*` | verify, patch, publish, restore | worker thread against the game's thread |
| Tracer (`tracer.cpp`) | output file, sequence, thread-local move | `hooked_move`, `hooked_roll`, `write_record` | owns the corridor point when enabled |
| Build profile (`game_bridge.cpp`, `tracer.cpp`) | none | parse an ini section, compare signatures | gives installers their addresses |
| Actor and buff reads (`game_bridge.cpp`) | none; the loops' locals | `readable_range`, `actor_has_buff`, `actor_has_buff_id`, `collect_actors` | called from handlers, read the game's memory |

The hard behaviours are file edits between two file accesses, transient failures
of single accesses, the first calls of several game threads, callbacks that fail, register callbacks or nest inside
native calls, references kept beyond their callback, a non-recursive lock under
nested calls, patches put into code that is being executed, and reads of memory
whose layout only a profile describes. `PROJECT.json`
lists them as hazards at their lines, each with the properties that watch it or
the reason none does.

## The modules

| Module | Models | Correspondence |
|---|---|---|
| `HotReload` | loading, polling, scanning, unloading | `disk` and `clock` are the editor's; `scripts`, `live`, `observed` the runtime's; `pc`, `idx`, `found`, `loading`, `candidate` the locals of the frame in progress. Each `GetFileAttributesExW` and `CreateFileW` is a step (`PollScript`, `ScanMod`, `LoadStat`, `LoadRead`), so saves and removals fall in between. `Commit` is the end of `load_script` with what its caller does. |
| `CorridorRoll` | the corridor roll | `slots` are the Lua callback tables (`"off"` is the `false` a failing callback leaves); `script`, `count`, `index` the loops; `total` the accumulated `CorridorModifiers`; `rollsLeft`, `placed` the hook's loop. |
| `CorridorRollProofs` | proofs about it | see below |
| `DotLedger` | what `defer_dot` promises | a bounded set of pending ticks, emptied by boundaries |
| `DeferredDots` | the queue that implements it | `queue` and `lock` are the globals; `stack` has one frame per call in progress on each thread, so that ticks, handlers and flushes nest. `DeferLocked` is a whole critical section; the flush's loop is one step per element. |
| `DeferredDotsProofs` | proofs about it, and that it implements `DotLedger` | see below |
| `EffectDispatch` | one effect reaching the scripts | `stack` is the call stack (named effect, per-target apply, Lua handler, native tick), `contexts` the userdata that exist, with their `active` flag and whether the script's Lua code still reaches them (`held`): scripts keep them as long as they like (`LetGo`), and Lua collects what nothing refers to, also during the callback (`Collect`). `heap` remembers a write into memory that was freed. `KeepFailures` switches a history that one property reads. |
| `EffectDispatchProofs` | proofs about it | see below |
| `RenderTick` (extends `HotReload`) | a frame to its end | `callbacks` are the tables behind `callbacks_ref`, one per state, so `CommitTable` and `PruneTable` are `HotReload`'s actions with what they do to them; `turn`, `slot`, `count` are the loops of `dispatch_render_tick`. |
| `RenderTickProofs` | proofs about `HotReload` and `RenderTick` | see below |
| `BridgeInstall` | hooks put in and taken out | `site` is what the processor finds at a point, `original` and `code` the `g_original_*` pointers and the trampolines, `tables` the DoT maps and the layout; `call` is a game call in progress, with the hook's reads of the tables before and after the native function (`LookUp`). One step per write the other thread can see, two for a copy over code, which the game may meet half done (`torn`), when patching and when restoring. |
| `Bootstrap` (extends `BridgeInstall`) | from the first forwarded call to the settled state | `once` is `g_winmm_once`, `winmm` the resolved pointers, `place` each thread's call into the proxy, `state` `g_state`, `worker` where `initialize_thread` stands, `runtime` whether `g_runtime` is published. The installers are its last stage but one, before `Settle`. |
| `BootstrapProofs` | proofs about `BridgeInstall` and `Bootstrap` | see below |
| `Tracer` | the opt-in corridor tracer | `sequence`, `current`, `depth`, `dumped` are its counter and thread-local variables, `file` the records, `stack` the hooks in progress on each thread; `CreateFile` to `CloseFile` are the installation. |
| `TracerProofs` | proofs about it | see below |
| `ReadableRange` | `readable_range` of both files | `cursor` is its loop variable, one `QueryRegion` per `VirtualQuery`; addresses are integers modulo `Top`. |
| `ActorMemory` (extends `ReadableRange`) | the reads of the game's objects | `stage` says which answer of `readable_range` the call waits for; `begin`, `end`, `entry` are the locals; `touched` is what the last step dereferenced. The three functions have the same steps and differ in entry size, limit, fields and what a match does. |
| `ActorMemoryProofs` | proofs about both | see below |
| `CallStackLemmas` | lemmas about stacks and erasing | used by the proofs of the modules that keep a call stack or a list |

A module `MCX` gives the constants of `X` their small values; `ReadableRange`,
`BridgeInstall` and `DotLedger` are checked through the modules that extend or
instantiate them. An operator named
`X_Something` is a plausible mistake in `X`; each property is run against one
and must then fail. A property that joins several statements may have several
such mistakes, of which `PROJECT.json` lists one. The components meet at narrow interfaces: a handler of
`EffectDispatch` is the `callback` frame of `DeferredDots`, and a native tick the
`native` frame of one and the `tick` frame of the other; a commit of `HotReload`
is the `Reload` action of `CorridorRoll` and `EffectDispatch`, which is enabled
only between two dispatches because all of them run on the game's thread;
`ActorMemory` is what a handler calls for a condition on an actor.

Abstractions common to all: Lua values are reduced to what the C++ code
distinguishes (nil, true, false, other, error); names, paths and pointers are
model values; logging is left out; numbers in `CorridorRoll` are fixed-point
integers, which is exact for the clamps and sums and leaves out rounding (a
`float` chance times a `double` multiplier).

## The runs

| Run | Question | Instance and bounds |
|---|---|---|
| `hot_reload` | `CoreFirstNoDuplicates`, `ReloadIsTransactional`, `PresentModStaysListed`; under fairness `ValidEditsTakeEffect`, `ListingConverges` | core and one mod, three write times, one failing stat or enumeration, one failing read. Two saves after the initial state put one inside a load, or remove a mod and bring it back, and leave one more after it. |
| `render_tick` | `EveryCallbackOnce` (and in the order of the scripts and their registrations), `TickTypeOK` (only listed scripts with a state hold callbacks), `OffUntilReloaded` | core and one mod, two write times, two slots per script: one callback fails or registers the other |
| `corridor_roll` | `DeltasAddUnlessMixed` (the deltas of all mods add up, whatever their order, unless deltas of both signs meet the clamp), `EveryEnabledCallbackRuns`, `RollsAreCappedSum`, `PlacedIffSomeRollPlaced`, `FailedNeverRunsAgain` | two scripts of up to two callbacks; deltas -1, -0.5, +1 and one beyond the upper clamp; extra rolls invalid, 1, 3 (so that sums pass the cap of four) |
| `corridor_roll_sum` | finding | the running clamp |
| `deferred_dots` | `AcceptedOnceInOrder` (of one flush, and of a flush against the queue and the flushes nested in it), `LockOnlyWhileScanning`, `Coalesced`, `ImplementsLedger` | one thread six frames deep (flush, tick, handler, flush, ...) over two battles, a second one two frames deep |
| `effect_dispatch` | `ActiveWhileRunning`, `TicksOnlyInsideTheirCallback`, `VetoIsTheScripts` | two scripts, one effect, five frames: a handler inside a tick inside a handler; three contexts |
| `effect_dispatch_collected` | finding | a handler that drops its context |
| `effect_dispatch_after` | finding | two targets of one named effect |
| `effect_dispatch_disable` | finding | a failing handler |
| `bootstrap` | of the start: `ForwardsResolved`, `ScriptsHandedOver`, `ReadyMeansReady`, under fairness `CallsReturn`; of the hooks: `TouchedOnlyIfVerified`, `AllOrNothing`, `SettledCallsSucceed`, `TracerOwnsCorridor` | two game threads, one failing load, all points, every profile, trace on and off, each patch failing or not, one failing restore |
| `tracer` | `TraceReplays`, `RollsKnowTheirHeroes`, `SelectedTileIsTheChange` | two threads, three traced calls, three deep: a roll after a nested move, while another thread moves; an area shorter and one longer than the two tiles a record holds |
| `memory_reads` | `NoWildReads`, `ScanFinds`, `VerdictIsRight` | six pages of four bytes, each readable or not; vectors of up to three entries with any begin and end; layouts that are accepted, refused, or accepted with an amount that begins inside the entry and ends outside it; objects at page boundaries and at the wrap-around |

Bounds: `MaxWrite` (saves), `StatFaults` and `ReadFaults` (transient failures),
`MaxSlots` (callbacks per script), `MaxDepth` (frames on a stack), `MaxAccepted`
(requests in one behaviour), `MaxTargets`, `MaxContexts`, `RestoreFaults`,
`LoadFaults`, `MaxCalls` (traced calls). The threads of `DeferredDots` and
`Tracer` are symmetric where they have the same depth and no liveness is checked.
`Top`, `PageSize`, `Word`, `Field` (the bytes of a stat or an amount), `MaxBuffs`
and `MaxActors` of `ActorMemory` stand for 2^64, 4096, 8, 4, 1024 and 16: three entries are a first, a middle and a last one,
and a vector inside a page, across two and up to the end of one all fit.

Three modules let the process end (a Lua panic, a call through a null pointer, a
write that hit memory in use) and the calls of `Tracer` are bounded; their runs do
not check deadlock.

### What the runs found

Four statements of the documentation that the code does not keep; each has a run
that shows it. The first is a defect, the others are differences of meaning.

1. An effect context need not outlive its callback. `invoke_effect_handler` passes
   the new userdata as the callee's argument and keeps only a C++ pointer
   (`core.cpp:796`); a callback that overwrites its parameter and collects garbage
   ends the context's life, and `core.cpp:803` writes its `active` flag into freed
   memory (against `LUA_API.md`, which calls the context valid during that
   callback). `dispatch_corridor_return_roll` does the same at `core.cpp:700-706`;
   `CorridorRoll` has no contexts, so the run is the effects'.
2. Deltas are clamped one by one, not after adding (`core.cpp:725` against
   `LUA_API.md`).
3. `after_apply` runs per target, not after the named effect
   (`game_bridge.cpp:182` against `LUA_API.md`).
4. A failing effect handler is not disabled (`core.cpp:804` against `LUA_API.md`).

Three more were seen while modelling and have no run of their own, because the
model could only restate the line: `defer_dot` reports success without looking for
the status, which only the flush does (`game_bridge.cpp:601` against "Dot primitives
verify that the requested status is present" in `README.md`); an answer's fields are read outside the
protected call, so a raising metamethod ends the process (`core.cpp:720` against
"Every script and callback uses protected calls" in `README.md`; action `Panic`);
and `context:actors` raises an error for a group without actors, because
`readable_range` refuses an empty range (`game_bridge.cpp:574` against "returns an
array" in `LUA_API.md`).

Weaknesses that contradict no statement and that the properties therefore
exclude in so many words:

- a read that fails once makes hot reload ignore a valid file until it is saved
  again (`core.cpp:536`): `ValidEditsTakeEffect` speaks only of files without
  such a failure;
- a stat or enumeration that fails once unloads a mod that is still there
  (`core.cpp:605`): `PresentModStaysListed` excludes it, and `ListingConverges`
  says that the next scan brings the mod back, with a new state;
- hooks are reachable before `g_original_*` is set (`game_bridge.cpp:698`), while
  their jump is half written or half undone (`game_bridge.cpp:461`, `472`), and
  while the tables they read are moved or cleared (`game_bridge.cpp:714`, `742`):
  `SettledCallsSucceed` speaks of calls that begin after the installation. The
  windows are short and early in the process, but nothing closes them;
- a failing restore frees a trampoline that is still jumped to
  (`game_bridge.cpp:477`): `AllOrNothing` excludes it;
- `load_layout` does not test that a stat and an amount, four bytes each, lie inside
  an entry (`game_bridge.cpp:380`): `NoWildReads` has it as a premise;
- a tick of a flush whose handler defers again and reaches another action end of
  the same battle has the newer requests delivered before the flush's remaining
  ones (`game_bridge.cpp:639`): `AcceptedOnceInOrder` promises the order of
  acceptance within each flush only, and that what a flush holds is older than
  what the flushes nested in it hold;
- the tracer marks a move's heroes as dumped before it knows that they can be read
  (`tracer.cpp:206`), and compares captures that failed half way
  (`tracer.cpp:311`): `RollsKnowTheirHeroes` and `SelectedTileIsTheChange` exclude
  both;
- a record may be written to a handle that a failing installation has closed
  (`tracer.cpp:132`): `Tracer` loses it.

## Fairness

`HotReload` and `Bootstrap` have liveness properties. `WF_vars(Renderer)`: the game goes on
presenting frames and each frame runs to its end; the renderer's code has no
waiting in it. `WF_vars(Elapse(timer))`: 250 ms and 2 s do pass. Nothing is
assumed of the editor, whose saves are finite by `MaxWrite` and whose removals
need a save to be repeated. In `Bootstrap`, `WF_allVars(Worker)` and
`WF_allVars(Call(t))`: a thread that is inside the proxy, and the worker once it
exists, go on; `InitOnceExecuteOnce` wakes its waiters, and with the flag free or
done each of them has a step. Whether the game calls anything is not assumed.
`ListingConverges` and `ValidEditsTakeEffect` need no fairness of the faults: they
are finite by their bounds, as transient failures are. A script that never returns would break the first
assumption; the framework has no defence against it.

## The proofs

Eight modules hold theorems; all of them are checked to the last leaf, for every
value of the constants that satisfies the modules' named assumptions. Those are:
bounds are natural numbers, the values a script may answer have the shape the C++
code lets through (`CorridorAssumption`), the folder names are distinct and none
is called `core` (`OrderAssumption`; the code does not test the second, see
below), and placeholders such as `Nobody` are no thread. Every property of a
passing run that is not a liveness property has a theorem:

| Module | Invariant | Theorems |
|---|---|---|
| `RenderTickProofs` | `HotInv` | `ListCorrect` (`CoreFirstNoDuplicates`), `ReloadCorrect` (`ReloadIsTransactional`), `PresentCorrect` (`PresentModStaysListed`) |
| | `TickInv` | `TickTypeCorrect` (`TickTypeOK`), `OnceCorrect` (`EveryCallbackOnce`), `OffCorrect` (`OffUntilReloaded`) |
| `CorridorRollProofs` | `IInv` | `TypeCorrect`, `DeltasCorrect` (`DeltasAddUnlessMixed`), `RollsCorrect` (`RollsAreCappedSum`), `PlacedCorrect` (`PlacedIffSomeRollPlaced`) |
| | `RunInv` | `CallbacksCorrect` (`EveryEnabledCallbackRuns`), `FailedCorrect` (`FailedNeverRunsAgain`) |
| `DeferredDotsProofs` | `IInv` | `TypeCorrect`, `LockCorrect` (`LockOnlyWhileScanning`), `CoalescedCorrect` (`Coalesced`), `AcceptedCorrect` (`AcceptedOnceInOrder`), `QueueImplementsLedger` (`ImplementsLedger`) |
| `EffectDispatchProofs` | `IInv` | `TypeCorrect`, `ActiveCorrect` (`ActiveWhileRunning`), `TicksCorrect` (`TicksOnlyInsideTheirCallback`), `VetoCorrect` (`VetoIsTheScripts`) |
| `BootstrapProofs` | `InstallInv`, `BootInv` | `BootTypeCorrect` (`BootTypeOK`), `VerifiedCorrect` (`TouchedOnlyIfVerified`), `RollbackCorrect` (`AllOrNothing`), `CallsCorrect` (`SettledCallsSucceed`), `CorridorCorrect` (`TracerOwnsCorridor`), `ForwardsCorrect` (`ForwardsResolved`), `HandOverCorrect` (`ScriptsHandedOver`), `ReadyCorrect` (`ReadyMeansReady`) |
| `TracerProofs` | `TraceInv` | `TypeCorrect`, `TraceCorrect` (`TraceReplays`), `HeroesCorrect` (`RollsKnowTheirHeroes`), `TilesCorrect` (`SelectedTileIsTheChange`) |
| `ActorMemoryProofs` | `MemoryInv` | `ReadableIsReadable` (`VerdictIsRight`), `ReadsAreChecked` (`NoWildReads`) |
| | `ScanInv` | `MemoryTypeCorrect` (`MemoryTypeOK`), `ScanCorrect` (`ScanFinds`) |

The theorems speak of the specification without fairness (`Spec`, `TickSpec`,
`BootSpec`, `MemorySpec`); a run under `FairSpec` allows fewer behaviours, so they
hold there too.

**Stacks** (`CallStackLemmas`). `DeferredDots`, `EffectDispatch` and `Tracer` keep
the calls in progress as a sequence with the innermost call first, as their
actions read it. A push or a return renumbers such a sequence, so the invariants
count frames from the bottom (`FromBottom`): a frame keeps its number for as long
as its call lasts, and a step disturbs the innermost frame only. The module also
says what erasing one element does to a vector.

**Hot reload.** `HotInv` is `TypeOK`, the property about the list, that a load on
an empty list is core's (`CoreLoadsFirst`: core is in every scan's result and the
first of `Names`), and that write times only grow: what runs is no newer than the
file that is there (`Writes`), and a candidate's source lies between the two
(`CandidateWrites`), although the editor may save between the stat and the read.
`PresentCorrect` has a second invariant, of one mod from an idle state on:
either a stat or an enumeration has failed, or the mod is listed and wherever the
renderer stands it is not about to be missed (`Seen`: a scan past its directory
has found it, the result being worked off holds it, and the load of a new script
goes back to that result). The premise `[]Present(id)` enters as an assumption
about every state passed.

**The dispatch of ticks.** `TickInv` splits what was planned when the dispatch
began at the loop's position: of the scripts still to come the plan is exactly
the callbacks they have on (`StillPlanned`), of the part passed exactly what has
run (`RanSoFar`), and `Counted` is why a callback registered meanwhile is in
neither. `RanInOrder`: what has run did so in the order of the scripts and their
slots. `Phases` keeps reloads out of a dispatch.

**The corridor roll.** `IInv` says what has been accumulated and what is still owed
in each phase: while scripts answer, `total.extra` is the capped sum of what was
answered; while rolling, rolls made and rolls left add up to one plus that sum; a
placement is remembered over later misses (`HitsAreRolls`); the loop's bound was
read before callbacks that may have made the table longer (`InLoop`). `Sums` says
what the accumulated delta is worth: without a clamped addition it is the sum of
the deltas answered, and with deltas of one sign only it is that sum clamped.
`SaturatingSum` is the arithmetic behind it: capping at every addition is capping
the sum. `RunInv` adds which callbacks run: those ahead of the loop are expected
exactly when they are on now and within the count, those behind it have been
called exactly when they were expected, and a failed one's place is `false` until
its table is replaced.

**The queue of DoTs.** `Books` keeps account of every accepted request: it is in
the queue, in the vector of exactly one flush, or finished, and all of these are in
the order of acceptance. `Batches` says that what a flush took is older than what
is queued of its battle and than what the flushes nested in it took. `LockHeld` and `Shapes` say that the lock
is held exactly by a thread whose innermost frame scans, which is why a tick that a
flush delivers may defer again without a deadlock; `ScanProgress` says what a scan
has passed and taken. Whether two requests may coalesce is `Coalesced`, part of the invariant.
`QueueImplementsLedger` maps the queue to `DotLedger`'s set: the initial states
correspond and each action is one of its steps or changes nothing.

**Effects.** A running callback stands on the `hooked_apply` that invoked it
(`Links`); a context that Lua has not collected is active exactly while its
callback is on the stack, and no two callbacks share one (`Active`); a native tick has the callback it was asked
for by below it (`Ticks`); what one `hooked_apply` knows of the scripts it has and
has not asked decides what it may do next (`Asked`).

**Installation and start.** `InstallInv` follows each installer through its plan:
the points before `step` have jump, original and trampoline, those after it have
none (`Progress`); every jump belongs to an installer that was entitled to it
(`Entitled`), and a torn one is the copy in progress, of a jump or of the original
bytes (`Torn`). The installers
take turns (`Turns`), so what one leaves (`Settled`: everything or nothing, unless
a restore failed) is what the next finds. `BootInv` adds who is in the forwarders
and what the one-time load has done for them (`Forwarding`), that one worker
exists (`OneWorker`) and what it has done by each stage (`Stages`).

**The trace.** `Nested` says that a frame knows the number of the move below it and
that the thread-local depth and current move are those of its stack. `Followed`
is the heart: reading the file from its beginning and applying the records of one
thread gives the moves of that thread's stack, as far as their records are written
(`TracedMoves`). It quantifies over the function that gives the moves after each
record, so that every step only has to extend it by the record it appends.
`Numbered`: no two moves share a number and an enter record is written once.
`HeroesDumped` and `TilesCompared` carry what a roll knows of its heroes and its
area up to the record.

**Reads of the game's memory.** `RangeInv` says that during a walk the range does
not wrap and everything from `value` up to the cursor is readable; that it does not
wrap is what the one comparison `limit < cursor` buys (`AskKeepsRange`, with
`WrapAround`). `StageInv` carries the answers of earlier questions through the
stages of a call, since the next question overwrites `readable_range`'s variables.
In the loop whole entries lie between `entry` and `end` (`Position`), so that one
more turn stays inside the vector (`Multiples`) and the id inside its entry
(`Accepted`). `ScanInv` adds that the loop stands on the boundary of an entry, that
the entries behind it have been looked at and that the list of actors is what was
found among them and fits.

Two definitions have the form they have for the proofs' sake: `AddFound` and
`FirstOf` name the least index by its property, and the tracer's reader
(`OpenMoves`) is a recursive function, because a library fold or a `RECURSIVE`
operator is out of the provers' reach.

What stays with TLC: the liveness properties `ValidEditsTakeEffect`,
`ListingConverges` and `CallsReturn`, because the prover supports neither fairness
nor `ENABLED`; and the four runs that end in a violation, whose counterexamples are
behaviours and not theorems.

## Not modelled, and why

Hashing, logging and UTF-8 are I/O without state. The text parsers of the profiles
are pure functions of a file shipped with the framework; the models take their
verdict (`profile` in `BridgeInstall`) and `load_layout`'s conditions on the buff
entry (`Accepted`). The diagnostic probe behind `buff_id_probe.enabled` only logs.
Of the tracer's payload only what places a record among the calls is modelled,
and the tiles. The game's memory management is not in the repository, so stale
pointers inside the queue are a hazard without property, and memory does not
change during one scan. The vendored Lua interpreter, the offline tools and the
tests are outside.

Smaller hazards that no property covers and that the list in `PROJECT.json` leaves
out: the directory iterator's increment may throw inside a `noexcept` caller
(`core.cpp:599`); a file replaced by one with the same write time goes unnoticed
(`core.cpp:615`); a mod folder named `core` is taken for loaded (`core.cpp:630`);
a script that never returns holds the game's thread (`core.cpp:581`); an effect
name longer than the limit is truncated (`game_bridge.cpp:166`); requests of a
battle that ends without an action end keep their queue places
(`game_bridge.cpp:618`). Each is one line whose outcome the model would restate, or
depends on the collector, the file system or the game.

## Plan

The parts listed under "Not modelled" apart, the running system is modelled, and
every safety property of the passing runs is proved. What could still be done:

1. Prove the steps on which the liveness properties rest: for
   `ListingConverges`, that a complete scan on quiet files leaves the list equal
   to what is there; for `ValidEditsTakeEffect`, that a committed load of a quiet
   file runs its newest version. The fairness argument itself stays with TLC.
2. The parsers of the build profiles, which the models take as a verdict.

An abstract specification of hot reload was considered and left out: with one
script its states are those of `live`, and `ReloadIsTransactional` with
`ListingConverges` already says what it would.
