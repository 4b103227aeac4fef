------------------------------ MODULE HotReload ------------------------------
(* The life of Lua scripts in core.cpp: discovery of mod directories,        *)
(* transactional loading, hot reload of edited files and unloading of removed *)
(* mods, against an editor that changes the files at any moment.              *)
(*                                                                            *)
(* The renderer runs on_render_tick; each of its file accesses is a step of   *)
(* its own, so the editor's saves and removals fall between any two of them.  *)
(* A version of init.lua is named by its write time; two saves never carry    *)
(* the same time (100 ns file times), and 0 is file_write_time's "no file".   *)
EXTENDS Naturals, Sequences

CONSTANTS
    Core,        \* the id of ddlua/init.lua, always part of a scan
    Order,       \* the mod folder names, in the order std::sort gives them
    MaxWrite,    \* bound: how many write times the editor may spend
    StatFaults,  \* bound: file_write_time or the enumeration fails on a present file
    ReadFaults   \* bound: read_file fails on a present file

ModIds == {Order[i] : i \in DOMAIN Order}
Ids == {Core} \union ModIds

\* discover_scripts' order: core, then the sorted mods.
Names_SortsCoreToo == Order \o <<Core>>        \* mutant: sorts from begin()
Names == <<Core>> \o Order

Absent == [write |-> 0, good |-> FALSE]
Files == [write : 1..MaxWrite, good : BOOLEAN] \union {Absent}
NoCandidate == [observed |-> 0, source |-> Absent]
Timers == {"poll", "scan"}

ASSUME OrderAssumption ==
    /\ Order \in Seq(ModIds)
    /\ \A i, j \in DOMAIN Order : Order[i] = Order[j] => i = j
    /\ Core \notin ModIds
ASSUME BoundsAssumption ==
    /\ MaxWrite \in Nat \ {0}
    /\ StatFaults \in Nat
    /\ ReadFaults \in Nat

VARIABLES
    disk,       \* [Ids -> Files]: each init.lua, its write time and whether it loads
    clock,      \* the last write time the editor used
    faults,     \* transient failures still to come
    due,        \* the timers (250 ms poll, 2000 ms scan) that have run out
    work,       \* the timers that had run out when this frame began
    pc,         \* where the renderer stands
    idx,        \* its loop index
    found,      \* discover_scripts' result so far
    scripts,    \* runtime->scripts: the ids in order
    live,       \* the version whose lua_State runs; 0 when state is null
    observed,   \* observed_write of each script
    loading,    \* the id load_script is working on
    candidate   \* the ScriptContext being built: its observed_write and source

editorVars == <<disk, clock>>
slotVars == <<scripts, live, observed>>
loadVars == <<loading, candidate>>
vars == <<disk, clock, faults, due, work, pc, idx, found, scripts, live,
          observed, loading, candidate>>

Listed(id) == \E i \in DOMAIN scripts : scripts[i] = id
Present(id) == disk[id].write # 0

TypeOK ==
    /\ disk \in [Ids -> Files]
    /\ clock \in 1..MaxWrite
    /\ faults \in [stat : 0..StatFaults, read : 0..ReadFaults]
    /\ due \subseteq Timers
    /\ work \subseteq Timers
    /\ pc \in {"idle", "poll", "scan", "add", "prune", "stat", "read", "commit"}
    /\ idx \in Nat \ {0}
    /\ found \subseteq Ids
    /\ scripts \in Seq(Ids)
    /\ live \in [Ids -> 0..MaxWrite]
    /\ observed \in [Ids -> 0..MaxWrite]
    /\ loading \in Ids
    /\ candidate \in [observed : 0..MaxWrite, source : Files]

\* initialize_thread calls refresh_discovery before it publishes the runtime:
\* the first scan starts from no scripts.
Init ==
    /\ disk \in [Ids -> {Absent} \union [write : {1}, good : BOOLEAN]]
    /\ clock = 1
    /\ faults = [stat |-> StatFaults, read |-> ReadFaults]
    /\ due = {}
    /\ work = {"scan"}
    /\ pc = "scan"
    /\ idx = 1
    /\ found = {Core}
    /\ scripts = <<>>
    /\ live = [id \in Ids |-> 0]
    /\ observed = [id \in Ids |-> 0]
    /\ loading = Core
    /\ candidate = NoCandidate

-----------------------------------------------------------------------------
(* The editor, the clock and the file system.                                *)

Save(id, good) ==
    /\ clock < MaxWrite
    /\ clock' = clock + 1
    /\ disk' = [disk EXCEPT ![id] = [write |-> clock + 1, good |-> good]]
    /\ UNCHANGED <<faults, due, work, pc, idx, found, slotVars, loadVars>>

Remove(id) ==
    /\ Present(id)
    /\ disk' = [disk EXCEPT ![id] = Absent]
    /\ UNCHANGED <<clock, faults, due, work, pc, idx, found, slotVars, loadVars>>

Elapse(timer) ==
    /\ timer \notin due
    /\ due' = due \union {timer}
    /\ UNCHANGED <<editorVars, faults, work, pc, idx, found, slotVars, loadVars>>

\* file_write_time(id) returns w: the file's write time, or 0 when
\* GetFileAttributesExW fails.
Stat(id, w) ==
    \/ w = disk[id].write /\ UNCHANGED faults
    \/ /\ Present(id)
       /\ faults.stat > 0
       /\ w = 0
       /\ faults' = [faults EXCEPT !.stat = @ - 1]

\* read_file(id) yields file: the bytes now on disk, or nothing.
ReadFile(id, file) ==
    \/ file = disk[id] /\ UNCHANGED faults
    \/ /\ Present(id)
       /\ faults.read > 0
       /\ file = Absent
       /\ faults' = [faults EXCEPT !.read = @ - 1]

-----------------------------------------------------------------------------
(* One frame of the renderer: on_render_tick.                                *)

BeginScan_IndexZero ==                         \* mutant: loop starts at 0
    pc' = "scan" /\ idx' = 0 /\ found' = {Core}
BeginScan ==
    /\ pc' = "scan"
    /\ idx' = 1
    /\ found' = {Core}

\* The frame is over and its locals are gone.
EndFrame ==
    /\ pc' = "idle"
    /\ idx' = 1
    /\ work' = {}

Frame ==
    /\ pc = "idle"
    /\ due # {}
    /\ work' = due
    /\ due' = {}
    /\ IF "poll" \in due
         THEN pc' = "poll" /\ idx' = 1 /\ UNCHANGED found
         ELSE BeginScan
    /\ UNCHANGED <<editorVars, faults, slotVars, loadVars>>

BeginLoad(id) ==
    /\ pc' = "stat"
    /\ loading' = id
    /\ candidate' = NoCandidate

\* reload_if_changed's early return: no file, or the write already seen.
Unchanged_OrNoState(id, w) ==                  \* mutant: skips failed scripts
    w \in {0, observed[id]} \/ live[id] = 0
Unchanged(id, w) == w \in {0, observed[id]}

\* reload_if_changed up to the call of load_script.
PollScript ==
    /\ pc = "poll"
    /\ idx \in DOMAIN scripts
    /\ LET id == scripts[idx] IN
       \E w \in 0..MaxWrite :
          /\ Stat(id, w)
          /\ IF Unchanged(id, w)
               THEN idx' = idx + 1 /\ UNCHANGED <<pc, loadVars>>
               ELSE BeginLoad(id) /\ UNCHANGED idx
    /\ UNCHANGED <<editorVars, due, work, found, slotVars>>

\* The scan timer is tested after the poll, independently of it.
ScanDue_ElseIf == work = {"scan"}              \* mutant: poll or else scan
ScanDue == "scan" \in work

EndPoll ==
    /\ pc = "poll"
    /\ idx > Len(scripts)
    /\ IF ScanDue
         THEN BeginScan /\ UNCHANGED work
         ELSE EndFrame /\ UNCHANGED found
    /\ UNCHANGED <<editorVars, faults, due, slotVars, loadVars>>

IsMod_NewOnly(id, w) == ~Unchanged(id, w)      \* mutant: leaves out unchanged mods
IsMod(id, w) == w # 0

\* discover_scripts: one mod directory per step.
ScanMod ==
    /\ pc = "scan"
    /\ idx \in DOMAIN Order
    /\ \E w \in 0..MaxWrite :
          /\ Stat(Order[idx], w)
          /\ found' = IF IsMod(Order[idx], w) THEN found \union {Order[idx]} ELSE found
    /\ idx' = idx + 1
    /\ UNCHANGED <<editorVars, due, work, pc, slotVars, loadVars>>

\* The enumeration is complete, or it ended early with an ignored error_code.
EndScan ==
    /\ pc = "scan"
    /\ \/ idx > Len(Order) /\ UNCHANGED faults
       \/ /\ idx <= Len(Order)
          /\ faults.stat > 0
          /\ faults' = [faults EXCEPT !.stat = @ - 1]
    /\ pc' = "add"
    /\ idx' = 1
    /\ UNCHANGED <<editorVars, due, work, found, slotVars, loadVars>>

\* refresh_discovery, first loop: load what is found and not yet listed.
AddFound ==
    /\ pc = "add"
    /\ LET missing == {i \in DOMAIN Names : Names[i] \in found /\ ~Listed(Names[i])}
       IN \/ missing = {} /\ pc' = "prune" /\ UNCHANGED loadVars
          \/ \E i \in missing :
                /\ \A j \in missing : i <= j
                /\ BeginLoad(Names[i])
    /\ UNCHANGED <<editorVars, faults, due, work, idx, found, slotVars>>

Kept(id) == id = Core \/ id \in found

\* refresh_discovery, second loop: erase what was not found, never core.
RemoveAt(seq, i) == SubSeq(seq, 1, i - 1) \o SubSeq(seq, i + 1, Len(seq))

Prune ==
    /\ pc = "prune"
    /\ \/ /\ \A i \in DOMAIN scripts : Kept(scripts[i])
          /\ EndFrame
          /\ found' = {Core}
          /\ UNCHANGED slotVars
       \/ \E i \in DOMAIN scripts :
             /\ ~Kept(scripts[i])
             /\ scripts' = RemoveAt(scripts, i)
             /\ live' = [live EXCEPT ![scripts[i]] = 0]
             /\ observed' = [observed EXCEPT ![scripts[i]] = 0]
             /\ UNCHANGED <<work, pc, idx, found>>
    /\ UNCHANGED <<editorVars, faults, due, loadVars>>

-----------------------------------------------------------------------------
(* load_script, and what its caller does with the candidate.                 *)

\* observed_write is taken before the source is read.
LoadStat ==
    /\ pc = "stat"
    /\ \E w \in 0..MaxWrite :
          /\ Stat(loading, w)
          /\ candidate' = [candidate EXCEPT !.observed = w]
          /\ pc' = IF w = 0 THEN "commit" ELSE "read"
    /\ UNCHANGED <<editorVars, due, work, idx, found, slotVars, loading>>

LoadRead ==
    /\ pc = "read"
    /\ \E file \in {disk[loading], Absent} :
          /\ ReadFile(loading, file)
          /\ candidate' = [candidate EXCEPT !.source = file]
    /\ pc' = "commit"
    /\ UNCHANGED <<editorVars, due, work, idx, found, slotVars, loading>>

\* The chunk compiled and ran: the candidate has a lua_State.
Loads == candidate.source.good

\* What the script remembers as seen, whether the candidate commits or not.
ObservedWrite == candidate.observed

\* A rejected reload keeps the state the script had (none, for a new script).
LiveAfterLoad_Cleared ==                       \* mutant: replaces it anyway
    IF Loads THEN candidate.source.write ELSE 0
LiveAfterLoad == IF Loads THEN candidate.source.write ELSE live[loading]

\* A new script is pushed back whether it loaded or not. The candidate is moved
\* from or destroyed and its caller's loop goes on.
Commit ==
    /\ pc = "commit"
    /\ scripts' = IF Listed(loading) THEN scripts ELSE Append(scripts, loading)
    /\ observed' = [observed EXCEPT ![loading] = ObservedWrite]
    /\ live' = [live EXCEPT ![loading] = LiveAfterLoad]
    /\ IF Listed(loading)
         THEN pc' = "poll" /\ idx' = idx + 1
         ELSE pc' = "add" /\ UNCHANGED idx
    /\ loading' = Core
    /\ candidate' = NoCandidate
    /\ UNCHANGED <<editorVars, faults, due, work, found>>

-----------------------------------------------------------------------------
Editor == \E id \in Ids : Remove(id) \/ \E good \in BOOLEAN : Save(id, good)

Renderer ==
    \/ Frame \/ PollScript \/ EndPoll
    \/ ScanMod \/ EndScan \/ AddFound \/ Prune
    \/ LoadStat \/ LoadRead \/ Commit

Next == Editor \/ Renderer \/ \E timer \in Timers : Elapse(timer)

\* The game keeps presenting frames and time passes; the editor owes nothing.
Fairness ==
    /\ WF_vars(Renderer)
    /\ \A timer \in Timers : WF_vars(Elapse(timer))

Spec == Init /\ [][Next]_vars
FairSpec == Spec /\ Fairness

-----------------------------------------------------------------------------
(* Properties.                                                               *)

\* The script list never holds a mod twice and core, once loaded, stays first
\* (initialize_thread reads scripts.front() as core; lookups stop at the first
\* match), whatever scans, failed loads and erasures have happened.
CoreFirstNoDuplicates ==
    /\ \A i, j \in DOMAIN scripts : scripts[i] = scripts[j] => i = j
    /\ scripts # <<>> => scripts[1] = Core

\* Reloading is transactional: while a mod stays listed its working Lua state
\* is never lost and never replaced by an older version; a rejected edit keeps
\* the previous one.
ReloadIsTransactional ==
    [][\A id \in Ids : Listed(id) /\ Listed(id)' => live'[id] >= live[id]]_vars

\* Once the editor has stopped (MaxWrite bounds it), a valid file is running,
\* failed stats and enumerations notwithstanding: the next poll makes up for
\* them. A failed read is not made up for (load_script records the write time
\* before it reads), so the promise is for files whose reads all succeeded.
ValidEditsTakeEffect ==
    \A id \in Ids :
        <>[](faults.read = ReadFaults /\ disk[id].good => live[id] = disk[id].write)

\* Once the editor has stopped, the list settles on the mods that are there,
\* whatever failed on the way: a removed mod is unloaded, and one that a failed
\* stat or enumeration hid from a scan is back.
ListingConverges ==
    \A id \in ModIds : <>[](Present(id) <=> Listed(id))

\* A mod whose init.lua stays in place from before a scan on is never unloaded,
\* as long as the scans can see it: one failed stat unloads a present mod.
PresentModStaysListed ==
    \A id \in ModIds :
        [](pc = "idle" /\ Listed(id) /\ []Present(id)
            => [](faults.stat < StatFaults \/ Listed(id)))
=============================================================================
