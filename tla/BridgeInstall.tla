----------------------------- MODULE BridgeInstall -----------------------------
(* How the worker thread of initialize_thread (core.cpp) puts its hooks into   *)
(* the running game: render_hook::install, game_bridge::install and, when the  *)
(* trace is enabled, tracer::install, with their rollbacks, while the game's   *)
(* thread keeps calling the functions being hooked. Nothing suspends the game, *)
(* so its calls fall between any two writes of the worker.                     *)
EXTENDS Integers, Sequences

CONSTANTS
    Profiles,      \* the profile sections an installation may find
    RestoreFaults  \* bound: VirtualProtect calls that fail in restore

Owners == {"render", "bridge", "tracer"}
Points == {"swap", "apply", "named", "transition", "corridor", "move"}
\* What a profile section gives: a signature per point and each owner's layout.
Items == (Points \ {"swap"}) \union {"bridge", "tracer"}

ASSUME InstallAssumption ==
    /\ Profiles \subseteq SUBSET Items
    /\ RestoreFaults \in Nat

VARIABLES
    supported, \* the host executable's hash is a known build
    traced,    \* config/corridor_trace.enabled exists
    profile,   \* the Items whose entry is there and agrees with the game
    pc,        \* where the worker stands
    owner,     \* the installer at work
    step,      \* its position in its plan
    site,      \* [Points -> what a call at the point runs]: the native function,
               \* a half-written jump, or a jump to an owner's hook
    original,  \* the g_original_* pointers that are not null, as <<owner, point>>
    code,      \* the code such a pointer leads to that is still allocated
    restores,  \* VirtualProtect failures in restore still to come
    tables,    \* g_dot_ticks, g_dot_predicates and g_layout hold the profile's
    failed,    \* history: some system call of the worker's has failed
    call       \* the game's call in progress

vars == <<supported, traced, profile, pc, owner, step, site, original, code,
          restores, tables, failed, call>>
host == <<supported, traced, profile>>

NoCall == [point |-> "swap", owner |-> "render", phase |-> "none", settled |-> FALSE]

TypeOK ==
    /\ supported \in BOOLEAN
    /\ traced \in BOOLEAN
    /\ profile \in Profiles
    /\ pc \in {"swap", "verify", "patch", "write", "publish", "tables",
              "restore", "unwrite", "free", "done"}
    /\ owner \in Owners
    /\ step \in 0..5
    /\ site \in [Points -> Owners \union {"native", "torn"}]
    /\ original \subseteq Owners \X Points
    /\ code \subseteq Owners \X Points
    /\ restores \in 0..RestoreFaults
    /\ tables \in BOOLEAN
    /\ failed \in BOOLEAN
    /\ call \in [point : Points, owner : Owners, settled : BOOLEAN,
                 phase : {"none", "hook", "tables", "original", "after", "late",
                          "crashed"}]

\* initialize_thread installs nothing for an unknown build.
FirstStage_Always == "swap"                    \* mutant: the build is not asked
FirstStage == IF supported THEN "swap" ELSE "done"

Init ==
    /\ supported \in BOOLEAN
    /\ traced \in BOOLEAN
    /\ profile \in Profiles
    /\ pc = FirstStage
    /\ owner = "render"
    /\ step = 1
    /\ site = [p \in Points |-> "native"]
    /\ original = {}
    /\ code = {<<"render", "swap">>}     \* SDL's own function
    /\ restores = RestoreFaults
    /\ tables = FALSE
    /\ failed = FALSE
    /\ call = NoCall

\* The points an installer patches, in order. The tracer owns the corridor
\* point when it is enabled.
BridgePlan_Always == <<"apply", "named", "transition", "corridor">>   \* mutant
BridgePlan ==
    <<"apply", "named", "transition">> \o IF traced THEN <<>> ELSE <<"corridor">>
TracerPlan == <<"corridor", "move">>
PlanOf(o) == IF o = "bridge" THEN BridgePlan ELSE TracerPlan
Plan == PlanOf(owner)
InPlan(o) == {<<o, PlanOf(o)[i]>> : i \in DOMAIN PlanOf(o)}

\* The worker's next step, unless the process has ended.
At(place) == pc = place /\ call.phase # "crashed"

\* The worker goes on with the tracer, or has nothing left to do.
FinishInstaller ==
    /\ IF owner = "bridge" /\ traced
         THEN pc' = "verify" /\ owner' = "tracer"
         ELSE pc' = "done" /\ UNCHANGED owner
    /\ step' = 1

-----------------------------------------------------------------------------
(* render_hook::install: the original is stored before the import is replaced. *)

SwapOrder == <<"original", "pointer">>

SwapWrite ==
    /\ At("swap")
    /\ step \in DOMAIN SwapOrder
    /\ IF SwapOrder[step] = "original"
         THEN original' = original \union {<<"render", "swap">>} /\ UNCHANGED site
         ELSE site' = [site EXCEPT !["swap"] = "render"] /\ UNCHANGED original
    /\ step' = step + 1
    /\ UNCHANGED <<host, pc, owner, code, restores, tables, failed, call>>

\* The import is in place, or it was not found; the bridge is tried anyway.
SwapReturns ==
    /\ At("swap")
    /\ \/ step > Len(SwapOrder) /\ UNCHANGED failed
       \/ step = 1 /\ failed' = TRUE
    /\ pc' = "verify"
    /\ owner' = "bridge"
    /\ step' = 1
    /\ UNCHANGED <<host, site, original, code, restores, tables, call>>

-----------------------------------------------------------------------------
(* game_bridge::install and tracer::install.                                  *)

\* Every point of the plan and the layout, before the first patch. load_point
\* compares with the bytes now in memory.
Verified_FirstOnly ==                          \* mutant: others when their turn comes
    Plan[1] \in profile /\ site[Plan[1]] = "native"
Verified ==
    /\ owner \in profile
    /\ \A i \in DOMAIN Plan : Plan[i] \in profile /\ site[Plan[i]] = "native"

Verify ==
    /\ At("verify")
    /\ IF Verified
         THEN pc' = "patch" /\ UNCHANGED <<owner, step>>
         ELSE FinishInstaller
    /\ UNCHANGED <<host, site, original, code, restores, tables, failed, call>>

\* The tracer cannot create its output file.
NoTraceFile ==
    /\ At("patch")
    /\ owner = "tracer"
    /\ step = 1
    /\ failed' = TRUE
    /\ FinishInstaller
    /\ UNCHANGED <<host, site, original, code, restores, tables, call>>

\* patch_target: the trampoline is allocated and the jump copied over the point.
Patch ==
    /\ At("patch")
    /\ step \in DOMAIN Plan
    /\ code' = code \union {<<owner, Plan[step]>>}
    /\ site' = [site EXCEPT ![Plan[step]] = "torn"]
    /\ pc' = "write"
    /\ UNCHANGED <<host, owner, step, original, restores, tables, failed, call>>

Write ==
    /\ At("write")
    /\ site' = [site EXCEPT ![Plan[step]] = owner]
    /\ pc' = "publish"
    /\ UNCHANGED <<host, owner, step, original, code, restores, tables, failed, call>>

\* g_original_* is assigned after patch_target has returned. The bridge hands
\* its tables over once apply and named are in, before it patches transition.
Published_NotLast(p) ==                        \* mutant: forgets the last one
    IF step = Len(Plan) THEN original ELSE original \union {<<owner, p>>}
Published(p) == original \union {<<owner, p>>}

Publish ==
    /\ At("publish")
    /\ original' = Published(Plan[step])
    /\ pc' = IF <<owner, Plan[step]>> = <<"bridge", "named">> THEN "tables" ELSE "patch"
    /\ step' = step + 1
    /\ UNCHANGED <<host, owner, site, code, restores, tables, failed, call>>

\* The tables have no lock: when they change under a hook that reads them, what
\* it finds is undefined.
WriteTables(full) ==
    /\ tables' = full
    /\ \/ UNCHANGED call
       \/ /\ tables # full
          /\ call.phase \in {"tables", "late"}
          /\ call' = [call EXCEPT !.phase = "crashed"]

MoveTables ==
    /\ At("tables")
    /\ WriteTables(TRUE)
    /\ pc' = "patch"
    /\ UNCHANGED <<host, owner, step, site, original, code, restores, failed>>

Installed ==
    /\ At("patch")
    /\ step > Len(Plan)
    /\ FinishInstaller
    /\ UNCHANGED <<host, site, original, code, restores, tables, failed, call>>

\* VirtualAlloc or VirtualProtect fails: undo what was patched, latest first.
FirstToRestore_SkipsOne == step - 2            \* mutant: leaves the latest patched
FirstToRestore == step - 1

PatchFails ==
    /\ At("patch")
    /\ step \in DOMAIN Plan
    /\ failed' = TRUE
    /\ step' = FirstToRestore
    /\ pc' = "restore"
    /\ UNCHANGED <<host, owner, site, original, code, restores, tables, call>>

\* restore: copy the original bytes back, unless VirtualProtect fails ...
Restore ==
    /\ At("restore")
    /\ step > 0
    /\ \/ /\ site' = [site EXCEPT ![Plan[step]] = "torn"]
          /\ pc' = "unwrite"
          /\ UNCHANGED restores
       \/ /\ restores > 0
          /\ restores' = restores - 1
          /\ pc' = "free"
          /\ UNCHANGED site
    /\ UNCHANGED <<host, owner, step, original, code, tables, failed, call>>

Unwrite ==
    /\ At("unwrite")
    /\ site' = [site EXCEPT ![Plan[step]] = "native"]
    /\ pc' = "free"
    /\ UNCHANGED <<host, owner, step, original, code, restores, tables, failed, call>>

\* ... and free the trampoline either way.
Free ==
    /\ At("free")
    /\ code' = code \ {<<owner, Plan[step]>>}
    /\ pc' = "restore"
    /\ step' = step - 1
    /\ UNCHANGED <<host, owner, site, original, restores, tables, failed, call>>

Cleared == {o \in original : o[1] # owner}

TablesAfterRollback_Kept == tables             \* mutant: not cleared
TablesAfterRollback == tables /\ owner # "bridge"

Clear ==
    /\ At("restore")
    /\ step <= 0
    /\ original' = Cleared
    /\ WriteTables(TablesAfterRollback)
    /\ FinishInstaller
    /\ UNCHANGED <<host, site, code, restores, failed>>

-----------------------------------------------------------------------------
(* The game's thread.                                                         *)

Enter(p) ==
    /\ call.phase = "none"
    /\ site[p] # "native"
    /\ call' = [point |-> p, settled |-> pc = "done",
                owner |-> IF site[p] = "torn" THEN owner ELSE site[p],
                phase |-> IF site[p] = "torn" THEN "crashed" ELSE "hook"]
    /\ UNCHANGED <<host, pc, owner, step, site, original, code, restores, tables, failed>>

\* The bridge's hooks read the tables before they call the native function (the
\* handlers an apply runs, which tick or ask for a status; the corridor's) and
\* after it (an apply's handlers again, and the flush of an action's end).
LookUp ==
    /\ call.owner = "bridge"
    /\ \/ /\ call.phase = "hook"
          /\ call.point \in {"apply", "corridor"}
          /\ call' = [call EXCEPT !.phase = "tables"]
       \/ call.phase = "tables" /\ call' = [call EXCEPT !.phase = "hook"]
       \/ /\ call.phase = "after"
          /\ call.point \in {"apply", "transition"}
          /\ call' = [call EXCEPT !.phase = "late"]
       \/ call.phase = "late" /\ call' = [call EXCEPT !.phase = "after"]
    /\ UNCHANGED <<host, pc, owner, step, site, original, code, restores, tables, failed>>

\* The hook calls through g_original_*; a null pointer ends the process.
CallOriginal ==
    /\ call.phase = "hook"
    /\ call' = [call EXCEPT !.phase =
                  IF <<call.owner, call.point>> \in original THEN "original" ELSE "crashed"]
    /\ UNCHANGED <<host, pc, owner, step, site, original, code, restores, tables, failed>>

\* The trampoline's instructions run and lead into the native function, which
\* returns to the hook.
RunTrampoline ==
    /\ call.phase = "original"
    /\ call' = [call EXCEPT !.phase =
                  IF <<call.owner, call.point>> \in code THEN "after" ELSE "crashed"]
    /\ UNCHANGED <<host, pc, owner, step, site, original, code, restores, tables, failed>>

\* The hook returns; a vetoed apply does so without the native function.
EndCall ==
    /\ call.phase = "after" \/ (call.phase = "hook" /\ call.point = "apply")
    /\ call' = NoCall
    /\ UNCHANGED <<host, pc, owner, step, site, original, code, restores, tables, failed>>

Install ==
    \/ SwapWrite \/ SwapReturns
    \/ Verify \/ NoTraceFile \/ Patch \/ Write \/ Publish \/ MoveTables \/ Installed
    \/ PatchFails \/ Restore \/ Unwrite \/ Free \/ Clear

Game ==
    \/ LookUp \/ CallOriginal \/ RunTrampoline \/ EndCall
    \/ \E p \in Points : Enter(p)

Next == Install \/ Game

Spec == Init /\ [][Next]_vars

-----------------------------------------------------------------------------
(* Properties.                                                               *)

Jumps(o) == {<<o, p>> : p \in {q \in Points : site[q] = o}}

\* The game's code and pointers are touched only when the build is known, and
\* code only when everything the installer will ever patch, and its layout, has
\* been verified beforehand.
TouchedOnlyIfVerified ==
    \A p \in Points : site[p] # "native" =>
        /\ supported
        /\ p # "swap" =>
              LET o == IF site[p] = "torn" THEN owner ELSE site[p] IN
              o \in profile /\ \A item \in InPlan(o) : item[2] \in profile

\* Once the worker has finished, each installer has put in all of its hooks or
\* has left nothing behind: no jump, no pointer, no trampoline, no tables.
\* (Unless restore could not write.)
AllOrNothing ==
    pc = "done" /\ restores = RestoreFaults =>
        \A o \in {"bridge", "tracer"} :
            \/ /\ Jumps(o) = InPlan(o)
               /\ InPlan(o) \subseteq original \intersect code
               /\ o = "bridge" => tables
            \/ /\ \A p \in Points : <<o, p>> \notin Jumps(o) \union original \union code
               /\ o = "bridge" => ~tables

\* A call that begins after the worker has finished reaches the original,
\* whatever failed and was rolled back before. (Unless restore could not write:
\* it then frees a trampoline that is still jumped to.) Presentation is never
\* disturbed, not even while its hook is being put in.
SettledCallsSucceed ==
    call.phase = "crashed" =>
        /\ call.point # "swap"
        /\ restores = RestoreFaults => ~call.settled

\* When nothing fails, the tracer gets the corridor point it was enabled for
\* (its own verification would refuse a point the bridge has patched).
TracerOwnsCorridor ==
    /\ pc = "done" /\ supported /\ traced
    /\ profile = Items
    => failed \/ site["corridor"] = "tracer"
=============================================================================
