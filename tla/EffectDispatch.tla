---------------------------- MODULE EffectDispatch ----------------------------
(* How one effect target reaches the scripts: hooked_apply and hooked_named of *)
(* game_bridge.cpp around before_effect_target, after_effect_target and        *)
(* invoke_effect_handler of core.cpp. Everything runs on the game's thread and *)
(* nests: a handler may trigger a native tick, native code may apply further   *)
(* effects, and those run handlers again, in the same Lua states.              *)
EXTENDS Naturals, Sequences

CONSTANTS
    NumScripts,   \* loaded scripts, in list order
    Effects,      \* effect names
    MaxTargets,   \* bound: targets of one named effect
    MaxDepth,     \* bound: frames on the stack
    MaxContexts,  \* bound: contexts that exist at one time, running ones included
    KeepFailures  \* whether the history of failures is kept: one property reads it

Scripts == 1..NumScripts
NoContext == [script |-> 0, active |-> FALSE, held |-> FALSE]
Context == [script : Scripts, active : BOOLEAN, held : BOOLEAN]
Phases == {"before", "after"}
Answers == {"nil", "true", "false", "error"}

ASSUME EffectAssumption ==
    /\ NumScripts \in Nat
    /\ MaxTargets \in Nat
    /\ MaxDepth \in Nat
    /\ MaxContexts \in Nat
    /\ KeepFailures \in BOOLEAN

VARIABLES
    handlers,  \* [Scripts -> [Effects -> SUBSET Phases]]: each handler table's functions
    stack,     \* the calls in progress, the innermost first
    contexts,  \* the LuaEffectContexts that exist: their script, their active flag, and
               \* whether the script's Lua code can still reach them, by their callback's
               \* argument, a saved copy or an actor reference's user value
    failed,    \* history: handler functions that raised an error
    heap       \* "overwritten" once the engine wrote into memory Lua had freed

vars == <<handlers, stack, contexts, failed, heap>>

\* hooked_named: the engine applies the effect to `left` more targets.
NamedFrame == [kind : {"named"}, effect : Effects, left : 0..MaxTargets]
\* hooked_apply on one target. History: `unasked`, the scripts with a before_apply
\* when it began that have not run it yet, and whether one answered false.
ApplyFrame == [kind : {"apply"}, effect : Effects,
               phase : {"before", "native", "after", "done", "cancelled"},
               next : 1..NumScripts + 1, observed : BOOLEAN, allow : BOOLEAN,
               unasked : SUBSET Scripts, denied : BOOLEAN]
\* A Lua callback, and a native tick it triggered through context ctx.
HandlerFrame == [kind : {"handler"}, script : Scripts, effect : Effects,
                 phase : Phases, ctx : 1..MaxContexts]
TickFrame == [kind : {"tick"}, ctx : 1..MaxContexts]

TypeOK ==
    /\ handlers \in [Scripts -> [Effects -> SUBSET Phases]]
    /\ stack \in Seq(NamedFrame \union ApplyFrame \union HandlerFrame \union TickFrame)
    /\ contexts \in [1..MaxContexts -> Context \union {NoContext}]
    /\ failed \subseteq Scripts \X Effects \X Phases
    /\ heap \in {"sound", "overwritten"}

Init ==
    /\ handlers \in [Scripts -> [Effects -> SUBSET Phases]]
    /\ stack = <<>>
    /\ contexts = [c \in 1..MaxContexts |-> NoContext]
    /\ failed = {}
    /\ heap = "sound"

\* With memory in use overwritten anything may happen: the model stops there.
Sound == heap = "sound"

Top == Head(stack)
Running(kind) == Sound /\ stack # <<>> /\ Top.kind = kind
InPhase(phase) == Running("apply") /\ Top.phase = phase
Native == (Sound /\ stack = <<>>) \/ Running("tick") \/ InPhase("native")
Room(n) == Len(stack) + n <= MaxDepth
Push(frame) == stack' = <<frame>> \o stack
Replace(frame) == stack' = <<frame>> \o Tail(stack)
Pop == stack' = Tail(stack)

\* is_effect_observed: some script has a handler table for the effect.
Observed(effect) == \E s \in Scripts : handlers[s][effect] # {}

-----------------------------------------------------------------------------
(* The engine.                                                               *)

StartNamed(effect, targets) ==
    /\ Native
    /\ Room(3)
    /\ Push([kind |-> "named", effect |-> effect, left |-> targets])
    /\ UNCHANGED <<handlers, contexts, failed, heap>>

FirstScript_Zero == 0                          \* mutant: off by one
FirstScript == 1

NewApply(effect) ==
    [kind |-> "apply", effect |-> effect,
     phase |-> IF Observed(effect) THEN "before" ELSE "native",
     next |-> FirstScript, observed |-> Observed(effect), allow |-> TRUE,
     unasked |-> {s \in Scripts : "before" \in handlers[s][effect]}, denied |-> FALSE]

StartApply(effect) ==
    /\ Room(2)
    /\ \/ Native /\ Push(NewApply(effect))
       \/ /\ Running("named")
          /\ Top.effect = effect
          /\ Top.left > 0
          /\ stack' = <<NewApply(effect), [Top EXCEPT !.left = @ - 1]>> \o Tail(stack)
    /\ UNCHANGED <<handlers, contexts, failed, heap>>

\* The named effect is finished, a tick returns, or hooked_apply does.
Return ==
    /\ \/ Running("named") /\ Top.left = 0
       \/ Running("tick")
       \/ InPhase("done") \/ InPhase("cancelled")
    /\ Pop
    /\ UNCHANGED <<handlers, contexts, failed, heap>>

-----------------------------------------------------------------------------
(* hooked_apply: before handlers, the native apply, after handlers.           *)

AskPhase == IF InPhase("before") THEN "before" ELSE "after"

\* A context nobody uses the name of: a callback's frame goes on naming its
\* context after Lua has collected it.
Free(c) ==
    /\ contexts[c] = NoContext
    /\ \A n \in DOMAIN stack : stack[n].kind = "handler" => stack[n].ctx # c

\* invoke_effect_handler, up to the protected call: the next script in turn. The
\* call's argument is the context's only reference.
Invoke ==
    /\ InPhase("before") \/ InPhase("after")
    /\ Top.next \in Scripts
    /\ AskPhase \in handlers[Top.next][Top.effect]
    /\ \E c \in DOMAIN contexts :
          /\ Free(c)
          /\ \A d \in 1..(c - 1) : ~Free(d)
          /\ contexts' = [contexts EXCEPT ![c] =
                            [script |-> Top.next, active |-> TRUE, held |-> TRUE]]
          /\ LET handler == [kind |-> "handler", script |-> Top.next, effect |-> Top.effect,
                             phase |-> AskPhase, ctx |-> c]
                 apply == [Top EXCEPT !.next = @ + 1,
                             !.unasked = IF AskPhase = "before" THEN @ \ {Top.next} ELSE @]
             IN stack' = <<handler, apply>> \o Tail(stack)
    /\ UNCHANGED <<handlers, failed, heap>>

SkipScript ==
    /\ InPhase("before") \/ InPhase("after")
    /\ Top.next \in Scripts
    /\ AskPhase \notin handlers[Top.next][Top.effect]
    /\ Replace([Top EXCEPT !.next = @ + 1])
    /\ UNCHANGED <<handlers, contexts, failed, heap>>

\* before_effect_target asks every script, even after a false.
BeforeOver_AtFirstFalse == Top.next > NumScripts \/ ~Top.allow   \* mutant: short circuit
BeforeOver == Top.next > NumScripts

EndBefore ==
    /\ InPhase("before")
    /\ BeforeOver
    /\ Replace([Top EXCEPT !.phase = IF Top.allow THEN "native" ELSE "cancelled"])
    /\ UNCHANGED <<handlers, contexts, failed, heap>>

NativeReturns ==
    /\ InPhase("native")
    /\ Replace([Top EXCEPT !.phase = IF Top.observed THEN "after" ELSE "done",
                            !.next = FirstScript])
    /\ UNCHANGED <<handlers, contexts, failed, heap>>

EndAfter ==
    /\ InPhase("after")
    /\ Top.next > NumScripts
    /\ Replace([Top EXCEPT !.phase = "done"])
    /\ UNCHANGED <<handlers, contexts, failed, heap>>

-----------------------------------------------------------------------------
(* Inside a handler.                                                          *)

\* trigger_dot on an actor reference obtained from context c, which the script
\* may have saved from an earlier call; checked_actor_ref raises an error when
\* that context is no longer active.
RefUsable_Always(c) ==                         \* mutant: no check
    contexts[c].script = Top.script /\ contexts[c].held
RefUsable(c) ==
    /\ contexts[c].script = Top.script
    /\ contexts[c].held
    /\ contexts[c].active

TriggerDot(c) ==
    /\ Running("handler")
    /\ Room(1)
    /\ RefUsable(c)
    /\ Push([kind |-> "tick", ctx |-> c])
    /\ UNCHANGED <<handlers, contexts, failed, heap>>

\* dd.effect replaces the script's handler table for the effect.
Register(effect, phases) ==
    /\ Running("handler")
    /\ phases # {}
    /\ handlers' = [handlers EXCEPT ![Top.script][effect] = phases]
    /\ stack' = [n \in DOMAIN stack |->
                   IF stack[n].kind = "apply" /\ stack[n].effect = effect
                     THEN [stack[n] EXCEPT !.unasked = @ \ {Top.script}]
                     ELSE stack[n]]
    /\ failed' = {f \in failed : ~(f[1] = Top.script /\ f[2] = effect)}
    /\ UNCHANGED <<contexts, heap>>

\* Only an explicit false vetoes: an error or another value is the default.
Allows_NeedsTrue(answer) == answer = "true"    \* mutant: lua_toboolean alone
Allows(answer) == answer # "false"

\* The context expires however the callback ends.
ActiveAfter_Error(answer) == answer = "error"  \* mutant: cleared on success only
ActiveAfter(answer) == FALSE

\* When Lua has collected the context meanwhile, the flag is written into freed
\* memory: nothing in use is hit, or something is.
EndHandler(answer) ==
    /\ Running("handler")
    /\ LET apply == stack[2]
           before == Top.phase = "before"
       IN stack' = <<[apply EXCEPT !.allow = @ /\ (before => Allows(answer)),
                                   !.denied = @ \/ (before /\ answer = "false")]>>
                   \o Tail(Tail(stack))
    /\ \/ /\ contexts[Top.ctx] # NoContext
          /\ contexts' = [contexts EXCEPT ![Top.ctx].active = ActiveAfter(answer)]
          /\ UNCHANGED heap
       \/ /\ contexts[Top.ctx] = NoContext
          /\ heap' \in {"sound", "overwritten"}
          /\ UNCHANGED contexts
    /\ failed' = IF answer = "error" /\ KeepFailures
                   THEN failed \union {<<Top.script, Top.effect, Top.phase>>}
                   ELSE failed
    /\ UNCHANGED handlers

-----------------------------------------------------------------------------
(* Lua's memory.                                                              *)

\* The last reference goes: a running callback overwrites its parameter and
\* what it derived from it, or the callback is over and nothing was saved.
LetGo(c) ==
    /\ Sound
    /\ contexts[c].held
    /\ contexts[c].active => Running("handler") /\ Top.script = contexts[c].script
    /\ contexts' = [contexts EXCEPT ![c].held = FALSE]
    /\ UNCHANGED <<handlers, stack, failed, heap>>

\* Lua collects a context nothing refers to. A C function that is running keeps
\* its arguments, so an actor reference keeps its context during its tick.
Collect(c) ==
    /\ Sound
    /\ contexts[c] # NoContext
    /\ ~contexts[c].held
    /\ \A n \in DOMAIN stack : stack[n].kind = "tick" => stack[n].ctx # c
    /\ contexts' = [contexts EXCEPT ![c] = NoContext]
    /\ UNCHANGED <<handlers, stack, failed, heap>>

\* A hot reload replaces a script's tables and closes its old Lua state, between
\* two frames of the game.
Reload(s) ==
    /\ Sound
    /\ stack = <<>>
    /\ \E table \in [Effects -> SUBSET Phases] : handlers' = [handlers EXCEPT ![s] = table]
    /\ contexts' = [c \in DOMAIN contexts |->
                      IF contexts[c].script = s THEN NoContext ELSE contexts[c]]
    /\ failed' = {f \in failed : f[1] # s}
    /\ UNCHANGED <<stack, heap>>

-----------------------------------------------------------------------------
Next ==
    \/ \E effect \in Effects :
          \/ StartApply(effect)
          \/ \E targets \in 1..MaxTargets : StartNamed(effect, targets)
          \/ \E phases \in SUBSET Phases : Register(effect, phases)
    \/ Return
    \/ Invoke \/ SkipScript \/ EndBefore \/ NativeReturns \/ EndAfter
    \/ \E c \in DOMAIN contexts : TriggerDot(c) \/ LetGo(c) \/ Collect(c)
    \/ \E answer \in Answers : EndHandler(answer)
    \/ \E s \in Scripts : Reload(s)

Spec == Init /\ [][Next]_vars

-----------------------------------------------------------------------------
(* Properties.                                                               *)

\* A context that exists is active exactly while its own callback is on the
\* stack, through nested effects, errors, replaced handlers and collections, and
\* one that a native tick was started through exists and is active until the
\* tick returns.
ActiveWhileRunning ==
    /\ \A c \in DOMAIN contexts : contexts[c] # NoContext =>
         (contexts[c].active <=>
            \E n \in DOMAIN stack : stack[n].kind = "handler" /\ stack[n].ctx = c)
    /\ \A n \in DOMAIN stack : stack[n].kind = "tick" => contexts[stack[n].ctx].active

\* LUA_API.md: an effect context is valid during its callback. invoke_effect_handler
\* writes its flag when the callback has returned.
ValidDuringCallback ==
    \A n \in DOMAIN stack :
        stack[n].kind = "handler" => contexts[stack[n].ctx] # NoContext

\* Native operations are reached only through a reference whose callback has not
\* returned: saved references never act.
TicksOnlyInsideTheirCallback ==
    \A n \in DOMAIN stack : stack[n].kind = "tick" =>
        \E m \in DOMAIN stack :
            m > n /\ stack[m].kind = "handler" /\ stack[m].ctx = stack[n].ctx

\* Whether a target's native apply runs is the scripts' decision: every script
\* that had a before_apply when the effect reached the target, and did not
\* replace it since, is asked first, and the apply is cancelled when one of them
\* answered false and for no other reason. Errors and other values leave the
\* native effect alone.
VetoIsTheScripts ==
    \A n \in DOMAIN stack : stack[n].kind = "apply" =>
        /\ stack[n].phase # "before" => stack[n].unasked = {}
        /\ stack[n].phase \in {"native", "after", "done"} => ~stack[n].denied
        /\ stack[n].phase = "cancelled" => stack[n].denied

\* LUA_API.md: the engine finishes the named effect before any after_apply runs.
AfterWaitsForNamedEffect ==
    \A n \in DOMAIN stack :
        /\ n + 2 \in DOMAIN stack
        /\ stack[n].kind = "handler"
        /\ stack[n].phase = "after"
        /\ stack[n + 2].kind = "named"
        => stack[n + 2].left = 0

\* LUA_API.md: a callback that raised an error is disabled until the next
\* successful reload.
FailedHandlersAreDisabled ==
    [][stack' # <<>> /\ Len(stack') > Len(stack) /\ stack'[1].kind = "handler" =>
         <<stack'[1].script, stack'[1].effect, stack'[1].phase>> \notin failed]_vars
=============================================================================
