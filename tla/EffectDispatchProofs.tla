------------------------- MODULE EffectDispatchProofs -------------------------
(* TLAPS proofs about EffectDispatch, for any number of scripts, effects,      *)
(* targets and contexts and any depth of nesting. The safety properties speak  *)
(* of frames that every call and every return renumbers; the invariant counts  *)
(* them from the bottom (CallStackLemmas).                                     *)
EXTENDS EffectDispatch, CallStackLemmas

Frames == NamedFrame \union ApplyFrame \union HandlerFrame \union TickFrame
Height == Len(stack)
Frame(d) == FromBottom(stack, d)

\* The running callback of context c is frame d.
Runs(d, c) == Frame(d).kind = "handler" /\ Frame(d).ctx = c

\* A Lua callback runs on top of the hooked_apply that invoked it, in its phase.
Links ==
    \A d \in 1..Height : Frame(d).kind = "handler" =>
        d > 1 /\ Frame(d - 1).kind = "apply" /\ Frame(d - 1).phase = Frame(d).phase

\* A context that exists is active while its callback runs, no two callbacks share
\* one, and a native tick keeps the one it was asked through.
Active ==
    /\ \A c \in 1..MaxContexts : contexts[c] # NoContext =>
          (contexts[c].active <=> \E d \in 1..Height : Runs(d, c))
    /\ \A d \in 1..Height : Frame(d).kind = "tick" => contexts[Frame(d).ctx].active
    /\ \A d, e \in 1..Height : \A c \in 1..MaxContexts : Runs(d, c) /\ Runs(e, c) => d = e

\* A native tick runs above the callback it was asked for by.
Ticks ==
    \A d \in 1..Height : Frame(d).kind = "tick" =>
        \E e \in 1..Height : e < d /\ Runs(e, Frame(d).ctx)

\* What one hooked_apply knows of the scripts' answers.
Asked(f) ==
    f.kind = "apply" =>
        /\ f.phase # "before" => f.unasked = {}
        /\ f.phase \in {"native", "after", "done"} => ~f.denied
        /\ f.phase = "cancelled" => f.denied
        /\ f.phase = "before" =>
             /\ f.allow <=> ~f.denied
             /\ \A s \in f.unasked : s >= f.next /\ "before" \in handlers[s][f.effect]
Veto == \A d \in 1..Height : Asked(Frame(d))

IInv == TypeOK /\ Links /\ Active /\ Ticks /\ Veto

-----------------------------------------------------------------------------
(* Frames.                                                                   *)

\* The kind tells what sort of frame it is.
LEMMA KindOfFrame ==
    ASSUME NEW f \in Frames
    PROVE  /\ f.kind \in {"named", "apply", "handler", "tick"}
           /\ f.kind = "named" => f \in NamedFrame
           /\ f.kind = "apply" => f \in ApplyFrame
           /\ f.kind = "handler" => f \in HandlerFrame
           /\ f.kind = "tick" => f \in TickFrame
  BY DEF Frames, NamedFrame, ApplyFrame, HandlerFrame, TickFrame

\* The innermost frame, numbered from the bottom.
LEMMA Innermost ==
    ASSUME TypeOK, stack # <<>>
    PROVE  /\ Height \in Nat /\ Height >= 1
           /\ Top = Frame(Height) /\ Top \in Frames
<1>1. stack \in Seq(Frames)
  BY DEF TypeOK, Frames
<1> QED
  BY <1>1, TopFrame DEF Height, Frame, Top

\* Callbacks and ticks name a context.
LEMMA ContextOfFrame ==
    ASSUME stack \in Seq(Frames), NEW d \in 1..Height, Frame(d).kind \in {"tick", "handler"}
    PROVE  Frame(d).ctx \in 1..MaxContexts
<1>1. Frame(d) \in Frames
  BY NumberedFrames DEF Frame, Height
<1> QED
  BY <1>1, KindOfFrame DEF TickFrame, HandlerFrame

\* A frame's number from the bottom gives its place in the stack.
LEMMA NumberFromTop ==
    ASSUME stack \in Seq(Frames), NEW d \in 1..Height
    PROVE  \E n \in DOMAIN stack : stack[n] = Frame(d)
<1>1. Height \in Nat /\ DOMAIN stack = 1..Height
  BY LenProperties DEF Height
<1> QED
  BY <1>1 DEF Frame, FromBottom, Height

\* A step that takes away no callback, starts none and no tick, and leaves the
\* frames below alone.
Quiet ==
    /\ UNCHANGED <<handlers, contexts, failed, heap>>
    /\ stack' \in Seq(Frames)
    /\ \E k \in 0..Height :
          /\ k <= Height'
          /\ \A d \in 1..k : Frame(d)' = Frame(d)
          /\ \A d \in 1..Height : d > k => Frame(d).kind # "handler"
          /\ \A d \in 1..Height' : d > k =>
                Frame(d)'.kind \in {"named", "apply"} /\ Asked(Frame(d))'

\* A quiet step cannot disturb what the invariant says of the frames below.
LEMMA QuietKeeps ==
    ASSUME IInv, Quiet
    PROVE  IInv'
<1>1. /\ UNCHANGED <<handlers, contexts, failed, heap>>
      /\ stack' \in Seq(Frames)
      /\ Height \in Nat /\ Height' \in Nat
  BY NumberedFrames DEF Quiet, IInv, TypeOK, Frames, Height
<1>2. PICK k \in 0..Height :
          /\ k <= Height'
          /\ \A d \in 1..k : Frame(d)' = Frame(d)
          /\ \A d \in 1..Height : d > k => Frame(d).kind # "handler"
          /\ \A d \in 1..Height' : d > k =>
                Frame(d)'.kind \in {"named", "apply"} /\ Asked(Frame(d))'
  BY DEF Quiet
<1>3. TypeOK'
  BY <1>1 DEF IInv, TypeOK, Frames
<1>4. /\ \A d \in 1..k : d \in 1..Height /\ d \in 1..Height'
      /\ \A d \in 1..Height' : d \in 1..k \/ d > k
      /\ \A d \in 1..Height : d \in 1..k \/ d > k
  BY <1>1, <1>2
<1>5. /\ \A d \in 1..Height : \A c : Runs(d, c) => d \in 1..k
      /\ \A d \in 1..Height' : \A c : Runs(d, c)' => d \in 1..k
      /\ \A d \in 1..k : \A c : Runs(d, c)' <=> Runs(d, c)
  BY <1>1, <1>2, <1>4 DEF Runs
<1>6. Links'
  <2> SUFFICES ASSUME NEW d \in 1..Height', Frame(d)'.kind = "handler"
               PROVE  d > 1 /\ Frame(d - 1)'.kind = "apply" /\ Frame(d - 1)'.phase = Frame(d)'.phase
    BY DEF Links
  <2>1. d \in 1..k /\ d \in 1..Height /\ Frame(d)' = Frame(d)
    BY <1>2, <1>4
  <2>2. d > 1 /\ Frame(d - 1).kind = "apply" /\ Frame(d - 1).phase = Frame(d).phase
    BY <2>1 DEF IInv, Links
  <2>3. d - 1 \in 1..k
    BY <2>1, <2>2
  <2>4. Frame(d - 1)' = Frame(d - 1)
    BY <1>2, <2>3
  <2> QED
    BY <2>1, <2>2, <2>4
<1>7. Active'
  <2>1. ASSUME NEW d \in 1..Height', Frame(d)'.kind = "tick"
        PROVE  contexts'[Frame(d)'.ctx].active
    <3>1. d \in 1..k /\ d \in 1..Height /\ Frame(d)' = Frame(d)
      BY <1>2, <1>4, <2>1
    <3> QED
      BY <1>1, <2>1, <3>1 DEF IInv, Active
  <2>2. ASSUME NEW c \in 1..MaxContexts, contexts'[c] # NoContext
        PROVE  contexts'[c].active <=> \E d \in 1..Height' : Runs(d, c)'
    BY <1>1, <1>4, <1>5, <2>2 DEF IInv, Active
  <2>3. \A d, e \in 1..Height' : \A c \in 1..MaxContexts : Runs(d, c)' /\ Runs(e, c)' => d = e
    BY <1>4, <1>5 DEF IInv, Active
  <2> QED
    BY <2>1, <2>2, <2>3 DEF Active
<1>8. Ticks'
  <2> SUFFICES ASSUME NEW d \in 1..Height', Frame(d)'.kind = "tick"
               PROVE  \E e \in 1..Height' : e < d /\ Runs(e, Frame(d).ctx)'
    BY DEF Ticks
  <2>1. d \in 1..k /\ d \in 1..Height /\ Frame(d)' = Frame(d)
    BY <1>2, <1>4
  <2>2. PICK e \in 1..Height : e < d /\ Runs(e, Frame(d).ctx)
    BY <2>1 DEF IInv, Ticks
  <2>3. e \in 1..k /\ e \in 1..Height'
    BY <1>4, <1>5, <2>2
  <2>4. Frame(e)' = Frame(e)
    BY <1>2, <2>3
  <2> QED
    BY <2>1, <2>2, <2>3, <2>4 DEF Runs
<1>9. Veto'
  <2> SUFFICES ASSUME NEW d \in 1..Height'
               PROVE  Asked(Frame(d))'
    BY DEF Veto
  <2>1. CASE d \in 1..k
    BY <1>1, <1>2, <1>4, <2>1 DEF IInv, Veto, Asked
  <2>2. CASE d > k
    BY <1>2, <2>2
  <2> QED
    BY <1>4, <2>1, <2>2
<1> QED
  BY <1>3, <1>6, <1>7, <1>8, <1>9 DEF IInv

\* What a frame knows does not depend on where it stands.
LEMMA AskedStays ==
    ASSUME UNCHANGED handlers, NEW d \in Nat, NEW f, Frame(d)' = f, Asked(f)
    PROVE  Asked(Frame(d))'
  BY DEF Asked

\* The four ways of a quiet step: a call, a return, a call that goes on, and one
\* that goes on with a further call.
LEMMA QuietPush ==
    ASSUME IInv, UNCHANGED <<handlers, contexts, failed, heap>>,
           NEW f \in Frames, stack' = <<f>> \o stack,
           f.kind \in {"named", "apply"}, Asked(f)
    PROVE  Quiet
<1>1. stack \in Seq(Frames)
  BY DEF IInv, TypeOK, Frames
<1>2. /\ stack' \in Seq(Frames) /\ Height \in Nat /\ Height' = Height + 1
      /\ FromBottom(stack', Height + 1) = f
      /\ \A d \in 1..Height : Frame(d)' = Frame(d)
  BY <1>1, PushFrame DEF Height, Frame
<1>3. PICK n \in Nat : n = Height + 1
  BY <1>2
<1>4. Frame(n)' = f
  BY <1>2, <1>3 DEF Frame
<1>5. Asked(Frame(n))'
  BY <1>4, AskedStays
<1>6. /\ Height \in 0..Height /\ Height <= Height'
      /\ \A d \in 1..Height' : d > Height => d = n
      /\ \A d \in 1..Height : ~(d > Height)
  BY <1>2, <1>3
<1>7. \A d \in 1..Height' : d > Height =>
          Frame(d)'.kind \in {"named", "apply"} /\ Asked(Frame(d))'
  BY <1>4, <1>5, <1>6
<1> QED
  BY <1>2, <1>6, <1>7 DEF Quiet

\* Returning from a frame that is no handler is quiet ...
LEMMA QuietPop ==
    ASSUME IInv, UNCHANGED <<handlers, contexts, failed, heap>>,
           stack # <<>>, Top.kind # "handler", stack' = Tail(stack)
    PROVE  Quiet
<1>1. stack \in Seq(Frames)
  BY DEF IInv, TypeOK, Frames
<1>2. /\ stack' \in Seq(Frames) /\ Height \in Nat /\ Height' \in Nat /\ Height' = Height - 1
      /\ \A d \in 1..Height' : Frame(d)' = Frame(d)
  BY <1>1, PopFrame, TopFrame DEF Height, Frame
<1>3. Top = Frame(Height)
  BY Innermost DEF IInv
<1> QED
  BY <1>2, <1>3 DEF Quiet

\* ... so is replacing such a frame by another one ...
LEMMA QuietReplace ==
    ASSUME IInv, UNCHANGED <<handlers, contexts, failed, heap>>,
           stack # <<>>, Top.kind # "handler",
           NEW f \in Frames, stack' = <<f>> \o Tail(stack),
           f.kind \in {"named", "apply"}, Asked(f)
    PROVE  Quiet
<1>1. stack \in Seq(Frames)
  BY DEF IInv, TypeOK, Frames
<1>2. /\ stack' \in Seq(Frames) /\ Height \in Nat /\ Height >= 1 /\ Height' = Height
      /\ FromBottom(stack', Height) = f
      /\ \A d \in 1..Height : d # Height => Frame(d)' = Frame(d)
  BY <1>1, ReplaceFrame DEF Height, Frame
<1>3. PICK n \in Nat : n = Height
  BY <1>2
<1>4. Frame(n)' = f
  BY <1>2, <1>3 DEF Frame
<1>5. Asked(Frame(n))'
  BY <1>4, AskedStays
<1>6. Top = Frame(Height)
  BY Innermost DEF IInv
<1>7. \E k \in 0..Height : k = n - 1
  BY <1>2, <1>3
<1>8. PICK k \in 0..Height : k = n - 1
  BY <1>7
<1>9. /\ k <= Height'
      /\ \A d \in 1..k : Frame(d)' = Frame(d)
      /\ \A d \in 1..Height : d > k => d = n
  BY <1>2, <1>3, <1>8
<1>10. \A d \in 1..Height' : d > k => Frame(d)'.kind \in {"named", "apply"} /\ Asked(Frame(d))'
  BY <1>2, <1>3, <1>4, <1>5, <1>9
<1>11. \A d \in 1..Height : d > k => Frame(d).kind # "handler"
  BY <1>3, <1>6, <1>9
<1> QED
  BY <1>2, <1>9, <1>10, <1>11 DEF Quiet

\* ... and calling a further engine function from the frame replaced.
LEMMA QuietReplaceAndPush ==
    ASSUME IInv, UNCHANGED <<handlers, contexts, failed, heap>>,
           stack # <<>>, Top.kind # "handler",
           NEW f \in Frames, NEW g \in Frames, stack' = <<g, f>> \o Tail(stack),
           f.kind \in {"named", "apply"}, Asked(f),
           g.kind \in {"named", "apply"}, Asked(g)
    PROVE  Quiet
<1>1. stack \in Seq(Frames)
  BY DEF IInv, TypeOK, Frames
<1>2. /\ stack' \in Seq(Frames) /\ Height \in Nat /\ Height >= 1 /\ Height' = Height + 1
      /\ FromBottom(stack', Height) = f /\ FromBottom(stack', Height + 1) = g
      /\ \A d \in 1..Height : d # Height => Frame(d)' = Frame(d)
  BY <1>1, ReplaceAndPushFrame DEF Height, Frame
<1>3. PICK n \in Nat : n = Height
  BY <1>2
<1>4. PICK m \in Nat : m = n + 1
  BY <1>3
<1>5. Frame(n)' = f /\ Frame(m)' = g
  BY <1>2, <1>3, <1>4 DEF Frame
<1>6. Asked(Frame(n))' /\ Asked(Frame(m))'
  BY <1>5, AskedStays
<1>7. Top = Frame(Height)
  BY Innermost DEF IInv
<1>8. \E k \in 0..Height : k = n - 1
  BY <1>2, <1>3
<1>9. PICK k \in 0..Height : k = n - 1
  BY <1>8
<1>10. /\ k <= Height'
       /\ \A d \in 1..k : Frame(d)' = Frame(d)
       /\ \A d \in 1..Height : d > k => d = n
       /\ \A d \in 1..Height' : d > k => d = n \/ d = m
  BY <1>2, <1>3, <1>4, <1>9
<1>11. \A d \in 1..Height' : d > k => Frame(d)'.kind \in {"named", "apply"} /\ Asked(Frame(d))'
  BY <1>5, <1>6, <1>10
<1>12. \A d \in 1..Height : d > k => Frame(d).kind # "handler"
  BY <1>3, <1>7, <1>10
<1> QED
  BY <1>2, <1>10, <1>11, <1>12 DEF Quiet

-----------------------------------------------------------------------------
(* The engine's and hooked_apply's steps.                                    *)

\* The engine calls apply_named for some targets.
LEMMA StartNamedKeeps ==
    ASSUME IInv, NEW effect \in Effects, NEW targets \in 1..MaxTargets,
           StartNamed(effect, targets)
    PROVE  IInv'
<1>1. PICK f \in Frames : /\ stack' = <<f>> \o stack
                          /\ f.kind = "named"
  <2>1. [kind |-> "named", effect |-> effect, left |-> targets] \in Frames
    BY EffectAssumption DEF Frames, NamedFrame
  <2> QED
    BY <2>1 DEF StartNamed, Push
<1>2. UNCHANGED <<handlers, contexts, failed, heap>>
  BY DEF StartNamed
<1>3. Asked(f)
  BY <1>1 DEF Asked
<1> QED
  BY <1>1, <1>2, <1>3, QuietPush, QuietKeeps

\* A new hooked_apply owes every before_apply a call and has no denial.
LEMMA NewApplyAsked ==
    ASSUME TypeOK, NEW effect \in Effects
    PROVE  /\ NewApply(effect) \in Frames
           /\ NewApply(effect).kind = "apply"
           /\ Asked(NewApply(effect))
<1> DEFINE f == NewApply(effect)
<1>1. 1 \in 1..NumScripts + 1
  BY EffectAssumption
<1>2. f \in ApplyFrame
  BY <1>1 DEF NewApply, ApplyFrame, FirstScript, Observed
<1>3. /\ f.kind = "apply" /\ f.effect = effect /\ f.next = 1
      /\ f.phase = (IF Observed(effect) THEN "before" ELSE "native")
      /\ f.allow = TRUE /\ f.denied = FALSE
      /\ f.unasked = {s \in Scripts : "before" \in handlers[s][effect]}
  BY DEF NewApply, FirstScript
<1> HIDE DEF f
<1>4. CASE Observed(effect)
  <2>1. \A s \in f.unasked : s >= f.next /\ "before" \in handlers[s][f.effect]
    BY <1>3, EffectAssumption DEF Scripts
  <2> QED
    BY <1>2, <1>3, <1>4, <2>1 DEF Asked, Frames, f
<1>5. CASE ~Observed(effect)
  <2>1. f.unasked = {}
    BY <1>3, <1>5 DEF Observed
  <2> QED
    BY <1>2, <1>3, <1>5, <2>1 DEF Asked, Frames, f
<1> QED
  BY <1>4, <1>5

\* The engine applies an effect, on its own or for the next target of apply_named.
LEMMA StartApplyKeeps ==
    ASSUME IInv, NEW effect \in Effects, StartApply(effect)
    PROVE  IInv'
<1>1. PICK f \in Frames : f = NewApply(effect) /\ f.kind = "apply" /\ Asked(f)
  BY NewApplyAsked DEF IInv
<1>2. UNCHANGED <<handlers, contexts, failed, heap>>
  BY DEF StartApply
<1>3. CASE stack' = <<f>> \o stack
  BY <1>1, <1>2, <1>3, QuietPush, QuietKeeps
<1>4. CASE /\ Running("named") /\ Top.left > 0
           /\ stack' = <<f, [Top EXCEPT !.left = @ - 1]>> \o Tail(stack)
  <2>1. stack # <<>> /\ Top.kind = "named"
    BY <1>4 DEF Running
  <2>2. Top \in NamedFrame
    BY <2>1, Innermost, KindOfFrame DEF IInv
  <2>3. [Top EXCEPT !.left = @ - 1] \in NamedFrame
    BY <1>4, <2>2, EffectAssumption DEF NamedFrame
  <2>4. PICK g \in Frames : g = [Top EXCEPT !.left = @ - 1] /\ g.kind = "named"
    BY <2>2, <2>3 DEF Frames, NamedFrame
  <2>5. Asked(g)
    BY <2>4 DEF Asked
  <2>6. stack' = <<f, g>> \o Tail(stack)
    BY <1>4, <2>4
  <2> QED
    BY <1>1, <1>2, <2>1, <2>4, <2>5, <2>6, QuietReplaceAndPush, QuietKeeps
<1> QED
  BY <1>1, <1>3, <1>4 DEF StartApply, Push

\* The innermost engine function returns.
LEMMA ReturnKeeps ==
    ASSUME IInv, Return
    PROVE  IInv'
<1>1. /\ stack # <<>> /\ Top.kind # "handler" /\ stack' = Tail(stack)
      /\ UNCHANGED <<handlers, contexts, failed, heap>>
  BY DEF Return, Running, InPhase, Pop
<1> QED
  BY <1>1, QuietPop, QuietKeeps

\* hooked_apply goes on by itself: it skips a script, or a phase is over.
LEMMA ApplyGoesOn ==
    ASSUME IInv, SkipScript \/ EndBefore \/ NativeReturns \/ EndAfter
    PROVE  IInv'
<1>1. /\ stack # <<>> /\ Top.kind = "apply"
      /\ UNCHANGED <<handlers, contexts, failed, heap>>
  BY DEF SkipScript, EndBefore, NativeReturns, EndAfter, InPhase, Running
<1>2. PICK t \in ApplyFrame : t = Top /\ Asked(t)
  <2>1. Top \in ApplyFrame /\ Top = Frame(Height) /\ Height \in 1..Height
    BY <1>1, Innermost, KindOfFrame DEF IInv
  <2> QED
    BY <2>1 DEF IInv, Veto
<1>3. t.kind = "apply" /\ t.next \in 1..NumScripts + 1 /\ t.unasked \subseteq Scripts
  BY DEF ApplyFrame
<1>4. ASSUME NEW f \in ApplyFrame, stack' = <<f>> \o Tail(stack), Asked(f)
      PROVE  IInv'
  <2>1. f \in Frames /\ f.kind = "apply"
    BY DEF Frames, ApplyFrame
  <2> QED
    BY <1>1, <1>4, <2>1, QuietReplace, QuietKeeps
<1>5. CASE SkipScript
  <2>1. /\ t.phase \in {"before", "after"} /\ t.next \in Scripts
        /\ (IF t.phase = "before" THEN "before" ELSE "after") \notin handlers[t.next][t.effect]
        /\ stack' = <<[t EXCEPT !.next = t.next + 1]>> \o Tail(stack)
    BY <1>2, <1>5 DEF SkipScript, InPhase, Running, AskPhase, Replace
  <2>2. [t EXCEPT !.next = t.next + 1] \in ApplyFrame
    BY <2>1, EffectAssumption DEF ApplyFrame, Scripts
  <2>3. PICK f \in ApplyFrame :
            /\ f = [t EXCEPT !.next = t.next + 1]
            /\ f.kind = t.kind /\ f.phase = t.phase /\ f.effect = t.effect
            /\ f.unasked = t.unasked /\ f.denied = t.denied /\ f.allow = t.allow
            /\ f.next = t.next + 1
    BY <2>2 DEF ApplyFrame
  <2>4. ASSUME t.phase = "before", NEW s \in t.unasked
        PROVE  s >= t.next + 1 /\ "before" \in handlers[s][t.effect]
    <3>1. s >= t.next /\ "before" \in handlers[s][t.effect]
      BY <1>2, <1>3, <2>4 DEF Asked
    <3>2. s # t.next
      BY <2>1, <2>4, <3>1
    <3> QED
      BY <1>3, <2>1, <3>1, <3>2, EffectAssumption DEF Scripts
  <2>5. Asked(f)
    BY <1>2, <1>3, <2>1, <2>3, <2>4 DEF Asked
  <2> QED
    BY <1>4, <2>1, <2>3, <2>5
<1>6. CASE EndBefore
  <2>1. /\ t.phase = "before" /\ t.next > NumScripts
        /\ stack' = <<[t EXCEPT !.phase = IF t.allow THEN "native" ELSE "cancelled"]>>
                      \o Tail(stack)
    BY <1>2, <1>6 DEF EndBefore, InPhase, Running, BeforeOver, Replace
  <2>2. [t EXCEPT !.phase = IF t.allow THEN "native" ELSE "cancelled"] \in ApplyFrame
    BY DEF ApplyFrame
  <2>3. PICK f \in ApplyFrame :
            /\ f = [t EXCEPT !.phase = IF t.allow THEN "native" ELSE "cancelled"]
            /\ f.kind = "apply" /\ f.phase = (IF t.allow THEN "native" ELSE "cancelled")
            /\ f.unasked = t.unasked /\ f.denied = t.denied
    BY <1>3, <2>2 DEF ApplyFrame
  <2>4. t.unasked = {}
    BY <1>2, <1>3, <2>1, EffectAssumption DEF Asked, Scripts
  <2>5. t.allow <=> ~t.denied
    BY <1>2, <1>3, <2>1 DEF Asked
  <2>6. Asked(f)
    BY <2>3, <2>4, <2>5 DEF Asked
  <2> QED
    BY <1>4, <2>1, <2>3, <2>6
<1>7. CASE NativeReturns
  <2>1. /\ t.phase = "native"
        /\ stack' = <<[t EXCEPT !.phase = IF t.observed THEN "after" ELSE "done",
                                !.next = 1]>> \o Tail(stack)
    BY <1>2, <1>7 DEF NativeReturns, InPhase, Running, FirstScript, Replace
  <2>2. 1 \in 1..NumScripts + 1
    BY EffectAssumption
  <2>3. [t EXCEPT !.phase = IF t.observed THEN "after" ELSE "done", !.next = 1] \in ApplyFrame
    BY <2>2 DEF ApplyFrame
  <2>4. PICK f \in ApplyFrame :
            /\ f = [t EXCEPT !.phase = IF t.observed THEN "after" ELSE "done", !.next = 1]
            /\ f.kind = "apply" /\ f.phase \in {"after", "done"}
            /\ f.unasked = t.unasked /\ f.denied = t.denied
    BY <1>3, <2>3 DEF ApplyFrame
  <2>5. Asked(f)
    BY <1>2, <1>3, <2>1, <2>4 DEF Asked
  <2> QED
    BY <1>4, <2>1, <2>4, <2>5
<1>8. CASE EndAfter
  <2>1. t.phase = "after" /\ stack' = <<[t EXCEPT !.phase = "done"]>> \o Tail(stack)
    BY <1>2, <1>8 DEF EndAfter, InPhase, Running, Replace
  <2>2. [t EXCEPT !.phase = "done"] \in ApplyFrame
    BY DEF ApplyFrame
  <2>3. PICK f \in ApplyFrame :
            /\ f = [t EXCEPT !.phase = "done"]
            /\ f.kind = "apply" /\ f.phase = "done"
            /\ f.unasked = t.unasked /\ f.denied = t.denied
    BY <1>3, <2>2 DEF ApplyFrame
  <2>4. Asked(f)
    BY <1>2, <1>3, <2>1, <2>3 DEF Asked
  <2> QED
    BY <1>4, <2>1, <2>3, <2>4
<1> QED
  BY <1>5, <1>6, <1>7, <1>8

-----------------------------------------------------------------------------
(* The handlers' steps.                                                      *)

\* invoke_effect_handler takes a free context for the handler it calls.
LEMMA InvokeKeeps ==
    ASSUME IInv, Invoke
    PROVE  IInv'
<1>1. Sound /\ stack # <<>> /\ Top.kind = "apply" /\ stack \in Seq(Frames)
  BY DEF Invoke, InPhase, Running, IInv, TypeOK, Frames
<1>2. PICK t \in ApplyFrame : t = Top /\ Asked(t) /\ t = Frame(Height)
  <2>1. Top \in ApplyFrame /\ Top = Frame(Height) /\ Height \in 1..Height
    BY <1>1, Innermost, KindOfFrame DEF IInv
  <2> QED
    BY <2>1 DEF IInv, Veto
<1>3. /\ t.phase \in {"before", "after"} /\ t.next \in Scripts
      /\ t.kind = "apply" /\ t.effect \in Effects /\ t.unasked \subseteq Scripts
      /\ UNCHANGED <<handlers, failed, heap>>
  BY <1>2 DEF Invoke, InPhase, Running, ApplyFrame
<1>4. AskPhase = t.phase
  BY <1>1, <1>2, <1>3 DEF AskPhase, InPhase, Running
<1>5. PICK c \in 1..MaxContexts :
          /\ contexts[c] = NoContext
          /\ \A n \in DOMAIN stack : stack[n].kind = "handler" => stack[n].ctx # c
          /\ contexts' = [contexts EXCEPT ![c] =
                            [script |-> t.next, active |-> TRUE, held |-> TRUE]]
          /\ stack' = <<[kind |-> "handler", script |-> t.next, effect |-> t.effect,
                         phase |-> t.phase, ctx |-> c],
                        [t EXCEPT !.next = t.next + 1,
                            !.unasked = IF t.phase = "before" THEN t.unasked \ {t.next}
                                        ELSE t.unasked]>> \o Tail(stack)
  <2>1. DOMAIN contexts = 1..MaxContexts
    BY DEF IInv, TypeOK
  <2> QED
    BY <1>2, <1>4, <2>1 DEF Invoke, Free
<1>6. PICK g \in Frames :
          /\ g = [kind |-> "handler", script |-> t.next, effect |-> t.effect,
                  phase |-> t.phase, ctx |-> c]
          /\ g.kind = "handler" /\ g.phase = t.phase /\ g.ctx = c
  <2>1. [kind |-> "handler", script |-> t.next, effect |-> t.effect,
         phase |-> t.phase, ctx |-> c] \in HandlerFrame
    BY <1>3 DEF HandlerFrame, Phases
  <2> QED
    BY <2>1 DEF Frames
<1>7. PICK f \in Frames :
          /\ f = [t EXCEPT !.next = t.next + 1,
                           !.unasked = IF t.phase = "before" THEN t.unasked \ {t.next}
                                       ELSE t.unasked]
          /\ f.kind = "apply" /\ f.phase = t.phase /\ f.effect = t.effect
          /\ f.next = t.next + 1 /\ f.denied = t.denied /\ f.allow = t.allow
          /\ f.unasked = (IF t.phase = "before" THEN t.unasked \ {t.next} ELSE t.unasked)
  <2>1. t.next + 1 \in 1..NumScripts + 1
    BY <1>3, EffectAssumption DEF Scripts
  <2>2. PICK u \in SUBSET Scripts :
            u = IF t.phase = "before" THEN t.unasked \ {t.next} ELSE t.unasked
    BY <1>3
  <2>3. [t EXCEPT !.next = t.next + 1, !.unasked = u] \in ApplyFrame
    BY <2>1 DEF ApplyFrame
  <2>4. PICK f \in ApplyFrame : f = [t EXCEPT !.next = t.next + 1, !.unasked = u]
    BY <2>3
  <2>5. /\ f.kind = "apply" /\ f.phase = t.phase /\ f.effect = t.effect
        /\ f.next = t.next + 1 /\ f.denied = t.denied /\ f.allow = t.allow
        /\ f.unasked = u
    BY <1>3, <2>4 DEF ApplyFrame
  <2> QED
    BY <2>2, <2>4, <2>5 DEF Frames
<1>8. /\ stack' \in Seq(Frames) /\ Height \in Nat /\ Height >= 1 /\ Height' = Height + 1
      /\ FromBottom(stack', Height) = f /\ FromBottom(stack', Height + 1) = g
      /\ \A d \in 1..Height : d # Height => Frame(d)' = Frame(d)
  <2>1. stack' = <<g, f>> \o Tail(stack)
    BY <1>5, <1>6, <1>7
  <2> QED
    BY <1>1, <2>1, ReplaceAndPushFrame DEF Height, Frame
<1>9. PICK n \in Nat, m \in Nat : n = Height /\ m = n + 1
  BY <1>8
<1>10. /\ Frame(n)' = f /\ Frame(m)' = g /\ Frame(n) = t
       /\ \A d \in 1..Height : d # n => Frame(d)' = Frame(d)
       /\ \A d \in 1..Height' : d = m \/ d = n \/ (d \in 1..Height /\ d < n)
       /\ \A d \in 1..Height : d \in 1..Height' /\ d <= n
       /\ n \in 1..Height /\ m \in 1..Height' /\ m - 1 = n /\ m > 1
  BY <1>2, <1>8, <1>9 DEF Frame
<1>11. TypeOK'
  <2>1. [script |-> t.next, active |-> TRUE, held |-> TRUE] \in Context
    BY <1>3 DEF Context
  <2>2. contexts' \in [1..MaxContexts -> Context \union {NoContext}]
    BY <1>5, <2>1 DEF IInv, TypeOK
  <2> QED
    BY <1>3, <1>8, <2>2 DEF IInv, TypeOK, Frames
<1>12. \A d \in 1..Height : \A b \in 1..MaxContexts : Runs(d, b) => d < n /\ b # c
  <2> SUFFICES ASSUME NEW d \in 1..Height, NEW b \in 1..MaxContexts, Runs(d, b)
               PROVE  d < n /\ b # c
    OBVIOUS
  <2>1. b # c
    <3>1. PICK k \in DOMAIN stack : stack[k] = Frame(d)
      BY <1>1, NumberFromTop
    <3> QED
      BY <1>5, <3>1 DEF Runs
  <2>2. d # n
    BY <1>3, <1>10 DEF Runs
  <2> QED
    BY <1>10, <2>1, <2>2
<1>13. \A d \in 1..Height' : \A b \in 1..MaxContexts :
           Runs(d, b)' <=> \/ d = m /\ b = c
                           \/ d \in 1..Height /\ Runs(d, b)
  <2> SUFFICES ASSUME NEW d \in 1..Height', NEW b \in 1..MaxContexts
               PROVE  Runs(d, b)' <=> \/ d = m /\ b = c
                                      \/ d \in 1..Height /\ Runs(d, b)
    OBVIOUS
  <2>1. CASE d = m
    BY <1>6, <1>8, <1>9, <1>10, <2>1 DEF Runs
  <2>2. CASE d = n
    <3>1. ~Runs(d, b)' /\ ~Runs(d, b)
      BY <1>3, <1>7, <1>10, <2>2 DEF Runs
    <3>2. d # m
      BY <1>9, <2>2
    <3> QED
      BY <3>1, <3>2
  <2>3. CASE d \in 1..Height /\ d < n
    BY <1>9, <1>10, <2>3 DEF Runs
  <2> QED
    BY <1>10, <2>1, <2>2, <2>3
<1>14. Active'
  <2>1. ASSUME NEW b \in 1..MaxContexts, contexts'[b] # NoContext
        PROVE  contexts'[b].active <=> \E d \in 1..Height' : Runs(d, b)'
    <3>1. CASE b = c
      <4>1. contexts'[b].active
        BY <1>5, <3>1 DEF IInv, TypeOK
      <4> QED
        BY <1>10, <1>13, <3>1, <4>1
    <3>2. CASE b # c
      <4>1. contexts'[b] = contexts[b]
        BY <1>5, <3>2 DEF IInv, TypeOK
      <4>2. (\E d \in 1..Height' : Runs(d, b)') <=> \E d \in 1..Height : Runs(d, b)
        BY <1>10, <1>13, <3>2
      <4> QED
        BY <2>1, <4>1, <4>2 DEF IInv, Active
    <3> QED
      BY <3>1, <3>2
  <2>2. \A d, e \in 1..Height' : \A b \in 1..MaxContexts : Runs(d, b)' /\ Runs(e, b)' => d = e
    BY <1>12, <1>13 DEF IInv, Active
  <2>3. ASSUME NEW d \in 1..Height', Frame(d)'.kind = "tick"
        PROVE  contexts'[Frame(d)'.ctx].active
    <3>1. d \in 1..Height /\ d < n
      BY <1>6, <1>7, <1>10, <2>3
    <3>2. Frame(d)' = Frame(d)
      BY <1>10, <3>1
    <3>3. contexts[Frame(d).ctx].active
      BY <2>3, <3>1, <3>2 DEF IInv, Active
    <3>4. Frame(d).ctx \in 1..MaxContexts
      BY <1>1, <2>3, <3>1, <3>2, ContextOfFrame
    <3> QED
      BY <1>5, <3>2, <3>3, <3>4 DEF IInv, TypeOK, NoContext
  <2> QED
    BY <2>1, <2>2, <2>3 DEF Active
<1>15. Links'
  <2> SUFFICES ASSUME NEW d \in 1..Height', Frame(d)'.kind = "handler"
               PROVE  d > 1 /\ Frame(d - 1)'.kind = "apply" /\ Frame(d - 1)'.phase = Frame(d)'.phase
    BY DEF Links
  <2>1. CASE d = m
    <3>1. d - 1 = n
      BY <1>10, <2>1
    <3> QED
      BY <1>6, <1>7, <1>10, <2>1, <3>1
  <2>2. CASE d = n
    BY <1>7, <1>10, <2>2
  <2>3. CASE d \in 1..Height /\ d < n
    <3>1. Frame(d)' = Frame(d)
      BY <1>10, <2>3
    <3>2. d > 1 /\ Frame(d - 1).kind = "apply" /\ Frame(d - 1).phase = Frame(d).phase
      BY <2>3, <3>1 DEF IInv, Links
    <3>3. d - 1 \in 1..Height /\ d - 1 # n
      BY <1>9, <2>3, <3>2
    <3>4. Frame(d - 1)' = Frame(d - 1)
      BY <1>10, <3>3
    <3> QED
      BY <3>1, <3>2, <3>4
  <2> QED
    BY <1>10, <2>1, <2>2, <2>3
<1>16. Ticks'
  <2> SUFFICES ASSUME NEW d \in 1..Height', Frame(d)'.kind = "tick"
               PROVE  \E e \in 1..Height' : e < d /\ Runs(e, Frame(d).ctx)'
    BY DEF Ticks
  <2>1. d \in 1..Height /\ d < n
    BY <1>6, <1>7, <1>10
  <2>2. Frame(d)' = Frame(d)
    BY <1>10, <2>1
  <2>3. PICK e \in 1..Height : e < d /\ Runs(e, Frame(d).ctx)
    BY <2>1, <2>2 DEF IInv, Ticks
  <2>4. e \in 1..Height' /\ Frame(e)' = Frame(e)
    BY <1>9, <1>10, <2>1, <2>3
  <2> QED
    BY <2>2, <2>3, <2>4 DEF Runs
<1>17. Asked(f)
  <2>1. ASSUME t.phase = "before", NEW s \in t.unasked \ {t.next}
        PROVE  s >= t.next + 1 /\ "before" \in handlers[s][t.effect]
    <3>1. s >= t.next /\ "before" \in handlers[s][t.effect] /\ s # t.next
      BY <1>2, <1>3, <2>1 DEF Asked
    <3> QED
      BY <1>3, <3>1, EffectAssumption DEF Scripts
  <2> QED
    BY <1>2, <1>3, <1>7, <2>1 DEF Asked
<1>18. Veto'
  <2> SUFFICES ASSUME NEW d \in 1..Height'
               PROVE  Asked(Frame(d))'
    BY DEF Veto
  <2>1. CASE d = m
    BY <1>6, <1>10, <2>1 DEF Asked
  <2>2. CASE d = n
    BY <1>3, <1>10, <1>17, <2>2, AskedStays
  <2>3. CASE d \in 1..Height /\ d < n
    BY <1>3, <1>10, <2>3 DEF IInv, Veto, Asked
  <2> QED
    BY <1>10, <2>1, <2>2, <2>3
<1> QED
  BY <1>11, <1>14, <1>15, <1>16, <1>18 DEF IInv

\* A handler uses its active context to have a DoT tick now.
LEMMA TriggerDotKeeps ==
    ASSUME IInv, NEW c \in 1..MaxContexts, TriggerDot(c)
    PROVE  IInv'
<1>1. UNCHANGED <<handlers, contexts, failed, heap>> /\ contexts[c].active /\ stack \in Seq(Frames)
  BY DEF TriggerDot, RefUsable, IInv, TypeOK, Frames
<1>2. PICK g \in Frames : /\ stack' = <<g>> \o stack
                          /\ g.kind = "tick" /\ g.ctx = c
  <2>1. [kind |-> "tick", ctx |-> c] \in Frames
    BY DEF Frames, TickFrame
  <2> QED
    BY <2>1 DEF TriggerDot, Push
<1>3. /\ stack' \in Seq(Frames) /\ Height \in Nat /\ Height' = Height + 1
      /\ FromBottom(stack', Height + 1) = g
      /\ \A d \in 1..Height : Frame(d)' = Frame(d)
  BY <1>1, <1>2, PushFrame DEF Height, Frame
<1>4. PICK m \in Nat : m = Height + 1
  BY <1>3
<1>5. /\ Frame(m)' = g
      /\ \A d \in 1..Height' : d = m \/ d \in 1..Height
      /\ \A d \in 1..Height : d \in 1..Height' /\ d < m
  BY <1>3, <1>4 DEF Frame
<1>6. TypeOK'
  BY <1>1, <1>3 DEF IInv, TypeOK, Frames
<1>7. \A d \in 1..Height' : \A b : Runs(d, b)' <=> d \in 1..Height /\ Runs(d, b)
  BY <1>2, <1>3, <1>4, <1>5 DEF Runs
<1>8. Active'
  <2>1. \A d \in 1..Height' : Frame(d)'.kind = "tick" => contexts[Frame(d)'.ctx].active
    BY <1>1, <1>2, <1>3, <1>5 DEF IInv, Active
  <2>2. \A b \in 1..MaxContexts :
            (\E d \in 1..Height' : Runs(d, b)') <=> \E d \in 1..Height : Runs(d, b)
    BY <1>5, <1>7
  <2>3. \A d, e \in 1..Height' : \A b \in 1..MaxContexts : Runs(d, b)' /\ Runs(e, b)' => d = e
    BY <1>7 DEF IInv, Active
  <2> QED
    BY <1>1, <2>1, <2>2, <2>3 DEF IInv, Active
<1>9. Links'
  <2> SUFFICES ASSUME NEW d \in 1..Height', Frame(d)'.kind = "handler"
               PROVE  d > 1 /\ Frame(d - 1)'.kind = "apply" /\ Frame(d - 1)'.phase = Frame(d)'.phase
    BY DEF Links
  <2>1. d \in 1..Height /\ Frame(d)' = Frame(d)
    BY <1>2, <1>3, <1>5
  <2>2. d > 1 /\ Frame(d - 1).kind = "apply" /\ Frame(d - 1).phase = Frame(d).phase
    BY <2>1 DEF IInv, Links
  <2>3. d - 1 \in 1..Height
    BY <1>3, <2>1, <2>2
  <2> QED
    BY <1>3, <2>1, <2>2, <2>3
<1>10. Ticks'
  <2> SUFFICES ASSUME NEW d \in 1..Height', Frame(d)'.kind = "tick"
               PROVE  \E e \in 1..Height' : e < d /\ Runs(e, Frame(d).ctx)'
    BY DEF Ticks
  <2>1. CASE d = m
    <3>1. PICK e \in 1..Height : Runs(e, c)
      BY <1>1 DEF IInv, Active, NoContext
    <3> QED
      BY <1>2, <1>5, <1>7, <2>1, <3>1
  <2>2. CASE d \in 1..Height
    <3>1. Frame(d)' = Frame(d)
      BY <1>3, <2>2
    <3>2. PICK e \in 1..Height : e < d /\ Runs(e, Frame(d).ctx)
      BY <2>2, <3>1 DEF IInv, Ticks
    <3> QED
      BY <1>5, <1>7, <3>1, <3>2
  <2> QED
    BY <1>5, <2>1, <2>2
<1>11. Veto'
  <2> SUFFICES ASSUME NEW d \in 1..Height'
               PROVE  Asked(Frame(d))'
    BY DEF Veto
  <2>1. CASE d = m
    BY <1>2, <1>5, <2>1 DEF Asked
  <2>2. CASE d \in 1..Height
    BY <1>1, <1>3, <2>2 DEF IInv, Veto, Asked
  <2> QED
    BY <1>5, <2>1, <2>2
<1> QED
  BY <1>6, <1>8, <1>9, <1>10, <1>11 DEF IInv

\* The handler returns: its context is dead, a failure disables it, and its answer
\* counts for the apply below.
LEMMA EndHandlerKeeps ==
    ASSUME IInv, NEW answer \in Answers, EndHandler(answer)
    PROVE  IInv'
<1>1. /\ stack # <<>> /\ Top.kind = "handler" /\ stack \in Seq(Frames)
      /\ UNCHANGED handlers
  BY DEF EndHandler, Running, IInv, TypeOK, Frames
<1>2. /\ Height \in Nat /\ Height >= 1 /\ Height \in 1..Height
      /\ Top = Frame(Height) /\ Top \in HandlerFrame
  BY <1>1, Innermost, KindOfFrame DEF IInv
<1>3. PICK h \in HandlerFrame : h = Top /\ h.kind = "handler"
  BY <1>1, <1>2
<1>4. PICK n \in Nat, m \in Nat : m = Height /\ n = Height - 1 /\ m > 1
  <2>1. Height > 1
    BY <1>1, <1>2 DEF IInv, Links
  <2> QED
    BY <1>2, <2>1
<1>5. PICK a \in ApplyFrame : /\ a = stack[2] /\ a = Frame(n) /\ Asked(a)
                              /\ a.phase = h.phase /\ a.kind = "apply"
  <2>1. n \in 1..Height /\ n = Height - 1
    BY <1>4
  <2>2. Frame(n).kind = "apply" /\ Frame(n).phase = h.phase
    BY <1>1, <1>2, <1>3, <2>1 DEF IInv, Links
  <2>3. Frame(n) \in ApplyFrame /\ Asked(Frame(n))
    <3>1. Frame(n) \in Frames
      BY <1>1, <2>1, NumberedFrames DEF Frame, Height
    <3> QED
      BY <2>1, <2>2, <3>1, KindOfFrame DEF IInv, Veto
  <2>4. Frame(n) = stack[2]
    <3>1. Height + 1 - n = 2
      BY <1>2, <1>4
    <3> QED
      BY <3>1 DEF Frame, FromBottom, Height
  <2> QED
    BY <2>2, <2>3, <2>4
<1>6. PICK allow \in BOOLEAN, denied \in BOOLEAN :
          /\ allow = (a.allow /\ (h.phase = "before" => Allows(answer)))
          /\ denied = (a.denied \/ (h.phase = "before" /\ answer = "false"))
          /\ stack' = <<[a EXCEPT !.allow = allow, !.denied = denied]>> \o Tail(Tail(stack))
  BY <1>3, <1>5 DEF EndHandler
<1>7. PICK f \in ApplyFrame :
          /\ f = [a EXCEPT !.allow = allow, !.denied = denied]
          /\ f.kind = "apply" /\ f.phase = a.phase /\ f.effect = a.effect
          /\ f.next = a.next /\ f.unasked = a.unasked
          /\ f.allow = allow /\ f.denied = denied
  <2>1. [a EXCEPT !.allow = allow, !.denied = denied] \in ApplyFrame
    BY DEF ApplyFrame
  <2> QED
    BY <1>5, <2>1 DEF ApplyFrame
<1>8. Asked(f)
  <2>1. a.phase \in {"before", "after"}
    BY <1>3, <1>5 DEF HandlerFrame, Phases
  <2>2. CASE a.phase = "before"
    <3>1. a.allow <=> ~a.denied
      BY <1>5, <2>2 DEF Asked
    <3>2. f.allow <=> ~f.denied
      BY <1>5, <1>6, <1>7, <2>2, <3>1 DEF Allows
    <3>3. \A s \in f.unasked : s >= f.next /\ "before" \in handlers[s][f.effect]
      BY <1>5, <1>7, <2>2 DEF Asked
    <3> QED
      BY <1>7, <2>2, <3>2, <3>3 DEF Asked
  <2>3. CASE a.phase = "after"
    <3>1. a.unasked = {} /\ ~a.denied
      BY <1>5, <2>3 DEF Asked
    <3>2. ~f.denied
      BY <1>5, <1>6, <1>7, <2>3, <3>1
    <3> QED
      BY <1>7, <2>3, <3>1, <3>2 DEF Asked
  <2> QED
    BY <2>1, <2>2, <2>3
<1>9. /\ stack' \in Seq(Frames) /\ Height' = n /\ n \in Nat /\ n >= 1
      /\ FromBottom(stack', n) = f
      /\ \A d \in 1..n : d # n => Frame(d)' = Frame(d)
  <2>1. PICK r \in Seq(Frames) : /\ r = Tail(stack) /\ Len(r) = n /\ n >= 1
                                 /\ \A d \in 1..n : FromBottom(r, d) = Frame(d)
    <3>1. /\ Tail(stack) \in Seq(Frames) /\ Len(Tail(stack)) = Len(stack) - 1
          /\ \A d \in 1..Len(Tail(stack)) : FromBottom(Tail(stack), d) = FromBottom(stack, d)
      BY <1>1, PopFrame
    <3>2. Len(stack) - 1 = n /\ n >= 1
      BY <1>2, <1>4 DEF Height
    <3> QED
      BY <3>1, <3>2 DEF Frame
  <2>2. r # <<>> /\ f \in Frames
    <3>1. r \in Seq(Frames) /\ Len(r) # 0
      BY <2>1
    <3>2. r # <<>>
      BY <3>1, EmptySeq
    <3>3. f \in Frames
      BY DEF Frames
    <3> QED
      BY <3>2, <3>3
  <2>3. stack' = <<f>> \o Tail(r)
    BY <1>6, <1>7, <2>1
  <2>4. /\ stack' \in Seq(Frames) /\ Len(stack') = n
        /\ FromBottom(stack', n) = f
        /\ \A d \in 1..n : d # n => FromBottom(stack', d) = FromBottom(r, d)
    <3>1. r \in Seq(Frames) /\ Len(r) = n
      BY <2>1
    <3>2. /\ (<<f>> \o Tail(r)) \in Seq(Frames) /\ Len(<<f>> \o Tail(r)) = Len(r)
          /\ FromBottom(<<f>> \o Tail(r), Len(r)) = f
          /\ \A d \in 1..Len(r) : d # Len(r) =>
                FromBottom(<<f>> \o Tail(r), d) = FromBottom(r, d)
      BY <2>2, <3>1, ReplaceFrame
    <3> QED
      BY <2>3, <3>1, <3>2
  <2> QED
    BY <2>1, <2>4 DEF Height, Frame
<1>10. /\ Frame(n)' = f /\ Frame(m) = h
       /\ \A d \in 1..Height' : d \in 1..Height /\ d # m /\ (d = n \/ d < n)
       /\ \A d \in 1..Height : d = m \/ d \in 1..Height'
       /\ \A d \in 1..Height' : d < n => Frame(d)' = Frame(d)
       /\ n \in 1..Height' /\ m \in 1..Height
  BY <1>2, <1>3, <1>4, <1>9 DEF Frame
<1>11. PICK c \in 1..MaxContexts :
           /\ c = h.ctx
           /\ \/ contexts[c] # NoContext /\ contexts' = [contexts EXCEPT ![c].active = FALSE]
              \/ contexts[c] = NoContext /\ UNCHANGED contexts
  BY <1>3 DEF EndHandler, ActiveAfter, HandlerFrame
<1>12. Runs(m, c)
  BY <1>3, <1>10, <1>11 DEF Runs
<1>13. \A d \in 1..Height : Runs(d, c) => d = m
  BY <1>10, <1>12 DEF IInv, Active
<1>15. /\ contexts' \in [1..MaxContexts -> Context \union {NoContext}]
       /\ ~contexts'[c].active
       /\ \A b \in 1..MaxContexts : b # c => contexts'[b] = contexts[b]
  <2>1. CASE contexts[c] # NoContext
    <3>1. contexts[c] \in Context
      BY <2>1 DEF IInv, TypeOK
    <3>2. [contexts[c] EXCEPT !.active = FALSE] \in Context
      BY <3>1 DEF Context
    <3>3. contexts' = [contexts EXCEPT ![c] = [contexts[c] EXCEPT !.active = FALSE]]
      BY <1>11, <2>1 DEF IInv, TypeOK
    <3>4. ~[contexts[c] EXCEPT !.active = FALSE].active
      BY <3>1 DEF Context
    <3> QED
      BY <3>2, <3>3, <3>4 DEF IInv, TypeOK
  <2>2. CASE contexts[c] = NoContext
    BY <1>11, <2>2 DEF IInv, TypeOK, NoContext
  <2> QED
    BY <2>1, <2>2
<1>16. TypeOK'
  <2>1. failed' \subseteq Scripts \X Effects \X Phases
    <3>1. <<h.script, h.effect, h.phase>> \in Scripts \X Effects \X Phases
      BY DEF HandlerFrame
    <3>2. failed' \in {failed, failed \union {<<h.script, h.effect, h.phase>>}}
      BY <1>3 DEF EndHandler
    <3> QED
      BY <3>1, <3>2 DEF IInv, TypeOK
  <2>2. heap' \in {"sound", "overwritten"}
    BY DEF EndHandler, IInv, TypeOK
  <2> QED
    BY <1>1, <1>9, <1>15, <2>1, <2>2 DEF IInv, TypeOK, Frames
<1>17. \A d \in 1..Height' : \A b \in 1..MaxContexts : Runs(d, b)' <=> Runs(d, b)
  <2> SUFFICES ASSUME NEW d \in 1..Height', NEW b \in 1..MaxContexts
               PROVE  Runs(d, b)' <=> Runs(d, b)
    OBVIOUS
  <2>1. CASE d = n
    BY <1>5, <1>7, <1>10, <2>1 DEF Runs
  <2>2. CASE d < n
    BY <1>10, <2>2 DEF Runs
  <2> QED
    BY <1>10, <2>1, <2>2
<1>18. Active'
  <2>1. ASSUME NEW b \in 1..MaxContexts, contexts'[b] # NoContext
        PROVE  contexts'[b].active <=> \E d \in 1..Height' : Runs(d, b)'
    <3>1. CASE b = c
      <4>1. \A d \in 1..Height' : ~Runs(d, c)
        BY <1>10, <1>13
      <4> QED
        BY <1>15, <1>17, <3>1, <4>1
    <3>2. CASE b # c
      <4>1. ~Runs(m, b)
        BY <1>10, <1>11, <3>2 DEF Runs
      <4>2. (\E d \in 1..Height' : Runs(d, b)') <=> \E d \in 1..Height : Runs(d, b)
        BY <1>10, <1>17, <4>1
      <4> QED
        BY <1>15, <2>1, <3>2, <4>2 DEF IInv, Active
    <3> QED
      BY <3>1, <3>2
  <2>2. \A d, e \in 1..Height' : \A b \in 1..MaxContexts : Runs(d, b)' /\ Runs(e, b)' => d = e
    BY <1>10, <1>17 DEF IInv, Active
  <2>3. ASSUME NEW d \in 1..Height', Frame(d)'.kind = "tick"
        PROVE  contexts'[Frame(d)'.ctx].active
    <3>1. d < n /\ d \in 1..Height /\ Frame(d)' = Frame(d)
      BY <1>7, <1>10, <2>3
    <3>2. PICK e \in 1..Height : e < d /\ Runs(e, Frame(d).ctx)
      BY <2>3, <3>1 DEF IInv, Ticks
    <3>3. Frame(d).ctx \in 1..MaxContexts
      BY <1>1, <2>3, <3>1, ContextOfFrame
    <3>4. Frame(d).ctx # c
      BY <1>4, <1>10, <1>13, <3>1, <3>2
    <3>5. contexts[Frame(d).ctx].active
      BY <2>3, <3>1 DEF IInv, Active
    <3> QED
      BY <1>15, <3>1, <3>3, <3>4, <3>5
  <2> QED
    BY <2>1, <2>2, <2>3 DEF Active
<1>19. Links'
  <2> SUFFICES ASSUME NEW d \in 1..Height', Frame(d)'.kind = "handler"
               PROVE  d > 1 /\ Frame(d - 1)'.kind = "apply" /\ Frame(d - 1)'.phase = Frame(d)'.phase
    BY DEF Links
  <2>1. d < n /\ d \in 1..Height /\ Frame(d)' = Frame(d)
    BY <1>7, <1>10
  <2>2. d > 1 /\ Frame(d - 1).kind = "apply" /\ Frame(d - 1).phase = Frame(d).phase
    BY <2>1 DEF IInv, Links
  <2>3. d - 1 \in 1..Height' /\ d - 1 < n
    BY <1>9, <2>1, <2>2
  <2> QED
    BY <1>10, <2>1, <2>2, <2>3
<1>20. Ticks'
  <2> SUFFICES ASSUME NEW d \in 1..Height', Frame(d)'.kind = "tick"
               PROVE  \E e \in 1..Height' : e < d /\ Runs(e, Frame(d).ctx)'
    BY DEF Ticks
  <2>1. d < n /\ d \in 1..Height /\ Frame(d)' = Frame(d)
    BY <1>7, <1>10
  <2>2. PICK e \in 1..Height : e < d /\ Runs(e, Frame(d).ctx)
    BY <2>1 DEF IInv, Ticks
  <2>3. e \in 1..Height' /\ e < n
    BY <1>9, <2>1, <2>2
  <2>4. Frame(e)' = Frame(e)
    BY <1>10, <2>3
  <2> QED
    BY <2>1, <2>2, <2>3, <2>4 DEF Runs
<1>21. Veto'
  <2> SUFFICES ASSUME NEW d \in 1..Height'
               PROVE  Asked(Frame(d))'
    BY DEF Veto
  <2>1. CASE d = n
    BY <1>1, <1>8, <1>10, <2>1, AskedStays
  <2>2. CASE d < n
    BY <1>1, <1>10, <2>2 DEF IInv, Veto, Asked
  <2> QED
    BY <1>10, <2>1, <2>2
<1> QED
  BY <1>16, <1>18, <1>19, <1>20, <1>21 DEF IInv

\* A handler that replaces its table excuses its script, in every hooked_apply
\* of the effect that is in progress.
LEMMA RegisterKeeps ==
    ASSUME IInv, NEW effect \in Effects, NEW phases \in SUBSET Phases,
           Register(effect, phases)
    PROVE  IInv'
<1>1. /\ stack # <<>> /\ Top.kind = "handler" /\ stack \in Seq(Frames)
      /\ UNCHANGED <<contexts, heap>>
  BY DEF Register, Running, IInv, TypeOK, Frames
<1>2. PICK script \in Scripts : script = Top.script
  BY <1>1, Innermost, KindOfFrame DEF IInv, HandlerFrame
<1> DEFINE Excused(f) == IF f.kind = "apply" /\ f.effect = effect
                           THEN [f EXCEPT !.unasked = @ \ {script}]
                           ELSE f
<1>3. /\ handlers' = [handlers EXCEPT ![script][effect] = phases]
      /\ stack' = [n \in DOMAIN stack |-> Excused(stack[n])]
      /\ failed' = {f \in failed : ~(f[1] = script /\ f[2] = effect)}
  BY <1>2 DEF Register
<1>4. ASSUME NEW f \in Frames
      PROVE  /\ Excused(f) \in Frames
             /\ Excused(f).kind = f.kind
             /\ f.kind \in {"apply", "handler"} => Excused(f).phase = f.phase
             /\ f.kind \in {"tick", "handler"} => Excused(f).ctx = f.ctx
             /\ Asked(f) => Asked(Excused(f))'
  <2>1. CASE f.kind = "apply" /\ f.effect = effect
    <3>1. f \in ApplyFrame
      BY <2>1, KindOfFrame
    <3>2. PICK g \in ApplyFrame :
              /\ g = [f EXCEPT !.unasked = f.unasked \ {script}]
              /\ g.kind = f.kind /\ g.phase = f.phase /\ g.effect = f.effect
              /\ g.next = f.next /\ g.allow = f.allow /\ g.denied = f.denied
              /\ g.unasked = f.unasked \ {script}
      <4>1. [f EXCEPT !.unasked = f.unasked \ {script}] \in ApplyFrame
        BY <3>1 DEF ApplyFrame
      <4>2. PICK g \in ApplyFrame : g = [f EXCEPT !.unasked = f.unasked \ {script}]
        BY <4>1
      <4>3. /\ g.kind = f.kind /\ g.phase = f.phase /\ g.effect = f.effect
            /\ g.next = f.next /\ g.allow = f.allow /\ g.denied = f.denied
            /\ g.unasked = f.unasked \ {script}
        BY <3>1, <4>2 DEF ApplyFrame
      <4> QED
        BY <4>2, <4>3
    <3>3. Excused(f) = g
      BY <2>1, <3>2
    <3>4. \A s \in f.unasked \ {script} : handlers'[s][f.effect] = handlers[s][f.effect]
      BY <1>3, <3>1 DEF IInv, TypeOK, ApplyFrame
    <3>5. Asked(f) => Asked(g)'
      BY <3>2, <3>4 DEF Asked
    <3> QED
      BY <2>1, <3>2, <3>3, <3>5 DEF Frames
  <2>2. CASE ~(f.kind = "apply" /\ f.effect = effect)
    <3>1. Excused(f) = f
      BY <2>2
    <3>2. f.kind = "apply" => \A s \in f.unasked : handlers'[s][f.effect] = handlers[s][f.effect]
      BY <1>3, <2>2, KindOfFrame DEF IInv, TypeOK, ApplyFrame
    <3>3. Asked(f) => Asked(f)'
      BY <3>2 DEF Asked
    <3> QED
      BY <3>1, <3>3
  <2> QED
    BY <2>1, <2>2
<1> HIDE DEF Excused
<1>5. /\ DOMAIN stack = 1..Height /\ Height \in Nat
      /\ \A n \in 1..Height : stack[n] \in Frames
  BY <1>1, NumberedFrames, LenProperties DEF Height
<1>6. stack' \in Seq(Frames) /\ Height' = Height
  <2>1. stack' \in [1..Height -> Frames]
    BY <1>3, <1>4, <1>5
  <2>2. stack' \in Seq(Frames)
    BY <1>5, <2>1, SeqDef
  <2>3. DOMAIN stack' = 1..Height /\ DOMAIN stack' = 1..Len(stack') /\ Len(stack') \in Nat
    BY <2>1, <2>2, LenProperties
  <2> QED
    BY <1>5, <2>2, <2>3 DEF Height
<1>7. \A d \in 1..Height : Frame(d) \in Frames /\ Frame(d)' = Excused(Frame(d))
  <2> SUFFICES ASSUME NEW d \in 1..Height
               PROVE  Frame(d) \in Frames /\ Frame(d)' = Excused(Frame(d))
    OBVIOUS
  <2>1. Height + 1 - d \in 1..Height
    BY <1>5
  <2>2. Frame(d) = stack[Height + 1 - d] /\ Frame(d)' = stack'[Height + 1 - d]
    BY <1>6 DEF Frame, FromBottom, Height
  <2> QED
    BY <1>3, <1>5, <2>1, <2>2
<1>8. \A d \in 1..Height :
          /\ Frame(d)'.kind = Frame(d).kind
          /\ Frame(d).kind \in {"apply", "handler"} => Frame(d)'.phase = Frame(d).phase
          /\ Frame(d).kind \in {"tick", "handler"} => Frame(d)'.ctx = Frame(d).ctx
          /\ Asked(Frame(d)) => Asked(Frame(d))'
          /\ \A c : Runs(d, c)' <=> Runs(d, c)
  <2> SUFFICES ASSUME NEW d \in 1..Height
               PROVE  /\ Frame(d)'.kind = Frame(d).kind
                      /\ Frame(d).kind \in {"apply", "handler"} => Frame(d)'.phase = Frame(d).phase
                      /\ Frame(d).kind \in {"tick", "handler"} => Frame(d)'.ctx = Frame(d).ctx
                      /\ Asked(Frame(d)) => Asked(Frame(d))'
                      /\ \A c : Runs(d, c)' <=> Runs(d, c)
    BY <1>7
  <2>1. PICK f \in Frames : f = Frame(d)
    BY <1>7
  <2>2. Frame(d)' = Excused(f)
    BY <1>7, <2>1
  <2>3. /\ Frame(d)'.kind = Frame(d).kind
        /\ Frame(d).kind \in {"apply", "handler"} => Frame(d)'.phase = Frame(d).phase
        /\ Frame(d).kind \in {"tick", "handler"} => Frame(d)'.ctx = Frame(d).ctx
    BY <1>4, <2>1, <2>2
  <2>4. Asked(f) => Asked(Frame(d))'
    BY <1>4, <2>2 DEF Asked
  <2>5. Asked(Frame(d)) => Asked(f)
    BY <2>1
  <2> QED
    BY <2>3, <2>4, <2>5 DEF Runs
<1>9. TypeOK'
  <2>1. handlers' \in [Scripts -> [Effects -> SUBSET Phases]]
    BY <1>3 DEF IInv, TypeOK
  <2>2. failed' \subseteq Scripts \X Effects \X Phases
    BY <1>3 DEF IInv, TypeOK
  <2> QED
    BY <1>1, <1>6, <2>1, <2>2 DEF IInv, TypeOK, Frames
<1>10. Active'
  <2>1. \A d \in 1..Height : Frame(d)'.kind = "tick" => contexts[Frame(d)'.ctx].active
    BY <1>8 DEF IInv, Active
  <2>2. \A b : (\E d \in 1..Height : Runs(d, b)') <=> \E d \in 1..Height : Runs(d, b)
    BY <1>8
  <2>3. \A d, e \in 1..Height : \A b \in 1..MaxContexts : Runs(d, b)' /\ Runs(e, b)' => d = e
    BY <1>8 DEF IInv, Active
  <2> QED
    BY <1>1, <1>6, <2>1, <2>2, <2>3 DEF IInv, Active
<1>11. Links'
  <2> SUFFICES ASSUME NEW d \in 1..Height, Frame(d)'.kind = "handler"
               PROVE  d > 1 /\ Frame(d - 1)'.kind = "apply" /\ Frame(d - 1)'.phase = Frame(d)'.phase
    BY <1>6 DEF Links
  <2>1. d > 1 /\ Frame(d - 1).kind = "apply" /\ Frame(d - 1).phase = Frame(d).phase
    BY <1>8 DEF IInv, Links
  <2>2. d - 1 \in 1..Height
    BY <1>5, <2>1
  <2> QED
    BY <1>8, <2>1, <2>2
<1>12. Ticks'
  <2> SUFFICES ASSUME NEW d \in 1..Height, Frame(d)'.kind = "tick"
               PROVE  \E e \in 1..Height : e < d /\ Runs(e, Frame(d).ctx)'
    BY <1>6 DEF Ticks
  <2>1. Frame(d).kind = "tick" /\ Frame(d)'.ctx = Frame(d).ctx
    BY <1>8
  <2>2. PICK e \in 1..Height : e < d /\ Runs(e, Frame(d).ctx)
    BY <2>1 DEF IInv, Ticks
  <2> QED
    BY <1>8, <2>1, <2>2 DEF Runs
<1>13. Veto'
  <2> SUFFICES ASSUME NEW d \in 1..Height
               PROVE  Asked(Frame(d))'
    BY <1>6 DEF Veto
  <2> QED
    BY <1>7, <1>8 DEF IInv, Veto
<1> QED
  BY <1>9, <1>10, <1>11, <1>12, <1>13 DEF IInv

\* What Lua does with contexts: the last reference to one goes, one that nothing
\* refers to is collected. A collected one has no tick in progress.
LEMMA LuaKeeps ==
    ASSUME IInv, NEW c \in 1..MaxContexts, LetGo(c) \/ Collect(c)
    PROVE  IInv'
<1>1. UNCHANGED <<handlers, stack, failed, heap>>
  BY DEF LetGo, Collect
<1>2. UNCHANGED <<Height>> /\ \A d : Frame(d)' = Frame(d)
  BY <1>1 DEF Height, Frame
<1>3. /\ contexts' \in [1..MaxContexts -> Context \union {NoContext}]
      /\ \A b \in 1..MaxContexts :
            \/ contexts'[b] = NoContext /\ b = c /\ Collect(c)
            \/ /\ contexts[b] = NoContext => contexts'[b] = NoContext
               /\ contexts'[b].active <=> contexts[b].active
  <2>1. CASE LetGo(c)
    <3>1. contexts[c] \in Context
      BY <2>1 DEF LetGo, NoContext, IInv, TypeOK
    <3>2. PICK new \in Context : new = [contexts[c] EXCEPT !.held = FALSE]
      BY <3>1 DEF Context
    <3>3. new.active <=> contexts[c].active
      BY <3>1, <3>2 DEF Context
    <3>4. contexts' = [contexts EXCEPT ![c] = new]
      BY <2>1, <3>2 DEF LetGo, IInv, TypeOK
    <3>5. contexts[c] # NoContext
      BY <2>1 DEF LetGo, NoContext
    <3> QED
      BY <3>3, <3>4, <3>5 DEF IInv, TypeOK
  <2>2. CASE Collect(c)
    BY <2>2 DEF Collect, IInv, TypeOK
  <2> QED
    BY <2>1, <2>2
<1>4. TypeOK'
  BY <1>1, <1>3 DEF IInv, TypeOK
<1>5. \A d, b : Runs(d, b)' <=> Runs(d, b)
  BY <1>2 DEF Runs
<1>6. \A d \in 1..Height : Frame(d).kind = "tick" => contexts'[Frame(d).ctx].active
  <2> SUFFICES ASSUME NEW d \in 1..Height, Frame(d).kind = "tick"
               PROVE  contexts'[Frame(d).ctx].active
    OBVIOUS
  <2>1. stack \in Seq(Frames)
    BY DEF IInv, TypeOK, Frames
  <2>2. PICK b \in 1..MaxContexts : b = Frame(d).ctx
    BY <2>1, ContextOfFrame
  <2>3. contexts[b].active
    BY <2>2 DEF IInv, Active
  <2>4. ~(b = c /\ Collect(c))
    <3>1. PICK n \in DOMAIN stack : stack[n] = Frame(d)
      BY <2>1, NumberFromTop
    <3> QED
      BY <2>2, <3>1 DEF Collect
  <2> QED
    BY <1>3, <2>2, <2>3, <2>4
<1>7. Active'
  <2>1. ASSUME NEW b \in 1..MaxContexts, contexts'[b] # NoContext
        PROVE  contexts'[b].active <=> \E d \in 1..Height : Runs(d, b)
    BY <1>3, <2>1 DEF IInv, Active
  <2> QED
    BY <1>2, <1>5, <1>6, <2>1 DEF IInv, Active
<1>8. Links' /\ Ticks' /\ Veto'
  BY <1>1, <1>2, <1>5 DEF IInv, Links, Ticks, Veto, Asked
<1> QED
  BY <1>4, <1>7, <1>8 DEF IInv

\* A reload, with no frame on the stack, replaces the handlers of its script.
LEMMA ReloadKeeps ==
    ASSUME IInv, NEW s \in Scripts, Reload(s)
    PROVE  IInv'
<1>1. /\ stack = <<>> /\ UNCHANGED <<stack, heap>>
      /\ contexts' = [c \in DOMAIN contexts |->
                        IF contexts[c].script = s THEN NoContext ELSE contexts[c]]
      /\ failed' = {f \in failed : f[1] # s}
  BY DEF Reload
<1>2. PICK table \in [Effects -> SUBSET Phases] : handlers' = [handlers EXCEPT ![s] = table]
  BY DEF Reload
<1>3. TypeOK'
  <2>1. handlers' \in [Scripts -> [Effects -> SUBSET Phases]] /\ failed' \subseteq failed
    BY <1>1, <1>2 DEF IInv, TypeOK
  <2>2. contexts' \in [1..MaxContexts -> Context \union {NoContext}]
    BY <1>1 DEF IInv, TypeOK
  <2> QED
    BY <1>1, <2>1, <2>2 DEF IInv, TypeOK
<1>4. Height = 0 /\ Height' = 0
  BY <1>1 DEF Height
<1>5. ASSUME NEW c \in 1..MaxContexts PROVE ~contexts'[c].active
  <2>1. ~contexts[c].active
    BY <1>4 DEF IInv, Active, NoContext
  <2>2. contexts'[c] \in {contexts[c], NoContext}
    BY <1>1 DEF IInv, TypeOK
  <2> QED
    BY <2>1, <2>2 DEF NoContext
<1>6. Active'
  BY <1>4, <1>5 DEF Active
<1>7. Links' /\ Ticks' /\ Veto'
  BY <1>4 DEF Links, Ticks, Veto
<1> QED
  BY <1>3, <1>6, <1>7 DEF IInv

-----------------------------------------------------------------------------
(* All steps together, and what a reader should know of.                     *)

\* The invariant holds at the start and no step breaks it.
LEMMA InitialInv == Init => IInv
<1> SUFFICES ASSUME Init PROVE IInv
  OBVIOUS
<1>1. stack = <<>> /\ Height = 0 /\ failed = {} /\ heap = "sound"
  BY DEF Init, Height
<1>2. TypeOK
  <2>1. handlers \in [Scripts -> [Effects -> SUBSET Phases]]
    BY DEF Init
  <2>2. contexts \in [1..MaxContexts -> Context \union {NoContext}]
    BY DEF Init
  <2> QED
    BY <1>1, <2>1, <2>2 DEF TypeOK
<1>3. \A c \in 1..MaxContexts : ~contexts[c].active
  BY DEF Init, NoContext
<1> QED
  BY <1>1, <1>2, <1>3 DEF IInv, Active, Links, Ticks, Veto

\* Every step of the engine and of the scripts keeps the invariant.
LEMMA InductiveInv == IInv /\ [Next]_vars => IInv'
<1> SUFFICES ASSUME IInv, [Next]_vars PROVE IInv'
  OBVIOUS
<1>1. DOMAIN contexts = 1..MaxContexts
  BY DEF IInv, TypeOK
<1>2. CASE Next
  BY <1>1, <1>2, StartApplyKeeps, StartNamedKeeps, RegisterKeeps, ReturnKeeps, InvokeKeeps,
     ApplyGoesOn, TriggerDotKeeps, LuaKeeps, EndHandlerKeeps, ReloadKeeps DEF Next
<1>3. CASE UNCHANGED vars
  <2>1. UNCHANGED <<handlers, stack, contexts, failed, heap>>
    BY <1>3 DEF vars
  <2>2. UNCHANGED <<Height>> /\ \A d : Frame(d)' = Frame(d)
    BY <2>1 DEF Height, Frame
  <2>3. TypeOK'
    BY <2>1 DEF IInv, TypeOK
  <2>4. \A d, b : Runs(d, b)' <=> Runs(d, b)
    BY <2>2 DEF Runs
  <2>5. Active' /\ Links' /\ Ticks' /\ Veto'
    BY <2>1, <2>2, <2>4 DEF IInv, Active, Links, Ticks, Veto, Asked
  <2> QED
    BY <2>3, <2>5 DEF IInv
<1> QED
  BY <1>2, <1>3

\* So it holds in every reachable state.
LEMMA Invariant == Spec => []IInv
  BY InitialInv, InductiveInv, PTL DEF Spec

\* The invariant's frames, numbered from the top as the properties number them.
LEMMA FromTheTop ==
    ASSUME IInv
    PROVE  /\ DOMAIN stack = 1..Height /\ Height \in Nat
           /\ \A n \in DOMAIN stack : /\ Height + 1 - n \in 1..Height
                                      /\ stack[n] = Frame(Height + 1 - n)
           /\ \A d \in 1..Height : /\ Height + 1 - d \in DOMAIN stack
                                   /\ stack[Height + 1 - d] = Frame(d)
<1>1. stack \in Seq(Frames)
  BY DEF IInv, TypeOK, Frames
<1>2. DOMAIN stack = 1..Height /\ Height \in Nat
  BY <1>1, LenProperties DEF Height
<1> QED
  BY <1>1, <1>2, NumberedFrames DEF Height, Frame, FromBottom

\* Type correctness of handlers, frames, contexts and history.
THEOREM TypeCorrect == Spec => []TypeOK
<1>1. IInv => TypeOK
  BY DEF IInv
<1> QED
  BY <1>1, Invariant, PTL

\* invoke_effect_handler of core.cpp: a context that exists is active exactly while
\* its callback is on the stack, however deep the effects nest and whatever Lua
\* collects, and a native tick keeps the one it was asked through.
THEOREM ActiveCorrect == Spec => []ActiveWhileRunning
<1>1. IInv => ActiveWhileRunning
  <2> SUFFICES ASSUME IInv
               PROVE  ActiveWhileRunning
    OBVIOUS
  <2>1. ASSUME NEW c \in 1..MaxContexts, contexts[c] # NoContext
        PROVE  contexts[c].active <=>
                   \E n \in DOMAIN stack : stack[n].kind = "handler" /\ stack[n].ctx = c
    <3>1. contexts[c].active <=> \E d \in 1..Height : Runs(d, c)
      BY <2>1 DEF IInv, Active
    <3>2. (\E d \in 1..Height : Runs(d, c)) <=>
              \E n \in DOMAIN stack : stack[n].kind = "handler" /\ stack[n].ctx = c
      BY FromTheTop DEF Runs
    <3> QED
      BY <3>1, <3>2
  <2>2. ASSUME NEW n \in DOMAIN stack, stack[n].kind = "tick"
        PROVE  contexts[stack[n].ctx].active
    <3>1. PICK d \in 1..Height : stack[n] = Frame(d)
      BY FromTheTop
    <3> QED
      BY <2>2, <3>1 DEF IInv, Active
  <2>3. DOMAIN contexts = 1..MaxContexts
    BY DEF IInv, TypeOK
  <2> QED
    BY <2>1, <2>2, <2>3 DEF ActiveWhileRunning
<1> QED
  BY <1>1, Invariant, PTL

\* checked_actor_ref: a saved reference never reaches a native operation after
\* its callback has returned.
THEOREM TicksCorrect == Spec => []TicksOnlyInsideTheirCallback
<1>1. IInv => TicksOnlyInsideTheirCallback
  <2> SUFFICES ASSUME IInv, NEW n \in DOMAIN stack, stack[n].kind = "tick"
               PROVE  \E m \in DOMAIN stack :
                          m > n /\ stack[m].kind = "handler" /\ stack[m].ctx = stack[n].ctx
    BY DEF TicksOnlyInsideTheirCallback
  <2>1. PICK d \in 1..Height : d = Height + 1 - n /\ stack[n] = Frame(d)
    BY FromTheTop
  <2>2. PICK e \in 1..Height : e < d /\ Runs(e, Frame(d).ctx)
    BY <2>1 DEF IInv, Ticks
  <2>3. PICK m \in DOMAIN stack : m = Height + 1 - e /\ stack[m] = Frame(e)
    BY FromTheTop
  <2>4. m > n
    BY <2>1, <2>2, <2>3, FromTheTop
  <2> QED
    BY <2>1, <2>2, <2>3, <2>4 DEF Runs
<1> QED
  BY <1>1, Invariant, PTL

\* before_effect_target: the scripts' answers, all of them and nothing else,
\* decide whether a target's native apply runs.
THEOREM VetoCorrect == Spec => []VetoIsTheScripts
<1>1. IInv => VetoIsTheScripts
  <2> SUFFICES ASSUME IInv, NEW n \in DOMAIN stack, stack[n].kind = "apply"
               PROVE  /\ stack[n].phase # "before" => stack[n].unasked = {}
                      /\ stack[n].phase \in {"native", "after", "done"} => ~stack[n].denied
                      /\ stack[n].phase = "cancelled" => stack[n].denied
    BY DEF VetoIsTheScripts
  <2>1. PICK d \in 1..Height : stack[n] = Frame(d)
    BY FromTheTop
  <2>2. Asked(Frame(d))
    BY DEF IInv, Veto
  <2> QED
    BY <2>1, <2>2 DEF Asked
<1> QED
  BY <1>1, Invariant, PTL
===============================================================================
