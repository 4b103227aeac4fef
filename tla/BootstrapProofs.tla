--------------------------- MODULE BootstrapProofs ---------------------------
(* TLAPS proofs about BridgeInstall and Bootstrap, for any set of profiles,    *)
(* any number of the game's threads and any number of failures.                *)
EXTENDS Bootstrap, SequenceTheorems, FiniteSetTheorems, TLAPS

-----------------------------------------------------------------------------
(* The inductive invariant of the installers.                                *)

\* What an installer has put in when it is through, and when it left nothing.
Full(o) ==
    \A i \in DOMAIN PlanOf(o) :
        /\ site[PlanOf(o)[i]] = o
        /\ <<o, PlanOf(o)[i]>> \in original \intersect code
Nothing(o) == \A p \in Points : site[p] # o /\ <<o, p>> \notin original \union code
Settled(o) ==
    restores = RestoreFaults =>
        \/ Full(o) /\ (o = "bridge" => tables)
        \/ Nothing(o) /\ (o = "bridge" => ~tables)

\* The installers one after the other: who has not begun, who is through.
Turns ==
    /\ owner = "render" =>
         /\ pc = IF supported THEN "swap" ELSE "done"
         /\ Nothing("bridge") /\ Nothing("tracer") /\ ~tables
    /\ owner = "bridge" =>
         /\ pc # "swap"
         /\ Nothing("tracer")
         /\ pc = "done" => ~traced /\ Settled("bridge")
    /\ owner = "tracer" =>
         /\ pc # "swap"
         /\ traced
         /\ Settled("bridge")
         /\ pc = "done" => Settled("tracer")
    /\ supported \/ owner = "render"

\* The import and the hook behind it.
Swap ==
    /\ site["swap"] \in {"native", "render"}
    /\ site["swap"] = "render" => supported /\ <<"render", "swap">> \in original
    /\ <<"render", "swap">> \in code
    /\ pc = "swap" => /\ step \in 1..3
                      /\ step = 1 => site["swap"] = "native"
                      /\ step > 1 => <<"render", "swap">> \in original
                      /\ step = 3 => site["swap"] = "render"

\* Everything belongs to somebody who was entitled to it, and only the copy in
\* progress, of a jump or of the original bytes, leaves a torn site.
Patches(o, p) == \E i \in DOMAIN PlanOf(o) : PlanOf(o)[i] = p
Approved(o) == o \in profile /\ \A i \in DOMAIN PlanOf(o) : PlanOf(o)[i] \in profile
Entitled ==
    \A p \in Points :
        /\ site[p] = "render" => p = "swap"
        /\ \A o \in {"bridge", "tracer"} :
              /\ site[p] = o => Approved(o)
              /\ site[p] = o \/ <<o, p>> \in original \union code => Patches(o, p)
Torn == \A p \in Points : site[p] = "torn" => pc \in {"write", "unwrite"} /\ p = Plan[step]

\* Where the installer at work stands in its plan.
Working == owner # "render" /\ pc # "done"
In(i) == site[Plan[i]] = owner /\ <<owner, Plan[i]>> \in original \intersect code
Out(i) == site[Plan[i]] = "native" /\ <<owner, Plan[i]>> \notin original \union code
Undone(i) ==
    /\ <<owner, Plan[i]>> \notin code
    /\ restores = RestoreFaults => site[Plan[i]] = "native"
Progress ==
    Working =>
        /\ pc = "verify" => step = 1 /\ Nothing(owner) /\ (owner = "bridge" => ~tables)
        /\ pc # "verify" => Approved(owner)
        /\ pc \in {"patch", "tables"} =>
             /\ step \in 1..(Len(Plan) + 1)
             /\ \A i \in DOMAIN Plan : IF i < step THEN In(i) ELSE Out(i)
        /\ pc = "tables" => owner = "bridge" /\ step = 3 /\ ~tables
        /\ pc \in {"patch", "write", "publish"} /\ owner = "bridge" => (tables <=> step >= 3)
        /\ pc = "write" =>
             /\ step \in DOMAIN Plan
             /\ \A i \in DOMAIN Plan : /\ i < step => In(i)
                                       /\ i > step => Out(i)
             /\ site[Plan[step]] = "torn"
             /\ <<owner, Plan[step]>> \in code \ original
        /\ pc = "publish" =>
             /\ step \in DOMAIN Plan
             /\ \A i \in DOMAIN Plan : /\ i < step => In(i)
                                       /\ i > step => Out(i)
             /\ site[Plan[step]] = owner
             /\ <<owner, Plan[step]>> \in code \ original
        /\ pc = "restore" =>
             /\ step \in 0..Len(Plan)
             /\ failed
             /\ \A i \in DOMAIN Plan : i > step => Undone(i)
        /\ pc = "unwrite" =>
             /\ step \in DOMAIN Plan
             /\ failed
             /\ \A i \in DOMAIN Plan : i > step => Undone(i)
             /\ site[Plan[step]] = "torn"
        /\ pc = "free" =>
             /\ step \in DOMAIN Plan
             /\ failed
             /\ \A i \in DOMAIN Plan : i > step => Undone(i)
             /\ restores = RestoreFaults => site[Plan[step]] = "native"

\* The corridor point goes to the tracer unless something fails or is missing.
TracersTurn ==
    /\ supported /\ traced /\ profile = Items /\ ~failed
    /\ owner = "tracer" /\ pc = "done"
    => site["corridor"] = "tracer"

\* The game's call.
Calls ==
    /\ call.settled => pc = "done"
    /\ call.phase \in {"tables", "late"} => call.point # "swap"
    /\ call.point = "swap" /\ call.phase # "none" =>
          call.owner = "render" /\ <<"render", "swap">> \in original
    /\ SettledCallsSucceed
    /\ call.settled /\ restores = RestoreFaults /\ call.phase # "none" =>
          <<call.owner, call.point>> \in original \intersect code

InstallInv == TypeOK /\ Turns /\ Swap /\ Entitled /\ Torn /\ Progress /\ TracersTurn /\ Calls

-----------------------------------------------------------------------------
(* The installers' plans.                                                    *)

\* An installer's plan names each point it patches once; the import is in no
\* plan, the tables follow the bridge's second point, and an enabled tracer
\* shares no point with the bridge.
LEMMA PlanFacts ==
    /\ \A o \in {"bridge", "tracer"} :
          /\ Len(PlanOf(o)) \in 2..4
          /\ DOMAIN PlanOf(o) = 1..Len(PlanOf(o))
          /\ \A i \in DOMAIN PlanOf(o) : PlanOf(o)[i] \in Points \ {"swap"}
          /\ \A i, j \in DOMAIN PlanOf(o) : PlanOf(o)[i] = PlanOf(o)[j] => i = j
    /\ Len(PlanOf("bridge")) >= 3
    /\ \A i \in DOMAIN PlanOf("bridge") : PlanOf("bridge")[i] = "named" <=> i = 2
    /\ 1 \in DOMAIN PlanOf("tracer") /\ PlanOf("tracer")[1] = "corridor"
    /\ traced => \A i \in DOMAIN PlanOf("bridge") :
                     PlanOf("bridge")[i] \notin {"corridor", "move"}
    /\ \A i \in DOMAIN PlanOf("tracer") : PlanOf("tracer")[i] \in {"corridor", "move"}
<1>1. /\ Len(PlanOf("tracer")) = 2 /\ DOMAIN PlanOf("tracer") = 1..2
      /\ PlanOf("tracer")[1] = "corridor" /\ PlanOf("tracer")[2] = "move"
  BY DEF PlanOf, TracerPlan
<1>2. /\ Len(PlanOf("bridge")) = (IF traced THEN 3 ELSE 4)
      /\ DOMAIN PlanOf("bridge") = 1..(IF traced THEN 3 ELSE 4)
      /\ PlanOf("bridge")[1] = "apply" /\ PlanOf("bridge")[2] = "named"
      /\ PlanOf("bridge")[3] = "transition"
      /\ ~traced => PlanOf("bridge")[4] = "corridor"
  <2>1. CASE traced
    <3>1. PlanOf("bridge") = <<"apply", "named", "transition">> \o <<>>
      BY <2>1 DEF PlanOf, BridgePlan
    <3> QED
      BY <2>1, <3>1
  <2>2. CASE ~traced
    <3>1. PlanOf("bridge") = <<"apply", "named", "transition">> \o <<"corridor">>
      BY <2>2 DEF PlanOf, BridgePlan
    <3> QED
      BY <2>2, <3>1
  <2> QED
    BY <2>1, <2>2
<1>3. \A i \in DOMAIN PlanOf("bridge") :
          i = 1 \/ i = 2 \/ i = 3 \/ (i = 4 /\ ~traced)
  BY <1>2
<1>4. \A i \in DOMAIN PlanOf("tracer") : i = 1 \/ i = 2
  BY <1>1
<1>5. /\ \A i \in DOMAIN PlanOf("tracer") : PlanOf("tracer")[i] \in {"corridor", "move"}
      /\ \A i, j \in DOMAIN PlanOf("tracer") : PlanOf("tracer")[i] = PlanOf("tracer")[j] => i = j
  BY <1>1, <1>4
<1>6. /\ \A i \in DOMAIN PlanOf("bridge") : PlanOf("bridge")[i] = "named" <=> i = 2
      /\ \A i, j \in DOMAIN PlanOf("bridge") : PlanOf("bridge")[i] = PlanOf("bridge")[j] => i = j
  BY <1>2, <1>3
<1>7. /\ \A i \in DOMAIN PlanOf("bridge") : PlanOf("bridge")[i] \in Points \ {"swap"}
      /\ traced => \A i \in DOMAIN PlanOf("bridge") :
                       PlanOf("bridge")[i] \notin {"corridor", "move"}
  BY <1>2, <1>3 DEF Points
<1>8. \A o \in {"bridge", "tracer"} :
          Len(PlanOf(o)) \in 2..4 /\ DOMAIN PlanOf(o) = 1..Len(PlanOf(o))
  BY <1>1, <1>2
<1>9. /\ Len(PlanOf("bridge")) >= 3
      /\ 1 \in DOMAIN PlanOf("tracer") /\ PlanOf("tracer")[1] = "corridor"
  BY <1>1, <1>2
<1>10. \A i \in DOMAIN PlanOf("tracer") : PlanOf("tracer")[i] \in Points \ {"swap"}
  BY <1>5 DEF Points
<1> HIDE DEF PlanOf
<1> QED
  BY <1>5, <1>6, <1>7, <1>8, <1>9, <1>10

\* No step changes a plan.
LEMMA PlansStay ==
    ASSUME UNCHANGED host
    PROVE  \A o : PlanOf(o)' = PlanOf(o)
  BY DEF host, PlanOf, BridgePlan, TracerPlan

-----------------------------------------------------------------------------
(* The steps of the bridge's and the tracer's installers.                    *)

\* What a step of the installer at work may change: what its own plan names,
\* never what belongs to another one.
OwnerStep ==
    /\ pc \notin {"swap", "done"}
    /\ UNCHANGED host
    /\ \A p \in Points :
          \/ site'[p] = site[p]
          \/ pc # "verify" /\ Patches(owner, p) /\ site'[p] \in {"native", "torn", owner}
    /\ \A p \in Points :
          /\ \A o \in Owners \ {owner} : /\ <<o, p>> \in original' <=> <<o, p>> \in original
                                         /\ <<o, p>> \in code' <=> <<o, p>> \in code
          /\ <<owner, p>> \in original' \union code' =>
                Patches(owner, p) \/ <<owner, p>> \in original \union code
    /\ restores' \in 0..restores
    /\ tables' = tables \/ owner = "bridge"
    /\ \/ call' = call
       \/ call.phase \in {"tables", "late"} /\ call' = [call EXCEPT !.phase = "crashed"]
    /\ pc' # "swap"

\* Before an installer is through, the bridge or the tracer is at work.
LEMMA AtWork ==
    ASSUME Turns, TypeOK, pc \notin {"swap", "done"}
    PROVE  owner \in {"bridge", "tracer"} /\ Working
  BY DEF Turns, TypeOK, Working, Owners

\* Whatever the installer at work does, the other one's hooks stay as they
\* were, the import keeps its hook, nobody gets what is not in an approved
\* plan, and the game's call is disturbed only inside a table look-up.
LEMMA OwnerStepKeeps ==
    ASSUME InstallInv, OwnerStep
    PROVE  /\ owner = "bridge" => Nothing("tracer")'
           /\ owner = "tracer" => Settled("bridge")'
           /\ Swap' /\ Entitled' /\ Calls'
<1>1. owner \in {"bridge", "tracer"} /\ Working
  BY AtWork DEF InstallInv, OwnerStep
<1>2. \A o : PlanOf(o)' = PlanOf(o)
  BY PlansStay DEF OwnerStep
<1>3. \A o, p : Patches(o, p)' <=> Patches(o, p)
  BY <1>2 DEF Patches
<1>4. \A o : Approved(o)' <=> Approved(o)
  BY <1>2 DEF Approved, OwnerStep, host
<1>5. ASSUME owner = "bridge"
      PROVE  Nothing("tracer")'
  BY <1>5 DEF InstallInv, Turns, Nothing, OwnerStep, Owners
<1>6. ASSUME owner = "tracer"
      PROVE  Settled("bridge")'
  <2>1. traced /\ Settled("bridge") /\ tables' = tables
    BY <1>6 DEF InstallInv, Turns, OwnerStep
  <2>2. restores' = RestoreFaults => restores = RestoreFaults
    BY InstallAssumption DEF InstallInv, TypeOK, OwnerStep
  <2>3. Nothing("bridge") => Nothing("bridge")'
    BY <1>6 DEF Nothing, OwnerStep, Owners
  <2>4. Full("bridge") => Full("bridge")'
    <3> SUFFICES ASSUME Full("bridge"), NEW i \in DOMAIN PlanOf("bridge")
                 PROVE  /\ site'[PlanOf("bridge")[i]] = "bridge"
                        /\ <<"bridge", PlanOf("bridge")[i]>> \in original' \intersect code'
      BY <1>2 DEF Full
    <3> DEFINE p == PlanOf("bridge")[i]
    <3>1. p \in Points /\ ~Patches("tracer", p)
      BY <2>1, PlanFacts DEF Patches
    <3>2. site[p] = "bridge" /\ <<"bridge", p>> \in original \intersect code
      BY DEF Full
    <3> QED
      BY <1>6, <3>1, <3>2 DEF OwnerStep, Owners
  <2> QED
    BY <2>1, <2>2, <2>3, <2>4 DEF Settled
<1>7. /\ site'["swap"] = site["swap"]
      /\ <<"render", "swap">> \in original' <=> <<"render", "swap">> \in original
      /\ <<"render", "swap">> \in code' <=> <<"render", "swap">> \in code
  <2>1. ~Patches(owner, "swap")
    BY <1>1, PlanFacts DEF Patches
  <2> QED
    BY <1>1, <2>1 DEF OwnerStep, Points, Owners
<1>8. Swap'
  BY <1>7 DEF InstallInv, Swap, OwnerStep, host
<1>9. Entitled'
  <2> SUFFICES ASSUME NEW p \in Points
               PROVE  /\ site'[p] = "render" => p = "swap"
                      /\ \A o \in {"bridge", "tracer"} :
                            /\ site'[p] = o => Approved(o)
                            /\ site'[p] = o \/ <<o, p>> \in original' \union code' =>
                                  Patches(o, p)
    BY <1>3, <1>4 DEF Entitled
  <2>1. CASE site'[p] = site[p]
    BY <1>1, <2>1 DEF InstallInv, Entitled, OwnerStep, Owners
  <2>2. CASE pc # "verify" /\ Patches(owner, p) /\ site'[p] \in {"native", "torn", owner}
    <3>1. Approved(owner)
      BY <1>1, <2>2 DEF InstallInv, Progress
    <3> QED
      BY <1>1, <2>2, <3>1 DEF InstallInv, Entitled, OwnerStep, Owners
  <2> QED
    BY <2>1, <2>2 DEF OwnerStep
<1>10. Calls'
  BY <1>7 DEF InstallInv, Calls, OwnerStep, SettledCallsSucceed, TypeOK
<1> QED
  BY <1>5, <1>6, <1>8, <1>9, <1>10

\* An installer that returns hands over to the next one, or to nobody.
LEMMA Finishing ==
    ASSUME InstallInv, OwnerStep, FinishInstaller,
           owner = "bridge" => Settled("bridge")',
           owner = "tracer" => Settled("tracer")',
           \A p \in Points : site'[p] # "torn",
           /\ supported /\ traced /\ profile = Items
           /\ owner = "tracer"
           => failed' \/ site'["corridor"] = "tracer"
    PROVE  /\ Turns' /\ Swap' /\ Entitled' /\ Torn' /\ Progress' /\ TracersTurn' /\ Calls'
           /\ pc' \in {"verify", "done"} /\ owner' \in Owners /\ step' = 1
<1>1. owner \in {"bridge", "tracer"} /\ Working
  BY AtWork DEF InstallInv, OwnerStep
<1>2. /\ owner = "bridge" => Nothing("tracer")'
      /\ owner = "tracer" => Settled("bridge")'
      /\ Swap' /\ Entitled' /\ Calls'
  BY OwnerStepKeeps
<1>3. supported /\ (owner = "tracer" => traced) /\ UNCHANGED host
  BY <1>1 DEF InstallInv, Turns, OwnerStep
<1>4. CASE owner = "bridge" /\ traced
  <2>1. pc' = "verify" /\ owner' = "tracer" /\ step' = 1
    BY <1>4 DEF FinishInstaller
  <2>2. Nothing("tracer")' /\ Settled("bridge")'
    BY <1>2, <1>4
  <2>3. Turns'
    BY <1>3, <1>4, <2>1, <2>2 DEF Turns, host
  <2>4. Nothing(owner)'
    BY <2>1, <2>2 DEF Nothing
  <2>5. Progress'
    BY <2>1, <2>4 DEF Progress
  <2> QED
    BY <1>2, <2>1, <2>3, <2>5 DEF Torn, TracersTurn, Owners
<1>5. CASE ~(owner = "bridge" /\ traced)
  <2>1. pc' = "done" /\ owner' = owner /\ step' = 1
    BY <1>5 DEF FinishInstaller
  <2>2. Turns'
    BY <1>1, <1>2, <1>3, <1>5, <2>1 DEF Turns, host
  <2>3. Progress'
    BY <2>1 DEF Progress, Working
  <2>4. TracersTurn'
    BY <1>1, <1>3, <2>1 DEF TracersTurn, host
  <2> QED
    BY <1>1, <1>2, <2>1, <2>2, <2>3, <2>4 DEF Torn, Owners
<1> QED
  BY <1>4, <1>5

\* While an installer goes on, who is through and who has not begun is settled.
LEMMA GoingOn ==
    ASSUME InstallInv, OwnerStep, UNCHANGED owner, pc' \notin {"swap", "done"}
    PROVE  Turns' /\ Swap' /\ Entitled' /\ TracersTurn' /\ Calls'
<1>1. owner \in {"bridge", "tracer"} /\ Working
  BY AtWork DEF InstallInv, OwnerStep
<1>2. /\ owner = "bridge" => Nothing("tracer")'
      /\ owner = "tracer" => Settled("bridge")'
      /\ Swap' /\ Entitled' /\ Calls'
  BY OwnerStepKeeps
<1>3. Turns'
  BY <1>1, <1>2 DEF InstallInv, Turns, OwnerStep, host
<1> QED
  BY <1>2, <1>3 DEF TracersTurn

\* Looking at the plan of the installer at work.
LEMMA PlanAtWork ==
    ASSUME InstallInv, pc \notin {"swap", "done"}
    PROVE  /\ owner \in {"bridge", "tracer"}
           /\ Len(Plan) \in 2..4 /\ DOMAIN Plan = 1..Len(Plan)
           /\ owner = "bridge" => Len(Plan) >= 3
           /\ \A i \in DOMAIN Plan : Plan[i] \in Points \ {"swap"} /\ Patches(owner, Plan[i])
           /\ \A i, j \in DOMAIN Plan : Plan[i] = Plan[j] => i = j
           /\ \A p : Patches(owner, p) <=> \E i \in DOMAIN Plan : Plan[i] = p
           /\ owner = "bridge" => \A i \in DOMAIN Plan : Plan[i] = "named" <=> i = 2
  BY AtWork, PlanFacts DEF InstallInv, Plan, Patches

\* Nothing of the installer is left when nothing of its plan is.
LEMMA NothingOfThePlan ==
    ASSUME InstallInv, pc \notin {"swap", "done"},
           \A i \in DOMAIN Plan : site[Plan[i]] # owner /\ <<owner, Plan[i]>> \notin original \union code
    PROVE  Nothing(owner)
<1> SUFFICES ASSUME NEW p \in Points
             PROVE  site[p] # owner /\ <<owner, p>> \notin original \union code
  BY DEF Nothing
<1>1. owner \in {"bridge", "tracer"} /\ (Patches(owner, p) => \E i \in DOMAIN Plan : Plan[i] = p)
  BY PlanAtWork
<1> QED
  BY <1>1 DEF InstallInv, Entitled

\* Verify, Patch, Write, Publish and MoveTables keep the invariant.
LEMMA VerifyKeeps ==
    ASSUME InstallInv, Verify
    PROVE  InstallInv'
<1>1. pc = "verify" /\ UNCHANGED <<host, site, original, code, restores, tables, failed, call>>
  BY DEF Verify, At
<1>2. /\ owner \in {"bridge", "tracer"} /\ DOMAIN Plan = 1..Len(Plan) /\ Len(Plan) \in 2..4
      /\ \A i \in DOMAIN Plan : Plan[i] \in Points \ {"swap"}
  BY <1>1, PlanAtWork
<1>3. step = 1 /\ Nothing(owner) /\ (owner = "bridge" => ~tables)
  BY <1>1, <1>2 DEF InstallInv, Progress, Working
<1>4. \A p \in Points : site[p] # "torn"
  BY <1>1 DEF InstallInv, Torn
<1>5. OwnerStep
  BY <1>1, <1>2 DEF OwnerStep, InstallInv, TypeOK, Verify, FinishInstaller
<1>6. CASE Verified
  <2>1. pc' = "patch" /\ UNCHANGED <<owner, step>>
    BY <1>6 DEF Verify
  <2>2. UNCHANGED Plan
    BY <1>1, <2>1, PlansStay DEF Plan
  <2>3. Approved(owner) /\ Approved(owner)'
    BY <1>1, <1>6, <2>1, <2>2 DEF Verified, Approved, Plan, host
  <2>4. \A i \in DOMAIN Plan : Out(i)
    BY <1>2, <1>3, <1>6 DEF Out, Nothing, Verified
  <2>5. Progress'
    BY <1>1, <1>2, <1>3, <2>1, <2>2, <2>3, <2>4 DEF Progress, Out
  <2>6. Torn'
    BY <1>1, <1>4 DEF Torn
  <2>7. TypeOK'
    BY <1>1, <2>1 DEF InstallInv, TypeOK, host
  <2> QED
    BY <1>5, <2>1, <2>5, <2>6, <2>7, GoingOn DEF InstallInv
<1>7. CASE ~Verified
  <2>1. FinishInstaller
    BY <1>7 DEF Verify
  <2>2. /\ owner = "bridge" => Settled("bridge")'
        /\ owner = "tracer" => Settled("tracer")'
    BY <1>1, <1>3 DEF Settled, Nothing
  <2>3. ASSUME supported, traced, profile = Items, owner = "tracer"
        PROVE  FALSE
    <3>1. owner \in profile /\ \A i \in DOMAIN Plan : Plan[i] \in profile
      BY <1>2, <2>3 DEF Items
    <3>2. PICK i \in DOMAIN Plan : site[Plan[i]] # "native"
      BY <1>7, <3>1 DEF Verified
    <3>3. Plan[i] \in {"corridor", "move"} /\ Plan[i] \in Points
      BY <1>2, <2>3, PlanFacts DEF Plan
    <3>4. site[Plan[i]] # "tracer" /\ site[Plan[i]] # "torn"
      BY <1>3, <1>4, <2>3, <3>3 DEF Nothing
    <3>5. site[Plan[i]] # "render"
      BY <3>3 DEF InstallInv, Entitled
    <3>6. ~Patches("bridge", Plan[i])
      BY <2>3, <3>3, PlanFacts DEF Patches
    <3>7. site[Plan[i]] # "bridge"
      BY <3>3, <3>6 DEF InstallInv, Entitled
    <3> QED
      BY <3>2, <3>3, <3>4, <3>5, <3>7 DEF InstallInv, TypeOK, Owners
  <2>4. TypeOK'
    BY <1>1, <2>1 DEF InstallInv, TypeOK, host, FinishInstaller, Owners
  <2> QED
    BY <1>1, <1>4, <1>5, <2>1, <2>2, <2>3, <2>4, Finishing DEF InstallInv
<1> QED
  BY <1>6, <1>7

\* A detour is allocated and its site is half overwritten.
LEMMA PatchKeeps ==
    ASSUME InstallInv, Patch
    PROVE  InstallInv'
<1>1. /\ pc = "patch" /\ pc' = "write" /\ step \in DOMAIN Plan
      /\ code' = code \union {<<owner, Plan[step]>>}
      /\ site' = [site EXCEPT ![Plan[step]] = "torn"]
      /\ UNCHANGED <<host, owner, step, original, restores, tables, failed, call>>
  BY DEF Patch, At
<1>2. /\ owner \in {"bridge", "tracer"} /\ DOMAIN Plan = 1..Len(Plan) /\ Len(Plan) \in 2..4
      /\ \A i \in DOMAIN Plan : Plan[i] \in Points \ {"swap"} /\ Patches(owner, Plan[i])
      /\ \A i, j \in DOMAIN Plan : Plan[i] = Plan[j] => i = j
  BY <1>1, PlanAtWork
<1>3. /\ Approved(owner)
      /\ \A i \in DOMAIN Plan : IF i < step THEN In(i) ELSE Out(i)
      /\ owner = "bridge" => (tables <=> step >= 3)
  BY <1>1, <1>2 DEF InstallInv, Progress, Working
<1>4. UNCHANGED Plan /\ Approved(owner)'
  BY <1>1, <1>3, PlansStay DEF Plan, Approved, host
<1>5. TypeOK'
  BY <1>1, <1>2 DEF InstallInv, TypeOK, host, Owners
<1>6. /\ site'[Plan[step]] = "torn"
      /\ \A p \in Points : p # Plan[step] => site'[p] = site[p]
      /\ \A i \in DOMAIN Plan : i # step => site'[Plan[i]] = site[Plan[i]]
  BY <1>1, <1>2 DEF InstallInv, TypeOK
<1>7. OwnerStep
  BY <1>1, <1>2, <1>6 DEF OwnerStep, InstallInv, TypeOK
<1>8. Torn'
  BY <1>1, <1>4, <1>6 DEF Torn, InstallInv
<1>9. \A i \in DOMAIN Plan : /\ i < step => In(i)'
                             /\ i > step => Out(i)'
  BY <1>1, <1>2, <1>3, <1>4, <1>6 DEF In, Out, InstallInv, TypeOK
<1>10. <<owner, Plan[step]>> \in code' \ original'
  BY <1>1, <1>2, <1>3 DEF Out, InstallInv, TypeOK
<1>11. Progress'
  BY <1>1, <1>2, <1>3, <1>4, <1>6, <1>9, <1>10 DEF Progress
<1> QED
  BY <1>1, <1>5, <1>7, <1>8, <1>11, GoingOn DEF InstallInv

\* The site jumps to the detour of the installer at work.
LEMMA WriteKeeps ==
    ASSUME InstallInv, Write
    PROVE  InstallInv'
<1>1. /\ pc = "write" /\ pc' = "publish"
      /\ site' = [site EXCEPT ![Plan[step]] = owner]
      /\ UNCHANGED <<host, owner, step, original, code, restores, tables, failed, call>>
  BY DEF Write, At
<1>2. /\ owner \in {"bridge", "tracer"} /\ DOMAIN Plan = 1..Len(Plan) /\ Len(Plan) \in 2..4
      /\ \A i \in DOMAIN Plan : Plan[i] \in Points \ {"swap"} /\ Patches(owner, Plan[i])
      /\ \A i, j \in DOMAIN Plan : Plan[i] = Plan[j] => i = j
  BY <1>1, PlanAtWork
<1>3. /\ Approved(owner)
      /\ step \in DOMAIN Plan
      /\ \A i \in DOMAIN Plan : /\ i < step => In(i)
                                /\ i > step => Out(i)
      /\ <<owner, Plan[step]>> \in code \ original
      /\ owner = "bridge" => (tables <=> step >= 3)
  BY <1>1, <1>2 DEF InstallInv, Progress, Working
<1>4. UNCHANGED Plan /\ Approved(owner)'
  BY <1>1, <1>3, PlansStay DEF Plan, Approved, host
<1>5. TypeOK'
  BY <1>1, <1>2 DEF InstallInv, TypeOK, host, Owners
<1>6. /\ site'[Plan[step]] = owner
      /\ \A p \in Points : p # Plan[step] => site'[p] = site[p]
      /\ \A i \in DOMAIN Plan : i # step => site'[Plan[i]] = site[Plan[i]]
  BY <1>1, <1>2, <1>3 DEF InstallInv, TypeOK
<1>7. OwnerStep
  BY <1>1, <1>2, <1>3, <1>6 DEF OwnerStep, InstallInv, TypeOK
<1>8. Torn'
  BY <1>1, <1>2, <1>4, <1>6 DEF Torn, InstallInv
<1>9. \A i \in DOMAIN Plan : /\ i < step => In(i)'
                             /\ i > step => Out(i)'
  BY <1>1, <1>2, <1>3, <1>4, <1>6 DEF In, Out, InstallInv, TypeOK
<1>10. Progress'
  BY <1>1, <1>2, <1>3, <1>4, <1>6, <1>9 DEF Progress
<1> QED
  BY <1>1, <1>5, <1>7, <1>8, <1>10, GoingOn DEF InstallInv

\* The original pointer of the point just patched is published.
LEMMA PublishKeeps ==
    ASSUME InstallInv, Publish
    PROVE  InstallInv'
<1>1. /\ pc = "publish" /\ pc' \in {"patch", "tables"} /\ step' = step + 1
      /\ pc' = "tables" <=> <<owner, Plan[step]>> = <<"bridge", "named">>
      /\ original' = original \union {<<owner, Plan[step]>>}
      /\ UNCHANGED <<host, owner, site, code, restores, tables, failed, call>>
  BY DEF Publish, At, Published
<1>2. /\ owner \in {"bridge", "tracer"} /\ DOMAIN Plan = 1..Len(Plan) /\ Len(Plan) \in 2..4
      /\ \A i \in DOMAIN Plan : Plan[i] \in Points \ {"swap"} /\ Patches(owner, Plan[i])
      /\ \A i, j \in DOMAIN Plan : Plan[i] = Plan[j] => i = j
      /\ owner = "bridge" => \A i \in DOMAIN Plan : Plan[i] = "named" <=> i = 2
  BY <1>1, PlanAtWork
<1>3. /\ Approved(owner)
      /\ step \in DOMAIN Plan
      /\ \A i \in DOMAIN Plan : /\ i < step => In(i)
                                /\ i > step => Out(i)
      /\ site[Plan[step]] = owner
      /\ <<owner, Plan[step]>> \in code \ original
      /\ owner = "bridge" => (tables <=> step >= 3)
  BY <1>1, <1>2 DEF InstallInv, Progress, Working
<1>4. UNCHANGED Plan /\ Approved(owner)'
  BY <1>1, <1>3, PlansStay DEF Plan, Approved, host
<1>5. TypeOK'
  BY <1>1, <1>2, <1>3 DEF InstallInv, TypeOK, host, Owners
<1>6. OwnerStep
  BY <1>1, <1>2, <1>3 DEF OwnerStep, InstallInv, TypeOK
<1>7. Torn'
  BY <1>1 DEF Torn, InstallInv
<1>8. \A i \in DOMAIN Plan : IF i < step' THEN In(i)' ELSE Out(i)'
  <2> SUFFICES ASSUME NEW i \in DOMAIN Plan
               PROVE  IF i < step' THEN In(i)' ELSE Out(i)'
    OBVIOUS
  <2>1. ASSUME i < step
        PROVE  In(i)'
    BY <1>1, <1>3, <1>4, <2>1 DEF In
  <2>2. ASSUME i = step
        PROVE  In(i)'
    BY <1>1, <1>3, <1>4, <2>2 DEF In
  <2>3. ASSUME i > step
        PROVE  Out(i)'
    <3>1. Plan[i] # Plan[step]
      BY <1>2, <1>3, <2>3
    <3>2. Out(i)
      BY <1>3, <2>3
    <3> QED
      BY <1>1, <1>4, <3>1, <3>2 DEF Out
  <2>4. (i < step' <=> i < step \/ i = step) /\ (i < step \/ i = step \/ i > step)
    BY <1>1, <1>2, <1>3
  <2> QED
    BY <2>1, <2>2, <2>3, <2>4
<1>9. /\ step' \in 1..(Len(Plan) + 1)
      /\ pc' = "tables" => owner = "bridge" /\ step' = 3 /\ ~tables
      /\ pc' = "patch" /\ owner = "bridge" => (tables <=> step' >= 3)
  BY <1>1, <1>2, <1>3
<1>10. Progress'
  BY <1>1, <1>2, <1>3, <1>4, <1>8, <1>9 DEF Progress
<1> QED
  BY <1>1, <1>5, <1>6, <1>7, <1>10, GoingOn DEF InstallInv

\* After its named point the bridge moves the DoT tables.
LEMMA MoveTablesKeeps ==
    ASSUME InstallInv, MoveTables
    PROVE  InstallInv'
<1>1. /\ pc = "tables" /\ pc' = "patch" /\ tables' = TRUE
      /\ \/ call' = call
         \/ call.phase \in {"tables", "late"} /\ call' = [call EXCEPT !.phase = "crashed"]
      /\ UNCHANGED <<host, owner, step, site, original, code, restores, failed>>
  BY DEF MoveTables, At, WriteTables
<1>2. /\ owner \in {"bridge", "tracer"} /\ DOMAIN Plan = 1..Len(Plan) /\ Len(Plan) \in 2..4
  BY <1>1, PlanAtWork
<1>3. /\ Approved(owner)
      /\ owner = "bridge" /\ step = 3
      /\ step \in 1..(Len(Plan) + 1)
      /\ \A i \in DOMAIN Plan : IF i < step THEN In(i) ELSE Out(i)
  BY <1>1, <1>2 DEF InstallInv, Progress, Working
<1>4. UNCHANGED Plan /\ Approved(owner)'
  BY <1>1, <1>3, PlansStay DEF Plan, Approved, host
<1>5. TypeOK'
  BY <1>1 DEF InstallInv, TypeOK, host
<1>6. OwnerStep
  BY <1>1, <1>3 DEF OwnerStep, InstallInv, TypeOK
<1>7. Torn'
  BY <1>1 DEF Torn, InstallInv
<1>8. Progress'
  BY <1>1, <1>3, <1>4 DEF Progress, In, Out
<1> QED
  BY <1>1, <1>5, <1>6, <1>7, <1>8, GoingOn DEF InstallInv

\* The rollback's steps keep the invariant.
LEMMA PatchFailsKeeps ==
    ASSUME InstallInv, PatchFails
    PROVE  InstallInv'
<1>1. /\ pc = "patch" /\ pc' = "restore" /\ step \in DOMAIN Plan
      /\ step' = step - 1 /\ failed' = TRUE
      /\ UNCHANGED <<host, owner, site, original, code, restores, tables, call>>
  BY DEF PatchFails, At, FirstToRestore
<1>2. /\ owner \in {"bridge", "tracer"} /\ DOMAIN Plan = 1..Len(Plan) /\ Len(Plan) \in 2..4
  BY <1>1, PlanAtWork
<1>3. /\ Approved(owner)
      /\ \A i \in DOMAIN Plan : IF i < step THEN In(i) ELSE Out(i)
  BY <1>1, <1>2 DEF InstallInv, Progress, Working
<1>4. UNCHANGED Plan /\ Approved(owner)'
  BY <1>1, <1>3, PlansStay DEF Plan, Approved, host
<1>5. TypeOK'
  BY <1>1, <1>2 DEF InstallInv, TypeOK, host
<1>6. OwnerStep
  BY <1>1, <1>2 DEF OwnerStep, InstallInv, TypeOK
<1>7. Torn'
  BY <1>1 DEF Torn, InstallInv
<1>8. step' \in 0..Len(Plan) /\ \A i \in DOMAIN Plan : i > step' => Undone(i)'
  <2>1. step' \in 0..Len(Plan) /\ \A i \in DOMAIN Plan : i > step' => ~(i < step)
    BY <1>1, <1>2
  <2>2. \A i \in DOMAIN Plan : Out(i) => Undone(i)'
    BY <1>1, <1>4 DEF Out, Undone
  <2> QED
    BY <1>3, <2>1, <2>2
<1>9. Progress'
  BY <1>1, <1>4, <1>8 DEF Progress
<1> QED
  BY <1>1, <1>5, <1>6, <1>7, <1>9, GoingOn DEF InstallInv

\* A rollback begins to put the native bytes back, or fails to write them.
LEMMA RestoreKeeps ==
    ASSUME InstallInv, Restore
    PROVE  InstallInv'
<1>1. /\ pc = "restore" /\ pc' \in {"unwrite", "free"} /\ step > 0
      /\ \/ /\ pc' = "unwrite" /\ site' = [site EXCEPT ![Plan[step]] = "torn"]
            /\ UNCHANGED restores
         \/ pc' = "free" /\ restores > 0 /\ restores' = restores - 1 /\ UNCHANGED site
      /\ UNCHANGED <<host, owner, step, original, code, tables, failed, call>>
  BY DEF Restore, At
<1>2. /\ owner \in {"bridge", "tracer"} /\ DOMAIN Plan = 1..Len(Plan) /\ Len(Plan) \in 2..4
      /\ \A i \in DOMAIN Plan : Plan[i] \in Points \ {"swap"} /\ Patches(owner, Plan[i])
      /\ \A i, j \in DOMAIN Plan : Plan[i] = Plan[j] => i = j
  BY <1>1, PlanAtWork
<1>3. /\ Approved(owner)
      /\ step \in DOMAIN Plan
      /\ failed
      /\ \A i \in DOMAIN Plan : i > step => Undone(i)
  BY <1>1, <1>2 DEF InstallInv, Progress, Working
<1>4. UNCHANGED Plan /\ Approved(owner)'
  BY <1>1, <1>3, PlansStay DEF Plan, Approved, host
<1>5. restores \in 0..RestoreFaults /\ restores' \in 0..restores
  BY <1>1 DEF InstallInv, TypeOK
<1>6. TypeOK'
  BY <1>1, <1>2, <1>5, InstallAssumption DEF InstallInv, TypeOK, host
<1>7. /\ restores' = RestoreFaults => pc' = "unwrite" /\ restores = RestoreFaults
      /\ pc' = "unwrite" => site'[Plan[step]] = "torn"
      /\ pc' = "free" => UNCHANGED site
      /\ \A p \in Points : p # Plan[step] => site'[p] = site[p]
      /\ \A p \in Points : site'[p] = site[p] \/ (p = Plan[step] /\ site'[p] = "torn")
  <2>1. DOMAIN site = Points /\ Plan[step] \in Points
    BY <1>2, <1>3 DEF InstallInv, TypeOK
  <2>2. CASE pc' = "unwrite" /\ site' = [site EXCEPT ![Plan[step]] = "torn"] /\ UNCHANGED restores
    BY <2>1, <2>2
  <2>3. CASE pc' = "free" /\ restores > 0 /\ restores' = restores - 1 /\ UNCHANGED site
    BY <1>5, <2>3, InstallAssumption
  <2> QED
    BY <1>1, <2>2, <2>3
<1>8. OwnerStep
  BY <1>1, <1>2, <1>3, <1>5, <1>7 DEF OwnerStep
<1>9. Torn'
  BY <1>1, <1>4, <1>7 DEF Torn, InstallInv
<1>10. \A i \in DOMAIN Plan : i > step => Undone(i)'
  BY <1>1, <1>2, <1>3, <1>4, <1>7 DEF Undone
<1>11. Progress'
  BY <1>1, <1>3, <1>4, <1>7, <1>10 DEF Progress
<1> QED
  BY <1>1, <1>6, <1>8, <1>9, <1>11, GoingOn DEF InstallInv

\* The native bytes are back.
LEMMA UnwriteKeeps ==
    ASSUME InstallInv, Unwrite
    PROVE  InstallInv'
<1>1. /\ pc = "unwrite" /\ pc' = "free"
      /\ site' = [site EXCEPT ![Plan[step]] = "native"]
      /\ UNCHANGED <<host, owner, step, original, code, restores, tables, failed, call>>
  BY DEF Unwrite, At
<1>2. /\ owner \in {"bridge", "tracer"} /\ DOMAIN Plan = 1..Len(Plan) /\ Len(Plan) \in 2..4
      /\ \A i \in DOMAIN Plan : Plan[i] \in Points \ {"swap"} /\ Patches(owner, Plan[i])
      /\ \A i, j \in DOMAIN Plan : Plan[i] = Plan[j] => i = j
  BY <1>1, PlanAtWork
<1>3. /\ Approved(owner)
      /\ step \in DOMAIN Plan
      /\ failed
      /\ \A i \in DOMAIN Plan : i > step => Undone(i)
  BY <1>1, <1>2 DEF InstallInv, Progress, Working
<1>4. UNCHANGED Plan /\ Approved(owner)'
  BY <1>1, <1>3, PlansStay DEF Plan, Approved, host
<1>5. TypeOK'
  BY <1>1, <1>2 DEF InstallInv, TypeOK, host
<1>6. /\ site'[Plan[step]] = "native"
      /\ \A p \in Points : p # Plan[step] => site'[p] = site[p]
  BY <1>1, <1>2, <1>3 DEF InstallInv, TypeOK
<1>7. OwnerStep
  BY <1>1, <1>2, <1>3, <1>6 DEF OwnerStep, InstallInv, TypeOK
<1>8. Torn'
  BY <1>1, <1>2, <1>4, <1>6 DEF Torn, InstallInv
<1>9. \A i \in DOMAIN Plan : i > step => Undone(i)'
  BY <1>1, <1>2, <1>3, <1>4, <1>6 DEF Undone
<1>10. Progress'
  BY <1>1, <1>3, <1>4, <1>6, <1>9 DEF Progress
<1> QED
  BY <1>1, <1>5, <1>7, <1>8, <1>10, GoingOn DEF InstallInv

\* The trampoline of the point just restored is freed.
LEMMA FreeKeeps ==
    ASSUME InstallInv, Free
    PROVE  InstallInv'
<1>1. /\ pc = "free" /\ pc' = "restore" /\ step' = step - 1
      /\ code' = code \ {<<owner, Plan[step]>>}
      /\ UNCHANGED <<host, owner, site, original, restores, tables, failed, call>>
  BY DEF Free, At
<1>2. /\ owner \in {"bridge", "tracer"} /\ DOMAIN Plan = 1..Len(Plan) /\ Len(Plan) \in 2..4
  BY <1>1, PlanAtWork
<1>3. /\ Approved(owner)
      /\ step \in DOMAIN Plan
      /\ failed
      /\ \A i \in DOMAIN Plan : i > step => Undone(i)
      /\ restores = RestoreFaults => site[Plan[step]] = "native"
  BY <1>1, <1>2 DEF InstallInv, Progress, Working
<1>4. UNCHANGED Plan /\ Approved(owner)'
  BY <1>1, <1>3, PlansStay DEF Plan, Approved, host
<1>5. TypeOK'
  BY <1>1, <1>2, <1>3 DEF InstallInv, TypeOK, host
<1>6. OwnerStep
  BY <1>1, <1>2 DEF OwnerStep, InstallInv, TypeOK
<1>7. Torn'
  BY <1>1 DEF Torn, InstallInv
<1>8. step' \in 0..Len(Plan) /\ \A i \in DOMAIN Plan : i > step' => Undone(i)'
  BY <1>1, <1>2, <1>3, <1>4 DEF Undone
<1>9. Progress'
  BY <1>1, <1>3, <1>4, <1>8 DEF Progress
<1> QED
  BY <1>1, <1>5, <1>6, <1>7, <1>9, GoingOn DEF InstallInv

\* The rollback's end leaves nothing, unless a restore could not write.
LEMMA ClearKeeps ==
    ASSUME InstallInv, Clear
    PROVE  InstallInv'
<1>1. /\ pc = "restore" /\ step <= 0 /\ original' = Cleared /\ FinishInstaller
      /\ tables' = (tables /\ owner # "bridge")
      /\ \/ call' = call
         \/ call.phase \in {"tables", "late"} /\ call' = [call EXCEPT !.phase = "crashed"]
      /\ UNCHANGED <<host, site, code, restores, failed>>
  BY DEF Clear, At, WriteTables, TablesAfterRollback
<1>2. /\ owner \in {"bridge", "tracer"} /\ DOMAIN Plan = 1..Len(Plan) /\ Len(Plan) \in 2..4
      /\ \A p : Patches(owner, p) <=> \E i \in DOMAIN Plan : Plan[i] = p
  BY <1>1, PlanAtWork
<1>3. failed /\ \A i \in DOMAIN Plan : Undone(i)
  BY <1>1, <1>2 DEF InstallInv, Progress, Working
<1>4. \A p \in Points : /\ <<owner, p>> \notin original' \union code'
                        /\ restores' = RestoreFaults => site'[p] # owner
  <2> SUFFICES ASSUME NEW p \in Points
               PROVE  /\ <<owner, p>> \notin original' \union code'
                      /\ restores' = RestoreFaults => site'[p] # owner
    OBVIOUS
  <2>1. <<owner, p>> \notin original'
    BY <1>1 DEF Cleared
  <2>2. CASE Patches(owner, p)
    BY <1>1, <1>2, <1>3, <2>1, <2>2 DEF Undone
  <2>3. CASE ~Patches(owner, p)
    BY <1>1, <1>2, <2>1, <2>3 DEF InstallInv, Entitled
  <2> QED
    BY <2>2, <2>3
<1>5. /\ owner = "bridge" => Settled("bridge")'
      /\ owner = "tracer" => Settled("tracer")'
  BY <1>1, <1>4 DEF Settled, Nothing
<1>6. \A p \in Points : site'[p] # "torn"
  BY <1>1 DEF InstallInv, Torn
<1>7. \A o \in Owners \ {owner}, p \in Points : <<o, p>> \in original' <=> <<o, p>> \in original
  BY <1>1 DEF Cleared
<1>8. OwnerStep
  BY <1>1, <1>2, <1>4, <1>7 DEF OwnerStep, InstallInv, TypeOK, FinishInstaller
<1>9. TypeOK'
  BY <1>1 DEF InstallInv, TypeOK, host, FinishInstaller, Owners, Cleared
<1> QED
  BY <1>1, <1>3, <1>5, <1>6, <1>8, <1>9, Finishing DEF InstallInv

\* The installer's good end, and the tracer's output that cannot be created.
LEMMA InstalledKeeps ==
    ASSUME InstallInv, Installed
    PROVE  InstallInv'
<1>1. /\ pc = "patch" /\ step > Len(Plan) /\ FinishInstaller
      /\ UNCHANGED <<host, site, original, code, restores, tables, failed, call>>
  BY DEF Installed, At
<1>2. /\ owner \in {"bridge", "tracer"} /\ DOMAIN Plan = 1..Len(Plan) /\ Len(Plan) \in 2..4
      /\ owner = "bridge" => Len(Plan) >= 3
      /\ step \in 0..5
  BY <1>1, PlanAtWork DEF InstallInv, TypeOK
<1>3. /\ \A i \in DOMAIN Plan : IF i < step THEN In(i) ELSE Out(i)
      /\ owner = "bridge" => (tables <=> step >= 3)
  BY <1>1, <1>2 DEF InstallInv, Progress, Working
<1>4. (\A i \in DOMAIN Plan : In(i)) /\ (owner = "bridge" => tables)
  BY <1>1, <1>2, <1>3
<1>5. \A o : PlanOf(o)' = PlanOf(o)
  BY <1>1, PlansStay
<1>6. /\ owner = "bridge" => Settled("bridge")'
      /\ owner = "tracer" => Settled("tracer")'
  BY <1>1, <1>4, <1>5 DEF Settled, Full, In, Plan
<1>7. ASSUME owner = "tracer"
      PROVE  site'["corridor"] = "tracer"
  <2>1. 1 \in DOMAIN Plan /\ Plan[1] = "corridor"
    BY <1>7, PlanFacts DEF Plan
  <2> QED
    BY <1>1, <1>4, <1>7, <2>1 DEF In
<1>8. \A p \in Points : site'[p] # "torn"
  BY <1>1 DEF InstallInv, Torn
<1>9. OwnerStep
  BY <1>1, <1>2 DEF OwnerStep, InstallInv, TypeOK, FinishInstaller
<1>10. TypeOK'
  BY <1>1 DEF InstallInv, TypeOK, host, FinishInstaller, Owners
<1> QED
  BY <1>1, <1>6, <1>7, <1>8, <1>9, <1>10, Finishing DEF InstallInv

\* A tracer without its file ends before it patches anything.
LEMMA NoTraceFileKeeps ==
    ASSUME InstallInv, NoTraceFile
    PROVE  InstallInv'
<1>1. /\ pc = "patch" /\ owner = "tracer" /\ step = 1 /\ failed' = TRUE /\ FinishInstaller
      /\ UNCHANGED <<host, site, original, code, restores, tables, call>>
  BY DEF NoTraceFile, At
<1>2. DOMAIN Plan = 1..Len(Plan) /\ Len(Plan) \in 2..4
  BY <1>1, PlanAtWork
<1>3. \A i \in DOMAIN Plan : Out(i)
  BY <1>1, <1>2 DEF InstallInv, Progress, Working
<1>4. Nothing("tracer")
  BY <1>1, <1>3, NothingOfThePlan DEF Out
<1>5. Settled("tracer")'
  BY <1>1, <1>4 DEF Settled, Nothing
<1>6. \A p \in Points : site'[p] # "torn"
  BY <1>1 DEF InstallInv, Torn
<1>7. OwnerStep
  BY <1>1 DEF OwnerStep, InstallInv, TypeOK, FinishInstaller
<1>8. TypeOK'
  BY <1>1 DEF InstallInv, TypeOK, host, FinishInstaller, Owners
<1> QED
  BY <1>1, <1>5, <1>6, <1>7, <1>8, Finishing DEF InstallInv

-----------------------------------------------------------------------------
(* The import's steps, the game's calls, and all steps together.             *)

\* Putting the import's hook in keeps the invariant.
LEMMA SwapWriteKeeps ==
    ASSUME InstallInv, SwapWrite
    PROVE  InstallInv'
<1>1. /\ pc = "swap" /\ step \in 1..2 /\ step' = step + 1
      /\ step = 1 => original' = original \union {<<"render", "swap">>} /\ UNCHANGED site
      /\ step = 2 => site' = [site EXCEPT !["swap"] = "render"] /\ UNCHANGED original
      /\ UNCHANGED <<host, pc, owner, code, restores, tables, failed, call>>
  BY DEF SwapWrite, At, SwapOrder
<1>2. owner = "render" /\ supported
  BY <1>1 DEF InstallInv, Turns, TypeOK, Owners
<1>3. /\ \A p \in Points : site'[p] = IF p = "swap" /\ step = 2 THEN "render" ELSE site[p]
      /\ \A o \in {"bridge", "tracer"}, p \in Points :
            <<o, p>> \in original' <=> <<o, p>> \in original
  BY <1>1 DEF InstallInv, TypeOK
<1>4. TypeOK'
  BY <1>1 DEF InstallInv, TypeOK, host, Owners, Points
<1>5. Swap'
  BY <1>1, <1>2, <1>3 DEF InstallInv, Swap, Points, host
<1>6. \A o : (Patches(o, "swap")' <=> Patches(o, "swap")) /\ PlanOf(o)' = PlanOf(o)
  BY <1>1, PlansStay DEF Patches
<1>7. Entitled'
  <2>1. \A o, p : (Patches(o, p)' <=> Patches(o, p)) /\ (Approved(o)' <=> Approved(o))
    BY <1>1, <1>6 DEF Patches, Approved, host
  <2> QED
    BY <1>1, <1>3, <2>1 DEF InstallInv, Entitled
<1>8. Torn'
  BY <1>1, <1>3 DEF InstallInv, Torn
<1>9. Turns'
  <2>1. \A o \in {"bridge", "tracer"} : Nothing(o) => Nothing(o)'
    BY <1>1, <1>3 DEF Nothing
  <2> QED
    BY <1>1, <1>2, <2>1 DEF InstallInv, Turns, host
<1>10. Progress' /\ TracersTurn'
  BY <1>1, <1>2 DEF Progress, Working, TracersTurn
<1>11. Calls'
  BY <1>1 DEF InstallInv, Calls, SettledCallsSucceed, TypeOK
<1> QED
  BY <1>4, <1>5, <1>7, <1>8, <1>9, <1>10, <1>11 DEF InstallInv

\* After the render hook it is the bridge that verifies its plan.
LEMMA SwapReturnsKeeps ==
    ASSUME InstallInv, SwapReturns
    PROVE  InstallInv'
<1>1. /\ pc = "swap" /\ pc' = "verify" /\ owner' = "bridge" /\ step' = 1
      /\ failed' \in BOOLEAN
      /\ UNCHANGED <<host, site, original, code, restores, tables, call>>
  BY DEF SwapReturns, At, InstallInv, TypeOK
<1>2. owner = "render" /\ supported /\ Nothing("bridge") /\ Nothing("tracer") /\ ~tables
  BY <1>1 DEF InstallInv, Turns, TypeOK, Owners
<1>3. TypeOK'
  BY <1>1 DEF InstallInv, TypeOK, host, Owners
<1>4. Swap' /\ Torn' /\ TracersTurn'
  BY <1>1 DEF InstallInv, Swap, Torn, TracersTurn, host
<1>5. Entitled'
  <2>1. \A o : PlanOf(o)' = PlanOf(o)
    BY <1>1, PlansStay
  <2>2. \A o, p : (Patches(o, p)' <=> Patches(o, p)) /\ (Approved(o)' <=> Approved(o))
    BY <1>1, <2>1 DEF Patches, Approved, host
  <2> QED
    BY <1>1, <2>2 DEF InstallInv, Entitled
<1>6. Turns'
  BY <1>1, <1>2 DEF Turns, Nothing, host
<1>7. Progress'
  BY <1>1, <1>2 DEF Progress, Nothing
<1>8. Calls'
  BY <1>1 DEF InstallInv, Calls, SettledCallsSucceed
<1> QED
  BY <1>3, <1>4, <1>5, <1>6, <1>7, <1>8 DEF InstallInv

\* Once the worker has finished and no restore has failed, every jump leads to
\* a hook whose pointer is assigned and whose trampoline is allocated.
LEMMA SettledHooks ==
    ASSUME InstallInv, pc = "done", restores = RestoreFaults,
           NEW p \in Points, site[p] # "native"
    PROVE  site[p] \in Owners /\ <<site[p], p>> \in original \intersect code
<1>1. site[p] \in Owners
  BY DEF InstallInv, TypeOK, Torn
<1>2. CASE site[p] = "render"
  <2>1. p = "swap"
    BY <1>2 DEF InstallInv, Entitled
  <2> QED
    BY <1>1, <1>2, <2>1 DEF InstallInv, Swap
<1>3. ASSUME NEW o \in {"bridge", "tracer"}, site[p] = o
      PROVE  <<o, p>> \in original \intersect code
  <2>1. ~Nothing(o) /\ Patches(o, p)
    BY <1>3 DEF InstallInv, Entitled, Nothing
  <2>2. Settled(o)
    BY <2>1 DEF InstallInv, Turns, TypeOK, Owners, Settled
  <2> QED
    BY <2>1, <2>2 DEF Settled, Full, Patches
<1> QED
  BY <1>1, <1>2, <1>3 DEF Owners

\* The game's calls keep the invariant.
LEMMA GameKeeps ==
    ASSUME InstallInv, Game
    PROVE  InstallInv'
<1>1. UNCHANGED <<host, pc, owner, step, site, original, code, restores, tables, failed>>
  BY DEF Game, LookUp, CallOriginal, RunTrampoline, EndCall, Enter
<1>2. \A o : PlanOf(o)' = PlanOf(o)
  BY <1>1, PlansStay
<1>3. UNCHANGED Plan
  BY <1>1, <1>2 DEF Plan
<1>4. Turns'
  BY <1>1, <1>2 DEF InstallInv, Turns, Settled, Full, Nothing, host
<1>5. Swap' /\ Torn' /\ TracersTurn'
  BY <1>1, <1>3 DEF InstallInv, Swap, Torn, TracersTurn, host
<1>6. \A o, p : (Patches(o, p)' <=> Patches(o, p)) /\ (Approved(o)' <=> Approved(o))
  BY <1>1, <1>2 DEF Patches, Approved, host
<1>7. Entitled'
  BY <1>1, <1>6 DEF InstallInv, Entitled
<1>8. Progress'
  <2>1. Approved(owner)' <=> Approved(owner)
    BY <1>1, <1>2 DEF Approved, host
  <2>2. \A i : /\ In(i)' <=> In(i)
               /\ Out(i)' <=> Out(i)
               /\ Undone(i)' <=> Undone(i)
    BY <1>1, <1>3 DEF In, Out, Undone
  <2> QED
    BY <1>1, <1>3, <2>1, <2>2 DEF InstallInv, Progress, Working, Nothing
<1>9. ASSUME NEW p \in Points, Enter(p)
      PROVE  TypeOK' /\ Calls'
  <2>1. /\ site[p] # "native"
        /\ site[p] \in Owners \union {"torn"}
        /\ call' = [point |-> p, settled |-> pc = "done",
                    owner |-> IF site[p] = "torn" THEN owner ELSE site[p],
                    phase |-> IF site[p] = "torn" THEN "crashed" ELSE "hook"]
    BY <1>9 DEF Enter, InstallInv, TypeOK
  <2>2. TypeOK'
    BY <1>1, <2>1 DEF InstallInv, TypeOK, host, Owners
  <2>3. p = "swap" => site[p] = "render" /\ <<"render", "swap">> \in original
    BY <2>1 DEF InstallInv, Swap
  <2>4. pc = "done" => site[p] # "torn"
    BY DEF InstallInv, Torn
  <2>5. pc = "done" /\ restores = RestoreFaults => <<site[p], p>> \in original \intersect code
    BY <2>1, SettledHooks
  <2> QED
    BY <1>1, <2>1, <2>2, <2>3, <2>4, <2>5 DEF Calls, SettledCallsSucceed
<1>10. ASSUME LookUp
       PROVE  TypeOK' /\ Calls'
  BY <1>1, <1>10 DEF InstallInv, TypeOK, Calls, SettledCallsSucceed, LookUp, host
<1>11. ASSUME CallOriginal
       PROVE  TypeOK' /\ Calls'
  BY <1>1, <1>11 DEF InstallInv, TypeOK, Calls, SettledCallsSucceed, CallOriginal, host
<1>12. ASSUME RunTrampoline
       PROVE  TypeOK' /\ Calls'
  <2>1. /\ call.phase = "original"
        /\ \/ call' = [call EXCEPT !.phase = "after"]
           \/ /\ <<call.owner, call.point>> \notin code
              /\ call' = [call EXCEPT !.phase = "crashed"]
    BY <1>12 DEF RunTrampoline
  <2>2. TypeOK'
    BY <1>1, <2>1 DEF InstallInv, TypeOK, host
  <2>3. CASE call' = [call EXCEPT !.phase = "after"]
    BY <1>1, <2>1, <2>2, <2>3 DEF InstallInv, TypeOK, Calls, SettledCallsSucceed
  <2>4. CASE <<call.owner, call.point>> \notin code /\ call' = [call EXCEPT !.phase = "crashed"]
    <3>1. call.point # "swap" /\ (restores = RestoreFaults => ~call.settled)
      BY <2>1, <2>4 DEF InstallInv, Swap, Calls
    <3>2. /\ call'.phase = "crashed" /\ call'.point = call.point
          /\ call'.owner = call.owner /\ call'.settled = call.settled
      BY <2>4 DEF InstallInv, TypeOK
    <3> QED
      BY <1>1, <2>2, <3>1, <3>2 DEF InstallInv, Calls, SettledCallsSucceed
  <2> QED
    BY <2>1, <2>2, <2>3, <2>4
<1>13. ASSUME EndCall
       PROVE  TypeOK' /\ Calls'
  <2>1. call' = NoCall
    BY <1>13 DEF EndCall
  <2>2. NoCall.phase = "none" /\ NoCall.settled = FALSE
    BY DEF NoCall
  <2>3. TypeOK'
    BY <1>1, <2>1 DEF InstallInv, TypeOK, host, NoCall, Owners, Points
  <2> QED
    BY <1>1, <2>1, <2>2, <2>3 DEF Calls, SettledCallsSucceed
<1> QED
  BY <1>4, <1>5, <1>7, <1>8, <1>9, <1>10, <1>11, <1>12, <1>13 DEF InstallInv, Game

\* Nothing has been touched yet.
LEMMA InstallInit == Init => InstallInv
<1> SUFFICES ASSUME Init PROVE InstallInv
  OBVIOUS
<1>1. /\ pc = (IF supported THEN "swap" ELSE "done") /\ owner = "render" /\ step = 1
      /\ \A p \in Points : site[p] = "native"
      /\ original = {} /\ code = {<<"render", "swap">>} /\ restores = RestoreFaults
      /\ tables = FALSE /\ failed = FALSE /\ call = NoCall
  BY DEF Init, FirstStage
<1>2. call \in [point : Points, owner : Owners, settled : BOOLEAN,
                phase : {"none", "hook", "tables", "original", "after", "late", "crashed"}]
  BY <1>1 DEF NoCall, Points, Owners
<1>3. original \subseteq Owners \X Points /\ code \subseteq Owners \X Points
  BY <1>1 DEF Points, Owners
<1>4. site \in [Points -> Owners \union {"native", "torn"}]
  BY DEF Init
<1>5. TypeOK
  <2>1. supported \in BOOLEAN /\ traced \in BOOLEAN /\ profile \in Profiles
    BY DEF Init
  <2>2. restores \in 0..RestoreFaults
    BY <1>1, InstallAssumption
  <2>3. pc = "swap" \/ pc = "done"
    BY <1>1
  <2>4. owner \in Owners /\ step \in 0..5
    BY <1>1 DEF Owners
  <2>5. tables \in BOOLEAN /\ failed \in BOOLEAN
    BY <1>1
  <2> QED
    BY <1>2, <1>3, <1>4, <2>1, <2>2, <2>3, <2>4, <2>5 DEF TypeOK
<1>6. Turns /\ Swap
  BY <1>1 DEF Turns, Swap, Nothing, Points
<1>7. Entitled /\ Torn /\ Progress /\ TracersTurn /\ Calls
  BY <1>1 DEF Entitled, Torn, Progress, Working, TracersTurn, Calls, SettledCallsSucceed, NoCall
<1> QED
  BY <1>5, <1>6, <1>7 DEF InstallInv

\* No step of the worker or of the game breaks the installers' invariant.
LEMMA InstallNext == InstallInv /\ [Next]_vars => InstallInv'
<1> SUFFICES ASSUME InstallInv, [Next]_vars PROVE InstallInv'
  OBVIOUS
<1>1. CASE Install
  BY <1>1, SwapWriteKeeps, SwapReturnsKeeps, VerifyKeeps, NoTraceFileKeeps, PatchKeeps,
     WriteKeeps, PublishKeeps, MoveTablesKeeps, InstalledKeeps, PatchFailsKeeps,
     RestoreKeeps, UnwriteKeeps, FreeKeeps, ClearKeeps DEF Install
<1>2. CASE Game
  BY <1>2, GameKeeps
<1>3. CASE UNCHANGED vars
  <2>1. UNCHANGED <<host, pc, owner, step, site, original, code, restores, tables, failed, call>>
    BY <1>3 DEF vars, host
  <2>2. \A o : PlanOf(o)' = PlanOf(o)
    BY <2>1, PlansStay
  <2>3. UNCHANGED Plan
    BY <2>1, <2>2 DEF Plan
  <2>4. Turns'
    BY <2>1, <2>2 DEF InstallInv, Turns, Settled, Full, Nothing, host
  <2>5. \A o, p : (Patches(o, p)' <=> Patches(o, p)) /\ (Approved(o)' <=> Approved(o))
    BY <2>1, <2>2 DEF Patches, Approved, host
  <2>6. Entitled'
    BY <2>1, <2>5 DEF InstallInv, Entitled
  <2>7. Progress'
    <3>1. Approved(owner)' <=> Approved(owner)
      BY <2>1, <2>2 DEF Approved, host
    <3>2. \A i : /\ In(i)' <=> In(i)
                 /\ Out(i)' <=> Out(i)
                 /\ Undone(i)' <=> Undone(i)
      BY <2>1, <2>3 DEF In, Out, Undone
    <3> QED
      BY <2>1, <2>3, <3>1, <3>2 DEF InstallInv, Progress, Working, Nothing
  <2> QED
    BY <2>1, <2>3, <2>4, <2>6, <2>7
       DEF InstallInv, TypeOK, Swap, Torn, TracersTurn, Calls, SettledCallsSucceed, host
<1> QED
  BY <1>1, <1>2, <1>3 DEF Next

-----------------------------------------------------------------------------
(* The inductive invariant of the whole.                                     *)

\* Who is in the forwarders, and what the one-time load has done for them.
Forwarding ==
    /\ once = "done" => winmm = "all"
    /\ \A t \in Threads :
          /\ place[t] \in {"start", "create", "forward"} => once = "done"
          /\ place[t] = "load" => once = t
          /\ place[t] = "forward" => state # 0

\* One worker, created by the one thread that won the exchange.
OneWorker ==
    /\ state = 0 => workers = 0
    /\ \A t \in Threads : place[t] = "create" => state = 1 /\ workers = 0
    /\ \A t, u \in Threads : place[t] = "create" /\ place[u] = "create" => t = u
    /\ workers = 0 => worker = "none"

\* What the worker has done by the stage it is at.
Stages ==
    /\ worker \in {"paths", "scan", "install"} => state = 1
    /\ runtime => worker \in {"install", "done"}
    /\ worker = "install" => runtime
    /\ \A t \in Threads : place[t] = "tick" => runtime

BootInv ==
    /\ BootTypeOK /\ InstallInv
    /\ Forwarding /\ OneWorker /\ Stages /\ ReadyMeansReady

-----------------------------------------------------------------------------
(* The steps of the whole.                                                   *)

\* Only the worker's installing and the game's calls touch the installers' state.
LEMMA BootIsInstall == BootNext => [Next]_vars
  BY DEF BootNext, Forwarder, Tick, Call, EnterOnce, LoadFails, LoadSucceeds, StartAsync,
     CreateWorker, Return, Worker, PathsFail, Paths, Scan, Installing, Settle, Next

\* Everybody starts outside.
LEMMA BootInitial == BootInit => BootInv
<1> SUFFICES ASSUME BootInit PROVE BootInv
  OBVIOUS
<1>1. InstallInv
  BY InstallInit DEF BootInit
<1>2. BootTypeOK
  <2>1. TypeOK /\ once \in Threads \union {Nobody, "done"} /\ loads \in 0..LoadFaults
    BY <1>1, BootstrapAssumption DEF BootInit, InstallInv
  <2>2. place \in [Threads -> {Idle, "ready", "load", "start", "create", "forward",
                               "fallback", "tick"}]
    BY DEF BootInit
  <2>3. winmm = "none" /\ state = 0 /\ worker = "none" /\ workers = 0
    BY DEF BootInit
  <2>4. core \in BOOLEAN /\ runtime \in BOOLEAN
    BY DEF BootInit
  <2> QED
    BY <2>1, <2>2, <2>3, <2>4 DEF BootTypeOK
<1>3. Forwarding /\ OneWorker /\ Stages /\ ReadyMeansReady
  BY BootstrapAssumption DEF BootInit, Forwarding, OneWorker, Stages, ReadyMeansReady, Idle
<1> QED
  BY <1>1, <1>2, <1>3 DEF BootInv

\* A step that leaves the installers' state alone leaves what ReadyMeansReady
\* says of it alone.
LEMMA InstallersStay ==
    ASSUME BootInv, UNCHANGED vars
    PROVE  TypeOK' /\ InstallInv' /\ UNCHANGED <<supported, pc, site>>
  BY InstallNext DEF BootInv, InstallInv, vars

\* The forwarders' steps keep the invariant.
LEMMA ForwarderKeeps ==
    ASSUME BootInv, NEW t \in Threads, Forwarder(t) \/ Tick(t) \/ Return(t)
    PROVE  BootInv'
<1>1. /\ UNCHANGED <<vars, once, winmm, loads, boot>>
      /\ \/ once = "done" /\ place' = [place EXCEPT ![t] = "start"]
         \/ place' = [place EXCEPT ![t] = "ready"]
         \/ runtime /\ place' = [place EXCEPT ![t] = "tick"]
         \/ place' = [place EXCEPT ![t] = Idle]
  BY DEF Forwarder, Tick, Return, Goto
<1>2. TypeOK' /\ InstallInv' /\ UNCHANGED <<supported, pc, site>>
  BY <1>1, InstallersStay
<1>3. BootTypeOK'
  BY <1>1, <1>2 DEF BootInv, BootTypeOK, boot, Idle
<1>4. Forwarding' /\ OneWorker' /\ Stages'
  BY <1>1 DEF BootInv, BootTypeOK, Forwarding, OneWorker, Stages, boot, Idle
<1>5. ReadyMeansReady'
  BY <1>1, <1>2 DEF BootInv, ReadyMeansReady, boot
<1> QED
  BY <1>2, <1>3, <1>4, <1>5 DEF BootInv

\* The one-time load keeps the invariant: whoever is in it holds the flag.
LEMMA LoadKeeps ==
    ASSUME BootInv, NEW t \in Threads, EnterOnce(t) \/ LoadFails(t) \/ LoadSucceeds(t)
    PROVE  BootInv'
<1>1. UNCHANGED <<vars, boot>>
  BY DEF EnterOnce, LoadFails, LoadSucceeds
<1>2. TypeOK' /\ InstallInv' /\ UNCHANGED <<supported, pc, site>>
  BY <1>1, InstallersStay
<1>3. place \in [Threads -> {Idle, "ready", "load", "start", "create", "forward",
                             "fallback", "tick"}]
  BY DEF BootInv, BootTypeOK
<1>4. ASSUME EnterOnce(t)
      PROVE  BootTypeOK' /\ Forwarding' /\ OneWorker' /\ Stages'
  <2>1. /\ UNCHANGED <<winmm, loads>>
        /\ \/ once = "done" /\ place' = [place EXCEPT ![t] = "start"] /\ UNCHANGED once
           \/ once = Nobody /\ place' = [place EXCEPT ![t] = "load"] /\ once' = t
    BY <1>4 DEF EnterOnce, Goto
  <2>2. BootTypeOK'
    BY <1>1, <1>2, <2>1 DEF BootInv, BootTypeOK, boot
  <2>3. Forwarding'
    BY <1>1, <1>3, <2>1, BootstrapAssumption DEF BootInv, Forwarding, boot
  <2>4. OneWorker' /\ Stages'
    BY <1>1, <1>3, <2>1 DEF BootInv, OneWorker, Stages, boot
  <2> QED
    BY <2>2, <2>3, <2>4
<1>5. ASSUME LoadFails(t)
      PROVE  BootTypeOK' /\ Forwarding' /\ OneWorker' /\ Stages'
  <2>1. /\ place[t] = "load" /\ place' = [place EXCEPT ![t] = "fallback"]
        /\ loads > 0 /\ loads' = loads - 1
        /\ winmm' \in {winmm, "some"} /\ once' = Nobody
    BY <1>5 DEF LoadFails, Is, Goto, OnceAfterFailure
  <2>2. BootTypeOK'
    BY <1>1, <1>2, <2>1, BootstrapAssumption DEF BootInv, BootTypeOK, boot
  <2>3. once = t /\ once # "done" /\ Nobody # "done"
    BY <2>1, BootstrapAssumption DEF BootInv, Forwarding
  <2>4. Forwarding'
    BY <1>1, <1>3, <2>1, <2>3 DEF BootInv, Forwarding, boot
  <2>5. OneWorker' /\ Stages'
    BY <1>1, <1>3, <2>1 DEF BootInv, OneWorker, Stages, boot
  <2> QED
    BY <2>2, <2>4, <2>5
<1>6. ASSUME LoadSucceeds(t)
      PROVE  BootTypeOK' /\ Forwarding' /\ OneWorker' /\ Stages'
  <2>1. /\ place[t] = "load" /\ place' = [place EXCEPT ![t] = "start"]
        /\ winmm' = "all" /\ once' = "done" /\ UNCHANGED loads
    BY <1>6 DEF LoadSucceeds, Is, Goto
  <2>2. BootTypeOK'
    BY <1>1, <1>2, <2>1 DEF BootInv, BootTypeOK, boot
  <2>3. Forwarding'
    BY <1>1, <1>3, <2>1 DEF BootInv, Forwarding, boot
  <2>4. OneWorker' /\ Stages'
    BY <1>1, <1>3, <2>1 DEF BootInv, OneWorker, Stages, boot
  <2> QED
    BY <2>2, <2>3, <2>4
<1>7. ReadyMeansReady'
  BY <1>1, <1>2 DEF BootInv, ReadyMeansReady, boot
<1> QED
  BY <1>2, <1>4, <1>5, <1>6, <1>7 DEF BootInv

\* The exchange that decides who creates the worker, and the creation, keep
\* the invariant.
LEMMA StartKeeps ==
    ASSUME BootInv, NEW t \in Threads, StartAsync(t) \/ CreateWorker(t)
    PROVE  BootInv'
<1>1. UNCHANGED <<vars, once, winmm, loads, core, runtime>>
  BY DEF StartAsync, CreateWorker
<1>2. TypeOK' /\ InstallInv' /\ UNCHANGED <<supported, pc, site>>
  BY <1>1, InstallersStay
<1>3. place \in [Threads -> {Idle, "ready", "load", "start", "create", "forward",
                             "fallback", "tick"}]
  BY DEF BootInv, BootTypeOK
<1>4. ASSUME StartAsync(t)
      PROVE  BootTypeOK' /\ Forwarding' /\ OneWorker' /\ Stages' /\ ReadyMeansReady'
  <2>1. /\ place[t] = "start" /\ UNCHANGED <<worker, workers>>
        /\ \/ state = 0 /\ state' = 1 /\ place' = [place EXCEPT ![t] = "create"]
           \/ state # 0 /\ UNCHANGED state /\ place' = [place EXCEPT ![t] = "forward"]
    BY <1>4 DEF StartAsync, Is, Goto, MayStart
  <2>2. BootTypeOK'
    BY <1>1, <1>2, <2>1 DEF BootInv, BootTypeOK
  <2>3. Forwarding'
    BY <1>1, <1>3, <2>1 DEF BootInv, Forwarding
  <2>4. OneWorker'
    BY <1>1, <1>3, <2>1 DEF BootInv, OneWorker
  <2>5. Stages'
    BY <1>1, <1>3, <2>1 DEF BootInv, Stages
  <2>6. ReadyMeansReady'
    BY <1>1, <1>2, <2>1 DEF BootInv, ReadyMeansReady
  <2> QED
    BY <2>2, <2>3, <2>4, <2>5, <2>6
<1>5. ASSUME CreateWorker(t)
      PROVE  BootTypeOK' /\ Forwarding' /\ OneWorker' /\ Stages' /\ ReadyMeansReady'
  <2>1. /\ place[t] = "create" /\ place' = [place EXCEPT ![t] = "forward"]
        /\ \/ worker' = "paths" /\ workers' = workers + 1 /\ UNCHANGED state
           \/ state' = 3 /\ UNCHANGED <<worker, workers>>
    BY <1>5 DEF CreateWorker, Is, Goto, StateWithoutThread
  <2>2. /\ state = 1 /\ workers = 0 /\ worker = "none" /\ ~runtime
        /\ \A u \in Threads : place[u] = "create" => u = t
    BY <2>1 DEF BootInv, OneWorker, Stages
  <2>3. BootTypeOK'
    BY <1>1, <1>2, <2>1, <2>2 DEF BootInv, BootTypeOK
  <2>4. Forwarding'
    BY <1>1, <1>3, <2>1, <2>2 DEF BootInv, Forwarding
  <2>5. OneWorker'
    BY <1>1, <1>3, <2>1, <2>2 DEF BootInv, OneWorker
  <2>6. Stages'
    BY <1>1, <1>3, <2>1, <2>2 DEF BootInv, Stages
  <2>7. ReadyMeansReady'
    BY <1>1, <1>2, <2>1, <2>2 DEF BootInv, ReadyMeansReady
  <2> QED
    BY <2>3, <2>4, <2>5, <2>6, <2>7
<1> QED
  BY <1>2, <1>4, <1>5 DEF BootInv

\* The worker's stages keep the invariant.
LEMMA WorkerKeeps ==
    ASSUME BootInv, Worker
    PROVE  BootInv'
<1>1. ASSUME PathsFail \/ Paths \/ Scan \/ Settle
      PROVE  BootInv'
  <2>1. UNCHANGED <<vars, proxy, workers>>
    BY <1>1 DEF PathsFail, Paths, Scan, Settle
  <2>2. TypeOK' /\ InstallInv' /\ UNCHANGED <<supported, pc, site>>
    BY <2>1, InstallersStay
  <2>3. state = 1 /\ workers # 0
    BY <1>1 DEF BootInv, OneWorker, Stages, PathsFail, Paths, Scan, Settle, Stage
  <2>4. BootTypeOK'
    <3>1. /\ state' \in 0..3 /\ worker' \in {"none", "paths", "scan", "install", "done"}
          /\ core' \in BOOLEAN /\ runtime' \in BOOLEAN
      <4>1. BootTypeOK
        BY DEF BootInv
      <4>2. CASE PathsFail
        BY <4>1, <4>2 DEF BootTypeOK, PathsFail
      <4>3. CASE Paths
        BY <4>1, <4>3 DEF BootTypeOK, Paths, RuntimeBeforeScan
      <4>4. CASE Scan
        BY <4>1, <4>4 DEF BootTypeOK, Scan
      <4>5. CASE Settle
        BY <4>1, <4>5 DEF BootTypeOK, Settle
      <4> QED
        BY <1>1, <4>2, <4>3, <4>4, <4>5
    <3> QED
      BY <2>1, <2>2, <3>1 DEF BootInv, BootTypeOK, proxy
  <2>5. Forwarding' /\ OneWorker'
    <3>1. state' \in {1, 2, 3}
      BY <1>1, <2>3 DEF PathsFail, Paths, Scan, Settle
    <3>2. \A u \in Threads : place[u] # "create"
      BY <2>3 DEF BootInv, OneWorker
    <3>3. Forwarding'
      BY <2>1, <3>1 DEF BootInv, Forwarding, proxy
    <3>4. OneWorker'
      BY <2>1, <2>3, <3>1, <3>2 DEF BootInv, OneWorker, proxy
    <3> QED
      BY <3>3, <3>4
  <2>6. Stages'
    BY <1>1, <2>1, <2>3
       DEF BootInv, Stages, PathsFail, Paths, Scan, Settle, Stage, RuntimeBeforeScan, proxy
  <2>7. ReadyMeansReady'
    <3>1. CASE PathsFail \/ Paths \/ Scan
      BY <2>3, <3>1 DEF PathsFail, Paths, Scan, ReadyMeansReady
    <3>2. CASE Settle
      <4>1. worker = "install" /\ runtime
        BY <3>2 DEF Settle, Stage, BootInv, Stages
      <4> QED
        BY <2>2, <3>2, <4>1 DEF Settle, HookReady, ReadyMeansReady
    <3> QED
      BY <1>1, <3>1, <3>2
  <2> QED
    BY <2>2, <2>4, <2>5, <2>6, <2>7 DEF BootInv
<1>2. ASSUME Installing
      PROVE  BootInv'
  <2>1. Install /\ worker = "install" /\ UNCHANGED <<once, winmm, loads, place, state, worker,
                                                     workers, core, runtime>>
    BY <1>2 DEF Installing, Stage, bootVars, proxy, boot
  <2>2. InstallInv' /\ TypeOK'
    BY <2>1, InstallNext DEF BootInv, Next, InstallInv
  <2>3. BootTypeOK'
    BY <2>1, <2>2 DEF BootInv, BootTypeOK
  <2>4. Forwarding' /\ OneWorker' /\ Stages'
    BY <2>1 DEF BootInv, Forwarding, OneWorker, Stages
  <2>5. ReadyMeansReady'
    BY <2>1 DEF BootInv, Stages, ReadyMeansReady
  <2> QED
    BY <2>2, <2>3, <2>4, <2>5 DEF BootInv
<1> QED
  BY <1>1, <1>2 DEF Worker

\* No step of the system breaks the invariant.
LEMMA BootInductive == BootInv /\ [BootNext]_allVars => BootInv'
<1> SUFFICES ASSUME BootInv, [BootNext]_allVars PROVE BootInv'
  OBVIOUS
<1>1. ASSUME NEW t \in Threads, Forwarder(t) \/ Tick(t) \/ Call(t)
      PROVE  BootInv'
  BY <1>1, ForwarderKeeps, LoadKeeps, StartKeeps DEF Call
<1>2. CASE Worker
  BY <1>2, WorkerKeeps
<1>3. CASE (Game /\ Is(Main, Idle) /\ UNCHANGED bootVars) \/ UNCHANGED allVars
  <2>1. UNCHANGED <<once, winmm, loads, place, state, worker, workers, core, runtime>>
    BY <1>3 DEF allVars, bootVars, proxy, boot
  <2>2. InstallInv' /\ TypeOK'
    BY <1>3, InstallNext DEF BootInv, Next, InstallInv, allVars
  <2>3. UNCHANGED <<supported, pc, site>>
    BY <1>3 DEF Game, LookUp, CallOriginal, RunTrampoline, EndCall, Enter, host, allVars, vars
  <2>4. BootTypeOK'
    BY <2>1, <2>2 DEF BootInv, BootTypeOK
  <2>5. Forwarding' /\ OneWorker' /\ Stages' /\ ReadyMeansReady'
    BY <2>1, <2>3 DEF BootInv, Forwarding, OneWorker, Stages, ReadyMeansReady
  <2> QED
    BY <2>2, <2>4, <2>5 DEF BootInv
<1> QED
  BY <1>1, <1>2, <1>3 DEF BootNext

\* The invariant holds in every behaviour of the system.
LEMMA BootInvariant == BootSpec => []BootInv
  BY BootInitial, BootInductive, PTL DEF BootSpec

-----------------------------------------------------------------------------
(* What a reader should know of.                                             *)

\* The type invariant of Bootstrap and of the installers below it.
THEOREM BootTypeCorrect == BootSpec => []BootTypeOK
<1>1. BootInv => BootTypeOK
  BY DEF BootInv
<1> QED
  BY <1>1, BootInvariant, PTL

\* Code of the game is patched only on a known build, and only after the
\* installer has verified all the points and the layout of its plan:
\* load_point of game_bridge.cpp and tracer.cpp run before any patch_target.
THEOREM VerifiedCorrect == BootSpec => []TouchedOnlyIfVerified
<1>1. BootInv => TouchedOnlyIfVerified
  <2> SUFFICES ASSUME InstallInv, NEW p \in Points, site[p] # "native"
               PROVE  /\ supported
                      /\ p # "swap" =>
                            LET o == IF site[p] = "torn" THEN owner ELSE site[p] IN
                            o \in profile /\ \A item \in InPlan(o) : item[2] \in profile
    BY DEF BootInv, TouchedOnlyIfVerified
  <2> DEFINE o == IF site[p] = "torn" THEN owner ELSE site[p]
  <2>1. site[p] \in Owners \union {"torn"}
    BY DEF InstallInv, TypeOK
  <2>2. supported
    <3>1. CASE owner = "render" /\ pc = "done"
      <4>1. Nothing("bridge") /\ Nothing("tracer") /\ site[p] # "torn"
        BY <3>1 DEF InstallInv, Turns, Torn
      <4>2. p = "swap" /\ site[p] = "render"
        BY <2>1, <4>1 DEF InstallInv, Nothing, Entitled, Owners
      <4> QED
        BY <4>2 DEF InstallInv, Swap
    <3> QED
      BY <3>1 DEF InstallInv, Turns
  <2>3. ASSUME p # "swap"
        PROVE  o \in {"bridge", "tracer"} /\ Approved(o)
    <3>1. CASE site[p] = "torn"
      <4>1. pc \in {"write", "unwrite"}
        BY <3>1 DEF InstallInv, Torn
      <4>2. owner \in {"bridge", "tracer"} /\ Working
        BY <4>1, AtWork DEF InstallInv
      <4> QED
        BY <3>1, <4>1, <4>2 DEF InstallInv, Progress
    <3>2. CASE site[p] # "torn"
      BY <2>1, <2>3, <3>2 DEF InstallInv, Entitled, Owners
    <3> QED
      BY <3>1, <3>2
  <2>4. ASSUME p # "swap"
        PROVE  o \in profile /\ \A item \in InPlan(o) : item[2] \in profile
    BY <2>3, <2>4 DEF Approved, InPlan
  <2> QED
    BY <2>2, <2>4
<1> QED
  BY <1>1, BootInvariant, PTL

\* Each installer of game_bridge.cpp and tracer.cpp is atomic in the end: all
\* of its jumps, pointers, trampolines and tables, or none of them.
THEOREM RollbackCorrect == BootSpec => []AllOrNothing
<1>1. BootInv => AllOrNothing
  <2> SUFFICES ASSUME InstallInv, pc = "done", restores = RestoreFaults,
                      NEW o \in {"bridge", "tracer"}
               PROVE  \/ /\ Jumps(o) = InPlan(o)
                         /\ InPlan(o) \subseteq original \intersect code
                         /\ o = "bridge" => tables
                      \/ /\ \A p \in Points : <<o, p>> \notin Jumps(o) \union original \union code
                         /\ o = "bridge" => ~tables
    BY DEF BootInv, AllOrNothing
  <2>1. Settled(o) \/ (Nothing(o) /\ (o = "bridge" => ~tables))
    BY DEF InstallInv, Turns, TypeOK, Owners
  <2>2. CASE Full(o) /\ (o = "bridge" => tables)
    <3>1. \A p \in Points : site[p] = o => Patches(o, p)
      BY DEF InstallInv, Entitled
    <3>2. \A i \in DOMAIN PlanOf(o) :
             /\ PlanOf(o)[i] \in Points /\ site[PlanOf(o)[i]] = o
             /\ <<o, PlanOf(o)[i]>> \in original \intersect code
      BY <2>2, PlanFacts DEF Full
    <3>3. Jumps(o) \subseteq InPlan(o)
      BY <3>1 DEF Jumps, InPlan, Patches
    <3>4. InPlan(o) \subseteq Jumps(o)
      BY <3>2 DEF Jumps, InPlan
    <3>5. InPlan(o) \subseteq original \intersect code
      BY <3>2 DEF InPlan
    <3> QED
      BY <2>2, <3>3, <3>4, <3>5
  <2>3. CASE Nothing(o) /\ (o = "bridge" => ~tables)
    BY <2>3 DEF Nothing, Jumps
  <2> QED
    BY <2>1, <2>2, <2>3 DEF Settled
<1> QED
  BY <1>1, BootInvariant, PTL

\* A call of the game's that begins after the installers have finished gets
\* through the hooks to the native function, and presentation always does.
THEOREM CallsCorrect == BootSpec => []SettledCallsSucceed
<1>1. BootInv => SettledCallsSucceed
  BY DEF BootInv, InstallInv, Calls
<1> QED
  BY <1>1, BootInvariant, PTL

\* An enabled tracer gets the corridor point unless a system call has failed:
\* the bridge leaves the point to it.
THEOREM CorridorCorrect == BootSpec => []TracerOwnsCorridor
<1>1. BootInv => TracerOwnsCorridor
  BY DEF BootInv, InstallInv, TypeOK, Owners, Turns, TracersTurn, TracerOwnsCorridor
<1> QED
  BY <1>1, BootInvariant, PTL

\* winmm_proxy.cpp calls through its pointers only when all are resolved and
\* the framework has been started, by one thread that creates one worker.
THEOREM ForwardsCorrect == BootSpec => []ForwardsResolved
<1>1. BootInv => ForwardsResolved
  <2> SUFFICES ASSUME BootInv PROVE ForwardsResolved
    OBVIOUS
  <2>1. \A t \in Threads :
           /\ place[t] \in {"start", "create", "forward"} => winmm = "all"
           /\ place[t] = "forward" => state # 0
           /\ place[t] = "load" => once = t
    BY DEF BootInv, Forwarding
  <2> DEFINE Creating == {t \in Threads : place[t] = "create"}
  <2>2. CASE Creating = {}
    <3>1. Cardinality(Creating) = 0
      BY <2>2, FS_EmptySet
    <3> QED
      BY <2>1, <3>1 DEF BootInv, BootTypeOK, ForwardsResolved
  <2>3. ASSUME NEW t \in Threads, place[t] = "create"
        PROVE  ForwardsResolved
    <3>1. Creating = {t} /\ workers = 0
      BY <2>3 DEF BootInv, OneWorker
    <3>2. Cardinality(Creating) = 1
      BY <3>1, FS_Singleton
    <3> QED
      BY <2>1, <3>1, <3>2 DEF ForwardsResolved
  <2> QED
    BY <2>2, <2>3
<1> QED
  BY <1>1, BootInvariant, PTL

\* No tick reaches the scripts while initialize_thread still loads them:
\* g_runtime is published only after refresh_discovery has returned.
THEOREM HandOverCorrect == BootSpec => []ScriptsHandedOver
<1>1. BootInv => ScriptsHandedOver
  BY DEF BootInv, Stages, ScriptsHandedOver
<1> QED
  BY <1>1, BootInvariant, PTL

\* State 2 of initialize_thread is never reported early.
THEOREM ReadyCorrect == BootSpec => []ReadyMeansReady
<1>1. BootInv => ReadyMeansReady
  BY DEF BootInv
<1> QED
  BY <1>1, BootInvariant, PTL
=============================================================================
