--------------------------- MODULE RenderTickProofs ---------------------------
(* TLAPS proofs about HotReload and RenderTick, for any mods, any number of    *)
(* saves and failures and any number of callbacks.                             *)
EXTENDS RenderTick, CallStackLemmas

\* The list holds no id twice and begins with core.
ListInv == CoreFirstNoDuplicates

\* A load that would push back the first script is core's.
Loading == {"stat", "read", "commit"}
CoreLoadsFirst == pc \in Loading /\ scripts = <<>> => loading = Core

CoreIsFound == Core \in found

\* Write times only grow: what runs is no newer than the file that is there, and
\* a candidate's source lies between the two.
Writes ==
    \A id \in Ids :
        /\ disk[id].write <= clock
        /\ live[id] <= clock
        /\ disk[id].write # 0 => live[id] <= disk[id].write
CandidateWrites ==
    /\ candidate.source.write <= clock
    /\ disk[loading].write # 0 => candidate.source.write <= disk[loading].write
    /\ candidate.source.good => live[loading] <= candidate.source.write

HotInv ==
    /\ TypeOK
    /\ ListInv
    /\ CoreLoadsFirst
    /\ CoreIsFound
    /\ Writes
    /\ CandidateWrites

-----------------------------------------------------------------------------
(* The dispatch.                                                               *)

\* The type invariant's last part: who has callbacks at all.
Owned == \A id \in Ids : callbacks[id] # <<>> => Listed(id) /\ live[id] # 0

\* While callbacks run no reload does, and outside of it nothing has run.
Phases ==
    /\ phase = "run" => pc = "idle" /\ turn <= Len(scripts) + 1
    /\ phase # "run" => ran = <<>> /\ turn = 0 /\ count = 0

\* Only the script whose turn it is has callbacks to come, no more than it has.
Counted ==
    /\ turn \notin DOMAIN scripts => count = 0
    /\ turn \in DOMAIN scripts => count <= Len(callbacks[scripts[turn]])

\* What was planned of the scripts still to come are the callbacks they have on,
\* and of the present script those between its slot and its count.
StillPlanned ==
    phase = "run" =>
        /\ \A c \in planned : \E i \in DOMAIN scripts : scripts[i] = c[1]
        /\ \A i \in DOMAIN scripts, k \in 1..MaxSlots :
              /\ i > turn =>
                   (<<scripts[i], k>> \in planned <=>
                      live[scripts[i]] # 0 /\ IsFunction(scripts[i], k))
              /\ i = turn /\ slot <= k =>
                   (<<scripts[i], k>> \in planned <=> k <= count /\ IsFunction(scripts[i], k))

\* The dispatch has passed this callback.
Passed(i, k) == i < turn \/ (i = turn /\ k < slot)

\* What has run is what was planned of the part passed.
RanSoFar ==
    phase = "run" =>
        \A i \in DOMAIN scripts, k \in 1..MaxSlots :
            (\E n \in DOMAIN ran : ran[n] = <<scripts[i], k>>)
                <=> <<scripts[i], k>> \in planned /\ Passed(i, k)

RanIsListed ==
    \A n \in DOMAIN ran : \E i \in DOMAIN scripts : scripts[i] = ran[n][1]

RanInOrder == \A m, n \in DOMAIN ran : m < n => Before(ran[m], ran[n])

TickInv ==
    /\ HotInv
    /\ TickTypeOK
    /\ Phases
    /\ Counted
    /\ StillPlanned
    /\ RanSoFar
    /\ RanIsListed
    /\ RanInOrder

-----------------------------------------------------------------------------
(* The list.                                                                  *)

\* Names begins with core.
LEMMA CoreIsFirstName == 1 \in DOMAIN Names /\ Names[1] = Core
<1>1. Order \in Seq(ModIds) /\ <<Core>> \in Seq({Core})
  BY OrderAssumption
<1>2. Names = <<Core>> \o Order
  BY DEF Names
<1>3. Order \in Seq(Ids) /\ <<Core>> \in Seq(Ids)
  BY <1>1 DEF Ids
<1>4. Len(Names) = 1 + Len(Order) /\ Names[1] = Core /\ Names \in Seq(Ids)
  BY <1>2, <1>3
<1> QED
  BY <1>3, <1>4

\* Every name is an id.
LEMMA NamesAreIds == Names \in Seq(Ids) /\ Core \in Ids
<1>1. Order \in Seq(Ids) /\ <<Core>> \in Seq(Ids)
  BY OrderAssumption DEF Ids
<1> QED
  BY <1>1 DEF Names, Ids

\* Erasing closes the gap.
LEMMA RemoveAtFacts ==
    ASSUME NEW S, NEW seq \in Seq(S), NEW i \in DOMAIN seq
    PROVE  /\ RemoveAt(seq, i) \in Seq(S)
           /\ Len(RemoveAt(seq, i)) = Len(seq) - 1
           /\ \A j \in 1..(Len(seq) - 1) :
                 RemoveAt(seq, i)[j] = IF j < i THEN seq[j] ELSE seq[j + 1]
BY LenProperties, ErasedAt DEF RemoveAt

\* Pushing back an id that is not listed, or core on an empty list.
LEMMA AppendKeepsList ==
    ASSUME TypeOK, ListInv, NEW id \in Ids, ~Listed(id),
           scripts = <<>> => id = Core, scripts' = Append(scripts, id)
    PROVE  ListInv' /\ scripts' \in Seq(Ids)
<1>1. scripts \in Seq(Ids)
  BY DEF TypeOK
<1>2. PICK n \in Nat : n = Len(scripts) /\ DOMAIN scripts = 1..n
  BY <1>1
<1>3. /\ scripts' \in Seq(Ids) /\ DOMAIN scripts' = 1..(n + 1)
      /\ \A j \in 1..n : scripts'[j] = scripts[j]
      /\ scripts'[n + 1] = id
  BY <1>1, <1>2
<1>4. \A i, j \in DOMAIN scripts' : scripts'[i] = scripts'[j] => i = j
  <2>1. \A j \in 1..n : scripts'[j] # id
    BY <1>2, <1>3 DEF Listed
  <2>2. \A i, j \in 1..n : scripts'[i] = scripts'[j] => i = j
    BY <1>2, <1>3 DEF ListInv, CoreFirstNoDuplicates
  <2>3. \A i \in 1..(n + 1) : i \in 1..n \/ i = n + 1
    BY <1>2
  <2> QED
    BY <1>3, <2>1, <2>2, <2>3
<1>5. scripts'[1] = Core
  <2>1. CASE n = 0
    <3>1. scripts = <<>>
      BY <1>1, <1>2, <2>1
    <3> QED
      BY <1>3, <2>1, <3>1
  <2>2. CASE n # 0
    <3>1. scripts # <<>> /\ 1 \in 1..n
      BY <1>2, <2>2
    <3> QED
      BY <1>3, <3>1 DEF ListInv, CoreFirstNoDuplicates
  <2> QED
    BY <2>1, <2>2
<1> QED
  BY <1>3, <1>4, <1>5 DEF ListInv, CoreFirstNoDuplicates

\* Erasing anything but core.
LEMMA RemoveKeepsList ==
    ASSUME TypeOK, ListInv, NEW i \in DOMAIN scripts, scripts[i] # Core,
           scripts' = RemoveAt(scripts, i)
    PROVE  /\ ListInv' /\ scripts' \in Seq(Ids) /\ scripts' # <<>>
           /\ \A id : Listed(id)' => Listed(id) /\ id # scripts[i]
<1>1. scripts \in Seq(Ids)
  BY DEF TypeOK
<1>2. PICK n \in Nat : n = Len(scripts) /\ DOMAIN scripts = 1..n
  BY <1>1
<1>3. /\ scripts' \in Seq(Ids) /\ DOMAIN scripts' = 1..(n - 1)
      /\ \A j \in 1..(n - 1) : scripts'[j] = IF j < i THEN scripts[j] ELSE scripts[j + 1]
  <2>1. PICK new \in Seq(Ids) :
            /\ new = RemoveAt(scripts, i)
            /\ Len(new) = n - 1
            /\ \A j \in 1..(n - 1) : new[j] = IF j < i THEN scripts[j] ELSE scripts[j + 1]
    BY <1>1, <1>2, RemoveAtFacts
  <2>2. DOMAIN new = 1..(n - 1)
    BY <2>1, LenProperties
  <2>3. scripts' = new
    BY <2>1
  <2> QED
    BY <2>1, <2>2, <2>3
<1>4. i # 1 /\ i \in 1..n /\ 1 \in 1..(n - 1) /\ 1 < i
  <2>1. i \in 1..n /\ scripts # <<>>
    BY <1>2
  <2>2. i # 1
    BY <2>1 DEF ListInv, CoreFirstNoDuplicates
  <2> QED
    BY <2>1, <2>2
<1>5. PICK old \in [1..(n - 1) -> 1..n] :
         /\ \A j \in 1..(n - 1) : old[j] # i /\ scripts'[j] = scripts[old[j]]
         /\ \A j, k \in 1..(n - 1) : old[j] = old[k] => j = k
         /\ old[1] = 1
  <2> DEFINE f == [j \in 1..(n - 1) |-> IF j < i THEN j ELSE j + 1]
  <2>1. f \in [1..(n - 1) -> 1..n]
    BY <1>4
  <2>2. \A j \in 1..(n - 1) : f[j] # i /\ scripts'[j] = scripts[f[j]]
    BY <1>3, <1>4
  <2>3. \A j, k \in 1..(n - 1) : f[j] = f[k] => j = k
    BY <1>4
  <2>4. f[1] = 1
    BY <1>4
  <2> HIDE DEF f
  <2> QED
    BY <2>1, <2>2, <2>3, <2>4
<1>6. \A j, k \in DOMAIN scripts' : scripts'[j] = scripts'[k] => j = k
  BY <1>2, <1>3, <1>5 DEF ListInv, CoreFirstNoDuplicates
<1>7. scripts'[1] = Core
  <2>1. scripts # <<>>
    BY <1>2
  <2> QED
    BY <1>4, <1>5, <2>1 DEF ListInv, CoreFirstNoDuplicates
<1>8. \A id : Listed(id)' => Listed(id) /\ id # scripts[i]
  BY <1>2, <1>3, <1>5 DEF Listed, ListInv, CoreFirstNoDuplicates
<1>9. scripts' # <<>>
  BY <1>3, <1>4
<1> QED
  BY <1>3, <1>6, <1>7, <1>8, <1>9 DEF ListInv, CoreFirstNoDuplicates

\* Erasing one id leaves the others.
LEMMA OthersStay ==
    ASSUME scripts \in Seq(Ids), NEW i \in DOMAIN scripts, scripts' = RemoveAt(scripts, i),
           NEW id, Listed(id), scripts[i] # id
    PROVE  Listed(id)'
<1>1. PICK n \in Nat : n = Len(scripts) /\ DOMAIN scripts = 1..n
  BY LenProperties
<1>2. PICK k \in 1..n : scripts[k] = id /\ k # i
  BY <1>1 DEF Listed
<1>3. PICK new \in Seq(Ids) :
          /\ new = RemoveAt(scripts, i)
          /\ Len(new) = n - 1
          /\ \A j \in 1..(n - 1) : new[j] = IF j < i THEN scripts[j] ELSE scripts[j + 1]
  BY <1>1, RemoveAtFacts
<1>4. DOMAIN new = 1..(n - 1) /\ scripts' = new
  BY <1>3, LenProperties
<1>5. i \in 1..n
  BY <1>1
<1>6. CASE k < i
  <2>1. k \in 1..(n - 1)
    BY <1>5, <1>6
  <2> QED
    BY <1>2, <1>3, <1>4, <1>6, <2>1 DEF Listed
<1>7. CASE i < k
  <2>1. k - 1 \in 1..(n - 1) /\ ~(k - 1 < i) /\ (k - 1) + 1 = k
    BY <1>5, <1>7
  <2> QED
    BY <1>2, <1>3, <1>4, <2>1 DEF Listed
<1> QED
  BY <1>2, <1>5, <1>6, <1>7

-----------------------------------------------------------------------------
(* The steps of HotReload.                                                    *)

\* The file system's answers are of the right type and only spend failures.
LEMMA StatFacts ==
    ASSUME TypeOK, NEW id \in Ids, NEW w, Stat(id, w)
    PROVE  faults' \in [stat : 0..StatFaults, read : 0..ReadFaults]
<1>1. faults \in [stat : 0..StatFaults, read : 0..ReadFaults]
  BY DEF TypeOK
<1>2. CASE UNCHANGED faults
  BY <1>1, <1>2
<1>3. CASE faults.stat > 0 /\ faults' = [faults EXCEPT !.stat = @ - 1]
  <2>1. faults.stat - 1 \in 0..StatFaults
    BY <1>1, <1>3, BoundsAssumption
  <2> QED
    BY <1>1, <1>3, <2>1
<1> QED
  BY <1>2, <1>3 DEF Stat

\* Reads likewise.
LEMMA ReadFacts ==
    ASSUME TypeOK, NEW id \in Ids, NEW file, ReadFile(id, file)
    PROVE  faults' \in [stat : 0..StatFaults, read : 0..ReadFaults]
<1>1. faults \in [stat : 0..StatFaults, read : 0..ReadFaults]
  BY DEF TypeOK
<1>2. CASE UNCHANGED faults
  BY <1>1, <1>2
<1>3. CASE faults.read > 0 /\ faults' = [faults EXCEPT !.read = @ - 1]
  <2>1. faults.read - 1 \in 0..ReadFaults
    BY <1>1, <1>3, BoundsAssumption
  <2> QED
    BY <1>1, <1>3, <2>1
<1> QED
  BY <1>2, <1>3 DEF ReadFile

\* The candidate of no load.
LEMMA NoCandidateFacts ==
    /\ NoCandidate \in [observed : 0..MaxWrite, source : Files]
    /\ NoCandidate.source.write = 0
    /\ ~NoCandidate.source.good
    /\ Absent \in Files
<1>1. 0 \in 0..MaxWrite
  BY BoundsAssumption
<1>2. Absent \in Files
  BY DEF Files
<1> QED
  BY <1>1, <1>2 DEF NoCandidate, Absent

\* A file that is there has a positive write time; one that loads is there.
LEMMA FileFacts ==
    ASSUME NEW file \in Files
    PROVE  /\ file.write \in 0..MaxWrite
           /\ file.good \in BOOLEAN
           /\ file.good => file.write # 0
<1>1. CASE file = Absent
  BY <1>1, BoundsAssumption DEF Absent
<1>2. CASE file \in [write : 1..MaxWrite, good : BOOLEAN]
  BY <1>2, BoundsAssumption
<1> QED
  BY <1>1, <1>2 DEF Files

\* Before the first scan nothing is listed and nothing runs.
LEMMA HotInit == Init => HotInv
<1> SUFFICES ASSUME Init PROVE HotInv
  OBVIOUS
<1>1. \A id \in Ids : disk[id] \in Files /\ disk[id].write \in 0..1
  <2>1. ASSUME NEW id \in Ids PROVE disk[id] \in Files /\ disk[id].write \in 0..1
    <3>1. CASE disk[id] = Absent
      BY <3>1 DEF Files, Absent
    <3>2. CASE disk[id] \in [write : {1}, good : BOOLEAN]
      <4>1. disk[id].write = 1 /\ 1 \in 1..MaxWrite
        BY <3>2, BoundsAssumption
      <4>2. disk[id] \in [write : 1..MaxWrite, good : BOOLEAN]
        BY <3>2, <4>1
      <4> QED
        BY <4>1, <4>2 DEF Files
    <3> QED
      BY <3>1, <3>2 DEF Init
  <2> QED
    BY <2>1
<1>2. disk \in [Ids -> Files]
  BY <1>1 DEF Init
<1>3. clock \in 1..MaxWrite /\ faults \in [stat : 0..StatFaults, read : 0..ReadFaults]
  BY BoundsAssumption DEF Init
<1>4. /\ due \subseteq Timers /\ work \subseteq Timers /\ found \subseteq Ids
      /\ loading \in Ids
  BY DEF Init, Timers, Ids
<1>5. live \in [Ids -> 0..MaxWrite] /\ observed \in [Ids -> 0..MaxWrite]
  BY BoundsAssumption DEF Init
<1>6. TypeOK
  BY <1>2, <1>3, <1>4, <1>5, NoCandidateFacts DEF Init, TypeOK
<1>7. ListInv /\ CoreLoadsFirst /\ CoreIsFound
  BY DEF Init, ListInv, CoreFirstNoDuplicates, CoreLoadsFirst, CoreIsFound
<1>8. Writes /\ CandidateWrites
  BY <1>1, <1>4, NoCandidateFacts DEF Init, Writes, CandidateWrites
<1> QED
  BY <1>6, <1>7, <1>8 DEF HotInv

\* What a step needs to show that touches neither list nor files nor candidate.
LEMMA FrameStepKeeps ==
    ASSUME HotInv, TypeOK', UNCHANGED <<editorVars, slotVars, loadVars>>,
           pc' \in Loading => pc \in Loading, Core \in found'
    PROVE  HotInv'
<1>1. UNCHANGED <<disk, clock, scripts, live, observed, loading, candidate>>
  BY DEF editorVars, slotVars, loadVars
<1> QED
  BY <1>1 DEF HotInv, ListInv, CoreFirstNoDuplicates, CoreLoadsFirst, CoreIsFound,
              Writes, CandidateWrites

\* What a step needs to show that begins a load.
LEMMA BeginLoadKeeps ==
    ASSUME HotInv, TypeOK', UNCHANGED <<editorVars, slotVars, found>>,
           NEW id \in Ids, scripts = <<>> => id = Core, BeginLoad(id)
    PROVE  HotInv'
<1>1. UNCHANGED <<disk, clock, scripts, live, observed, found>>
  BY DEF editorVars, slotVars
<1>2. ListInv' /\ CoreIsFound' /\ Writes'
  BY <1>1 DEF HotInv, ListInv, CoreFirstNoDuplicates, CoreIsFound, Writes
<1>3. CoreLoadsFirst'
  BY <1>1 DEF CoreLoadsFirst, BeginLoad
<1>4. CandidateWrites'
  <2>1. candidate' = NoCandidate /\ loading' = id /\ disk[id] \in Files /\ clock \in Nat
    BY BoundsAssumption DEF HotInv, TypeOK, BeginLoad
  <2>2. disk[id].write \in Nat
    BY <2>1, FileFacts, BoundsAssumption
  <2> QED
    BY <1>1, <2>1, <2>2, NoCandidateFacts DEF CandidateWrites
<1> QED
  BY <1>2, <1>3, <1>4 DEF HotInv

\* A save is newer than everything before it.
LEMMA SaveKeeps ==
    ASSUME HotInv, NEW id \in Ids, NEW good \in BOOLEAN, Save(id, good)
    PROVE  HotInv'
<1>1. /\ clock \in 1..MaxWrite /\ clock < MaxWrite /\ clock' = clock + 1
      /\ UNCHANGED <<faults, due, work, pc, idx, found, scripts, live, observed,
                     loading, candidate>>
      /\ disk \in [Ids -> Files]
  BY DEF Save, HotInv, TypeOK, slotVars, loadVars
<1>2. PICK file \in Files : /\ file.write = clock + 1
                            /\ disk' = [disk EXCEPT ![id] = file]
  <2>1. [write |-> clock + 1, good |-> good] \in [write : 1..MaxWrite, good : BOOLEAN]
    BY <1>1, BoundsAssumption
  <2>2. [write |-> clock + 1, good |-> good] \in Files
    BY <2>1 DEF Files
  <2> QED
    BY <2>2 DEF Save
<1>3. TypeOK'
  BY <1>1, <1>2, BoundsAssumption DEF HotInv, TypeOK
<1>4. ListInv' /\ CoreLoadsFirst' /\ CoreIsFound'
  BY <1>1 DEF HotInv, ListInv, CoreFirstNoDuplicates, CoreLoadsFirst, CoreIsFound
<1>5. /\ live \in [Ids -> 0..MaxWrite] /\ loading \in Ids
      /\ candidate.source.write \in 0..MaxWrite
      /\ \A i \in Ids : disk[i].write \in 0..MaxWrite
  BY FileFacts DEF HotInv, TypeOK
<1>6. \A i \in Ids : disk'[i] = IF i = id THEN file ELSE disk[i]
  BY <1>1, <1>2
<1>7. Writes'
  <2> SUFFICES ASSUME NEW i \in Ids
               PROVE  /\ disk'[i].write <= clock + 1
                      /\ live[i] <= clock + 1
                      /\ disk'[i].write # 0 => live[i] <= disk'[i].write
    BY <1>1 DEF Writes
  <2>1. /\ live[i] \in Nat /\ clock \in Nat /\ disk[i].write \in Nat
        /\ disk[i].write <= clock /\ live[i] <= clock
        /\ disk[i].write # 0 => live[i] <= disk[i].write
    BY <1>1, <1>5, BoundsAssumption DEF HotInv, Writes
  <2>2. CASE i = id
    BY <1>2, <1>6, <2>1, <2>2
  <2>3. CASE i # id
    BY <1>6, <2>1, <2>3
  <2> QED
    BY <2>2, <2>3
<1>8. CandidateWrites'
  BY <1>1, <1>2, <1>5, <1>6, BoundsAssumption DEF HotInv, CandidateWrites
<1> QED
  BY <1>3, <1>4, <1>7, <1>8 DEF HotInv

\* A removed file leaves what was loaded from it.
LEMMA RemoveFileKeeps ==
    ASSUME HotInv, NEW id \in Ids, Remove(id)
    PROVE  HotInv'
<1>1. /\ disk \in [Ids -> Files] /\ disk' = [disk EXCEPT ![id] = Absent]
      /\ UNCHANGED <<clock, faults, due, work, pc, idx, found, scripts, live, observed,
                     loading, candidate>>
  BY DEF Remove, HotInv, TypeOK, slotVars, loadVars
<1>2. \A i \in Ids : disk'[i] = IF i = id THEN Absent ELSE disk[i]
  BY <1>1
<1>3. TypeOK'
  BY <1>1, NoCandidateFacts DEF HotInv, TypeOK
<1>4. ListInv' /\ CoreLoadsFirst' /\ CoreIsFound'
  BY <1>1 DEF HotInv, ListInv, CoreFirstNoDuplicates, CoreLoadsFirst, CoreIsFound
<1>5. Writes'
  BY <1>1, <1>2, BoundsAssumption DEF HotInv, Writes, TypeOK, Absent
<1>6. CandidateWrites'
  BY <1>1, <1>2 DEF HotInv, CandidateWrites, TypeOK, Absent
<1> QED
  BY <1>3, <1>4, <1>5, <1>6 DEF HotInv

\* Time passes.
LEMMA ElapseKeeps ==
    ASSUME HotInv, NEW timer \in Timers, Elapse(timer)
    PROVE  HotInv'
<1>1. TypeOK'
  BY DEF Elapse, HotInv, TypeOK, editorVars, slotVars, loadVars
<1> QED
  BY <1>1, FrameStepKeeps DEF Elapse, HotInv, CoreIsFound

\* A frame begins with the timers that have run out.
LEMMA FrameKeeps ==
    ASSUME HotInv, Frame
    PROVE  HotInv'
<1>1. /\ UNCHANGED <<disk, clock, faults, scripts, live, observed, loading, candidate>>
      /\ work' = due /\ due' = {} /\ idx' = 1 /\ pc' \in {"poll", "scan"}
      /\ found' = found \/ found' = {Core}
  BY DEF Frame, BeginScan, editorVars, slotVars, loadVars
<1>2. TypeOK'
  BY <1>1, NamesAreIds DEF HotInv, TypeOK
<1>3. UNCHANGED <<editorVars, slotVars, loadVars>>
  BY DEF Frame
<1>4. Core \in found'
  BY <1>1 DEF HotInv, CoreIsFound
<1> QED
  BY <1>1, <1>2, <1>3, <1>4, FrameStepKeeps DEF Loading

\* The poll of a listed script: it is up to date, or a reload begins.
LEMMA PollKeeps ==
    ASSUME HotInv, PollScript
    PROVE  HotInv'
<1>1. PICK id \in Ids, w \in 0..MaxWrite :
          /\ scripts # <<>>
          /\ Stat(id, w)
          /\ \/ idx' = idx + 1 /\ UNCHANGED <<pc, loadVars>>
             \/ BeginLoad(id) /\ UNCHANGED idx
  <2>1. scripts \in Seq(Ids) /\ idx \in DOMAIN scripts
    BY DEF PollScript, HotInv, TypeOK
  <2>2. scripts[idx] \in Ids /\ scripts # <<>>
    BY <2>1
  <2> QED
    BY <2>2 DEF PollScript
<1>2. /\ UNCHANGED <<disk, clock, due, work, found, scripts, live, observed>>
      /\ faults' \in [stat : 0..StatFaults, read : 0..ReadFaults]
      /\ UNCHANGED <<editorVars, slotVars, found>>
  BY <1>1, StatFacts DEF PollScript, HotInv, editorVars, slotVars
<1>3. CASE idx' = idx + 1 /\ UNCHANGED <<pc, loadVars>>
  <2>1. TypeOK'
    BY <1>2, <1>3 DEF HotInv, TypeOK, loadVars
  <2> QED
    BY <1>2, <1>3, <2>1, FrameStepKeeps DEF HotInv, CoreIsFound
<1>4. CASE BeginLoad(id) /\ UNCHANGED idx
  <2>1. TypeOK'
    BY <1>2, <1>4, NoCandidateFacts DEF HotInv, TypeOK, BeginLoad
  <2> QED
    BY <1>1, <1>2, <1>4, <2>1, BeginLoadKeeps
<1> QED
  BY <1>1, <1>3, <1>4

\* The poll is over.
LEMMA EndPollKeeps ==
    ASSUME HotInv, EndPoll
    PROVE  HotInv'
<1>1. /\ UNCHANGED <<disk, clock, faults, due, scripts, live, observed, loading, candidate>>
      /\ work' = work \/ work' = {}
      /\ idx' = 1 /\ pc' \in {"scan", "idle"}
      /\ found' = found \/ found' = {Core}
  BY DEF EndPoll, BeginScan, EndFrame, editorVars, slotVars, loadVars
<1>2. TypeOK'
  BY <1>1, NamesAreIds DEF HotInv, TypeOK
<1>3. UNCHANGED <<editorVars, slotVars, loadVars>>
  BY DEF EndPoll
<1>4. Core \in found'
  BY <1>1 DEF HotInv, CoreIsFound
<1> QED
  BY <1>1, <1>2, <1>3, <1>4, FrameStepKeeps DEF Loading

\* The scan looks at one mod directory.
LEMMA ScanModKeeps ==
    ASSUME HotInv, ScanMod
    PROVE  HotInv'
<1>1. Order[idx] \in Ids
  BY DEF ScanMod, Ids, ModIds
<1>2. /\ UNCHANGED <<disk, clock, due, work, pc, scripts, live, observed, loading, candidate>>
      /\ idx' = idx + 1
      /\ found' = found \/ found' = found \union {Order[idx]}
  BY DEF ScanMod, editorVars, slotVars, loadVars
<1>3. faults' \in [stat : 0..StatFaults, read : 0..ReadFaults]
  BY <1>1, StatFacts DEF ScanMod, HotInv
<1>4. TypeOK'
  BY <1>1, <1>2, <1>3 DEF HotInv, TypeOK
<1>5. UNCHANGED <<editorVars, slotVars, loadVars>>
  BY DEF ScanMod
<1>6. Core \in found'
  BY <1>2 DEF HotInv, CoreIsFound
<1> QED
  BY <1>2, <1>4, <1>5, <1>6, FrameStepKeeps

\* The enumeration ends, complete or not.
LEMMA EndScanKeeps ==
    ASSUME HotInv, EndScan
    PROVE  HotInv'
<1>1. /\ UNCHANGED <<disk, clock, due, work, found, scripts, live, observed, loading, candidate>>
      /\ pc' = "add" /\ idx' = 1
      /\ \/ UNCHANGED faults
         \/ faults.stat > 0 /\ faults' = [faults EXCEPT !.stat = @ - 1]
  BY DEF EndScan, editorVars, slotVars, loadVars
<1>2. faults' \in [stat : 0..StatFaults, read : 0..ReadFaults]
  <2>1. faults \in [stat : 0..StatFaults, read : 0..ReadFaults]
    BY DEF HotInv, TypeOK
  <2>2. faults.stat > 0 => faults.stat - 1 \in 0..StatFaults
    BY <2>1, BoundsAssumption
  <2> QED
    BY <1>1, <2>1, <2>2
<1>3. TypeOK'
  BY <1>1, <1>2 DEF HotInv, TypeOK
<1>4. UNCHANGED <<editorVars, slotVars, loadVars>>
  BY DEF EndScan
<1> QED
  BY <1>1, <1>3, <1>4, FrameStepKeeps DEF Loading, HotInv, CoreIsFound

\* The first missing name is loaded: core's, when nothing is listed.
LEMMA AddFoundKeeps ==
    ASSUME HotInv, AddFound
    PROVE  HotInv'
<1> DEFINE missing == {i \in DOMAIN Names : Names[i] \in found /\ ~Listed(Names[i])}
<1>1. /\ UNCHANGED <<disk, clock, faults, due, work, idx, found, scripts, live, observed>>
      /\ UNCHANGED <<editorVars, slotVars, found>>
      /\ \/ missing = {} /\ pc' = "prune" /\ UNCHANGED loadVars
         \/ \E i \in missing : (\A j \in missing : i <= j) /\ BeginLoad(Names[i])
  BY DEF AddFound, editorVars, slotVars
<1>2. missing \subseteq Nat /\ missing \subseteq DOMAIN Names
  BY NamesAreIds
<1>3. CASE pc' = "prune" /\ UNCHANGED loadVars
  <2>1. TypeOK'
    BY <1>1, <1>3 DEF HotInv, TypeOK, loadVars
  <2> QED
    BY <1>1, <1>3, <2>1, FrameStepKeeps DEF Loading, HotInv, CoreIsFound
<1>4. ASSUME NEW i \in missing, \A j \in missing : i <= j, BeginLoad(Names[i])
      PROVE  HotInv'
  <2>1. Names[i] \in Ids
    BY <1>2, NamesAreIds
  <2>2. ASSUME scripts = <<>>
        PROVE  Names[i] = Core
    <3>1. 1 \in missing
      BY <2>2, CoreIsFirstName, EmptySeq DEF Listed, HotInv, CoreIsFound
    <3>2. i \in Nat /\ i <= 1 /\ i \in DOMAIN Names
      BY <1>2, <1>4, <3>1
    <3>3. i = 1
      BY <3>2, NamesAreIds
    <3> QED
      BY <3>3, CoreIsFirstName
  <2>3. TypeOK'
    BY <1>1, <1>4, <2>1, NoCandidateFacts DEF HotInv, TypeOK, BeginLoad
  <2> QED
    BY <1>1, <1>4, <2>1, <2>2, <2>3, BeginLoadKeeps
<1> QED
  BY <1>1, <1>3, <1>4

\* Pruning ends the frame, or erases one script that was not found.
LEMMA PruneKeeps ==
    ASSUME HotInv, Prune
    PROVE  HotInv'
<1>1. /\ UNCHANGED <<disk, clock, faults, due, loading, candidate>>
      /\ pc = "prune"
      /\ Core \in found /\ ListInv /\ TypeOK
  BY DEF Prune, editorVars, loadVars, HotInv, CoreIsFound
<1>2. CASE EndFrame /\ found' = {Core} /\ UNCHANGED slotVars
  <2>1. TypeOK'
    BY <1>1, <1>2, NamesAreIds DEF TypeOK, EndFrame, slotVars
  <2> QED
    BY <1>1, <1>2, <2>1, FrameStepKeeps DEF EndFrame, Prune, Loading
<1>3. ASSUME NEW i \in DOMAIN scripts, ~Kept(scripts[i]),
             scripts' = RemoveAt(scripts, i),
             live' = [live EXCEPT ![scripts[i]] = 0],
             observed' = [observed EXCEPT ![scripts[i]] = 0],
             UNCHANGED <<work, pc, idx, found>>
      PROVE  HotInv'
  <2>1. scripts[i] # Core /\ scripts[i] \in Ids
    BY <1>1, <1>3 DEF Kept, TypeOK
  <2>2. ListInv' /\ scripts' \in Seq(Ids) /\ scripts' # <<>>
    BY <1>1, <1>3, <2>1, RemoveKeepsList
  <2>3. live' \in [Ids -> 0..MaxWrite] /\ observed' \in [Ids -> 0..MaxWrite]
    <3>1. live \in [Ids -> 0..MaxWrite] /\ observed \in [Ids -> 0..MaxWrite]
      BY <1>1 DEF TypeOK
    <3>2. 0 \in 0..MaxWrite
      BY BoundsAssumption
    <3> QED
      BY <1>3, <3>1, <3>2
  <2>4. TypeOK'
    <3>1. UNCHANGED <<disk, clock, faults, due, work, pc, idx, found, loading, candidate>>
      BY <1>1, <1>3
    <3>2. /\ disk' \in [Ids -> Files] /\ clock' \in 1..MaxWrite
          /\ faults' \in [stat : 0..StatFaults, read : 0..ReadFaults]
          /\ due' \subseteq Timers /\ work' \subseteq Timers
      BY <1>1, <3>1 DEF TypeOK
    <3>3. /\ pc' \in {"idle", "poll", "scan", "add", "prune", "stat", "read", "commit"}
          /\ idx' \in Nat \ {0} /\ found' \subseteq Ids
          /\ loading' \in Ids /\ candidate' \in [observed : 0..MaxWrite, source : Files]
      BY <1>1, <3>1 DEF TypeOK
    <3> QED
      BY <2>2, <2>3, <3>2, <3>3 DEF TypeOK
  <2>5. \A id \in Ids : live'[id] \in Nat /\ live'[id] <= live[id] /\ live[id] \in Nat
    <3>1. live \in [Ids -> 0..MaxWrite]
      BY <1>1 DEF TypeOK
    <3> QED
      BY <1>3, <2>1, <3>1, BoundsAssumption
  <2>6. clock \in Nat /\ \A id \in Ids : disk[id].write \in Nat
    <3>1. clock \in Nat /\ \A id \in Ids : disk[id] \in Files
      BY <1>1, BoundsAssumption DEF TypeOK
    <3>2. \A file \in Files : file.write \in Nat
      BY FileFacts, BoundsAssumption
    <3> QED
      BY <3>1, <3>2
  <2>7. Writes'
    BY <1>1, <2>5, <2>6 DEF HotInv, Writes
  <2>8. CandidateWrites'
    <3>1. loading \in Ids /\ candidate.source.write \in Nat
      <4>1. loading \in Ids /\ candidate.source \in Files
        BY <1>1 DEF TypeOK
      <4>2. candidate.source.write \in 0..MaxWrite
        BY <4>1, FileFacts
      <4> QED
        BY <4>1, <4>2, BoundsAssumption
    <3> QED
      BY <1>1, <2>5, <3>1 DEF HotInv, CandidateWrites
  <2>9. CoreLoadsFirst' /\ CoreIsFound'
    BY <1>1, <1>3, <2>2 DEF CoreLoadsFirst, CoreIsFound
  <2> QED
    BY <2>2, <2>4, <2>7, <2>8, <2>9 DEF HotInv
<1> QED
  BY <1>2, <1>3 DEF Prune

\* load_script takes the write time, before it reads.
LEMMA LoadStatKeeps ==
    ASSUME HotInv, LoadStat
    PROVE  HotInv'
<1>1. PICK w \in 0..MaxWrite :
          /\ Stat(loading, w)
          /\ candidate' = [candidate EXCEPT !.observed = w]
          /\ pc' \in {"commit", "read"}
  BY DEF LoadStat
<1>2. /\ UNCHANGED <<disk, clock, due, work, idx, found, scripts, live, observed, loading>>
      /\ pc = "stat" /\ TypeOK
  BY DEF LoadStat, HotInv, editorVars, slotVars
<1>3. faults' \in [stat : 0..StatFaults, read : 0..ReadFaults]
  BY <1>1, <1>2, StatFacts DEF TypeOK
<1>4. /\ candidate' \in [observed : 0..MaxWrite, source : Files]
      /\ candidate'.source = candidate.source
  BY <1>1, <1>2 DEF TypeOK
<1>5. TypeOK'
  BY <1>1, <1>2, <1>3, <1>4 DEF TypeOK
<1>6. ListInv' /\ CoreIsFound' /\ Writes'
  BY <1>2 DEF HotInv, ListInv, CoreFirstNoDuplicates, CoreIsFound, Writes
<1>7. CoreLoadsFirst'
  BY <1>2 DEF HotInv, CoreLoadsFirst, Loading
<1>8. CandidateWrites'
  BY <1>2, <1>4 DEF HotInv, CandidateWrites
<1> QED
  BY <1>5, <1>6, <1>7, <1>8 DEF HotInv

\* load_script reads the bytes that are there now, or none.
LEMMA LoadReadKeeps ==
    ASSUME HotInv, LoadRead
    PROVE  HotInv'
<1>1. PICK file \in {disk[loading], Absent} :
          /\ ReadFile(loading, file)
          /\ candidate' = [candidate EXCEPT !.source = file]
          /\ pc' = "commit"
  BY DEF LoadRead
<1>2. /\ UNCHANGED <<disk, clock, due, work, idx, found, scripts, live, observed, loading>>
      /\ pc = "read" /\ TypeOK
  BY DEF LoadRead, HotInv, editorVars, slotVars
<1>3. faults' \in [stat : 0..StatFaults, read : 0..ReadFaults]
  BY <1>1, <1>2, ReadFacts DEF TypeOK
<1>4. file \in Files /\ loading \in Ids
  BY <1>1, <1>2, NoCandidateFacts DEF TypeOK
<1>5. /\ candidate' \in [observed : 0..MaxWrite, source : Files]
      /\ candidate'.source = file
  BY <1>1, <1>2, <1>4 DEF TypeOK
<1>6. TypeOK'
  BY <1>1, <1>2, <1>3, <1>5 DEF TypeOK
<1>7. ListInv' /\ CoreIsFound' /\ Writes'
  BY <1>2 DEF HotInv, ListInv, CoreFirstNoDuplicates, CoreIsFound, Writes
<1>8. CoreLoadsFirst'
  BY <1>2 DEF HotInv, CoreLoadsFirst, Loading
<1>9. CandidateWrites'
  <2>1. /\ disk[loading] \in Files /\ disk[loading].write <= clock
        /\ disk[loading].write # 0 => live[loading] <= disk[loading].write
        /\ clock \in Nat
    BY <1>2, <1>4, BoundsAssumption DEF HotInv, Writes, TypeOK
  <2>2. disk[loading].write \in Nat
    BY <2>1, FileFacts, BoundsAssumption
  <2>3. CASE file = disk[loading]
    <3>1. file.good => file.write # 0
      BY <1>4, FileFacts
    <3> QED
      BY <1>2, <1>5, <2>1, <2>2, <2>3, <3>1 DEF CandidateWrites
  <2>4. CASE file = Absent
    <3>1. file.write = 0 /\ ~file.good
      BY <2>4 DEF Absent
    <3> QED
      BY <1>2, <1>5, <2>1, <2>2, <3>1 DEF CandidateWrites
  <2> QED
    BY <1>1, <2>3, <2>4
<1> QED
  BY <1>6, <1>7, <1>8, <1>9 DEF HotInv

\* A load is committed: what runs afterwards is the candidate, when it loaded.
LEMMA CommitKeeps ==
    ASSUME HotInv, Commit
    PROVE  HotInv' /\ live'[loading] >= live[loading]
<1>1. /\ UNCHANGED <<disk, clock, faults, due, work, found>>
      /\ pc = "commit" /\ TypeOK /\ ListInv
      /\ pc' \in {"poll", "add"}
      /\ loading' = Core /\ candidate' = NoCandidate
      /\ loading \in Ids
  BY DEF Commit, HotInv, TypeOK, editorVars
<1>2. ListInv' /\ scripts' \in Seq(Ids)
  <2>1. CASE Listed(loading)
    BY <1>1, <2>1 DEF Commit, ListInv, CoreFirstNoDuplicates, TypeOK
  <2>2. CASE ~Listed(loading)
    <3>1. scripts = <<>> => loading = Core
      BY <1>1 DEF HotInv, CoreLoadsFirst, Loading
    <3> QED
      BY <1>1, <2>2, <3>1, AppendKeepsList DEF Commit
  <2> QED
    BY <2>1, <2>2
<1>3. /\ candidate.source \in Files /\ candidate.observed \in 0..MaxWrite
      /\ candidate.source.write \in 0..MaxWrite
  BY <1>1, FileFacts DEF TypeOK
<1>4. PICK new \in 0..MaxWrite :
          /\ new = LiveAfterLoad
          /\ live' = [live EXCEPT ![loading] = new]
  BY <1>1, <1>3 DEF Commit, LiveAfterLoad, TypeOK
<1>5. live' \in [Ids -> 0..MaxWrite] /\ observed' \in [Ids -> 0..MaxWrite]
  BY <1>1, <1>3, <1>4 DEF TypeOK, Commit, ObservedWrite
<1>6. idx' \in Nat \ {0}
  BY <1>1 DEF TypeOK, Commit
<1>7. TypeOK'
  BY <1>1, <1>2, <1>5, <1>6, NoCandidateFacts, NamesAreIds DEF TypeOK
<1>8. CoreLoadsFirst' /\ CoreIsFound'
  BY <1>1 DEF HotInv, CoreLoadsFirst, CoreIsFound, Loading
<1>9. /\ new <= clock /\ new >= live[loading]
      /\ disk[loading].write # 0 => new <= disk[loading].write
  <2>1. /\ live[loading] \in Nat /\ clock \in Nat /\ candidate.source.write \in Nat
        /\ disk[loading].write \in Nat
    BY <1>1, <1>3, FileFacts, BoundsAssumption DEF TypeOK
  <2>2. CASE candidate.source.good
    BY <1>1, <1>4, <2>1, <2>2 DEF HotInv, CandidateWrites, LiveAfterLoad, Loads
  <2>3. CASE ~candidate.source.good
    BY <1>1, <1>4, <2>1, <2>3 DEF HotInv, Writes, LiveAfterLoad, Loads
  <2> QED
    BY <2>2, <2>3
<1>10. Writes' /\ live'[loading] = new
  <2>1. \A id \in Ids : live'[id] = IF id = loading THEN new ELSE live[id]
    BY <1>1, <1>4 DEF TypeOK
  <2> QED
    BY <1>1, <1>9, <2>1 DEF HotInv, Writes
<1>11. CandidateWrites'
  <2>1. Core \in Ids /\ disk[Core] \in Files /\ clock \in Nat
    BY <1>1, NamesAreIds, BoundsAssumption DEF TypeOK
  <2>2. disk[Core].write \in Nat
    BY <2>1, FileFacts, BoundsAssumption
  <2> QED
    BY <1>1, <2>1, <2>2, NoCandidateFacts DEF CandidateWrites
<1> QED
  BY <1>2, <1>7, <1>8, <1>9, <1>10, <1>11 DEF HotInv

\* Every step keeps the invariant.
LEMMA HotNext == HotInv /\ [Next]_vars => HotInv'
<1> SUFFICES ASSUME HotInv, [Next]_vars PROVE HotInv'
  OBVIOUS
<1>1. CASE Editor
  BY <1>1, SaveKeeps, RemoveFileKeeps DEF Editor
<1>2. CASE Renderer
  BY <1>2, FrameKeeps, PollKeeps, EndPollKeeps, ScanModKeeps, EndScanKeeps, AddFoundKeeps,
     PruneKeeps, LoadStatKeeps, LoadReadKeeps, CommitKeeps DEF Renderer
<1>3. CASE \E timer \in Timers : Elapse(timer)
  BY <1>3, ElapseKeeps
<1>4. CASE UNCHANGED vars
  BY <1>4 DEF vars, editorVars, slotVars, loadVars, HotInv, TypeOK, ListInv,
     CoreFirstNoDuplicates, CoreLoadsFirst, CoreIsFound, Writes, CandidateWrites
<1> QED
  BY <1>1, <1>2, <1>3, <1>4 DEF Next

\* So the invariant holds in every reachable state of the renderer alone.
LEMMA HotInvariant == Spec => []HotInv
  BY HotInit, HotNext, PTL DEF Spec

\* Whatever scans, failed loads and erasures have happened, no script is listed
\* twice and core is the first.
THEOREM ListCorrect == Spec => []CoreFirstNoDuplicates
<1>1. HotInv => CoreFirstNoDuplicates
  BY DEF HotInv, ListInv
<1> QED
  BY <1>1, HotInvariant, PTL

\* No step of the renderer, the editor or the clock takes a listed script's state
\* back or away.
LEMMA TransactionalStep ==
    ASSUME HotInv, [Next]_vars
    PROVE  [\A id \in Ids : Listed(id) /\ Listed(id)' => live'[id] >= live[id]]_vars
<1> SUFFICES ASSUME NEW id \in Ids, Listed(id), Listed(id)', ~UNCHANGED vars
             PROVE  live'[id] >= live[id]
  OBVIOUS
<1>1. live \in [Ids -> 0..MaxWrite]
  BY DEF HotInv, TypeOK
<1>2. live[id] \in Nat
  BY <1>1, BoundsAssumption
<1>3. CASE UNCHANGED live
  BY <1>2, <1>3
<1>4. CASE Commit
  <2>1. CASE id = loading
    BY <1>4, <2>1, CommitKeeps
  <2>2. CASE id # loading
    <3>1. live' = [live EXCEPT ![loading] = LiveAfterLoad]
      BY <1>4 DEF Commit
    <3> QED
      BY <1>1, <1>2, <2>2, <3>1
  <2> QED
    BY <2>1, <2>2
<1>5. CASE Prune
  <2>1. CASE UNCHANGED slotVars
    BY <1>3, <2>1 DEF slotVars
  <2>2. ASSUME NEW i \in DOMAIN scripts, ~Kept(scripts[i]),
               scripts' = RemoveAt(scripts, i),
               live' = [live EXCEPT ![scripts[i]] = 0]
        PROVE  live'[id] >= live[id]
    <3>1. scripts[i] # Core /\ TypeOK /\ ListInv
      BY <2>2 DEF Kept, HotInv
    <3>2. id # scripts[i]
      BY <2>2, <3>1, RemoveKeepsList
    <3> QED
      BY <1>1, <1>2, <2>2, <3>2
  <2> QED
    BY <1>5, <2>1, <2>2 DEF Prune
<1> QED
  BY <1>3, <1>4, <1>5 DEF Next, Editor, Save, Remove, Renderer, Elapse, Frame, PollScript,
     EndPoll, ScanMod, EndScan, AddFound, LoadStat, LoadRead, slotVars

\* Reloading is transactional for any number of edits and failures.
THEOREM ReloadCorrect == Spec => ReloadIsTransactional
<1>1. HotInv /\ [Next]_vars
        => [\A id \in Ids : Listed(id) /\ Listed(id)' => live'[id] >= live[id]]_vars
  BY TransactionalStep
<1> QED
  BY <1>1, HotInvariant, PTL DEF Spec, ReloadIsTransactional

-----------------------------------------------------------------------------
(* A mod that stays in place.                                                 *)

\* Where a scan or a load of the renderer stands, the mod is not about to be
\* missed: a scan past its directory found it, its result holds it, and a load
\* of a new script goes back to that result.
Seen(id) ==
    /\ pc = "scan" => \A i \in DOMAIN Order : i < idx /\ Order[i] = id => id \in found
    /\ pc \in {"add", "prune"} => id \in found
    /\ pc \in Loading /\ ~Listed(loading) => id \in found

\* Unless a stat or an enumeration has failed, it is listed.
StaysListed(id) == faults.stat < StatFaults \/ (Listed(id) /\ Seen(id))

\* A stat that fails uses up one of the failures to come.
LEMMA TrueStat ==
    ASSUME TypeOK, NEW id \in Ids, NEW w, Stat(id, w), ~(faults'.stat < StatFaults)
    PROVE  w = disk[id].write
<1>1. faults \in [stat : 0..StatFaults, read : 0..ReadFaults] /\ StatFaults \in Nat
  BY BoundsAssumption DEF TypeOK
<1>2. ASSUME faults' = [faults EXCEPT !.stat = @ - 1]
      PROVE  FALSE
  <2>1. faults'.stat = faults.stat - 1 /\ faults.stat \in 0..StatFaults
    BY <1>1, <1>2
  <2> QED
    BY <1>1, <2>1
<1> QED
  BY <1>2 DEF Stat

\* The failures to come only get fewer.
LEMMA FaultsSpent ==
    ASSUME TypeOK, [Next]_vars, faults.stat < StatFaults
    PROVE  faults'.stat < StatFaults
<1>1. faults \in [stat : 0..StatFaults, read : 0..ReadFaults] /\ StatFaults \in Nat
  BY BoundsAssumption DEF TypeOK
<1>2. CASE UNCHANGED faults
  BY <1>2
<1>3. CASE faults' = [faults EXCEPT !.stat = @ - 1]
  <2>1. faults'.stat = faults.stat - 1 /\ faults.stat \in 0..StatFaults
    BY <1>1, <1>3
  <2> QED
    BY <1>1, <2>1
<1>4. CASE faults' = [faults EXCEPT !.read = @ - 1]
  BY <1>1, <1>4
<1>5. CASE PollScript \/ ScanMod \/ LoadStat
  BY <1>2, <1>3, <1>5 DEF PollScript, ScanMod, LoadStat, Stat
<1>6. CASE LoadRead
  BY <1>2, <1>4, <1>6 DEF LoadRead, ReadFile
<1>7. CASE EndScan
  BY <1>2, <1>3, <1>7 DEF EndScan
<1> QED
  BY <1>2, <1>5, <1>6, <1>7 DEF Next, vars, Editor, Save, Remove, Renderer, Elapse,
     Frame, EndPoll, AddFound, Prune, Commit

\* A step that leaves the list and the scan alone.
LEMMA SeenKept ==
    ASSUME NEW id, Listed(id), Seen(id), UNCHANGED <<pc, idx, found, scripts, loading>>
    PROVE  Listed(id)' /\ Seen(id)'
BY DEF Listed, Seen

\* The poll: a script it reloads is listed.
LEMMA PollSeen ==
    ASSUME HotInv, NEW id, Listed(id), Seen(id), PollScript
    PROVE  Listed(id)' /\ Seen(id)'
<1>1. scripts' = scripts /\ pc = "poll" /\ Listed(scripts[idx])
  BY DEF PollScript, slotVars, Listed
<1>2. pc' = "poll" \/ (pc' = "stat" /\ loading' = scripts[idx])
  BY <1>1 DEF PollScript, BeginLoad
<1> QED
  BY <1>1, <1>2 DEF Listed, Seen, Loading

\* A scan begins before the first directory, and a frame ends with none.
LEMMA FrameSeen ==
    ASSUME NEW id \in ModIds, Listed(id), Frame \/ EndPoll
    PROVE  Listed(id)' /\ Seen(id)'
<1>1. /\ scripts' = scripts /\ pc' \in {"poll", "scan", "idle"} /\ idx' = 1
  BY DEF Frame, EndPoll, BeginScan, EndFrame, slotVars
<1>2. \A i \in DOMAIN Order : ~(i < 1)
  BY OrderAssumption
<1> QED
  BY <1>1, <1>2 DEF Listed, Seen, Loading

\* The scan finds a mod that is there.
LEMMA ScanSeen ==
    ASSUME HotInv, NEW id \in ModIds, Listed(id), Seen(id), Present(id), ScanMod,
           ~(faults'.stat < StatFaults)
    PROVE  Listed(id)' /\ Seen(id)'
<1>1. /\ scripts' = scripts /\ pc = "scan" /\ pc' = "scan" /\ idx' = idx + 1
      /\ idx \in DOMAIN Order /\ found \subseteq found' /\ Order[idx] \in Ids
  BY DEF ScanMod, slotVars, Ids, ModIds
<1>2. ASSUME Order[idx] = id PROVE id \in found'
  <2>1. PICK w \in 0..MaxWrite :
          /\ Stat(id, w)
          /\ found' = IF IsMod(id, w) THEN found \union {id} ELSE found
    BY <1>2 DEF ScanMod
  <2>2. w = disk[id].write
    BY <1>1, <1>2, <2>1, TrueStat DEF HotInv
  <2> QED
    BY <2>1, <2>2 DEF IsMod, Present
<1>3. \A i \in DOMAIN Order : i < idx + 1 => i < idx \/ i = idx
  BY <1>1, OrderAssumption
<1> QED
  BY <1>1, <1>2, <1>3 DEF Listed, Seen, Loading

\* An enumeration that did not fail has looked at every directory.
LEMMA EndScanSeen ==
    ASSUME HotInv, NEW id \in ModIds, Listed(id), Seen(id), EndScan,
           ~(faults'.stat < StatFaults)
    PROVE  Listed(id)' /\ Seen(id)'
<1>1. /\ scripts' = scripts /\ found' = found /\ pc = "scan" /\ pc' = "add"
  BY DEF EndScan, slotVars
<1>2. idx > Len(Order)
  <2>1. faults \in [stat : 0..StatFaults, read : 0..ReadFaults] /\ StatFaults \in Nat
    BY BoundsAssumption DEF HotInv, TypeOK
  <2>2. ASSUME faults' = [faults EXCEPT !.stat = @ - 1]
        PROVE  FALSE
    <3>1. faults'.stat = faults.stat - 1 /\ faults.stat \in 0..StatFaults
      BY <2>1, <2>2
    <3> QED
      BY <2>1, <3>1
  <2> QED
    BY <2>2 DEF EndScan
<1>3. PICK i \in DOMAIN Order : Order[i] = id
  BY DEF ModIds
<1>4. i < idx
  BY <1>2, OrderAssumption DEF HotInv, TypeOK
<1> QED
  BY <1>1, <1>3, <1>4 DEF Listed, Seen, Loading

\* What was found is loaded, and only what was not found is erased.
LEMMA RefreshSeen ==
    ASSUME HotInv, NEW id \in ModIds, Listed(id), Seen(id), AddFound \/ Prune
    PROVE  Listed(id)' /\ Seen(id)'
<1>1. CASE AddFound
  <2>1. scripts' = scripts /\ found' = found /\ id \in found
        /\ pc' \in {"prune"} \union Loading
    BY <1>1 DEF AddFound, BeginLoad, Seen, slotVars, Loading
  <2> QED
    BY <2>1 DEF Listed, Seen, Loading
<1>2. CASE Prune
  <2>1. pc = "prune" /\ id \in found
    BY <1>2 DEF Prune, Seen
  <2>2. CASE EndFrame /\ UNCHANGED slotVars
    BY <2>2 DEF EndFrame, slotVars, Listed, Seen, Loading
  <2>3. ASSUME NEW i \in DOMAIN scripts, ~Kept(scripts[i]), scripts' = RemoveAt(scripts, i),
               UNCHANGED <<pc, found>>
        PROVE  Listed(id)' /\ Seen(id)'
    <3>1. scripts[i] # id /\ scripts \in Seq(Ids)
      BY <2>1, <2>3 DEF Kept, HotInv, TypeOK
    <3>2. Listed(id)'
      BY <2>3, <3>1, OthersStay
    <3> QED
      BY <2>1, <2>3, <3>2 DEF Seen, Loading
  <2> QED
    BY <1>2, <2>2, <2>3 DEF Prune
<1> QED
  BY <1>1, <1>2

\* A load goes on with what its caller was doing.
LEMMA LoadSeen ==
    ASSUME HotInv, NEW id \in ModIds, Listed(id), Seen(id), LoadStat \/ LoadRead \/ Commit
    PROVE  Listed(id)' /\ Seen(id)'
<1>1. CASE LoadStat \/ LoadRead
  <2>1. /\ scripts' = scripts /\ found' = found /\ loading' = loading
        /\ pc \in Loading /\ pc' \in {"read", "commit"}
    BY <1>1 DEF LoadStat, LoadRead, slotVars, Loading
  <2> QED
    BY <2>1 DEF Listed, Seen, Loading
<1>2. CASE Commit
  <2>1. found' = found /\ pc = "commit" /\ scripts \in Seq(Ids) /\ loading \in Ids
    BY <1>2 DEF Commit, HotInv, TypeOK
  <2>2. CASE Listed(loading)
    BY <1>2, <2>1, <2>2 DEF Commit, Listed, Seen, Loading
  <2>3. CASE ~Listed(loading)
    <3>1. /\ pc' = "add" /\ id \in found
      BY <1>2, <2>1, <2>3 DEF Commit, Seen, Loading
    <3>2. PICK i \in DOMAIN scripts : scripts[i] = id
      BY DEF Listed
    <3>3. scripts' = Append(scripts, loading)
      BY <1>2, <2>3 DEF Commit
    <3>4. i \in DOMAIN scripts' /\ scripts'[i] = id
      BY <2>1, <3>2, <3>3
    <3> QED
      BY <2>1, <3>1, <3>4 DEF Listed, Seen, Loading
  <2> QED
    BY <2>2, <2>3
<1> QED
  BY <1>1, <1>2

\* So while the mod's file is there only a failure can have it unlisted.
LEMMA StaysListedStep ==
    ASSUME HotInv, NEW id \in ModIds, Present(id), StaysListed(id), [Next]_vars
    PROVE  StaysListed(id)'
<1>1. TypeOK
  BY DEF HotInv
<1>2. CASE faults.stat < StatFaults
  BY <1>1, <1>2, FaultsSpent DEF StaysListed
<1>3. ASSUME Listed(id), Seen(id), ~(faults'.stat < StatFaults)
      PROVE  Listed(id)' /\ Seen(id)'
  <2>1. CASE Editor \/ UNCHANGED vars \/ \E timer \in Timers : Elapse(timer)
    <3>1. UNCHANGED <<pc, idx, found, scripts, loading>>
      BY <2>1 DEF Editor, Save, Remove, Elapse, vars, slotVars, loadVars
    <3> QED
      BY <1>3, <3>1, SeenKept
  <2>2. CASE Frame \/ EndPoll
    BY <1>3, <2>2, FrameSeen
  <2>3. CASE PollScript
    BY <1>3, <2>3, PollSeen
  <2>4. CASE ScanMod
    BY <1>3, <2>4, ScanSeen
  <2>5. CASE EndScan
    BY <1>3, <2>5, EndScanSeen
  <2>6. CASE AddFound \/ Prune
    BY <1>3, <2>6, RefreshSeen
  <2>7. CASE LoadStat \/ LoadRead \/ Commit
    BY <1>3, <2>7, LoadSeen
  <2> QED
    BY <2>1, <2>2, <2>3, <2>4, <2>5, <2>6, <2>7 DEF Next, Renderer
<1> QED
  BY <1>2, <1>3 DEF StaysListed

\* A mod that is listed between two frames and whose init.lua stays in place from
\* then on is never unloaded, unless a stat or an enumeration fails: the scan that
\* would miss it, the load it would be lost in and the erasure cannot be reached.
THEOREM PresentCorrect == Spec => PresentModStaysListed
<1>1. ASSUME NEW id \in ModIds
      PROVE  Spec => [](pc = "idle" /\ Listed(id) /\ []Present(id)
                          => [](faults.stat < StatFaults \/ Listed(id)))
  <2>1. pc = "idle" /\ Listed(id) => StaysListed(id)
    BY DEF StaysListed, Seen, Loading
  <2>2. HotInv /\ Present(id) /\ StaysListed(id) /\ [Next]_vars => StaysListed(id)'
    BY StaysListedStep
  <2>3. StaysListed(id) => faults.stat < StatFaults \/ Listed(id)
    BY DEF StaysListed
  <2> QED
    BY <2>1, <2>2, <2>3, HotInvariant, PTL DEF Spec
<1> QED
  BY <1>1 DEF PresentModStaysListed

-----------------------------------------------------------------------------
(* The callback tables.                                                       *)

\* A table is a sequence of at most MaxSlots entries.
LEMMA TableFacts ==
    ASSUME NEW table \in Tables
    PROVE  /\ Len(table) \in 0..MaxSlots
           /\ DOMAIN table = 1..Len(table)
           /\ table \in [1..Len(table) -> {"on", "off"}]
<1>1. PICK n \in 0..MaxSlots : table \in [1..n -> {"on", "off"}]
  BY DEF Tables
<1>2. n \in Nat
  BY <1>1, SlotsAssumption
<1>3. table \in Seq({"on", "off"})
  BY <1>1, <1>2
<1>4. Len(table) = n
  BY <1>1, <1>2, <1>3
<1> QED
  BY <1>1, <1>4

\* Anything of that shape is one.
LEMMA MakesTable ==
    ASSUME NEW n \in 0..MaxSlots, NEW table \in [1..n -> {"on", "off"}]
    PROVE  table \in Tables
BY DEF Tables

\* A script without callbacks has the empty table.
LEMMA EmptyTable == <<>> \in Tables
<1>1. 0 \in 0..MaxSlots
  BY SlotsAssumption
<1>2. <<>> \in [1..0 -> {"on", "off"}]
  OBVIOUS
<1> QED
  BY <1>1, <1>2, MakesTable

\* A failing callback's slot stays, and so do the others' values.
LEMMA DisabledFacts ==
    ASSUME NEW table \in Tables, NEW k \in DOMAIN table
    PROVE  /\ Disabled(table, k) \in Tables
           /\ Len(Disabled(table, k)) = Len(table)
           /\ \A j \in DOMAIN table : j # k => Disabled(table, k)[j] = table[j]
<1>1. Disabled(table, k) \in [1..Len(table) -> {"on", "off"}]
  BY TableFacts DEF Disabled
<1>2. Disabled(table, k) \in Tables
  BY <1>1, TableFacts, MakesTable
<1>3. Len(Disabled(table, k)) = Len(table)
  <2>1. PICK new \in Tables : new = Disabled(table, k)
    BY <1>2
  <2>2. DOMAIN new = 1..Len(new) /\ DOMAIN new = 1..Len(table)
    BY <1>1, <2>1, TableFacts
  <2>3. Len(new) \in Nat /\ Len(table) \in Nat
    BY TableFacts, SlotsAssumption
  <2> QED
    BY <2>1, <2>2, <2>3
<1>4. \A j \in DOMAIN table : j # k => Disabled(table, k)[j] = table[j]
  BY TableFacts DEF Disabled
<1> QED
  BY <1>2, <1>3, <1>4

\* dd.on adds its callback behind the others.
LEMMA GrownFacts ==
    ASSUME NEW table \in Tables, Len(table) < MaxSlots
    PROVE  /\ Append(table, "on") \in Tables
           /\ Len(Append(table, "on")) = Len(table) + 1
           /\ \A j \in DOMAIN table : Append(table, "on")[j] = table[j]
<1>1. PICK n \in 0..MaxSlots : n = Len(table)
  BY TableFacts
<1>2. /\ table \in Seq({"on", "off"}) /\ n \in Nat /\ n + 1 \in 0..MaxSlots
      /\ DOMAIN table = 1..n
  BY <1>1, TableFacts, SlotsAssumption
<1>3. PICK new \in Seq({"on", "off"}) : new = Append(table, "on")
  <2>1. "on" \in {"on", "off"}
    OBVIOUS
  <2>2. Append(table, "on") \in Seq({"on", "off"})
    BY <1>2, <2>1, AppendProperties
  <2> QED
    BY <2>2
<1>4. Len(new) = n + 1 /\ \A j \in 1..n : new[j] = table[j]
  BY <1>1, <1>2, <1>3, AppendProperties
<1>5. new \in [1..(n + 1) -> {"on", "off"}]
  BY <1>4, LenProperties
<1>6. new \in Tables
  BY <1>2, <1>5, MakesTable
<1> QED
  BY <1>1, <1>2, <1>3, <1>4, <1>6

\* Whatever a callback does, only its own slot may change and the table does not
\* shrink.
LEMMA CallFacts ==
    ASSUME NEW table \in Tables, NEW k \in DOMAIN table, NEW new \in AfterCall(table, k)
    PROVE  /\ new \in Tables
           /\ Len(new) >= Len(table)
           /\ \A j \in DOMAIN table : j \in DOMAIN new /\ (j # k => new[j] = table[j])
<1>1. PICK t \in {table} \union IF Len(table) < MaxSlots THEN {Append(table, "on")} ELSE {} :
          new = t \/ new = Disabled(t, k)
  BY DEF AfterCall
<1>2. /\ t \in Tables /\ Len(t) >= Len(table) /\ Len(table) \in Nat /\ Len(t) \in Nat
      /\ \A j \in DOMAIN table : t[j] = table[j]
  <2>1. Len(table) \in Nat
    BY TableFacts, SlotsAssumption
  <2>2. CASE t = table
    BY <2>1, <2>2
  <2>3. CASE Len(table) < MaxSlots /\ t = Append(table, "on")
    BY <2>1, <2>3, GrownFacts
  <2> QED
    BY <1>1, <2>2, <2>3
<1>3. \A j \in DOMAIN table : j \in DOMAIN t
  BY <1>2, TableFacts
<1>4. CASE new = t
  BY <1>2, <1>3, <1>4
<1>5. CASE new = Disabled(t, k)
  <2>1. k \in DOMAIN t
    BY <1>3
  <2>2. /\ new \in Tables /\ Len(new) = Len(t)
        /\ \A j \in DOMAIN t : j # k => new[j] = t[j]
    BY <1>2, <1>5, <2>1, DisabledFacts
  <2>3. DOMAIN new = 1..Len(new) /\ DOMAIN t = 1..Len(t)
    BY <1>2, <2>2, TableFacts
  <2> QED
    BY <1>2, <1>3, <2>2, <2>3, Zenon
<1> QED
  BY <1>1, <1>4, <1>5

-----------------------------------------------------------------------------
(* The steps of the dispatch, and those of a frame around it.                 *)

\* RenderTick's steps are steps of HotReload, or leave it alone.
LEMMA TickIsHot == TickNext => [Next]_vars
  BY DEF TickNext, BeginTick, CommitTable, PruneTable, Rest, Dispatch, BeginDispatch,
     NextScript, RunCallback, EndDispatch, Next, Renderer

\* Before the first frame there are no tables and no dispatch.
LEMMA TickInitial == TickInit => TickInv
<1> SUFFICES ASSUME TickInit PROVE TickInv
  OBVIOUS
<1>1. HotInv
  BY HotInit DEF TickInit
<1>2. callbacks \in [Ids -> Tables]
  BY EmptyTable DEF TickInit
<1>3. ran \in Seq(Callbacks)
  BY EmptySeq DEF TickInit
<1>4. TickTypeOK
  BY <1>1, <1>2, <1>3, SlotsAssumption DEF TickInit, TickTypeOK, HotInv
<1>5. scripts \in Seq(Ids) /\ 0 \notin DOMAIN scripts
  BY <1>1, LenProperties DEF HotInv, TypeOK
<1>6. Phases /\ Counted /\ StillPlanned /\ RanSoFar
  BY <1>5 DEF TickInit, Phases, Counted, StillPlanned, RanSoFar
<1>7. RanIsListed /\ RanInOrder
  BY DEF TickInit, RanIsListed, RanInOrder
<1> QED
  BY <1>1, <1>4, <1>6, <1>7 DEF TickInv

\* Between two dispatches nothing but the types has to be shown.
LEMMA OutsideKeeps ==
    ASSUME TickInv, HotInv', phase # "run", phase' \in {"none", "owed"},
           UNCHANGED <<turn, slot, count, planned, ran>>, callbacks' \in [Ids -> Tables],
           Owned'
    PROVE  TickInv'
<1>1. TickTypeOK'
  BY DEF TickInv, TickTypeOK, HotInv, Owned
<1>2. ran' = <<>> /\ turn' = 0 /\ count' = 0
  BY DEF TickInv, Phases
<1>3. 0 \notin DOMAIN scripts'
  BY LenProperties DEF HotInv, TypeOK
<1>4. Phases' /\ Counted' /\ StillPlanned' /\ RanSoFar'
  BY <1>2, <1>3 DEF Phases, Counted, StillPlanned, RanSoFar
<1>5. RanIsListed' /\ RanInOrder'
  BY <1>2 DEF RanIsListed, RanInOrder
<1> QED
  BY <1>1, <1>4, <1>5 DEF TickInv

\* A frame begins, with or without polls.
LEMMA BeginTickKeeps ==
    ASSUME TickInv, HotInv', BeginTick
    PROVE  TickInv'
<1>1. UNCHANGED <<scripts, live, callbacks>>
  BY DEF BeginTick, Frame, slotVars, vars
<1>2. Owned'
  BY <1>1 DEF TickInv, TickTypeOK, Owned, Listed
<1> QED
  BY <1>1, <1>2, OutsideKeeps DEF BeginTick, TickInv, TickTypeOK

\* A committed script has the table of its own state.
LEMMA CommitTableKeeps ==
    ASSUME TickInv, HotInv', CommitTable
    PROVE  TickInv'
<1>1. callbacks \in [Ids -> Tables] /\ loading \in Ids
  BY DEF TickInv, TickTypeOK, TypeOK
<1>2. ASSUME NEW table \in FreshTables
      PROVE  table \in Tables
  <2>1. PICK n \in 0..(MaxSlots - 1) : table = [k \in 1..n |-> "on"]
    BY DEF FreshTables
  <2>2. n \in 0..MaxSlots
    BY <2>1, SlotsAssumption
  <2>3. table \in [1..n -> {"on", "off"}]
    BY <2>1
  <2> QED
    BY <2>2, <2>3, MakesTable
<1>3. callbacks' \in [Ids -> Tables]
  <2>1. PICK table \in Tables :
            callbacks' = [callbacks EXCEPT ![loading] = IF TableKept THEN @ ELSE table]
    BY <1>2 DEF CommitTable
  <2> QED
    BY <1>1, <2>1
<1>4. pc = "commit" /\ phase # "run"
  BY DEF CommitTable, Commit, TickInv, Phases
<1>5. Owned'
  <2> SUFFICES ASSUME NEW id \in Ids, callbacks'[id] # <<>>
               PROVE  Listed(id)' /\ live'[id] # 0
    BY DEF Owned
  <2>1. scripts \in Seq(Ids) /\ live \in [Ids -> 0..MaxWrite] /\ candidate.source \in Files
    BY DEF TickInv, TickTypeOK, TypeOK
  <2>2. PICK l \in Ids :
          /\ l = loading
          /\ live' = [live EXCEPT ![l] = LiveAfterLoad]
          /\ scripts' = IF Listed(l) THEN scripts ELSE Append(scripts, l)
          /\ Loads \/ callbacks'[l] = callbacks[l]
          /\ id # l => callbacks'[id] = callbacks[id]
    BY <1>1 DEF CommitTable, Commit, TableKept
  <2>3. (id = l => Listed(id)') /\ (Listed(id) => Listed(id)')
    <3>1. CASE Listed(l)
      BY <2>2, <3>1 DEF Listed
    <3>2. CASE ~Listed(l)
      <4>1. scripts' = Append(scripts, l)
        BY <2>2, <3>2
      <4>2. /\ DOMAIN scripts = 1..Len(scripts) /\ DOMAIN scripts' = 1..(Len(scripts) + 1)
            /\ Len(scripts) \in Nat
            /\ \A j \in 1..Len(scripts) : scripts'[j] = scripts[j]
            /\ scripts'[Len(scripts) + 1] = l
        BY <2>1, <2>2, <4>1
      <4>3. Len(scripts) + 1 \in DOMAIN scripts' /\ DOMAIN scripts \subseteq DOMAIN scripts'
        BY <4>2
      <4>4. /\ \E j \in DOMAIN scripts' : scripts'[j] = l
            /\ Listed(id) => \E j \in DOMAIN scripts' : scripts'[j] = id
        BY <4>2, <4>3 DEF Listed
      <4> QED
        BY <4>4 DEF Listed
    <3> QED
      BY <3>1, <3>2
  <2>4. CASE id = loading /\ Loads
    <3>1. LiveAfterLoad # 0
      BY <2>1, <2>4, FileFacts DEF LiveAfterLoad, Loads
    <3> QED
      BY <1>1, <2>1, <2>2, <2>3, <2>4, <3>1
  <2>5. CASE id = loading /\ ~Loads
    <3>1. live'[id] = live[id] /\ callbacks[id] # <<>>
      BY <1>1, <2>1, <2>2, <2>5 DEF LiveAfterLoad
    <3> QED
      BY <2>3, <3>1 DEF TickInv, TickTypeOK
  <2>6. CASE id # loading
    <3>1. live'[id] = live[id] /\ callbacks[id] # <<>>
      BY <1>1, <2>1, <2>2, <2>6
    <3> QED
      BY <2>3, <3>1 DEF TickInv, TickTypeOK
  <2> QED
    BY <2>4, <2>5, <2>6
<1> QED
  BY <1>3, <1>4, <1>5, OutsideKeeps DEF CommitTable, dispatchVars, TickInv, TickTypeOK

\* An erased script loses its table.
LEMMA PruneTableKeeps ==
    ASSUME TickInv, HotInv', PruneTable
    PROVE  TickInv'
<1>1. callbacks \in [Ids -> Tables]
  BY DEF TickInv, TickTypeOK
<1>2. callbacks' \in [Ids -> Tables]
  BY <1>1, EmptyTable DEF PruneTable, TableAfterPrune
<1>3. pc = "prune" /\ phase # "run"
  BY DEF PruneTable, Prune, TickInv, Phases
<1>4. Owned'
  <2> SUFFICES ASSUME NEW id \in Ids, callbacks'[id] # <<>>
               PROVE  Listed(id)' /\ live'[id] # 0
    BY DEF Owned
  <2>1. Listed(id)' /\ callbacks[id] # <<>>
    BY DEF PruneTable, TableAfterPrune
  <2>2. live[id] # 0
    BY <2>1 DEF TickInv, TickTypeOK
  <2>3. CASE UNCHANGED slotVars
    BY <2>1, <2>2, <2>3 DEF slotVars
  <2>4. ASSUME NEW i \in DOMAIN scripts, ~Kept(scripts[i]),
               scripts' = RemoveAt(scripts, i),
               live' = [live EXCEPT ![scripts[i]] = 0]
        PROVE  live'[id] # 0
    <3>1. scripts[i] # Core /\ TypeOK /\ ListInv /\ live \in [Ids -> 0..MaxWrite]
      BY <2>4 DEF Kept, TickInv, HotInv, TypeOK
    <3>2. id # scripts[i]
      BY <2>1, <2>4, <3>1, RemoveKeepsList
    <3> QED
      BY <2>2, <2>4, <3>1, <3>2
  <2> QED
    BY <2>1, <2>3, <2>4 DEF PruneTable, Prune
<1> QED
  BY <1>2, <1>3, <1>4, OutsideKeeps DEF PruneTable, dispatchVars, TickInv, TickTypeOK

\* A step that a running dispatch does not see.
LEMMA UnseenKeeps ==
    ASSUME TickInv, HotInv', UNCHANGED <<pc, scripts, live, callbacks, dispatchVars>>
    PROVE  TickInv'
<1>1. UNCHANGED <<phase, turn, slot, count, planned, ran>>
  BY DEF dispatchVars
<1>2. TickTypeOK'
  BY <1>1 DEF TickInv, TickTypeOK, HotInv, Listed
<1>3. Phases' /\ Counted' /\ RanIsListed' /\ RanInOrder'
  BY <1>1 DEF TickInv, Phases, Counted, RanIsListed, RanInOrder, Before
<1>4. StillPlanned' /\ RanSoFar'
  BY <1>1 DEF TickInv, StillPlanned, RanSoFar, Passed, IsFunction
<1> QED
  BY <1>2, <1>3, <1>4 DEF TickInv

\* The editor and the clock may move at any time, a reload only between dispatches.
LEMMA RestKeeps ==
    ASSUME TickInv, HotInv', Rest
    PROVE  TickInv'
<1>1. CASE phase = "run"
  <2>1. pc = "idle"
    BY <1>1 DEF TickInv, Phases
  <2>2. Editor \/ \E timer \in Timers : Elapse(timer)
    BY <2>1 DEF Rest, PollScript, EndPoll, ScanMod, EndScan, AddFound, LoadStat, LoadRead
  <2>3. UNCHANGED <<pc, scripts, live>>
    BY <2>2 DEF Editor, Save, Remove, Elapse, slotVars
  <2> QED
    BY <2>3, UnseenKeeps DEF Rest
<1>2. CASE phase # "run"
  <2>1. UNCHANGED <<callbacks, phase, turn, slot, count, planned, ran>>
    BY DEF Rest, dispatchVars
  <2>2. UNCHANGED <<scripts, live>>
    BY DEF Rest, PollScript, EndPoll, ScanMod, EndScan, AddFound, LoadStat, LoadRead,
           Editor, Save, Remove, Elapse, slotVars
  <2>3. Owned'
    BY <2>1, <2>2 DEF TickInv, TickTypeOK, Owned, Listed
  <2> QED
    BY <1>2, <2>1, <2>3, OutsideKeeps DEF TickInv, TickTypeOK
<1> QED
  BY <1>1, <1>2

\* The dispatch begins with everything still to come.
LEMMA BeginDispatchKeeps ==
    ASSUME TickInv, HotInv', BeginDispatch
    PROVE  TickInv'
<1>1. /\ UNCHANGED <<pc, scripts, live, callbacks>>
      /\ pc = "idle" /\ phase' = "run" /\ turn' = 0 /\ slot' = 1 /\ count' = 0
      /\ planned' = On /\ ran' = <<>>
  BY DEF BeginDispatch, vars, slotVars
<1>2. scripts \in Seq(Ids) /\ DOMAIN scripts = 1..Len(scripts) /\ Len(scripts) \in Nat
  BY LenProperties DEF TickInv, HotInv, TypeOK
<1>3. TickTypeOK'
  <2>1. ran' \in Seq(Callbacks) /\ planned' \subseteq Callbacks
    BY <1>1, EmptySeq DEF On
  <2> QED
    BY <1>1, <2>1, SlotsAssumption DEF TickInv, TickTypeOK, HotInv, Listed
<1>4. Phases' /\ Counted'
  BY <1>1, <1>2 DEF Phases, Counted
<1>5. RanIsListed' /\ RanInOrder'
  BY <1>1 DEF RanIsListed, RanInOrder
<1>6. \A i \in DOMAIN scripts, k \in 1..MaxSlots :
          <<scripts[i], k>> \in On <=> live[scripts[i]] # 0 /\ IsFunction(scripts[i], k)
  <2> SUFFICES ASSUME NEW i \in DOMAIN scripts, NEW k \in 1..MaxSlots
               PROVE  <<scripts[i], k>> \in On
                        <=> live[scripts[i]] # 0 /\ IsFunction(scripts[i], k)
    OBVIOUS
  <2>1. <<scripts[i], k>> \in Callbacks
    BY <1>2 DEF Callbacks
  <2>2. Listed(scripts[i])
    BY DEF Listed
  <2> QED
    BY <2>1, <2>2 DEF On
<1>7. \A c \in On : \E i \in DOMAIN scripts : scripts[i] = c[1]
  BY DEF On, Listed
<1>8. StillPlanned'
  <2>1. \A i \in DOMAIN scripts : i # 0 /\ i > 0
    BY <1>2
  <2> QED
    BY <1>1, <1>6, <1>7, <2>1 DEF StillPlanned, IsFunction
<1>9. RanSoFar'
  BY <1>1, <1>2 DEF RanSoFar, Passed
<1> QED
  BY <1>3, <1>4, <1>5, <1>8, <1>9 DEF TickInv

\* What the steps of a running dispatch may rely on.
LEMMA RunFacts ==
    ASSUME TickInv, phase = "run"
    PROVE  /\ pc = "idle" /\ turn <= Len(scripts) + 1 /\ turn \in Nat
           /\ Len(scripts) \in Nat /\ DOMAIN scripts = 1..Len(scripts)
           /\ \A i \in DOMAIN scripts : scripts[i] \in Ids
           /\ \A i, j \in DOMAIN scripts : scripts[i] = scripts[j] => i = j
           /\ callbacks \in [Ids -> Tables]
           /\ slot \in 1..(MaxSlots + 1) /\ count \in 0..MaxSlots /\ MaxSlots \in Nat
<1>1. TickTypeOK /\ Phases /\ CoreFirstNoDuplicates
  BY DEF TickInv, HotInv, ListInv
<1>2. scripts \in Seq(Ids)
  BY <1>1 DEF TickTypeOK, TypeOK
<1>3. /\ Len(scripts) \in Nat /\ DOMAIN scripts = 1..Len(scripts)
      /\ \A i \in DOMAIN scripts : scripts[i] \in Ids
  BY <1>2, LenProperties
<1>4. MaxSlots \in Nat
  BY SlotsAssumption
<1> QED
  BY <1>1, <1>3, <1>4 DEF TickTypeOK, Phases, CoreFirstNoDuplicates

\* A script's turn is over; the next one's table is measured.
LEMMA NextScriptKeeps ==
    ASSUME TickInv, HotInv', NextScript
    PROVE  TickInv'
<1>1. /\ UNCHANGED <<pc, scripts, live, callbacks, phase, planned, ran>>
      /\ phase = "run" /\ turn <= Len(scripts) /\ slot > count
      /\ turn' = turn + 1 /\ slot' = 1
      /\ count' = IF turn + 1 \in DOMAIN scripts THEN CountOf(scripts[turn + 1]) ELSE 0
  <2>1. UNCHANGED <<pc, scripts, live, callbacks, phase, planned, ran>> /\ turn' = turn + 1
    BY DEF NextScript, vars, slotVars
  <2>2. phase = "run" /\ turn <= Len(scripts) /\ slot' = 1 /\ ~(slot <= count)
    BY DEF NextScript, More
  <2>3. count' = IF turn + 1 \in DOMAIN scripts THEN CountOf(scripts[turn + 1]) ELSE 0
    BY <2>1 DEF NextScript
  <2>4. slot > count
    BY <2>2, RunFacts
  <2> QED
    BY <2>1, <2>2, <2>3, <2>4
<1>2. ASSUME turn + 1 \in DOMAIN scripts
      PROVE  /\ callbacks[scripts[turn + 1]] \in Tables
             /\ Len(callbacks[scripts[turn + 1]]) \in 0..MaxSlots
             /\ count' = IF live[scripts[turn + 1]] = 0 THEN 0
                                                        ELSE Len(callbacks[scripts[turn + 1]])
             /\ count' \in 0..MaxSlots
             /\ count' <= Len(callbacks[scripts[turn + 1]])
  <2>1. callbacks[scripts[turn + 1]] \in Tables
    BY <1>1, <1>2, RunFacts
  <2>2. Len(callbacks[scripts[turn + 1]]) \in 0..MaxSlots
    BY <2>1, TableFacts
  <2>3. count' = IF live[scripts[turn + 1]] = 0 THEN 0 ELSE Len(callbacks[scripts[turn + 1]])
    BY <1>1, <1>2 DEF CountOf
  <2>4. MaxSlots \in Nat
    BY <1>1, RunFacts
  <2> QED
    BY <2>1, <2>2, <2>3, <2>4
<1>3. TickTypeOK'
  <2>1. count' \in 0..MaxSlots /\ turn' \in Nat /\ slot' \in 1..(MaxSlots + 1)
    BY <1>1, <1>2, RunFacts
  <2> QED
    BY <1>1, <2>1 DEF TickInv, TickTypeOK, HotInv, Listed
<1>4. Phases'
  BY <1>1, RunFacts DEF Phases
<1>5. Counted'
  BY <1>1, <1>2 DEF Counted
<1>6. RanIsListed' /\ RanInOrder'
  BY <1>1 DEF TickInv, RanIsListed, RanInOrder, Before
<1>7. ASSUME NEW i \in DOMAIN scripts, NEW k \in 1..MaxSlots
      PROVE  /\ i > turn + 1 =>
                  (<<scripts[i], k>> \in planned
                     <=> live[scripts[i]] # 0 /\ IsFunction(scripts[i], k))
             /\ i = turn + 1 =>
                  (<<scripts[i], k>> \in planned <=> k <= count' /\ IsFunction(scripts[i], k))
  <2>1. i \in Nat /\ turn \in Nat /\ k \in Nat
    BY <1>1, RunFacts
  <2>2. i > turn => (<<scripts[i], k>> \in planned
                       <=> live[scripts[i]] # 0 /\ IsFunction(scripts[i], k))
    BY <1>1 DEF TickInv, StillPlanned
  <2>3. CASE i = turn + 1
    <3>1. PICK table \in Tables : table = callbacks[scripts[i]]
      BY <1>2, <2>3
    <3>2. /\ DOMAIN table = 1..Len(table) /\ Len(table) \in Nat
          /\ count' = IF live[scripts[i]] = 0 THEN 0 ELSE Len(table)
      BY <1>1, <1>2, <2>3, <3>1, TableFacts, RunFacts
    <3>3. live[scripts[i]] # 0 /\ IsFunction(scripts[i], k)
            <=> k <= count' /\ IsFunction(scripts[i], k)
      BY <2>1, <3>1, <3>2 DEF IsFunction
    <3> QED
      BY <2>1, <2>2, <2>3, <3>3
  <2>4. CASE i # turn + 1
    BY <2>1, <2>2, <2>4
  <2> QED
    BY <2>3, <2>4
<1>8. StillPlanned'
  <2>1. \A c \in planned : \E i \in DOMAIN scripts : scripts[i] = c[1]
    BY <1>1 DEF TickInv, StillPlanned
  <2> QED
    BY <1>1, <1>7, <2>1 DEF StillPlanned, IsFunction
<1>9. ASSUME NEW i \in DOMAIN scripts, NEW k \in 1..MaxSlots
      PROVE  <<scripts[i], k>> \in planned /\ Passed(i, k)'
                <=> <<scripts[i], k>> \in planned /\ Passed(i, k)
  <2>1. i \in Nat /\ turn \in Nat /\ k \in Nat /\ slot \in Nat /\ count \in Nat /\ k >= 1
    BY <1>1, RunFacts
  <2>2. Passed(i, k)' <=> i <= turn
    BY <1>1, <2>1 DEF Passed
  <2>3. CASE i = turn /\ slot <= k
    <3>1. ~(k <= count)
      BY <1>1, <2>1, <2>3
    <3>2. <<scripts[i], k>> \notin planned
      BY <1>1, <2>3, <3>1 DEF TickInv, StillPlanned
    <3> QED
      BY <3>2
  <2>4. CASE ~(i = turn /\ slot <= k)
    BY <2>1, <2>2, <2>4 DEF Passed
  <2> QED
    BY <2>3, <2>4
<1>10. RanSoFar'
  BY <1>1, <1>9 DEF TickInv, RanSoFar
<1> QED
  BY <1>3, <1>4, <1>5, <1>6, <1>8, <1>10 DEF TickInv

\* A dispatch that is over leaves nothing behind.
LEMMA EndDispatchKeeps ==
    ASSUME TickInv, HotInv', EndDispatch
    PROVE  TickInv'
<1>1. /\ UNCHANGED <<pc, scripts, live, callbacks, slot, count>>
      /\ phase = "run" /\ turn > Len(scripts)
      /\ phase' = "none" /\ turn' = 0 /\ planned' = {} /\ ran' = <<>>
  BY DEF EndDispatch, vars, slotVars
<1>2. turn \notin DOMAIN scripts /\ 0 \notin DOMAIN scripts
  BY <1>1, RunFacts
<1>3. count = 0
  BY <1>2 DEF TickInv, Counted
<1>4. TickTypeOK'
  <2>1. ran' \in Seq(Callbacks) /\ planned' \subseteq Callbacks
    BY <1>1, EmptySeq
  <2> QED
    BY <1>1, <2>1 DEF TickInv, TickTypeOK, HotInv, Listed
<1>5. Phases' /\ Counted' /\ StillPlanned' /\ RanSoFar'
  BY <1>1, <1>2, <1>3 DEF Phases, Counted, StillPlanned, RanSoFar
<1>6. RanIsListed' /\ RanInOrder'
  BY <1>1 DEF RanIsListed, RanInOrder
<1> QED
  BY <1>4, <1>5, <1>6 DEF TickInv

\* One slot is dealt with: its callback is called if it is still on, and whatever
\* it does to its table, the slots to come are what they were.
LEMMA RunCallbackKeeps ==
    ASSUME TickInv, HotInv', RunCallback
    PROVE  TickInv'
<1>1. /\ UNCHANGED <<pc, scripts, live, phase, turn, count, planned>>
      /\ phase = "run" /\ turn \in DOMAIN scripts /\ slot <= count /\ slot' = slot + 1
  BY DEF RunCallback, More, vars, slotVars
<1>2. PICK id \in Ids : id = scripts[turn]
  BY <1>1, RunFacts
<1>3. PICK table \in Tables : table = callbacks[id]
  BY <1>1, <1>2, RunFacts
<1>4. /\ DOMAIN table = 1..Len(table) /\ Len(table) \in 0..MaxSlots
      /\ count <= Len(table)
      /\ slot \in Nat /\ count \in Nat /\ turn \in Nat /\ Len(table) \in Nat /\ MaxSlots \in Nat
      /\ slot >= 1 /\ slot <= MaxSlots
      /\ callbacks \in [Ids -> Tables]
  <2>1. DOMAIN table = 1..Len(table) /\ Len(table) \in 0..MaxSlots
    BY TableFacts
  <2>2. count <= Len(table)
    BY <1>1, <1>2, <1>3 DEF TickInv, Counted
  <2> QED
    BY <1>1, <2>1, <2>2, RunFacts
<1>5. slot \in DOMAIN table /\ slot \in 1..MaxSlots
  BY <1>1, <1>4
<1>6. PICK new \in Tables :
          /\ callbacks' = [callbacks EXCEPT ![id] = new]
          /\ Len(new) >= Len(table) /\ Len(new) \in Nat
          /\ \A j \in DOMAIN table : j \in DOMAIN new /\ (j # slot => new[j] = table[j])
  <2>1. CASE UNCHANGED callbacks
    <3>1. callbacks' = [callbacks EXCEPT ![id] = table]
      BY <1>3, <1>4, <2>1
    <3>2. /\ Len(table) >= Len(table) /\ Len(table) \in Nat
          /\ \A j \in DOMAIN table : j \in DOMAIN table /\ (j # slot => table[j] = table[j])
      BY <1>4
    <3> QED
      BY <3>1, <3>2
  <2>2. CASE \E new \in AfterCall(callbacks[id], slot) :
                callbacks' = [callbacks EXCEPT ![id] = new]
    <3>1. PICK new \in AfterCall(table, slot) : callbacks' = [callbacks EXCEPT ![id] = new]
      BY <1>3, <2>2
    <3>2. /\ new \in Tables /\ Len(new) >= Len(table)
          /\ \A j \in DOMAIN table : j \in DOMAIN new /\ (j # slot => new[j] = table[j])
      BY <1>5, <3>1, CallFacts
    <3>3. Len(new) \in Nat
      BY <1>4, <3>2, TableFacts
    <3> QED
      BY <3>1, <3>2, <3>3
  <2> QED
    BY <1>2, <2>1, <2>2 DEF RunCallback
<1>7. /\ callbacks' \in [Ids -> Tables]
      /\ callbacks'[id] = new
      /\ \A other \in Ids : other # id => callbacks'[other] = callbacks[other]
  BY <1>4, <1>6
<1>8. \/ ran' = ran /\ ~IsFunction(id, slot)
      \/ ran' = Append(ran, <<id, slot>>) /\ IsFunction(id, slot)
  BY <1>2 DEF RunCallback
<1>9. PICK c \in Callbacks : c = <<id, slot>>
  BY <1>5 DEF Callbacks
<1>10. ran \in Seq(Callbacks) /\ ran' \in Seq(Callbacks)
  <2>1. ran \in Seq(Callbacks)
    BY DEF TickInv, TickTypeOK
  <2>2. Append(ran, c) \in Seq(Callbacks)
    BY <2>1, AppendProperties
  <2> QED
    BY <1>8, <1>9, <2>1, <2>2
<1>11. Owned'
  <2>1. Listed(id) /\ live[id] # 0
    <3>1. table # <<>>
      BY <1>4, <1>5
    <3> QED
      BY <1>3, <3>1 DEF TickInv, TickTypeOK
  <2> QED
    BY <1>1, <1>7, <2>1 DEF TickInv, TickTypeOK, Owned, Listed
<1>12. TickTypeOK'
  <2>1. slot' \in 1..(MaxSlots + 1)
    BY <1>1, <1>4
  <2> QED
    BY <1>1, <1>7, <1>10, <1>11, <2>1 DEF TickInv, TickTypeOK, HotInv, Owned
<1>13. Phases'
  BY <1>1, RunFacts DEF Phases
<1>14. Counted'
  BY <1>1, <1>2, <1>4, <1>6, <1>7 DEF Counted
\* The slots to come.
<1>15. ASSUME NEW i \in DOMAIN scripts, NEW k \in 1..MaxSlots, i > turn
       PROVE  IsFunction(scripts[i], k)' <=> IsFunction(scripts[i], k)
  <2>1. scripts[i] \in Ids /\ scripts[i] # id
    BY <1>1, <1>2, <1>4, <1>15, RunFacts
  <2>2. callbacks'[scripts[i]] = callbacks[scripts[i]]
    BY <1>7, <2>1
  <2> QED
    BY <1>1, <2>2 DEF IsFunction
<1>16. ASSUME NEW k \in 1..MaxSlots, slot + 1 <= k
       PROVE  k <= count /\ IsFunction(id, k)' <=> k <= count /\ IsFunction(id, k)
  <2>1. CASE k <= count
    <3>1. k \in DOMAIN table /\ k # slot
      BY <1>4, <1>16, <2>1
    <3>2. k \in DOMAIN new /\ new[k] = table[k]
      BY <1>6, <3>1
    <3> QED
      BY <1>3, <1>7, <3>1, <3>2 DEF IsFunction
  <2>2. CASE ~(k <= count)
    BY <2>2
  <2> QED
    BY <2>1, <2>2
<1>17. ASSUME NEW i \in DOMAIN scripts, NEW k \in 1..MaxSlots
       PROVE  /\ i > turn =>
                    (<<scripts[i], k>> \in planned
                       <=> live[scripts[i]] # 0 /\ IsFunction(scripts[i], k)')
              /\ i = turn /\ slot + 1 <= k =>
                    (<<scripts[i], k>> \in planned
                       <=> k <= count /\ IsFunction(scripts[i], k)')
  <2>1. /\ i > turn =>
             (<<scripts[i], k>> \in planned
                <=> live[scripts[i]] # 0 /\ IsFunction(scripts[i], k))
        /\ i = turn /\ slot <= k =>
             (<<scripts[i], k>> \in planned <=> k <= count /\ IsFunction(scripts[i], k))
    BY <1>1 DEF TickInv, StillPlanned
  <2>2. slot + 1 <= k => slot <= k
    BY <1>4
  <2>3. i > turn => (IsFunction(scripts[i], k)' <=> IsFunction(scripts[i], k))
    BY <1>15
  <2>4. ASSUME i = turn, slot + 1 <= k
        PROVE  <<scripts[i], k>> \in planned <=> k <= count /\ IsFunction(scripts[i], k)'
    <3>1. scripts[i] = id /\ scripts'[i] = id
      BY <1>1, <1>2, <2>4
    <3>2. k <= count /\ IsFunction(id, k)' <=> k <= count /\ IsFunction(id, k)
      BY <1>16, <2>4
    <3>3. IsFunction(scripts[i], k)' <=> IsFunction(id, k)'
      BY <3>1 DEF IsFunction
    <3> QED
      BY <2>1, <2>2, <2>4, <3>1, <3>2, <3>3
  <2> QED
    BY <2>1, <2>3, <2>4
<1>18. StillPlanned'
  <2>1. \A d \in planned : \E i \in DOMAIN scripts : scripts[i] = d[1]
    BY <1>1 DEF TickInv, StillPlanned
  <2>2. \A i \in DOMAIN scripts, k \in 1..MaxSlots :
           IsFunction(scripts[i], k)' <=> k \in DOMAIN callbacks'[scripts[i]]
                                            /\ callbacks'[scripts[i]][k] = "on"
    BY <1>1 DEF IsFunction
  <2> QED
    BY <1>1, <1>17, <2>1 DEF StillPlanned
\* What has run.
<1>19. ASSUME NEW i \in DOMAIN scripts, NEW k \in 1..MaxSlots
       PROVE  /\ <<scripts[i], k>> = <<id, slot>> <=> i = turn /\ k = slot
              /\ Passed(i, k)' <=> Passed(i, k) \/ (i = turn /\ k = slot)
              /\ i = turn /\ k = slot => ~Passed(i, k)
  <2>1. scripts[i] = id => i = turn
    BY <1>1, <1>2, RunFacts
  <2>2. i \in Nat /\ k \in Nat
    BY <1>1, RunFacts
  <2>3. Passed(i, k)' <=> i < turn \/ (i = turn /\ k < slot + 1)
    BY <1>1 DEF Passed
  <2>4. <<scripts[i], k>> = <<id, slot>> <=> i = turn /\ k = slot
    BY <1>2, <2>1
  <2> QED
    BY <1>4, <2>2, <2>3, <2>4 DEF Passed
<1>20. ASSUME NEW i \in DOMAIN scripts, NEW k \in 1..MaxSlots
       PROVE  (\E n \in DOMAIN ran : ran[n] = <<scripts[i], k>>)
                <=> <<scripts[i], k>> \in planned /\ Passed(i, k)
  BY <1>1 DEF TickInv, RanSoFar
<1>21. c \in planned <=> IsFunction(id, slot)
  <2>1. <<scripts[turn], slot>> \in planned <=> slot <= count /\ IsFunction(scripts[turn], slot)
    BY <1>1, <1>4, <1>5 DEF TickInv, StillPlanned
  <2> QED
    BY <1>1, <1>2, <1>9, <2>1
<1>22. CASE ran' = ran /\ ~IsFunction(id, slot)
  <2>1. RanSoFar'
    <3> SUFFICES ASSUME NEW i \in DOMAIN scripts, NEW k \in 1..MaxSlots
                 PROVE  (\E n \in DOMAIN ran : ran[n] = <<scripts[i], k>>)
                          <=> <<scripts[i], k>> \in planned /\ Passed(i, k)'
      BY <1>1, <1>22 DEF RanSoFar
    <3>1. <<scripts[i], k>> = c => c \notin planned
      BY <1>21, <1>22
    <3>2. (i = turn /\ k = slot) => <<scripts[i], k>> = c
      BY <1>9, <1>19
    <3> QED
      BY <1>19, <1>20, <3>1, <3>2
  <2>2. RanIsListed' /\ RanInOrder'
    BY <1>1, <1>22 DEF TickInv, RanIsListed, RanInOrder, Before
  <2> QED
    BY <1>12, <1>13, <1>14, <1>18, <2>1, <2>2 DEF TickInv
<1>23. CASE ran' = Append(ran, c) /\ IsFunction(id, slot)
  <2>1. PICK m \in Nat : /\ m = Len(ran) /\ DOMAIN ran = 1..m
                         /\ DOMAIN ran' = 1..(m + 1)
                         /\ \A n \in 1..m : ran'[n] = ran[n]
                         /\ ran'[m + 1] = c
    <3>1. Len(ran) \in Nat /\ DOMAIN ran = 1..Len(ran) /\ DOMAIN ran' = 1..Len(ran')
      BY <1>10, LenProperties
    <3>2. /\ Len(Append(ran, c)) = Len(ran) + 1
          /\ \A n \in 1..Len(ran) : Append(ran, c)[n] = ran[n]
          /\ Append(ran, c)[Len(ran) + 1] = c
      BY <1>10, AppendProperties
    <3> QED
      BY <1>23, <3>1, <3>2, Zenon
  <2>2. \A n \in 1..(m + 1) : n \in 1..m \/ n = m + 1
    BY <2>1
  <2>3. m + 1 \in 1..(m + 1) /\ \A n \in 1..m : n \in 1..(m + 1)
    BY <2>1
  <2>4. \A d : (\E n \in DOMAIN ran' : ran'[n] = d) <=> (\E n \in DOMAIN ran : ran[n] = d) \/ d = c
    BY <2>1, <2>2, <2>3
  <2>5. RanSoFar'
    <3> SUFFICES ASSUME NEW i \in DOMAIN scripts, NEW k \in 1..MaxSlots
                 PROVE  (\E n \in DOMAIN ran' : ran'[n] = <<scripts[i], k>>)
                          <=> <<scripts[i], k>> \in planned /\ Passed(i, k)'
      BY <1>1 DEF RanSoFar
    <3>1. (\E n \in DOMAIN ran' : ran'[n] = <<scripts[i], k>>)
            <=> (<<scripts[i], k>> \in planned /\ Passed(i, k)) \/ <<scripts[i], k>> = c
      BY <1>20, <2>4
    <3>2. c \in planned
      BY <1>21, <1>23
    <3> QED
      BY <1>9, <1>19, <3>1, <3>2
  <2>6. RanIsListed'
    <3>1. \A n \in DOMAIN ran : \E i \in DOMAIN scripts : scripts[i] = ran[n][1]
      BY DEF TickInv, RanIsListed
    <3>2. c[1] = id
      BY <1>9
    <3> QED
      BY <1>1, <1>2, <2>1, <2>2, <3>1, <3>2 DEF RanIsListed
  <2>7. ASSUME NEW n \in 1..m
        PROVE  Before(ran[n], c)
    <3>1. PICK i \in DOMAIN scripts : scripts[i] = ran[n][1]
      BY <2>1 DEF TickInv, RanIsListed
    <3>2. ran[n] \in Callbacks
      BY <1>10, <2>1, LenProperties
    <3>3. PICK k \in 1..MaxSlots : ran[n] = <<scripts[i], k>>
      BY <3>1, <3>2 DEF Callbacks
    <3>4. Passed(i, k)
      BY <1>20, <2>1, <3>3
    <3> QED
      BY <1>1, <1>2, <1>9, <3>3, <3>4 DEF Before, Passed
  <2>8. RanInOrder'
    <3>1. \A e, f : Before(e, f)' <=> Before(e, f)
      BY <1>1 DEF Before
    <3>2. \A n \in 1..m : Before(ran'[n], ran'[m + 1])
      BY <2>1, <2>7
    <3>3. \A k, n \in 1..m : k < n => Before(ran'[k], ran'[n])
      BY <2>1 DEF TickInv, RanInOrder
    <3>4. \A k, n \in 1..(m + 1) : k < n => k \in 1..m /\ (n \in 1..m \/ n = m + 1)
      BY <2>1
    <3> QED
      BY <2>1, <3>1, <3>2, <3>3, <3>4 DEF RanInOrder
  <2> QED
    BY <1>12, <1>13, <1>14, <1>18, <2>5, <2>6, <2>8 DEF TickInv
<1> QED
  BY <1>8, <1>9, <1>22, <1>23

\* Every step of the frames and of the dispatch keeps the invariant.
LEMMA TickInductive == TickInv /\ [TickNext]_tickVars => TickInv'
<1> SUFFICES ASSUME TickInv, [TickNext]_tickVars PROVE TickInv'
  OBVIOUS
<1>1. [Next]_vars
  BY TickIsHot DEF tickVars
<1>2. HotInv'
  BY <1>1, HotNext DEF TickInv
<1>3. CASE TickNext
  BY <1>2, <1>3, BeginTickKeeps, CommitTableKeeps, PruneTableKeeps, RestKeeps,
     BeginDispatchKeeps, NextScriptKeeps, RunCallbackKeeps, EndDispatchKeeps
     DEF TickNext, Dispatch
<1>4. CASE UNCHANGED tickVars
  <2>1. UNCHANGED <<pc, scripts, live, callbacks, dispatchVars>>
    BY <1>4 DEF tickVars, vars, slotVars
  <2> QED
    BY <1>2, <2>1, UnseenKeeps
<1> QED
  BY <1>3, <1>4

\* So it holds in every reachable state.
LEMMA TickInvariant == TickSpec => []TickInv
  BY TickInitial, TickInductive, PTL DEF TickSpec

\* Type correctness, with who may hold callbacks at all: for any number of mods,
\* edits, failures and callbacks.
THEOREM TickTypeCorrect == TickSpec => []TickTypeOK
<1>1. TickInv => TickTypeOK
  BY DEF TickInv
<1> QED
  BY <1>1, TickInvariant, PTL

\* dispatch_render_tick calls exactly the callbacks that were on when it began,
\* each once and in their order, whatever they fail at or register meanwhile.
THEOREM OnceCorrect == TickSpec => []EveryCallbackOnce
<1>1. ASSUME TickInv
      PROVE  EveryCallbackOnce
  <2>1. ASSUME phase = "run", turn > Len(scripts)
        PROVE  planned = {ran[i] : i \in DOMAIN ran}
    <3>1. \A i \in DOMAIN scripts, k \in 1..MaxSlots : Passed(i, k)
      BY <1>1, <2>1, RunFacts DEF Passed
    <3>2. /\ planned \subseteq Callbacks /\ ran \in Seq(Callbacks)
          /\ \A n \in DOMAIN ran : ran[n] \in Callbacks
      <4>1. planned \subseteq Callbacks /\ ran \in Seq(Callbacks)
        BY <1>1 DEF TickInv, TickTypeOK
      <4> QED
        BY <4>1, LenProperties
    <3>3. ASSUME NEW c \in Callbacks, \E i \in DOMAIN scripts : scripts[i] = c[1]
          PROVE  c \in planned <=> \E n \in DOMAIN ran : ran[n] = c
      <4>1. PICK i \in DOMAIN scripts : scripts[i] = c[1]
        BY <3>3
      <4>2. c = <<scripts[i], c[2]>> /\ c[2] \in 1..MaxSlots
        BY <4>1 DEF Callbacks
      <4> QED
        BY <1>1, <2>1, <3>1, <4>1, <4>2 DEF TickInv, RanSoFar
    <3>4. \A c \in planned : \E i \in DOMAIN scripts : scripts[i] = c[1]
      BY <1>1, <2>1 DEF TickInv, StillPlanned
    <3>5. \A n \in DOMAIN ran : \E i \in DOMAIN scripts : scripts[i] = ran[n][1]
      BY <1>1 DEF TickInv, RanIsListed
    <3> QED
      BY <3>2, <3>3, <3>4, <3>5
  <2>2. RanInOrder
    BY <1>1 DEF TickInv
  <2> QED
    BY <2>1, <2>2 DEF EveryCallbackOnce, RanInOrder
<1> QED
  BY <1>1, TickInvariant, PTL

\* A failed callback stays off: no step but a reload that succeeds, or the removal
\* of its mod, touches its slot.
LEMMA OffStep ==
    ASSUME TickInv, TickNext, NEW c \in Callbacks,
           c[2] \in DOMAIN callbacks[c[1]], callbacks[c[1]][c[2]] = "off",
           Listed(c[1])', ~(pc = "commit" /\ loading = c[1] /\ Loads)
    PROVE  c[2] \in DOMAIN callbacks'[c[1]] /\ callbacks'[c[1]][c[2]] = "off"
<1>1. callbacks \in [Ids -> Tables] /\ c[1] \in Ids
  BY DEF TickInv, TickTypeOK, Callbacks
<1>2. CASE UNCHANGED callbacks
  BY <1>2
<1>3. CASE CommitTable
  <2>1. pc = "commit" /\ loading \in Ids
    BY <1>3 DEF CommitTable, Commit, TickInv, TickTypeOK, TypeOK
  <2>2. callbacks'[c[1]] = callbacks[c[1]]
    BY <1>1, <1>3, <2>1 DEF CommitTable, TableKept
  <2> QED
    BY <2>2
<1>4. CASE PruneTable
  <2>1. callbacks'[c[1]] = callbacks[c[1]]
    BY <1>1, <1>4 DEF PruneTable, TableAfterPrune
  <2> QED
    BY <2>1
<1>5. CASE RunCallback
  <2>1. phase = "run" /\ turn \in DOMAIN scripts
    BY <1>5 DEF RunCallback
  <2>2. PICK id \in Ids : id = scripts[turn]
    BY <2>1, RunFacts
  <2>3. CASE IsFunction(id, slot) /\ id = c[1]
    <3>1. PICK new \in AfterCall(callbacks[id], slot) :
              callbacks' = [callbacks EXCEPT ![id] = new]
      BY <1>2, <1>5, <2>2, <2>3 DEF RunCallback
    <3>2. slot \in DOMAIN callbacks[id] /\ c[2] # slot
      BY <2>3 DEF IsFunction
    <3>3. c[2] \in DOMAIN new /\ new[c[2]] = callbacks[id][c[2]]
      BY <1>1, <2>3, <3>1, <3>2, CallFacts
    <3> QED
      BY <1>1, <2>3, <3>1, <3>3
  <2>4. CASE id # c[1]
    BY <1>1, <1>5, <2>2, <2>4 DEF RunCallback
  <2>5. CASE ~IsFunction(id, slot)
    BY <1>5, <2>2, <2>5 DEF RunCallback
  <2> QED
    BY <2>3, <2>4, <2>5
<1> QED
  BY <1>2, <1>3, <1>4, <1>5 DEF TickNext, BeginTick, Rest, Dispatch, BeginDispatch,
     NextScript, EndDispatch

\* The same of every behaviour, as the run states it.
THEOREM OffCorrect == TickSpec => OffUntilReloaded
<1> DEFINE Stays == \A c \in Callbacks :
          /\ c[2] \in DOMAIN callbacks[c[1]]
          /\ callbacks[c[1]][c[2]] = "off"
          /\ Listed(c[1])'
          /\ ~(pc = "commit" /\ loading = c[1] /\ Loads)
          => c[2] \in DOMAIN callbacks'[c[1]] /\ callbacks'[c[1]][c[2]] = "off"
<1>1. TickInv /\ [TickNext]_tickVars => [Stays]_tickVars
  BY OffStep
<1> QED
  BY <1>1, TickInvariant, PTL DEF TickSpec, OffUntilReloaded
===============================================================================
