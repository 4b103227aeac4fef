------------------------------ MODULE ActorMemory ------------------------------
(* The primitives by which Lua reads the game's objects: actor_has_buff and     *)
(* actor_has_buff_id scan the vector of buffs of an actor, collect_actors the   *)
(* vector of actors of a group. Each is the same composition with readable_range*)
(* (ReadableRange): are the two words that hold the vector's ends readable, do  *)
(* they have the shape of a vector, is the vector readable; then entry by entry.*)
(* The game's objects are arbitrary: what a word or a field holds is chosen when*)
(* it is first read, and does not change during the call.                       *)
EXTENDS ReadableRange, Sequences

CONSTANTS
    Word,        \* sizeof(void*)
    Field,       \* sizeof(uint32_t) and sizeof(float), the stat and the amount
    Layouts,     \* the layouts a build profile may describe
    Objects,     \* the actors and owners the game passes, 0 among them
    MaxBuffs,    \* 1024
    MaxActors    \* 16

ASSUME MemoryAssumption ==
    /\ Word \in Address \ {0}
    /\ Field \in Nat \ {0}
    /\ Objects \subseteq Address /\ 0 \in Objects
    /\ MaxBuffs \in Nat
    /\ MaxActors \in Nat
    /\ \A l \in Layouts :
          l \in [begin : Address, end : Address, entry : Address, stat : Address,
                 amount : Address, id : Address, capacity : Address]

VARIABLES
    layout,    \* g_layout
    stage,     \* which answer of readable_range the call waits for, or its loop
    call,      \* the arguments of the call
    begin,     \* the vector's ends, once read
    end,
    entry,     \* the loop variable of the scan
    marked,    \* the entries whose stat, id or pointer is one that is looked for
    near,      \* the entries whose amount is within the tolerance
    actors,    \* collect_actors' output
    result,    \* what the last call returned
    touched    \* the addresses the last step dereferenced

scanVars == <<layout, stage, call, begin, end, entry, marked, near, actors,
              result, touched>>
memoryVars == <<rangeVars, scanVars>>

Operations == {"buff", "amount", "id", "actors"}

\* The part of load_layout's test that is about the vector of buffs.
Accepted_AnyCapacity(l) ==                     \* mutant: id may leave the entry
    l.begin # 0 /\ l.end # 0 /\ l.entry # 0 /\ l.capacity # 0 /\ l.id < l.entry
Accepted(l) ==
    /\ l.begin # 0 /\ l.end # 0 /\ l.entry # 0 /\ l.capacity # 0
    /\ l.id < l.entry
    /\ l.capacity <= l.entry - l.id

MemoryInit ==
    /\ RangeInit
    /\ layout \in {l \in Layouts : Accepted(l)}
    /\ stage = "idle"
    /\ call = [operation |-> "buff", object |-> 0]
    /\ begin = 0 /\ end = 0 /\ entry = 0
    /\ marked = {} /\ near = {} /\ actors = <<>>
    /\ result = "none"
    /\ touched = {}

-----------------------------------------------------------------------------

EntrySize == IF call.operation = "actors" THEN Word ELSE layout.entry

\* entry_size * 1024, or sizeof(void*) * 16.
Longest_Buffs == (layout.entry * MaxBuffs) % Top  \* mutant: one limit for both
Longest ==
    IF call.operation = "actors" THEN Word * MaxActors
    ELSE (layout.entry * MaxBuffs) % Top

BeginAddress(object) == (object + layout.begin) % Top
EndAddress(object) == (object + layout.end) % Top

\* A call with a null object, an unknown stat or group, a negative tolerance, or
\* an id that is empty or does not fit, returns false before it reads anything.
Call(operation, object, known) ==
    /\ stage = "idle"
    /\ call' = [operation |-> operation, object |-> object]
    /\ begin' = 0 /\ end' = 0 /\ entry' = 0
    /\ marked' = {} /\ near' = {} /\ actors' = <<>>
    /\ touched' = {}
    /\ IF object = 0 \/ ~known
         THEN /\ result' = "false"
              /\ UNCHANGED <<rangeVars, stage>>
         ELSE /\ Ask(BeginAddress(object), Word)
              /\ stage' = "begin_word"
              /\ result' = "none"
    /\ UNCHANGED layout

AskForEnd ==
    /\ stage = "begin_word"
    /\ verdict = "yes"
    /\ Ask(EndAddress(call.object), Word)
    /\ stage' = "end_word"
    /\ touched' = {}
    /\ UNCHANGED <<layout, call, begin, end, entry, marked, near, actors, result>>

\* The ends are those of a vector of at most so many whole entries.
VectorShape(b, e) ==
    /\ b # 0
    /\ e >= b
    /\ (e - b) % EntrySize = 0
    /\ e - b <= Longest

ReadEnds ==
    /\ stage = "end_word"
    /\ verdict = "yes"
    /\ touched' = Bytes(BeginAddress(call.object), Word)
                     \cup Bytes(EndAddress(call.object), Word)
    /\ \E b, e \in Address :
          /\ begin' = b
          /\ end' = e
          /\ IF VectorShape(b, e)
               THEN /\ Ask(b, (e - b) % Top)
                    /\ stage' = "range"
                    /\ UNCHANGED result
               ELSE /\ stage' = "idle"
                    /\ result' = "false"
                    /\ UNCHANGED rangeVars
    /\ UNCHANGED <<layout, call, entry, marked, near, actors>>

NotReadable ==
    /\ stage \in {"begin_word", "end_word", "range"}
    /\ verdict = "no"
    /\ stage' = "idle"
    /\ result' = "false"
    /\ touched' = {}
    /\ UNCHANGED <<rangeVars, layout, call, begin, end, entry, marked, near, actors>>

\* The entries of the vector, by definition; the loop below must visit these.
Entries == {begin + i * EntrySize : i \in 0..((end - begin) \div EntrySize - 1)}

BeginScan ==
    /\ stage = "range"
    /\ verdict = "yes"
    /\ entry' = begin
    /\ marked' \in SUBSET Entries
    /\ near' \in SUBSET (IF call.operation = "amount" THEN Entries ELSE {})
    /\ stage' = "scan"
    /\ touched' = {}
    /\ UNCHANGED <<rangeVars, layout, call, begin, end, actors, result>>

Found_AnyAmount(e) == e \in marked              \* mutant: the amount not compared
Found(e) == e \in marked /\ (call.operation = "amount" => e \in near)

\* What an entry's turn dereferences: the id, as far as its capacity, or the
\* stat and then, of an entry with that stat, the amount.
ReadOf(e) ==
    CASE call.operation = "id" -> Bytes((e + layout.id) % Top, layout.capacity)
      [] call.operation = "actors" -> Bytes(e, Word)
      [] call.operation = "amount" /\ e \in marked ->
            Bytes((e + layout.stat) % Top, Field) \cup Bytes((e + layout.amount) % Top, Field)
      [] OTHER -> Bytes((e + layout.stat) % Top, Field)

MoreEntries_Inclusive == entry <= end          \* mutant: one entry too many
MoreEntries == entry < end

\* One turn of the loop: return true at the first match, or, in collect_actors,
\* append the actor unless it is null.
ScanEntry ==
    /\ stage = "scan"
    /\ MoreEntries
    /\ touched' = ReadOf(entry)
    /\ entry' = entry + EntrySize
    /\ IF call.operation = "actors"
         THEN /\ actors' = IF entry \in marked THEN Append(actors, entry) ELSE actors
              /\ UNCHANGED <<stage, result>>
         ELSE /\ stage' = IF Found(entry) THEN "idle" ELSE "scan"
              /\ result' = IF Found(entry) THEN "true" ELSE result
              /\ UNCHANGED actors
    /\ UNCHANGED <<rangeVars, layout, call, begin, end, marked, near>>

EndScan ==
    /\ stage = "scan"
    /\ ~MoreEntries
    /\ stage' = "idle"
    /\ result' = IF call.operation = "actors" THEN "true" ELSE "false"
    /\ touched' = {}
    /\ UNCHANGED <<rangeVars, layout, call, begin, end, entry, marked, near, actors>>

InRange == Walk /\ UNCHANGED scanVars

MemoryNext ==
    \/ \E operation \in Operations, object \in Objects, known \in BOOLEAN :
          Call(operation, object, known)
    \/ AskForEnd
    \/ ReadEnds
    \/ NotReadable
    \/ BeginScan
    \/ ScanEntry
    \/ EndScan
    \/ InRange

MemorySpec == MemoryInit /\ [][MemoryNext]_memoryVars

-----------------------------------------------------------------------------
(* Properties.                                                               *)

\* One call at a time, inside the address space, never more than the fixed
\* number of actors.
MemoryTypeOK ==
    /\ RangeTypeOK
    /\ layout \in Layouts
    /\ stage \in {"idle", "begin_word", "end_word", "range", "scan"}
    /\ verdict = "walking" => stage \in {"begin_word", "end_word", "range"}
    /\ call \in [operation : Operations, object : Objects]
    /\ {begin, end, entry} \subseteq 0..Top
    /\ marked \subseteq Address
    /\ near \subseteq Address
    /\ actors \in Seq(Address)
    /\ Len(actors) <= MaxActors
    /\ result \in {"none", "true", "false"}

\* load_layout tests that the id lies inside an entry, and nothing about the
\* offsets of the stat and the amount.
FieldsInEntry ==
    /\ layout.stat + Field <= layout.entry
    /\ layout.amount + Field <= layout.entry

\* Whatever the game's objects hold, none of these functions dereferences an
\* address it has not found readable - provided the profile puts the stat and
\* the amount inside the entry, to their last byte, which the code does not test.
NoWildReads ==
    (call.operation \in {"buff", "amount"} => FieldsInEntry)
        => touched \subseteq readable

\* A call that gets as far as its loop answers for the whole vector: a buff is
\* found wherever it stands, also behind one of the same stat and another
\* amount, and the list of actors has each that is not null once, in order.
ScanFinds ==
    stage = "idle" /\ entry # 0 =>
        IF call.operation = "actors"
          THEN /\ result = "true"
               /\ {actors[i] : i \in DOMAIN actors} = marked
               /\ \A i, j \in DOMAIN actors : i < j => actors[i] < actors[j]
          ELSE (result = "true") <=>
                  IF call.operation = "amount" THEN marked \cap near # {}
                                               ELSE marked # {}
=============================================================================
