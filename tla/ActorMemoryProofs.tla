--------------------------- MODULE ActorMemoryProofs ---------------------------
(* For any address space, any memory and any layout: what readable_range says   *)
(* is readable is readable, and the functions that scan the game's vectors read *)
(* nothing else. The argument: a walk has only readable bytes behind its cursor *)
(* (RangeInv), each stage of a call remembers the answers it has had (StageInv),*)
(* and the loop has whole entries of the vector before it (Position). What a    *)
(* scan has found is a fact about the entries behind the loop (ScanInv).        *)
EXTENDS ActorMemory, TLAPS

\* Addition of two addresses wraps exactly when it reaches the top, and the
\* wrapped sum is below either of them.
LEMMA WrapAround ==
    ASSUME NEW v \in Address, NEW n \in Address
    PROVE  /\ (v + n) % Top \in Address
           /\ v + n < Top => (v + n) % Top = v + n
           /\ v + n >= Top => (v + n) % Top = v + n - Top
  BY RangeAssumption, SMT DEF Address

\* During a walk everything behind the cursor is readable, and the range does
\* not wrap around.
RangeInv ==
    /\ RangeTypeOK
    /\ verdict = "walking" =>
          /\ value <= cursor
          /\ cursor <= value + size
          /\ value + size < Top
          /\ value..(cursor - 1) \subseteq readable
    /\ YesIsReadable
    /\ NoHasAReason

\* Asking for a range of addresses puts the cursor at its beginning.
LEMMA AskKeepsRange ==
    ASSUME RangeInv, NEW v \in Address, NEW n \in Address, Ask(v, n)
    PROVE  RangeInv'
<1>1. RangeTypeOK'
  BY DEF RangeInv, RangeTypeOK, Ask
<1>2. YesIsReadable'
  BY DEF Ask, YesIsReadable
<1>3. ASSUME verdict' = "walking"
      PROVE  value' + size' < Top
  <2>1. (v + n) % Top >= v /\ n # 0
    BY <1>3, RangeAssumption, SMT DEF Ask, Refused, Address
  <2>2. ~(v + n >= Top)
    <3>1. SUFFICES ASSUME v + n >= Top PROVE FALSE
      OBVIOUS
    <3>2. (v + n) % Top = v + n - Top
      BY <3>1, WrapAround
    <3> QED
      BY <2>1, <3>2, RangeAssumption, SMT DEF Address
  <2> QED
    BY <2>2, RangeAssumption, SMT DEF Ask, Address
<1>4. value' <= cursor' /\ cursor' <= value' + size'
  BY RangeAssumption, SMT DEF Ask, Address
<1>5. value'..(cursor' - 1) \subseteq readable'
  BY RangeAssumption, SMT DEF Ask, Address
<1>6. NoHasAReason'
  <2>1. ASSUME v + n < Top
        PROVE  ~((v + n) % Top < v)
    <3>1. (v + n) % Top = v + n
      BY <2>1, WrapAround
    <3> QED
      BY <3>1, RangeAssumption, SMT DEF Address
  <2>2. (v + n) % Top < v => v + n >= Top
    BY <2>1, RangeAssumption, SMT DEF Address
  <2> QED
    BY <2>2 DEF NoHasAReason, Ask, Refused
<1> QED
  BY <1>1, <1>2, <1>3, <1>4, <1>5, <1>6 DEF RangeInv

\* A walk that does not wrap ends where the range ends.
LEMMA LimitIsTheEnd ==
    ASSUME RangeInv, verdict = "walking"
    PROVE  Limit = value + size /\ Limit \in Address
  BY WrapAround, RangeAssumption, SMT DEF RangeInv, RangeTypeOK, Limit, Address

\* What is known up to c and from c to s is known up to every d up to s.
LEMMA Extension ==
    ASSUME NEW v \in Int, NEW c \in Int, NEW d \in Int, NEW s \in Int, NEW S,
           v..(c - 1) \subseteq S, c..(s - 1) \subseteq S, d <= s
    PROVE  v..(d - 1) \subseteq S
  BY SMT

\* A query moves the cursor over readable bytes only, and not past the limit.
LEMMA QueryKeepsRange ==
    ASSUME RangeInv, QueryRegion
    PROVE  RangeInv'
<1>0. RangeTypeOK /\ verdict = "walking" /\ UNCHANGED <<readable, value, size>>
  BY DEF RangeInv, QueryRegion
<1>1. Limit = value + size /\ Limit \in Address
  BY <1>0, LimitIsTheEnd
<1>2. ASSUME verdict' = "no", UNCHANGED cursor,
             \/ cursor \notin readable
             \/ cursor..(Top - 1) \subseteq readable
      PROVE  RangeInv'
  <2>1. cursor \in Bytes(value, size)
    BY <1>0, <1>1, RangeAssumption, SMT
       DEF RangeInv, RangeTypeOK, QueryRegion, MoreBytes, Bytes, Address
  <2>2. NoHasAReason'
    BY <1>0, <1>2, <2>1 DEF NoHasAReason, Bytes
  <2> QED
    BY <1>0, <1>2, <2>2 DEF RangeInv, RangeTypeOK, YesIsReadable
<1>3. ASSUME NEW stop \in (cursor + 1)..Top,
             cursor..(stop - 1) \subseteq readable,
             ~(stop % Top <= cursor),
             cursor' = NextCursor(stop % Top),
             UNCHANGED verdict
      PROVE  RangeInv'
  <2>1. cursor \in Address /\ value \in Address /\ size \in Address
    BY <1>0 DEF RangeTypeOK
  <2>2. stop \in Address
    <3>1. stop # Top
      <4>1. SUFFICES ASSUME stop = Top PROVE FALSE
        OBVIOUS
      <4>2. Top % Top = 0
        BY RangeAssumption, SMT
      <4> QED
        BY <1>3, <2>1, <4>1, <4>2, RangeAssumption, SMT DEF Address
    <3> QED
      BY <1>3, <2>1, <3>1, RangeAssumption, SMT DEF Address
  <2>3. stop % Top = stop
    BY <2>2, RangeAssumption, SMT DEF Address
  <2>4. /\ cursor' \in Address
        /\ cursor <= cursor'
        /\ cursor' <= value + size
        /\ cursor' <= stop
    <3>1. cursor' = IF stop < Limit THEN stop ELSE Limit
      BY <1>3, <2>3 DEF NextCursor
    <3>2. cursor <= Limit
      BY <1>0, <1>1 DEF RangeInv
    <3> QED
      BY <1>1, <1>3, <2>1, <2>2, <3>1, <3>2, SMT DEF Address
  <2>5. value..(cursor' - 1) \subseteq readable
    <3>1. value..(cursor - 1) \subseteq readable
      BY <1>0 DEF RangeInv
    <3>2. {value, cursor, cursor', stop} \subseteq Int
      BY <2>1, <2>2, <2>4, RangeAssumption, SMT DEF Address
    <3> QED
      BY <1>3, <2>4, <3>1, <3>2, Extension, SMT
  <2>6. value <= cursor' /\ cursor' <= value + size /\ value + size < Top
    <3>1. value <= cursor /\ value + size < Top
      BY <1>0 DEF RangeInv
    <3> QED
      BY <1>1, <2>1, <2>4, <3>1, SMT DEF Address
  <2> QED
    BY <1>0, <1>3, <2>4, <2>5, <2>6
       DEF RangeInv, RangeTypeOK, YesIsReadable, NoHasAReason
<1>4. ASSUME NEW stop \in (cursor + 1)..Top,
             cursor..(stop - 1) \subseteq readable,
             stop % Top <= cursor
      PROVE  cursor..(Top - 1) \subseteq readable
  <2>1. stop = Top
    BY <1>0, <1>4, RangeAssumption, SMT DEF RangeTypeOK, Address
  <2> QED
    BY <1>4, <2>1
<1>5. CASE cursor \notin readable /\ verdict' = "no" /\ UNCHANGED cursor
  BY <1>2, <1>5
<1>6. ASSUME NEW stop \in (cursor + 1)..Top,
             cursor..(stop - 1) \subseteq readable,
             IF stop % Top <= cursor
               THEN verdict' = "no" /\ UNCHANGED cursor
               ELSE cursor' = NextCursor(stop % Top) /\ UNCHANGED verdict
      PROVE  RangeInv'
  <2>1. CASE stop % Top <= cursor
    BY <1>2, <1>4, <1>6, <2>1
  <2>2. CASE ~(stop % Top <= cursor)
    BY <1>3, <1>6, <2>2
  <2> QED
    BY <2>1, <2>2
<1> QED
  BY <1>5, <1>6 DEF QueryRegion

\* A walk answers yes only when the cursor stands at the end of the range.
LEMMA EndKeepsRange ==
    ASSUME RangeInv, WalkEnds
    PROVE  RangeInv'
<1>1. verdict = "walking" /\ ~MoreBytes /\ verdict' = "yes"
      /\ UNCHANGED <<readable, value, size, cursor>>
  BY DEF WalkEnds
<1>2. Limit = value + size
  BY <1>1, LimitIsTheEnd
<1>3. cursor = value + size
  <2>1. cursor \in Address /\ value \in Address /\ size \in Address
    BY DEF RangeInv, RangeTypeOK
  <2>2. cursor <= value + size
    BY <1>1 DEF RangeInv
  <2> QED
    BY <1>1, <1>2, <2>1, <2>2, RangeAssumption, SMT DEF MoreBytes, Address
<1>4. Bytes(value, size) \subseteq readable
  <2>1. value..(cursor - 1) \subseteq readable
    BY <1>1 DEF RangeInv
  <2>2. cursor - 1 = value + size - 1
    BY <1>3, SMT DEF RangeInv, RangeTypeOK, Address
  <2>3. Bytes(value, size) = value..(cursor - 1)
    BY <2>2, Zenon DEF Bytes
  <2> QED
    BY <2>1, <2>3
<1> QED
  BY <1>1, <1>4 DEF RangeInv, RangeTypeOK, YesIsReadable, NoHasAReason

-----------------------------------------------------------------------------
(* The functions that use it.                                                *)

\* Every sum and difference the code forms wraps into the address space.
LEMMA ModuloIsAddress ==
    ASSUME NEW x \in Int
    PROVE  x % Top \in Address
  BY RangeAssumption, SMT DEF Address

\* A positive multiple of n is at least n, and stays a multiple less n.
LEMMA Multiples ==
    ASSUME NEW n \in Nat \ {0}, NEW d \in Nat, d # 0, d % n = 0
    PROVE  n <= d /\ (d - n) % n = 0
<1>1. n <= d
  BY SMT
<1>2. PICK q \in Int : d = n * q
  <2>1. d = n * (d \div n) + (d % n) /\ d \div n \in Int
    BY SMT
  <2> QED
    BY <2>1
<1>3. d - n = n * (q - 1)
  BY <1>2, SMT
<1>4. (n * (q - 1)) % n = 0
  BY <1>2, SMT
<1> QED
  BY <1>1, <1>3, <1>4

\* What the loop visits: whole entries from here on make up the vector.
Vector ==
    /\ begin \in Address /\ end \in Address
    /\ begin <= end
    /\ (end - begin) % EntrySize = 0

Position ==
    /\ entry \in Nat
    /\ begin <= entry /\ entry <= end
    /\ (end - entry) % EntrySize = 0

CallInv ==
    /\ layout \in Layouts /\ Accepted(layout)
    /\ call \in [operation : Operations, object : Objects]

\* Each stage remembers what readable_range has answered before it.
StageInv ==
    /\ stage = "begin_word" => value = BeginAddress(call.object) /\ size = Word
    /\ stage = "end_word" =>
          /\ value = EndAddress(call.object) /\ size = Word
          /\ Bytes(BeginAddress(call.object), Word) \subseteq readable
    /\ stage = "range" => Vector /\ value = begin /\ size = end - begin
    /\ stage = "scan" =>
          /\ Vector /\ Position
          /\ Bytes(begin, end - begin) \subseteq readable

MemoryInv == RangeInv /\ CallInv /\ StageInv /\ NoWildReads

\* An accepted layout has entries of at least one byte, so the loop advances.
LEMMA EntrySizeIsPositive ==
    ASSUME CallInv
    PROVE  EntrySize \in Nat \ {0}
  BY MemoryAssumption, RangeAssumption DEF CallInv, EntrySize, Accepted, Address

\* The addresses of the two words, for any object of the game's.
LEMMA WordAddresses ==
    ASSUME CallInv, NEW object \in Objects
    PROVE  /\ BeginAddress(object) \in Address
           /\ EndAddress(object) \in Address
           /\ Word \in Address
<1>1. object + layout.begin \in Int /\ object + layout.end \in Int
  BY MemoryAssumption, RangeAssumption DEF CallInv, Address
<1> QED
  BY <1>1, ModuloIsAddress, MemoryAssumption DEF BeginAddress, EndAddress

\* A range that begins and ends inside another one lies in it.
LEMMA RangeInRange ==
    ASSUME NEW a \in Int, NEW n \in Int, NEW b \in Int, NEW k \in Int,
           a <= b, b + k <= a + n
    PROVE  Bytes(b, k) \subseteq Bytes(a, n)
  BY SMT DEF Bytes

\* What the loop reads of an entry lies inside the entry.
LEMMA ReadsInsideTheEntry ==
    ASSUME CallInv, NEW e \in Nat, e + EntrySize < Top,
           call.operation \in {"buff", "amount"} => FieldsInEntry
    PROVE  ReadOf(e) \subseteq Bytes(e, EntrySize)
<1>1. /\ {layout.stat, layout.amount, layout.id, layout.capacity} \subseteq Nat
      /\ layout.entry \in Nat
      /\ Word \in Nat /\ Field \in Nat
  BY MemoryAssumption, RangeAssumption DEF CallInv, Address
<1>2. CASE call.operation = "actors"
  BY <1>2 DEF ReadOf, EntrySize
<1>3. CASE call.operation = "id"
  <2>1. EntrySize = layout.entry
    BY <1>3 DEF EntrySize
  <2>2. layout.id < layout.entry /\ layout.capacity <= layout.entry - layout.id
    BY DEF CallInv, Accepted
  <2>3. (e + layout.id) % Top = e + layout.id
    BY <1>1, <2>1, <2>2, RangeAssumption, SMT
  <2>4. ReadOf(e) = Bytes(e + layout.id, layout.capacity)
    BY <1>3, <2>3 DEF ReadOf
  <2>5. /\ {e, layout.entry, e + layout.id, layout.capacity} \subseteq Int
        /\ e <= e + layout.id
        /\ (e + layout.id) + layout.capacity <= e + layout.entry
    BY <1>1, <2>2, SMT
  <2>6. Bytes(e + layout.id, layout.capacity) \subseteq Bytes(e, layout.entry)
    BY <2>5, RangeInRange
  <2> QED
    BY <2>1, <2>4, <2>6
<1>4. CASE call.operation \in {"buff", "amount"}
  <2>1. EntrySize = layout.entry
    BY <1>4 DEF EntrySize
  <2>2. layout.stat + Field <= layout.entry /\ layout.amount + Field <= layout.entry
    BY <1>4 DEF FieldsInEntry
  <2>3. /\ (e + layout.stat) % Top = e + layout.stat
        /\ (e + layout.amount) % Top = e + layout.amount
    <3>1. \A n \in Nat : n < Top => n % Top = n
      BY RangeAssumption, SMT
    <3>2. /\ e + layout.stat \in Nat /\ e + layout.stat < Top
          /\ e + layout.amount \in Nat /\ e + layout.amount < Top
      BY <1>1, <2>1, <2>2, RangeAssumption, SMT
    <3> QED
      BY <3>1, <3>2
  <2>4. ReadOf(e) \subseteq Bytes(e + layout.stat, Field) \cup Bytes(e + layout.amount, Field)
    BY <1>4, <2>3 DEF ReadOf
  <2>5. /\ {e, layout.entry, e + layout.stat, e + layout.amount, Field} \subseteq Int
        /\ e <= e + layout.stat /\ (e + layout.stat) + Field <= e + layout.entry
        /\ e <= e + layout.amount /\ (e + layout.amount) + Field <= e + layout.entry
    BY <1>1, <2>2, SMT
  <2>6. /\ Bytes(e + layout.stat, Field) \subseteq Bytes(e, layout.entry)
        /\ Bytes(e + layout.amount, Field) \subseteq Bytes(e, layout.entry)
    BY <2>5, RangeInRange
  <2> QED
    BY <2>1, <2>4, <2>6
<1> QED
  BY <1>2, <1>3, <1>4 DEF CallInv, Operations

\* Nothing is asked and nothing read before the first call.
LEMMA InitMemory == MemoryInit => MemoryInv
<1>1. SUFFICES ASSUME MemoryInit PROVE MemoryInv
  OBVIOUS
<1>2. readable \subseteq Address
  BY <1>1 DEF MemoryInit, RangeInit, Memories, BytesOf
<1>3. 0 \in Address
  BY RangeAssumption, SMT DEF Address
<1>4. RangeInv
  BY <1>1, <1>2, <1>3
     DEF MemoryInit, RangeInit, RangeInv, RangeTypeOK, YesIsReadable, NoHasAReason
<1>5. CallInv
  <2>1. 0 \in Objects
    BY MemoryAssumption
  <2> QED
    BY <1>1, <2>1 DEF MemoryInit, CallInv, Operations
<1>6. StageInv /\ NoWildReads
  BY <1>1 DEF MemoryInit, StageInv, NoWildReads
<1> QED
  BY <1>4, <1>5, <1>6 DEF MemoryInv

\* A new call forgets the answers and the reads of the one before.
LEMMA CallKeepsInv ==
    ASSUME MemoryInv, NEW operation \in Operations, NEW object \in Objects,
           NEW known \in BOOLEAN, Call(operation, object, known)
    PROVE  MemoryInv'
<1>1. CallInv'
  BY DEF MemoryInv, CallInv, Call
<1>2. NoWildReads'
  BY DEF Call, NoWildReads
<1>3. CASE object = 0 \/ ~known
  <2>1. UNCHANGED <<rangeVars, stage>> /\ stage = "idle"
    BY <1>3 DEF Call
  <2>2. RangeInv'
    BY <2>1 DEF MemoryInv, RangeInv, RangeTypeOK, YesIsReadable, NoHasAReason,
         rangeVars, Bytes
  <2> QED
    BY <1>1, <1>2, <2>1, <2>2 DEF MemoryInv, StageInv
<1>4. CASE ~(object = 0 \/ ~known)
  <2>1. Ask(BeginAddress(object), Word) /\ stage' = "begin_word"
    BY <1>4 DEF Call
  <2>2. RangeInv'
    BY <2>1, WordAddresses, AskKeepsRange DEF MemoryInv
  <2>3. call'.object = object /\ layout' = layout
    BY DEF Call
  <2>4. StageInv'
    BY <2>1, <2>3 DEF StageInv, Ask, BeginAddress
  <2> QED
    BY <1>1, <1>2, <2>2, <2>4 DEF MemoryInv
<1> QED
  BY <1>3, <1>4

\* The question about the end word follows the yes for the begin word.
LEMMA AskForEndKeepsInv ==
    ASSUME MemoryInv, AskForEnd
    PROVE  MemoryInv'
<1>1. CallInv' /\ NoWildReads'
  BY DEF MemoryInv, CallInv, AskForEnd, NoWildReads
<1>2. RangeInv'
  <2>1. call.object \in Objects
    BY DEF MemoryInv, CallInv
  <2> QED
    BY <2>1, WordAddresses, AskKeepsRange DEF MemoryInv, AskForEnd
<1>3. StageInv'
  <2>1. Bytes(BeginAddress(call.object), Word) \subseteq readable
    BY DEF MemoryInv, StageInv, RangeInv, YesIsReadable, AskForEnd
  <2> QED
    BY <2>1 DEF AskForEnd, StageInv, Ask, EndAddress, BeginAddress, Bytes
<1> QED
  BY <1>1, <1>2, <1>3 DEF MemoryInv

\* The two words are read only after both were found readable.
LEMMA ReadEndsKeepsInv ==
    ASSUME MemoryInv, ReadEnds
    PROVE  MemoryInv'
<1>0. PICK b \in Address, e \in Address :
         /\ begin' = b
         /\ end' = e
         /\ IF VectorShape(b, e)
              THEN /\ Ask(b, (e - b) % Top)
                   /\ stage' = "range"
                   /\ UNCHANGED result
              ELSE /\ stage' = "idle"
                   /\ result' = "false"
                   /\ UNCHANGED rangeVars
  BY DEF ReadEnds
<1>1. CallInv'
  BY DEF MemoryInv, CallInv, ReadEnds
<1>2. touched' \subseteq readable
  BY DEF MemoryInv, StageInv, RangeInv, YesIsReadable, ReadEnds
<1>3. readable' = readable
  BY <1>0 DEF Ask, rangeVars
<1>4. CASE VectorShape(b, e)
  <2>1. Ask(b, (e - b) % Top) /\ stage' = "range"
    BY <1>0, <1>4
  <2>2. b <= e /\ (e - b) % EntrySize = 0
    BY <1>4 DEF VectorShape
  <2>3. (e - b) % Top = e - b /\ e - b \in Address
    BY <2>2, RangeAssumption, SMT DEF Address
  <2>4. RangeInv'
    BY <2>1, <2>3, AskKeepsRange DEF MemoryInv
  <2>5. StageInv'
    BY <1>0, <2>1, <2>2, <2>3
       DEF ReadEnds, StageInv, Ask, Vector, EntrySize
  <2> QED
    BY <1>1, <1>2, <1>3, <2>4, <2>5 DEF MemoryInv, NoWildReads
<1>5. CASE ~VectorShape(b, e)
  <2>1. stage' = "idle" /\ UNCHANGED rangeVars
    BY <1>0, <1>5
  <2>2. RangeInv'
    BY <2>1 DEF MemoryInv, RangeInv, RangeTypeOK, YesIsReadable, NoHasAReason,
         rangeVars, Bytes
  <2>3. StageInv'
    BY <2>1 DEF StageInv
  <2> QED
    BY <1>1, <1>2, <1>3, <2>2, <2>3 DEF MemoryInv, NoWildReads
<1> QED
  BY <1>4, <1>5

\* A no ends the call before anything is read.
LEMMA NotReadableKeepsInv ==
    ASSUME MemoryInv, NotReadable
    PROVE  MemoryInv'
<1>1. RangeInv'
  BY DEF MemoryInv, RangeInv, RangeTypeOK, YesIsReadable, NoHasAReason,
         rangeVars, Bytes,
         NotReadable
<1>2. CallInv' /\ StageInv' /\ NoWildReads'
  BY DEF MemoryInv, CallInv, StageInv, NoWildReads, NotReadable
<1> QED
  BY <1>1, <1>2 DEF MemoryInv

\* The loop starts at the begin of a range found readable as a whole.
LEMMA BeginScanKeepsInv ==
    ASSUME MemoryInv, BeginScan
    PROVE  MemoryInv'
<1>1. RangeInv'
  BY DEF MemoryInv, RangeInv, RangeTypeOK, YesIsReadable, NoHasAReason,
         rangeVars, Bytes,
         BeginScan
<1>2. CallInv' /\ NoWildReads'
  BY DEF MemoryInv, CallInv, NoWildReads, BeginScan
<1>3. StageInv'
  <2>1. Vector /\ Bytes(begin, end - begin) \subseteq readable
    BY DEF MemoryInv, StageInv, RangeInv, YesIsReadable, BeginScan
  <2>2. Vector'
    BY <2>1 DEF BeginScan, Vector, EntrySize
  <2>3. Position'
    BY <2>1, RangeAssumption DEF BeginScan, Vector, Position, EntrySize, Address
  <2>4. Bytes(begin, end - begin)' \subseteq readable'
    BY <2>1 DEF BeginScan, rangeVars, Bytes
  <2> QED
    BY <2>2, <2>3, <2>4 DEF BeginScan, StageInv
<1> QED
  BY <1>1, <1>2, <1>3 DEF MemoryInv

\* A turn of the loop reads one whole entry of the vector, and leaves whole
\* entries behind it.
LEMMA ScanEntryKeepsInv ==
    ASSUME MemoryInv, ScanEntry
    PROVE  MemoryInv'
<1>1. RangeInv'
  BY DEF MemoryInv, RangeInv, RangeTypeOK, YesIsReadable, NoHasAReason,
         rangeVars, Bytes,
         ScanEntry
<1>2. CallInv'
  BY DEF MemoryInv, CallInv, ScanEntry
<1>3. /\ Vector /\ Position /\ entry < end
      /\ Bytes(begin, end - begin) \subseteq readable
  BY DEF MemoryInv, StageInv, ScanEntry, MoreEntries
<1>4. EntrySize \in Nat \ {0}
  BY EntrySizeIsPositive DEF MemoryInv
<1>5. {begin, end, entry} \subseteq Nat /\ begin <= entry /\ end < Top
  BY <1>3, RangeAssumption, SMT DEF Vector, Position, Address
<1>6. EntrySize <= end - entry /\ (end - entry - EntrySize) % EntrySize = 0
  <2>1. end - entry \in Nat /\ end - entry # 0 /\ (end - entry) % EntrySize = 0
    BY <1>3, <1>5, SMT DEF Position
  <2> QED
    BY <1>4, <2>1, Multiples
<1>7. NoWildReads'
  <2>1. SUFFICES ASSUME call.operation \in {"buff", "amount"} => FieldsInEntry
                 PROVE  touched' \subseteq readable'
    BY DEF ScanEntry, NoWildReads, FieldsInEntry
  <2>2. ReadOf(entry) \subseteq Bytes(entry, EntrySize)
    <3>1. entry + EntrySize < Top
      BY <1>4, <1>5, <1>6, RangeAssumption, SMT
    <3> QED
      BY <1>5, <2>1, <3>1, ReadsInsideTheEntry DEF MemoryInv
  <2>3. Bytes(entry, EntrySize) \subseteq Bytes(begin, end - begin)
    BY <1>4, <1>5, <1>6, SMT DEF Bytes
  <2>4. touched' = ReadOf(entry) /\ readable' = readable
    BY DEF ScanEntry, rangeVars
  <2> QED
    BY <1>3, <2>2, <2>3, <2>4
<1>8. StageInv'
  <2>1. /\ entry' = entry + EntrySize
        /\ UNCHANGED <<begin, end, call, layout, readable>>
        /\ stage' \in {"scan", "idle"}
    BY DEF ScanEntry, rangeVars
  <2>2. EntrySize' = EntrySize
    BY <2>1 DEF EntrySize
  <2>3. Vector'
    BY <1>3, <2>1, <2>2 DEF Vector
  <2>4. Position'
    <3>1. end - entry - EntrySize = end - (entry + EntrySize)
      BY <1>4, <1>5, SMT
    <3>2. entry + EntrySize \in Nat /\ begin <= entry + EntrySize
          /\ entry + EntrySize <= end
      BY <1>4, <1>5, <1>6, SMT
    <3> QED
      BY <1>6, <2>1, <2>2, <3>1, <3>2 DEF Position
  <2>5. Bytes(begin, end - begin)' \subseteq readable'
    BY <1>3, <2>1 DEF Bytes
  <2> QED
    BY <2>1, <2>3, <2>4, <2>5 DEF StageInv
<1> QED
  BY <1>1, <1>2, <1>7, <1>8 DEF MemoryInv

\* The loop ends without a further read.
LEMMA EndScanKeepsInv ==
    ASSUME MemoryInv, EndScan
    PROVE  MemoryInv'
<1>1. RangeInv'
  BY DEF MemoryInv, RangeInv, RangeTypeOK, YesIsReadable, NoHasAReason,
         rangeVars, Bytes,
         EndScan
<1>2. CallInv' /\ StageInv' /\ NoWildReads'
  BY DEF MemoryInv, CallInv, StageInv, NoWildReads, EndScan
<1> QED
  BY <1>1, <1>2 DEF MemoryInv

\* A step of readable_range leaves the call around it alone.
LEMMA InRangeKeepsInv ==
    ASSUME MemoryInv, InRange
    PROVE  MemoryInv'
<1>1. UNCHANGED <<readable, value, size>> /\ UNCHANGED scanVars
  BY DEF InRange, Walk, QueryRegion, WalkEnds
<1>2. RangeInv'
  BY QueryKeepsRange, EndKeepsRange DEF MemoryInv, InRange, Walk
<1>3. CallInv' /\ NoWildReads'
  BY <1>1 DEF MemoryInv, CallInv, NoWildReads, FieldsInEntry, scanVars
<1>4. StageInv'
  BY <1>1 DEF MemoryInv, StageInv, scanVars, Vector, Position, EntrySize, Bytes,
              BeginAddress, EndAddress
<1> QED
  BY <1>2, <1>3, <1>4 DEF MemoryInv

\* The invariant speaks of these variables only.
LEMMA StutterKeepsInv ==
    ASSUME MemoryInv, UNCHANGED memoryVars
    PROVE  MemoryInv'
<1>1. UNCHANGED rangeVars /\ UNCHANGED scanVars
  BY DEF memoryVars
<1>2. RangeInv'
  BY <1>1 DEF MemoryInv, RangeInv, RangeTypeOK, YesIsReadable, NoHasAReason,
         rangeVars, Bytes
<1>3. CallInv' /\ NoWildReads'
  BY <1>1 DEF MemoryInv, CallInv, NoWildReads, FieldsInEntry, scanVars, rangeVars
<1>4. StageInv'
  BY <1>1 DEF MemoryInv, StageInv, scanVars, rangeVars, Vector, Position,
              EntrySize, Bytes, BeginAddress, EndAddress
<1> QED
  BY <1>2, <1>3, <1>4 DEF MemoryInv

\* What has been found readable before each read holds in every reachable state.
THEOREM MemoryInvariant == MemorySpec => []MemoryInv
<1>1. MemoryInv /\ [MemoryNext]_memoryVars => MemoryInv'
  BY CallKeepsInv, AskForEndKeepsInv, ReadEndsKeepsInv, NotReadableKeepsInv,
     BeginScanKeepsInv, ScanEntryKeepsInv, EndScanKeepsInv, InRangeKeepsInv,
     StutterKeepsInv DEF MemoryNext
<1> QED
  BY InitMemory, <1>1, PTL DEF MemorySpec

\* readable_range never vouches for an address that is not readable and refuses
\* none without a reason, wherever the range lies and however its memory is
\* divided into regions.
THEOREM ReadableIsReadable == MemorySpec => []VerdictIsRight
<1>1. MemoryInv => VerdictIsRight
  BY DEF MemoryInv, RangeInv, VerdictIsRight
<1> QED
  BY MemoryInvariant, <1>1, PTL

\* actor_has_buff, actor_has_buff_id and collect_actors dereference only what
\* they have found readable, whatever the game's objects hold.
THEOREM ReadsAreChecked == MemorySpec => []NoWildReads
<1>1. MemoryInv => NoWildReads
  BY DEF MemoryInv
<1> QED
  BY MemoryInvariant, <1>1, PTL

-----------------------------------------------------------------------------
(* What the scan finds. The loop stands on an entry of the vector or at its     *)
(* end; the entries behind it have been looked at (InScan).                     *)

\* collect_actors' output: the entries passed that are not null, in order, and
\* no more of them than fit in front of the loop variable.
Listed ==
    /\ {actors[i] : i \in DOMAIN actors} = {e \in marked : e < entry}
    /\ \A i, j \in DOMAIN actors : i < j => actors[i] < actors[j]
    /\ Len(actors) * Word <= entry - begin

Fits == call.operation = "actors" => end - begin <= Word * MaxActors

InScan ==
    /\ Fits
    /\ result = "none"
    /\ marked \subseteq Entries
    /\ near \subseteq Entries
    /\ \E k \in Nat : entry = begin + k * EntrySize
    /\ call.operation = "actors" => Listed
    /\ call.operation # "actors" => \A e \in marked : e < entry => ~Found(e)

\* Before the loop nothing has been found.
NothingYet ==
    /\ entry = 0
    /\ marked = {} /\ near = {} /\ actors = <<>>
    /\ result = "none"

ScanInv ==
    /\ MemoryTypeOK
    /\ stage \in {"begin_word", "end_word", "range"} => NothingYet
    /\ stage = "range" => Fits
    /\ stage = "scan" => InScan
    /\ ScanFinds

\* The entries of a vector lie between its ends, each as a whole.
LEMMA EntryInVector ==
    ASSUME NEW b \in Nat, NEW d \in Nat, NEW n \in Nat \ {0}, d % n = 0,
           NEW i \in 0..(d \div n - 1)
    PROVE  i \in Nat /\ b + i * n \in Nat /\ b <= b + i * n /\ (b + i * n) + n <= b + d
<1>1. PICK q \in Int : q = d \div n /\ d = n * q
  <2>1. d = n * (d \div n) + (d % n) /\ d \div n \in Int
    BY SMT
  <2> QED
    BY <2>1
<1>2. i \in Nat /\ i <= q - 1
  BY <1>1
<1>3. i * n <= (q - 1) * n /\ 0 <= i * n /\ i * n \in Int
  BY <1>1, <1>2, SMT
<1>4. (q - 1) * n = d - n
  BY <1>1, SMT
<1> QED
  BY <1>2, <1>3, <1>4, SMT

\* Of two entries one is the other, or they are at least an entry apart.
LEMMA EntriesApart ==
    ASSUME NEW b \in Nat, NEW n \in Nat \ {0}, NEW i \in Nat, NEW k \in Nat
    PROVE  /\ b + (k + 1) * n = (b + k * n) + n
           /\ i < k => b + i * n < b + k * n
           /\ i > k => b + i * n >= (b + k * n) + n
<1>1. (k + 1) * n = k * n + n /\ k * n \in Int /\ i * n \in Int
  BY SMT
<1>2. ASSUME i < k PROVE i * n < k * n
  BY <1>2, SMT
<1>3. ASSUME i > k PROVE i * n >= (k + 1) * n
  <2>1. i >= k + 1
    BY <1>3, SMT
  <2> QED
    BY <2>1, SMT
<1> QED
  BY <1>1, <1>2, <1>3, SMT

\* The entries of the vector the call has found.
LEMMA EntriesOfVector ==
    ASSUME CallInv, Vector
    PROVE  \A e \in Entries :
              /\ e \in Address /\ begin <= e /\ e < end
              /\ \E i \in Nat : e = begin + i * EntrySize
<1>1. /\ EntrySize \in Nat \ {0}
      /\ begin \in Nat /\ end \in Nat /\ end - begin \in Nat /\ end < Top
      /\ (end - begin) % EntrySize = 0
  BY EntrySizeIsPositive, RangeAssumption DEF Vector, Address
<1> SUFFICES ASSUME NEW e \in Entries
             PROVE  /\ e \in Address /\ begin <= e /\ e < end
                    /\ \E i \in Nat : e = begin + i * EntrySize
  OBVIOUS
<1>2. PICK i \in 0..((end - begin) \div EntrySize - 1) : e = begin + i * EntrySize
  BY DEF Entries
<1>3. i \in Nat /\ e \in Nat /\ begin <= e /\ e + EntrySize <= begin + (end - begin)
  BY <1>1, <1>2, EntryInVector
<1>4. e < end
  BY <1>1, <1>3
<1>5. e \in Address
  BY <1>1, <1>3, <1>4, RangeAssumption DEF Address
<1> QED
  BY <1>2, <1>3, <1>4, <1>5

\* A call begins with nothing found, or ends at once.
LEMMA CallScans ==
    ASSUME MemoryInv', ScanInv, NEW operation \in Operations, NEW object \in Objects,
           NEW known \in BOOLEAN, Call(operation, object, known)
    PROVE  ScanInv'
<1>1. /\ entry' = 0 /\ begin' = 0 /\ end' = 0
      /\ marked' = {} /\ near' = {} /\ actors' = <<>>
      /\ result' \in {"none", "false"}
      /\ stage' \in {"idle", "begin_word"}
      /\ stage' = "begin_word" => result' = "none"
      /\ verdict' = "walking" => stage' = "begin_word"
  BY DEF Call, ScanInv, MemoryTypeOK, rangeVars
<1>2. actors' \in Seq(Address) /\ Len(actors') <= MaxActors /\ 0 \in 0..Top
  BY <1>1, MemoryAssumption, RangeAssumption
<1>3. MemoryTypeOK'
  BY <1>1, <1>2 DEF MemoryInv, RangeInv, CallInv, MemoryTypeOK
<1> QED
  BY <1>1, <1>3 DEF ScanInv, NothingYet, ScanFinds

\* The questions before the loop find nothing; a no leaves no answer to check.
LEMMA BeforeLoopScans ==
    ASSUME MemoryInv', ScanInv, AskForEnd \/ ReadEnds \/ NotReadable
    PROVE  ScanInv'
<1>1. NothingYet /\ call \in [operation : Operations, object : Objects]
  BY DEF ScanInv, MemoryTypeOK, AskForEnd, ReadEnds, NotReadable
<1>2. CASE AskForEnd
  <2>1. NothingYet' /\ stage' = "end_word"
    BY <1>1, <1>2 DEF NothingYet, AskForEnd
  <2>2. MemoryTypeOK'
    BY <1>2, <2>1 DEF MemoryInv, RangeInv, CallInv, ScanInv, MemoryTypeOK, AskForEnd
  <2> QED
    BY <2>1, <2>2 DEF ScanInv, NothingYet, ScanFinds
<1>3. CASE NotReadable
  <2>1. entry' = 0 /\ stage' = "idle" /\ result' = "false" /\ verdict' = "no"
    BY <1>1, <1>3 DEF NothingYet, NotReadable, rangeVars
  <2>2. MemoryTypeOK'
    BY <1>3, <2>1 DEF MemoryInv, RangeInv, CallInv, ScanInv, MemoryTypeOK, NotReadable
  <2> QED
    BY <2>1, <2>2 DEF ScanInv, ScanFinds
<1>4. CASE ReadEnds
  <2>1. PICK b \in Address, e \in Address :
           /\ begin' = b
           /\ end' = e
           /\ IF VectorShape(b, e)
                THEN /\ Ask(b, (e - b) % Top)
                     /\ stage' = "range"
                     /\ UNCHANGED result
                ELSE /\ stage' = "idle"
                     /\ result' = "false"
                     /\ UNCHANGED rangeVars
    BY <1>4 DEF ReadEnds
  <2>2. UNCHANGED <<layout, call, entry, marked, near, actors>> /\ verdict = "yes"
    BY <1>4 DEF ReadEnds
  <2>3. b \in 0..Top /\ e \in 0..Top
    BY RangeAssumption DEF Address
  <2>4. CASE VectorShape(b, e)
    <3>1. NothingYet' /\ stage' = "range"
      BY <1>1, <2>1, <2>2, <2>4 DEF NothingYet
    <3>2. Fits'
      BY <2>1, <2>2, <2>4 DEF VectorShape, Fits, Longest
    <3>3. MemoryTypeOK'
      BY <2>1, <2>2, <2>3, <3>1
      DEF MemoryInv, RangeInv, CallInv, ScanInv, MemoryTypeOK, NothingYet
    <3> QED
      BY <3>1, <3>2, <3>3 DEF ScanInv, NothingYet, ScanFinds
  <2>5. CASE ~VectorShape(b, e)
    <3>1. entry' = 0 /\ stage' = "idle" /\ result' = "false" /\ verdict' = "yes"
      BY <1>1, <2>1, <2>2, <2>5 DEF NothingYet, rangeVars
    <3>2. MemoryTypeOK'
      BY <2>1, <2>2, <2>3, <3>1 DEF MemoryInv, RangeInv, CallInv, ScanInv, MemoryTypeOK
    <3> QED
      BY <3>1, <3>2 DEF ScanInv, ScanFinds
  <2> QED
    BY <2>4, <2>5
<1> QED
  BY <1>2, <1>3, <1>4

\* The loop starts at the first entry, with nothing behind it.
LEMMA BeginScanScans ==
    ASSUME MemoryInv, MemoryInv', ScanInv, BeginScan
    PROVE  ScanInv'
<1>1. /\ stage = "range" /\ stage' = "scan" /\ verdict' = "yes" /\ entry' = begin
      /\ UNCHANGED <<layout, call, begin, end, actors, result>>
      /\ marked' \subseteq Entries /\ near' \subseteq Entries
  BY DEF BeginScan, rangeVars
<1>2. NothingYet /\ Fits
  BY <1>1 DEF ScanInv
<1>3. CallInv /\ Vector /\ CallInv'
  BY <1>1 DEF MemoryInv, StageInv
<1>4. EntrySize \in Nat \ {0} /\ begin \in Nat /\ begin \in 0..Top
  BY <1>3, EntrySizeIsPositive, RangeAssumption DEF Vector, Address
<1>5. \A e \in Entries : e \in Address /\ begin <= e
  BY <1>3, EntriesOfVector
<1>6. EntrySize' = EntrySize /\ Entries' = Entries
  BY <1>1 DEF EntrySize, Entries
<1>7. MemoryTypeOK'
  <2>1. marked' \subseteq Address /\ near' \subseteq Address
    BY <1>1, <1>5
  <2>2. {begin', end', entry'} \subseteq 0..Top
    BY <1>1, <1>4 DEF ScanInv, MemoryTypeOK
  <2> QED
    BY <1>1, <2>1, <2>2 DEF MemoryInv, RangeInv, CallInv, ScanInv, MemoryTypeOK
<1>8. InScan'
  <2>1. begin = begin + 0 * EntrySize
    BY <1>4
  <2>2. \E k \in Nat : entry' = begin' + k * EntrySize'
    BY <1>1, <1>6, <2>1
  <2>3. \A e \in marked' : ~(e < entry')
    BY <1>1, <1>4, <1>5 DEF Address
  <2>4. Listed'
    <3>1. actors' = <<>> /\ Len(actors') = 0 /\ Word \in Nat
      BY <1>1, <1>2, MemoryAssumption DEF NothingYet, Address
    <3>2. Len(actors') * Word <= entry' - begin'
      BY <1>1, <1>4, <3>1
    <3>3. DOMAIN actors' = {}
      BY <3>1
    <3>4. {actors'[i] : i \in DOMAIN actors'} = {}
      BY <3>3
    <3>5. {e \in marked' : e < entry'} = {}
      BY <2>3
    <3> QED
      BY <3>2, <3>3, <3>4, <3>5 DEF Listed
  <2>5. Fits' /\ result' = "none"
    BY <1>1, <1>2 DEF Fits, NothingYet
  <2>6. marked' \subseteq Entries' /\ near' \subseteq Entries'
    BY <1>1, <1>6
  <2> QED
    BY <2>2, <2>3, <2>4, <2>5, <2>6 DEF InScan
<1> QED
  BY <1>1, <1>7, <1>8 DEF ScanInv, ScanFinds

\* A natural is at most its successor.
LEMMA OneMore == \A x \in Nat : x <= x + 1
OBVIOUS

\* A turn of the loop of collect_actors appends the entry unless it is null.
LEMMA ListGrows ==
    ASSUME NEW list \in Seq(Address), NEW all, NEW e \in Nat, NEW n \in Nat \ {0},
           {list[i] : i \in DOMAIN list} = {a \in all : a < e},
           \A i, j \in DOMAIN list : i < j => list[i] < list[j],
           \A a \in all : a \in Address /\ (a < e + n <=> a < e \/ a = e),
           NEW longer, longer = IF e \in all THEN Append(list, e) ELSE list
    PROVE  /\ longer \in Seq(Address)
           /\ Len(longer) <= Len(list) + 1
           /\ {longer[i] : i \in DOMAIN longer} = {a \in all : a < e + n}
           /\ \A i, j \in DOMAIN longer : i < j => longer[i] < longer[j]
<1>1. Len(list) \in Nat /\ DOMAIN list = 1..Len(list)
  OBVIOUS
<1>2. CASE e \in all
  <2>1. e \in Address /\ longer = Append(list, e)
    BY <1>2
  <2>2. /\ longer \in Seq(Address) /\ Len(longer) = Len(list) + 1
        /\ DOMAIN longer = 1..Len(list) + 1
        /\ \A i \in 1..Len(list) : longer[i] = list[i]
        /\ longer[Len(list) + 1] = e
    BY <1>1, <2>1
  <2>3. ASSUME NEW i \in 1..Len(list)
        PROVE  list[i] \in all /\ list[i] < e
    BY <1>1
  <2>4. {longer[i] : i \in DOMAIN longer} = {a \in all : a < e + n}
    <3>1. ASSUME NEW i \in DOMAIN longer
          PROVE  longer[i] \in {a \in all : a < e + n}
      <4>1. CASE i = Len(list) + 1
        BY <1>2, <2>2, <4>1
      <4>2. CASE i \in 1..Len(list)
        BY <2>2, <2>3, <4>2
      <4> QED
        BY <1>1, <2>2, <4>1, <4>2
    <3>2. ASSUME NEW a \in all, a < e + n
          PROVE  \E i \in DOMAIN longer : longer[i] = a
      <4>1. CASE a = e
        <5>1. Len(list) + 1 \in DOMAIN longer
          BY <1>1, <2>2
        <5> QED
          BY <2>2, <4>1, <5>1
      <4>2. CASE a < e
        <5>1. PICK i \in DOMAIN list : list[i] = a
          BY <4>2
        <5>2. i \in DOMAIN longer /\ longer[i] = a
          BY <1>1, <2>2, <5>1
        <5> QED
          BY <5>2
      <4> QED
        BY <3>2, <4>1, <4>2
    <3> QED
      BY <3>1, <3>2
  <2>5. ASSUME NEW i \in DOMAIN longer, NEW j \in DOMAIN longer, i < j
        PROVE  longer[i] < longer[j]
    <3>1. i \in 1..Len(list)
      BY <1>1, <2>2, <2>5
    <3>2. CASE j = Len(list) + 1
      BY <2>2, <2>3, <3>1, <3>2
    <3>3. CASE j \in 1..Len(list)
      BY <1>1, <2>2, <2>5, <3>1, <3>3
    <3> QED
      BY <1>1, <2>2, <3>2, <3>3
  <2> QED
    BY <1>1, <2>2, <2>4, <2>5
<1>3. CASE e \notin all
  <2>1. longer = list
    BY <1>3
  <2>2. {a \in all : a < e + n} = {a \in all : a < e}
    BY <1>3
  <2>3. {longer[i] : i \in DOMAIN longer} = {a \in all : a < e + n}
    BY <2>1, <2>2
  <2>4. longer \in Seq(Address) /\ Len(longer) <= Len(list) + 1
    <3>1. Len(longer) = Len(list)
      BY <2>1
    <3>2. Len(longer) <= Len(list) + 1
      BY <1>1, <3>1, OneMore, Zenon
    <3>3. longer \in Seq(Address)
      BY <2>1
    <3> QED
      BY <3>2, <3>3
  <2> QED
    BY <2>1, <2>3, <2>4
<1> QED
  BY <1>2, <1>3

\* A turn of the loop moves one entry from those ahead to those behind.
LEMMA ScanEntryScans ==
    ASSUME MemoryInv, MemoryInv', ScanInv, ScanEntry
    PROVE  ScanInv'
<1>1. /\ stage = "scan" /\ entry < end /\ entry' = entry + EntrySize
      /\ UNCHANGED <<readable, value, size, cursor, verdict>>
      /\ UNCHANGED <<layout, call, begin, end, marked, near>>
  BY DEF ScanEntry, MoreEntries, rangeVars
<1>2. CallInv /\ Vector /\ Position /\ InScan /\ MemoryTypeOK
  BY <1>1 DEF MemoryInv, StageInv, ScanInv
<1>3. /\ EntrySize \in Nat \ {0}
      /\ begin \in Nat /\ end \in Nat /\ entry \in Nat /\ end < Top /\ begin <= entry
  BY <1>2, EntrySizeIsPositive, RangeAssumption DEF Vector, Position, Address
<1>4. entry + EntrySize <= end
  <2>1. end - entry \in Nat /\ end - entry # 0 /\ (end - entry) % EntrySize = 0
    BY <1>1, <1>2, <1>3 DEF Position
  <2>2. EntrySize <= end - entry
    BY <1>3, <2>1, Multiples
  <2> QED
    BY <1>3, <2>2
<1>5. /\ EntrySize' = EntrySize /\ Entries' = Entries
      /\ marked \subseteq Entries /\ near \subseteq Entries
      /\ Fits' /\ result = "none"
  BY <1>1, <1>2 DEF EntrySize, Entries, Fits, InScan
<1>6. PICK k \in Nat : entry = begin + k * EntrySize
  BY <1>2 DEF InScan
<1>7. k + 1 \in Nat /\ entry + EntrySize = begin + (k + 1) * EntrySize
  BY <1>3, <1>6, EntriesApart
<1>8. ASSUME NEW e \in Entries
      PROVE  e \in Address /\ (e < entry + EntrySize <=> e < entry \/ e = entry)
  <2>1. e \in Address
    BY <1>2, EntriesOfVector
  <2>2. PICK i \in Nat : e = begin + i * EntrySize
    BY <1>2, EntriesOfVector
  <2>3. /\ i < k => e < entry
        /\ i > k => e >= entry + EntrySize
        /\ i = k => e = entry
    BY <1>3, <1>6, <2>2, EntriesApart
  <2>4. e \in Int
    BY <2>1 DEF Address
  <2> QED
    BY <1>3, <2>1, <2>3, <2>4
<1>9. {begin', end', entry'} \subseteq 0..Top /\ entry' # 0
  <2>1. entry + EntrySize \in 0..Top /\ entry + EntrySize # 0
    BY <1>3, <1>4, RangeAssumption
  <2>2. {begin, end} \subseteq 0..Top
    BY <1>2 DEF MemoryTypeOK
  <2> QED
    BY <1>1, <2>1, <2>2
<1>10. CASE call.operation = "actors"
  <2>1. /\ actors' = IF entry \in marked THEN Append(actors, entry) ELSE actors
        /\ stage' = "scan" /\ result' = "none"
    BY <1>1, <1>5, <1>10 DEF ScanEntry
  <2>2. Listed /\ actors \in Seq(Address) /\ Len(actors) \in Nat
    BY <1>2, <1>10 DEF InScan, MemoryTypeOK
  <2>3. /\ actors' \in Seq(Address)
        /\ Len(actors') <= Len(actors) + 1
        /\ {actors'[i] : i \in DOMAIN actors'} = {e \in marked : e < entry + EntrySize}
        /\ \A i, j \in DOMAIN actors' : i < j => actors'[i] < actors'[j]
    <3>1. \A a \in marked : a \in Address /\ (a < entry + EntrySize <=> a < entry \/ a = entry)
      BY <1>5, <1>8
    <3>2. PICK list \in Seq(Address) :
             /\ list = actors
             /\ {list[i] : i \in DOMAIN list} = {a \in marked : a < entry}
             /\ \A i, j \in DOMAIN list : i < j => list[i] < list[j]
      BY <2>2 DEF Listed
    <3>3. PICK longer : longer = IF entry \in marked THEN Append(list, entry) ELSE list
      OBVIOUS
    <3>4. /\ longer \in Seq(Address)
          /\ Len(longer) <= Len(list) + 1
          /\ {longer[i] : i \in DOMAIN longer} = {a \in marked : a < entry + EntrySize}
          /\ \A i, j \in DOMAIN longer : i < j => longer[i] < longer[j]
      BY <1>3, <3>1, <3>2, <3>3, ListGrows
    <3>5. actors' = longer
      BY <2>1, <3>2, <3>3
    <3> QED
      BY <3>2, <3>4, <3>5
  <2>4. EntrySize = Word /\ Word \in Nat \ {0} /\ MaxActors \in Nat
    BY <1>3, <1>10, MemoryAssumption DEF EntrySize
  <2>5. Len(actors') \in Nat /\ Len(actors') * Word <= (entry + Word) - begin
    <3>1. Len(actors) * Word <= entry - begin
      BY <2>2 DEF Listed
    <3>2. (Len(actors) + 1) * Word = Len(actors) * Word + Word
      BY <2>2, <2>4
    <3>3. Len(actors') \in Nat
      BY <2>3
    <3>4. Len(actors') * Word <= (Len(actors) + 1) * Word
      BY <2>2, <2>3, <2>4, <3>3
    <3> QED
      BY <1>3, <2>2, <2>4, <3>1, <3>2, <3>3, <3>4
  <2>6. Len(actors') <= MaxActors
    <3>1. end - begin <= Word * MaxActors
      BY <1>2, <1>10 DEF InScan, Fits
    <3>2. Len(actors') * Word <= MaxActors * Word
      BY <1>3, <1>4, <2>4, <2>5, <3>1
    <3>3. ASSUME Len(actors') > MaxActors PROVE FALSE
      <4>1. Len(actors') >= MaxActors + 1
        BY <2>4, <2>5, <3>3
      <4>2. Len(actors') * Word >= (MaxActors + 1) * Word
        BY <2>4, <2>5, <4>1
      <4>3. (MaxActors + 1) * Word = MaxActors * Word + Word
        BY <2>4
      <4> QED
        BY <2>4, <2>5, <3>2, <4>2, <4>3
    <3> QED
      BY <2>4, <2>5, <3>3
  <2>7. Listed'
    BY <1>1, <2>3, <2>4, <2>5 DEF Listed
  <2>8. InScan'
    BY <1>1, <1>5, <1>7, <1>10, <2>1, <2>7 DEF InScan
  <2>9. MemoryTypeOK'
    BY <1>1, <1>2, <1>9, <2>1, <2>3, <2>6 DEF MemoryInv, RangeInv, CallInv, MemoryTypeOK
  <2> QED
    BY <2>1, <2>8, <2>9 DEF ScanInv, ScanFinds
<1>11. CASE call.operation # "actors"
  <2>1. /\ stage' = IF Found(entry) THEN "idle" ELSE "scan"
        /\ result' = IF Found(entry) THEN "true" ELSE "none"
        /\ actors' = actors
    BY <1>1, <1>5, <1>11 DEF ScanEntry
  <2>2. MemoryTypeOK'
    BY <1>1, <1>2, <1>9, <2>1 DEF MemoryInv, RangeInv, CallInv, MemoryTypeOK
  <2>3. CASE Found(entry)
    <3>1. ScanFinds'
      BY <1>1, <1>11, <2>1, <2>3 DEF Found, ScanFinds
    <3> QED
      BY <2>1, <2>2, <2>3, <3>1 DEF ScanInv
  <2>4. CASE ~Found(entry)
    <3>1. \A e \in marked : e < entry + EntrySize => ~Found(e)
      BY <1>2, <1>5, <1>8, <1>11, <2>4 DEF InScan
    <3>2. \A e : Found(e)' <=> Found(e)
      BY <1>1 DEF Found
    <3>3. InScan'
      BY <1>1, <1>5, <1>7, <1>11, <2>1, <2>4, <3>1, <3>2 DEF InScan
    <3> QED
      BY <2>1, <2>2, <2>4, <3>3 DEF ScanInv, ScanFinds
  <2> QED
    BY <2>3, <2>4
<1> QED
  BY <1>10, <1>11

\* At the end of the vector every entry is behind the loop.
LEMMA EndScanScans ==
    ASSUME MemoryInv, MemoryInv', ScanInv, EndScan
    PROVE  ScanInv'
<1>1. /\ stage = "scan" /\ ~(entry < end) /\ stage' = "idle"
      /\ result' = IF call.operation = "actors" THEN "true" ELSE "false"
      /\ UNCHANGED <<readable, value, size, cursor, verdict>>
      /\ UNCHANGED <<layout, call, begin, end, entry, marked, near, actors>>
  BY DEF EndScan, MoreEntries, rangeVars
<1>2. CallInv /\ Vector /\ Position /\ InScan /\ MemoryTypeOK
  BY <1>1 DEF MemoryInv, StageInv, ScanInv
<1>3. \A e \in marked : e < entry
  <2>1. \A e \in marked : e < end /\ e \in Address
    BY <1>2, EntriesOfVector DEF InScan
  <2>2. end \in Int /\ entry \in Int /\ \A e \in marked : e \in Int
    BY <1>2, <2>1 DEF Vector, Position, Address
  <2> QED
    BY <1>1, <2>1, <2>2
<1>4. MemoryTypeOK'
  BY <1>1, <1>2 DEF MemoryInv, RangeInv, CallInv, MemoryTypeOK
<1>5. ScanFinds'
  <2>1. CASE call.operation = "actors"
    <3>1. Listed /\ {e \in marked : e < entry} = marked
      BY <1>2, <1>3, <2>1 DEF InScan
    <3> QED
      BY <1>1, <2>1, <3>1 DEF Listed, ScanFinds
  <2>2. CASE call.operation # "actors"
    <3>1. \A e \in marked : ~Found(e)
      BY <1>2, <1>3, <2>2 DEF InScan
    <3> QED
      BY <1>1, <2>2, <3>1 DEF Found, ScanFinds
  <2> QED
    BY <2>1, <2>2
<1> QED
  BY <1>1, <1>4, <1>5 DEF ScanInv

\* What readable_range does, and a stutter, leave the scan alone.
LEMMA ElsewhereScans ==
    ASSUME MemoryInv', ScanInv, InRange \/ UNCHANGED memoryVars
    PROVE  ScanInv'
<1>1. /\ UNCHANGED <<layout, stage, call, begin, end, entry, marked, near, actors, result>>
      /\ verdict' = "walking" => verdict = "walking"
  BY DEF InRange, Walk, QueryRegion, WalkEnds, scanVars, memoryVars, rangeVars
<1>2. MemoryTypeOK'
  BY <1>1 DEF MemoryInv, RangeInv, ScanInv, MemoryTypeOK
<1>3. NothingYet' <=> NothingYet
  BY <1>1 DEF NothingYet
<1>4. (Fits' <=> Fits) /\ (ScanFinds' <=> ScanFinds)
  BY <1>1 DEF Fits, ScanFinds
<1>5. InScan => InScan'
  BY <1>1, <1>4 DEF InScan, Listed, Found, Entries, EntrySize
<1> QED
  BY <1>1, <1>2, <1>3, <1>4, <1>5 DEF ScanInv

\* Nothing has been looked for before the first call.
LEMMA InitScan == MemoryInit => ScanInv
<1> SUFFICES ASSUME MemoryInit PROVE ScanInv
  OBVIOUS
<1>1. MemoryInv
  BY InitMemory
<1>2. 0 \in 0..Top /\ actors \in Seq(Address) /\ Len(actors) <= MaxActors
  BY MemoryAssumption, RangeAssumption DEF MemoryInit
<1>3. MemoryTypeOK
  BY <1>1, <1>2 DEF MemoryInit, RangeInit, MemoryInv, RangeInv, CallInv, MemoryTypeOK
<1> QED
  BY <1>3 DEF MemoryInit, ScanInv, ScanFinds

\* Each step of a call keeps what the scan has found so far true.
THEOREM ScanInvariant == MemorySpec => []ScanInv
<1>1. MemoryInv /\ MemoryInv' /\ ScanInv /\ [MemoryNext]_memoryVars => ScanInv'
  BY CallScans, BeforeLoopScans, BeginScanScans, ScanEntryScans, EndScanScans,
     ElsewhereScans DEF MemoryNext
<1> QED
  BY InitScan, <1>1, MemoryInvariant, PTL DEF MemorySpec

\* Type correctness: the loop variable and the entries it finds stay inside the
\* address space, and collect_actors never returns more than its limit.
THEOREM MemoryTypeCorrect == MemorySpec => []MemoryTypeOK
<1>1. ScanInv => MemoryTypeOK
  BY DEF ScanInv
<1> QED
  BY <1>1, ScanInvariant, PTL

\* A scan answers for the whole vector, whatever its length and its entries.
THEOREM ScanCorrect == MemorySpec => []ScanFinds
<1>1. ScanInv => ScanFinds
  BY DEF ScanInv
<1> QED
  BY <1>1, ScanInvariant, PTL
===============================================================================
