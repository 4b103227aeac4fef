----------------------------- MODULE ReadableRange -----------------------------
(* readable_range of game_bridge.cpp and tracer.cpp: before the framework        *)
(* dereferences an address of the game's it asks VirtualQuery, region by region, *)
(* whether all bytes are committed and accessible. Addresses wrap at Top.        *)
(* ActorMemory calls Ask and waits until the walk has a verdict.                *)
EXTENDS Integers

CONSTANTS
    Top,       \* 2^64
    PageSize   \* the granularity of protection, 4096

ASSUME RangeAssumption ==
    /\ Top \in Nat \ {0}
    /\ PageSize \in Nat \ {0}

Address == 0..(Top - 1)

\* The bytes of the pages whose numbers are in the set. Windows never maps
\* page 0.
BytesOf(pages) == {a \in Address : a \div PageSize \in pages}
Memories == {BytesOf(pages) : pages \in SUBSET (1..(Top \div PageSize))}

VARIABLES
    readable,  \* the addresses whose bytes are committed and accessible
    value,     \* readable_range's arguments ...
    size,
    cursor,    \* ... and its loop variable
    verdict    \* "none" before a call, "walking" during one, then its result

rangeVars == <<readable, value, size, cursor, verdict>>

RangeTypeOK ==
    /\ readable \subseteq Address
    /\ value \in Address
    /\ size \in Address
    /\ cursor \in Address
    /\ verdict \in {"none", "walking", "yes", "no"}

RangeInit ==
    /\ readable \in Memories
    /\ value = 0
    /\ size = 0
    /\ cursor = 0
    /\ verdict = "none"

\* The bytes the caller asks about; they may reach beyond the address space.
Bytes(v, n) == v..(v + n - 1)

Limit == (value + size) % Top

\* The tests before the loop: null, empty, or limit < cursor.
Refused_NoWrap(v, n) == v = 0 \/ n = 0         \* mutant: wrap-around not noticed
Refused(v, n) == v = 0 \/ n = 0 \/ (v + n) % Top < v

Ask(v, n) ==
    /\ verdict # "walking"
    /\ value' = v
    /\ size' = n
    /\ cursor' = v
    /\ verdict' = IF Refused(v, n) THEN "no" ELSE "walking"
    /\ UNCHANGED readable

\* while (cursor < limit)
MoreBytes_Inclusive == cursor <= Limit         \* mutant: one byte too far
MoreBytes == cursor < Limit

\* cursor = min(limit, region_end)
NextCursor(end) == IF end < Limit THEN end ELSE Limit

\* One VirtualQuery. The region from the cursor on has one state and protection;
\* stop is its first address after it, and wraps to 0 at the top.
QueryRegion ==
    /\ verdict = "walking"
    /\ MoreBytes
    /\ \/ /\ cursor \notin readable
          /\ verdict' = "no"
          /\ UNCHANGED cursor
       \/ \E stop \in (cursor + 1)..Top :
             /\ stop % PageSize = 0
             /\ cursor..(stop - 1) \subseteq readable
             /\ IF stop % Top <= cursor
                  THEN verdict' = "no" /\ UNCHANGED cursor
                  ELSE cursor' = NextCursor(stop % Top) /\ UNCHANGED verdict
    /\ UNCHANGED <<readable, value, size>>

WalkEnds ==
    /\ verdict = "walking"
    /\ ~MoreBytes
    /\ verdict' = "yes"
    /\ UNCHANGED <<readable, value, size, cursor>>

Walk == QueryRegion \/ WalkEnds

-----------------------------------------------------------------------------
(* Properties.                                                               *)

YesIsReadable == verdict = "yes" => Bytes(value, size) \subseteq readable

NoHasAReason ==
    verdict = "no" =>
        \/ value = 0 \/ size = 0 \/ value + size >= Top
        \/ ~(Bytes(value, size) \subseteq readable)
        \/ cursor..(Top - 1) \subseteq readable

\* A range found readable is readable to its last byte. A range is refused only
\* if it is empty, starts at null, wraps, contains an inaccessible byte, or lies
\* in memory that reaches up to the end of the address space.
VerdictIsRight == YesIsReadable /\ NoHasAReason
=============================================================================
