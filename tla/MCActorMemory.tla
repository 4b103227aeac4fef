----------------------------- MODULE MCActorMemory -----------------------------
(* Pages of four bytes in an address space of twenty-four, pointers of four     *)
(* bytes, fields of two, vectors of at most three entries. The objects: null, one*)
(* whose words straddle pages in the middle of memory, one whose words are whole *)
(* pages, and one whose first word wraps around the end of the address space. The*)
(* layouts: one whose fields reach the ends of the entry, one whose amount begins*)
(* in the entry and ends outside it, one whose limit overflows, and two that     *)
(* load_layout must refuse.                                                      *)
EXTENDS ActorMemory

Layout(entrySize, stat, amount, id, capacity) ==
    [begin |-> 1, end |-> 5, entry |-> entrySize, stat |-> stat,
     amount |-> amount, id |-> id, capacity |-> capacity]

MCLayouts ==
    {Layout(6, 0, 4, 1, 5), Layout(3, 0, 2, 0, 1), Layout(8, 1, 3, 3, 5),
     Layout(6, 0, 4, 1, 6), Layout(0, 0, 0, 0, 1)}

MCObjects == {0, 5, 7, 20}
=============================================================================
