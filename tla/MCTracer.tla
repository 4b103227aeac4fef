------------------------------- MODULE MCTracer -------------------------------
(* A small instance of Tracer for TLC: an area with fewer tiles than a record   *)
(* has room for, and one with more and its first tile filled already.           *)
EXTENDS Tracer, TLC

CONSTANTS t1, t2

TwoThreads == {t1, t2}
TwoAreas == {<<"nothing">>, <<"battle", "nothing", "nothing">>}
Symmetric == Permutations(TwoThreads)
=============================================================================
