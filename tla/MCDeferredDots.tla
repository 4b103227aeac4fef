---------------------------- MODULE MCDeferredDots ----------------------------
(* Small instances of DeferredDots for TLC.                                  *)
EXTENDS DeferredDots, TLC

CONSTANTS t1, t2, b1, b2, a1, a2, burn

TwoThreads == {t1, t2}

\* One thread nests deeply, the other one only interferes.
Depths == [t \in Threads |-> IF t = t1 THEN 6 ELSE 2]

\* Battles and actors are interchangeable, and every property is a safety one.
Symmetric == Permutations(Battles) \union Permutations(Actors)
=============================================================================
