----------------------------- MODULE MCBootstrap -----------------------------
(* Bootstrap for TLC: two game threads, and profiles that are complete, lack  *)
(* a point or the layout of the bridge, or lack what only the tracer patches. *)
EXTENDS Bootstrap

CONSTANTS t1, t2

TwoThreads == {t1, t2}
FourProfiles == {Items} \union {Items \ {item} : item \in {"named", "bridge", "move"}}
=============================================================================
