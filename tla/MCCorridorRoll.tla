---------------------------- MODULE MCCorridorRoll ----------------------------
(* Small instances of CorridorRoll for TLC: Scale = 2, so deltas are halves.  *)
EXTENDS CorridorRoll

MCChances == {1, 2}
\* -1.0, -0.5, +1.0 and a value beyond the upper clamp.
MCDeltas == {-2, -1, 2, 16}
NoDelta == {0}
MCExtras == {-1, 1, 3}
NoExtra == {0}
=============================================================================
