----------------------------- MODULE MCHotReload -----------------------------
(* Small instances of HotReload for TLC.                                     *)
EXTENDS HotReload

CONSTANT modA

OneMod == <<modA>>
=============================================================================
