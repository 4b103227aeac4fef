--------------------------- MODULE MCEffectDispatch ---------------------------
(* Small instances of EffectDispatch for TLC.                                *)
EXTENDS EffectDispatch

CONSTANTS bleed
=============================================================================
