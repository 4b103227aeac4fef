----------------------------- MODULE MCRenderTick -----------------------------
(* A small instance of RenderTick for TLC: core and one mod.                  *)
EXTENDS RenderTick

CONSTANT modA

OneMod == <<modA>>
=============================================================================
