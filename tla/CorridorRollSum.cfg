SPECIFICATION Spec
CONSTANTS
    NumScripts = 2
    MaxSlots = 2
    Scale = 2
    Chances <- MCChances
    Deltas <- MCDeltas
    Extras <- NoExtra
    Unprotected = FALSE
INVARIANTS DeltasAddBeforeClamp
