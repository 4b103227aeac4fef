SPECIFICATION Spec
CONSTANTS
    NumScripts = 2
    MaxSlots = 2
    Scale = 2
    Chances <- MCChances
    Deltas <- MCDeltas
    Extras <- MCExtras
    Unprotected = TRUE
INVARIANTS TypeOK DeltasAddUnlessMixed EveryEnabledCallbackRuns RollsAreCappedSum PlacedIffSomeRollPlaced
PROPERTIES FailedNeverRunsAgain
CHECK_DEADLOCK FALSE
