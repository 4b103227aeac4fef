SPECIFICATION Spec
CONSTANTS
    bleed = bleed
    NumScripts = 2
    Effects = {bleed}
    MaxTargets = 1
    MaxDepth = 5
    MaxContexts = 3
    KeepFailures = FALSE
INVARIANTS TypeOK ActiveWhileRunning TicksOnlyInsideTheirCallback VetoIsTheScripts
CHECK_DEADLOCK FALSE
