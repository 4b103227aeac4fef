SPECIFICATION Spec
CONSTANTS
    bleed = bleed
    NumScripts = 1
    Effects = {bleed}
    MaxTargets = 1
    MaxDepth = 4
    MaxContexts = 2
    KeepFailures = FALSE
INVARIANTS ValidDuringCallback
CHECK_DEADLOCK FALSE
