SPECIFICATION Spec
CONSTANTS
    bleed = bleed
    NumScripts = 1
    Effects = {bleed}
    MaxTargets = 2
    MaxDepth = 4
    MaxContexts = 2
    KeepFailures = TRUE
PROPERTIES FailedHandlersAreDisabled
CHECK_DEADLOCK FALSE
