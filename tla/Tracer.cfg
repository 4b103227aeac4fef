SPECIFICATION Spec
CONSTANTS
    t1 = t1
    t2 = t2
    Threads <- TwoThreads
    Tiles = 3
    Captured = 2
    Areas <- TwoAreas
    MaxCalls = 3
    MaxDepth = 3
SYMMETRY Symmetric
INVARIANTS TypeOK TraceReplays RollsKnowTheirHeroes SelectedTileIsTheChange
CHECK_DEADLOCK FALSE
