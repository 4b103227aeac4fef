SPECIFICATION Spec
CONSTANTS
    t1 = t1
    t2 = t2
    b1 = b1
    b2 = b2
    a1 = a1
    a2 = a2
    burn = burn
    Nobody = Nobody
    Threads <- TwoThreads
    Battles = {b1, b2}
    Actors = {a1, a2}
    Dots = {burn}
    Capacity = 2
    MaxDepth <- Depths
    MaxAccepted = 3
SYMMETRY Symmetric
INVARIANTS TypeOK AcceptedOnceInOrder LockOnlyWhileScanning Coalesced
PROPERTIES ImplementsLedger
