SPECIFICATION BootSpec
CONSTANTS
    RestoreFaults = 1
    Profiles <- FourProfiles
    t1 = t1
    t2 = t2
    Threads <- TwoThreads
    Main = t1
    LoadFaults = 1
    Nobody = Nobody
INVARIANTS BootTypeOK TouchedOnlyIfVerified AllOrNothing SettledCallsSucceed TracerOwnsCorridor
    ForwardsResolved ScriptsHandedOver ReadyMeansReady
PROPERTIES CallsReturn
CHECK_DEADLOCK FALSE
