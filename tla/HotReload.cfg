SPECIFICATION FairSpec
CONSTANTS
    Core = core
    modA = modA
    Order <- OneMod
    MaxWrite = 3
    StatFaults = 1
    ReadFaults = 1
INVARIANTS CoreFirstNoDuplicates
PROPERTIES ReloadIsTransactional ValidEditsTakeEffect ListingConverges PresentModStaysListed
