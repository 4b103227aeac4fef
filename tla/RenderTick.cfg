SPECIFICATION TickSpec
CONSTANTS
    Core = core
    modA = modA
    Order <- OneMod
    MaxWrite = 2
    StatFaults = 0
    ReadFaults = 0
    MaxSlots = 2
INVARIANTS TickTypeOK EveryCallbackOnce
PROPERTIES OffUntilReloaded
