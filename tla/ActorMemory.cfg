\* Vectors of up to three entries, every page readable or not.
SPECIFICATION MemorySpec
CONSTANTS
    Top = 24
    PageSize = 4
    Word = 4
    Field = 2
    MaxBuffs = 3
    MaxActors = 3
    Layouts <- MCLayouts
    Objects <- MCObjects
INVARIANTS
    MemoryTypeOK
    NoWildReads
    ScanFinds
    VerdictIsRight
