CONSTANTS
    Outpoints = {o1}
    MaxDaa = 4
    Required = 2
    MaxWire = 2
    MaxFaults = 1
    Reinclusion = TRUE
    ConsistentScan = FALSE
    NoFacts = NoFacts
SPECIFICATION FairSpec
INVARIANTS Consistent DepthRespected
PROPERTIES EventuallyCredited JournalDrains
