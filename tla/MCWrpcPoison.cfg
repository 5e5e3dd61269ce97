CONSTANTS
    Outpoints = {o1}
    MaxDaa = 4
    Required = 2
    MaxWire = 2
    MaxFaults = 0
    Reinclusion = TRUE
    ConsistentScan = FALSE
    NoFacts = NoFacts
SPECIFICATION FairSpec
PROPERTIES JournalAlwaysDrains
