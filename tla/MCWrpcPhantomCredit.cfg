CONSTANTS
    Outpoints = {o1}
    MaxDaa = 4
    Required = 2
    MaxWire = 2
    MaxFaults = 2
    Reinclusion = FALSE
    ConsistentScan = TRUE
    NoFacts = NoFacts
SPECIFICATION Spec
INVARIANTS CreditedWasBuried
