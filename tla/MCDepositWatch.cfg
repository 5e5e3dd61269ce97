CONSTANTS
    Outpoints = {o1}
    MaxDaa = 5
    Required = 2
    MaxFaults = 2
    Reinclusion = TRUE
    NoFacts = NoFacts
SPECIFICATION Spec
INVARIANTS Consistent DepthRespected
PROPERTIES EventuallyCredited VanishedSettles
