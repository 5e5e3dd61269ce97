CONSTANTS
    Outpoints = {o1, o2}
    Facts = {f1, f2}
    NoFacts = NoFacts
    Daa = {1, 2}
    NoDaa = NoDaa
SPECIFICATION Spec
INVARIANTS
    RowsWellFormed
    OutboxMirrorsLedger
PROPERTIES
    ImplementsCreditLifecycle
    LegacyNeverPaidAgain
