CONSTANTS
    Withdrawals = {w1}
    Withdrawal = w1
    Terms = {t1, t2}
    Agreed = t1
    Confirmations = {2}
    Required = 2
    Null = Null
    Pollers = {p1, p2}
    MaxDaa = 4
    MaxReorgs = 1
    MaxFaults = 1
SPECIFICATION FairPollSpec
INVARIANTS Consistent RowsWellFormed OnlyTornRejects
PROPERTIES ImplementsLifecycle FactsFrozen EventuallyConfirmed
