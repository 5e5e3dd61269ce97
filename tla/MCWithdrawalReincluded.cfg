CONSTANTS
    Withdrawals = {w1}
    Withdrawal = w1
    Terms = {t1, t2}
    Agreed = t1
    Confirmations = {2}
    Required = 2
    Null = Null
    Pollers = {p1}
    MaxDaa = 5
    MaxReorgs = 1
    MaxFaults = 0
SPECIFICATION WholePollSpec
INVARIANTS ConfirmedIsBuried
