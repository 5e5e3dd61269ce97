CONSTANTS
    Withdrawals = {w1}
    Withdrawal = w1
    Terms = {t1}
    Agreed = t1
    Confirmations = {2}
    Required = 2
    Null = Null
    Pollers = {p1}
    MaxDaa = 5
    MaxReorgs = 0
    MaxFaults = 0
SPECIFICATION PollSpec
INVARIANTS RejectedWasDropped
