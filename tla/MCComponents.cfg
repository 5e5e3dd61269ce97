CONSTANTS
    Frames = {f1, f2}
    MaxSequence = 5
    Null = Null
    Failed = Failed
    Torn = Torn
    u1 = u1
    o1 = o1
    o2 = o2
    c1 = c1
    c2 = c2
    Spellings = {"kasp", "KASP"}
    Ticker <- MCTicker
    Holders = {"a", "b", "m"}
    Testnet = {"a", "b"}
    Mainnet = {"m"}
    TxIds = {1, 2, 3, 4}
    MaxAmount = 3
    Outpoints = {o1, o2}
    Coinbase = {o2}
    Amount <- MCAmount
    Addresses = {"a", "b"}
    Foreign = "other"
    Payments = {"p", "q"}
    Scores = {0, 1, 2}
    MaxRows = 2
    MaxSompi = 3
    DepositConfirmations = 0
    CoinbaseMaturity = 2
    Ids = {u1}
    Parties = {"buyer", "seller", "arbiter"}
    MaxDaa = 2
    MaxFunds = 2
    MaxScore = 3
    MaxBlocks = 2
    MaxPeers = 1
    MaxDaaLag = 1
    MaxGap = 1
    MaxDelta = 1
    Receivers = {"r1", "r2"}
    MaxInteger = 1
    MaxCrashes = 1
    Urls = {"a", "b", "c", "far"}
    Loopback = {"a", "b", "c"}
    DefaultUrl = "a"
    DualUrls <- MCDualUrls
    MaxUrls = 3
    MaxLag = 1
    Clients = {c1, c2}
    Environments <- MCEnvironments
    Events = {o1}
    Bodies <- MCBodies
    Watchable = {"a", "b"}
    MaxRequests = 3
    Programs = {"p", "q"}
    MaxKills = 2
    Count = 3
    Concurrency = 2
    Attempts = 2
    MaxVersion = 1
    Deposit = 3
    MaxChainWalk = 2
    MaxU64 = 2
    FeeTxs <- MCFeeTxs
    Deposits = {1, 2, 3}
    MaxSeen = 1
    ClampLimit = 2
    MaxOffset = 2
    ExportMaxRows = 3
    Limits = {1, 3}
    MaxTx = 3
    ProofFiles <- MCProofFiles
SPECIFICATION BenchSpec
CHECK_DEADLOCK FALSE
INVARIANTS
    MoneyAddsUp TakenOnce CovenantsSound NodesSound ReceiverSound
    ApiSound ProofSound AnswersSound LedgerFileSound
PROPERTIES
    ImplementsFrameQueue NothingUndone FailoverSound AllSettle
