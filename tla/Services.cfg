CONSTANTS
    Subs = {sub1, sub2}
    MaxReconnects = 1
    MaxConnections = 2
    Keys = {k1, k2}
    MaxBatchSize = 2
    MaxLoads = 4
    MaxClears = 1
    s1 = s1
    s2 = s2
    s3 = s3
    f1 = f1
    f2 = f2
    i1 = i1
    i2 = i2
    Servers = {s1, s2, s3}
    Fetches = {f1, f2}
    Weight <- MCWeight
    Wanted <- MCWanted
    Threshold <- MCThreshold
    MaxSessions = 3
    MaxRefreshes = 3
    MYSO = MYSO
    USDC = USDC
    NFT = NFT
    GasType = MYSO
    InputType <- MCInputType
    Balance = 3
    Splits <- MCSplits
    AtOnce = 2
    MaxCommands = 3
    ReturnsOthers = FALSE
    p1 = p1
    p2 = p2
    p3 = p3
    CoinTypes = {MYSO, USDC, NFT}
    Payments = {p1, p2, p3}
    Outflows <- MCOutflows
    Executions <- MCExecutions
    Priced = {MYSO, USDC}
    Grants <- MCGrants
    NoSettings = NoSettings
    MaxGrants = 3
    Wallets = {w1, w2}
    Accounts = {1, 2}
    Answers = {{}, {1}}
    NoWallet = NoWallet
    Connects = {c1, c2}
    Restores = {r1}
    n1 = n1
    n2 = n2
    n3 = n3
    n4 = n4
    Nodes = {n1, n2, n3, n4}
    Holder <- MCHolder
    Limits = {2, 10}
    StorageCalls = {b1, b2}
    MaxEpochs = 2
    MaxCommittees = 3
    MaxResets = 2
    NoValue = NoValue
SPECIFICATION MCSpec
INVARIANTS RightSubscriber NobodyIsForgotten FreshAfterClear VerdictIsJustified OneRequestPerToken TokenIsCurrent OutflowCoversSpending NeverOverdrawn BudgetsAddUp SavedWalletIsChosen VerdictIsDeserved WritesAreFresh
PROPERTIES EverySentRequestSettles EveryLoadSettles EveryFanOutEnds
CHECK_DEADLOCK FALSE
