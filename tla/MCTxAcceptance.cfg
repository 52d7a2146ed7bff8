SPECIFICATION Spec
CONSTANTS
    c = c  d = d  e = e  f = f  s = s  u = u
    g = g  a1 = a1  a2 = a2  a3 = a3  a4 = a4  b2 = b2  b3 = b3  b4 = b4
    n1 = n1
    None = None
    Txs = {c, d, e, f, s, u}
    In <- MCIn
    Nullifiers <- MCNullifiers
    Anchor <- MCAnchor
    HasCommitment = {c}
    Expiry <- MCExpiry
    LockTime <- MCLockTime
    Branch <- MCBranch
    Blocks <- MCBlocks
    nCoinbaseMaturity = 2
    UpgradeHeight = 5
    MemUsage <- MCMemUsage
    LowFee = {f}
    MIN_TX_COST = 1
    LOW_FEE_PENALTY = 2
    CostLimit = 5
    EVICTION_MEMORY_ENTRIES = 2
    TimeToKeep = 0
    Peers = {p1}
    Received = {c, d, e, f}
    Own = {c, s, u}
    Invalidated = {a2}
    TX_EXPIRING_SOON_THRESHOLD = 1
    MaxOrphanSize = 3
    nMaxOrphanTx = 2
    Free = {f}
    AllowFree = {c, e, f}
    FeeRank <- MCFeeRank
    PriorityRank <- MCPriorityRank
    nBlockPrioritySize = 4
    nBlockMinSize = 0
    BaseSize = 1
    nBlockMaxSize = 7
    MaxTime = 1
INVARIANTS PoolConsistent EvictsByWeight TemplateComplete
CHECK_DEADLOCK FALSE
