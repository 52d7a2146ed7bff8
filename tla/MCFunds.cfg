SPECIFICATION MCSpec
CONSTANTS
    Workers = {w1}
    MaxOps = 6
    Opids <- MCOpids
    None = None
    Endings = {"close", "finish"}
    Taddrs = {t1, t2}
    Change = change
    Results = {2}
    Setups <- MCSetups
    PRIVATIZER_MAX_COUNT = 2
    PRIVATIZER_MIN_WORK_AMOUNT = 4
    PRIVATIZER_TX_FEE = 1
    PRIVATIZER_MIN_DELAY = 1
    PRIVATIZER_MAX_DELAY = 2
    t1 = t1
    t2 = t2
    MayFail = TRUE
INVARIANTS
    FundsFollowed
    
    Recoverable
    
PROPERTIES
    
    EndingReturns
CHECK_DEADLOCK FALSE
