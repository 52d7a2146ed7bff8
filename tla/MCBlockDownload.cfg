SPECIFICATION Spec
CONSTANTS
    g = g
    a1 = a1
    a2 = a2
    a3 = a3
    b1 = b1
    b2 = b2
    fast = fast
    slow = slow
    None = None
    Peers = {fast, slow}
    Responsive = {fast}
    Preferred = {fast, slow}
    Client = {}
    Blocks = {g, a1, a2, a3, b1, b2}
    Genesis = g
    Parent <- MCParent
    Ancestors <- MCAncestors
    Height <- MCHeight
    BadBlocks = {b2}
    Histories <- MCHistories
    TodayHeight = 1
    RecentHeight = 2
    MAX_BLOCKS_IN_TRANSIT_PER_PEER = 2
    BLOCK_DOWNLOAD_WINDOW = 1
    MAX_HEADERS_RESULTS = 2
    MIN_BLOCKS_TO_KEEP = 2
    BLOCK_STALLING_TIMEOUT = 1
    TimeoutBase = 2
    BanScore = 1
    MaxRequests = 1
    MaxConnections = 2
INVARIANTS InFlightExact NothingSkipped ResponsiveKept
PROPERTY CatchesUp
CHECK_DEADLOCK FALSE
