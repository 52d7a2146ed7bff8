SPECIFICATION MCSpec
CONSTANTS
    MaxNodes = 3
    Dialed = {"d1"}
    Callers = {"i1", "i2", "i3"}
    Subnets = {"i1"}
    Whitelisted = {"i3"}
    Group <- MCGroup
    Openers = {"opencon", "addcon", "rpc"}
    Granted = {"opencon", "addcon"}
    nMaxOutbound = 2
    nMaxInbound = 2
    KeptByGroup = 0
    KeptByPing = 0
INVARIANTS
    LinkExact
    
    TablesExact
PROPERTIES
    LinkSettles
    TriedNotForgotten
CHECK_DEADLOCK FALSE
