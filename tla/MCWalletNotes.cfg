SPECIFICATION Spec
CONSTANTS
    g = g  p1 = p1  p2 = p2  a1 = a1  a2 = a2  a3 = a3  b1 = b1
    t0 = t0  t1 = t1  ta = ta
    n1 = n1  s1 = s1  f1 = f1  f2 = f2
    key = key  other = other
    Blocks <- MCBlocks
    Genesis = g
    Parent <- MCParent
    Vtx <- MCVtx
    Outputs <- MCOutputs
    Reveals <- MCReveals
    Sapling = {n1, f1, f2}
    Owner <- MCOwner
    TransparentlyMine = {ta}
    Keys = {key}
    InitialKeys = {}
    StartTip = p2
    MAX_REORG_LENGTH = 1
    Relayed = {ta}
    MaxRestarts = 2
    FollowLost = FALSE
INVARIANTS
    WitnessesCurrent
    SpendableExact
CHECK_DEADLOCK FALSE
