SPECIFICATION FairSpec
CONSTANTS
    g = g  a1 = a1  a2 = a2  a3 = a3  b1 = b1  b2 = b2  b3 = b3  b4 = b4  c2 = c2
    Blocks = {g, a1, a2, a3, b1, b2, b3, b4, c2}
    Genesis = g
    Parent <- MCParent
    Ancestors <- MCAncestors
    Height <- MCHeight
    ChainWork <- MCChainWork
    Nodes <- MCNodes
INVARIANTS
    
    BestValidChain
PROPERTY ReachesBest
CHECK_DEADLOCK FALSE
