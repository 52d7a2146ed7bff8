SPECIFICATION Spec
CONSTANTS
    g = g  a1 = a1  a2 = a2  a3 = a3  a4 = a4  b1 = b1
    Blocks = {g, a1, a2, a3, a4, b1}
    Genesis = g
    Parent <- MCParent
    Ancestors <- MCAncestors
    Height <- MCHeight
    Garbage = garbage
    nPruneAfterHeight = 2
    MIN_BLOCKS_TO_KEEP = 2
    Nodes <- CoinsFailingNodes
INVARIANTS
    DiskConsistent
