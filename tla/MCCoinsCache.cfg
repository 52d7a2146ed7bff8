CONSTANTS
    t1 = t1  o1 = o1  o2 = o2  n1 = n1
    E = E  r1 = r1  r2 = r2  SAPLING = SAPLING  b1 = b1  b2 = b2
    Txids = {t1}
    Outs = {o1, o2}
    Nullifiers = {n1}
    Pools = {SAPLING}
    Roots = {E, r1, r2}
    EmptyRoot = E
    Blocks = {b1, b2}
    NULL = NULL
    NoEntry = NoEntry
    NoModifier = NoModifier
SPECIFICATION Spec
SYMMETRY Symmetric
CONSTRAINT OneMapTouched
INVARIANTS
    FlagsTruthful
    PushedEntryIsFresh
    AnchorsExact
    UsageExact
PROPERTIES
    RefinesStore
