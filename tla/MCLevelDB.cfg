SPECIFICATION Spec
CONSTANTS
    Keys = {1, 2, 3}
    kNumLevels = 3
    kL0_CompactionTrigger = 2
    kMaxMemCompactLevel = 1
    kL0_StopWritesTrigger = 2
    MaxBytesForLevel <- MCMaxBytesForLevel
    MaxFileSizeForLevel = 2
    kMaxGrandParentOverlapBytes = 2
    kExpandedCompactionByteSizeLimit = 4
    t1 = t1
    t2 = t2
    Threads = {t1, t2}
    Nil = Nil
    write_buffer_size = 0
    GroupLimit = 3
    MaxSeq = 5
    Budgets <- MCBudgets
CHECK_DEADLOCK FALSE
INVARIANTS
    ReadsLatest
    NeededFilesKept
PROPERTIES
    
    WritesReturn
