SPECIFICATION MCSpec
CONSTANTS
    w1 = w1
    w2 = w2
    master = master
    Workers = {w1, w2}
    Master = master
    NumChecks = 3
    Bad = {2}
    nBatchSize = 2
    MaxInterrupts = 1
INVARIANTS
    CoinsExact
    QueueExact
PROPERTIES
    UndoRestores
    AnswersVerdict
    WaitReturns
