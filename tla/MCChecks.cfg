CONSTANTS
    Worker = {w1}
    Master = {m1, m2}
    NoThread = none
    Check = {c1, c2, c3, c4}
    Bad = {c1}
    nBatchSize = 2
SPECIFICATION FairSpec
INVARIANTS
    QueueInv
    VerdictExact
    CleanBetweenBlocks
PROPERTIES
    WaitReturns
CHECK_DEADLOCK FALSE
