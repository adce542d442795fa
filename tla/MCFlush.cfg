SPECIFICATION Spec
CONSTANTS
    Block <- ForkBlock
    Genesis = 0
    Parent <- ForkParent
    Height <- ForkHeight
    ChainWork <- ForkWork
    Path <- ForkPath
    NoBlock = NoBlock
    Coin = {"c1", "c2", "c3"}
    Spends <- ForkSpends
    Creates <- ForkCreates
    MAX_BLOCKFILE_SIZE = 3
    BLOCKFILE_CHUNK_SIZE = 2
    UNDOFILE_CHUNK_SIZE = 2
    MIN_BLOCKS_TO_KEEP = 1
    PruneAfterHeight = 1
    MaxFile = 2
    MaxStops = 1
    Faults = {"block", "undo", "index", "coins", "space"}
    MaxFaults = 1
CONSTRAINT
    FaultsOnOneBranch
INVARIANT
    FlushInv
    DatabaseExact
    RestartPossible
    DataBacked
    RollbackPossible
CHECK_DEADLOCK FALSE
