SPECIFICATION Spec
CONSTANTS
    Block <- MCBlock
    Genesis = 0
    Parent <- MCParent
    Height <- MCHeight
    ChainWork <- MCWork
    Path <- MCPath
    NoBlock = NoBlock
    Tx <- MCTx
    CoinbaseTx = {"c1", "c3"}
    StakeTx = {}
    vtx <- MCvtx
    Outpoint <- MCOutpoint
    vout <- MCvout
    vin <- MCvin
    Nullifier = {"n"}
    Nullifiers <- MCNullifiers
    Root <- MCRoot
    Anchor <- MCAnchor
    NoRoot = NoRoot
    nLockTime <- MCLock
    nExpiryHeight <- MCExpiry
    BranchAt <- MCBranchAt
    Commits <- MCCommits
    BadTx = {"f"}
    LowFee = {"d"}
    CheckFails = {7}
    ConnectFails = {6}
    Deferred = {5}
    COINBASE_MATURITY = 2
    TimeLocked = {}
    unlocktime <- Zero
    Peer = {"p"}
    MaxOrphans = 2
    NoTx = NoTx
    NoEntry = NoEntry
    NoPeer = NoPeer
    Relayed = {"a", "b", "f", "g"}
    Sent = {"d", "m", "v", "w", "z"}
INVARIANT
    SpendsMature
CHECK_DEADLOCK FALSE
