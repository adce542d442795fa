SPECIFICATION Spec
CONSTANTS
    Block <- ForkBlock
    Genesis = 0
    Parent <- ForkParent
    Height <- ForkHeight
    ChainWork <- ForkWork
    Path <- ForkPath
    NoBlock = NoBlock
    Thread = {t1, t2}
    BadContext = {3}
    BadConnect = {}
    FutureInit = {}
    Notarises <- ForkNotarises
    MaxReorg = 2
    DownloadWindow = 2
    CC = TRUE
    NearSapling = TRUE
    IsNotary = FALSE
    InitialDownload = FALSE
    AdminRPC = FALSE
INVARIANTS
    LinkedIffReceived
    ActiveChainValid
