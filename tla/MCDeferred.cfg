SPECIFICATION Spec
CONSTANTS
    Block <- ForkBlock
    Genesis = 0
    Parent <- ForkParent
    Height <- ForkHeight
    ChainWork <- ForkWork
    Path <- ForkPath
    NoBlock = NoBlock
    Thread = {t1, t2}
    BadContext = {5}
    BadConnect = {}
    FutureInit = {5}
    Notarises <- StrayNotarises
    MaxReorg = 1
    DownloadWindow = 2
    CC = FALSE
    NearSapling = FALSE
    IsNotary = TRUE
    InitialDownload = TRUE
    AdminRPC = FALSE
INVARIANTS
    ReorgBounded
