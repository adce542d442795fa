SPECIFICATION FairSpec
CONSTANTS
    Block <- ForkBlock
    Genesis = 0
    Parent <- ForkParent
    Height <- ForkHeight
    ChainWork <- ForkWork
    Path <- ForkPath
    NoBlock = NoBlock
    Thread = {t1, t2}
    BadContext = {}
    BadConnect = {5}
    FutureInit = {}
    Notarises <- ForkNotarises
    MaxReorg = 2
    DownloadWindow = 2
    CC = FALSE
    NearSapling = FALSE
    IsNotary = FALSE
    InitialDownload = FALSE
    AdminRPC = FALSE
INVARIANTS
    ChainInv
    FindMostWorkChainAgrees
    CheckBlockIndex
    BestBlockIsCandidate
    BestChainAtRest
PROPERTIES
    ActivationEnds
