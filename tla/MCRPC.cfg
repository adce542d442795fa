SPECIFICATION Spec
CONSTANTS
    Block <- SmallBlock
    Genesis = 0
    Parent <- SmallParent
    Height <- SmallHeight
    ChainWork <- SmallWork
    Path <- SmallPath
    NoBlock = NoBlock
    Thread = {t1, t2}
    BadContext = {}
    BadConnect = {}
    FutureInit = {}
    Notarises <- SmallNotarises
    MaxReorg = 2
    DownloadWindow = 2
    CC = FALSE
    NearSapling = FALSE
    IsNotary = FALSE
    InitialDownload = FALSE
    AdminRPC = TRUE
INVARIANTS
    NotarisedInActiveChain
PROPERTIES
    HeldWhileActive
    ImplementsNotarisedChain
