SPECIFICATION Spec
CONSTANTS
    Block <- ForkBlock
    Genesis = 0
    Parent <- ForkParent
    Height <- ForkHeight
    ChainWork <- ForkWork
    Path <- ForkPath
    NoBlock = NoBlock
    Notarises <- ForkNotarises
    AssetChain = TRUE
    NotaryPay = FALSE
    PayAbove = 1
    Inherited <- Fresh
    MaxFile = 12
    MaxRuns = 2
PROPERTIES
    NotarisationPersisted
