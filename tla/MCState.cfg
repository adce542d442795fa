SPECIFICATION Spec
CONSTANTS
    Block <- ForkBlock
    Genesis = 0
    Parent <- ForkParent
    Height <- ForkHeight
    ChainWork <- ForkWork
    Path <- ForkPath
    NoBlock = NoBlock
    Notarises <- ForkNotarises
    AssetChain = TRUE
    NotaryPay = TRUE
    PayAbove = 1
    Inherited <- FreshOrOld
    MaxFile = 16
    MaxRuns = 2
INVARIANTS
    StateInv
    EventsOfActiveChain
    HeightsCoverTip
    LastIsNewestPoint
    SearchExact
    CheckpointsNested
