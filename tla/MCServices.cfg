SPECIFICATION FairSpec
CONSTANTS
    Request <- MCRequest
    Calls <- MCCalls
    HttpWorker = {w1, w2}
    AsyncWorker = {a1}
    NoRequest = none
    maxDepth = 1
CONSTRAINT
    InTurn
INVARIANTS
    ServicesInv
    ResultOnce
    NothingLeft
PROPERTIES
    ShutdownCompletes
CHECK_DEADLOCK FALSE
