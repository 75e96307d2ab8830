SPECIFICATION Spec
CONSTANTS
    Txs = {}
    BLOCK_INTERVAL = 10
    UINT64_MAX = 7
    p1 = p1
    p2 = p2
    p3 = p3
    n1 = n1
    n2 = n2
    Nodes = {n1, n2}
    Links <- BothWays
    InitChains <- TwoShared
    AutoStart = {n1, n2}
    ResetEnable = {}
    NDEBUG = FALSE
    MaxHeight = 3
    MaxCuts = 0
INVARIANTS
    NodesSurvive
CHECK_DEADLOCK FALSE
