SPECIFICATION Spec
CONSTANTS
    Txs = {}
    BLOCK_INTERVAL = 10
    UINT64_MAX = 7
    p1 = p1
    p2 = p2
    p3 = p3
    n1 = n1
    n2 = n2
    Nodes = {n1, n2}
    Links <- BothWays
    InitChains <- TwoAlien
    AutoStart = {n1, n2}
    ResetEnable = {n1}
    NDEBUG = FALSE
    MaxHeight = 5
    MaxCuts = 1
INVARIANTS
    NodesConsistent
CHECK_DEADLOCK FALSE
