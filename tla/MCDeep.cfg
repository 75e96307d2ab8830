SPECIFICATION Spec
CONSTANTS
    Txs = {}
    t1 = t1
    t2 = t2
    p1 = p1
    p2 = p2
    p3 = p3
    n1 = n1
    n2 = n2
    BLOCK_INTERVAL = 10
    UINT64_MAX = 7
    Peers = {p1}
    PeerChains <- DeepPeer
    InitChain <- Shared
    AutoStart = TRUE
    ChainResetEnable = FALSE
    NDEBUG = FALSE
    RestCalls = {}
    MaxMinted = 1
    MaxNewBlocks = 1
    Miner = Miner
    Http = Http
    Main = Main
    Nobody = Nobody
    NoBlock = NoBlock
    NoFile = NoFile
INVARIANTS
    AlignmentAssertHolds
CHECK_DEADLOCK FALSE
