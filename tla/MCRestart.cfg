SPECIFICATION RestartSpec
CONSTANTS
    Txs = {}
    p1 = p1
    p2 = p2
    p3 = p3
    n1 = n1
    n2 = n2
    BLOCK_INTERVAL = 10
    UINT64_MAX = 7
    Peers = {p1}
    PeerChains <- GrowingPeer
    InitChain <- Shared
    AutoStart = TRUE
    ChainResetEnable = FALSE
    NDEBUG = FALSE
    RestCalls = {}
    MaxMinted = 1
    MaxNewBlocks = 1
    Miner = Miner
    Http = Http
    Main = Main
    Nobody = Nobody
    NoBlock = NoBlock
    NoFile = NoFile
    MaxCrashes = 2
INVARIANTS
    StartupFailsOnlyTorn
    EarlyUpdateAttaches
PROPERTIES
    ResumesOwnChain
CHECK_DEADLOCK FALSE
