SPECIFICATION FairSpec
CONSTANTS
    Txs = {t1, t2}
    t1 = t1
    t2 = t2
    p1 = p1
    p2 = p2
    p3 = p3
    n1 = n1
    n2 = n2
    BLOCK_INTERVAL = 2
    UINT64_MAX = 3
    Peers = {}
    PeerChains <- NoPeers
    InitChain <- Easy
    AutoStart = TRUE
    ChainResetEnable = FALSE
    NDEBUG = FALSE
    RestCalls = {"startMining", "stopMining", "shutdown", "createtx"}
    MaxMinted = 2
    MaxNewBlocks = 1
    Miner = Miner
    Http = Http
    Main = Main
    Nobody = Nobody
    NoBlock = NoBlock
    NoFile = NoFile
INVARIANTS
    TypeOK
    DifficultySteps
    PaymentKept
    PaymentOnce
    OnlyExits
PROPERTIES
    PaymentMined
    ShutdownEnds
CHECK_DEADLOCK FALSE
