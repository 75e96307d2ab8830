SPECIFICATION FairSpec
CONSTANTS
    p1 = p1
    p2 = p2
    Peers = {p1, p2}
    Reconnect = Reconnect
    Miner = Miner
    Main = Main
    Server = Server
    Nobody = Nobody
    MaxClients = 2
    MaxBroadcasts = 1
INVARIANTS
    PeerInv
    ConnectedHasConnection
    UnsafeNeedsReopening
    LostIsOffline
PROPERTIES
    JoinReturns
    LostPeerRetried
    DestructorReturns
CHECK_DEADLOCK FALSE
