SPECIFICATION Spec
CONSTANTS
    a1 = a1
    a2 = a2
    Addresses = {a1, a2}
    RewardAddress = a1
    Amounts = {1, 2}
    PeerPayments <- NoPayments
    COINBASE_REWARD = 2
    ShownExactly = 10
    MaxBlocks = 4
    MaxPayments = 2
    MaxUpdates = 1
    MaxPeerPayments = 1
INVARIANTS
    InputsResolve
CHECK_DEADLOCK FALSE
