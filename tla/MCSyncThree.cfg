\* Three nodes, one run each.
CONSTANTS
    Nil = Nil
    COINBASEFEE = 2
    seed = seed
    bob = bob
    carol = carol
    miner = miner
    alice = alice
    Node = {seed, bob, carol}
    Seed = seed
    Clock <- DistinctClock
    GenesisTime <- SharedGenesis
    Miner <- MinerAddress
    Transfers <- NoTransfers
    MaxHeight = 1
    MaxHandlers = 2
    MaxRuns = 1
    MaxCrashes = 1
SPECIFICATION Spec
PROPERTY BlockStoreSpec
CHECK_DEADLOCK FALSE
