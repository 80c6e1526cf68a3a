\* Two nodes, each started twice, one kill; two messages handled at a time.
CONSTANTS
    Nil = Nil
    COINBASEFEE = 2
    seed = seed
    bob = bob
    carol = carol
    miner = miner
    alice = alice
    Node = {seed, bob}
    Seed = seed
    Clock <- DistinctClock
    GenesisTime <- SharedGenesis
    Miner <- MinerAddress
    Transfers <- OneTransfer
    MaxHeight = 2
    MaxHandlers = 2
    MaxRuns = 2
    MaxCrashes = 1
SPECIFICATION Spec
INVARIANTS
    TypeOK
    HeadIsHighest
    TopTracksLatest
    OneBlockPerHash
    AncestryHeld
    RequestHeld
PROPERTY BlockStoreSpec
CHECK_DEADLOCK FALSE
