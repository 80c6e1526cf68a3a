\* Two messages at a time, no kill.
CONSTANTS
    Nil = Nil
    COINBASEFEE = 2
    seed = seed
    bob = bob
    carol = carol
    miner = miner
    alice = alice
    Node = {seed, bob}
    Seed = seed
    Clock <- DistinctClock
    GenesisTime <- SharedGenesis
    Miner <- MinerAddress
    Transfers <- OneTransfer
    MaxHeight = 2
    MaxHandlers = 2
    MaxRuns = 1
    MaxCrashes = 0
SPECIFICATION Spec
INVARIANT PullComplete
CHECK_DEADLOCK FALSE
