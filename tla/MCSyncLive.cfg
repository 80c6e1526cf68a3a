\* Under fairness; one kill.
CONSTANTS
    Nil = Nil
    COINBASEFEE = 2
    seed = seed
    bob = bob
    carol = carol
    miner = miner
    alice = alice
    Node = {seed, bob}
    Seed = seed
    Clock <- DistinctClock
    GenesisTime <- SharedGenesis
    Miner <- MinerAddress
    Transfers <- NoTransfers
    MaxHeight = 1
    MaxHandlers = 2
    MaxRuns = 2
    MaxCrashes = 1
SPECIFICATION FairSpec
PROPERTY HeadCatchUp
CHECK_DEADLOCK FALSE
