\* Orderly pulls and kills: higher chains.
CONSTANTS
    Nil = Nil
    COINBASEFEE = 2
    seed = seed
    bob = bob
    carol = carol
    miner = miner
    alice = alice
    Node = {seed, bob}
    Seed = seed
    Clock <- DistinctClock
    GenesisTime <- OwnGenesis
    Miner <- MinerAddress
    Transfers <- OneTransfer
    MaxHeight = 3
    MaxHandlers = 3
    MaxRuns = 3
    MaxCrashes = 2
SPECIFICATION PacedSpec
INVARIANT PullComplete
PROPERTY NoHandlerPanics
CHECK_DEADLOCK FALSE
