\* One message at a time, no kill.
CONSTANTS
    Nil = Nil
    COINBASEFEE = 2
    seed = seed
    bob = bob
    carol = carol
    miner = miner
    alice = alice
    Node = {seed, bob}
    Seed = seed
    Clock <- DistinctClock
    GenesisTime <- SharedGenesis
    Miner <- MinerAddress
    Transfers <- OneTransfer
    MaxHeight = 2
    MaxHandlers = 1
    MaxRuns = 2
    MaxCrashes = 0
SPECIFICATION Spec
INVARIANT SyncedUtxo
CHECK_DEADLOCK FALSE
