\* Every sequence of commands up to a chain of five blocks.
CONSTANTS
    Nil = Nil
    COINBASEFEE = 2
    miner = miner
    alice = alice
    Miner <- MinerAddress
    Payments <- SmallPayments
    Addresses <- TwoAddresses
    MaxHeight = 4
    MaxFaults = 0
SPECIFICATION Spec
INVARIANT UpdateMatchesRebuild
