\* Every sequence of commands up to a chain of four blocks.
CONSTANTS
    Nil = Nil
    COINBASEFEE = 2
    miner = miner
    alice = alice
    Miner <- MinerAddress
    Payments <- SmallPayments
    Addresses <- TwoAddresses
    MaxHeight = 3
    MaxFaults = 0
SPECIFICATION Spec
INVARIANT SignedVerifies
