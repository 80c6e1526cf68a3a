\* Every sequence of commands up to a chain of six blocks, killed anywhere,
\* one of the commits that nobody checks failing.
CONSTANTS
    Nil = Nil
    COINBASEFEE = 2
    miner = miner
    alice = alice
    Miner <- MinerAddress
    Payments <- SmallPayments
    Addresses <- TwoAddresses
    MaxHeight = 5
    MaxFaults = 1
SPECIFICATION Spec
INVARIANTS
    TypeOK
    ChainWhole
    OwnerSpends
    TransferBalanced
    SpendableMatchesBalance
PROPERTY BlockStoreSpec
