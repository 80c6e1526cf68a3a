------------------------------- MODULE MCCli --------------------------------
(* One database file and two wallets for TLC. *)
EXTENDS Cli

CONSTANTS miner, alice

MinerAddress == PublickeyHash(miner)
AliceAddress == PublickeyHash(alice)

\* The amounts are chosen against a reward of 2: change, a transfer to
\* oneself, one that needs two outputs, and money sent on.
SmallPayments == {
    [key |-> miner, to |-> AliceAddress, amount |-> 1],
    [key |-> miner, to |-> MinerAddress, amount |-> 1],
    [key |-> miner, to |-> AliceAddress, amount |-> 3],
    [key |-> alice, to |-> MinerAddress, amount |-> 1]}

TwoAddresses == <<MinerAddress, AliceAddress>>

=============================================================================
