------------------------------- MODULE MCSync -------------------------------
(* Small groups of nodes for TLC. *)
EXTENDS Sync

CONSTANTS seed, bob, carol, miner, alice

\* Nobody mines in the same second as somebody else.
DistinctClock == (seed :> 1) @@ (bob :> 2) @@ (carol :> 3)

\* One genesis block on copied database files, or one for each node.
SharedGenesis == [n \in {seed, bob, carol} |-> 0]
OwnGenesis    == (seed :> 0) @@ (bob :> 10) @@ (carol :> 20)

MinerAddress == PublickeyHash(miner)

\* Only the seed's wallet file holds the miner's key.
NoTransfers == [n \in {seed, bob, carol} |-> {}]
OneTransfer ==
    [NoTransfers EXCEPT ![seed] =
        {[key |-> miner, to |-> PublickeyHash(alice), amount |-> 2]}]

=============================================================================
