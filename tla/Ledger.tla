------------------------------- MODULE Ledger -------------------------------
(***************************************************************************)
(* Transactions, blocks and the unspent outputs they leave behind: the     *)
(* pure part of transaction.go, blockchain.go and storeUTXO.go.            *)
(*                                                                         *)
(* SHA-256 and RIPEMD-160 are taken to be injective, so a hash is          *)
(* represented by the value that was hashed.  Output indices count from 0  *)
(* as in the code, so output v of a transaction is out[v + 1].  A chain is *)
(* the sequence of blocks in the order BlockchainIterator visits them,     *)
(* newest first.                                                           *)
(***************************************************************************)
EXTENDS Integers, Sequences, SequencesExt, TLC

CONSTANTS
    COINBASEFEE,    \* the reward of a coinbase transaction (100 in the code)
    Nil             \* no result: an error returned, or a panic

ASSUME LedgerAssumption == COINBASEFEE \in Nat \ {0}

\* An empty byte slice.
Empty == <<>>

-----------------------------------------------------------------------------
(* Keys and transactions *)

\* The public key hash of a key; an address is its Base58 spelling.
PublickeyHash(pubkey) == <<"hash160", pubkey>>

(***************************************************************************)
(* The hash of a transaction is taken over its gob encoding, which also    *)
(* holds the type numbers gob hands out in the order a process first       *)
(* encodes its types.  `gob' is that order: a process that creates the     *)
(* genesis block encodes a Transaction first, every other one has encoded  *)
(* a TXoutputSlice (in StoreUTXO) before.                                  *)
(***************************************************************************)
GobOrder == {"transactionFirst", "outputsFirst"}

Hash(gob, tx) == <<gob, tx>>

\* The transaction whose ID is the hash of its unsigned content.
NewTransaction(gob, in, out) ==
    LET unnamed == [id |-> Empty, in |-> in, out |-> out]
    IN  [unnamed EXCEPT !.id = Hash(gob, unnamed)]

CoinbaseInput == [txid |-> Empty, vout |-> -1, sig |-> Empty, key |-> Empty]

CoinBaseTx(gob, to) ==
    NewTransaction(gob, <<CoinbaseInput>>, <<[value |-> COINBASEFEE, pkh |-> to]>>)

IsCoinbase(tx) ==
    Len(tx.in) = 1 /\ tx.in[1].txid = Empty /\ tx.in[1].vout = -1

\* [mutant of CanBeUnlockedWith] Anybody may spend an output.
UnlockedByAnybody(output, pkh) == TRUE

CanBeUnlockedWith(output, pkh) == output.pkh = pkh

\* [mutant of CanUnlockOutputWith] The key is compared unhashed.
KeyIsHash(input, pkh) == input.key = pkh

CanUnlockOutputWith(input, pkh) == PublickeyHash(input.key) = pkh

-----------------------------------------------------------------------------
(* Storing blocks and walking the chain *)

\* [mutant of Put] The key is the previous hash.
PutUnderPrevious(blocks, block) ==
    [h \in DOMAIN blocks \cup {block.prev} |->
        IF h = block.prev THEN block ELSE blocks[h]]

\* bucket.Put(block.Hash, block.Serialize()): a block is stored under its
\* hash, over whatever was there.
Put(blocks, block) ==
    [h \in DOMAIN blocks \cup {block.hash} |->
        IF h = block.hash THEN block ELSE blocks[h]]

\* The blocks met by following PrevBlockHash from `top': up to the first
\* block without a predecessor, or to one whose predecessor is not stored.
Chain(blocks, top) ==
    LET from[h \in DOMAIN blocks] ==
          IF blocks[h].prev \in DOMAIN blocks
          THEN <<blocks[h]>> \o from[blocks[h].prev]
          ELSE <<blocks[h]>>
    IN  IF top \in DOMAIN blocks THEN from[top] ELSE <<>>

\* Iterator().Next() decodes the block under the current hash and panics on
\* a missing one: a walk survives only if it can reach a genesis block.
ReachesGenesis(blocks, top) ==
    /\ top \in DOMAIN blocks
    /\ Last(Chain(blocks, top)).prev = Empty

\* The transactions of a chain in the order the walks visit them.
Visited(chain) == FlattenSeq([i \in DOMAIN chain |-> chain[i].txs])

\* FindTxByID returns the first transaction with that ID, or fails (Nil).
FindTxByID(chain, id) ==
    LET txs  == Visited(chain)
        hits == {i \in DOMAIN txs : txs[i].id = id}
    IN  IF hits = {} THEN Nil ELSE txs[CHOOSE i \in hits : \A j \in hits : i <= j]

\* What a walk records as spent by a transaction, inputs chosen by `mine'.
SpentBy(tx, mine(_)) ==
    IF IsCoinbase(tx) THEN {}
    ELSE {<<tx.in[i].txid, tx.in[i].vout>> : i \in {k \in DOMAIN tx.in : mine(tx.in[k])}}

\* The indices (from 0) of the outputs of `tx' not recorded as spent.
UnspentIndices(tx, spent) == {v \in 0..Len(tx.out) - 1 : <<tx.id, v>> \notin spent}

\* The outputs of a transaction, the spent ones included.
OutputsOf(tx) ==
    [i \in DOMAIN tx.out |-> [output |-> tx.out[i], txid |-> tx.id, vout |-> i - 1]]

OutputsAt(utxo, id) == IF id \in DOMAIN utxo THEN utxo[id] ELSE <<>>

-----------------------------------------------------------------------------
(* The set of unspent outputs *)

\* The loops that look for outputs append those that pass to a slice.
keepMember(S, kept, x) == IF x \in S THEN Append(kept, x) ELSE kept

KeepMembers(S, seq) == FoldLeft(LAMBDA kept, x : keepMember(S, kept, x), <<>>, seq)

\* One transaction of the walk in FindAllUTXO.  An output loses its index when
\* it is appended to those of its transaction's ID.
recordUnspent(acc, tx) ==
    LET left == UnspentIndices(tx, acc.spent)
        kept == KeepMembers({o \in Range(OutputsOf(tx)) : o.vout \in left}, OutputsOf(tx))
        outs == OutputsAt(acc.utxo, tx.id) \o [k \in DOMAIN kept |-> kept[k].output]
    IN  [utxo  |-> IF kept = <<>> THEN acc.utxo
                   ELSE [id \in DOMAIN acc.utxo \cup {tx.id} |->
                           IF id = tx.id THEN outs ELSE acc.utxo[id]],
         spent |-> acc.spent \cup SpentBy(tx, LAMBDA input : TRUE)]

\* Transaction ID |-> its unspent outputs.
FindAllUTXO(chain) ==
    FoldLeft(recordUnspent, [utxo |-> <<>>, spent |-> {}], Visited(chain)).utxo

\* One input of UpdateUTXO: drop the output at that index of the stored
\* slice.  Nil stands for the panic of decoding an absent entry.
SpendInput(utxo, input) ==
    IF utxo = Nil \/ input.txid \notin DOMAIN utxo THEN Nil
    ELSE LET outs == utxo[input.txid]
             rest == IF input.vout + 1 \in DOMAIN outs
                     THEN RemoveAt(outs, input.vout + 1) ELSE outs
         IN  IF rest = <<>>
             THEN [id \in DOMAIN utxo \ {input.txid} |-> utxo[id]]
             ELSE [utxo EXCEPT ![input.txid] = rest]

\* UpdateUTXO: Nil if it panics.  A coinbase transaction is passed over,
\* its outputs included.
UpdateUTXO(utxo, block) ==
    LET apply(acc, tx) ==
          IF acc = Nil \/ IsCoinbase(tx) THEN acc
          ELSE LET spent == FoldLeft(SpendInput, acc, tx.in)
               IN  IF spent = Nil THEN Nil ELSE (tx.id :> tx.out) @@ spent
    IN  FoldLeft(apply, utxo, block.txs)

\* FindUTXOByPubkeyHash: the stored outputs the hash unlocks, kept apart by
\* transaction ID.
FindUTXOByPubkeyHash(utxo, pkh) ==
    [id \in DOMAIN utxo |->
        KeepMembers({o \in Range(utxo[id]) : CanBeUnlockedWith(o, pkh)}, utxo[id])]

\* The sum of some outputs, as GetBalance prints it.
SumValues(outs) == FoldLeft(LAMBDA sum, o : sum + o.value, 0, outs)

-----------------------------------------------------------------------------
(* Choosing outputs and building a transfer *)

\* One transaction of the walk in FindUnspendTransaction: it is found once for
\* each of its outputs that is held to be unspent and can be unlocked.
visitTransaction(pkh, acc, tx) ==
    LET left == {v \in UnspentIndices(tx, acc.spent) : CanBeUnlockedWith(tx.out[v + 1], pkh)}
    IN  [found |-> acc.found \o [k \in 1..Cardinality(left) |-> tx],
         spent |-> acc.spent \cup SpentBy(tx, LAMBDA input : CanUnlockOutputWith(input, pkh))]

FindUnspendTransaction(chain, pkh) ==
    FoldLeft(LAMBDA acc, tx : visitTransaction(pkh, acc, tx),
             [found |-> <<>>, spent |-> {}], Visited(chain)).found

\* One output of the loops in FindSpendableOutputs: it is taken if it can be
\* unlocked and the sum has not reached the amount.
takeOutput(want, acc, out) ==
    IF CanBeUnlockedWith(out.output, want.pkh) /\ acc.sum < want.amount
    THEN [sum  |-> acc.sum + out.output.value,
          refs |-> Append(acc.refs, [txid |-> out.txid, vout |-> out.vout])]
    ELSE acc

FindSpendableOutputs(chain, pkh, amount) ==
    LET found == FindUnspendTransaction(chain, pkh)
        want  == [pkh |-> pkh, amount |-> amount]
    IN  FoldLeft(LAMBDA acc, out : takeOutput(want, acc, out), [sum |-> 0, refs |-> <<>>],
                 FlattenSeq([k \in DOMAIN found |-> OutputsOf(found[k])]))

\* The code keeps them in a Go map from transaction IDs to output indices,
\* which CreateTransaction then iterates in an arbitrary order: those of one
\* transaction stay together, in the order they were taken.
MapOrders(refs) ==
    LET n == Len(refs)
        grouped(p) == \A i, j \in 1..n : i < j /\ refs[p[i]].txid = refs[p[j]].txid =>
            p[i] < p[j] /\ \A k \in i..j : refs[p[k]].txid = refs[p[i]].txid
    IN  {[i \in 1..n |-> refs[p[i]]] : p \in {q \in Bijection(1..n, 1..n) : grouped(q)}}

(***************************************************************************)
(* The digests signed (sign) or checked (Verify), one per input.  Each     *)
(* round puts the public key hash of the referenced output into the        *)
(* trimmed copy and hashes it, ID included; only Verify wipes the key      *)
(* again before the next round.                                            *)
(***************************************************************************)
Digests(gob, tx, chain, wipe) ==
    LET trimmed == [tx EXCEPT !.in = [i \in DOMAIN tx.in |->
                      [tx.in[i] EXCEPT !.sig = Empty, !.key = Empty]]]
        keyAt(i) == FindTxByID(chain, tx.in[i].txid).out[tx.in[i].vout + 1].pkh
        copy[i \in 0..Len(tx.in)] ==
          IF i = 0 THEN trimmed
          ELSE LET before == IF wipe /\ i > 1
                             THEN [copy[i-1] EXCEPT !.in[i-1].key = Empty] ELSE copy[i-1]
                   keyed  == [before EXCEPT !.in[i].key = keyAt(i)]
               IN  [keyed EXCEPT !.id = Hash(gob, keyed)]
    IN  [i \in DOMAIN tx.in |-> copy[i].id]

SignTransaction(gob, tx, chain) ==
    LET digest == Digests(gob, tx, chain, FALSE)
    IN  [tx EXCEPT !.in = [i \in DOMAIN tx.in |->
                             [tx.in[i] EXCEPT !.sig = <<tx.in[i].key, digest[i]>>]]]

VerifyTransaction(gob, tx, chain) ==
    LET digest == Digests(gob, tx, chain, TRUE)
    IN  ~IsCoinbase(tx) =>
          \A i \in DOMAIN tx.in : tx.in[i].sig = <<tx.in[i].key, digest[i]>>

\* [mutant of Change] An output of value 0 is created as well.
ChangeAlways(sum, amount, from) == <<[value |-> sum - amount, pkh |-> from]>>

Change(sum, amount, from) ==
    IF sum > amount THEN <<[value |-> sum - amount, pkh |-> from]>> ELSE <<>>

\* The transactions CreateTransaction may return; none if the funds do not
\* suffice (the code returns nil).
CreateTransaction(gob, chain, key, to, amount) ==
    LET from   == PublickeyHash(key)
        chosen == FindSpendableOutputs(chain, from, amount)
        inputs(refs) == [i \in DOMAIN refs |->
            [txid |-> refs[i].txid, vout |-> refs[i].vout, sig |-> Empty, key |-> key]]
    IN  IF chosen.sum < amount THEN {}
        ELSE {SignTransaction(gob,
                NewTransaction(gob, inputs(refs),
                    <<[value |-> amount, pkh |-> to]>> \o Change(chosen.sum, amount, from)),
                chain) : refs \in MapOrders(chosen.refs)}

-----------------------------------------------------------------------------
(* Blocks *)

(***************************************************************************)
(* NewBlock.  Proof of work hashes the version, the previous hash, the     *)
(* (never set) Merkle root, the time in seconds, the bits and the nonce:   *)
(* neither the transactions nor the height.  The search for the nonce is   *)
(* deterministic, so previous hash and time determine the hash.            *)
(***************************************************************************)
NewBlock(prev, time, txs, height) ==
    [hash |-> <<prev, time>>, prev |-> prev, height |-> height, txs |-> txs]

GenesisBlock(time, miner) ==
    NewBlock(Empty, time, <<CoinBaseTx("transactionFirst", miner)>>, 0)

=============================================================================
