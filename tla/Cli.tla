-------------------------------- MODULE Cli ---------------------------------
(***************************************************************************)
(* Runs of the command line program (main.go, cli.go) over one database    *)
(* file.  bolt locks the file, so at most one process has it open; a       *)
(* process may be killed between any two bolt transactions, and panics end *)
(* it as well.  Every step below is one bolt transaction, with what the    *)
(* process computes since the one before.  A transaction whose commit      *)
(* fails leaves the file as it was; AddBlock and the callers of StoreUTXO  *)
(* do not notice, every other writer panics (a Crash).                     *)
(*                                                                         *)
(* startnode is module Sync.  printblock, getlatestheight, listaddress and *)
(* createwallet do nothing to the database after it is opened: "readonly". *)
(***************************************************************************)
EXTENDS Ledger

CONSTANTS
    Miner,          \* the address coinbase transactions pay
    Payments,       \* what users send: records [key, to, amount]
    Addresses,      \* the sequence of addresses sendtx prints the balance of
    MaxHeight,      \* bound: no block is added above this height
    MaxFaults       \* bound: this many unnoticed commits fail

\* Run accepts no amount below 1.
ASSUME CliAssumption ==
    /\ MaxHeight \in Nat /\ MaxFaults \in Nat /\ Addresses # <<>>
    /\ \A pay \in Payments : pay.amount \in Nat \ {0}

VARIABLES
    blocks,         \* durable: hash |-> block; empty before the first run
    latest,         \* durable: the hash under "latest"
    chainstate,     \* durable: transaction ID |-> outputs; Nil without the bucket
    pc,             \* where the process is; "idle" if there is none
    cmd,            \* its command
    top,            \* its bc.topHash
    gob,            \* the order its gob encoder met the types in
    asks,           \* the addresses it still prints the balance of
    block,          \* the block AddBlock returned to it, or Nil
    failed,         \* one of its commits has failed
    faults          \* how many commits have failed

durable == <<blocks, latest, chainstate>>
process == <<cmd, top, gob, asks, block, failed>>
vars    == <<durable, pc, process, faults>>

Commands ==
    {[op |-> "addblock"], [op |-> "readonly"]}
      \cup {[op |-> "sendtx", pay |-> pay] : pay \in Payments}
      \cup {[op |-> "getbalance", address |-> Addresses[i]] : i \in DOMAIN Addresses}

ASSUME NilAssumption == Nil \notin Commands

\* The clock plays no part here: in one database the previous hash already
\* tells blocks apart.
Genesis == GenesisBlock(0, Miner)

\* What the walks of this process visit.
LocalChain == Chain(blocks, top)

-----------------------------------------------------------------------------

Init ==
    /\ blocks = <<>> /\ latest = Empty /\ chainstate = Nil
    /\ pc = "idle" /\ cmd = Nil /\ top = Empty /\ gob = Nil /\ asks = <<>>
    /\ block = Nil /\ failed = FALSE /\ faults = 0

Launch ==
    /\ pc = "idle" /\ pc' = "open"
    /\ \E c \in Commands : cmd' = c
    /\ UNCHANGED <<durable, top, gob, asks, block, failed, faults>>

\* The process ends: it returns, panics, or is killed.
Exit ==
    /\ pc' = "idle" /\ cmd' = Nil /\ top' = Empty /\ gob' = Nil /\ asks' = <<>>
    /\ block' = Nil /\ failed' = FALSE
    /\ UNCHANGED <<durable, faults>>

Crash == pc # "idle" /\ Exit

\* A commit fails.
CommitFails ==
    /\ faults < MaxFaults /\ faults' = faults + 1
    /\ failed' = TRUE
    /\ UNCHANGED durable

\* CreateBlockchain, its own transaction: the first run makes the genesis
\* block, and so encodes a Transaction before anything else.
CreateBlockchain ==
    /\ pc = "open" /\ pc' = "drop"
    /\ IF blocks = <<>>
       THEN /\ blocks' = Put(blocks, Genesis)
            /\ latest' = Genesis.hash /\ top' = Genesis.hash
            /\ gob' = "transactionFirst"
       ELSE /\ top' = latest /\ gob' = "outputsFirst"
            /\ UNCHANGED <<blocks, latest>>
    /\ UNCHANGED <<chainstate, cmd, asks, block, failed, faults>>

\* Where StoreUTXO returns to, with an error or without one.
StoreReturns == pc' = IF pc \in {"drop", "fill"} THEN "command" ELSE "balanceRead"

\* StoreUTXO, called by CreateBlockchain and by GetBalance: one transaction
\* deletes and creates the bucket ...
dropUTXO ==
    /\ pc \in {"drop", "balanceDrop"}
    /\ pc' = IF pc = "drop" THEN "fill" ELSE "balanceFill"
    /\ chainstate' = <<>>
    /\ UNCHANGED <<blocks, latest, process, faults>>

\* ... and without it StoreUTXO has walked over nothing and encoded nothing
\* (so a new block's Transaction will come first) ...
dropUTXOFails ==
    /\ pc \in {"drop", "balanceDrop"}
    /\ CommitFails /\ StoreReturns
    /\ gob' = IF pc = "drop" THEN "transactionFirst" ELSE gob
    /\ UNCHANGED <<cmd, top, asks, block>>

\* ... and, after a walk over the chain, another one fills it.
fillUTXO ==
    /\ pc \in {"fill", "balanceFill"}
    /\ ReachesGenesis(blocks, top)
    /\ chainstate' = FindAllUTXO(LocalChain)
    /\ StoreReturns
    /\ UNCHANGED <<blocks, latest, process, faults>>

fillUTXOFails ==
    /\ pc \in {"fill", "balanceFill"}
    /\ ReachesGenesis(blocks, top)
    /\ CommitFails /\ StoreReturns
    /\ UNCHANGED <<cmd, top, gob, asks, block>>

\* The walk starts from a block that is not stored.
fillUTXOPanics ==
    /\ pc \in {"fill", "balanceFill"}
    /\ ~ReachesGenesis(blocks, top)
    /\ Exit

-----------------------------------------------------------------------------

\* [mutant of NextBlock] The previous hash is the genesis block's.
SideBlock(txs) == NewBlock(Genesis.hash, 0, txs, blocks[latest].height + 1)

NextBlock(txs) == NewBlock(latest, 0, txs, blocks[latest].height + 1)

\* AddBlock: panics on an invalid transaction, otherwise one transaction
\* stores the block, moves "latest", and sets bc.topHash before it commits.
\* Update's error is dropped (the one looked at is View's), so a block that
\* is not stored is returned like one that is.
AddBlock(tx) ==
    LET newBlock == NextBlock(<<tx>>)
    IN  /\ VerifyTransaction(gob, tx, LocalChain)
        /\ blocks[latest].height < MaxHeight
        /\ \/ /\ blocks' = Put(blocks, newBlock)
              /\ latest' = newBlock.hash
              /\ UNCHANGED <<chainstate, failed, faults>>
           \/ CommitFails
        /\ top' = newBlock.hash
        /\ block' = newBlock

addBlock ==
    /\ pc = "command" /\ cmd.op = "addblock"
    /\ AddBlock(CoinBaseTx(gob, Miner))
    /\ pc' = "return"
    /\ UNCHANGED <<cmd, gob, asks>>

Created(pay) == CreateTransaction(gob, LocalChain, pay.key, pay.to, pay.amount)

\* SendTx up to AddBlock.
SendTx ==
    /\ pc = "command" /\ cmd.op = "sendtx"
    /\ \E tx \in Created(cmd.pay) : AddBlock(tx)
    /\ pc' = "update"
    /\ UNCHANGED <<cmd, gob, asks>>

\* Without the funds the transaction is nil, and one that fails Verify makes
\* AddBlock panic.  (Verify also fails on a signature whose halves differ in
\* length, which it cuts in the wrong place: that panic is a Crash.)
SendTxPanics ==
    /\ pc = "command" /\ cmd.op = "sendtx"
    /\ \/ Created(cmd.pay) = {}
       \/ \E tx \in Created(cmd.pay) : ~VerifyTransaction(gob, tx, LocalChain)
    /\ Exit

\* UpdateUTXO with the block AddBlock returned, or its panic.
updateUTXO ==
    LET updated == UpdateUTXO(chainstate, block)
    IN  /\ pc = "update"
        /\ IF updated = Nil THEN Exit
           ELSE /\ chainstate' = updated
                /\ asks' = Addresses
                /\ pc' = "balanceDrop"
                /\ UNCHANGED <<blocks, latest, cmd, top, gob, block, failed, faults>>

GetBalance ==
    /\ pc = "command" /\ cmd.op = "getbalance"
    /\ asks' = <<cmd.address>>
    /\ pc' = "balanceDrop"
    /\ UNCHANGED <<durable, cmd, top, gob, block, failed, faults>>

\* FindUTXOByPubkeyHash, which panics without a bucket, and the sum printed;
\* then the next address.
printBalance ==
    /\ pc = "balanceRead"
    /\ IF chainstate = Nil THEN Exit
       ELSE /\ asks' = Tail(asks)
            /\ pc' = IF Tail(asks) = <<>> THEN "return" ELSE "balanceDrop"
            /\ UNCHANGED <<durable, cmd, top, gob, block, failed, faults>>

\* The command is done, or needs nothing from the database.
return ==
    /\ \/ pc = "return"
       \/ pc = "command" /\ cmd.op = "readonly"
    /\ Exit

Next ==
    \/ Launch \/ CreateBlockchain
    \/ dropUTXO \/ dropUTXOFails \/ fillUTXO \/ fillUTXOFails \/ fillUTXOPanics
    \/ addBlock \/ SendTx \/ SendTxPanics \/ updateUTXO \/ GetBalance \/ printBalance
    \/ return \/ Crash

Spec == Init /\ [][Next]_vars

-----------------------------------------------------------------------------
(* Properties *)

StoredChain == Chain(blocks, latest)

Transfers == {tx \in Range(Visited(StoredChain)) : ~IsCoinbase(tx)}

\* Every variable has its type.
TypeOK ==
    /\ \A h \in DOMAIN blocks : blocks[h].hash = h /\ blocks[h].height \in 0..MaxHeight
    /\ blocks = <<>> => latest = Empty
    /\ blocks # <<>> => latest \in DOMAIN blocks
    /\ pc \in {"idle", "open", "drop", "fill", "command", "update", "balanceDrop",
               "balanceFill", "balanceRead", "return"}
    /\ pc = "idle" <=> cmd = Nil
    /\ pc # "idle" => cmd \in Commands
    /\ gob \in GobOrder \cup {Nil}
    /\ pc = "balanceRead" => asks # <<>>

\* A kill at any point, and a commit that fails unnoticed, leave one unbroken
\* chain: from "latest" to the genesis block, one height at a time, every
\* stored block on it.
ChainWhole ==
    blocks # <<>> =>
        /\ ReachesGenesis(blocks, latest)
        /\ {b.hash : b \in Range(StoredChain)} = DOMAIN blocks
        /\ \A i \in DOMAIN StoredChain : StoredChain[i].height = Len(StoredChain) - i

\* Every stored transfer spends outputs that an older block created, with the
\* key they are locked to.
OwnerSpends ==
    \A i \in DOMAIN StoredChain :
        LET older == SubSeq(StoredChain, i + 1, Len(StoredChain))
        IN  \A tx \in Range(StoredChain[i].txs) : ~IsCoinbase(tx) =>
              \A input \in Range(tx.in) :
                LET source == FindTxByID(older, input.txid)
                IN  /\ \E tx2 \in Range(Visited(older)) : tx2.id = input.txid
                    /\ input.vout + 1 \in DOMAIN source.out
                    /\ CanUnlockOutputWith(input, source.out[input.vout + 1].pkh)

\* A transfer pays out exactly what its inputs hold, in positive amounts.
TransferBalanced ==
    \A tx \in Transfers :
        /\ \A o \in Range(tx.out) : o.value > 0
        /\ SumValues(tx.out) =
             SumValues([i \in DOMAIN tx.in |->
                 FindTxByID(StoredChain, tx.in[i].txid).out[tx.in[i].vout + 1]])

\* The two walks over the chain agree: once the set of unspent outputs has
\* been rebuilt, what an address owns in it (from FindAllUTXO) is as many
\* outputs of each transaction ID as FindUnspendTransaction gives a transfer
\* of its key to start from.  (Which of these outputs the transfer takes is
\* another matter: NoDoubleSpend.)
SpendableMatchesBalance ==
    pc = "command" /\ ~failed =>
        \A i \in DOMAIN Addresses :
            LET owned == FindUTXOByPubkeyHash(chainstate, Addresses[i])
                found == FindUnspendTransaction(LocalChain, Addresses[i])
            IN  \A id \in DOMAIN owned \cup {found[k].id : k \in DOMAIN found} :
                    Len(OutputsAt(owned, id)) =
                    Cardinality({k \in DOMAIN found : found[k].id = id})

\* What the database promises, with the absent file read as one that holds
\* the genesis block.
OpenedBlocks == IF blocks = <<>> THEN Put(<<>>, Genesis) ELSE blocks
Stored   == INSTANCE BlockStore WITH
    Node <- {"file"},
    held <- [n \in {"file"} |-> Range(OpenedBlocks)],
    head <- [n \in {"file"} |-> IF blocks = <<>> THEN Genesis ELSE blocks[latest]]

BlockStoreSpec == Stored!Spec

-----------------------------------------------------------------------------
(* What comments of the code say, and the code does not do *)

\* "A TXinput refers to an unspent output of an earlier transaction"
\* (Transaction): no output is spent more often than it was created.
NoDoubleSpend ==
    LET transfers  == SelectSeq(Visited(StoredChain), LAMBDA tx : ~IsCoinbase(tx))
        Refs       == FlattenSeq([i \in DOMAIN transfers |-> transfers[i].in])
        spends(r)  == Len(SelectSeq(Refs, LAMBDA q : q.txid = r.txid /\ q.vout = r.vout))
        creates(r) == Len(SelectSeq(Visited(StoredChain), LAMBDA tx :
                        tx.id = r.txid /\ r.vout + 1 \in DOMAIN tx.out))
    IN  \A r \in Range(Refs) : spends(r) <= creates(r)

\* "Rebuild the signature the way sign does and compare" (Verify): what
\* CreateTransaction has signed passes.
SignedVerifies ==
    pc = "command" /\ cmd.op = "sendtx" =>
        \A tx \in Created(cmd.pay) : VerifyTransaction(gob, tx, LocalChain)

\* "Find all unspent outputs" (FindAllUTXO): as many as were created and not
\* spent.
AllUnspentFound ==
    pc = "command" =>
        LET txs     == Visited(LocalChain)
            created == FoldLeft(LAMBDA n, tx : n + Len(tx.out), 0, txs)
            spent   == FoldLeft(LAMBDA n, tx : n + IF IsCoinbase(tx) THEN 0 ELSE Len(tx.in),
                                0, txs)
        IN  FoldFunction(LAMBDA outs, n : Len(outs) + n, 0, chainstate) >= created - spent

\* "Add the outputs of the new block to the set of unspent outputs"
\* (UpdateUTXO), which SendTx then checks against balances from a fresh set:
\* the two are the same, also where no two transactions share an ID and no
\* output is spent twice.
UpdateMatchesRebuild ==
    LET txs == Visited(LocalChain)
    IN  /\ pc = "balanceDrop" /\ cmd.op = "sendtx" /\ asks = Addresses /\ ~failed
        /\ \A i, j \in DOMAIN txs : txs[i].id = txs[j].id => i = j
        /\ NoDoubleSpend
        => chainstate = FindAllUTXO(LocalChain)

=============================================================================
