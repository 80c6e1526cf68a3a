----------------------------- MODULE CliProofs ------------------------------
(***************************************************************************)
(* The database of the command line program, for any payments and any      *)
(* sequence of commands, kills and commits that fail: its blocks stay one  *)
(* chain (StoreInv), and the transfers in it each spend one older output   *)
(* (TransfersInv).                                                         *)
(***************************************************************************)
EXTENDS Cli, LedgerProofs

-----------------------------------------------------------------------------
(* The inductive invariant *)

\* The process between its bolt transactions: until it adds a block it has
\* the stored chain in hand, it knows its encoder's order, and prints balances
\* for some address.
ProcessInv ==
    /\ pc \in {"drop", "fill", "command"} => top = latest
    /\ pc \notin {"idle", "open"} => blocks # <<>> /\ gob \in GobOrder
    /\ pc \in {"balanceDrop", "balanceFill", "balanceRead"} => asks # <<>>

\* What addBlock relies on: a block is stored under the hash proof of work
\* gives it, on top of a stored block one lower or as the first, and none is
\* higher than the one under "latest".
BlocksInv ==
    /\ blocks = [h \in DOMAIN blocks |-> blocks[h]]
    /\ \A h \in DOMAIN blocks :
         /\ blocks[h].hash = h /\ h = <<blocks[h].prev, 0>>
         /\ blocks[h].height \in Nat
         /\ blocks[h].height <= blocks[latest].height
         /\ \/ blocks[h].prev = Empty
            \/ /\ blocks[h].prev \in DOMAIN blocks
               /\ blocks[h].height = blocks[blocks[h].prev].height + 1

\* The walk over the stored chain.
ChainInv ==
    /\ Walkable(blocks)
    /\ StoredChain \in Seq(Range(blocks))
    /\ blocks # <<>> => StoredChain[1] = blocks[latest]
    /\ ChainWhole

StoreInv == TypeOK /\ ProcessInv /\ BlocksInv /\ ChainInv

\* What a step does to the database: nothing to its blocks, the first opening,
\* or a new block on top.
Opens ==
    /\ blocks = <<>> /\ pc = "open"
    /\ blocks' = Put(<<>>, Genesis) /\ latest' = Genesis.hash

Extends(b) ==
    /\ pc = "command" /\ b.height <= MaxHeight
    /\ b.prev = latest /\ b.hash = <<latest, 0>>
    /\ b.height = blocks[latest].height + 1
    /\ blocks' = Put(blocks, b) /\ latest' = b.hash

\* A transaction that addblock or sendtx puts into a block, after Verify.
Accepted(tx) ==
    /\ \/ tx = CoinBaseTx(gob, Miner)
       \/ \E pay \in Payments : tx \in Created(pay)
    /\ VerifyTransaction(gob, tx, LocalChain)

BlocksStep ==
    \/ UNCHANGED <<blocks, latest>>
    \/ Opens
    \/ \E tx : Accepted(tx) /\ Extends(NextBlock(<<tx>>))

-----------------------------------------------------------------------------
(* What each step does to the blocks *)

\* Every step is one of the three.
LEMMA EveryStep == ASSUME TypeOK, ProcessInv, [Next]_vars PROVE BlocksStep
<1>1. CASE UNCHANGED vars
  BY <1>1 DEF vars, durable, BlocksStep
<1>2. CASE CreateBlockchain
  BY <1>2 DEF CreateBlockchain, BlocksStep, Opens
<1>3. ASSUME NEW tx, AddBlock(tx), pc = "command",
             tx = CoinBaseTx(gob, Miner) \/ \E pay \in Payments : tx \in Created(pay)
      PROVE  BlocksStep
  <2>1. CASE CommitFails
    BY <2>1 DEF CommitFails, durable, BlocksStep
  <2>2. CASE ~CommitFails
    <3>1. latest \in DOMAIN blocks
      BY <1>3 DEF ProcessInv, TypeOK
    <3>2. blocks[latest].height \in 0..MaxHeight /\ blocks[latest].height < MaxHeight
      BY <1>3, <3>1 DEF AddBlock, TypeOK
    <3>3. Extends(NextBlock(<<tx>>))
      BY <1>3, <2>2, <3>2, CliAssumption DEF AddBlock, NextBlock, NewBlock, Extends
    <3>4. VerifyTransaction(gob, tx, LocalChain)
      BY <1>3 DEF AddBlock
    <3> QED
      BY <1>3, <3>3, <3>4 DEF BlocksStep, Accepted
  <2> QED
    BY <2>1, <2>2
<1>4. CASE addBlock
  BY <1>3, <1>4 DEF addBlock
<1>5. CASE SendTx
  <2>1. PICK tx \in Created(cmd.pay) : AddBlock(tx)
    BY <1>5 DEF SendTx
  <2>2. cmd.pay \in Payments
    BY <1>5 DEF SendTx, TypeOK, Commands
  <2> QED
    BY <1>3, <1>5, <2>1, <2>2 DEF SendTx
<1>6. CASE Launch \/ dropUTXO \/ fillUTXO \/ updateUTXO \/ GetBalance \/ printBalance
  BY <1>6 DEF Launch, dropUTXO, fillUTXO, updateUTXO, GetBalance, printBalance, Exit, durable, BlocksStep
<1>7. CASE dropUTXOFails \/ fillUTXOFails
  BY <1>7 DEF dropUTXOFails, fillUTXOFails, CommitFails, durable, BlocksStep
<1>8. CASE fillUTXOPanics \/ SendTxPanics \/ return \/ Crash
  BY <1>8 DEF fillUTXOPanics, SendTxPanics, return, Crash, Exit, durable, BlocksStep
<1> QED
  BY <1>1, <1>2, <1>4, <1>5, <1>6, <1>7, <1>8 DEF Next

\* The first opening stores the genesis block and nothing else.
LEMMA OpensKeepsStore == ASSUME Opens PROVE BlocksInv' /\ ChainInv'
<1>1. /\ DOMAIN blocks' = {Genesis.hash} /\ blocks'[Genesis.hash] = Genesis
      /\ blocks' = [h \in {Genesis.hash} |-> Genesis] /\ latest' = Genesis.hash
  BY DEF Opens, Put
<1>2. Genesis.prev = Empty /\ Genesis.height = 0 /\ Genesis.hash = <<Empty, 0>>
  BY DEF Genesis, GenesisBlock, NewBlock
<1>3. Empty # Genesis.hash
  BY <1>2 DEF Empty
<1>4. BlocksInv'
  BY <1>1, <1>2 DEF BlocksInv
<1>5. Walkable(blocks') /\ Chain(blocks', Genesis.hash) = <<Genesis>>
  BY <1>2, <1>3, FirstBlockChain DEF Opens
<1>6. StoredChain' = <<Genesis>>
  BY <1>1, <1>5 DEF StoredChain
<1>7. Range(blocks') = {Genesis}
  BY <1>1 DEF Range
<1>8. ChainWhole'
  <2>1. Last(<<Genesis>>) = Genesis /\ DOMAIN <<Genesis>> = {1} /\ Len(<<Genesis>>) = 1
        /\ <<Genesis>>[1] = Genesis
    BY DEF Last
  <2>2. Range(<<Genesis>>) = {Genesis}
    BY <2>1 DEF Range
  <2> QED
    BY <1>1, <1>2, <1>5, <1>6, <2>1, <2>2 DEF ChainWhole, ReachesGenesis
<1> QED
  BY <1>1, <1>4, <1>5, <1>6, <1>7, <1>8 DEF ChainInv

\* A block that AddBlock makes is a new one, and no stored block refers to it.
LEMMA NewHashIsNew ==
  ASSUME BlocksInv, latest \in DOMAIN blocks
  PROVE  /\ <<latest, 0>> \notin DOMAIN blocks
         /\ latest # <<latest, 0>>
         /\ \A h \in DOMAIN blocks : blocks[h].prev # <<latest, 0>>
         /\ latest # Empty
<1>1. latest # Empty
  BY DEF BlocksInv, Empty
<1>2. <<latest, 0>> \notin DOMAIN blocks
  <2> SUFFICES ASSUME <<latest, 0>> \in DOMAIN blocks PROVE FALSE
    OBVIOUS
  <2> DEFINE b == blocks[<<latest, 0>>]
  <2>1. <<b.prev, 0>> = <<latest, 0>>
    BY DEF BlocksInv
  <2>2. b.prev = latest
    BY <2>1
  <2>3. b.height = blocks[latest].height + 1
    BY <1>1, <2>2 DEF BlocksInv
  <2>4. b.height <= blocks[latest].height /\ blocks[latest].height \in Nat
    BY DEF BlocksInv
  <2> QED
    BY <2>3, <2>4
<1>3. \A h \in DOMAIN blocks : blocks[h].prev # <<latest, 0>>
  BY <1>2 DEF BlocksInv, Empty
<1> QED
  BY <1>1, <1>2, <1>3

\* AddBlock puts its block in front of the stored chain.
LEMMA ExtendsChain ==
  ASSUME BlocksInv, Walkable(blocks), latest \in DOMAIN blocks, NEW b, Extends(b)
  PROVE  /\ b.hash \notin DOMAIN blocks
         /\ DOMAIN blocks' = DOMAIN blocks \cup {b.hash}
         /\ blocks'[b.hash] = b
         /\ \A h \in DOMAIN blocks : blocks'[h] = blocks[h]
         /\ Range(blocks') = Range(blocks) \cup {b}
         /\ Walkable(blocks')
         /\ StoredChain' = <<b>> \o StoredChain
<1>1. b.hash = <<latest, 0>> /\ b.prev = latest /\ blocks' = Put(blocks, b) /\ latest' = b.hash
  BY DEF Extends
<1>2. /\ b.hash \notin DOMAIN blocks /\ b.prev # b.hash
      /\ \A h \in DOMAIN blocks : blocks[h].prev # b.hash
  BY <1>1, NewHashIsNew
<1>3. /\ DOMAIN blocks' = DOMAIN blocks \cup {b.hash}
      /\ blocks'[b.hash] = b
      /\ \A h \in DOMAIN blocks : blocks'[h] = blocks[h]
  BY <1>1, <1>2 DEF Put
<1>4. Range(blocks') = Range(blocks) \cup {b}
  BY <1>2, <1>3 DEF Range
<1>5. Walkable(blocks') /\ Chain(blocks', b.hash) = <<b>> \o Chain(blocks, latest)
  BY <1>1, <1>2, PutExtendsChain
<1> QED
  BY <1>1, <1>2, <1>3, <1>4, <1>5 DEF StoredChain

\* The new block keeps the stored blocks in order and the chain whole.
LEMMA ExtendsKeepsStore ==
  ASSUME BlocksInv, ChainInv, latest \in DOMAIN blocks, NEW b, Extends(b)
  PROVE  BlocksInv' /\ ChainInv'
<1>1. /\ b.hash = <<latest, 0>> /\ b.prev = latest /\ latest' = b.hash
      /\ b.height = blocks[latest].height + 1 /\ blocks' = Put(blocks, b)
  BY DEF Extends
<1>2. /\ b.hash \notin DOMAIN blocks
      /\ DOMAIN blocks' = DOMAIN blocks \cup {b.hash}
      /\ blocks'[b.hash] = b
      /\ \A h \in DOMAIN blocks : blocks'[h] = blocks[h]
      /\ Range(blocks') = Range(blocks) \cup {b}
      /\ Walkable(blocks')
      /\ StoredChain' = <<b>> \o StoredChain
  BY ExtendsChain DEF ChainInv
<1>3. blocks[latest].height \in Nat
  BY DEF BlocksInv
<1>4. BlocksInv'
  <2>1. blocks' = [h \in DOMAIN blocks' |-> blocks'[h]]
    BY <1>1 DEF Put
  <2>2. \A h \in DOMAIN blocks :
          /\ blocks[h].hash = h /\ h = <<blocks[h].prev, 0>>
          /\ blocks[h].height \in Nat
          /\ blocks[h].height <= b.height
          /\ \/ blocks[h].prev = Empty
             \/ /\ blocks[h].prev \in DOMAIN blocks
                /\ blocks[h].height = blocks[blocks[h].prev].height + 1
    BY <1>1, <1>3 DEF BlocksInv
  <2>3. b.height \in Nat /\ b.height <= b.height
    BY <1>1, <1>3
  <2> QED
    <3>1. blocks'[latest'].height = b.height
      BY <1>1, <1>2
    <3>2. ASSUME NEW h \in DOMAIN blocks
          PROVE  /\ blocks'[h].hash = h /\ h = <<blocks'[h].prev, 0>>
                 /\ blocks'[h].height \in Nat
                 /\ blocks'[h].height <= b.height
                 /\ \/ blocks'[h].prev = Empty
                    \/ /\ blocks'[h].prev \in DOMAIN blocks'
                       /\ blocks'[h].height = blocks'[blocks'[h].prev].height + 1
      BY <1>2, <2>2
    <3>3. /\ blocks'[b.hash].hash = b.hash /\ b.hash = <<blocks'[b.hash].prev, 0>>
          /\ blocks'[b.hash].height \in Nat
          /\ blocks'[b.hash].height <= b.height
          /\ blocks'[b.hash].prev \in DOMAIN blocks'
          /\ blocks'[b.hash].height = blocks'[blocks'[b.hash].prev].height + 1
      BY <1>1, <1>2, <2>3
    <3> QED
      BY <1>2, <2>1, <3>1, <3>2, <3>3 DEF BlocksInv
<1>5. /\ StoredChain \in Seq(Range(blocks)) /\ Len(StoredChain) \in Nat
      /\ DOMAIN StoredChain = 1..Len(StoredChain)
  BY DEF ChainInv
<1>6. StoredChain' \in Seq(Range(blocks'))
  <2>1. StoredChain \in Seq(Range(blocks')) /\ <<b>> \in Seq(Range(blocks'))
    BY <1>2, <1>5, SeqMonotonic
  <2> QED
    BY <1>2, <2>1
<1>7. /\ Len(StoredChain') = Len(StoredChain) + 1
      /\ DOMAIN StoredChain' = 1..Len(StoredChain')
      /\ StoredChain'[1] = b
      /\ \A i \in 1..Len(StoredChain) : StoredChain'[i + 1] = StoredChain[i]
  BY <1>2, <1>5
<1>8. blocks # <<>>
  OBVIOUS
<1>9. ChainWhole'
  <2>1. /\ Last(StoredChain).prev = Empty
        /\ {c.hash : c \in Range(StoredChain)} = DOMAIN blocks
        /\ \A i \in DOMAIN StoredChain : StoredChain[i].height = Len(StoredChain) - i
    BY <1>8 DEF ChainWhole, ReachesGenesis, StoredChain, ChainInv
  <2>2. Len(StoredChain) > 0
    <3>1. \E c \in Range(StoredChain) : c.hash = latest
      BY <2>1
    <3> QED
      BY <1>5, <3>1 DEF Range
  <2>3. Last(StoredChain').prev = Empty
    BY <1>5, <1>7, <2>1, <2>2 DEF Last
  <2>4. Range(StoredChain') = {b} \cup Range(StoredChain)
    <3>1. \A i \in DOMAIN StoredChain' : i = 1 \/ (i - 1 \in 1..Len(StoredChain) /\ StoredChain'[i] = StoredChain[i - 1])
      BY <1>5, <1>7
    <3>2. 1 \in DOMAIN StoredChain' /\ \A i \in DOMAIN StoredChain : i + 1 \in DOMAIN StoredChain'
      BY <1>5, <1>7
    <3>3. \A c \in Range(StoredChain') : c \in {b} \cup Range(StoredChain)
      BY <1>5, <1>7, <3>1 DEF Range
    <3>4. \A c \in {b} \cup Range(StoredChain) : c \in Range(StoredChain')
      BY <1>5, <1>7, <3>2 DEF Range
    <3> QED
      BY <3>3, <3>4
  <2>5. {c.hash : c \in Range(StoredChain')} = DOMAIN blocks'
    BY <1>2, <2>1, <2>4
  <2>6. StoredChain[1].height = Len(StoredChain) - 1 /\ blocks[latest].height = Len(StoredChain) - 1
    BY <1>5, <1>8, <2>1, <2>2 DEF ChainInv
  <2>7. \A i \in DOMAIN StoredChain' : StoredChain'[i].height = Len(StoredChain') - i
    <3> TAKE i \in DOMAIN StoredChain'
    <3>1. CASE i = 1
      BY <1>1, <1>5, <1>7, <2>6, <3>1
    <3>2. CASE i # 1
      <4>1. i - 1 \in 1..Len(StoredChain) /\ StoredChain'[i] = StoredChain[i - 1]
        BY <1>5, <1>7, <3>2
      <4> QED
        BY <1>5, <1>7, <2>1, <4>1
    <3> QED
      BY <3>1, <3>2
  <2> QED
    BY <1>1, <1>2, <2>3, <2>5, <2>7 DEF ChainWhole, ReachesGenesis, StoredChain
<1> QED
  BY <1>1, <1>2, <1>4, <1>6, <1>7, <1>9 DEF ChainInv

\* Whatever a step does to the blocks, they stay one whole chain.
LEMMA StepKeepsStore ==
  ASSUME TypeOK, BlocksInv, ChainInv, pc = "command" => blocks # <<>>, BlocksStep
  PROVE  BlocksInv' /\ ChainInv'
<1>1. CASE UNCHANGED <<blocks, latest>>
  <2>1. BlocksInv' <=> BlocksInv
    BY <1>1 DEF BlocksInv
  <2>2. StoredChain' = StoredChain
    BY <1>1 DEF StoredChain
  <2>3. ChainWhole' <=> ChainWhole
    BY <1>1, <2>2 DEF ChainWhole
  <2>4. ChainInv' <=> ChainInv
    BY <1>1, <2>2, <2>3 DEF ChainInv
  <2> QED
    BY <2>1, <2>4
<1>2. CASE Opens
  BY <1>2, OpensKeepsStore
<1>3. CASE \E tx : Accepted(tx) /\ Extends(NextBlock(<<tx>>))
  <2>1. latest \in DOMAIN blocks
    BY <1>3 DEF Extends, TypeOK
  <2> QED
    BY <1>3, <2>1, ExtendsKeepsStore
<1> QED
  BY <1>1, <1>2, <1>3 DEF BlocksStep

-----------------------------------------------------------------------------
(* What each step does to the process *)

\* The part of the types that is about the process.
ProcessTypes ==
    /\ pc \in {"idle", "open", "drop", "fill", "command", "update", "balanceDrop",
               "balanceFill", "balanceRead", "return"}
    /\ pc = "idle" <=> cmd = Nil
    /\ pc # "idle" => cmd \in Commands
    /\ gob \in GobOrder \cup {Nil}
    /\ pc = "balanceRead" => asks # <<>>

\* The part that is about the blocks.
BlockTypes ==
    /\ \A h \in DOMAIN blocks : blocks[h].hash = h /\ blocks[h].height \in 0..MaxHeight
    /\ blocks = <<>> => latest = Empty
    /\ blocks # <<>> => latest \in DOMAIN blocks

\* A process that ends has nothing to keep.
LEMMA ExitEnds == Exit => ProcessTypes' /\ ProcessInv'
  BY NilAssumption DEF Exit, ProcessTypes, ProcessInv

\* Every step keeps the process in order.
LEMMA StepKeepsProcess ==
  ASSUME ProcessTypes, ProcessInv, [Next]_vars
  PROVE  ProcessTypes' /\ ProcessInv'
<1>1. Addresses # <<>>
  BY CliAssumption
<1> USE NilAssumption, <1>1 DEF ProcessTypes, ProcessInv, GobOrder
<1>2. CASE UNCHANGED vars
  BY <1>2 DEF vars, durable, process
<1>3. CASE Launch
  BY <1>3 DEF Launch, durable
<1>4. CASE CreateBlockchain
  <2>1. blocks' # <<>>
    <3>1. CASE blocks = <<>>
      BY <1>4, <3>1, PutProperties DEF CreateBlockchain
    <3>2. CASE blocks # <<>>
      BY <1>4, <3>2 DEF CreateBlockchain
    <3> QED
      BY <3>1, <3>2
  <2> QED
    BY <1>4, <2>1 DEF CreateBlockchain
<1>5. CASE dropUTXO \/ fillUTXO
  BY <1>5 DEF dropUTXO, fillUTXO, StoreReturns, process
<1>6. CASE dropUTXOFails \/ fillUTXOFails
  BY <1>6 DEF dropUTXOFails, fillUTXOFails, CommitFails, StoreReturns, durable
<1>7. ASSUME NEW tx, AddBlock(tx), blocks # <<>> PROVE blocks' # <<>>
  BY <1>7, PutProperties DEF AddBlock, CommitFails, durable
<1>8. CASE addBlock
  BY <1>7, <1>8 DEF addBlock
<1>9. CASE SendTx
  BY <1>7, <1>9 DEF SendTx
<1>10. CASE updateUTXO \/ printBalance
  <2>1. CASE Exit
    BY <2>1, ExitEnds
  <2>2. CASE ~Exit
    BY <1>10, <2>2 DEF updateUTXO, printBalance, durable
  <2> QED
    BY <2>1, <2>2
<1>11. CASE GetBalance
  BY <1>11 DEF GetBalance, durable
<1>12. CASE fillUTXOPanics \/ SendTxPanics \/ return \/ Crash
  BY <1>12, ExitEnds DEF fillUTXOPanics, SendTxPanics, return, Crash
<1> QED
  BY <1>2, <1>3, <1>4, <1>5, <1>6, <1>8, <1>9, <1>10, <1>11, <1>12 DEF Next

\* Every step keeps the blocks in their bounds.
LEMMA StepKeepsBlockTypes ==
  ASSUME BlockTypes, pc = "command" => blocks # <<>>, BlocksStep
  PROVE  BlockTypes'
<1>1. CASE UNCHANGED <<blocks, latest>>
  BY <1>1 DEF BlockTypes
<1>2. CASE Opens
  <2>1. /\ DOMAIN blocks' = {Genesis.hash} /\ blocks'[Genesis.hash] = Genesis
        /\ latest' = Genesis.hash /\ Genesis.height = 0
    BY <1>2 DEF Opens, Put, Genesis, GenesisBlock, NewBlock
  <2>2. blocks' # <<>>
    BY <1>2, PutProperties DEF Opens
  <2> QED
    BY <2>1, <2>2, CliAssumption DEF BlockTypes
<1>3. ASSUME NEW b, Extends(b) PROVE BlockTypes'
  <2>1. blocks[latest].height \in Nat /\ b.height = blocks[latest].height + 1 /\ b.height <= MaxHeight
    BY <1>3, CliAssumption DEF BlockTypes, Extends
  <2>2. b.height \in 0..MaxHeight
    BY <2>1, CliAssumption
  <2>3. /\ latest' = b.hash /\ DOMAIN blocks' = DOMAIN blocks \cup {b.hash}
        /\ \A h \in DOMAIN blocks' : blocks'[h] = IF h = b.hash THEN b ELSE blocks[h]
    BY <1>3 DEF Extends, Put
  <2>4. blocks' # <<>>
    BY <1>3, PutProperties DEF Extends
  <2> QED
    BY <2>2, <2>3, <2>4 DEF BlockTypes
<1> QED
  BY <1>1, <1>2, <1>3 DEF BlocksStep

-----------------------------------------------------------------------------
(* The theorems *)

LEMMA TypesInParts == TypeOK <=> BlockTypes /\ ProcessTypes
  BY DEF TypeOK, BlockTypes, ProcessTypes

\* The invariant holds in every reachable state.
LEMMA StoreInvHolds == Spec => []StoreInv
<1>1. Init => StoreInv
  <2> SUFFICES ASSUME Init PROVE StoreInv
    OBVIOUS
  <2>1. TypeOK
    BY NilAssumption DEF Init, TypeOK, GobOrder
  <2>2. ProcessInv
    BY DEF Init, ProcessInv
  <2>3. BlocksInv
    BY DEF Init, BlocksInv
  <2>4. StoredChain = <<>>
    BY DEF Init, StoredChain, Chain
  <2>5. ChainInv
    BY <2>4, NothingWalkable DEF Init, ChainInv, ChainWhole
  <2> QED
    BY <2>1, <2>2, <2>3, <2>5 DEF StoreInv
<1>2. StoreInv /\ [Next]_vars => StoreInv'
  <2> SUFFICES ASSUME StoreInv, [Next]_vars PROVE StoreInv'
    OBVIOUS
  <2>1. pc = "command" => blocks # <<>>
    BY DEF StoreInv, ProcessInv
  <2>2. BlocksStep
    BY EveryStep DEF StoreInv
  <2>3. BlocksInv' /\ ChainInv'
    BY <2>1, <2>2, StepKeepsStore DEF StoreInv
  <2>4. ProcessTypes' /\ ProcessInv'
    BY StepKeepsProcess, TypesInParts DEF StoreInv
  <2>5. BlockTypes'
    BY <2>1, <2>2, StepKeepsBlockTypes, TypesInParts DEF StoreInv
  <2>6. TypeOK'
    BY <2>4, <2>5, TypesInParts DEF TypeOK, BlockTypes, ProcessTypes
  <2> QED
    BY <2>3, <2>4, <2>6 DEF StoreInv
<1> QED
  BY <1>1, <1>2, PTL DEF Spec

\* Every variable keeps its type.
THEOREM TypeCorrect == Spec => []TypeOK
<1>1. StoreInv => TypeOK
  BY DEF StoreInv
<1> QED
  BY <1>1, StoreInvHolds, PTL

\* Wherever a process is killed and whichever commit fails, the stored blocks
\* are one unbroken chain.
THEOREM ChainWholeHolds == Spec => []ChainWhole
<1>1. StoreInv => ChainWhole
  BY DEF StoreInv, ChainInv
<1> QED
  BY <1>1, StoreInvHolds, PTL

-----------------------------------------------------------------------------
(* The database is a block store *)

held == [n \in {"file"} |-> Range(OpenedBlocks)]
head == [n \in {"file"} |-> IF blocks = <<>> THEN Genesis ELSE blocks[latest]]

\* The database of the command line program does what BlockStore allows, with
\* one node: it starts from a genesis block and every block is added on top
\* of the one before, never changed or lost.
THEOREM CliImplementsBlockStore == Spec => BlockStoreSpec
<1>1. Init => Stored!Init
  <2> SUFFICES ASSUME Init PROVE Stored!Init
    OBVIOUS
  <2>1. Range(OpenedBlocks) = {Genesis}
    BY DEF Init, OpenedBlocks, Put, Range
  <2>2. Genesis.prev = Empty /\ Genesis.height = 0
    BY DEF Genesis, GenesisBlock, NewBlock
  <2> QED
    BY <2>1, <2>2 DEF Init, Stored!Init
<1>2. ASSUME StoreInv, StoreInv', [Next]_vars PROVE [Stored!Next]_(Stored!vars)
  <2>1. BlocksStep
    BY <1>2, EveryStep DEF StoreInv
  <2>2. CASE UNCHANGED <<blocks, latest>>
    BY <2>2 DEF Stored!vars, OpenedBlocks
  <2>3. CASE Opens
    <3>1. blocks' = Put(<<>>, Genesis) /\ latest' = Genesis.hash /\ blocks = <<>>
      BY <2>3 DEF Opens
    <3>2. blocks'[latest'] = Genesis /\ blocks' # <<>>
      BY <3>1 DEF Put
    <3>3. OpenedBlocks' = OpenedBlocks
      BY <3>1, <3>2 DEF OpenedBlocks
    <3> QED
      BY <3>1, <3>2, <3>3 DEF Stored!vars
  <2>4. ASSUME NEW b, Extends(b) PROVE Stored!Next
    <3>1. /\ blocks # <<>> /\ latest \in DOMAIN blocks
          /\ blocks[latest].hash = latest
      BY <1>2, <2>4 DEF StoreInv, ProcessInv, TypeOK, Extends
    <3>2. /\ b.hash \notin DOMAIN blocks
          /\ blocks'[b.hash] = b
          /\ Range(blocks') = Range(blocks) \cup {b}
      BY <1>2, <2>4, <3>1, ExtendsChain DEF StoreInv, ChainInv
    <3>3. /\ latest' = b.hash /\ b.prev = latest
          /\ b.height = blocks[latest].height + 1
      BY <2>4 DEF Extends
    <3>4. \A c \in Range(blocks) : c.hash # b.hash
      BY <1>2, <3>2 DEF StoreInv, TypeOK, Range
    <3>5. /\ OpenedBlocks = blocks /\ OpenedBlocks' = blocks' /\ blocks' # <<>>
      BY <2>4, <3>1, PutProperties DEF OpenedBlocks, Extends
    <3>6. /\ held = [n \in {"file"} |-> Range(blocks)]
          /\ held' = [n \in {"file"} |-> Range(blocks) \cup {b}]
          /\ head = [n \in {"file"} |-> blocks[latest]]
          /\ head' = [n \in {"file"} |-> b]
      BY <3>1, <3>2, <3>3, <3>5 DEF held, head
    <3>7. held' = [held EXCEPT !["file"] = @ \cup {b}] /\ head' = [head EXCEPT !["file"] = b]
      BY <3>6
    <3>8. /\ b \in held'["file"]
          /\ b.prev = head["file"].hash /\ b.height = head["file"].height + 1
          /\ \A m \in {"file"} : \A c \in held[m] : c.hash # b.hash
      BY <3>1, <3>3, <3>4, <3>6
    <3>9. Stored!Extend("file")
      BY <3>7, <3>8 DEF Stored!Extend, held, head
    <3> QED
      BY <3>9 DEF Stored!Next
  <2> QED
    BY <2>1, <2>2, <2>3, <2>4 DEF BlocksStep
<1> QED
  BY <1>1, <1>2, StoreInvHolds, PTL DEF Spec, BlockStoreSpec, Stored!Spec

-----------------------------------------------------------------------------
(* What the stored transfers spend *)

\* The transaction of a stored block.
TxAt(i) == StoredChain[i].txs[1]

\* A transfer has one input, which names an output of an older block, locked
\* to its key, and pays out what that output holds.
PaysFromOlder(i) ==
    LET tx    == TxAt(i)
        input == tx.in[1]
    IN  /\ tx.in = <<input>>
        /\ \E j \in DOMAIN StoredChain :
             /\ j > i
             /\ Holds(TxAt(j), input, PublickeyHash(input.key))
             /\ SumValues(tx.out) = TxAt(j).out[input.vout + 1].value

TransfersInv ==
    \A i \in DOMAIN StoredChain :
        /\ Single(StoredChain[i])
        /\ WellFormed(TxAt(i))
        /\ ~IsCoinbase(TxAt(i)) => PaysFromOlder(i)

\* Every stored block has one transaction, so the walks visit those.
LEMMA StoredVisited ==
  ASSUME ChainInv, TransfersInv
  PROVE  /\ Len(StoredChain) \in Nat /\ DOMAIN StoredChain = 1..Len(StoredChain)
         /\ Visited(StoredChain) \in Seq(Range(Visited(StoredChain)))
         /\ \A i \in DOMAIN StoredChain : TxAt(i) \in Range(Visited(StoredChain))
         /\ \A tx \in Range(Visited(StoredChain)) : \E i \in DOMAIN StoredChain : tx = TxAt(i)
         /\ \A tx \in Range(Visited(StoredChain)) : WellFormed(tx)
<1>1. StoredChain \in Seq(Range(blocks)) /\ \A i \in DOMAIN StoredChain : Single(StoredChain[i])
  BY DEF ChainInv, TransfersInv
<1>2. /\ Visited(StoredChain) = [i \in DOMAIN StoredChain |-> TxAt(i)]
      /\ Visited(StoredChain) \in Seq(Range(Visited(StoredChain)))
  BY <1>1, VisitedSingles DEF TxAt
<1>3. \A tx \in Range(Visited(StoredChain)) : \E i \in DOMAIN StoredChain : tx = TxAt(i)
  BY <1>2 DEF Range
<1>4. \A i \in DOMAIN StoredChain : TxAt(i) \in Range(Visited(StoredChain))
  BY <1>2 DEF Range
<1> QED
  BY <1>1, <1>2, <1>3, <1>4 DEF TransfersInv

\* A coinbase transaction pays a positive amount.
LEMMA CoinbaseWellFormed ==
  ASSUME NEW g, NEW to
  PROVE  WellFormed(CoinBaseTx(g, to)) /\ IsCoinbase(CoinBaseTx(g, to))
<1> DEFINE tx  == CoinBaseTx(g, to)
           pays == [value |-> COINBASEFEE, pkh |-> to]
<1>1. /\ tx.id[2].out = <<pays>> /\ tx.out = <<pays>> /\ tx.in = <<CoinbaseInput>>
  BY DEF CoinBaseTx, NewTransaction, Hash
<1>2. pays.value \in Nat \ {0}
  BY LedgerAssumption
<1> HIDE DEF tx, pays
<1>3. Range(<<pays>>) = {pays} /\ <<pays>> \in Seq({pays})
  BY DEF Range
<1>4. WellFormed(tx)
  BY <1>1, <1>2, <1>3 DEF WellFormed
<1>5. IsCoinbase(tx)
  BY <1>1 DEF IsCoinbase, CoinbaseInput
<1> QED
  BY <1>4, <1>5 DEF tx

\* What AddBlock accepts is a coinbase transaction, or spends one output of
\* the stored chain.
LEMMA AcceptedPays ==
  ASSUME ProcessInv, ChainInv, TransfersInv, pc = "command", NEW tx, Accepted(tx)
  PROVE  /\ WellFormed(tx)
         /\ ~IsCoinbase(tx) =>
              /\ tx.in = <<tx.in[1]>>
              /\ \E j \in DOMAIN StoredChain :
                   /\ Holds(TxAt(j), tx.in[1], PublickeyHash(tx.in[1].key))
                   /\ SumValues(tx.out) = TxAt(j).out[tx.in[1].vout + 1].value
<1>1. CASE tx = CoinBaseTx(gob, Miner)
  BY <1>1, CoinbaseWellFormed
<1>2. ASSUME NEW pay \in Payments, tx \in Created(pay)
      PROVE  /\ WellFormed(tx)
             /\ tx.in = <<tx.in[1]>>
             /\ \E j \in DOMAIN StoredChain :
                  /\ Holds(TxAt(j), tx.in[1], PublickeyHash(tx.in[1].key))
                  /\ SumValues(tx.out) = TxAt(j).out[tx.in[1].vout + 1].value
  <2> DEFINE T == Range(Visited(StoredChain))
  <2>1. LocalChain = StoredChain
    BY DEF ProcessInv, LocalChain, StoredChain
  <2>2. tx \in CreateTransaction(gob, StoredChain, pay.key, pay.to, pay.amount)
    BY <1>2, <2>1 DEF Created
  <2>3. VerifyTransaction(gob, tx, StoredChain)
    BY <2>1 DEF Accepted
  <2>4. pay.amount \in Nat \ {0}
    BY CliAssumption
  <2>5. /\ Visited(StoredChain) \in Seq(T) /\ \A s \in T : WellFormed(s)
        /\ \A s \in T : \E i \in DOMAIN StoredChain : s = TxAt(i)
    BY StoredVisited
  <2> HIDE DEF T
  <2>6. IsTransaction(tx) /\ WellFormed(tx) /\ SpendsFrom(tx, T, pay.key)
    BY <2>2, <2>4, <2>5, CreatedSpends
  <2>7. Range(Visited(StoredChain)) = T
    BY DEF T
  <2>8. Len(tx.in) = 1
    BY <2>2, <2>3, <2>4, <2>5, <2>7, VerifiedHasOneInput
  <2>9. tx.in = <<tx.in[1]>> /\ tx.in[1] \in Range(tx.in)
    <3>1. tx.in \in Seq(Range(tx.in))
      BY <2>6 DEF IsTransaction
    <3> QED
      BY <2>8, <3>1
  <2>10. tx.in[1].key = pay.key
    BY <2>6, <2>9 DEF SpendsFrom
  <2>11. PICK source \in T : Holds(source, tx.in[1], PublickeyHash(pay.key))
    BY <2>6, <2>9 DEF SpendsFrom
  <2>12. SumValues(tx.out) = source.out[tx.in[1].vout + 1].value
    BY <2>6, <2>8, <2>11 DEF SpendsFrom, Holds
  <2>13. PICK j \in DOMAIN StoredChain : source = TxAt(j)
    BY <2>5
  <2> QED
    BY <2>6, <2>9, <2>10, <2>11, <2>12, <2>13
<1> QED
  BY <1>1, <1>2 DEF Accepted

\* A new block in front leaves the transfers of the others where they were.
LEMMA StepKeepsTransfers ==
  ASSUME TypeOK, ProcessInv, BlocksInv, ChainInv, TransfersInv, BlocksStep
  PROVE  TransfersInv'
<1>1. CASE UNCHANGED <<blocks, latest>>
  <2>1. StoredChain' = StoredChain
    BY <1>1 DEF StoredChain
  <2> QED
    BY <2>1 DEF TransfersInv, TxAt, PaysFromOlder
<1>2. CASE Opens
  <2>1. StoredChain' = <<Genesis>>
    <3>1. Genesis.prev # Genesis.hash
      BY DEF Genesis, GenesisBlock, NewBlock, Empty
    <3> QED
      BY <1>2, <3>1, FirstBlockChain DEF Opens, StoredChain
  <2>2. /\ Genesis.txs = <<CoinBaseTx("transactionFirst", Miner)>>
    BY DEF Genesis, GenesisBlock, NewBlock
  <2>3. DOMAIN StoredChain' = {1} /\ StoredChain'[1] = Genesis
    BY <2>1
  <2>4. TxAt(1)' = CoinBaseTx("transactionFirst", Miner) /\ Single(Genesis)
    BY <2>2, <2>3 DEF TxAt, Single
  <2>5. WellFormed(TxAt(1)') /\ IsCoinbase(TxAt(1)')
    BY <2>4, CoinbaseWellFormed
  <2> QED
    BY <2>3, <2>4, <2>5 DEF TransfersInv
<1>3. ASSUME NEW tx, Accepted(tx), NEW b, b = NextBlock(<<tx>>), Extends(b) PROVE TransfersInv'
  <2>1. latest \in DOMAIN blocks
    BY <1>3 DEF Extends, TypeOK, ProcessInv
  <2>2. StoredChain' = <<b>> \o StoredChain
    BY <1>3, <2>1, ExtendsChain DEF ChainInv
  <2>3. StoredChain \in Seq(Range(blocks)) /\ Len(StoredChain) \in Nat
        /\ DOMAIN StoredChain = 1..Len(StoredChain)
    BY DEF ChainInv
  <2>4. /\ Len(StoredChain') = Len(StoredChain) + 1
        /\ DOMAIN StoredChain' = 1..Len(StoredChain')
        /\ StoredChain'[1] = b
        /\ \A i \in 1..Len(StoredChain) : StoredChain'[i + 1] = StoredChain[i]
    BY <2>2, <2>3
  <2>5. b.txs = <<tx>> /\ Single(b)
    BY <1>3 DEF NextBlock, NewBlock, Single
  <2>6. TxAt(1)' = tx /\ \A i \in DOMAIN StoredChain : TxAt(i + 1)' = TxAt(i)
    BY <2>3, <2>4, <2>5 DEF TxAt
  <2>7. \A i \in DOMAIN StoredChain : i + 1 \in DOMAIN StoredChain'
    BY <2>3, <2>4
  <2>8. /\ WellFormed(tx)
        /\ ~IsCoinbase(tx) =>
              /\ tx.in = <<tx.in[1]>>
              /\ \E j \in DOMAIN StoredChain :
                   /\ Holds(TxAt(j), tx.in[1], PublickeyHash(tx.in[1].key))
                   /\ SumValues(tx.out) = TxAt(j).out[tx.in[1].vout + 1].value
    BY <1>3, AcceptedPays DEF Extends
  <2>9. /\ Single(StoredChain[1]') /\ WellFormed(TxAt(1)')
        /\ ~IsCoinbase(TxAt(1)') => PaysFromOlder(1)'
    <3>1. ASSUME ~IsCoinbase(tx) PROVE PaysFromOlder(1)'
      <4>1. PICK j \in DOMAIN StoredChain :
              /\ Holds(TxAt(j), tx.in[1], PublickeyHash(tx.in[1].key))
              /\ SumValues(tx.out) = TxAt(j).out[tx.in[1].vout + 1].value
        BY <2>8, <3>1
      <4>2. j + 1 \in DOMAIN StoredChain' /\ TxAt(j + 1)' = TxAt(j) /\ j + 1 > 1
        BY <2>3, <2>6, <2>7
      <4> QED
        BY <2>6, <2>8, <3>1, <4>1, <4>2 DEF PaysFromOlder
    <3> QED
      BY <2>4, <2>5, <2>6, <2>8, <3>1
  <2>10. ASSUME NEW i \in DOMAIN StoredChain
         PROVE  /\ Single(StoredChain'[i + 1]) /\ WellFormed(TxAt(i + 1)')
                /\ ~IsCoinbase(TxAt(i + 1)') => PaysFromOlder(i + 1)'
    <3>1. ASSUME ~IsCoinbase(TxAt(i)) PROVE PaysFromOlder(i + 1)'
      <4>1. /\ TxAt(i).in = <<TxAt(i).in[1]>>
            /\ \E j \in DOMAIN StoredChain :
                 /\ j > i
                 /\ Holds(TxAt(j), TxAt(i).in[1], PublickeyHash(TxAt(i).in[1].key))
                 /\ SumValues(TxAt(i).out) = TxAt(j).out[TxAt(i).in[1].vout + 1].value
        BY <3>1 DEF TransfersInv, PaysFromOlder
      <4>2. PICK j \in DOMAIN StoredChain :
              /\ j > i
              /\ Holds(TxAt(j), TxAt(i).in[1], PublickeyHash(TxAt(i).in[1].key))
              /\ SumValues(TxAt(i).out) = TxAt(j).out[TxAt(i).in[1].vout + 1].value
        BY <4>1
      <4>3. j + 1 \in DOMAIN StoredChain' /\ TxAt(j + 1)' = TxAt(j) /\ j + 1 > i + 1
        BY <2>3, <2>6, <2>7, <4>2
      <4> QED
        BY <2>6, <4>1, <4>2, <4>3 DEF PaysFromOlder
    <3>2. Single(StoredChain[i]) /\ WellFormed(TxAt(i))
      BY DEF TransfersInv
    <3> QED
      BY <2>3, <2>4, <2>6, <3>1, <3>2
  <2>11. \A i \in DOMAIN StoredChain' :
           i = 1 \/ (i - 1 \in DOMAIN StoredChain /\ (i - 1) + 1 = i)
    BY <2>3, <2>4
  <2> SUFFICES ASSUME NEW i \in DOMAIN StoredChain'
               PROVE  /\ Single(StoredChain'[i]) /\ WellFormed(TxAt(i)')
                      /\ ~IsCoinbase(TxAt(i)') => PaysFromOlder(i)'
    BY DEF TransfersInv
  <2>12. CASE i = 1
    BY <2>9, <2>12
  <2>13. CASE i # 1
    <3>1. PICK k \in DOMAIN StoredChain : k + 1 = i
      BY <2>11, <2>13
    <3> QED
      BY <2>10, <3>1
  <2> QED
    BY <2>12, <2>13
<1> QED
  BY <1>1, <1>2, <1>3 DEF BlocksStep

\* Each stored transfer pays out one older output of its sender.
LEMMA TransfersInvHolds == Spec => [](StoreInv /\ TransfersInv)
<1>1. Init => TransfersInv
  BY DEF Init, TransfersInv, StoredChain, Chain
<1>2. StoreInv /\ TransfersInv /\ [Next]_vars => TransfersInv'
  <2> SUFFICES ASSUME StoreInv, TransfersInv, [Next]_vars PROVE TransfersInv'
    OBVIOUS
  <2>1. BlocksStep
    BY EveryStep DEF StoreInv
  <2> QED
    BY <2>1, StepKeepsTransfers DEF StoreInv
<1> QED
  BY <1>1, <1>2, StoreInvHolds, PTL DEF Spec

\* A transfer pays out exactly what its input holds, in positive amounts.
THEOREM TransferBalancedHolds == Spec => []TransferBalanced
<1>1. StoreInv /\ TransfersInv => TransferBalanced
  <2> SUFFICES ASSUME StoreInv, TransfersInv, NEW tx \in Transfers
               PROVE  /\ \A o \in Range(tx.out) : o.value > 0
                      /\ SumValues(tx.out) =
                           SumValues([i \in DOMAIN tx.in |->
                             FindTxByID(StoredChain, tx.in[i].txid).out[tx.in[i].vout + 1]])
    BY DEF TransferBalanced
  <2> DEFINE T == Range(Visited(StoredChain))
             input == tx.in[1]
             o == FindTxByID(StoredChain, input.txid).out[input.vout + 1]
             spent == [i \in DOMAIN tx.in |->
                       FindTxByID(StoredChain, tx.in[i].txid).out[tx.in[i].vout + 1]]
  <2>1. PICK i \in DOMAIN StoredChain : tx = TxAt(i)
    BY StoredVisited DEF Transfers, StoreInv
  <2>2. WellFormed(tx) /\ PaysFromOlder(i)
    BY <2>1 DEF Transfers, TransfersInv
  <2>3. \A p \in Range(tx.out) : p.value > 0
    BY <2>2 DEF WellFormed
  <2>4. PICK j \in DOMAIN StoredChain :
          /\ Holds(TxAt(j), input, PublickeyHash(input.key))
          /\ SumValues(tx.out) = TxAt(j).out[input.vout + 1].value
    BY <2>1, <2>2 DEF PaysFromOlder
  <2>5. tx.in = <<input>>
    BY <2>1, <2>2 DEF PaysFromOlder
  <2>6. /\ Visited(StoredChain) \in Seq(T) /\ TxAt(j) \in T
        /\ \A s \in T : WellFormed(s)
    BY StoredVisited DEF StoreInv
  <2>7. FindTxByID(StoredChain, input.txid).out = TxAt(j).out
    <3> HIDE DEF T, input
    <3>1. Range(Visited(StoredChain)) = T
      BY DEF T
    <3> QED
      BY <2>4, <2>6, <3>1, FoundHolds
  <2>8. o.value \in Int
    <3>1. input.vout + 1 \in DOMAIN TxAt(j).out
      BY <2>4 DEF Holds
    <3>2. o \in Range(TxAt(j).out)
      BY <2>7, <3>1 DEF Range
    <3> HIDE DEF o, T
    <3> QED
      BY <2>6, <3>2 DEF WellFormed
  <2>9. spent = <<o>>
    <3>1. DOMAIN tx.in = 1..1 /\ tx.in[1] = input
      BY <2>5
    <3>2. spent = [k \in 1..1 |-> o]
      BY <3>1
    <3> HIDE DEF o, spent
    <3> QED
      BY <3>2
  <2>10. SumValues(<<o>>) = o.value
    <3> HIDE DEF o
    <3> QED
      BY <2>8, SumOfFew
  <2> QED
    BY <2>3, <2>4, <2>7, <2>9, <2>10
<1> QED
  BY <1>1, TransfersInvHolds, PTL

\* Every transfer spends an output that an older block created, with the key
\* it is locked to.
THEOREM OwnerSpendsHolds == Spec => []OwnerSpends
<1>1. StoreInv /\ TransfersInv => OwnerSpends
  <2> SUFFICES ASSUME StoreInv, TransfersInv, NEW i \in DOMAIN StoredChain,
                      NEW older, older = SubSeq(StoredChain, i + 1, Len(StoredChain)),
                      NEW tx \in Range(StoredChain[i].txs), ~IsCoinbase(tx),
                      NEW input \in Range(tx.in),
                      NEW source, source = FindTxByID(older, input.txid)
               PROVE  /\ \E tx2 \in Range(Visited(older)) : tx2.id = input.txid
                      /\ input.vout + 1 \in DOMAIN source.out
                      /\ CanUnlockOutputWith(input, source.out[input.vout + 1].pkh)
    BY DEF OwnerSpends
  <2>1. tx = TxAt(i)
    <3>1. StoredChain[i].txs = <<TxAt(i)>>
      BY DEF TransfersInv, Single, TxAt
    <3> QED
      BY <3>1 DEF Range
  <2>2. PaysFromOlder(i)
    BY <2>1 DEF TransfersInv
  <2>3. input = tx.in[1]
    <3>1. tx.in = <<tx.in[1]>>
      BY <2>1, <2>2 DEF PaysFromOlder
    <3> QED
      BY <3>1 DEF Range
  <2>4. PICK j \in DOMAIN StoredChain :
          j > i /\ Holds(TxAt(j), input, PublickeyHash(input.key))
    BY <2>1, <2>2, <2>3 DEF PaysFromOlder
  <2>5. /\ StoredChain \in Seq(Range(blocks)) /\ Len(StoredChain) \in Nat
        /\ DOMAIN StoredChain = 1..Len(StoredChain)
    BY DEF StoreInv, ChainInv
  <2>6. /\ older \in Seq(Range(blocks)) /\ DOMAIN older = 1..Len(StoredChain) - i
        /\ \A k \in DOMAIN older : i + k \in DOMAIN StoredChain /\ older[k] = StoredChain[i + k]
    BY <2>5
  <2>7. \A k \in DOMAIN older : Single(older[k])
    BY <2>6 DEF TransfersInv
  <2>8. /\ Visited(older) = [k \in DOMAIN older |-> older[k].txs[1]]
        /\ Visited(older) \in Seq(Range(Visited(older)))
    BY <2>6, <2>7, VisitedSingles
  <2> DEFINE T == Range(Visited(older))
  <2>9. \A k \in DOMAIN older : older[k].txs[1] = TxAt(i + k) /\ WellFormed(older[k].txs[1])
    BY <2>6 DEF TxAt, TransfersInv
  <2>10. /\ DOMAIN Visited(older) = DOMAIN older
         /\ \A k \in DOMAIN older : Visited(older)[k] = TxAt(i + k)
    BY <2>8, <2>9
  <2>11. \A s \in T : WellFormed(s)
    <3>1. \A k \in DOMAIN older : WellFormed(Visited(older)[k])
      BY <2>6, <2>10 DEF TransfersInv
    <3> QED
      BY <2>10, <3>1 DEF Range
  <2>12. TxAt(j) \in T
    <3>1. j - i \in DOMAIN older /\ i + (j - i) = j
      BY <2>4, <2>5, <2>6
    <3>2. Visited(older)[j - i] = TxAt(j)
      BY <2>10, <3>1
    <3> QED
      BY <2>10, <3>1, <3>2 DEF Range
  <2>13. Holds(source, input, PublickeyHash(input.key))
    <3>1. Range(Visited(older)) = T
      OBVIOUS
    <3> HIDE DEF T
    <3> QED
      BY <2>4, <2>8, <2>11, <2>12, <3>1, FoundHolds
  <2> QED
    BY <2>4, <2>12, <2>13 DEF Holds, CanUnlockOutputWith
<1> QED
  BY <1>1, TransfersInvHolds, PTL

-----------------------------------------------------------------------------
(* What an address is told it owns *)

\* A command starts from the unspent outputs of the stored chain, if both
\* transactions of StoreUTXO were committed.
FilledInv == pc = "command" /\ ~failed => chainstate = FindAllUTXO(StoredChain)

\* Only filling the bucket leads to such a command.
LEMMA StepKeepsFilled ==
  ASSUME ProcessInv, FilledInv, [Next]_vars
  PROVE  FilledInv'
<1> SUFFICES ASSUME pc' = "command", ~failed' PROVE chainstate' = FindAllUTXO(StoredChain')
  BY DEF FilledInv
<1>1. CASE UNCHANGED vars
  <2>1. UNCHANGED <<blocks, latest, chainstate, pc, failed>>
    BY <1>1 DEF vars, durable, process
  <2> QED
    BY <2>1 DEF FilledInv, StoredChain
<1>2. CASE fillUTXO
  <2>1. pc = "fill"
    BY <1>2 DEF fillUTXO, StoreReturns
  <2>2. top = latest
    BY <2>1 DEF ProcessInv
  <2>3. chainstate' = FindAllUTXO(LocalChain) /\ UNCHANGED <<blocks, latest>>
    BY <1>2 DEF fillUTXO
  <2> QED
    BY <2>2, <2>3 DEF StoredChain, LocalChain
<1>3. ~(Launch \/ CreateBlockchain \/ dropUTXO \/ addBlock \/ SendTx \/ GetBalance)
  BY DEF Launch, CreateBlockchain, dropUTXO, addBlock, SendTx, GetBalance
<1>4. ~(dropUTXOFails \/ fillUTXOFails)
  BY DEF dropUTXOFails, fillUTXOFails, CommitFails
<1>5. ~(fillUTXOPanics \/ SendTxPanics \/ updateUTXO \/ printBalance \/ return \/ Crash)
  BY DEF fillUTXOPanics, SendTxPanics, updateUTXO, printBalance, return, Crash, Exit
<1> QED
  BY <1>1, <1>2, <1>3, <1>4, <1>5 DEF Next

LEMMA FilledInvHolds == Spec => [](StoreInv /\ TransfersInv /\ FilledInv)
<1>1. Init => FilledInv
  BY DEF Init, FilledInv
<1>2. StoreInv /\ FilledInv /\ [Next]_vars => FilledInv'
  BY StepKeepsFilled DEF StoreInv
<1> QED
  BY <1>1, <1>2, TransfersInvHolds, PTL DEF Spec

\* The inputs of the stored transfers name outputs locked to their keys.
LEMMA StoredKeyed ==
  ASSUME ChainInv, TransfersInv
  PROVE  AllKeyed(Range(Visited(StoredChain)))
<1> SUFFICES ASSUME NEW tx \in Range(Visited(StoredChain)), ~IsCoinbase(tx),
                    NEW i \in DOMAIN tx.in
             PROVE  \E s \in Range(Visited(StoredChain)) :
                      Holds(s, tx.in[i], PublickeyHash(tx.in[i].key))
  BY DEF AllKeyed
<1>1. PICK k \in DOMAIN StoredChain : tx = TxAt(k)
  BY StoredVisited
<1>2. PaysFromOlder(k)
  BY <1>1 DEF TransfersInv
<1>3. i = 1
  <2>1. tx.in = <<tx.in[1]>>
    BY <1>1, <1>2 DEF PaysFromOlder
  <2> QED
    BY <2>1
<1>4. PICK j \in DOMAIN StoredChain : Holds(TxAt(j), tx.in[1], PublickeyHash(tx.in[1].key))
  BY <1>1, <1>2 DEF PaysFromOlder
<1>5. TxAt(j) \in Range(Visited(StoredChain))
  BY StoredVisited
<1> QED
  BY <1>3, <1>4, <1>5

\* As many outputs as the balance of an address counts under an ID, as often
\* FindUnspendTransaction finds the transaction.
LEMMA OwnedIsCount ==
  ASSUME NEW utxo, NEW id, NEW O, OutputsAt(utxo, id) \in Seq(O), NEW pkh
  PROVE  Len(OutputsAt(FindUTXOByPubkeyHash(utxo, pkh), id))
           = Count({o \in O : o.pkh = pkh}, OutputsAt(utxo, id))
<1> DEFINE owned == FindUTXOByPubkeyHash(utxo, pkh)
           Q == {o \in O : o.pkh = pkh}
<1>1. DOMAIN owned = DOMAIN utxo
  BY DEF FindUTXOByPubkeyHash
<1>2. CASE id \notin DOMAIN utxo
  <2>1. OutputsAt(owned, id) = <<>> /\ OutputsAt(utxo, id) = <<>>
    BY <1>1, <1>2 DEF OutputsAt
  <2> HIDE DEF owned, Q
  <2>2. Count(Q, <<>>) = 0
    BY CountAppends
  <2> QED
    BY <2>1, <2>2 DEF owned, Q
<1>3. CASE id \in DOMAIN utxo
  <2> DEFINE outs == utxo[id]
             S == {o \in Range(outs) : CanBeUnlockedWith(o, pkh)}
             kept == KeepMembers(S, outs)
  <2>1. OutputsAt(owned, id) = kept /\ OutputsAt(utxo, id) = outs /\ outs \in Seq(O)
    BY <1>1, <1>3 DEF OutputsAt, FindUTXOByPubkeyHash
  <2>2. \A i \in DOMAIN outs : outs[i] \in S \cap S <=> outs[i] \in Q
    BY <2>1 DEF Range, CanBeUnlockedWith
  <2> HIDE DEF owned, Q, S, outs
  <2>3. KeepsCount(S, O, S, outs)
    BY <2>1, KeepMembersCount
  <2>4. kept \in Seq(O \cap S) /\ Count(S, kept) = Count(S \cap S, outs)
    BY <2>3 DEF KeepsCount
  <2>5. Count(S, kept) = Len(kept)
    <3>1. PICK B : B = O \cap S
      OBVIOUS
    <3>2. B \subseteq S /\ kept \in Seq(B)
      BY <2>4, <3>1
    <3> HIDE DEF kept
    <3> QED
      BY <3>2, CountAllOrNone
  <2>6. Count(S \cap S, outs) = Count(Q, outs)
    <3>1. {i \in DOMAIN outs : outs[i] \in S \cap S} = {i \in DOMAIN outs : outs[i] \in Q}
      BY <2>2
    <3> QED
      BY <3>1 DEF Count
  <2> QED
    BY <2>1, <2>4, <2>5, <2>6 DEF owned, Q
<1> QED
  BY <1>2, <1>3

\* Before a command, an address owns as many outputs of each transaction ID in
\* the rebuilt set as a transfer of its key starts from.
THEOREM SpendableMatchesBalanceHolds == Spec => []SpendableMatchesBalance
<1>1. StoreInv /\ TransfersInv /\ FilledInv => SpendableMatchesBalance
  <2> SUFFICES ASSUME StoreInv, TransfersInv, FilledInv, pc = "command", ~failed,
                      NEW pkh, NEW id,
                      NEW owned, owned = FindUTXOByPubkeyHash(chainstate, pkh),
                      NEW found, found = FindUnspendTransaction(LocalChain, pkh)
               PROVE  Len(OutputsAt(owned, id)) = Cardinality({k \in DOMAIN found : found[k].id = id})
    BY DEF SpendableMatchesBalance
  <2> DEFINE T == Range(Visited(StoredChain))
             O == UNION {Range(tx.out) : tx \in T}
             outs == OutputsAt(chainstate, id)
             F == {tx \in T : tx.id = id}
  <2>1. found = FindUnspendTransaction(StoredChain, pkh) /\ chainstate = FindAllUTXO(StoredChain)
    BY DEF StoreInv, ProcessInv, LocalChain, StoredChain, FilledInv
  <2>2. /\ Visited(StoredChain) \in Seq(T) /\ \A s \in T : WellFormed(s)
        /\ AllKeyed(T)
    BY StoredVisited, StoredKeyed DEF StoreInv
  <2>3. /\ found \in Seq(T) /\ outs \in Seq(O)
        /\ Count(LockedTo(T, pkh), outs) = Count(F, found)
    <3> HIDE DEF T
    <3>1. WalksAgree(StoredChain, T, pkh)
      BY <2>2, WalksInStep
    <3> QED
      BY <2>1, <3>1 DEF WalksAgree
  <2>4. LockedTo(T, pkh) = {o \in O : o.pkh = pkh}
    BY DEF LockedTo
  <2>5. Len(OutputsAt(owned, id)) = Count({o \in O : o.pkh = pkh}, outs)
    <3> HIDE DEF T, O
    <3> QED
      BY <2>3, OwnedIsCount
  <2>6. Count(F, found) = Cardinality({k \in DOMAIN found : found[k].id = id})
    <3>1. \A k \in DOMAIN found : found[k] \in F <=> found[k].id = id
      BY <2>3
    <3>2. {k \in DOMAIN found : found[k] \in F} = {k \in DOMAIN found : found[k].id = id}
      BY <3>1
    <3> QED
      BY <3>2 DEF Count
  <2> QED
    BY <2>3, <2>4, <2>5, <2>6
<1> QED
  BY <1>1, FilledInvHolds, PTL

=============================================================================
