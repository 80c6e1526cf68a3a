# A TLA+ verification of Build_a_blockchain

The repository is a small proof-of-work blockchain in Go. One program is both a command line tool
(`addblock`, `sendtx`, `getbalance`, ...) and a server (`startnode`) that exchanges blocks with
other servers over TCP. All durable state is one [bolt](https://github.com/boltdb/bolt) file per
node (and a wallet file). This directory models the parts whose correctness depends on the order
in which things happen, checks them with TLC on small instances and proves what matters most with
TLAPS for every instance.

## 1. Inventory

| Part | Source | State | Operations | Interacts with |
|---|---|---|---|---|
| block database | `blockchain.go` | bucket hash -> block, key `latest`; `bc.topHash` in memory | `CreateBlockchain`, `AddBlock`, `AddBlockBy`, `Iterator/Next`, `GetLatestHeight`, `GetBlock`, the `Find...` walks | everything |
| unspent output set | `storeUTXO.go` | bucket `chainstate`: transaction ID -> outputs | `StoreUTXO` (two transactions), `UpdateUTXO`, `FindUTXOByPubkeyHash` | rebuilt from the block database at every start and in `getbalance` |
| transactions | `transaction.go`, `blockchain.go` | none | `CreateTransaction`, `CoinBaseTx`, `sign`, `Verify`, `FindSpendableOutputs` | wallet keys, block database |
| blocks, proof of work | `block.go`, `pow.go` | none | `NewBlock`, `GenesisBlock`, `POW.Run`, `Serialize` | |
| node server | `server.go` | `KnownNodes`, `BlockInTransit` (globals), `bc.topHash`, one goroutine per connection | `StartServer`, `sendData`, `handleVersion`, `handleGetBlocks`, `handleInv`, `handleGetData`, `handleBlock` | other nodes (one connection per message), block database, unspent outputs |
| command line | `main.go`, `cli.go` | none beyond the process | one command per process | opens the bolt file, whose lock keeps other processes out |
| wallet keys, wallet file | `wallet.go`, `wallets_all_in_one.go` | a gob file of key pairs | `GenerateKeyPair`, addresses, load, add, save | `CreateTransaction` |
| Base58, byte helpers | `base58.go`, `utils.go` | none | `Base58Encode`, `Base58Decode` | addresses |
| Merkle tree | `merkletree.go` (empty), `Block.CreateMerkleRoot` | none | never called | |

What makes each part correct, and what is hard about it:

* **block database** - an unbroken chain from `latest` to a genesis block, `latest` on a highest
  block, one block per hash. Hard: `AddBlockBy` stores what arrives, newest first, over whatever
  is there; `bc.topHash` is set before the transaction commits; the hash does not cover the
  transactions; a process may be killed anywhere; `AddBlock` drops the error of its update, so it
  returns a block that may not be stored.
* **unspent output set** - equals what the chain says. Hard: it is dropped and filled in two
  transactions, whose errors the callers drop, the update compares indices with positions, and several transactions may have
  one ID.
* **transactions** - the owner spends, sums balance, nothing is spent twice, and what is signed
  verifies. Hard: several inputs, several outputs to one address, Go's map order.
* **server** - a pull completes, no handler panics, heights converge. Hard: no lock anywhere,
  a panic in a goroutine ends the whole server, peers vanish in the middle of a message.
* **wallet keys, wallet file** - a printed address can be spent from, with the key it was made
  from. Hard: the file is overwritten in place without truncation, in another order every time,
  and `createwallet` goes on when the file cannot be read and when it cannot be written.
* **bytes** - what is encoded can be taken apart again. Hard: leading zeros of big integers vanish
  (signatures, public keys) or are counted separately (Base58), fields are joined without
  separators (block headers), levels are halved without a look at their parity (Merkle tree,
  which no code builds).

`PROJECT.json` lists every hazard at its line with the properties aimed at it.

## 2. Modules

| Module | What it is |
|---|---|
| `Ledger` | Pure definitions: transactions, walks over the chain, `FindAllUTXO`, `UpdateUTXO`, choice of outputs, signing digests, blocks. No variables. |
| `Cli` | Runs of the command line program over one bolt file: one action per bolt transaction, a kill possible between any two. |
| `Sync` | Servers that pull blocks from each other, over the block databases, with the blocks the command line adds while a server is down. |
| `Encoding` | Pure definitions, on bytes: Base58, addresses and checksums, joined big integers, block headers and proof of work, Merkle roots. No variables. |
| `Program` | Runs of the command line program over one wallet file: arguments, wallets, addresses, keys, signatures, the nonce search. |
| `BlockStore` | The abstract specification of a group of block databases: nodes extend their own head or copy a block, heads move to higher blocks only. |
| `MCCli`, `MCSync`, `MCProgram` | Values for TLC. |
| `BlockStoreProofs`, `CliProofs`, `SyncProofs`, `SyncStoreProofs`, `ProgramProofs` | Theorems about these specifications and their proofs. |
| `LedgerProofs` | Lemmas on `Ledger`: the walk over a chain, what adding a block does to it, how outputs are chosen, what is signed and verified. |
| `Induction`, `FoldTheorems` | Induction over numbers and sequences; what `FoldLeft` and `FlattenSeq` of the community modules compute, and that recursions up to a bound are defined. |

`Cli` and `Sync` both EXTEND `Ledger`, and both INSTANCE `BlockStore` with a refinement mapping
(`held` is the set of stored blocks, `head` the block under `latest`); the property
`BlockStoreSpec` of their runs is `BlockStore!Spec`.

### Ledger and Cli against the code

* Hashes are injective, so a hash is represented by what is hashed. A block hash is
  `<<previous hash, time>>`: proof of work covers neither transactions nor height (`pow.go:33`),
  and its search for the nonce is deterministic. A transaction ID also depends on the gob type
  numbers the process has handed out (`gob` in `Cli`), because gob writes them into the encoding.
* Amounts are small integers, `COINBASEFEE` is a constant. Addresses are public key hashes.
* `Nil` is a result the code does not deliver: an error, or a panic.
* `pc` in `Cli` is the position between two bolt transactions. `CreateBlockchain`, `dropUTXO` and
  `fillUTXO` are the start of every command; `addBlock`, `SendTx`, `updateUTXO`, `GetBalance`,
  `printBalance` follow. `SendTxPanics` and the panic branch of `updateUTXO` leave what has been
  committed. `Crash` is a kill anywhere.
* A bolt transaction whose commit fails leaves the file as it was. Most writers panic then (a
  `Crash`), but three do not notice: `AddBlock` (`blockchain.go:130`; the `err` looked at in 150
  is that of `View`), and the callers of `StoreUTXO` (`blockchain.go:90`, `cli.go:193`). `AddBlock`
  with its second disjunct, `dropUTXOFails` and `fillUTXOFails` are these; `failed` remembers
  that it happened to this process, `block` is what `AddBlock` returned. A walk that then starts
  from a block that is not stored panics (`fillUTXOPanics`).
* The order in which `CreateTransaction` ranges over its map is a choice (`MapOrders`).

### Sync against the code

| State | Code |
|---|---|
| `store`, `latest`, `chainstate` | the bolt file of each node |
| `up`, `top`, `known`, `transit` | the process, `bc.topHash`, `KnownNodes`, `BlockInTransit` |
| `gor` | goroutines of all servers, a bag of records: node, position, and the local variables still needed |

A message in flight is the goroutine `sendData` makes its receiver start, at its first position;
so messages overtake each other and are handled concurrently, as `go handleConnection`
(`server.go:70`) does. A message to a node that is down
is lost and strikes the node from `KnownNodes`. A step of a goroutine accesses shared memory once,
or is one bolt transaction, or one send:

| Handler | Steps |
|---|---|
| `handleVersion` | `handleVersion` (compare, send) - `isKnownNode` - `addKnown` (read, append) - `setKnown` (write) |
| `handleGetBlocks` | `handleGetBlocks` (read `bc.topHash`) - `GetBlockHashes` (walk, send `inv`) |
| `handleInv` | `handleInv` (set the list) - `requestLatest` - `filterTransit` - `setTransit` |
| `handleGetData` | `handleGetData` |
| `handleBlock` | `AddBlockBy` (set `bc.topHash`) - `commitBlock` - `nextInTransit` - `requestNext` - `popTransit` - `setTransit`, or `updateUTXO` at the end |
| `handleConnection` of a cut message | `readTruncated` |

Steps merged on purpose: reading the height, comparing it and reading it again in `sendVersion`
(heights of a running server only rise, so the step taken at the later read has the same
outcome); the reads of one walk (a database only gains blocks, so the walk can be taken at its
last read); `len(BlockInTransit) > 0` and `BlockInTransit[0]` (`popTransit` has the panic of an
emptied list); the loop in `sendData` that prunes `KnownNodes`. Appending to `KnownNodes` is two
steps, a read and a write, so an entry another goroutine adds in between is lost. A failing write to
a connection whose receiver has gone panics in the sender: that is a `Crash` of the sender.

`Start`, `StartPanics` and `Crash` are processes coming and going. A panic in one goroutine ends the
process like a kill: both may cut short what the other goroutines are sending (`Receivers`,
`CutShort`), and a truncated message panics at its receiver. `AddCoinbase` and `SendTx` are whole runs of the command line
program while the server is down (bolt's file lock excludes anything else); what happens inside
such a run, and when one of its commits fails, is `Cli`'s matter. `cli.go:115` fixes the node ID to 3000; the model lets every node
have its own address, as the server code and its comments intend.

### Encoding and Program against the code

`Ledger` treats hashes as injective and a signature as a pair of key and digest; `Encoding` is the
layer below, where they are bytes. A byte is a number below `Radix`, a character the index in the
alphabet (`-1` for one outside it, as `bytes.IndexByte` returns); the hash functions, the numbers
of bytes and the target are constants. `Nil` is a panic. Hashes inside the Merkle tree are
represented by what is hashed. `CreateMerkleRoot` is called by no command, so no action of `Program`
takes it; the theorem `MerkleRoots` is about it.

| State of `Program` | Code |
|---|---|
| `file` | `wallets.dat`, as cells: the number of wallets, then address, private key and public key of each |
| `pc`, `cmd` | the process and its command |
| `wallets` | `Wallets.Wallets` |
| `transfer` | in `CreateTransaction`: the sender's wallet, the locks of the two outputs, the signature |
| `block` | in `NewBlock`: header, nonce, hash |
| `made`, `reported`, `faults` | history: generated keys, printed addresses, failed reads and writes |

`Overwritten` is the write into a file opened without `O_TRUNC`: the first cells are replaced, the
rest stays. (The comment at `wallets_all_in_one.go:73` says that the data is appended; it is not.)
`Decoded` is gob's decoder, which fails on data that is too short for the size at its
start and ignores what follows it. A cut is taken between cells; a cut inside a cell of a shorter
encoding would be a decoding error, or a wrong key, like the ones between cells. `ReadFails` and
`SaveFails` are the error returns the callers ignore; `SaveFails` may also be a kill in the middle
of the write. `Verify` takes the joined numbers apart again (`Valid`, `Halves`) and the process panics
unless they are the ones that were joined. Each round of the loop of `POW.Run` is a step, `Try`. What an accepted command then
does to the database, and to other servers, is the matter of `Cli` and `Sync`.

`main` opens the database, and so takes bolt's lock on it, before it looks at the command, and
`wallets.dat` is next to it: two processes never touch the wallet file at once.

The private key `<<X, Y>>` is the pair of coordinates of its public key, and `Valid` takes a
signature to be accepted if and only if both pairs come out of their bytes as they went in:
`ecdsa.Verify` on another point or other numbers succeeds with negligible probability only.

## 3. Runs

| Run | Bounds | What it shows |
|---|---|---|
| `sync_safety` | 2 nodes, heights to 2, 2 messages handled at a time, each server started twice, 1 kill | types; `latest` on a highest block; `bc.topHash` tracks `latest`; one block per hash; no ancestor lost; every `getdata` finds its block; refinement of `BlockStore` |
| `sync_paced` | 2 nodes with genesis blocks of their own, heights to 3, 3 messages handled at a time, each server started 3 times, 2 kills; `PacedSpec` | a pull, of a foreign chain too, ends with a whole chain, over restarts and kills between pulls, and no handler panics |
| `sync_live` | 2 nodes, heights to 1, 1 kill, fairness | an announced height makes one node catch up with the other unless one of them stops |
| `sync_three` | 3 nodes, heights to 1, 1 kill | relayed and competing blocks of equal height at a third node: refinement of `BlockStore`, heads move to higher blocks only |
| `cli` | one file, heights to 5, two keys, payments of two amounts, 1 commit that fails unnoticed | every sequence of commands with kills: the chain is whole, transfers are balanced and spend with the owner's key, the two walks over the chain agree in number right after a rebuild, refinement of `BlockStore` |
| `program` | three keys, bytes of 4 values, alphabet of 3 characters, 2 failed reads or writes, 3 nonces | an uncut save is readable whatever was left in the file; without failures no printed address is lost; a transfer is signed by the sender's key and its change goes back to it; `Verify` accepts keys and signatures whose halves have matching lengths; Base58 and addresses go there and back; the nonce found is the least one and belongs to the hash; header bytes determine previous hash, time and nonce |

Runs that disagree with a comment of the code, each with a finding in `PROJECT.json` that quotes the
line:

| Run | Bounds | What TLC finds |
|---|---|---|
| `sync_pulled` | 2 nodes, heights to 2, 2 messages at a time, 1 start each, no kill | the answer to the first `getdata` overtakes the goroutine that sent it, a hash leaves `BlockInTransit` unrequested, and the pull ends with a hole |
| `sync_utxo` | 2 nodes, heights to 2, 1 message at a time, no kill | after a pull the unspent outputs are not those of the chain |
| `cli_double_spend` | heights to 3 | after a transfer to oneself a spent output is chosen again |
| `cli_signed` | heights to 3 | a transfer with two inputs does not pass `Verify` |
| `cli_unspent` | heights to 3 | coinbase transactions share an ID, spending one hides the others |
| `cli_update` | heights to 4 | the index an input names is not the position in the stored slice, and `UpdateUTXO` keeps a spent output, also where no ID is shared and nothing is spent twice |

The models show more that a comment contradicts. No property is kept for these:

* `AddBlock` returns `true` and a block that is not stored when the commit fails
  (`blockchain.go:130`; the comment in 95 says it updates the chain, 150 looks at another error), and
  `bc.topHash` is on that block: `CommitFails` in `Cli!AddBlock`.
* `GetBalance` prints 0 for an address with outputs when filling the bucket fails (`cli.go:193`; comment
  in 187): `fillUTXOFails`, then `printBalance`.
* Two version messages of one sender that pass `isKnownNode` before either has appended list the sender
  twice (`server.go:249`; comment in 248): `isKnownNode`, `isKnownNode`, `addKnown`, ...
* A server that nobody kills goes down (`server.go:507`; the comment in 43 says it keeps listening): a
  `getdata` is answered before the goroutine that sent it has popped its hash, the next `handleBlock` asks
  for the same block again, two goroutines pop the last hash, and `BlockInTransit[1:]` panics in the
  second. `NoHandlerPanics` is violated by `Spec` with the constants of `sync_pulled`; `sync_paced` checks
  it where it holds.
* A transfer that was signed correctly is refused unless the second coordinate of the key has as many bytes
  as the first, or one more, and so have the numbers of the signature (`transaction.go:254`; comment in
  245): `AlignedVerifies` without its condition is false.
* `SaveWalletsToFile` does not append (`wallets_all_in_one.go:76`; comment in 73): `Overwritten`.
* `CreateMerkleRoot` has no root for 5 or 6 transactions, where the second level has three hashes and
  the loop indexes past the end (`block.go:51`; comment in 24): `MerkleRoots`.

**Bounds.** Two nodes and height 2 are enough for a pull of several blocks with another pull, or a
restart of either side, in the middle of it; height 3 for a list of hashes that is walked more
than once and, with different genesis blocks, replaced entirely; three messages at a time for the two that
take turns in a pull and one beside them; three nodes for two blocks of one height at a third node. In `Cli`, five blocks on the genesis block
hold two transfers to oneself and the transfers that spend them, and one failing commit can hit any
of the three places where it goes unnoticed, before or after any of them (the theorems are about any
number of failures). In
`Program`, three keys let a file of two wallets be overwritten by a file of one, and the numbers
of `MCSignatures` and `MCKey` differ in length by -1, 0, 1 and 2 bytes, which is every case
`Halves` tells apart; the headers have one and two bytes of time, and with and without a previous
hash; the nonces succeed at once, at the second try, or not at all. `SignsForSender` and `AlignedVerifies` are claims
about at most one failure: after two, the file can hold an address before the key of another
(a key created while the file was unreadable, and a write cut short). `ReportedReadable` is a claim
about none: after one failed read `createwallet` overwrites every key in the file.
`MaxRuns`, `MaxCrashes`,
`MaxHeight`, `MaxHandlers`, `MaxFaults` are bounds of the model, not of the code; where they make the system
stop, the configuration switches deadlock checking off. Clocks: two nodes that mine in the same
second on the same block produce one hash for two blocks; the runs give them different clocks, and
`OneBlockPerHash`, `HeadIsHighest`, `AncestryHeld` and `BlockStoreSpec` are claims about such
groups only.

**Balances and spendable outputs.** `SpendableMatchesBalance` compares `FindAllUTXO`, as the rebuilt
bucket holds it, with `FindUnspendTransaction`, right after a rebuild whose commits succeeded. It says
nothing of the outputs a transfer then takes: `FindSpendableOutputs` takes every output of these
transactions, the spent ones included (`cli_double_spend`).

**Paced pulls.** `PullComplete` is false of servers that answer at any time (`sync_pulled`), and of a
server killed in the middle of a pull. `PacedSpec` allows everything but these two: a kill comes when no
block is being pulled and no message is left (`OrderlyKills`), and a goroutine that has sent a `getdata`
has shortened `BlockInTransit` before the block it asked for is through `AddBlockBy` (`Timely`), that
is, a round trip to the peer and a bolt transaction take longer than the assignment after a send. Any
number of goroutines may run, and nothing keeps a handler from panicking: that none does is
`NoHandlerPanics`.

**Fairness** (`sync_live` only): weak fairness for every kind of step of every node, because the Go
scheduler runs every goroutine eventually, and per sender and height for version messages, since
nodes of equal height answer each other for ever and a version of another height must not wait
behind those. Nothing is assumed about starting servers, mining or kills.

## 4. Proofs

The theorems hold for every value of the constants that satisfies the assumptions the modules
declare: `LedgerAssumption`, `CliAssumption` (amounts are positive, as `CLI.Run` requires),
`SyncAssumption`, `EncodingAssumption` and `ProgramAssumption` (sizes and bounds are numbers), and
`NilAssumption` and `AddressAssumption` (no result, no command and no file is `Nil`; two keys do
not share an address). Where a theorem needs more, its statement says so: `NoClockTies`,
`TwoNodes`, `HashesAreBytes`, and `NilIsNoMap` (`Nil` is not a map).

**Induction and folds.** The induction theorems of the library take an operator, which the provers
at hand cannot instantiate. `Induction` states induction over the natural numbers for a *set*
(`NatInduct`) instead, and proves it by the pigeonhole theorem: were a number missing, the
predecessor would map the numbers below it one to one into one number less. From it follow
induction up to a bound, least elements and induction over sequences. `FoldTheorems` shows that
the recursion `FoldLeft` is defined by exists and is a run over the sequence from left to right
(`FoldAppends`), and that any recursion up to a bound is defined (`RecursionRuns`). It is
parameterised by the operator that is folded and instantiated once for each.

**The command line (`CliProofs`, `LedgerProofs`).** `StoreInv` is inductive: types; a process that
has opened the database has the latest hash and the right gob order in hand; each block is stored
under the hash proof of work gives it, on top of a stored block one lower; and the chain from
`latest` is whole, in order, and meets every block. `ChainWhole` alone is not inductive: that a new
block's hash is not yet stored follows from the heights. Adding a block prepends it to the chain
because the walk over the old database is defined and no stored block refers to the new one
(`PutExtendsChain`). Where a commit fails, the process may have a `bc.topHash` that is not stored; the
file is as before, and the invariants about the process are stated for one none of whose commits failed.
`TransfersInv` adds that every stored block has one transaction, which is a
coinbase transaction or has *one* input that names an older output locked to its key. The argument for
one input: sign and Verify compute the same digest for the first input; for the second, sign has left
the first key in the copy, so the two differ (`SecondDigest`) and Verify refuses. That the input
belongs to the sender comes from the loops over the chain: what they take was created by a
transaction on it (`CreatedSpends`). (One input is what the sign/`Verify` disagreement of `cli_signed`
leaves; it is a step of the argument and no property of its own.) Results: `TypeCorrect`,
`ChainWholeHolds`, `TransferBalancedHolds`, `OwnerSpendsHolds` and the refinement
`CliImplementsBlockStore`.

`SpendableMatchesBalanceHolds` compares two loops over the chain. `FindAllUTXO` records every input as
spent, `FindUnspendTransaction` only those with the key of one address; `WalksInStep` runs both side by
side. Of the outputs locked to that address they have recorded the same as spent (`Agree`), because the
key in an input is that of every output the input can mean: the ID of a transaction fixes its outputs,
and `TransfersInv` says that one of them is locked to the key (`AllKeyed`). So the same outputs are left
(`SameLeft`), and for every ID as many are stored as transactions are found (`InStep`, with `Count` and
what it does on appended, joined and filtered sequences). Two coinbase transactions with one ID spoil
the *number* of unspent outputs (`AllUnspentFound`), but both loops in the same way. `FilledInv` adds that
a command starts from the bucket that a complete `StoreUTXO` has left, unless one of the commits of its
process has failed.

**The server (`SyncProofs`).** `TypeInv /\ LockInv` is inductive: types, plus the facts that a
goroutine at `commit` is the only one of its node and has multiplicity one in the bag, that its
block is higher than the latest one, and that `bc.topHash` shows it (`Locks`), while without such
a goroutine `bc.topHash` is `latest` (`Tops`). `TypeOK` alone is not inductive: that a goroutine
never answers its own node (`Sound`) is what keeps a killed server from leaving truncated messages
at itself, and `TopTracksLatest` needs the multiplicity, because a commit must remove the only
holder of bolt's lock. Most handlers are instances of three lemmas (`MoveOn`, `SendAndMoveOn`,
`PanicStops`); `AddBlockBy`, `commitBlock` and the processes have lemmas of their own. Results:
`SyncTypes` (`[]TypeOK`) and `SyncTops` (`[]TopTracksLatest`).

**Blocks between servers (`SyncStoreProofs`).** Assumes `NoClockTies`: no two nodes have the same
`Clock`. The argument:

1. Every step leaves the databases alone, copies a block some node holds, or mines one on the own
   head (`EveryStep`). For the copies this needs `Carried`: a block in a message or in a
   goroutine is in some database.
2. A copied block overwrites nothing but itself, since stores agree on common hashes
   (`CopyKeeps`); a mined block's hash is new (`MineKeeps`): a block under that hash would have
   been mined by the same node (`Origin`, and no ties) on the same head, and would be higher than
   that head (`Highest`).
3. So databases only gain blocks (`Grows`), which preserves `StoresAgree`, `Origin`, `Highest`
   and `Carried`; with the invariant of `SyncProofs` they form the inductive `StoreInv`.

Results: `SyncHeads`, `SyncHashes`, `SyncAncestry` (`HeadIsHighest`, `OneBlockPerHash`,
`AncestryHeld`), and `SyncImplementsBlockStore`, the refinement the runs check on small groups.
`SyncRequests` (`RequestHeld`) also assumes `TwoNodes`. `PullInv` says that all a node has asked for, is
about to ask for or keeps in `BlockInTransit` is held by the other one. A list of hashes enters
the system where `GetBlockHashes` walks a chain, and holds stored blocks only because chains descend in
height (`ChainOfStored`); afterwards lists only lose elements (`WithoutKeeps`, for `filterTransit`)
and databases only gain them, over kills and restarts. With three nodes it would be false: a node may ask
one peer for what it heard of from another.

**One conversation (`SyncStoreProofs`, second half).** `SyncPulls` and `SyncStaysUp` prove `PullComplete` and
`NoHandlerPanics` of `PacedSpec` between two nodes. Each restriction is needed. An answer that overtakes the goroutine that asked for it
makes a pull lose a block (`sync_pulled`); a kill in the middle ends a pull half way; a third node can
ask for the chain of a node that is still pulling, whose walk panics at the missing block. Genesis
blocks, heights, transfers, and the numbers of goroutines, runs and kills are arbitrary.
Neither property is inductive: that a database is whole *between* pulls depends on what is stored,
asked for and listed at every step *within* one. `TalkInv` says it:

1. At most one goroutine has the turn (`Turns`), and exists once in the bag; while it exists both
   servers are up. Beside it run only those that add a known node, in any number, and at most one that
   shortens `BlockInTransit` (`Asides`): by `Timely` it is gone before the next one comes up.
2. `Stage` says for each step what has been done by then. Up to the answer to `inv` nothing is missing
   anywhere (`Rest`). From the first `getdata` on, `Fetching` and `Storing` say that the answering node's
   database is whole, that the asking node's lacks *one* predecessor at most (`Misses`), the hash
   asked for next, and that `BlockInTransit` is the answering node's walk from that hash on, with
   or without its first hash, as the goroutine on the side has shortened it or not.
3. So a pulled block closes the hole and opens one at its own predecessor, which is the head of the list
   (`StoredBlock`, `WalkUnfolds`). When the list is empty that block has no predecessor: it is a genesis
   block, nothing is missing, and it is the block `UpdateUTXO` is called with (`GenesisRewards`).
4. In a database that lacks no predecessor every chain ends in a genesis block (`ClosedReaches`, from
   `CompleteReachesGenesis`, by induction on the height). Mining stands on `latest`, and only
   happens while a server is down, when nobody talks (`DownIsQuiet`), so it leaves the database whole (`StoredAbove`).
5. A kill finds nobody talking (`QuietRests`, `TalkCrash`), so the databases are whole and no message is cut
   short.

For the panics: walks are defined, the list is not empty when
it is popped, and `Tidy` adds that stored blocks have one transaction and that a rebuilt or updated bucket of
unspent outputs is never the outcome of a panic (`BucketsRebuilt`). Beyond `PacedSpec` handlers do panic
(section 3).

`BlockStoreProofs` shows what every implementation of `BlockStore` can rely on: one block per
hash, highest heads, no ancestor lost.

**Bytes, wallets, proof of work (`ProgramProofs`).** A sequence of digits has a value, and the numeral of
a number is the one sequence without a leading zero that has it; so both directions of Base58 are one
conversion between bases, and `Base58RoundTrips` follows for all bytes, all texts and any two bases.
`TextRoundTripHolds`, `AddressRoundTripHolds`, `HeaderFixesBlockHolds` and `AlignedVerifiesHolds` rest on it, and on words being of equal length for every number that fits.

`ProgramInv` is the invariant about the wallet file. What survives any number of overwriting writes cut
at any place is only the *kind* of each cell: an address, a private or a public key of a generated key
(`Grid`). After at most one cut write, a file that still decodes has its addresses in front of their own
keys, because a file that was cut is too short for the size at its start, or complete. Without
a failure every printed address is in the file. Hence `SavedReadableHolds`, `ReportedReadableHolds`,
`SignsForSenderHolds` and `TypeCorrect`. All of these assume `HashesAreBytes`: the hash functions return
bytes, and enough of them for a checksum.

`MinedNonceHolds` has an invariant of its own: the nonces the loop has passed are no proofs of work
(`Searching`), and the commands that begin with the wallet file do not search (`Reading`).

`MerkleRoots` is about the function and not about a run, and needs no bound on the number of transactions. A level of the loop, times the leaves under
each of its hashes, has all the leaves as long as levels are even, and hash i of level k is entry
(i - 1) * 2^k + 1 of row k of the perfect tree (`LevelsAreRows`). If the leaves are a power of two, every
level before the last is even (`PerfectLevels`); if all of them are even, the leaves are a power of two;
and levels get shorter, so there is a last one (`LastLevel`).

**Only model-checked.** Every invariant and every action property of a passing run is a theorem,
those of `sync_paced` and `RequestHeld` for two nodes. Liveness (`HeadCatchUp`) and fairness are out of the prover's reach, and so
stay with TLC. The runs that end in a violation state no theorem.

## 5. Not modelled

* The curve and the hash functions (constants), and the choice of keys by the random source.
* gob: blocks, transactions and messages are of types it encodes without loss. Its effect on
  transaction IDs is in `Ledger`, its framing of the wallet file in `Program`.
* `commandToBytes` and `bytesToCommand`: the five commands differ and are shorter than 16 bytes
  without zeros, so the pair is the identity on them. A request cut short before or inside its
  command is `readTruncated`.
* Slices into bolt's memory map kept after their transaction (`blockchain.go:78`): what they read
  after the file has grown is decided inside bolt and by the operating system's page mapping.
* Writes to the database of a server that fail: `AddBlockBy` and `UpdateUTXO` panic (a `Crash` in
  `Sync`); a server whose `StoreUTXO` fails at the start would go on with the bucket it has, which
  `Sync` leaves out. Failed writes of the command line program are in `Cli`, also those nobody notices.
* Output (`String`, `printBlock`, `GetLatestHeight`, `IterateBlockchain`'s printing), and what is
  never called: `FindUTXO`, `Uint64ToBytesLittleEndian`.

## 6. Plan

1. Done: `Ledger`, `Cli`, `Sync`, `BlockStore`, `Encoding`, `Program`, their runs, and the proofs
   of section 4.
2. Done: failed commits in `Cli`, and `PullComplete` of `PacedSpec` (`TalkInv`), with goroutines, kills
   and restarts in any number.
3. Open: failed writes of a running server as steps of `Sync`; pulls among three nodes, for which a node
   would have to be kept from asking for the chain of one that is still pulling; the liveness of a pull,
   which needs a prover that reasons about fairness.
