-------------------------------- MODULE Sync --------------------------------
(***************************************************************************)
(* Nodes that serve and pull blocks (server.go), over the block database   *)
(* each of them keeps in a bolt file.                                      *)
(*                                                                         *)
(* sendData opens a connection for every message and the receiver starts a *)
(* goroutine for every connection, so a message in flight is a goroutine   *)
(* of the receiver at its first step.  Goroutines of a node share          *)
(* bc.topHash, KnownNodes and BlockInTransit without a lock; a step of a   *)
(* goroutine reads or writes them once, or is one bolt transaction, or one *)
(* send.  Between two runs of the server the command line program may add  *)
(* blocks; bolt's file lock keeps the two apart, and module Cli looks      *)
(* inside such a run, also at transactions that fail, which are left out   *)
(* here.                                                                   *)
(***************************************************************************)
EXTENDS Ledger

CONSTANTS
    Node,           \* the addresses servers listen on
    Seed,           \* KnownNodes[0] of a fresh process
    Clock,          \* the second each node mines at; its values may coincide
    GenesisTime,    \* the second each node's genesis block was made at
    Miner,          \* the address coinbase transactions pay
    Transfers,      \* the transfers the wallets of each node allow:
                    \*   records [key, to, amount]
    MaxHeight,      \* bound: no block is mined above this height
    MaxHandlers,    \* bound: how many messages a node handles at a time
    MaxRuns,        \* bound: how often a node's server is started
    MaxCrashes      \* bound: how many servers are killed

ASSUME SyncAssumption ==
    /\ Seed \in Node
    /\ MaxHeight \in Nat /\ MaxRuns \in Nat /\ MaxCrashes \in Nat
    /\ MaxHandlers \in Nat \ {0}

VARIABLES
    store,          \* durable: hash |-> block, the bucket of each node
    latest,         \* durable: the hash under "latest"
    chainstate,     \* durable: the bucket of unspent outputs
    up,             \* is the node's server running?
    top,            \* bc.topHash of the running server
    known,          \* KnownNodes of the running server
    transit,        \* BlockInTransit of the running server
    gor,            \* the goroutines of all servers, a bag of records
    runs,           \* how often each server has been started
    crashes         \* how many servers have been killed

durable  == <<store, latest, chainstate>>
volatile == <<up, top, known, transit>>
counters == <<runs, crashes>>
vars     == <<durable, volatile, gor, counters>>

-----------------------------------------------------------------------------

LatestBlock(n) == store[n][latest[n]]

\* GetLatestHeight
Height(n) == LatestBlock(n).height

At(n) == {g \in DOMAIN gor : g.at = n}

\* A goroutine g moves on: it is replaced by the records in S.
Become(g, S) == gor' = (gor (-) SetToBag({g})) (+) SetToBag(S)

\* [mutant of Deliver] A message waits for a server that is down.
DeliverLater(m) == {m}

\* A message reaches its receiver if that server is up.
Deliver(m) == IF up[m.at] THEN {m} ELSE {}

\* A round of the loops that copy a list without one of its elements.
keepUnless(a, kept, x) == IF x # a THEN Append(kept, x) ELSE kept

\* What these loops copy.
Without(list, a) == FoldLeft(LAMBDA kept, x : keepUnless(a, kept, x), <<>>, list)

(***************************************************************************)
(* Goroutine g of node g.at sends m and goes on as S.  A message to a node *)
(* that is down fails to connect, which strikes the node from KnownNodes;  *)
(* the caller never looks at the outcome.                                  *)
(***************************************************************************)
SendData(g, m, S) ==
    /\ Become(g, S \cup Deliver(m))
    /\ known' = [known EXCEPT ![g.at] =
                   IF up[m.at] THEN @ ELSE Without(@, m.at)]

\* The server of n ends, by a panic in one of its goroutines or from
\* outside; of the messages it was sending, those in S arrive cut short.
GoDown(n, S) ==
    /\ up'      = [up EXCEPT ![n] = FALSE]
    /\ top'     = [top EXCEPT ![n] = Empty]
    /\ known'   = [known EXCEPT ![n] = <<>>]
    /\ transit' = [transit EXCEPT ![n] = <<>>]
    /\ gor'     = [g \in DOMAIN gor \ At(n) |-> gor[g]] (+) SetToBag(S)

\* The nodes the goroutines in G may be sending a message to.
Receivers(G) ==
    {g.from : g \in {h \in G : h.pc \in {"version", "walk", "request", "getdata", "ask"}}}

\* The messages to the nodes of S that are up, cut short.
CutShort(S) == {[at |-> m, pc |-> "truncated"] : m \in {k \in S : up[k]}}

\* Goroutine g panics, which ends the process; the others may be sending.
Panic(g) ==
    /\ \E S \in SUBSET Receivers(At(g.at) \ {g}) : GoDown(g.at, CutShort(S))
    /\ UNCHANGED <<durable, counters>>

\* [mutant of WriteLocked] Transactions that update do not exclude each other.
NeverLocked(n) == FALSE

\* A goroutine inside db.Update holds bolt's write lock.
WriteLocked(n) == \E g \in At(n) : g.pc = "commit"

Arrivals == {"version", "getblocks", "inv", "getdata", "block", "truncated"}

\* The goroutines of n that are in the middle of a message.
Working(n) == {g \in At(n) : g.pc \notin Arrivals}

\* Node n may take up a message: it is in the middle of fewer than the bound.
MayStart(n) == Cardinality(UNION {{g} \X (1..gor[g]) : g \in Working(n)}) < MaxHandlers

-----------------------------------------------------------------------------
(* Processes come and go *)

Genesis(n) == GenesisBlock(GenesisTime[n], Miner)

\* Every node has been run once, on its own or on a copied database file.
Init ==
    /\ store      = [n \in Node |-> Put(<<>>, Genesis(n))]
    /\ latest     = [n \in Node |-> Genesis(n).hash]
    /\ chainstate = [n \in Node |-> FindAllUTXO(<<Genesis(n)>>)]
    /\ up         = [n \in Node |-> FALSE]
    /\ top        = [n \in Node |-> Empty]
    /\ known      = [n \in Node |-> <<>>]
    /\ transit    = [n \in Node |-> <<>>]
    /\ gor        = EmptyBag
    /\ runs       = [n \in Node |-> 0]
    /\ crashes    = 0

\* CreateBlockchain (the database exists) and StartServer up to the accept
\* loop: a node that is not the seed tells the seed its height, if it is up.
Start(n) ==
    LET version == [at |-> Seed, pc |-> "version", from |-> n, height |-> Height(n)]
        told    == n = Seed \/ up[Seed]
    IN  /\ ~up[n] /\ runs[n] < MaxRuns
        /\ ReachesGenesis(store[n], latest[n])
        /\ chainstate' = [chainstate EXCEPT ![n] = FindAllUTXO(Chain(store[n], latest[n]))]
        /\ up'         = [up EXCEPT ![n] = TRUE]
        /\ top'        = [top EXCEPT ![n] = latest[n]]
        /\ known'      = [known EXCEPT ![n] = IF told THEN <<Seed>> ELSE <<>>]
        /\ gor'        = gor (+) SetToBag(IF n # Seed /\ told THEN {version} ELSE {})
        /\ runs'       = [runs EXCEPT ![n] = @ + 1]
        /\ UNCHANGED <<store, latest, transit, crashes>>

\* A chain with a hole: StoreUTXO has emptied the bucket when FindAllUTXO
\* panics.  Every command of the program starts this way.
StartPanics(n) ==
    /\ ~up[n]
    /\ ~ReachesGenesis(store[n], latest[n])
    /\ chainstate' = [chainstate EXCEPT ![n] = <<>>]
    /\ UNCHANGED <<store, latest, volatile, gor, counters>>

\* A server is killed, possibly while its goroutines are sending.
Crash(n) ==
    /\ up[n] /\ crashes < MaxCrashes
    /\ crashes' = crashes + 1
    /\ \E S \in SUBSET Receivers(At(n)) : GoDown(n, CutShort(S))
    /\ UNCHANGED <<durable, runs>>

-----------------------------------------------------------------------------
(* Blocks mined by the command line program while the server is down *)

AddBlock(n, block) ==
    /\ ~up[n] /\ Height(n) < MaxHeight
    /\ ReachesGenesis(store[n], latest[n])
    /\ store'  = [store EXCEPT ![n] = Put(@, block)]
    /\ latest' = [latest EXCEPT ![n] = block.hash]
    /\ UNCHANGED <<volatile, gor, counters>>

\* [mutant of NextBlock] The time is not part of what is hashed.
TimelessBlock(n, txs) == NewBlock(latest[n], 0, txs, Height(n) + 1)

\* [mutant of NextBlock] AddBlock passes latestHeight without the 1.
FlatBlock(n, txs) == NewBlock(latest[n], Clock[n], txs, Height(n))

\* The block AddBlock puts on top of the latest one.
NextBlock(n, txs) == NewBlock(latest[n], Clock[n], txs, Height(n) + 1)

\* addblock rebuilds the unspent outputs at its start only.
AddCoinbase(n) ==
    /\ AddBlock(n, NextBlock(n, <<CoinBaseTx("outputsFirst", Miner)>>))
    /\ chainstate' = [chainstate EXCEPT ![n] = FindAllUTXO(Chain(store[n], latest[n]))]

\* sendtx rebuilds them again, in GetBalance, unless UpdateUTXO panics.
SendTx(n, transfer) ==
    LET chain   == Chain(store[n], latest[n])
        rebuilt == FindAllUTXO(chain)
    IN  \E tx \in CreateTransaction("outputsFirst", chain,
                    transfer.key, transfer.to, transfer.amount) :
          LET block == NextBlock(n, <<tx>>)
          IN  /\ VerifyTransaction("outputsFirst", tx, chain)
              /\ AddBlock(n, block)
              /\ chainstate' = [chainstate EXCEPT ![n] =
                    IF UpdateUTXO(rebuilt, block) = Nil THEN rebuilt
                    ELSE FindAllUTXO(<<block>> \o chain)]

-----------------------------------------------------------------------------
(* version *)

\* [mutant of Behind] The comparison the other way round.
Ahead(g) == g.height < Height(g.at)

\* The test of handleVersion: is the sender of the message higher?
Behind(g) == g.height > Height(g.at)

\* handleVersion: fetch from a higher node, otherwise answer with our
\* height.
handleVersion(g) ==
    /\ g.pc = "version" /\ MayStart(g.at)
    /\ SendData(g,
         IF Behind(g)
         THEN [at |-> g.from, pc |-> "getblocks", from |-> g.at]
         ELSE [at |-> g.from, pc |-> "version", from |-> g.at, height |-> Height(g.at)],
         {[at |-> g.at, pc |-> "isKnownNode", from |-> g.from]})
    /\ UNCHANGED <<durable, up, top, transit, counters>>

isKnownNode(g) ==
    /\ g.pc = "isKnownNode"
    /\ Become(g, IF g.from \in Range(known[g.at]) THEN {}
                 ELSE {[at |-> g.at, pc |-> "addKnown", from |-> g.from]})
    /\ UNCHANGED <<durable, volatile, counters>>

\* KnownNodes = append(KnownNodes, ...): the list is read and appended to ...
addKnown(g) ==
    /\ g.pc = "addKnown"
    /\ Become(g, {[at |-> g.at, pc |-> "setKnown", list |-> Append(known[g.at], g.from)]})
    /\ UNCHANGED <<durable, volatile, counters>>

\* ... and written back, over what other goroutines have made of it since.
setKnown(g) ==
    /\ g.pc = "setKnown"
    /\ known' = [known EXCEPT ![g.at] = g.list]
    /\ Become(g, {})
    /\ UNCHANGED <<durable, up, top, transit, counters>>

-----------------------------------------------------------------------------
(* getblocks and inv *)

\* handleGetBlocks: Iterator() takes bc.topHash ...
handleGetBlocks(g) ==
    /\ g.pc = "getblocks" /\ MayStart(g.at)
    /\ Become(g, {[at |-> g.at, pc |-> "walk", from |-> g.from, cursor |-> top[g.at]]})
    /\ UNCHANGED <<durable, volatile, counters>>

\* [mutant of Inventory] The loop appends block.PrevBlockHash.
PreviousHashes(chain) == [i \in DOMAIN chain |-> chain[i].prev]

\* The hashes of a chain, newest first.
Inventory(chain) == [i \in DOMAIN chain |-> chain[i].hash]

\* ... and GetBlockHashes follows it to the genesis block, or panics at a
\* block the database does not hold.
GetBlockHashes(g) ==
    /\ g.pc = "walk"
    /\ IF ReachesGenesis(store[g.at], g.cursor)
       THEN /\ SendData(g, [at |-> g.from, pc |-> "inv", from |-> g.at,
                            items |-> Inventory(Chain(store[g.at], g.cursor))], {})
            /\ UNCHANGED <<durable, up, top, transit, counters>>
       ELSE Panic(g)

\* handleInv: BlockInTransit is the whole list ...
handleInv(g) ==
    /\ g.pc = "inv" /\ MayStart(g.at)
    /\ transit' = [transit EXCEPT ![g.at] = g.items]
    /\ Become(g, {[at |-> g.at, pc |-> "request", from |-> g.from, id |-> g.items[1]]})
    /\ UNCHANGED <<durable, up, top, known, counters>>

\* ... the newest block is requested ...
requestLatest(g) ==
    /\ g.pc = "request"
    /\ SendData(g, [at |-> g.from, pc |-> "getdata", from |-> g.at, id |-> g.id],
                {[at |-> g.at, pc |-> "filter", id |-> g.id]})
    /\ UNCHANGED <<durable, up, top, transit, counters>>

\* ... and taken off the list as it is read now.
filterTransit(g) ==
    /\ g.pc = "filter"
    /\ Become(g, {[at |-> g.at, pc |-> "setTransit",
                   rest |-> Without(transit[g.at], g.id)]})
    /\ UNCHANGED <<durable, volatile, counters>>

\* BlockInTransit is overwritten, at the end of handleInv or handleBlock.
setTransit(g) ==
    /\ g.pc = "setTransit"
    /\ transit' = [transit EXCEPT ![g.at] = g.rest]
    /\ Become(g, {})
    /\ UNCHANGED <<durable, up, top, known, counters>>

-----------------------------------------------------------------------------
(* getdata and block *)

\* handleGetData panics if the block is not there.
handleGetData(g) ==
    /\ g.pc = "getdata" /\ MayStart(g.at)
    /\ IF g.id \in DOMAIN store[g.at]
       THEN /\ SendData(g, [at |-> g.from, pc |-> "block", from |-> g.at,
                            block |-> store[g.at][g.id]], {})
            /\ UNCHANGED <<durable, up, top, transit, counters>>
       ELSE Panic(g)

\* [mutant of Outgrows] Whatever arrives becomes the latest block.
OutgrowsAlways(block, n) == TRUE

\* [mutant of Outgrows] A block as high as the latest one replaces it.
OutgrowsOrEquals(block, n) == block.height >= Height(n)

\* The test of AddBlockBy: does the block become the latest one?
Outgrows(block, n) == block.height > Height(n)

\* Goroutine g further on in handleBlock.
With(g, pc) == [at |-> g.at, pc |-> pc, from |-> g.from, block |-> g.block]

\* AddBlockBy: one bolt transaction, but bc.topHash is set before it
\* commits.
AddBlockBy(g) ==
    /\ g.pc = "block" /\ MayStart(g.at) /\ ~WriteLocked(g.at)
    /\ IF Outgrows(g.block, g.at)
       THEN /\ top' = [top EXCEPT ![g.at] = g.block.hash]
            /\ Become(g, {With(g, "commit")})
            /\ UNCHANGED <<durable, up, known, transit, counters>>
       ELSE /\ store' = [store EXCEPT ![g.at] = Put(@, g.block)]
            /\ Become(g, {With(g, "next")})
            /\ UNCHANGED <<latest, chainstate, volatile, counters>>

commitBlock(g) ==
    /\ g.pc = "commit"
    /\ store'  = [store EXCEPT ![g.at] = Put(@, g.block)]
    /\ latest' = [latest EXCEPT ![g.at] = g.block.hash]
    /\ Become(g, {With(g, "next")})
    /\ UNCHANGED <<chainstate, volatile, counters>>

\* [mutant of HashesLeft] Off by one.
TwoHashesLeft(n) == Len(transit[n]) > 1

HashesLeft(n) == Len(transit[n]) > 0

\* The rest of handleBlock: with hashes left take the first, otherwise
\* bring the unspent outputs up to date with this block.
nextInTransit(g) ==
    /\ g.pc = "next"
    /\ Become(g, IF HashesLeft(g.at)
                 THEN {[at |-> g.at, pc |-> "ask", from |-> g.from, id |-> transit[g.at][1]]}
                 ELSE {[at |-> g.at, pc |-> "apply", block |-> g.block]})
    /\ UNCHANGED <<durable, volatile, counters>>

requestNext(g) ==
    /\ g.pc = "ask"
    /\ SendData(g, [at |-> g.from, pc |-> "getdata", from |-> g.at, id |-> g.id],
                {[at |-> g.at, pc |-> "pop"]})
    /\ UNCHANGED <<durable, up, top, transit, counters>>

\* BlockInTransit[1:] panics if another goroutine has emptied the list.
popTransit(g) ==
    /\ g.pc = "pop"
    /\ IF transit[g.at] = <<>> THEN Panic(g)
       ELSE /\ Become(g, {[at |-> g.at, pc |-> "setTransit", rest |-> Tail(transit[g.at])]})
            /\ UNCHANGED <<durable, volatile, counters>>

updateUTXO(g) ==
    LET updated == UpdateUTXO(chainstate[g.at], g.block)
    IN  /\ g.pc = "apply" /\ ~WriteLocked(g.at)
        /\ IF updated = Nil THEN Panic(g)
           ELSE /\ chainstate' = [chainstate EXCEPT ![g.at] = updated]
                /\ Become(g, {})
                /\ UNCHANGED <<store, latest, volatile, counters>>

\* handleConnection of a message cut short: slicing off the command, or
\* decoding the payload, panics.
readTruncated(g) == g.pc = "truncated" /\ MayStart(g.at) /\ Panic(g)

-----------------------------------------------------------------------------

handleConnection(g) ==
    \/ handleVersion(g)   \/ isKnownNode(g)    \/ addKnown(g)      \/ setKnown(g)
    \/ handleGetBlocks(g) \/ GetBlockHashes(g)
    \/ handleInv(g)       \/ requestLatest(g)  \/ filterTransit(g) \/ setTransit(g)
    \/ handleGetData(g)
    \/ AddBlockBy(g)      \/ commitBlock(g)    \/ nextInTransit(g)
    \/ requestNext(g)     \/ popTransit(g)     \/ updateUTXO(g)
    \/ readTruncated(g)

Processes(n) ==
    \/ Start(n) \/ StartPanics(n) \/ Crash(n)
    \/ AddCoinbase(n) \/ \E transfer \in Transfers[n] : SendTx(n, transfer)

Next ==
    \/ \E n \in Node : Processes(n)
    \/ \E g \in DOMAIN gor : handleConnection(g)

Spec == Init /\ [][Next]_vars

(***************************************************************************)
(* The Go scheduler runs every goroutine eventually.  Version messages can *)
(* be answered for ever, so each of them needs fairness of its own; every  *)
(* other step of a node occurs finitely often in a run of its server.      *)
(* Nobody has to start a server or to mine.                                *)
(***************************************************************************)
Steps == {"isKnownNode", "addKnown", "setKnown", "getblocks", "walk", "inv",
          "request", "filter", "setTransit", "getdata", "block", "commit", "next",
          "ask", "pop", "apply", "truncated"}

StepOf(n, pc) == \E g \in DOMAIN gor : g.at = n /\ g.pc = pc /\ handleConnection(g)

VersionFrom(n, m, height) ==
    \E g \in DOMAIN gor :
        g.at = n /\ g.pc = "version" /\ g.from = m /\ g.height = height /\ handleConnection(g)

Fairness ==
    /\ \A n \in Node, pc \in Steps : WF_vars(StepOf(n, pc))
    /\ \A m, n \in Node, height \in 0..MaxHeight : WF_vars(VersionFrom(n, m, height))

FairSpec == Spec /\ Fairness

-----------------------------------------------------------------------------
(* Properties *)

\* The blocks held, in a database or in a message.
InFlight == {g \in DOMAIN gor : g.pc \in {"block", "commit", "next", "apply"}}
Held(n)  == {store[n][h] : h \in DOMAIN store[n]}

\* Every variable has its type.
TypeOK ==
    /\ DOMAIN store = Node /\ DOMAIN chainstate = Node
    /\ \A n \in Node : \A h \in DOMAIN store[n] :
          store[n][h].hash = h /\ store[n][h].height \in 0..MaxHeight
    /\ DOMAIN latest = Node /\ \A n \in Node : latest[n] \in DOMAIN store[n]
    /\ up \in [Node -> BOOLEAN]
    /\ DOMAIN top = Node /\ DOMAIN known = Node /\ DOMAIN transit = Node
    /\ \A g \in DOMAIN gor :
          /\ g.at \in Node /\ up[g.at]
          /\ g.pc \in Steps \cup {"version"}
          /\ g.pc = "version" => g.height \in 0..MaxHeight
    /\ runs \in [Node -> 0..MaxRuns] /\ crashes \in 0..MaxCrashes

\* AddBlock and AddBlockBy keep "latest" on a highest block of the database,
\* in whatever order blocks are mined and arrive.
HeadIsHighest ==
    \A n \in Node : \A b \in Held(n) : b.height <= Height(n)

\* bc.topHash is the hash under "latest", except while AddBlockBy is about
\* to commit the block it already shows.
TopTracksLatest ==
    \A n \in Node : up[n] =>
        \/ top[n] = latest[n] /\ ~WriteLocked(n)
        \/ \E g \in At(n) : g.pc = "commit" /\ top[n] = g.block.hash
                            /\ g.block.height > Height(n)

\* Nodes that mine in different seconds never hold, or send, two different
\* blocks under one hash.
OneBlockPerHash ==
    LET all == (UNION {Held(n) : n \in Node}) \cup {g.block : g \in InFlight}
    IN  \A b, c \in all : b.hash = c.hash => b = c

\* No ancestor is lost to the group: whatever was cut short by a crash, the
\* predecessor of every block is in some node's database, one lower.
AncestryHeld ==
    \A n \in Node : \A b \in Held(n) :
        b.prev # Empty => \E m \in Node :
            b.prev \in DOMAIN store[m] /\ store[m][b.prev].height + 1 = b.height

\* Between two nodes a getdata always finds its block: the hash it names
\* came from the node it is sent to, also across restarts of both.
RequestHeld ==
    \A g \in DOMAIN gor : g.pc = "getdata" => g.id \in DOMAIN store[g.at]

\* When no block is being pulled any more, every node can walk its chain
\* down to a genesis block.
Quiet == \A g \in DOMAIN gor : g.pc \in {"version", "isKnownNode", "addKnown", "setKnown"}

PullComplete ==
    Quiet => \A n \in Node : ReachesGenesis(store[n], latest[n])

(***************************************************************************)
(* PullComplete holds of pulls that nothing cuts short and whose answers   *)
(* are not faster than the goroutines that asked for them.                 *)
(***************************************************************************)

\* A goroutine that has asked for a block is done with BlockInTransit before
\* the block it asked for is through AddBlockBy.
Timely ==
    \A g, h \in DOMAIN gor :
        g.at = h.at /\ g.pc \in {"filter", "setTransit", "pop"}
          => h.pc \notin {"commit", "next", "ask", "apply"}

\* A server is killed between two pulls, with no message left anywhere.
OrderlyKills == \A n \in Node : Crash(n) => Quiet /\ gor' = EmptyBag

PacedSpec == Init /\ [][Next /\ Timely' /\ OrderlyKills]_vars

\* Then no handler panics either, though any number of goroutines share the
\* list and the databases: a server that goes down was killed.  Without
\* Timely a block is asked for twice, two goroutines pop the last hash, and
\* the second one ends its server.
NoHandlerPanics == [][\A n \in Node : up[n] /\ ~up'[n] => crashes' # crashes]_vars

\* What the databases of the group promise.
Blocks == INSTANCE BlockStore WITH
    held <- [n \in Node |-> Held(n)], head <- [n \in Node |-> LatestBlock(n)]

BlockStoreSpec == Blocks!Spec

\* A node whose height reaches another node catches up with it, or the other
\* way round, unless one of the two stops.
HeadCatchUp ==
    \A m, n \in Node : \A height \in 0..MaxHeight :
        (\E g \in DOMAIN gor :
            g.at = n /\ g.pc = "version" /\ g.from = m /\ g.height = height)
        ~> (Height(m) = Height(n) \/ ~up[m] \/ ~up[n])

-----------------------------------------------------------------------------
(* What comments of the code say, and the code does not do.  PullComplete   *)
(* belongs here as well when answers may come at any time.                  *)

\* "Add the block to the local chain and update the set of unspent outputs"
\* (handleBlock): after a pull the two agree.
SyncedUtxo ==
    Quiet => \A n \in Node :
        up[n] /\ ReachesGenesis(store[n], latest[n])
          => chainstate[n] = FindAllUTXO(Chain(store[n], latest[n]))

=============================================================================
