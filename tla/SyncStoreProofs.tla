--------------------------- MODULE SyncStoreProofs ---------------------------
(***************************************************************************)
(* What the databases of a group of servers promise, proved for any nodes, *)
(* transfers and bounds, provided no two nodes mine in the same second:    *)
(* every step adds nothing to them, copies a block some node holds, or     *)
(* mines a block whose hash is new.  So Sync implements BlockStore.  Of    *)
(* two nodes it is also proved that a getdata always finds its block, and, *)
(* if nothing cuts pulls short and answers are not too fast, that a pull   *)
(* ends with a whole chain.                                                *)
(***************************************************************************)
EXTENDS SyncProofs, LedgerProofs

\* No two nodes mine in the same second.
NoClockTies == \A m, n \in Node : Clock[m] = Clock[n] => m = n

\* Databases that hold the same hash hold the same block.
StoresAgree ==
    \A m, n \in Node : \A h \in DOMAIN store[m] :
        h \in DOMAIN store[n] => store[m][h] = store[n][h]

\* Block b was mined by node k on top of a block that k holds.
MinedBy(b, k) ==
    /\ b.hash = <<b.prev, Clock[k]>>
    /\ b.hash \in DOMAIN store[k] /\ b.prev \in DOMAIN store[k]
    /\ store[k][b.prev].height + 1 = b.height

\* Where a block of a database comes from.
Origin ==
    \A n \in Node : \A h \in DOMAIN store[n] :
        \E k \in Node : store[n][h] = Genesis(k) \/ MinedBy(store[n][h], k)

Highest == \A n \in Node : \A h \in DOMAIN store[n] : store[n][h].height <= Height(n)

\* A block that is being sent or added is in some node's database.
Carriers == {"block", "commit", "next", "apply"}

IsStored(b) == \E m \in Node : b.hash \in DOMAIN store[m] /\ store[m][b.hash] = b

Carried == \A g \in DOMAIN gor : g.pc \in Carriers => IsStored(g.block)

Base     == TypeInv /\ LockInv
ChainInv == StoresAgree /\ Origin /\ Highest

-----------------------------------------------------------------------------
(* The three things a step can do to the databases *)

Untouched == UNCHANGED <<store, latest>>

\* Node n stores block b, which some node holds.
Copies(n, b) ==
    /\ IsStored(b)
    /\ store' = [store EXCEPT ![n] = Put(@, b)]
    /\ latest' = [latest EXCEPT ![n] = IF b.height > Height(n) THEN b.hash ELSE @]

\* Node n mines block b on top of its latest one.
Mines(n, b) ==
    /\ b.prev = latest[n] /\ b.hash = <<latest[n], Clock[n]>> /\ b.height = Height(n) + 1
    /\ store' = [store EXCEPT ![n] = Put(@, b)]
    /\ latest' = [latest EXCEPT ![n] = b.hash]

StoreStep == Untouched \/ \E n \in Node : \E b : Copies(n, b) \/ Mines(n, b)

\* No database loses or changes a block.
Grows ==
    \A n \in Node : \A h \in DOMAIN store[n] :
        h \in DOMAIN store'[n] /\ store'[n][h] = store[n][h]

\* Every step does one of the three.
LEMMA EveryStep ==
  ASSUME Base, Carried, [Next]_vars
  PROVE  StoreStep
<1>1. ASSUME NEW n \in Node, NEW txs, AddBlock(n, NextBlock(n, txs))
      PROVE  StoreStep
  <2>1. Mines(n, NextBlock(n, txs))
    BY <1>1 DEF AddBlock, Mines, NextBlock, NewBlock
  <2> QED
    BY <2>1 DEF StoreStep
<1>2. ASSUME NEW n \in Node, Processes(n)
      PROVE  StoreStep
  <2>1. CASE Start(n) \/ StartPanics(n) \/ Crash(n)
    BY <2>1 DEF Start, StartPanics, Crash, durable, StoreStep, Untouched
  <2>2. CASE AddCoinbase(n)
    BY <2>2, <1>1 DEF AddCoinbase
  <2>3. CASE \E transfer \in Transfers[n] : SendTx(n, transfer)
    BY <2>3, <1>1 DEF SendTx
  <2> QED
    BY <1>2, <2>1, <2>2, <2>3 DEF Processes
<1>3. ASSUME NEW g \in DOMAIN gor, Panic(g)
      PROVE  Untouched
  BY <1>3 DEF Panic, durable, Untouched
<1>4. ASSUME NEW g \in DOMAIN gor, AddBlockBy(g)
      PROVE  StoreStep
  <2>1. CASE Outgrows(g.block, g.at)
    BY <1>4, <2>1 DEF AddBlockBy, durable, StoreStep, Untouched
  <2>2. CASE ~Outgrows(g.block, g.at)
    <3>1. g.at \in Node /\ g.pc = "block" /\ IsStored(g.block)
      BY <1>4, Facts DEF Base, AddBlockBy, Carried, Carriers
    <3>2. ~(g.block.height > Height(g.at))
      BY <2>2 DEF Outgrows
    <3>3. /\ store' = [store EXCEPT ![g.at] = Put(@, g.block)]
          /\ latest' = latest
      BY <1>4, <2>2 DEF AddBlockBy
    <3>4. latest' = [latest EXCEPT ![g.at] =
                       IF g.block.height > Height(g.at) THEN g.block.hash ELSE @]
      BY <3>1, <3>2, <3>3 DEF Base, TypeInv, Shape
    <3>5. Copies(g.at, g.block)
      BY <3>1, <3>3, <3>4 DEF Copies
    <3> QED
      BY <3>1, <3>5 DEF StoreStep
  <2> QED
    BY <2>1, <2>2
<1>5. ASSUME NEW g \in DOMAIN gor, commitBlock(g)
      PROVE  StoreStep
  <2>1. g.at \in Node /\ g.pc = "commit" /\ IsStored(g.block)
    BY <1>5, Facts DEF Base, commitBlock, Carried, Carriers
  <2>2. g.block.height > Height(g.at)
    BY <2>1 DEF Base, LockInv, Locks
  <2>3. Copies(g.at, g.block)
    BY <1>5, <2>1, <2>2 DEF commitBlock, Copies
  <2> QED
    BY <2>1, <2>3 DEF StoreStep
<1>6. ASSUME NEW g \in DOMAIN gor, handleConnection(g)
      PROVE  StoreStep
  <2>1. CASE AddBlockBy(g) \/ commitBlock(g)
    BY <2>1, <1>4, <1>5
  <2>2. CASE \/ handleVersion(g) \/ isKnownNode(g) \/ addKnown(g) \/ setKnown(g)
             \/ handleGetBlocks(g) \/ handleInv(g) \/ requestLatest(g) \/ filterTransit(g) \/ setTransit(g)
             \/ nextInTransit(g) \/ requestNext(g)
    BY <2>2 DEF handleVersion, isKnownNode, addKnown, setKnown, handleGetBlocks, handleInv,
      requestLatest, filterTransit, setTransit, nextInTransit, requestNext, durable,
      StoreStep, Untouched
  <2>3. CASE GetBlockHashes(g) \/ handleGetData(g) \/ popTransit(g) \/ updateUTXO(g)
             \/ readTruncated(g)
    BY <2>3, <1>3 DEF GetBlockHashes, handleGetData, popTransit, updateUTXO, readTruncated,
      durable, StoreStep, Untouched
  <2> QED
    BY <1>6, <2>1, <2>2, <2>3 DEF handleConnection
<1>7. CASE UNCHANGED vars
  BY <1>7 DEF vars, durable, StoreStep, Untouched
<1> QED
  BY <1>2, <1>6, <1>7 DEF Next

-----------------------------------------------------------------------------
(* What they preserve *)

\* The origin of a block is kept by databases that only gain blocks.
LEMMA MinedByKept ==
  ASSUME Grows, NEW b, NEW k \in Node, MinedBy(b, k)
  PROVE  MinedBy(b, k)'
  BY DEF Grows, MinedBy

\* A copied block overwrites nothing but itself.
LEMMA CopyKeeps ==
  ASSUME Base, ChainInv, NEW n \in Node, NEW b, Copies(n, b)
  PROVE  /\ ChainInv' /\ Grows
         /\ store'[n] = Put(store[n], b)
         /\ \A h \in DOMAIN store[n] : Put(store[n], b)[h] = store[n][h]
         /\ \A m \in Node : m # n => store'[m] = store[m] /\ latest'[m] = latest[m]
         /\ latest'[n] = IF b.height > Height(n) THEN b.hash ELSE latest[n]
<1>1. PICK m \in Node : b.hash \in DOMAIN store[m] /\ store[m][b.hash] = b
  BY DEF Copies, IsStored
<1>2. /\ store'[n] = Put(store[n], b)
      /\ \A k \in Node : k # n => store'[k] = store[k] /\ latest'[k] = latest[k]
      /\ latest'[n] = IF b.height > Height(n) THEN b.hash ELSE latest[n]
  BY DEF Copies, Base, TypeInv, Shape
<1>3. b.hash \in DOMAIN store[n] => store[n][b.hash] = b
  BY <1>1 DEF ChainInv, StoresAgree
<1>4. /\ \A h \in DOMAIN store[n] : Put(store[n], b)[h] = store[n][h]
      /\ DOMAIN Put(store[n], b) = DOMAIN store[n] \cup {b.hash}
      /\ Put(store[n], b)[b.hash] = b
  BY <1>3 DEF Put
<1>5. Grows
  BY <1>2, <1>4 DEF Grows
<1>6. \A k \in Node : \A h \in DOMAIN store'[k] :
        \/ h \in DOMAIN store[k] /\ store'[k][h] = store[k][h]
        \/ k = n /\ h = b.hash /\ store'[k][h] = b
  BY <1>2, <1>4
<1>7. StoresAgree'
  BY <1>1, <1>6 DEF ChainInv, StoresAgree
<1>8. Origin'
  <2>1. SUFFICES ASSUME NEW k \in Node, NEW h \in DOMAIN store'[k], NEW c, c = store'[k][h]
                 PROVE  \E j \in Node : c = Genesis(j) \/ MinedBy(c, j)'
    BY DEF Origin, Genesis
  <2>2. PICK i \in Node : h \in DOMAIN store[i] /\ c = store[i][h]
    BY <1>1, <1>6, <2>1
  <2>3. PICK j \in Node : c = Genesis(j) \/ MinedBy(c, j)
    BY <2>2 DEF ChainInv, Origin
  <2> QED
    BY <2>3, <1>5, MinedByKept
<1>9. /\ latest[n] \in DOMAIN store[n] /\ b.height \in Int
      /\ \A k \in Node : Height(k) \in Int
      /\ \A k \in Node : \A h \in DOMAIN store[k] : store[k][h].height \in Int
  BY <1>1 DEF Base, TypeInv, Stored, Height, LatestBlock
<1>10. /\ \A k \in Node : k # n => Height(k)' = Height(k)
       /\ Height(n)' = IF b.height > Height(n) THEN b.height ELSE Height(n)
  <2>1. \A k \in Node : k # n => Height(k)' = Height(k)
    BY <1>2 DEF Height, LatestBlock
  <2>2. store'[n][b.hash] = b /\ store'[n][latest[n]] = store[n][latest[n]]
    BY <1>2, <1>4, <1>9
  <2> QED
    BY <1>2, <2>1, <2>2 DEF Height, LatestBlock
<1>11. Highest'
  BY <1>6, <1>9, <1>10 DEF ChainInv, Highest
<1> QED
  BY <1>2, <1>4, <1>5, <1>7, <1>8, <1>11 DEF ChainInv

\* A mined block is new: the only other node that could have made its hash
\* is the miner itself, and the miner's head would be that block by now.
LEMMA MineKeeps ==
  ASSUME NoClockTies, Base, ChainInv, NEW n \in Node, NEW b, Mines(n, b)
  PROVE  /\ ChainInv' /\ Grows
         /\ store'[n] = Put(store[n], b)
         /\ \A m \in Node : b.hash \notin DOMAIN store[m]
         /\ \A m \in Node : m # n => store'[m] = store[m] /\ latest'[m] = latest[m]
         /\ latest'[n] = b.hash
<1>1. /\ store'[n] = Put(store[n], b)
      /\ \A k \in Node : k # n => store'[k] = store[k] /\ latest'[k] = latest[k]
      /\ latest'[n] = b.hash
      /\ b.prev = latest[n] /\ b.hash = <<latest[n], Clock[n]>> /\ b.height = Height(n) + 1
  BY DEF Mines, Base, TypeInv, Shape
<1>2. /\ latest[n] \in DOMAIN store[n] /\ store[n][latest[n]].height = Height(n)
      /\ Height(n) \in Int
      /\ \A k \in Node : \A h \in DOMAIN store[k] :
           store[k][h].hash = h /\ store[k][h].height \in Int
  BY DEF Base, TypeInv, Stored, Height, LatestBlock
<1>3. latest[n] # Empty
  <2>1. PICK k \in Node : \/ store[n][latest[n]] = Genesis(k)
                          \/ MinedBy(store[n][latest[n]], k)
    BY <1>2 DEF ChainInv, Origin
  <2>2. \E p, t : Genesis(k).hash = <<p, t>>
    BY DEF Genesis, GenesisBlock, NewBlock
  <2>3. store[n][latest[n]].hash = latest[n]
    BY <1>2
  <2>4. PICK p, t : latest[n] = <<p, t>>
    BY <2>1, <2>2, <2>3 DEF MinedBy
  <2> QED
    BY <2>4 DEF Empty
<1>4. \A m \in Node : b.hash \notin DOMAIN store[m]
  <2>1. SUFFICES ASSUME NEW m \in Node, b.hash \in DOMAIN store[m]
                 PROVE  FALSE
    OBVIOUS
  <2> DEFINE c == store[m][b.hash]
  <2>2. c.hash = b.hash
    BY <1>2, <2>1
  <2>3. PICK k \in Node : c = Genesis(k) \/ MinedBy(c, k)
    BY <2>1 DEF ChainInv, Origin
  <2>4. CASE c = Genesis(k)
    BY <1>1, <1>3, <2>2, <2>4 DEF Genesis, GenesisBlock, NewBlock
  <2>5. CASE MinedBy(c, k)
    <3>1. c.prev = latest[n] /\ Clock[k] = Clock[n]
      BY <1>1, <2>2, <2>5 DEF MinedBy
    <3>2. k = n
      BY <3>1 DEF NoClockTies
    <3>3. c.height = Height(n) + 1 /\ b.hash \in DOMAIN store[n]
      BY <1>2, <2>2, <2>5, <3>1, <3>2 DEF MinedBy
    <3>4. store[n][b.hash] = c
      BY <2>1, <3>3 DEF ChainInv, StoresAgree
    <3> QED
      BY <1>2, <3>3, <3>4 DEF ChainInv, Highest
  <2> QED
    BY <2>3, <2>4, <2>5
<1>5. /\ \A h \in DOMAIN store[n] : Put(store[n], b)[h] = store[n][h]
      /\ DOMAIN Put(store[n], b) = DOMAIN store[n] \cup {b.hash}
      /\ Put(store[n], b)[b.hash] = b
  <2>1. b.hash \notin DOMAIN store[n]
    BY <1>4
  <2> QED
    BY <2>1 DEF Put
<1>6. Grows
  BY <1>1, <1>5 DEF Grows
<1>7. \A k \in Node : \A h \in DOMAIN store'[k] :
        \/ h \in DOMAIN store[k] /\ store'[k][h] = store[k][h]
        \/ k = n /\ h = b.hash /\ store'[k][h] = b
  BY <1>1, <1>5
<1>8. StoresAgree'
  BY <1>4, <1>7 DEF ChainInv, StoresAgree
<1>9. MinedBy(b, n)'
  <2>1. b.hash \in DOMAIN store'[n]
    BY <1>1, <1>5
  <2>2. b.prev \in DOMAIN store'[n] /\ store'[n][b.prev].height = Height(n)
    BY <1>1, <1>2, <1>6 DEF Grows
  <2> QED
    BY <1>1, <2>1, <2>2 DEF MinedBy
<1>10. Origin'
  <2>1. SUFFICES ASSUME NEW k \in Node, NEW h \in DOMAIN store'[k], NEW c, c = store'[k][h]
                 PROVE  \E j \in Node : c = Genesis(j) \/ MinedBy(c, j)'
    BY DEF Origin, Genesis
  <2>2. CASE h \in DOMAIN store[k] /\ c = store[k][h]
    <3>1. PICK j \in Node : c = Genesis(j) \/ MinedBy(c, j)
      BY <2>2 DEF ChainInv, Origin
    <3> QED
      BY <3>1, <1>6, MinedByKept
  <2>3. CASE c = b
    BY <1>9, <2>3
  <2> QED
    BY <1>7, <2>1, <2>2, <2>3
<1>11. Height(n)' = Height(n) + 1 /\ \A k \in Node : k # n => Height(k)' = Height(k)
  <2>1. \A k \in Node : k # n => Height(k)' = Height(k)
    BY <1>1 DEF Height, LatestBlock
  <2>2. store'[n][b.hash] = b
    BY <1>1, <1>5
  <2> QED
    BY <1>1, <2>1, <2>2 DEF Height, LatestBlock
<1>12. Highest'
  BY <1>1, <1>2, <1>7, <1>11 DEF ChainInv, Highest
<1> QED
  BY <1>1, <1>4, <1>6, <1>8, <1>10, <1>12 DEF ChainInv

-----------------------------------------------------------------------------
(* Blocks on their way *)

\* The blocks goroutines carry after this step were stored before it.
CarryKnown == \A x \in DOMAIN gor' : x.pc \in Carriers => IsStored(x.block)

\* Goroutines that move on, with or without a message.
LEMMA BecomeCarries ==
  ASSUME Base, Carried, NEW g \in DOMAIN gor, NEW S, Become(g, S),
         \A x \in S : x.pc \in Carriers => IsStored(x.block)
  PROVE  CarryKnown
<1>1. DOMAIN gor' \subseteq DOMAIN gor \cup S
  BY BecomeGor DEF Base, TypeInv, Shape
<1> QED
  BY <1>1 DEF Carried, CarryKnown

\* A message and what its sender does next.
LEMMA SendCarries ==
  ASSUME Base, Carried, NEW g \in DOMAIN gor, NEW m, NEW S, SendData(g, m, S),
         \A x \in S : x.pc \notin Carriers, m.pc \in Carriers => IsStored(m.block)
  PROVE  CarryKnown
<1>1. Become(g, S \cup Deliver(m))
  BY DEF SendData
<1>2. \A x \in S \cup Deliver(m) : x.pc \in Carriers => IsStored(x.block)
  BY DEF Deliver
<1> QED
  BY <1>1, <1>2, BecomeCarries

\* A server that goes down leaves no block behind.
LEMMA DownCarries ==
  ASSUME Base, Carried, NEW n, NEW M, GoDown(n, {[at |-> m, pc |-> "truncated"] : m \in M})
  PROVE  CarryKnown
<1> DEFINE S == {[at |-> m, pc |-> "truncated"] : m \in M}
<1>1. DOMAIN gor' = (DOMAIN gor \ At(n)) \cup S
  BY GoDownGor DEF Base, TypeInv, Shape
<1>2. \A x \in S : x.pc \notin Carriers
  BY DEF Carriers
<1> QED
  BY <1>1, <1>2 DEF Carried, CarryKnown

\* A panic is such an end.
LEMMA PanicCarries ==
  ASSUME Base, Carried, NEW g \in DOMAIN gor, Panic(g)
  PROVE  CarryKnown
<1>1. PICK M : GoDown(g.at, {[at |-> m, pc |-> "truncated"] : m \in M})
  BY PanicDown DEF Base
<1> QED
  BY <1>1, DownCarries

\* Only handleGetData puts a block into a message, and reads it from the
\* database; handleBlock passes on the block it was given.
LEMMA HandlersCarry ==
  ASSUME Base, Carried, NEW g \in DOMAIN gor, handleConnection(g)
  PROVE  CarryKnown
<1> USE DEF Carriers
<1>1. CASE handleVersion(g)
  <2> DEFINE m == IF Behind(g)
         THEN [at |-> g.from, pc |-> "getblocks", from |-> g.at]
         ELSE [at |-> g.from, pc |-> "version", from |-> g.at, height |-> Height(g.at)]
             x == [at |-> g.at, pc |-> "isKnownNode", from |-> g.from]
  <2>1. SendData(g, m, {x})
    BY <1>1 DEF handleVersion
  <2>2. m.pc \notin Carriers /\ x.pc \notin Carriers
    OBVIOUS
  <2> HIDE DEF m, x
  <2> QED
    BY <2>1, <2>2, SendCarries
<1>2. CASE isKnownNode(g)
  <2> DEFINE S == IF g.from \in Range(known[g.at]) THEN {}
                  ELSE {[at |-> g.at, pc |-> "addKnown", from |-> g.from]}
  <2>1. Become(g, S) /\ \A x \in S : x.pc \notin Carriers
    BY <1>2 DEF isKnownNode
  <2> QED
    BY <2>1, BecomeCarries
<1>3. CASE addKnown(g)
  <2> DEFINE x == [at |-> g.at, pc |-> "setKnown", list |-> Append(known[g.at], g.from)]
  <2>1. Become(g, {x}) /\ x.pc \notin Carriers
    BY <1>3 DEF addKnown
  <2> QED
    BY <2>1, BecomeCarries
<1>4. CASE handleGetBlocks(g)
  <2> DEFINE x == [at |-> g.at, pc |-> "walk", from |-> g.from, cursor |-> top[g.at]]
  <2>1. Become(g, {x}) /\ x.pc \notin Carriers
    BY <1>4 DEF handleGetBlocks
  <2> QED
    BY <2>1, BecomeCarries
<1>5. CASE GetBlockHashes(g) /\ ReachesGenesis(store[g.at], g.cursor)
  <2> DEFINE m == [at |-> g.from, pc |-> "inv", from |-> g.at,
                   items |-> Inventory(Chain(store[g.at], g.cursor))]
  <2>1. SendData(g, m, {}) /\ m.pc \notin Carriers
    BY <1>5 DEF GetBlockHashes
  <2> HIDE DEF m
  <2> QED
    BY <2>1, SendCarries
<1>6. CASE handleInv(g)
  <2> DEFINE x == [at |-> g.at, pc |-> "request", from |-> g.from, id |-> g.items[1]]
  <2>1. Become(g, {x}) /\ x.pc \notin Carriers
    BY <1>6 DEF handleInv
  <2> QED
    BY <2>1, BecomeCarries
<1>7. CASE requestLatest(g)
  <2> DEFINE m == [at |-> g.from, pc |-> "getdata", from |-> g.at, id |-> g.id]
             x == [at |-> g.at, pc |-> "filter", id |-> g.id]
  <2>1. SendData(g, m, {x}) /\ m.pc \notin Carriers /\ x.pc \notin Carriers
    BY <1>7 DEF requestLatest
  <2> HIDE DEF m, x
  <2> QED
    BY <2>1, SendCarries
<1>8. CASE filterTransit(g)
  <2> DEFINE x == [at |-> g.at, pc |-> "setTransit",
                   rest |-> Without(transit[g.at], g.id)]
  <2>1. Become(g, {x}) /\ x.pc \notin Carriers
    BY <1>8 DEF filterTransit
  <2> QED
    BY <2>1, BecomeCarries
<1>9. CASE handleGetData(g) /\ g.id \in DOMAIN store[g.at]
  <2> DEFINE m == [at |-> g.from, pc |-> "block", from |-> g.at,
                   block |-> store[g.at][g.id]]
  <2>1. SendData(g, m, {})
    BY <1>9 DEF handleGetData
  <2>2. g.at \in Node /\ store[g.at][g.id].hash = g.id
    BY <1>9, Facts DEF Base, TypeInv, Stored
  <2>3. IsStored(m.block)
    BY <1>9, <2>2 DEF IsStored
  <2> HIDE DEF m
  <2> QED
    BY <2>1, <2>3, SendCarries
<1>10. CASE AddBlockBy(g) \/ commitBlock(g)
  <2>1. PICK x : Become(g, {x}) /\ x.block = g.block /\ g.pc \in Carriers
    BY <1>10 DEF AddBlockBy, commitBlock, With
  <2> QED
    BY <2>1, BecomeCarries DEF Carried
<1>11. CASE nextInTransit(g)
  <2> DEFINE S == IF HashesLeft(g.at)
         THEN {[at |-> g.at, pc |-> "ask", from |-> g.from, id |-> transit[g.at][1]]}
         ELSE {[at |-> g.at, pc |-> "apply", block |-> g.block]}
  <2>1. Become(g, S) /\ IsStored(g.block)
    BY <1>11 DEF nextInTransit, Carried
  <2>2. \A x \in S : x.pc \in Carriers => x.block = g.block
    OBVIOUS
  <2> HIDE DEF S
  <2> QED
    BY <2>1, <2>2, BecomeCarries
<1>12. CASE requestNext(g)
  <2> DEFINE m == [at |-> g.from, pc |-> "getdata", from |-> g.at, id |-> g.id]
             x == [at |-> g.at, pc |-> "pop"]
  <2>1. SendData(g, m, {x}) /\ m.pc \notin Carriers /\ x.pc \notin Carriers
    BY <1>12 DEF requestNext
  <2> HIDE DEF m, x
  <2> QED
    BY <2>1, SendCarries
<1>13. CASE popTransit(g) /\ transit[g.at] # <<>>
  <2> DEFINE x == [at |-> g.at, pc |-> "setTransit", rest |-> Tail(transit[g.at])]
  <2>1. Become(g, {x}) /\ x.pc \notin Carriers
    BY <1>13 DEF popTransit
  <2> QED
    BY <2>1, BecomeCarries
<1>14. CASE updateUTXO(g) /\ UpdateUTXO(chainstate[g.at], g.block) # Nil
  BY <1>14, BecomeCarries DEF updateUTXO
<1>15. CASE \/ GetBlockHashes(g) /\ ~ReachesGenesis(store[g.at], g.cursor)
            \/ handleGetData(g) /\ g.id \notin DOMAIN store[g.at]
            \/ popTransit(g) /\ transit[g.at] = <<>>
            \/ updateUTXO(g) /\ UpdateUTXO(chainstate[g.at], g.block) = Nil
            \/ readTruncated(g)
  BY <1>15, PanicCarries DEF GetBlockHashes, handleGetData, popTransit, updateUTXO, readTruncated
<1>16. CASE setKnown(g) \/ setTransit(g)
  BY <1>16, BecomeCarries DEF setKnown, setTransit
<1> QED
  BY <1>1, <1>2, <1>3, <1>4, <1>5, <1>6, <1>7, <1>8, <1>9, <1>10, <1>11, <1>12, <1>13, <1>14,
     <1>15, <1>16 DEF handleConnection

\* Processes that come and go carry no block.
LEMMA ProcessesCarry ==
  ASSUME Base, Carried, NEW n \in Node, Processes(n)
  PROVE  CarryKnown
<1>1. CASE Start(n)
  <2> DEFINE version == [at |-> Seed, pc |-> "version", from |-> n, height |-> Height(n)]
             S == IF n # Seed /\ (n = Seed \/ up[Seed]) THEN {version} ELSE {}
  <2>1. gor' = gor (+) SetToBag(S)
    BY <1>1 DEF Start
  <2>2. DOMAIN gor' = DOMAIN gor \cup S
    BY <2>1, SentGor DEF Base, TypeInv, Shape
  <2>3. \A x \in S : x.pc \notin Carriers
    BY DEF Carriers
  <2> HIDE DEF S
  <2> QED
    BY <2>2, <2>3 DEF Carried, CarryKnown
<1>2. CASE Crash(n)
  <2>1. PICK M : GoDown(n, {[at |-> m, pc |-> "truncated"] : m \in M})
    BY <1>2, CrashDown DEF Base
  <2> QED
    BY <2>1, DownCarries
<1>3. CASE StartPanics(n) \/ AddCoinbase(n) \/ \E transfer \in Transfers[n] : SendTx(n, transfer)
  <2>1. gor' = gor
    BY <1>3 DEF StartPanics, AddCoinbase, SendTx, AddBlock
  <2> QED
    BY <2>1 DEF Carried, CarryKnown
<1> QED
  BY <1>1, <1>2, <1>3 DEF Processes

-----------------------------------------------------------------------------
(* The inductive invariant *)

StoreInv == Base /\ ChainInv /\ Carried

\* At first every database holds its genesis block only.
LEMMA InitStores == Init => StoreInv
<1> SUFFICES ASSUME Init PROVE StoreInv
  OBVIOUS
<1>1. Base
  BY InitTypes DEF Base
<1>2. \A n \in Node : store[n] = Put(<<>>, Genesis(n)) /\ latest[n] = Genesis(n).hash
  BY DEF Init
<1>3. \A n \in Node : /\ DOMAIN store[n] = {Genesis(n).hash}
                      /\ store[n][Genesis(n).hash] = Genesis(n)
  <2>1. \A n \in Node : DOMAIN store[n] = {Genesis(n).hash}
    BY DEF Init, Put
  <2>2. \A n \in Node : store[n][Genesis(n).hash] = Genesis(n)
    BY DEF Init, Put
  <2> QED
    BY <2>1, <2>2
<1>4. \A m, n \in Node : Genesis(m).hash = Genesis(n).hash => Genesis(m) = Genesis(n)
  BY DEF Genesis, GenesisBlock, NewBlock
<1>5. StoresAgree
  BY <1>3, <1>4 DEF StoresAgree
<1>6. Origin
  BY <1>3 DEF Origin
<1>7. \A n \in Node : Genesis(n).height = 0
  BY DEF Genesis, GenesisBlock, NewBlock
<1>8. Highest
  BY <1>2, <1>3, <1>7 DEF Highest, Height, LatestBlock
<1>9. Carried
  BY DEF Init, EmptyBag, SetToBag, Carried
<1> QED
  BY <1>1, <1>5, <1>6, <1>8, <1>9 DEF StoreInv, ChainInv

\* What a step does to the databases keeps the chain invariant.
LEMMA StepKeeps ==
  ASSUME NoClockTies, Base, ChainInv, StoreStep
  PROVE  ChainInv' /\ Grows
<1>1. CASE Untouched
  <2>1. Grows
    BY <1>1 DEF Untouched, Grows
  <2>2. StoresAgree' /\ Highest'
    BY <1>1 DEF Untouched, ChainInv, StoresAgree, Highest, Height, LatestBlock
  <2>3. Origin'
    BY <1>1 DEF Untouched, ChainInv, Origin, MinedBy, Genesis
  <2> QED
    BY <2>1, <2>2, <2>3 DEF ChainInv
<1> QED
  BY <1>1, CopyKeeps, MineKeeps DEF StoreStep

\* Blocks on their way stay stored, since databases only gain blocks.
LEMMA CarriedKept ==
  ASSUME Base, Carried, Grows, [Next]_vars
  PROVE  Carried'
<1>1. ASSUME NEW b, IsStored(b)
      PROVE  IsStored(b)'
  BY <1>1 DEF IsStored, Grows
<1>2. CASE UNCHANGED vars
  <2>1. gor' = gor
    BY <1>2 DEF vars
  <2> QED
    BY <1>1, <2>1 DEF Carried
<1>3. CASE CarryKnown
  BY <1>1, <1>3 DEF CarryKnown, Carried
<1> QED
  BY <1>2, <1>3, HandlersCarry, ProcessesCarry DEF Next

\* The invariant is inductive.
LEMMA StoreInvHolds == ASSUME NoClockTies PROVE Spec => []StoreInv
<1>1. ASSUME TypeInv, LockInv, [Next]_vars
      PROVE  TypeInv' /\ LockInv'
  BY <1>1, StepTypes
<1>2. ASSUME StoreInv, [Next]_vars
      PROVE  StoreInv'
  <2>1. Base /\ ChainInv /\ Carried
    BY <1>2 DEF StoreInv
  <2>2. Base'
    BY <1>1, <1>2, <2>1 DEF Base
  <2>3. ChainInv' /\ Grows
    BY <1>2, <2>1, EveryStep, StepKeeps
  <2>4. Carried'
    BY <1>2, <2>1, <2>3, CarriedKept
  <2> QED
    BY <2>2, <2>3, <2>4 DEF StoreInv
<1> QED
  BY <1>2, InitStores, PTL DEF Spec

-----------------------------------------------------------------------------
(* Theorems *)

\* Whatever order blocks are mined and arrive in, "latest" of every node
\* stays on a highest block of its database.
THEOREM SyncHeads == ASSUME NoClockTies PROVE Spec => []HeadIsHighest
<1>1. StoreInv => HeadIsHighest
  BY DEF StoreInv, ChainInv, Highest, HeadIsHighest, Held
<1> QED
  BY <1>1, StoreInvHolds, PTL

\* AddBlockBy may store what arrives over what is there: a hash names one
\* block in all databases and messages.
THEOREM SyncHashes == ASSUME NoClockTies PROVE Spec => []OneBlockPerHash
<1>1. StoreInv => OneBlockPerHash
  <2> SUFFICES ASSUME StoreInv PROVE OneBlockPerHash
    OBVIOUS
  <2> DEFINE all == (UNION {Held(n) : n \in Node}) \cup {g.block : g \in InFlight}
  <2>1. \A n \in Node : \A b \in Held(n) : IsStored(b)
    BY DEF StoreInv, Base, TypeInv, Stored, Held, IsStored
  <2>2. \A g \in InFlight : IsStored(g.block)
    BY DEF StoreInv, Carried, Carriers, InFlight
  <2>3. ASSUME NEW b \in all
        PROVE  IsStored(b)
    <3>1. CASE \E n \in Node : b \in Held(n)
      BY <2>1, <3>1
    <3>2. CASE \E g \in InFlight : b = g.block
      BY <2>2, <3>2
    <3> QED
      BY <2>3, <3>1, <3>2
  <2>4. \A b, c : IsStored(b) /\ IsStored(c) /\ b.hash = c.hash => b = c
    BY DEF StoreInv, ChainInv, StoresAgree, IsStored
  <2> HIDE DEF all
  <2>5. \A b, c \in all : b.hash = c.hash => b = c
    BY <2>3, <2>4
  <2> QED
    BY <2>5 DEF OneBlockPerHash, all
<1> QED
  BY <1>1, StoreInvHolds, PTL

\* However many servers are killed in the middle of a pull, the predecessor
\* of every stored block is in some node's database, one lower.
THEOREM SyncAncestry == ASSUME NoClockTies PROVE Spec => []AncestryHeld
<1>1. StoreInv => AncestryHeld
  <2> SUFFICES ASSUME StoreInv, NEW n \in Node, NEW h \in DOMAIN store[n],
                      store[n][h].prev # Empty
               PROVE  \E m \in Node : /\ store[n][h].prev \in DOMAIN store[m]
                                      /\ store[m][store[n][h].prev].height + 1
                                           = store[n][h].height
    BY DEF AncestryHeld, Held
  <2>1. PICK k \in Node : store[n][h] = Genesis(k) \/ MinedBy(store[n][h], k)
    BY DEF StoreInv, ChainInv, Origin
  <2>2. Genesis(k).prev = Empty
    BY DEF Genesis, GenesisBlock, NewBlock
  <2> QED
    BY <2>1, <2>2 DEF MinedBy
<1> QED
  BY <1>1, StoreInvHolds, PTL

-----------------------------------------------------------------------------
(* Sync implements BlockStore *)

held == [n \in Node |-> Held(n)]
head == [n \in Node |-> LatestBlock(n)]

\* What adding block b to the database of n does to the blocks held.
LEMMA HeldAdds ==
  ASSUME NEW n \in Node, NEW b, store'[n] = Put(store[n], b),
         \A h \in DOMAIN store[n] : Put(store[n], b)[h] = store[n][h],
         \A m \in Node : m # n => store'[m] = store[m]
  PROVE  held' = [held EXCEPT ![n] = @ \cup {b}]
<1>1. Held(n)' = Held(n) \cup {b}
  <2>1. /\ DOMAIN Put(store[n], b) = DOMAIN store[n] \cup {b.hash}
        /\ Put(store[n], b)[b.hash] = b
    BY DEF Put
  <2> QED
    BY <2>1 DEF Held
<1>2. \A m \in Node : m # n => Held(m)' = Held(m)
  BY DEF Held
<1> QED
  BY <1>1, <1>2 DEF held

\* Copying a block is a Copy of BlockStore.
LEMMA CopyImplements ==
  ASSUME Base, ChainInv, NEW n \in Node, NEW b, Copies(n, b)
  PROVE  Blocks!Next
<1>1. /\ store'[n] = Put(store[n], b)
      /\ \A h \in DOMAIN store[n] : Put(store[n], b)[h] = store[n][h]
      /\ \A m \in Node : m # n => store'[m] = store[m] /\ latest'[m] = latest[m]
      /\ latest'[n] = IF b.height > Height(n) THEN b.hash ELSE latest[n]
  BY CopyKeeps
<1>2. held' = [held EXCEPT ![n] = @ \cup {b}]
  BY <1>1, HeldAdds
<1>3. PICK m \in Node : b \in held[m]
  BY DEF Copies, IsStored, held, Held
<1>4. latest[n] \in DOMAIN store[n] /\ Put(store[n], b)[b.hash] = b
  BY DEF Base, TypeInv, Stored, Put
<1>5. /\ LatestBlock(n)' = IF b.height > head[n].height THEN b ELSE head[n]
      /\ \A k \in Node : k # n => LatestBlock(k)' = LatestBlock(k)
  BY <1>1, <1>4 DEF head, LatestBlock, Height
<1>6. head' = [head EXCEPT ![n] = IF b.height > @.height THEN b ELSE @]
  BY <1>5 DEF head
<1>7. Blocks!Copy(n, m)
  BY <1>2, <1>3, <1>6 DEF Blocks!Copy, held, head
<1> QED
  BY <1>7 DEF Blocks!Next

\* Mining a block is an Extend of BlockStore.
LEMMA MineImplements ==
  ASSUME NoClockTies, Base, ChainInv, NEW n \in Node, NEW b, Mines(n, b)
  PROVE  Blocks!Next
<1>1. /\ store'[n] = Put(store[n], b)
      /\ \A m \in Node : b.hash \notin DOMAIN store[m]
      /\ \A m \in Node : m # n => store'[m] = store[m] /\ latest'[m] = latest[m]
      /\ latest'[n] = b.hash
  BY MineKeeps
<1>2. \A h \in DOMAIN store[n] : Put(store[n], b)[h] = store[n][h]
  <2>1. b.hash \notin DOMAIN store[n]
    BY <1>1
  <2> QED
    BY <2>1 DEF Put
<1>3. held' = [held EXCEPT ![n] = @ \cup {b}] /\ b \in held'[n]
  <2>1. held' = [held EXCEPT ![n] = @ \cup {b}]
    BY <1>1, <1>2, HeldAdds
  <2> QED
    BY <2>1 DEF held
<1>4. \A m \in Node : \A c \in held[m] : c.hash # b.hash
  BY <1>1 DEF held, Held, Base, TypeInv, Stored
<1>5. /\ latest[n] \in DOMAIN store[n] /\ store[n][latest[n]].hash = latest[n]
      /\ Put(store[n], b)[b.hash] = b
  BY DEF Base, TypeInv, Stored, Put
<1>6. head' = [head EXCEPT ![n] = b]
  <2>1. LatestBlock(n)' = b /\ \A k \in Node : k # n => LatestBlock(k)' = LatestBlock(k)
    BY <1>1, <1>5 DEF LatestBlock
  <2> QED
    BY <2>1 DEF head
<1>7. b.prev = head[n].hash /\ b.height = head[n].height + 1
  BY <1>5 DEF Mines, head, LatestBlock, Height
<1>8. Blocks!Extend(n)
  BY <1>3, <1>4, <1>6, <1>7 DEF Blocks!Extend, held, head
<1> QED
  BY <1>8 DEF Blocks!Next

\* Whatever the servers send each other and however they end, provided no
\* two nodes mine in the same second, the group's databases do what
\* BlockStore allows: blocks are mined on the own head or copied, never
\* changed or lost, and heads only rise.
THEOREM SyncImplementsBlockStore == ASSUME NoClockTies PROVE Spec => BlockStoreSpec
<1>1. Init => Blocks!Init
  <2> SUFFICES ASSUME Init PROVE Blocks!Init
    OBVIOUS
  <2>1. \A n \in Node : /\ DOMAIN store[n] = {Genesis(n).hash}
                        /\ latest[n] = Genesis(n).hash
    BY DEF Init, Put
  <2>2. \A n \in Node : store[n][Genesis(n).hash] = Genesis(n)
    BY DEF Init, Put
  <2>3. \A n \in Node : LatestBlock(n) = Genesis(n) /\ Held(n) = {Genesis(n)}
    BY <2>1, <2>2 DEF LatestBlock, Held
  <2>4. /\ \A n \in Node : Genesis(n).prev = Empty /\ Genesis(n).height = 0
        /\ \A m, n \in Node : Genesis(m).hash = Genesis(n).hash => Genesis(m) = Genesis(n)
    BY DEF Genesis, GenesisBlock, NewBlock
  <2> QED
    BY <2>3, <2>4 DEF Blocks!Init
<1>2. ASSUME StoreInv, [Next]_vars
      PROVE  [Blocks!Next]_(Blocks!vars)
  <2>1. Base /\ ChainInv /\ StoreStep
    BY <1>2, EveryStep DEF StoreInv
  <2>2. CASE Untouched
    <3>1. /\ \A n \in Node : Held(n)' = Held(n)
          /\ \A n \in Node : LatestBlock(n)' = LatestBlock(n)
      BY <2>2 DEF Untouched, Held, LatestBlock
    <3>2. [n \in Node |-> Held(n)]' = [n \in Node |-> Held(n)]
      BY <3>1
    <3>3. [n \in Node |-> LatestBlock(n)]' = [n \in Node |-> LatestBlock(n)]
      BY <3>1
    <3> QED
      BY <3>2, <3>3 DEF Blocks!vars
  <2> QED
    BY <2>1, <2>2, CopyImplements, MineImplements DEF StoreStep
<1> QED
  BY <1>1, <1>2, StoreInvHolds, PTL DEF Spec, BlockStoreSpec, Blocks!Spec

-----------------------------------------------------------------------------
(* What is pulled between two nodes *)

\* The group has two nodes at most.
TwoNodes == \A l, m, n \in Node : l = m \/ m = n \/ l = n

\* The hashes a node other than n holds.
PeerHashes(n) == UNION {DOMAIN store[m] : m \in Node \ {n}}

\* The hashes a goroutine is about to ask for, and the list it is about to
\* ask from, are held by the other node; so is what a getdata names.
Answerable(g) ==
    /\ g.pc = "inv" => g.items \in Seq(PeerHashes(g.at)) /\ g.items # <<>>
    /\ g.pc \in {"request", "ask"} => g.id \in PeerHashes(g.at)
    /\ g.pc = "setTransit" => g.rest \in Seq(PeerHashes(g.at))
    /\ g.pc = "getdata" => g.id \in DOMAIN store[g.at]

Pulling == {"inv", "request", "ask", "setTransit", "getdata"}

PullInv ==
    /\ \A n \in Node : transit[n] \in Seq(PeerHashes(n))
    /\ \A g \in DOMAIN gor : Answerable(g)

\* After this step all of that was held before it.
PullKnown ==
    /\ \A n \in Node : transit'[n] \in Seq(PeerHashes(n))
    /\ \A x \in DOMAIN gor' : Answerable(x)

\* Goroutines that pull nothing.
LEMMA Idle == ASSUME NEW x, x.pc \notin Pulling PROVE Answerable(x)
  BY DEF Answerable, Pulling

\* Of two nodes, either holds the hashes the other one can be given.
LEMMA PeerIsOther ==
  ASSUME TwoNodes, NEW n \in Node, NEW m \in Node, m # n
  PROVE  PeerHashes(n) = DOMAIN store[m]
<1>1. \A k \in Node \ {n} : k = m
  BY DEF TwoNodes
<1> QED
  BY <1>1 DEF PeerHashes

\* Sequences over a larger set.
LEMMA SeqGrows == ASSUME NEW S, NEW T, S \subseteq T, NEW s \in Seq(S) PROVE s \in Seq(T)
  OBVIOUS

\* Databases only gain blocks.
LEMMA PullKept ==
  ASSUME Base', PullKnown, Grows
  PROVE  PullInv'
<1>1. \A n \in Node : DOMAIN store[n] \subseteq DOMAIN store'[n]
  BY DEF Grows
<1>2. ASSUME NEW n PROVE PeerHashes(n) \subseteq PeerHashes(n)'
  BY <1>1 DEF PeerHashes
<1>3. \A n \in Node : transit'[n] \in Seq(PeerHashes(n)')
  BY <1>2, SeqGrows DEF PullKnown
<1>4. ASSUME NEW x \in DOMAIN gor'
      PROVE  Answerable(x)'
  <2>1. Answerable(x)
    BY DEF PullKnown
  <2>2. x.pc = "inv" => x.items \in Seq(PeerHashes(x.at)') /\ x.items # <<>>
    BY <1>2, <2>1, SeqGrows DEF Answerable
  <2>3. x.pc = "setTransit" => x.rest \in Seq(PeerHashes(x.at)')
    BY <1>2, <2>1, SeqGrows DEF Answerable
  <2>4. x.pc \in {"request", "ask"} => x.id \in PeerHashes(x.at)'
    BY <1>2, <2>1 DEF Answerable
  <2>5. x.pc = "getdata" => x.id \in DOMAIN store'[x.at]
    BY <1>1, <2>1 DEF Answerable, Base, TypeInv, Goroutines, Sound
  <2> QED
    BY <2>2, <2>3, <2>4, <2>5 DEF Answerable
<1> QED
  BY <1>3, <1>4 DEF PullInv

\* A goroutine moves on, with or without a message ...
LEMMA BecomePulls ==
  ASSUME Base, PullInv, NEW g \in DOMAIN gor, NEW S, Become(g, S),
         \A x \in S : Answerable(x), UNCHANGED transit
  PROVE  PullKnown
<1>1. DOMAIN gor' \subseteq DOMAIN gor \cup S
  BY BecomeGor DEF Base, TypeInv, Shape
<1> QED
  BY <1>1 DEF PullInv, PullKnown

\* ... or overwrites BlockInTransit.
LEMMA ListPulls ==
  ASSUME Base, PullInv, NEW g \in DOMAIN gor, NEW S, Become(g, S),
         \A x \in S : Answerable(x),
         transit'[g.at] \in Seq(PeerHashes(g.at)),
         \A n \in Node : n # g.at => transit'[n] = transit[n]
  PROVE  PullKnown
<1>1. DOMAIN gor' \subseteq DOMAIN gor \cup S
  BY BecomeGor DEF Base, TypeInv, Shape
<1>2. \A n \in Node : transit'[n] \in Seq(PeerHashes(n))
  BY DEF PullInv
<1> QED
  BY <1>1, <1>2 DEF PullInv, PullKnown

LEMMA SendPulls ==
  ASSUME Base, PullInv, NEW g \in DOMAIN gor, NEW m, NEW S, SendData(g, m, S),
         Answerable(m), \A x \in S : Answerable(x), UNCHANGED transit
  PROVE  PullKnown
<1>1. Become(g, S \cup Deliver(m))
  BY DEF SendData
<1>2. \A x \in S \cup Deliver(m) : Answerable(x)
  BY DEF Deliver
<1> QED
  BY <1>1, <1>2, BecomePulls

\* A server that goes down asks for nothing.
LEMMA DownPulls ==
  ASSUME Base, PullInv, NEW n \in Node, NEW M,
         GoDown(n, {[at |-> m, pc |-> "truncated"] : m \in M})
  PROVE  PullKnown
<1> DEFINE S == {[at |-> m, pc |-> "truncated"] : m \in M}
<1>1. DOMAIN gor' = (DOMAIN gor \ At(n)) \cup S
  BY GoDownGor DEF Base, TypeInv, Shape
<1>2. \A x \in S : Answerable(x)
  BY Idle DEF Pulling
<1>3. \A k \in Node : transit'[k] = IF k = n THEN <<>> ELSE transit[k]
  BY DEF GoDown, Base, TypeInv, Domains
<1>4. \A k \in Node : <<>> \in Seq(PeerHashes(k))
  OBVIOUS
<1>5. \A k \in Node : transit'[k] \in Seq(PeerHashes(k))
  BY <1>3, <1>4 DEF PullInv
<1> QED
  BY <1>1, <1>2, <1>5 DEF PullInv, PullKnown

\* No block is stored under the empty hash.
LEMMA NoHashEmpty ==
  ASSUME Base, ChainInv, NEW n \in Node, NEW h \in DOMAIN store[n]
  PROVE  h # Empty
<1>1. PICK c : c = store[n][h]
  OBVIOUS
<1>2. PICK k \in Node : c = Genesis(k) \/ MinedBy(c, k)
  BY <1>1 DEF ChainInv, Origin
<1>3. c.hash = h
  BY <1>1 DEF Base, TypeInv, Stored
<1>4. PICK p, t : c.hash = <<p, t>>
  BY <1>2 DEF Genesis, GenesisBlock, NewBlock, MinedBy
<1> QED
  BY <1>3, <1>4 DEF Empty

\* The predecessor of a stored block, where it is stored, is lower.
LEMMA StoreDescends ==
  ASSUME Base, ChainInv, NEW n \in Node
  PROVE  Descends(store[n], MaxHeight)
<1> DEFINE blocks == store[n]
<1>1. SUFFICES ASSUME NEW k \in DOMAIN blocks
               PROVE  /\ blocks[k].height \in 0..MaxHeight
                      /\ blocks[k].prev \in DOMAIN blocks =>
                           blocks[blocks[k].prev].height < blocks[k].height
  BY DEF Descends
<1>2. blocks[k].height \in 0..MaxHeight
  BY DEF Base, TypeInv, Stored
<1>3. ASSUME blocks[k].prev \in DOMAIN blocks
      PROVE  blocks[blocks[k].prev].height < blocks[k].height
  <2>1. PICK m \in Node : blocks[k] = Genesis(m) \/ MinedBy(blocks[k], m)
    BY DEF ChainInv, Origin
  <2> DEFINE b == blocks[k]
             p == b.prev
  <2>2. blocks[p].hash = p /\ blocks[p].height \in 0..MaxHeight
    BY <1>3 DEF Base, TypeInv, Stored
  <2>3. p # Empty
    BY <1>3, NoHashEmpty
  <2>4. MinedBy(b, m)
    BY <2>1, <2>3 DEF Genesis, GenesisBlock, NewBlock
  <2>5. p \in DOMAIN store[m] /\ store[m][p].height + 1 = b.height
    BY <2>4 DEF MinedBy
  <2>6. store[m][p] = blocks[p]
    BY <1>3, <2>5 DEF ChainInv, StoresAgree
  <2> QED
    BY <2>2, <2>5, <2>6
<1> QED
  BY <1>2, <1>3

\* A chain that is walked is stored, so an inv lists what its sender holds.
LEMMA InventoryHeld ==
  ASSUME Base, ChainInv, NEW n \in Node, NEW h \in DOMAIN store[n]
  PROVE  LET items == Inventory(Chain(store[n], h))
         IN  items \in Seq(DOMAIN store[n]) /\ items # <<>>
<1> DEFINE blocks == store[n]
           chain == Chain(blocks, h)
<1>1. Descends(blocks, MaxHeight)
  BY StoreDescends
<1>2. chain \in Seq({blocks[k] : k \in DOMAIN blocks}) /\ chain # <<>>
  BY <1>1, SyncAssumption, ChainOfStored
<1>3. \A b \in {blocks[k] : k \in DOMAIN blocks} : b.hash \in DOMAIN blocks
  BY DEF Base, TypeInv, Stored
<1> HIDE DEF chain, blocks
<1>4. [i \in DOMAIN chain |-> chain[i].hash] \in Seq(DOMAIN blocks)
  BY <1>2, <1>3
<1>5. [i \in DOMAIN chain |-> chain[i].hash] # <<>>
  BY <1>2
<1> QED
  BY <1>4, <1>5 DEF Inventory, chain, blocks

\* Every step of a goroutine of two nodes keeps to what the other node holds.
LEMMA HandlersPull ==
  ASSUME TwoNodes, Base, ChainInv, PullInv, NEW g \in DOMAIN gor, handleConnection(g)
  PROVE  PullKnown
<1> USE DEF Pulling
<1>1. g.at \in Node /\ Answerable(g) /\ transit[g.at] \in Seq(PeerHashes(g.at))
  BY Facts DEF Base, PullInv
<1>2. g.pc \in Answering => g.from \in Node /\ g.from # g.at
  BY Facts DEF Base
<1>3. CASE handleVersion(g)
  <2> DEFINE m == IF Behind(g)
         THEN [at |-> g.from, pc |-> "getblocks", from |-> g.at]
         ELSE [at |-> g.from, pc |-> "version", from |-> g.at, height |-> Height(g.at)]
             x == [at |-> g.at, pc |-> "isKnownNode", from |-> g.from]
  <2>1. SendData(g, m, {x}) /\ UNCHANGED transit
    BY <1>3 DEF handleVersion
  <2>2. Answerable(m) /\ Answerable(x)
    BY Idle
  <2> HIDE DEF m, x
  <2> QED
    BY <2>1, <2>2, SendPulls
<1>4. CASE isKnownNode(g)
  <2> DEFINE S == IF g.from \in Range(known[g.at]) THEN {}
                  ELSE {[at |-> g.at, pc |-> "addKnown", from |-> g.from]}
  <2>1. Become(g, S) /\ UNCHANGED transit
    BY <1>4 DEF isKnownNode, volatile
  <2>2. \A x \in S : Answerable(x)
    BY Idle
  <2> HIDE DEF S
  <2> QED
    BY <2>1, <2>2, BecomePulls
<1>5. CASE addKnown(g)
  <2> DEFINE x == [at |-> g.at, pc |-> "setKnown", list |-> Append(known[g.at], g.from)]
  <2>1. Become(g, {x}) /\ UNCHANGED transit
    BY <1>5 DEF addKnown, volatile
  <2>2. Answerable(x)
    BY Idle
  <2> HIDE DEF x
  <2> QED
    BY <2>1, <2>2, BecomePulls
<1>6. CASE handleGetBlocks(g)
  <2> DEFINE x == [at |-> g.at, pc |-> "walk", from |-> g.from, cursor |-> top[g.at]]
  <2>1. Become(g, {x}) /\ UNCHANGED transit
    BY <1>6 DEF handleGetBlocks, volatile
  <2>2. Answerable(x)
    BY Idle
  <2> HIDE DEF x
  <2> QED
    BY <2>1, <2>2, BecomePulls
<1>7. CASE GetBlockHashes(g) /\ ReachesGenesis(store[g.at], g.cursor)
  <2> DEFINE list == Inventory(Chain(store[g.at], g.cursor))
             m == [at |-> g.from, pc |-> "inv", from |-> g.at, items |-> list]
  <2>1. SendData(g, m, {}) /\ UNCHANGED transit /\ g.pc = "walk"
    BY <1>7 DEF GetBlockHashes
  <2>2. g.cursor \in DOMAIN store[g.at]
    BY <1>7 DEF ReachesGenesis
  <2>3. list \in Seq(DOMAIN store[g.at]) /\ list # <<>>
    BY <1>1, <2>2, InventoryHeld
  <2>4. DOMAIN store[g.at] \subseteq PeerHashes(g.from)
    BY <1>1, <1>2, <2>1 DEF PeerHashes, Answering
  <2> HIDE DEF list
  <2>5. list \in Seq(PeerHashes(g.from))
    BY <2>3, <2>4, SeqGrows
  <2>6. Answerable(m)
    BY <2>3, <2>5 DEF Answerable
  <2> HIDE DEF m
  <2> QED
    BY <2>1, <2>6, SendPulls
<1>8. CASE handleInv(g)
  <2> DEFINE x == [at |-> g.at, pc |-> "request", from |-> g.from, id |-> g.items[1]]
  <2>1. Become(g, {x}) /\ g.pc = "inv" /\ transit' = [transit EXCEPT ![g.at] = g.items]
    BY <1>8 DEF handleInv
  <2>2. g.items \in Seq(PeerHashes(g.at)) /\ g.items # <<>>
    BY <1>1, <2>1 DEF Answerable
  <2>3. g.items[1] \in PeerHashes(g.at)
    BY <2>2
  <2>4. Answerable(x)
    BY <2>3 DEF Answerable
  <2>5. transit'[g.at] = g.items /\ \A n \in Node : n # g.at => transit'[n] = transit[n]
    BY <1>1, <2>1 DEF Base, TypeInv, Domains
  <2> HIDE DEF x
  <2> QED
    BY <2>1, <2>2, <2>4, <2>5, ListPulls
<1>9. CASE requestLatest(g)
  <2> DEFINE m == [at |-> g.from, pc |-> "getdata", from |-> g.at, id |-> g.id]
             x == [at |-> g.at, pc |-> "filter", id |-> g.id]
  <2>1. SendData(g, m, {x}) /\ g.pc = "request" /\ UNCHANGED transit
    BY <1>9 DEF requestLatest
  <2>2. g.id \in DOMAIN store[g.from]
    BY <1>1, <1>2, <2>1, PeerIsOther DEF Answerable, Answering
  <2>3. Answerable(m)
    BY <2>2 DEF Answerable
  <2>4. Answerable(x)
    BY Idle
  <2> HIDE DEF m, x
  <2> QED
    BY <2>1, <2>3, <2>4, SendPulls
<1>10. CASE filterTransit(g)
  <2> DEFINE x == [at |-> g.at, pc |-> "setTransit", rest |-> Without(transit[g.at], g.id)]
  <2>1. Become(g, {x}) /\ UNCHANGED transit
    BY <1>10 DEF filterTransit, volatile
  <2>2. Without(transit[g.at], g.id) \in Seq(PeerHashes(g.at))
    BY <1>1, WithoutKeeps
  <2>3. Answerable(x)
    BY <2>2 DEF Answerable
  <2> HIDE DEF x
  <2> QED
    BY <2>1, <2>3, BecomePulls
<1>11. CASE setTransit(g)
  <2>1. Become(g, {}) /\ g.pc = "setTransit" /\ transit' = [transit EXCEPT ![g.at] = g.rest]
    BY <1>11 DEF setTransit
  <2>2. g.rest \in Seq(PeerHashes(g.at))
    BY <1>1, <2>1 DEF Answerable
  <2>3. transit'[g.at] = g.rest /\ \A n \in Node : n # g.at => transit'[n] = transit[n]
    BY <1>1, <2>1 DEF Base, TypeInv, Domains
  <2> QED
    BY <2>1, <2>2, <2>3, ListPulls
<1>12. CASE handleGetData(g) /\ g.id \in DOMAIN store[g.at]
  <2> DEFINE m == [at |-> g.from, pc |-> "block", from |-> g.at,
                   block |-> store[g.at][g.id]]
  <2>1. SendData(g, m, {}) /\ UNCHANGED transit
    BY <1>12 DEF handleGetData
  <2>2. Answerable(m)
    BY Idle
  <2> HIDE DEF m
  <2> QED
    BY <2>1, <2>2, SendPulls
<1>13. CASE AddBlockBy(g) \/ commitBlock(g)
  <2>1. PICK x : Become(g, {x}) /\ x.pc \notin Pulling /\ UNCHANGED transit
    BY <1>13 DEF AddBlockBy, commitBlock, With, volatile
  <2>2. Answerable(x)
    BY <2>1, Idle
  <2> QED
    BY <2>1, <2>2, BecomePulls
<1>14. CASE nextInTransit(g) /\ HashesLeft(g.at)
  <2> DEFINE x == [at |-> g.at, pc |-> "ask", from |-> g.from, id |-> transit[g.at][1]]
  <2>1. Become(g, {x}) /\ UNCHANGED transit
    BY <1>14 DEF nextInTransit, volatile
  <2>2. transit[g.at][1] \in PeerHashes(g.at)
    BY <1>1, <1>14 DEF HashesLeft
  <2>3. Answerable(x)
    BY <2>2 DEF Answerable
  <2> HIDE DEF x
  <2> QED
    BY <2>1, <2>3, BecomePulls
<1>15. CASE nextInTransit(g) /\ ~HashesLeft(g.at)
  <2> DEFINE x == [at |-> g.at, pc |-> "apply", block |-> g.block]
  <2>1. Become(g, {x}) /\ UNCHANGED transit
    BY <1>15 DEF nextInTransit, volatile
  <2>2. Answerable(x)
    BY Idle
  <2> HIDE DEF x
  <2> QED
    BY <2>1, <2>2, BecomePulls
<1>16. CASE requestNext(g)
  <2> DEFINE m == [at |-> g.from, pc |-> "getdata", from |-> g.at, id |-> g.id]
             x == [at |-> g.at, pc |-> "pop"]
  <2>1. SendData(g, m, {x}) /\ g.pc = "ask" /\ UNCHANGED transit
    BY <1>16 DEF requestNext
  <2>2. g.id \in DOMAIN store[g.from]
    BY <1>1, <1>2, <2>1, PeerIsOther DEF Answerable, Answering
  <2>3. Answerable(m)
    BY <2>2 DEF Answerable
  <2>4. Answerable(x)
    BY Idle
  <2> HIDE DEF m, x
  <2> QED
    BY <2>1, <2>3, <2>4, SendPulls
<1>17. CASE popTransit(g) /\ transit[g.at] # <<>>
  <2> DEFINE x == [at |-> g.at, pc |-> "setTransit", rest |-> Tail(transit[g.at])]
  <2>1. Become(g, {x}) /\ UNCHANGED transit
    BY <1>17 DEF popTransit, volatile
  <2>2. Tail(transit[g.at]) \in Seq(PeerHashes(g.at))
    <3>1. \A S : \A s \in Seq(S) : s # <<>> => Tail(s) \in Seq(S)
      OBVIOUS
    <3> QED
      BY <1>1, <1>17, <3>1
  <2>3. Answerable(x)
    BY <2>2 DEF Answerable
  <2> HIDE DEF x
  <2> QED
    BY <2>1, <2>3, BecomePulls
<1>18. CASE updateUTXO(g) /\ UpdateUTXO(chainstate[g.at], g.block) # Nil
  <2>1. Become(g, {}) /\ UNCHANGED transit
    BY <1>18 DEF updateUTXO, volatile
  <2> QED
    BY <2>1, BecomePulls
<1>19. CASE Panic(g)
  <2>1. PICK M : GoDown(g.at, {[at |-> m, pc |-> "truncated"] : m \in M})
    BY <1>19, PanicDown DEF Base
  <2> QED
    BY <1>1, <2>1, DownPulls
<1>20. CASE setKnown(g)
  <2>1. Become(g, {}) /\ UNCHANGED transit
    BY <1>20 DEF setKnown
  <2> QED
    BY <2>1, BecomePulls
<1> HIDE DEF Pulling
<1>21. \/ GetBlockHashes(g) /\ ~ReachesGenesis(store[g.at], g.cursor)
       \/ handleGetData(g) /\ g.id \notin DOMAIN store[g.at]
       \/ popTransit(g) /\ transit[g.at] = <<>>
       \/ updateUTXO(g) /\ UpdateUTXO(chainstate[g.at], g.block) = Nil
       \/ readTruncated(g)
       => Panic(g)
  BY DEF GetBlockHashes, handleGetData, popTransit, updateUTXO, readTruncated
<1> QED
  BY <1>3, <1>4, <1>5, <1>6, <1>7, <1>8, <1>9, <1>10, <1>11, <1>12, <1>13, <1>14, <1>15,
     <1>16, <1>17, <1>18, <1>19, <1>20, <1>21 DEF handleConnection

\* Nor do processes that come and go change what is asked for.
LEMMA ProcessesPull ==
  ASSUME Base, PullInv, NEW n \in Node, Processes(n)
  PROVE  PullKnown
<1>1. CASE Start(n)
  <2> DEFINE version == [at |-> Seed, pc |-> "version", from |-> n, height |-> Height(n)]
             S == IF n # Seed /\ (n = Seed \/ up[Seed]) THEN {version} ELSE {}
  <2>1. gor' = gor (+) SetToBag(S) /\ UNCHANGED transit
    BY <1>1 DEF Start
  <2>2. DOMAIN gor' = DOMAIN gor \cup S
    BY <2>1, SentGor DEF Base, TypeInv, Shape
  <2>3. \A x \in S : Answerable(x)
    BY Idle DEF Pulling
  <2> HIDE DEF S
  <2> QED
    BY <2>1, <2>2, <2>3 DEF PullInv, PullKnown
<1>2. CASE Crash(n)
  <2>1. PICK M : GoDown(n, {[at |-> m, pc |-> "truncated"] : m \in M})
    BY <1>2, CrashDown DEF Base
  <2> QED
    BY <2>1, DownPulls
<1>3. CASE StartPanics(n) \/ AddCoinbase(n) \/ \E transfer \in Transfers[n] : SendTx(n, transfer)
  <2>1. gor' = gor /\ transit' = transit
    BY <1>3 DEF StartPanics, AddCoinbase, SendTx, AddBlock, volatile
  <2> QED
    BY <2>1 DEF PullInv, PullKnown
<1> QED
  BY <1>1, <1>2, <1>3 DEF Processes

\* Between two nodes a getdata always finds its block: the hash it names was
\* taken from an inv of the node it is sent to, filtered and shortened by
\* goroutines that overwrite each other's lists, and that node loses no block,
\* whichever of the two panics, is killed and starts again in between.
THEOREM SyncRequests ==
  ASSUME NoClockTies, TwoNodes
  PROVE  Spec => []RequestHeld
<1>1. Init => PullInv
  <2> SUFFICES ASSUME Init PROVE PullInv
    OBVIOUS
  <2>1. DOMAIN gor = {} /\ \A n \in Node : transit[n] = <<>>
    BY DEF Init, EmptyBag, SetToBag
  <2>2. \A n \in Node : <<>> \in Seq(PeerHashes(n))
    OBVIOUS
  <2> QED
    BY <2>1, <2>2 DEF PullInv
<1>2. ASSUME StoreInv, StoreInv', PullInv, [Next]_vars
      PROVE  PullInv'
  <2>1. PullKnown
    <3>1. CASE UNCHANGED vars
      <4>1. gor' = gor /\ transit' = transit
        BY <3>1 DEF vars, volatile
      <4> QED
        BY <4>1, <1>2 DEF PullInv, PullKnown
    <3> QED
      BY <1>2, <3>1, HandlersPull, ProcessesPull DEF StoreInv, Next
  <2>2. Grows
    BY <1>2, EveryStep, StepKeeps DEF StoreInv
  <2> QED
    BY <1>2, <2>1, <2>2, PullKept DEF StoreInv
<1>3. PullInv => RequestHeld
  BY DEF PullInv, Answerable, RequestHeld
<1>4. Spec => []StoreInv
  BY StoreInvHolds
<1> QED
  BY <1>1, <1>2, <1>3, <1>4, PTL DEF Spec

-----------------------------------------------------------------------------
(* Blocks of one transaction and rebuilt buckets *)

\* Nil is a value of its own, not a map.
NilIsNoMap == ~IsMap(Nil)

\* Every block of a database holds one transaction, and no bucket of unspent
\* outputs is the outcome of a panic.
Tidy ==
    /\ \A n \in Node : \A h \in DOMAIN store[n] : Single(store[n][h])
    /\ \A n \in Node : chainstate[n] # Nil

\* A walk over such blocks leaves a bucket behind.
LEMMA BucketsRebuilt ==
  ASSUME NilIsNoMap, NEW B, NEW chain \in Seq(B), \A b \in B : Single(b)
  PROVE  FindAllUTXO(chain) # Nil
<1>1. \A i \in DOMAIN chain : Single(chain[i])
  OBVIOUS
<1>2. Visited(chain) \in Seq(Range(Visited(chain)))
  BY <1>1, VisitedSingles
<1>3. IsMap(FindAllUTXO(chain))
  BY <1>2, UnspentIsMap
<1> QED
  BY <1>3 DEF NilIsNoMap

\* The chain of a node is made of the blocks it holds.
LEMMA ChainHeld ==
  ASSUME Base, ChainInv, NEW n \in Node
  PROVE  Chain(store[n], latest[n]) \in Seq(Held(n))
<1>1. Descends(store[n], MaxHeight) /\ latest[n] \in DOMAIN store[n]
  BY StoreDescends DEF Base, TypeInv, Stored
<1>2. Chain(store[n], latest[n]) \in Seq({store[n][h] : h \in DOMAIN store[n]})
  BY <1>1, SyncAssumption, ChainOfStored
<1> QED
  BY <1>2 DEF Held

\* At first every database holds a genesis block.
LEMMA InitTidy == ASSUME NilIsNoMap PROVE Init => Tidy
<1> SUFFICES ASSUME Init, NEW n \in Node
             PROVE  /\ \A h \in DOMAIN store[n] : Single(store[n][h])
                    /\ chainstate[n] # Nil
  BY DEF Tidy
<1>1. PICK b : b = Genesis(n)
  OBVIOUS
<1>2. Single(b)
  <2>1. b.txs = <<CoinBaseTx("transactionFirst", Miner)>>
    BY <1>1 DEF Genesis, GenesisBlock, NewBlock
  <2> QED
    BY <2>1 DEF Single
<1>3. \A h \in DOMAIN store[n] : store[n][h] = b
  BY <1>1 DEF Init, Put
<1>4. PICK B : B = {b}
  OBVIOUS
<1>5. PICK chain : chain = <<b>> /\ chain \in Seq(B)
  <2>1. <<b>> \in Seq(B)
    BY <1>4
  <2> QED
    BY <2>1
<1>6. FindAllUTXO(chain) # Nil
  <2>1. \A c \in B : Single(c)
    BY <1>2, <1>4
  <2> QED
    BY <1>5, <2>1, BucketsRebuilt
<1>7. chainstate[n] = FindAllUTXO(chain)
  BY <1>1, <1>5 DEF Init
<1> QED
  BY <1>2, <1>3, <1>6, <1>7

\* Storing a block of one transaction, whatever becomes of the bucket.
LEMMA PutTidy ==
  ASSUME Base, Tidy, NEW n \in Node, NEW b, Single(b),
         store' = [store EXCEPT ![n] = Put(@, b)]
  PROVE  \A m \in Node : \A h \in DOMAIN store'[m] : Single(store'[m][h])
<1>1. store'[n] = Put(store[n], b) /\ \A m \in Node : m # n => store'[m] = store[m]
  BY DEF Base, TypeInv, Shape
<1>2. \A h \in DOMAIN Put(store[n], b) :
        Put(store[n], b)[h] = b \/ (h \in DOMAIN store[n] /\ Put(store[n], b)[h] = store[n][h])
  BY DEF Put
<1> QED
  BY <1>1, <1>2 DEF Tidy

\* The bucket of one node is replaced.
LEMMA BucketTidy ==
  ASSUME Base, Tidy, NEW n \in Node, NEW bucket, bucket # Nil,
         chainstate' = [chainstate EXCEPT ![n] = bucket]
  PROVE  \A m \in Node : chainstate'[m] # Nil
  BY DEF Base, TypeInv, Domains, Tidy

\* A step keeps blocks and buckets in this form.
LEMMA StepTidy ==
  ASSUME NilIsNoMap, StoreInv, Tidy, [Next]_vars
  PROVE  Tidy'
<1>1. Base /\ ChainInv /\ Carried
  BY DEF StoreInv
<1> DEFINE Blocked == \A m \in Node : \A h \in DOMAIN store'[m] : Single(store'[m][h])
           Filled == \A m \in Node : chainstate'[m] # Nil
<1>2. store' = store => Blocked
  BY DEF Tidy
<1>3. chainstate' = chainstate => Filled
  BY DEF Tidy
<1>4. ASSUME NEW n \in Node PROVE FindAllUTXO(Chain(store[n], latest[n])) # Nil
  <2>1. Chain(store[n], latest[n]) \in Seq(Held(n))
    BY <1>1, ChainHeld
  <2>2. \A b \in Held(n) : Single(b)
    BY DEF Tidy, Held
  <2> QED
    BY <2>1, <2>2, BucketsRebuilt
<1>5. Filled /\ Blocked => Tidy'
  BY DEF Tidy
<1> HIDE DEF Blocked, Filled
<1>6. ASSUME NEW n \in Node, Processes(n)
      PROVE  Tidy'
  <2>1. CASE Start(n)
    <3>1. store' = store
      BY <2>1 DEF Start
    <3>2. Filled
      BY <1>1, <1>4, <2>1, BucketTidy DEF Start, Filled
    <3> QED
      BY <1>2, <1>5, <3>1, <3>2
  <2>2. CASE StartPanics(n)
    <3>1. store' = store /\ chainstate' = [chainstate EXCEPT ![n] = <<>>]
      BY <2>2 DEF StartPanics
    <3>2. <<>> # Nil
      <4>1. IsMap(<<>>)
        BY DEF IsMap
      <4> QED
        BY <4>1 DEF NilIsNoMap
    <3>3. Filled
      BY <1>1, <3>1, <3>2, BucketTidy DEF Filled
    <3> QED
      BY <1>2, <1>5, <3>1, <3>3
  <2>3. CASE Crash(n)
    BY <1>2, <1>3, <1>5, <2>3 DEF Crash, durable
  <2>4. CASE AddCoinbase(n)
    <3> DEFINE b == NextBlock(n, <<CoinBaseTx("outputsFirst", Miner)>>)
    <3>1. store' = [store EXCEPT ![n] = Put(@, b)]
      BY <2>4 DEF AddCoinbase, AddBlock
    <3>2. Single(b)
      BY DEF NextBlock, NewBlock, Single
    <3>3. chainstate' = [chainstate EXCEPT ![n] = FindAllUTXO(Chain(store[n], latest[n]))]
      BY <2>4 DEF AddCoinbase
    <3> HIDE DEF b
    <3>4. Blocked
      BY <1>1, <3>1, <3>2, PutTidy DEF Blocked
    <3>5. Filled
      BY <1>1, <1>4, <3>3, BucketTidy DEF Filled
    <3> QED
      BY <1>5, <3>4, <3>5
  <2>5. ASSUME NEW transfer \in Transfers[n], SendTx(n, transfer)
        PROVE  Tidy'
    <3>1. PICK chain : chain = Chain(store[n], latest[n])
      OBVIOUS
    <3>2. PICK tx : LET block == NextBlock(n, <<tx>>)
                    IN  /\ AddBlock(n, block)
                        /\ chainstate' = [chainstate EXCEPT ![n] =
                             IF UpdateUTXO(FindAllUTXO(chain), block) = Nil THEN FindAllUTXO(chain)
                             ELSE FindAllUTXO(<<block>> \o chain)]
      BY <2>5, <3>1 DEF SendTx
    <3> DEFINE b == NextBlock(n, <<tx>>)
               bucket == IF UpdateUTXO(FindAllUTXO(chain), b) = Nil THEN FindAllUTXO(chain)
                         ELSE FindAllUTXO(<<b>> \o chain)
    <3>3. store' = [store EXCEPT ![n] = Put(@, b)]
      BY <3>2 DEF AddBlock
    <3>4. Single(b)
      BY DEF NextBlock, NewBlock, Single
    <3>5. chainstate' = [chainstate EXCEPT ![n] = bucket]
      BY <3>2
    <3> HIDE DEF b
    <3>6. <<b>> \o chain \in Seq(Held(n) \cup {b})
      BY <1>1, <3>1, ChainHeld
    <3>7. \A c \in Held(n) \cup {b} : Single(c)
      BY <3>4 DEF Tidy, Held
    <3>8. FindAllUTXO(<<b>> \o chain) # Nil
      BY <3>6, <3>7, BucketsRebuilt
    <3>9. bucket # Nil
      BY <1>4, <3>1, <3>8
    <3> HIDE DEF bucket
    <3>10. Blocked
      BY <1>1, <3>3, <3>4, PutTidy DEF Blocked
    <3>11. Filled
      BY <1>1, <3>5, <3>9, BucketTidy DEF Filled
    <3> QED
      BY <1>5, <3>10, <3>11
  <2> QED
    BY <1>6, <2>1, <2>2, <2>3, <2>4, <2>5 DEF Processes
<1>7. ASSUME NEW g \in DOMAIN gor, handleConnection(g)
      PROVE  Tidy'
  <2>1. g.at \in Node /\ (g.pc \in Carriers => IsStored(g.block))
    BY <1>1, Facts DEF Base, Carried
  <2>2. ASSUME store' = [store EXCEPT ![g.at] = Put(@, g.block)], g.pc \in Carriers
        PROVE  Blocked
    <3>1. Single(g.block)
      BY <2>1, <2>2 DEF IsStored, Tidy
    <3> QED
      BY <1>1, <2>1, <2>2, <3>1, PutTidy DEF Blocked
  <2>3. CASE AddBlockBy(g) \/ commitBlock(g)
    <3>1. chainstate' = chainstate /\ g.pc \in Carriers
      BY <2>3 DEF AddBlockBy, commitBlock, durable, Carriers
    <3>2. store' = store \/ store' = [store EXCEPT ![g.at] = Put(@, g.block)]
      BY <2>3 DEF AddBlockBy, commitBlock, durable
    <3> QED
      BY <1>2, <1>3, <1>5, <2>2, <3>1, <3>2
  <2>4. CASE updateUTXO(g) /\ UpdateUTXO(chainstate[g.at], g.block) # Nil
    <3>1. PICK updated : updated = UpdateUTXO(chainstate[g.at], g.block)
      OBVIOUS
    <3>2. chainstate' = [chainstate EXCEPT ![g.at] = updated] /\ store' = store /\ updated # Nil
      BY <2>4, <3>1 DEF updateUTXO
    <3>3. Filled
      BY <1>1, <2>1, <3>2, BucketTidy DEF Filled
    <3> QED
      BY <1>2, <1>5, <3>2, <3>3
  <2>5. CASE \/ handleVersion(g) \/ isKnownNode(g) \/ addKnown(g) \/ setKnown(g)
             \/ handleGetBlocks(g) \/ handleInv(g) \/ requestLatest(g) \/ filterTransit(g) \/ setTransit(g)
             \/ nextInTransit(g) \/ requestNext(g)
    BY <1>2, <1>3, <1>5, <2>5 DEF handleVersion, isKnownNode, addKnown, setKnown, handleGetBlocks, handleInv,
      requestLatest, filterTransit, setTransit, nextInTransit, requestNext, durable
  <2>6. CASE \/ GetBlockHashes(g) \/ handleGetData(g) \/ popTransit(g) \/ readTruncated(g)
             \/ updateUTXO(g) /\ UpdateUTXO(chainstate[g.at], g.block) = Nil
    BY <1>2, <1>3, <1>5, <2>6
    DEF GetBlockHashes, handleGetData, popTransit, updateUTXO, readTruncated, durable, Panic
  <2> QED
    BY <1>7, <2>3, <2>4, <2>5, <2>6 DEF handleConnection
<1>8. CASE UNCHANGED vars
  BY <1>2, <1>3, <1>5, <1>8 DEF vars, durable
<1> QED
  BY <1>6, <1>7, <1>8 DEF Next

-----------------------------------------------------------------------------
(* A conversation of two nodes *)

\* The steps of a conversation; "filter", "setTransit" and "pop" shorten
\* BlockInTransit beside it.
Conversation == {"version", "getblocks", "walk", "inv", "request", "getdata",
                 "block", "commit", "next", "ask", "apply"}
Shortening   == {"filter", "setTransit", "pop"}

\* The goroutines whose turn it is, and those on the side.
Turns  == {g \in DOMAIN gor : g.pc \in Conversation}
Asides == {g \in DOMAIN gor : g.pc \in Shortening}

\* The only predecessor the database of n may lack is h.
Misses(n, h) ==
    \A k \in DOMAIN store[n] : store[n][k].prev \in DOMAIN store[n] \cup {Empty, h}

\* The database of n lacks no predecessor.
Closed(n) == Misses(n, Empty)

\* The hashes of the chain node n holds from hash h on.
Walk(n, h) == Inventory(Chain(store[n], h))

\* Nothing is being pulled.
Rest == Asides = {} /\ \A n \in Node : Closed(n)

\* Node n has asked m for the block under h: everything below that block is
\* left to ask for, once it has been taken off the list.
Fetching(n, m, h) ==
    /\ Closed(m) /\ h \in DOMAIN store[m] /\ Misses(n, h)
    /\ Asides = {} => transit[n] = Walk(m, store[m][h].prev)
    /\ \A s \in Asides :
          /\ s.at = n
          /\ s.pc = "filter" => s.id = h
          /\ s.pc = "setTransit" => s.rest = Walk(m, store[m][h].prev)
          /\ s.pc # "setTransit" => transit[n] = Walk(m, h)

\* Node n is handling block b of m: everything below it is left to ask for.
Storing(n, m, b) ==
    /\ Asides = {} /\ Closed(m) /\ b.hash \in DOMAIN store[m] /\ store[m][b.hash] = b
    /\ transit[n] = Walk(m, b.prev)

\* What has been done when it is the turn of g.
Stage(g) ==
    /\ g.pc \in {"version", "getblocks", "walk", "inv", "request", "apply"} => Rest
    /\ g.pc = "walk" => g.cursor \in DOMAIN store[g.at]
    /\ g.pc = "inv" => \E h \in DOMAIN store[g.from] : g.items = Walk(g.from, h)
    /\ g.pc \in {"request", "ask"} =>
          g.id \in DOMAIN store[g.from] /\ transit[g.at] = Walk(g.from, g.id)
    /\ g.pc = "getdata" => Fetching(g.from, g.at, g.id)
    /\ g.pc = "block" => /\ store[g.from][g.block.hash] = g.block
                         /\ Fetching(g.at, g.from, g.block.hash)
    /\ g.pc = "commit" => Storing(g.at, g.from, g.block) /\ Misses(g.at, g.block.hash)
    /\ g.pc = "next" => Storing(g.at, g.from, g.block) /\ Misses(g.at, g.block.prev)
    /\ g.pc = "ask" => Asides = {} /\ Closed(g.from) /\ Misses(g.at, g.id)
    /\ g.pc = "apply" => g.block.prev = Empty

\* The two nodes talk only while both are up, one of them at a time, with one
\* goroutine on the side at most.
TalkInv ==
    /\ DOMAIN gor # {} => \A n \in Node : up[n]
    /\ \A g \in DOMAIN gor : g.pc # "truncated"
    /\ \A g, h \in Turns : g = h /\ gor[g] = 1
    /\ \A g, h \in Asides : g = h /\ gor[g] = 1
    /\ Turns = {} => Rest
    /\ \A g \in Turns : Stage(g)

\* What holds of every state of a conversation.
Context == StoreInv /\ Tidy /\ TalkInv

-----------------------------------------------------------------------------
(* Walks *)

\* A walk meets its first hash once, and then what lies below it.
LEMMA WalkUnfolds ==
  ASSUME Base, ChainInv, NEW n \in Node, NEW h \in DOMAIN store[n]
  PROVE  LET below == Walk(n, store[n][h].prev)
         IN  /\ below \in Seq(DOMAIN store[n])
             /\ h \notin Range(below)
             /\ Walk(n, h) = <<h>> \o below
             /\ IF store[n][h].prev \in DOMAIN store[n]
                THEN below # <<>> /\ below[1] = store[n][h].prev
                ELSE below = <<>>
<1> DEFINE p == store[n][h].prev
           rest == Chain(store[n], p)
           B == {store[n][k] : k \in DOMAIN store[n]}
<1>1. /\ Descends(store[n], MaxHeight) /\ MaxHeight \in Nat
      /\ \A k \in DOMAIN store[n] : store[n][k].hash = k /\ store[n][k].height \in Nat
  BY StoreDescends, SyncAssumption DEF Base, TypeInv, Stored
<1>2. CASE p \notin DOMAIN store[n]
  <2>1. Chain(store[n], h) = <<store[n][h]>> /\ rest = <<>>
    <3>1. Chain(store[n], h) = <<store[n][h]>>
      BY <1>1, <1>2, ChainUnfolds
    <3>2. rest = <<>>
      BY <1>2 DEF Chain
    <3> QED
      BY <3>1, <3>2
  <2>2. Walk(n, p) = <<>> /\ Walk(n, h) = <<h>>
    <3>1. Walk(n, p) = <<>>
      BY <2>1 DEF Walk, Inventory
    <3>2. Inventory(<<store[n][h]>>) = <<store[n][h].hash>>
      BY DEF Inventory
    <3> QED
      BY <1>1, <2>1, <3>1, <3>2 DEF Walk
  <2>3. /\ <<>> \in Seq(DOMAIN store[n]) /\ h \notin Range(<<>>)
        /\ <<h>> \o <<>> = <<h>>
    BY DEF Range
  <2> QED
    BY <1>2, <2>2, <2>3
<1>3. CASE p \in DOMAIN store[n]
  <2>1. Chain(store[n], h) = <<store[n][h]>> \o rest
    BY <1>1, <1>3, ChainUnfolds
  <2>2. rest \in Seq(B) /\ rest # <<>> /\ rest[1] = store[n][p]
    BY <1>1, <1>3, ChainOfStored
  <2>3. \A i \in DOMAIN rest : rest[i].height <= store[n][p].height
    BY <1>1, <1>3, ChainBelow
  <2>4. store[n][p].height < store[n][h].height
    BY <1>1, <1>3 DEF Descends
  <2> HIDE DEF p, rest
  <2>5. \A i \in DOMAIN rest : \E k \in DOMAIN store[n] : rest[i] = store[n][k]
    BY <2>2
  <2>6. \A i \in DOMAIN rest : rest[i].hash \in DOMAIN store[n] /\ rest[i].hash # h
    <3> SUFFICES ASSUME NEW i \in DOMAIN rest
                 PROVE  rest[i].hash \in DOMAIN store[n] /\ rest[i].hash # h
      OBVIOUS
    <3>1. PICK k \in DOMAIN store[n] : rest[i] = store[n][k]
      BY <2>5
    <3>2. store[n][k].height <= store[n][p].height
      BY <2>3, <3>1
    <3>3. k # h
      BY <1>1, <1>3, <2>4, <3>2 DEF p
    <3> QED
      BY <1>1, <3>1, <3>3
  <2> DEFINE below == [i \in DOMAIN rest |-> rest[i].hash]
  <2>7. Walk(n, p) = below
    BY DEF Walk, Inventory, rest
  <2>8. /\ below \in Seq(DOMAIN store[n]) /\ h \notin Range(below)
        /\ below # <<>> /\ below[1] = p
    <3>1. below \in Seq(DOMAIN store[n])
      BY <2>2, <2>6
    <3>2. h \notin Range(below)
      BY <2>6 DEF Range
    <3>3. 1 \in DOMAIN rest
      BY <2>2
    <3>4. below # <<>> /\ below[1] = p
      BY <1>1, <1>3, <2>2, <3>3
    <3> QED
      BY <3>1, <3>2, <3>4
  <2>9. Walk(n, h) = <<h>> \o below
    <3>1. store[n][h] \in B /\ store[n][h].hash = h
      BY <1>1
    <3>2. ASSUME NEW c \in B, NEW s \in Seq(B)
          PROVE  [i \in DOMAIN (<<c>> \o s) |-> (<<c>> \o s)[i].hash]
                   = <<c.hash>> \o [i \in DOMAIN s |-> s[i].hash]
      <4> HIDE DEF B
      <4> QED
        OBVIOUS
    <3> HIDE DEF B
    <3>3. Inventory(Chain(store[n], h)) = <<store[n][h].hash>> \o below
      BY <2>1, <2>2, <3>1, <3>2 DEF Inventory
    <3> QED
      BY <3>1, <3>3 DEF Walk
  <2> QED
    BY <1>3, <2>7, <2>8, <2>9 DEF p
<1> QED
  BY <1>2, <1>3

\* Every chain of a closed database ends in a genesis block.
LEMMA ClosedReaches ==
  ASSUME Base, ChainInv, NEW n \in Node, Closed(n), NEW h \in DOMAIN store[n]
  PROVE  ReachesGenesis(store[n], h)
<1>1. Descends(store[n], MaxHeight) /\ MaxHeight \in Nat
  BY StoreDescends, SyncAssumption
<1>2. \A k \in DOMAIN store[n] : store[n][k].prev \in DOMAIN store[n] \cup {Empty}
  BY DEF Closed, Misses
<1> QED
  BY <1>1, <1>2, CompleteReachesGenesis

-----------------------------------------------------------------------------
(* The steps of a conversation *)

\* The one whose turn it is knows its partner, and both are up.
LEMMA TurnFacts ==
  ASSUME TwoNodes, Context, NEW g \in Turns
  PROVE  /\ Turns = {g} /\ gor[g] = 1 /\ Stage(g)
         /\ g \in DOMAIN gor /\ g.at \in Node
         /\ \A n \in Node : up[n]
         /\ g.pc # "apply" =>
              /\ g.from \in Node /\ g.from # g.at
              /\ \A n \in Node : n = g.at \/ n = g.from
<1>1. Turns = {g} /\ gor[g] = 1 /\ Stage(g) /\ g \in DOMAIN gor
  BY DEF Context, TalkInv, Turns
<1>2. g.at \in Node /\ (g.pc \in Answering => g.from \in Node /\ g.from # g.at)
  BY <1>1, Facts DEF Context, StoreInv, Base
<1>3. \A n \in Node : up[n]
  BY <1>1 DEF Context, TalkInv
<1>4. g.pc # "apply" => g.pc \in Answering
  BY DEF Turns, Conversation, Answering
<1> QED
  BY <1>1, <1>2, <1>3, <1>4 DEF TwoNodes

\* The turn passes from g to t, with goroutines Y on the side.
LEMMA TurnPasses ==
  ASSUME TwoNodes, Context, NEW g \in Turns, NEW t, NEW Y, Become(g, Y \cup {t}),
         t.pc \in Conversation, t.pc # g.pc \/ t.at # g.at,
         \A y \in Y : y.pc \notin Conversation /\ y.pc # "truncated",
         \A x, y \in Y : y.pc \in Shortening => x = y /\ Asides = {}, up' = up
  PROVE  /\ Turns' = {t}
         /\ Asides' = Asides \cup {y \in Y : y.pc \in Shortening}
         /\ Stage(t)' => TalkInv' /\ up' = up
<1>1. Turns = {g} /\ gor[g] = 1 /\ g \in DOMAIN gor /\ \A n \in Node : up[n]
  BY TurnFacts
<1>2. g \notin Y \cup {t} /\ g.pc \in Conversation /\ t \notin DOMAIN gor
  BY <1>1 DEF Turns
<1>3. /\ DOMAIN gor' = (DOMAIN gor \ {g}) \cup Y \cup {t}
      /\ gor'[t] = 1
      /\ \A y \in Y : y \notin DOMAIN gor => gor'[y] = 1
      /\ \A x \in DOMAIN gor' : x \notin Y \cup {t} => gor'[x] <= gor[x] /\ gor'[x] \in Nat \ {0}
  <2> DEFINE S == Y \cup {t}
  <2>1. IsABag(gor) /\ Become(g, S) /\ g \notin S /\ t \in S
    BY <1>2 DEF Context, StoreInv, Base, TypeInv, Shape
  <2> HIDE DEF S
  <2>2. /\ DOMAIN gor' \subseteq DOMAIN gor \cup S
        /\ \A x \in DOMAIN gor \ {g} : x \in DOMAIN gor'
        /\ \A x \in DOMAIN gor' \ S : gor'[x] <= gor[x] /\ gor'[x] \in Nat \ {0}
        /\ \A x \in S : x \in DOMAIN gor' /\ (x \notin DOMAIN gor => gor'[x] = 1)
        /\ g \notin DOMAIN gor'
    BY <1>1, <2>1, BecomeGor
  <2>3. DOMAIN gor' = (DOMAIN gor \ {g}) \cup S
    BY <2>1, <2>2
  <2>4. \A x \in DOMAIN gor' : x \notin S => gor'[x] <= gor[x] /\ gor'[x] \in Nat \ {0}
    BY <2>2
  <2> QED
    BY <1>2, <2>1, <2>2, <2>3, <2>4 DEF S
<1>4. Turns' = {t}
  BY <1>1, <1>3 DEF Turns
<1>5. Asides' = Asides \cup {y \in Y : y.pc \in Shortening}
  BY <1>2, <1>3 DEF Asides, Conversation, Shortening
<1>6. \A x \in DOMAIN gor' : x.pc # "truncated"
  BY <1>3 DEF Context, TalkInv, Conversation
<1>7. \A x, y \in Asides' : x = y /\ gor'[x] = 1
  <2>1. \A x, y \in Asides : x = y /\ gor[x] = 1
    BY DEF Context, TalkInv
  <2>2. \A x \in Asides' : x.pc \in Shortening /\ x \in DOMAIN gor' /\ x # t
    BY DEF Asides, Conversation, Shortening
  <2>3. CASE Asides = {}
    <3>1. \A x \in Asides' : x \in Y /\ x \notin DOMAIN gor
      BY <1>5, <2>2, <2>3 DEF Asides
    <3> QED
      BY <1>3, <2>2, <3>1
  <2>4. CASE Asides # {}
    <3>1. \A x \in Asides' : x \in Asides /\ x \notin Y
      BY <1>5, <2>2, <2>4
    <3>2. \A x \in Asides' : gor'[x] <= 1 /\ gor'[x] \in Nat \ {0}
      BY <1>3, <2>1, <2>2, <3>1
    <3> QED
      BY <2>1, <3>1, <3>2
  <2> QED
    BY <2>3, <2>4
<1>8. Stage(t)' => TalkInv'
  BY <1>1, <1>3, <1>4, <1>6, <1>7 DEF TalkInv
<1> QED
  BY <1>4, <1>5, <1>8

\* ... with none on the side, ...
LEMMA TurnMoves ==
  ASSUME TwoNodes, Context, NEW g \in Turns, NEW t, Become(g, {} \cup {t}),
         t.pc \in Conversation, t.pc # g.pc \/ t.at # g.at, up' = up
  PROVE  /\ Turns' = {t} /\ Asides' = Asides
         /\ Stage(t)' => TalkInv' /\ up' = up
<1>1. PICK Y : Y = {}
  OBVIOUS
<1>2. /\ Become(g, Y \cup {t})
      /\ \A y \in Y : y.pc \notin Conversation /\ y.pc # "truncated"
      /\ \A x, y \in Y : y.pc \in Shortening => x = y /\ Asides = {}
  BY <1>1
<1>3. /\ Turns' = {t}
      /\ Asides' = Asides \cup {y \in Y : y.pc \in Shortening}
      /\ Stage(t)' => TalkInv' /\ up' = up
  BY <1>2, TurnPasses
<1> QED
  BY <1>1, <1>3

\* ... or with one that is going to shorten BlockInTransit.
LEMMA TurnLeaves ==
  ASSUME TwoNodes, Context, NEW g \in Turns, NEW t, NEW s, Become(g, {s} \cup {t}),
         t.pc \in Conversation, t.pc # g.pc \/ t.at # g.at, s.pc \in Shortening,
         Asides = {}, up' = up
  PROVE  /\ Turns' = {t} /\ Asides' = Asides \cup {s}
         /\ Stage(t)' => TalkInv' /\ up' = up
<1>1. PICK Y : Y = {s}
  OBVIOUS
<1>2. /\ Become(g, Y \cup {t})
      /\ \A y \in Y : y.pc \notin Conversation /\ y.pc # "truncated"
      /\ \A x, y \in Y : y.pc \in Shortening => x = y /\ Asides = {}
  BY <1>1 DEF Conversation, Shortening
<1>3. /\ Turns' = {t}
      /\ Asides' = Asides \cup {y \in Y : y.pc \in Shortening}
      /\ Stage(t)' => TalkInv' /\ up' = up
  BY <1>2, TurnPasses
<1> QED
  BY <1>1, <1>3

\* Any other goroutine moves on, or ends.
LEMMA OtherMoves ==
  ASSUME Context, NEW g \in DOMAIN gor, g.pc \notin Conversation, NEW X, Become(g, X),
         \A x \in X : x.pc \notin Conversation /\ x.pc # "truncated", up' = up,
         \A x, y \in Asides' : x = y /\ gor'[x] = 1
  PROVE  /\ Turns' = Turns
         /\ (Turns = {} => Rest') /\ (\A t \in Turns : Stage(t)') => TalkInv' /\ up' = up
<1>1. /\ DOMAIN gor' \subseteq DOMAIN gor \cup X
      /\ \A x \in DOMAIN gor \ {g} : x \in DOMAIN gor'
      /\ \A x \in DOMAIN gor' \ X : gor'[x] <= gor[x] /\ gor'[x] \in Nat \ {0}
  BY BecomeGor DEF Context, StoreInv, Base, TypeInv, Shape
<1>2. Turns' = Turns
  BY <1>1 DEF Turns
<1>3. \A x, y \in Turns' : x = y /\ gor'[x] = 1
  <2> SUFFICES ASSUME NEW x \in Turns', NEW y \in Turns' PROVE x = y /\ gor'[x] = 1
    OBVIOUS
  <2>1. x = y /\ gor[x] = 1
    BY <1>2 DEF Context, TalkInv
  <2>2. x \in DOMAIN gor' \ X
    BY DEF Turns
  <2> QED
    BY <1>1, <2>1, <2>2
<1>4. \A x \in DOMAIN gor' : x.pc # "truncated"
  BY <1>1 DEF Context, TalkInv
<1>5. \A n \in Node : up'[n]
  BY DEF Context, TalkInv
<1>6. (Turns = {} => Rest') /\ (\A t \in Turns : Stage(t)') => TalkInv'
  BY <1>2, <1>3, <1>4, <1>5 DEF TalkInv
<1> QED
  BY <1>2, <1>6

\* The partner of a sender is up: its message arrives.
LEMMA Delivered ==
  ASSUME TwoNodes, Context, NEW g \in Turns, g.pc # "apply", NEW m, m.at = g.from, NEW S,
         SendData(g, m, S)
  PROVE  Become(g, S \cup {m})
<1>1. up[m.at]
  BY TurnFacts
<1> QED
  BY <1>1 DEF SendData, Deliver

\* Where no database changes, nor do walks and what is missing.
LEMMA StoresKept ==
  ASSUME store' = store
  PROVE  /\ \A n, h : (Misses(n, h) => Misses(n, h)') /\ Walk(n, h)' = Walk(n, h)
         /\ \A n : Closed(n) => Closed(n)'
         /\ (Rest /\ Asides' = {} => Rest')
  BY DEF Misses, Closed, Walk, Rest

\* Steps that touch neither BlockInTransit nor the goroutines that shorten it.
LEMMA StageKept ==
  ASSUME store' = store, transit' = transit, Asides' = Asides, NEW t, Stage(t)
  PROVE  Stage(t)'
<1>1. /\ \A n, h : (Misses(n, h) => Misses(n, h)') /\ Walk(n, h)' = Walk(n, h)
      /\ \A n : Closed(n) => Closed(n)'
      /\ Rest => Rest'
  BY StoresKept DEF Rest
<1>2. \A n, m, h : Fetching(n, m, h) => Fetching(n, m, h)'
  BY <1>1 DEF Fetching
<1>3. \A n, m, b : Storing(n, m, b) => Storing(n, m, b)'
  BY <1>1 DEF Storing
<1> QED
  BY <1>1, <1>2, <1>3 DEF Stage

\* version is answered with version or getblocks, and its sender looked up
\* on the side.
LEMMA TalkVersion ==
  ASSUME TwoNodes, Context, NEW g \in DOMAIN gor,
         handleVersion(g) \/ isKnownNode(g) \/ addKnown(g) \/ setKnown(g)
  PROVE  TalkInv' /\ up' = up
<1>1. CASE handleVersion(g)
  <2> DEFINE m == IF Behind(g)
         THEN [at |-> g.from, pc |-> "getblocks", from |-> g.at]
         ELSE [at |-> g.from, pc |-> "version", from |-> g.at, height |-> Height(g.at)]
             x == [at |-> g.at, pc |-> "isKnownNode", from |-> g.from]
  <2>1. /\ SendData(g, m, {x}) /\ g.pc = "version"
        /\ store' = store /\ up' = up
    BY <1>1 DEF handleVersion, durable
  <2>2. g \in Turns /\ g.pc # "apply"
    BY <2>1 DEF Turns, Conversation
  <2>3. m.at = g.from /\ m.pc \in {"version", "getblocks"} /\ x.pc = "isKnownNode"
    OBVIOUS
  <2> HIDE DEF m
  <2>4. PICK t : t = m
    OBVIOUS
  <2>5. Become(g, {x} \cup {t})
    BY <2>1, <2>2, <2>3, <2>4, Delivered
  <2> DEFINE Y == {x}
  <2>6. \A y \in Y : y.pc \notin Conversation /\ y.pc # "truncated" /\ y.pc \notin Shortening
    BY <2>3 DEF Conversation, Shortening
  <2> HIDE DEF Y
  <2>7. Become(g, Y \cup {t})
    BY <2>5 DEF Y
  <2>8. g.from # g.at /\ Stage(g)
    BY <2>2, TurnFacts
  <2>9. t.pc \in Conversation /\ t.at # g.at
    BY <2>3, <2>4, <2>8 DEF Conversation
  <2>10. /\ Asides' = Asides \cup {y \in Y : y.pc \in Shortening}
         /\ Stage(t)' => TalkInv' /\ up' = up
    <3>1. \A z, y \in Y : y.pc \in Shortening => z = y /\ Asides = {}
      BY <2>6
    <3> QED
      BY <2>1, <2>2, <2>6, <2>7, <2>9, <3>1, TurnPasses
  <2>11. Rest
    BY <2>1, <2>8 DEF Stage
  <2>12. Asides' = {}
    BY <2>6, <2>10, <2>11 DEF Rest
  <2>13. Rest'
    BY <2>1, <2>11, <2>12, StoresKept
  <2>14. Stage(t)'
    BY <2>3, <2>4, <2>13 DEF Stage
  <2> QED
    BY <2>10, <2>14
<1>2. CASE isKnownNode(g) \/ addKnown(g) \/ setKnown(g)
  <2>1. /\ g.pc \in {"isKnownNode", "addKnown", "setKnown"}
        /\ store' = store /\ up' = up /\ transit' = transit
    BY <1>2 DEF isKnownNode, addKnown, setKnown, durable, volatile
  <2>2. PICK X : Become(g, X) /\ \A x \in X : x.pc \in {"addKnown", "setKnown"}
    <3>1. CASE isKnownNode(g)
      <4> DEFINE S == IF g.from \in Range(known[g.at]) THEN {}
                      ELSE {[at |-> g.at, pc |-> "addKnown", from |-> g.from]}
      <4>1. Become(g, S) /\ \A x \in S : x.pc = "addKnown"
        BY <3>1 DEF isKnownNode
      <4> QED
        BY <4>1
    <3>2. CASE addKnown(g)
      <4> DEFINE S == {[at |-> g.at, pc |-> "setKnown", list |-> Append(known[g.at], g.from)]}
      <4>1. Become(g, S) /\ \A x \in S : x.pc = "setKnown"
        BY <3>2 DEF addKnown
      <4> QED
        BY <4>1
    <3>3. CASE setKnown(g)
      <4>1. Become(g, {})
        BY <3>3 DEF setKnown
      <4> QED
        BY <4>1
    <3> QED
      BY <1>2, <3>1, <3>2, <3>3
  <2>3. /\ g.pc \notin Conversation /\ g \notin Asides
        /\ \A x \in X : /\ x.pc \notin Conversation /\ x.pc # "truncated"
                       /\ x.pc \notin Shortening
    BY <2>1, <2>2 DEF Conversation, Shortening, Asides
  <2>4. Asides' = Asides /\ \A x \in Asides : gor'[x] <= gor[x] /\ gor'[x] \in Nat \ {0}
    <3>1. /\ DOMAIN gor' \subseteq DOMAIN gor \cup X
          /\ \A x \in DOMAIN gor \ {g} : x \in DOMAIN gor'
          /\ \A x \in DOMAIN gor' \ X : gor'[x] <= gor[x] /\ gor'[x] \in Nat \ {0}
      BY <2>2, BecomeGor DEF Context, StoreInv, Base, TypeInv, Shape
    <3> QED
      BY <2>3, <3>1 DEF Asides
  <2>5. \A x, y \in Asides' : x = y /\ gor'[x] = 1
    <3>1. \A x, y \in Asides : x = y /\ gor[x] = 1
      BY DEF Context, TalkInv
    <3> QED
      BY <2>4, <3>1
  <2>6. (Turns = {} => Rest') /\ (\A t \in Turns : Stage(t)') => TalkInv' /\ up' = up
    BY <2>1, <2>2, <2>3, <2>5, OtherMoves
  <2>7. Turns = {} => Rest'
    BY <2>1, <2>4, StoresKept DEF Context, TalkInv, Rest
  <2>8. \A t \in Turns : Stage(t)'
    BY <2>1, <2>4, StageKept DEF Context, TalkInv
  <2> QED
    BY <2>6, <2>7, <2>8
<1> QED
  BY <1>1, <1>2

\* getblocks walks down a whole chain, and inv lists it.
LEMMA TalkBlocks ==
  ASSUME TwoNodes, Context, NEW g \in DOMAIN gor, handleGetBlocks(g) \/ GetBlockHashes(g)
  PROVE  TalkInv' /\ up' = up
<1>1. CASE handleGetBlocks(g)
  <2> DEFINE x == [at |-> g.at, pc |-> "walk", from |-> g.from, cursor |-> top[g.at]]
  <2>1. Become(g, {x}) /\ g.pc = "getblocks" /\ store' = store /\ up' = up
    BY <1>1 DEF handleGetBlocks, durable, volatile
  <2>2. g \in Turns
    BY <2>1 DEF Turns, Conversation
  <2>3. Turns = {g} /\ Stage(g) /\ g.at \in Node /\ up[g.at]
    BY <2>2, TurnFacts
  <2>4. top[g.at] \in DOMAIN store[g.at]
    <3>1. ~WriteLocked(g.at)
      BY <2>1, <2>3 DEF WriteLocked, At, Turns, Conversation
    <3>2. top[g.at] = latest[g.at]
      BY <2>3, <3>1 DEF Context, StoreInv, Base, LockInv, Tops
    <3> QED
      BY <2>3, <3>2 DEF Context, StoreInv, Base, TypeInv, Stored
  <2>5. PICK t : t = x
    OBVIOUS
  <2>6. t.pc = "walk" /\ t.at = g.at /\ t.cursor = top[g.at]
    BY <2>5
  <2>7. Become(g, {} \cup {t})
    BY <2>1, <2>5
  <2> HIDE DEF x
  <2>8. t.pc \in Conversation /\ t.pc # g.pc
    BY <2>1, <2>6 DEF Conversation
  <2>9. /\ Asides' = Asides
        /\ Stage(t)' => TalkInv' /\ up' = up
    BY <2>1, <2>2, <2>7, <2>8, TurnMoves
  <2>10. Rest
    BY <2>1, <2>3 DEF Stage
  <2>11. Rest'
    BY <2>1, <2>9, <2>10, StoresKept DEF Rest
  <2>12. t.cursor \in DOMAIN store'[t.at]
    BY <2>1, <2>4, <2>6
  <2>13. Stage(t)'
    BY <2>6, <2>11, <2>12 DEF Stage
  <2> QED
    BY <2>9, <2>13
<1>2. CASE GetBlockHashes(g)
  <2> DEFINE m == [at |-> g.from, pc |-> "inv", from |-> g.at,
                   items |-> Inventory(Chain(store[g.at], g.cursor))]
  <2>1. g.pc = "walk"
    BY <1>2 DEF GetBlockHashes
  <2>2. g \in Turns /\ g.pc # "apply"
    BY <2>1 DEF Turns, Conversation
  <2>3. Stage(g) /\ g.at \in Node /\ g.from # g.at
    BY <2>2, TurnFacts
  <2>4. Rest /\ g.cursor \in DOMAIN store[g.at]
    BY <2>1, <2>3 DEF Stage
  <2>5. ReachesGenesis(store[g.at], g.cursor)
    BY <2>3, <2>4, ClosedReaches DEF Context, StoreInv, Rest
  <2>6. SendData(g, m, {}) /\ store' = store /\ up' = up
    BY <1>2, <2>5 DEF GetBlockHashes, durable
  <2>7. m.at = g.from
    OBVIOUS
  <2>8. PICK t : t = m
    OBVIOUS
  <2>9. t.pc = "inv" /\ t.at = g.from /\ t.from = g.at /\ t.items = Walk(g.at, g.cursor)
    BY <2>8 DEF Walk
  <2> HIDE DEF m
  <2>10. Become(g, {} \cup {t})
    BY <2>2, <2>6, <2>7, <2>8, Delivered
  <2>11. t.pc \in Conversation /\ t.at # g.at
    BY <2>3, <2>9 DEF Conversation
  <2>12. /\ Asides' = Asides
         /\ Stage(t)' => TalkInv' /\ up' = up
    BY <2>2, <2>6, <2>10, <2>11, TurnMoves
  <2>13. Rest' /\ Walk(g.at, g.cursor)' = Walk(g.at, g.cursor)
    BY <2>4, <2>6, <2>12, StoresKept DEF Rest
  <2>14. g.cursor \in DOMAIN store'[t.from] /\ t.items = Walk(t.from, g.cursor)'
    BY <2>4, <2>6, <2>9, <2>13
  <2>15. Stage(t)'
    BY <2>9, <2>13, <2>14 DEF Stage
  <2> QED
    BY <2>12, <2>15
<1> QED
  BY <1>1, <1>2

\* inv fills BlockInTransit and asks for its first block.
LEMMA TalkInventory ==
  ASSUME TwoNodes, Context, NEW g \in DOMAIN gor, handleInv(g) \/ requestLatest(g)
  PROVE  TalkInv' /\ up' = up
<1>1. CASE handleInv(g)
  <2> DEFINE x == [at |-> g.at, pc |-> "request", from |-> g.from, id |-> g.items[1]]
  <2>1. /\ Become(g, {x}) /\ g.pc = "inv" /\ store' = store /\ up' = up
        /\ transit' = [transit EXCEPT ![g.at] = g.items]
    BY <1>1 DEF handleInv, durable
  <2>2. g \in Turns /\ g.pc # "apply"
    BY <2>1 DEF Turns, Conversation
  <2>3. Stage(g) /\ g.at \in Node /\ g.from \in Node
    BY <2>2, TurnFacts
  <2>4. Rest
    BY <2>1, <2>3 DEF Stage
  <2>5. PICK h \in DOMAIN store[g.from] : g.items = Walk(g.from, h)
    BY <2>1, <2>3 DEF Stage
  <2>6. g.items[1] = h
    <3>1. PICK below \in Seq(DOMAIN store[g.from]) : Walk(g.from, h) = <<h>> \o below
      BY <2>3, <2>5, WalkUnfolds DEF Context, StoreInv
    <3> QED
      BY <2>5, <3>1
  <2>7. transit'[g.at] = Walk(g.from, h)
    BY <2>1, <2>3, <2>5 DEF Context, StoreInv, Base, TypeInv, Domains
  <2>8. PICK t : t = x
    OBVIOUS
  <2>9. t.pc = "request" /\ t.at = g.at /\ t.from = g.from /\ t.id = h
    BY <2>6, <2>8
  <2>10. Become(g, {} \cup {t})
    BY <2>1, <2>8
  <2> HIDE DEF x
  <2>11. t.pc \in Conversation /\ t.pc # g.pc
    BY <2>1, <2>9 DEF Conversation
  <2>12. /\ Asides' = Asides
         /\ Stage(t)' => TalkInv' /\ up' = up
    BY <2>1, <2>2, <2>10, <2>11, TurnMoves
  <2>13. Rest' /\ Walk(g.from, h)' = Walk(g.from, h)
    BY <2>1, <2>4, <2>12, StoresKept DEF Rest
  <2>14. t.id \in DOMAIN store'[t.from] /\ transit'[t.at] = Walk(t.from, t.id)'
    BY <2>1, <2>5, <2>7, <2>9, <2>13
  <2>15. Stage(t)'
    BY <2>9, <2>13, <2>14 DEF Stage
  <2> QED
    BY <2>12, <2>15
<1>2. CASE requestLatest(g)
  <2> DEFINE m == [at |-> g.from, pc |-> "getdata", from |-> g.at, id |-> g.id]
             x == [at |-> g.at, pc |-> "filter", id |-> g.id]
  <2>1. /\ SendData(g, m, {x}) /\ g.pc = "request"
        /\ store' = store /\ up' = up /\ transit' = transit
    BY <1>2 DEF requestLatest, durable
  <2>2. g \in Turns /\ g.pc # "apply"
    BY <2>1 DEF Turns, Conversation
  <2>3. Stage(g) /\ g.at \in Node /\ g.from \in Node /\ g.from # g.at
    BY <2>2, TurnFacts
  <2>4. Rest /\ g.id \in DOMAIN store[g.from] /\ transit[g.at] = Walk(g.from, g.id)
    BY <2>1, <2>3 DEF Stage
  <2>5. PICK t : t = m
    OBVIOUS
  <2>6. PICK s : s = x
    OBVIOUS
  <2>7. /\ t.pc = "getdata" /\ t.at = g.from /\ t.from = g.at /\ t.id = g.id
        /\ s.pc = "filter" /\ s.at = g.at /\ s.id = g.id /\ m.at = g.from
    BY <2>5, <2>6
  <2> HIDE DEF m, x
  <2>8. Become(g, {s} \cup {t})
    BY <2>1, <2>2, <2>5, <2>6, <2>7, Delivered
  <2>9. /\ t.pc \in Conversation /\ t.pc # g.pc
        /\ s.pc \in Shortening
    BY <2>1, <2>7 DEF Conversation, Shortening
  <2>10. /\ Asides' = Asides \cup {s}
         /\ Stage(t)' => TalkInv' /\ up' = up
    BY <2>1, <2>2, <2>4, <2>8, <2>9, TurnLeaves DEF Rest
  <2>11. Asides' = {s}
    BY <2>4, <2>9, <2>10 DEF Rest
  <2>12. /\ Misses(g.at, g.id)' /\ Closed(g.from)'
         /\ Walk(g.from, g.id)' = Walk(g.from, g.id)
    <3>1. Misses(g.at, g.id) /\ Closed(g.from)
      BY <2>3, <2>4 DEF Rest, Closed, Misses
    <3> QED
      BY <2>1, <3>1, StoresKept
  <2>13. Fetching(g.at, g.from, g.id)'
    BY <2>1, <2>4, <2>7, <2>11, <2>12 DEF Fetching
  <2>14. Stage(t)'
    BY <2>7, <2>13 DEF Stage
  <2> QED
    BY <2>10, <2>14
<1> QED
  BY <1>1, <1>2

\* A goroutine that is to shorten BlockInTransit does so for the block that
\* is being fetched, and is the only one.
LEMMA AsideFacts ==
  ASSUME TwoNodes, Context, NEW g \in DOMAIN gor, g.pc \in Shortening
  PROVE  /\ g.pc \notin Conversation /\ g.at \in Node
         /\ Asides = {g} /\ gor[g] = 1 /\ Turns # {}
         /\ \A t \in Turns : t.pc \in {"getdata", "block"}
<1>1. g \in Asides /\ g.pc \notin Conversation
  BY DEF Asides, Shortening, Conversation
<1>2. g.at \in Node
  BY Facts DEF Context, StoreInv, Base
<1>3. PICK t \in Turns : Stage(t)
  BY <1>1 DEF Context, TalkInv, Rest
<1>4. t.pc \in {"getdata", "block"}
  BY <1>1, <1>3 DEF Stage, Rest, Storing, Turns, Conversation
<1>5. Asides = {g} /\ gor[g] = 1
  BY <1>1 DEF Context, TalkInv
<1>6. \A u \in Turns : u = t
  BY <1>3 DEF Context, TalkInv
<1> QED
  BY <1>1, <1>2, <1>3, <1>4, <1>5, <1>6

\* It keeps the conversation going if it keeps what is fetched.
LEMMA AsideKeeps ==
  ASSUME TwoNodes, Context, NEW g \in DOMAIN gor, g.pc \in Shortening, NEW X, Become(g, X),
         \A x, y \in X : x = y /\ x.pc \in Shortening /\ x.pc # g.pc,
         store' = store, up' = up,
         Asides' = X => \A n \in Node, m \in Node : \A h :
                          Fetching(n, m, h) => Fetching(n, m, h)'
  PROVE  TalkInv' /\ up' = up
<1>1. /\ g.pc \notin Conversation /\ g.at \in Node
      /\ Asides = {g} /\ gor[g] = 1 /\ Turns # {}
      /\ \A t \in Turns : t.pc \in {"getdata", "block"}
  BY AsideFacts
<1>2. \A x \in X : x.pc \notin Conversation /\ x.pc # "truncated" /\ x.pc # g.pc
  BY DEF Shortening, Conversation
<1>3. Asides' = X /\ \A x \in X : gor'[x] = 1
  <2>1. \A x \in X : x \notin DOMAIN gor
    BY <1>1 DEF Asides
  <2>2. /\ DOMAIN gor' \subseteq DOMAIN gor \cup X
        /\ \A x \in X : x \in DOMAIN gor' /\ (x \notin DOMAIN gor => gor'[x] = 1)
        /\ g \notin DOMAIN gor'
    BY <1>1, <1>2, BecomeGor DEF Context, StoreInv, Base, TypeInv, Shape
  <2> QED
    BY <1>1, <2>1, <2>2 DEF Asides
<1>4. (Turns = {} => Rest') /\ (\A t \in Turns : Stage(t)') => TalkInv' /\ up' = up
  BY <1>1, <1>2, <1>3, OtherMoves
<1>5. ASSUME NEW t \in Turns
      PROVE  Stage(t)'
  <2>1. Stage(t) /\ t.at \in Node /\ t.from \in Node
    BY <1>1, TurnFacts
  <2>2. CASE t.pc = "getdata"
    <3>1. Fetching(t.from, t.at, t.id)'
      BY <1>3, <2>1, <2>2 DEF Stage
    <3> QED
      BY <2>2, <3>1 DEF Stage
  <2>3. CASE t.pc = "block"
    <3>1. Fetching(t.at, t.from, t.block.hash)' /\ store'[t.from][t.block.hash] = t.block
      BY <1>3, <2>1, <2>3 DEF Stage
    <3> QED
      BY <2>3, <3>1 DEF Stage
  <2> QED
    BY <1>1, <2>2, <2>3
<1> QED
  BY <1>1, <1>4, <1>5

\* What is below the block that is being fetched.
Below(n, m, h, below) ==
    /\ Walk(m, h) = <<h>> \o below
    /\ Walk(m, store[m][h].prev) = below
    /\ below \in Seq(DOMAIN store[m]) /\ h \notin Range(below)
    /\ Closed(m) /\ h \in DOMAIN store[m] /\ Misses(n, h)

\* The block being fetched has such a list below it, which may be empty.
LEMMA FetchingBelow ==
  ASSUME Base, ChainInv, NEW n \in Node, NEW m \in Node, NEW h, Fetching(n, m, h)
  PROVE  \E below : Below(n, m, h, below)
<1>1. Closed(m) /\ h \in DOMAIN store[m] /\ Misses(n, h)
  BY DEF Fetching
<1>2. /\ Walk(m, store[m][h].prev) \in Seq(DOMAIN store[m])
      /\ h \notin Range(Walk(m, store[m][h].prev))
      /\ Walk(m, h) = <<h>> \o Walk(m, store[m][h].prev)
  BY <1>1, WalkUnfolds
<1> QED
  BY <1>1, <1>2 DEF Below

\* It stays the same while no block is stored.
LEMMA BelowKept ==
  ASSUME store' = store, NEW n, NEW m, NEW h, NEW below, Below(n, m, h, below)
  PROVE  Below(n, m, h, below)'
<1>1. /\ Misses(n, h)' /\ Closed(m)' /\ Walk(m, h)' = Walk(m, h)
      /\ Walk(m, store[m][h].prev)' = Walk(m, store[m][h].prev)
  BY StoresKept DEF Below, Walk
<1> QED
  BY <1>1 DEF Below

\* The hash asked for is taken off BlockInTransit, at the latest before the
\* answer is handled.
LEMMA TalkAside ==
  ASSUME TwoNodes, Context, NEW g \in DOMAIN gor,
         filterTransit(g) \/ setTransit(g) \/ popTransit(g)
  PROVE  TalkInv' /\ up' = up
<1>1. g.pc \in Shortening
  BY DEF filterTransit, setTransit, popTransit, Shortening
<1>2. Asides = {g} /\ g.at \in Node
  BY <1>1, AsideFacts
<1>3. CASE filterTransit(g)
  <2> DEFINE x == [at |-> g.at, pc |-> "setTransit", rest |-> Without(transit[g.at], g.id)]
  <2>1. PICK s : s = x
    OBVIOUS
  <2>2. /\ Become(g, {s}) /\ g.pc = "filter"
        /\ store' = store /\ up' = up /\ transit' = transit
    BY <1>3, <2>1 DEF filterTransit, durable, volatile
  <2>3. s.at = g.at /\ s.pc = "setTransit" /\ s.rest = Without(transit[g.at], g.id)
    BY <2>1
  <2>4. ASSUME Asides' = {s}, NEW n \in Node, NEW m \in Node, NEW h, Fetching(n, m, h)
        PROVE  Fetching(n, m, h)'
    <3>1. g.at = n /\ g.id = h /\ transit[n] = Walk(m, h)
      BY <1>2, <2>2, <2>4 DEF Fetching
    <3>2. PICK below : Below(n, m, h, below)
      BY <2>4, FetchingBelow DEF Context, StoreInv
    <3>3. Without(<<h>> \o below, h) = below
      BY <3>2, WithoutFirst DEF Below
    <3>4. s.at = n /\ s.rest = below
      BY <2>3, <3>1, <3>2, <3>3 DEF Below
    <3>5. Below(n, m, h, below)'
      BY <2>2, <3>2, BelowKept
    <3> QED
      BY <2>3, <2>4, <3>4, <3>5 DEF Fetching, Below
  <2>5. s.pc \in Shortening /\ s.pc # g.pc
    BY <2>2, <2>3 DEF Shortening
  <2> QED
    BY <1>1, <2>2, <2>4, <2>5, AsideKeeps
<1>4. CASE popTransit(g)
  <2>1. transit[g.at] # <<>> /\ \A n \in Node, m \in Node : \A h : Fetching(n, m, h) =>
          g.at = n /\ Tail(transit[g.at]) = Walk(m, store[m][h].prev)
    <3>1. g.pc = "pop"
      BY <1>4 DEF popTransit
    <3>2. ASSUME NEW n \in Node, NEW m \in Node, NEW h, Fetching(n, m, h)
          PROVE  /\ g.at = n /\ transit[g.at] # <<>>
                 /\ Tail(transit[g.at]) = Walk(m, store[m][h].prev)
      <4>1. g.at = n /\ transit[n] = Walk(m, h) /\ h \in DOMAIN store[m]
        BY <1>2, <3>1, <3>2 DEF Fetching
      <4>2. PICK below : Below(n, m, h, below)
        BY <3>2, FetchingBelow DEF Context, StoreInv
      <4>3. <<h>> \o below # <<>> /\ Tail(<<h>> \o below) = below
        BY <4>2 DEF Below
      <4> QED
        BY <4>1, <4>2, <4>3 DEF Below
    <3>3. PICK t \in Turns : t.pc \in {"getdata", "block"}
      BY <1>1, AsideFacts
    <3>4. Stage(t) /\ t.at \in Node /\ t.from \in Node
      BY <3>3, TurnFacts
    <3>5. \E n \in Node, m \in Node : \E h : Fetching(n, m, h)
      BY <3>3, <3>4 DEF Stage
    <3> QED
      BY <3>2, <3>5
  <2> DEFINE x == [at |-> g.at, pc |-> "setTransit", rest |-> Tail(transit[g.at])]
  <2>2. PICK s : s = x
    OBVIOUS
  <2>3. /\ Become(g, {s}) /\ g.pc = "pop"
        /\ store' = store /\ up' = up /\ transit' = transit
    BY <1>4, <2>1, <2>2 DEF popTransit, durable, volatile
  <2>4. s.at = g.at /\ s.pc = "setTransit" /\ s.rest = Tail(transit[g.at])
    BY <2>2
  <2>5. ASSUME Asides' = {s}, NEW n \in Node, NEW m \in Node, NEW h, Fetching(n, m, h)
        PROVE  Fetching(n, m, h)'
    <3>1. PICK below : Below(n, m, h, below)
      BY <2>5, FetchingBelow DEF Context, StoreInv
    <3>2. s.at = n /\ s.rest = below
      BY <2>1, <2>4, <2>5, <3>1 DEF Below
    <3>3. Below(n, m, h, below)'
      BY <2>3, <3>1, BelowKept
    <3> QED
      BY <2>4, <2>5, <3>2, <3>3 DEF Fetching, Below
  <2>6. s.pc \in Shortening /\ s.pc # g.pc
    BY <2>3, <2>4 DEF Shortening
  <2> QED
    BY <1>1, <2>3, <2>5, <2>6, AsideKeeps
<1>5. CASE setTransit(g)
  <2>1. /\ Become(g, {}) /\ g.pc = "setTransit" /\ store' = store /\ up' = up
        /\ transit' = [transit EXCEPT ![g.at] = g.rest]
    BY <1>5 DEF setTransit, durable
  <2>2. ASSUME Asides' = {}, NEW n \in Node, NEW m \in Node, NEW h, Fetching(n, m, h)
        PROVE  Fetching(n, m, h)'
    <3>1. g.at = n /\ g.rest = Walk(m, store[m][h].prev)
      BY <1>2, <2>1, <2>2 DEF Fetching
    <3>2. transit'[n] = Walk(m, store[m][h].prev)
      BY <1>2, <2>1, <3>1 DEF Context, StoreInv, Base, TypeInv, Domains
    <3>3. PICK below : Below(n, m, h, below)
      BY <2>2, FetchingBelow DEF Context, StoreInv
    <3>4. Below(n, m, h, below)'
      BY <2>1, <3>3, BelowKept
    <3> QED
      BY <2>2, <3>2, <3>3, <3>4 DEF Fetching, Below
  <2>3. PICK X : X = {}
    OBVIOUS
  <2>4. Become(g, X) /\ \A x, y \in X : x = y /\ x.pc \in Shortening /\ x.pc # g.pc
    BY <2>1, <2>3
  <2>5. Asides' = X => \A n \in Node, m \in Node : \A h :
                         Fetching(n, m, h) => Fetching(n, m, h)'
    BY <2>2, <2>3
  <2> QED
    BY <1>1, <2>1, <2>4, <2>5, AsideKeeps
<1> QED
  BY <1>3, <1>4, <1>5

\* A getdata finds its block and is answered with it.
LEMMA TalkData ==
  ASSUME TwoNodes, Context, NEW g \in DOMAIN gor, handleGetData(g)
  PROVE  TalkInv' /\ up' = up
<1> DEFINE m == [at |-> g.from, pc |-> "block", from |-> g.at, block |-> store[g.at][g.id]]
<1>1. g.pc = "getdata"
  BY DEF handleGetData
<1>2. g \in Turns /\ g.pc # "apply"
  BY <1>1 DEF Turns, Conversation
<1>3. Stage(g) /\ g.at \in Node /\ g.from \in Node /\ g.from # g.at
  BY <1>2, TurnFacts
<1>4. Fetching(g.from, g.at, g.id)
  BY <1>1, <1>3 DEF Stage
<1>5. g.id \in DOMAIN store[g.at] /\ store[g.at][g.id].hash = g.id
  BY <1>3, <1>4 DEF Fetching, Context, StoreInv, Base, TypeInv, Stored
<1>6. SendData(g, m, {}) /\ store' = store /\ up' = up /\ transit' = transit
  BY <1>5 DEF handleGetData, durable
<1>7. m.at = g.from
  OBVIOUS
<1>8. PICK t : t = m
  OBVIOUS
<1>9. /\ t.pc = "block" /\ t.at = g.from /\ t.from = g.at
      /\ t.block = store[g.at][g.id] /\ t.block.hash = g.id
  BY <1>5, <1>8
<1> HIDE DEF m
<1>10. Become(g, {} \cup {t})
  BY <1>2, <1>6, <1>7, <1>8, Delivered
<1>11. t.pc \in Conversation /\ t.at # g.at
  BY <1>3, <1>9 DEF Conversation
<1>12. Asides' = Asides /\ (Stage(t)' => TalkInv' /\ up' = up)
  BY <1>2, <1>6, <1>10, <1>11, TurnMoves
<1>13. PICK below : Below(g.from, g.at, g.id, below)
  BY <1>3, <1>4, FetchingBelow DEF Context, StoreInv
<1>14. Below(g.from, g.at, g.id, below)'
  BY <1>6, <1>13, BelowKept
<1>15. Fetching(g.from, g.at, g.id)'
  BY <1>4, <1>6, <1>12, <1>13, <1>14 DEF Fetching, Below
<1>16. store'[t.from][t.block.hash] = t.block
  BY <1>6, <1>9
<1>17. Stage(t)'
  BY <1>9, <1>15, <1>16 DEF Stage
<1> QED
  BY <1>12, <1>17

\* Node n stores block b of m: now it may lack the predecessor of b only.
LEMMA StoredBlock ==
  ASSUME Base, ChainInv, NEW n \in Node, NEW m \in Node, n # m, NEW b,
         store' = [store EXCEPT ![n] = Put(@, b)], Misses(n, b.hash), Closed(m)
  PROVE  Misses(n, b.prev)' /\ Closed(m)' /\ store'[m] = store[m]
<1>1. store'[n] = Put(store[n], b) /\ store'[m] = store[m]
  BY DEF Base, TypeInv, Shape
<1>2. Closed(m)'
  BY <1>1 DEF Closed, Misses
<1>3. Misses(n, b.prev)'
  <2>1. /\ DOMAIN Put(store[n], b) = DOMAIN store[n] \cup {b.hash}
        /\ Put(store[n], b)[b.hash] = b
        /\ \A h \in DOMAIN store[n] : h # b.hash => Put(store[n], b)[h] = store[n][h]
    BY PutProperties
  <2> SUFFICES ASSUME NEW k \in DOMAIN store'[n]
               PROVE  store'[n][k].prev \in DOMAIN store'[n] \cup {Empty, b.prev}
    BY DEF Misses
  <2>2. CASE k = b.hash
    BY <1>1, <2>1, <2>2
  <2>3. CASE k # b.hash
    BY <1>1, <2>1, <2>3 DEF Misses
  <2> QED
    BY <2>2, <2>3
<1> QED
  BY <1>1, <1>2, <1>3

\* handleBlock stores the block, in one transaction or in two steps; by then
\* the goroutine that asked for it has shortened BlockInTransit.
LEMMA TalkBlock ==
  ASSUME TwoNodes, Timely', Context, NEW g \in DOMAIN gor,
         AddBlockBy(g) \/ commitBlock(g)
  PROVE  TalkInv' /\ up' = up
<1>1. g.pc \in {"block", "commit"}
  BY DEF AddBlockBy, commitBlock
<1>2. g \in Turns /\ g.pc # "apply"
  BY <1>1 DEF Turns, Conversation
<1>3. Stage(g) /\ g.at \in Node /\ g.from \in Node /\ g.from # g.at
  BY <1>2, TurnFacts
<1> DEFINE b == g.block
<1>4. Storing(g.at, g.from, b) /\ Misses(g.at, b.hash)
  <2>1. CASE commitBlock(g)
    BY <1>3, <2>1 DEF commitBlock, Stage
  <2>2. CASE AddBlockBy(g)
    <3>1. Fetching(g.at, g.from, b.hash) /\ store[g.from][b.hash] = b
      BY <1>3, <2>2 DEF AddBlockBy, Stage
    <3>2. Asides = {}
      <4>1. PICK t : /\ t.at = g.at /\ t.pc \in {"commit", "next"} /\ t.pc # g.pc
                     /\ Become(g, {} \cup {t}) /\ up' = up
        BY <2>2 DEF AddBlockBy, With, volatile
      <4>2. Asides' = Asides /\ Turns' = {t}
        BY <1>2, <4>1, TurnMoves DEF Conversation
      <4>3. \A s \in Asides : s.at = t.at /\ s.pc \in Shortening /\ s \in DOMAIN gor'
        BY <3>1, <4>1, <4>2 DEF Fetching, Asides
      <4>4. t \in DOMAIN gor'
        BY <4>2 DEF Turns
      <4> QED
        BY <4>1, <4>3, <4>4 DEF Timely, Shortening
    <3> QED
      BY <3>1, <3>2 DEF Fetching, Storing
  <2> QED
    BY <2>1, <2>2
<1>5. ASSUME NEW pc, g.pc # pc, pc \in Conversation, Become(g, {With(g, pc)}), up' = up
      PROVE  \E t : /\ t.pc = pc /\ t.at = g.at /\ t.from = g.from /\ t.block = b
                    /\ Asides' = Asides /\ (Stage(t)' => TalkInv' /\ up' = up)
  <2>1. PICK t : t = With(g, pc)
    OBVIOUS
  <2>2. t.pc = pc /\ t.at = g.at /\ t.from = g.from /\ t.block = b
    BY <2>1 DEF With
  <2>3. Become(g, {} \cup {t})
    BY <1>5, <2>1
  <2>4. Asides' = Asides /\ (Stage(t)' => TalkInv' /\ up' = up)
    BY <1>2, <1>5, <2>2, <2>3, TurnMoves
  <2> QED
    BY <2>2, <2>4
<1>6. CASE AddBlockBy(g) /\ Outgrows(g.block, g.at)
  <2>1. /\ Become(g, {With(g, "commit")}) /\ g.pc # "commit"
        /\ up' = up /\ store' = store /\ transit' = transit
    BY <1>6 DEF AddBlockBy, durable
  <2>2. PICK t : /\ t.pc = "commit" /\ t.at = g.at /\ t.from = g.from /\ t.block = b
                 /\ Asides' = Asides /\ (Stage(t)' => TalkInv' /\ up' = up)
    BY <1>5, <2>1 DEF Conversation
  <2>3. Storing(g.at, g.from, b)' /\ Misses(g.at, b.hash)'
    BY <1>4, <2>1, <2>2, StoresKept DEF Storing
  <2>4. Stage(t)'
    BY <2>2, <2>3 DEF Stage
  <2> QED
    BY <2>2, <2>4
<1>7. CASE commitBlock(g) \/ (AddBlockBy(g) /\ ~Outgrows(g.block, g.at))
  <2>1. /\ Become(g, {With(g, "next")}) /\ g.pc # "next"
        /\ up' = up /\ transit' = transit
        /\ store' = [store EXCEPT ![g.at] = Put(@, b)]
    BY <1>7 DEF AddBlockBy, commitBlock, volatile
  <2>2. PICK t : /\ t.pc = "next" /\ t.at = g.at /\ t.from = g.from /\ t.block = b
                 /\ Asides' = Asides /\ (Stage(t)' => TalkInv' /\ up' = up)
    BY <1>5, <2>1 DEF Conversation
  <2>3. Misses(g.at, b.prev)' /\ Closed(g.from)' /\ store'[g.from] = store[g.from]
    BY <1>3, <1>4, <2>1, StoredBlock DEF Storing, Context, StoreInv
  <2>4. Walk(g.from, b.prev)' = Walk(g.from, b.prev)
    BY <2>3 DEF Walk
  <2>5. Storing(g.at, g.from, b)'
    BY <1>4, <2>1, <2>2, <2>3, <2>4 DEF Storing
  <2>6. Stage(t)'
    BY <2>2, <2>3, <2>5 DEF Stage
  <2> QED
    BY <2>2, <2>6
<1> QED
  BY <1>6, <1>7

\* The first hash left is the predecessor of the block just stored; when
\* none is left, that block was a genesis block.
LEMMA TalkNext ==
  ASSUME TwoNodes, Context, NEW g \in DOMAIN gor, nextInTransit(g)
  PROVE  TalkInv' /\ up' = up
<1>1. g.pc = "next" /\ up' = up /\ store' = store /\ transit' = transit
  BY DEF nextInTransit, durable, volatile
<1>2. g \in Turns /\ g.pc # "apply"
  BY <1>1 DEF Turns, Conversation
<1>3. /\ Stage(g) /\ g.at \in Node /\ g.from \in Node /\ g.from # g.at
      /\ \A n \in Node : n = g.at \/ n = g.from
  BY <1>2, TurnFacts
<1> DEFINE b == g.block
           left == Walk(g.from, b.prev)
<1>4. Storing(g.at, g.from, b) /\ Misses(g.at, b.prev)
  BY <1>1, <1>3 DEF Stage
<1>5. /\ transit[g.at] = left /\ left \in Seq(DOMAIN store[g.from])
      /\ IF b.prev \in DOMAIN store[g.from]
         THEN left # <<>> /\ left[1] = b.prev ELSE left = <<>>
  <2>1. PICK h \in DOMAIN store[g.from] : store[g.from][h] = b
    BY <1>4 DEF Storing
  <2>2. LET below == Walk(g.from, store[g.from][h].prev)
        IN  /\ below \in Seq(DOMAIN store[g.from])
            /\ IF store[g.from][h].prev \in DOMAIN store[g.from]
               THEN below # <<>> /\ below[1] = store[g.from][h].prev
               ELSE below = <<>>
    BY <1>3, WalkUnfolds DEF Context, StoreInv
  <2> QED
    BY <1>4, <2>1, <2>2 DEF Storing
<1> HIDE DEF left
<1>6. CASE HashesLeft(g.at)
  <2> DEFINE x == [at |-> g.at, pc |-> "ask", from |-> g.from, id |-> transit[g.at][1]]
  <2>1. b.prev \in DOMAIN store[g.from] /\ transit[g.at][1] = b.prev
    <3>1. left # <<>>
      BY <1>5, <1>6 DEF HashesLeft
    <3> QED
      BY <1>5, <3>1
  <2>2. PICK t : t = x
    OBVIOUS
  <2>3. t.pc = "ask" /\ t.at = g.at /\ t.from = g.from /\ t.id = b.prev
    BY <2>1, <2>2
  <2>4. Become(g, {} \cup {t})
    BY <1>6, <2>2 DEF nextInTransit
  <2> HIDE DEF x
  <2>5. t.pc \in Conversation /\ t.pc # g.pc
    BY <1>1, <2>3 DEF Conversation
  <2>6. Asides' = Asides /\ (Stage(t)' => TalkInv' /\ up' = up)
    BY <1>1, <1>2, <2>4, <2>5, TurnMoves
  <2>7. /\ Misses(g.at, b.prev)' /\ Closed(g.from)' /\ Asides' = {}
        /\ Walk(g.from, b.prev)' = Walk(g.from, b.prev)
    BY <1>1, <1>4, <2>6, StoresKept DEF Storing
  <2>8. t.id \in DOMAIN store'[t.from] /\ transit'[t.at] = Walk(t.from, t.id)'
    BY <1>1, <1>5, <2>1, <2>3, <2>7 DEF left
  <2>9. Stage(t)'
    BY <2>3, <2>7, <2>8 DEF Stage
  <2> QED
    BY <2>6, <2>9
<1>7. CASE ~HashesLeft(g.at)
  <2> DEFINE x == [at |-> g.at, pc |-> "apply", block |-> g.block]
  <2>1. b.prev \notin DOMAIN store[g.from]
    <3>1. left = <<>>
      BY <1>5, <1>7 DEF HashesLeft
    <3> QED
      BY <1>5, <3>1
  <2>2. b.prev = Empty
    BY <1>4, <2>1 DEF Storing, Closed, Misses
  <2>3. Rest
    <3>1. Closed(g.at) /\ Closed(g.from) /\ Asides = {}
      BY <1>4, <2>2 DEF Storing, Closed
    <3> QED
      BY <1>3, <3>1 DEF Rest
  <2>4. PICK t : t = x
    OBVIOUS
  <2>5. t.pc = "apply" /\ t.at = g.at /\ t.block = b
    BY <2>4
  <2>6. Become(g, {} \cup {t})
    BY <1>7, <2>4 DEF nextInTransit
  <2> HIDE DEF x
  <2>7. t.pc \in Conversation /\ t.pc # g.pc
    BY <1>1, <2>5 DEF Conversation
  <2>8. Asides' = Asides /\ (Stage(t)' => TalkInv' /\ up' = up)
    BY <1>1, <1>2, <2>6, <2>7, TurnMoves
  <2>9. Rest'
    BY <1>1, <2>3, <2>8, StoresKept DEF Rest
  <2>10. Stage(t)'
    BY <2>2, <2>5, <2>9 DEF Stage
  <2> QED
    BY <2>8, <2>10
<1> QED
  BY <1>6, <1>7

\* That hash is asked for before it is taken off the list.
LEMMA TalkAsk ==
  ASSUME TwoNodes, Context, NEW g \in DOMAIN gor, requestNext(g)
  PROVE  TalkInv' /\ up' = up
<1> DEFINE m == [at |-> g.from, pc |-> "getdata", from |-> g.at, id |-> g.id]
           x == [at |-> g.at, pc |-> "pop"]
<1>1. /\ SendData(g, m, {x}) /\ g.pc = "ask"
      /\ store' = store /\ up' = up /\ transit' = transit
  BY DEF requestNext, durable
<1>2. g \in Turns /\ g.pc # "apply"
  BY <1>1 DEF Turns, Conversation
<1>3. Stage(g) /\ g.at \in Node /\ g.from \in Node /\ g.from # g.at
  BY <1>2, TurnFacts
<1>4. /\ g.id \in DOMAIN store[g.from] /\ transit[g.at] = Walk(g.from, g.id)
      /\ Asides = {} /\ Closed(g.from) /\ Misses(g.at, g.id)
  BY <1>1, <1>3 DEF Stage
<1>5. PICK t : t = m
  OBVIOUS
<1>6. PICK s : s = x
  OBVIOUS
<1>7. /\ t.pc = "getdata" /\ t.at = g.from /\ t.from = g.at /\ t.id = g.id
      /\ s.pc = "pop" /\ s.at = g.at /\ m.at = g.from
  BY <1>5, <1>6
<1> HIDE DEF m, x
<1>8. Become(g, {s} \cup {t})
  BY <1>1, <1>2, <1>5, <1>6, <1>7, Delivered
<1>9. t.pc \in Conversation /\ t.pc # g.pc /\ s.pc \in Shortening
  BY <1>1, <1>7 DEF Conversation, Shortening
<1>10. Asides' = Asides \cup {s} /\ (Stage(t)' => TalkInv' /\ up' = up)
  BY <1>1, <1>2, <1>4, <1>8, <1>9, TurnLeaves
<1>11. Asides' = {s}
  BY <1>4, <1>10
<1>12. /\ Misses(g.at, g.id)' /\ Closed(g.from)'
       /\ Walk(g.from, g.id)' = Walk(g.from, g.id)
  BY <1>1, <1>4, StoresKept
<1>13. Fetching(g.at, g.from, g.id)'
  BY <1>1, <1>4, <1>7, <1>11, <1>12 DEF Fetching
<1>14. Stage(t)'
  BY <1>7, <1>13 DEF Stage
<1> QED
  BY <1>10, <1>14

\* A stored block without a predecessor only rewards its miner.
LEMMA GenesisRewards ==
  ASSUME Base, ChainInv, NEW b, IsStored(b), b.prev = Empty, NEW utxo
  PROVE  UpdateUTXO(utxo, b) = utxo
<1>1. PICK n \in Node : b.hash \in DOMAIN store[n] /\ store[n][b.hash] = b
  BY DEF IsStored
<1>2. PICK k \in Node : b = Genesis(k) \/ MinedBy(b, k)
  BY <1>1 DEF ChainInv, Origin
<1>3. ~MinedBy(b, k)
  <2>1. \A h \in DOMAIN store[k] : h # Empty
    BY NoHashEmpty
  <2> QED
    BY <2>1 DEF MinedBy
<1>4. PICK tx : tx = CoinBaseTx("transactionFirst", Miner)
  OBVIOUS
<1>5. b.txs = <<tx>>
  BY <1>2, <1>3, <1>4 DEF Genesis, GenesisBlock, NewBlock
<1>6. IsCoinbase(tx)
  BY <1>4 DEF CoinBaseTx, NewTransaction, CoinbaseInput, IsCoinbase, Empty
<1> QED
  BY <1>5, <1>6, RewardPassedOver

\* UpdateUTXO is called once a pull, with that block, and has nothing to do.
LEMMA TalkApply ==
  ASSUME TwoNodes, Context, NEW g \in DOMAIN gor, updateUTXO(g)
  PROVE  TalkInv' /\ up' = up
<1>1. g.pc = "apply"
  BY DEF updateUTXO
<1>2. g \in Turns
  BY <1>1 DEF Turns, Conversation
<1>3. Turns = {g} /\ gor[g] = 1 /\ Stage(g) /\ g.at \in Node /\ \A n \in Node : up[n]
  BY <1>2, TurnFacts
<1>4. Rest /\ g.block.prev = Empty
  BY <1>1, <1>3 DEF Stage
<1>5. UpdateUTXO(chainstate[g.at], g.block) # Nil
  <2>1. IsStored(g.block)
    BY <1>1 DEF Context, StoreInv, Carried, Carriers
  <2>2. UpdateUTXO(chainstate[g.at], g.block) = chainstate[g.at]
    BY <1>4, <2>1, GenesisRewards DEF Context, StoreInv
  <2> QED
    BY <1>3, <2>2 DEF Context, Tidy
<1>6. Become(g, {}) /\ store' = store /\ up' = up
  BY <1>5 DEF updateUTXO, volatile
<1>7. DOMAIN gor' = DOMAIN gor \ {g}
  <2>1. PICK S : S = {}
    OBVIOUS
  <2>2. IsABag(gor) /\ Become(g, S) /\ g \notin S
    BY <1>6, <2>1 DEF Context, StoreInv, Base, TypeInv, Shape
  <2>3. /\ DOMAIN gor' \subseteq DOMAIN gor \cup S
        /\ \A x \in DOMAIN gor \ {g} : x \in DOMAIN gor'
        /\ g \notin DOMAIN gor'
    BY <1>3, <2>2, BecomeGor
  <2> QED
    BY <2>1, <2>3
<1>8. Turns' = {} /\ Asides' = {}
  BY <1>3, <1>4, <1>7 DEF Turns, Asides, Rest
<1>9. Rest'
  BY <1>4, <1>6, <1>8, StoresKept
<1>10. \A x \in DOMAIN gor' : x.pc # "truncated"
  BY <1>7 DEF Context, TalkInv
<1>11. \A n \in Node : up'[n]
  BY <1>3, <1>6
<1> QED
  BY <1>6, <1>8, <1>9, <1>10, <1>11 DEF TalkInv

\* No step of a goroutine makes it panic, and the conversation goes on.
LEMMA HandlersTalk ==
  ASSUME TwoNodes, Timely', Context, NEW g \in DOMAIN gor, handleConnection(g)
  PROVE  TalkInv' /\ up' = up
<1>1. ~readTruncated(g)
  BY DEF readTruncated, Context, TalkInv
<1> QED
  BY <1>1, TalkVersion, TalkBlocks, TalkInventory, TalkAside, TalkData, TalkBlock, TalkNext,
     TalkAsk, TalkApply DEF handleConnection

\* While a server is down nobody talks.
LEMMA DownIsQuiet ==
  ASSUME Context, NEW n \in Node, ~up[n]
  PROVE  DOMAIN gor = {} /\ Turns = {} /\ Asides = {} /\ Rest
<1>1. DOMAIN gor = {}
  BY DEF Context, TalkInv
<1>2. Turns = {} /\ Asides = {}
  BY <1>1 DEF Turns, Asides
<1> QED
  BY <1>1, <1>2 DEF Context, TalkInv

\* A server is started, which opens the conversation if it is the second.
LEMMA TalkStart ==
  ASSUME TwoNodes, Context, NEW n \in Node, Start(n)
  PROVE  TalkInv'
<1> DEFINE version == [at |-> Seed, pc |-> "version", from |-> n, height |-> Height(n)]
           S == IF n # Seed /\ (n = Seed \/ up[Seed]) THEN {version} ELSE {}
<1>1. ~up[n] /\ store' = store /\ up' = [up EXCEPT ![n] = TRUE] /\ gor' = gor (+) SetToBag(S)
  BY DEF Start
<1>2. DOMAIN gor = {} /\ Rest
  BY <1>1, DownIsQuiet
<1>3. \A m \in Node : up'[m] <=> up[m] \/ m = n
  BY <1>1 DEF Context, StoreInv, Base, TypeInv, Shape
<1>4. PICK t : t = version
  OBVIOUS
<1>5. t.pc = "version"
  BY <1>4
<1> HIDE DEF version
<1>6. CASE S = {}
  <2>1. DOMAIN gor' = {}
    <3>1. IsABag(gor)
      BY DEF Context, StoreInv, Base, TypeInv, Shape
    <3> HIDE DEF S
    <3>2. DOMAIN gor' = DOMAIN gor \cup S
      BY <1>1, <3>1, SentGor
    <3> QED
      BY <1>2, <1>6, <3>2
  <2>2. Turns' = {} /\ Asides' = {}
    BY <2>1 DEF Turns, Asides
  <2>3. Rest'
    BY <1>1, <1>2, <2>2, StoresKept
  <2> QED
    BY <1>3, <2>1, <2>2, <2>3 DEF TalkInv
<1>7. CASE S # {}
  <2>1. S = {t} /\ n # Seed /\ up[Seed] /\ Seed \in Node
    BY <1>4, <1>7, SyncAssumption
  <2>2. \A m \in Node : up'[m]
    BY <1>3, <2>1 DEF TwoNodes
  <2> HIDE DEF S
  <2>3. DOMAIN gor' = {t} /\ gor'[t] = 1
    BY <1>1, <1>2, <2>1 DEF (+), SetToBag
  <2>4. Turns' = {t} /\ Asides' = {}
    BY <1>5, <2>3 DEF Turns, Asides, Conversation, Shortening
  <2>5. Rest'
    BY <1>1, <1>2, <2>4, StoresKept
  <2>6. Stage(t)'
    BY <1>5, <2>5 DEF Stage
  <2> QED
    BY <1>3, <1>5, <2>2, <2>3, <2>4, <2>6 DEF TalkInv
<1> QED
  BY <1>6, <1>7

\* A block stored above a block that is there leaves the database closed.
LEMMA StoredAbove ==
  ASSUME NEW n \in Node, NEW b, store'[n] = Put(store[n], b),
         Closed(n)
  PROVE  b.prev \in DOMAIN store[n] => Closed(n)'
<1>1. /\ DOMAIN Put(store[n], b) = DOMAIN store[n] \cup {b.hash}
      /\ Put(store[n], b)[b.hash] = b
      /\ \A h \in DOMAIN store[n] : h # b.hash => Put(store[n], b)[h] = store[n][h]
  BY PutProperties
<1> SUFFICES ASSUME b.prev \in DOMAIN store[n], NEW k \in DOMAIN store'[n]
             PROVE  store'[n][k].prev \in DOMAIN store'[n] \cup {Empty}
  BY DEF Closed, Misses
<1>2. CASE k = b.hash
  BY <1>1, <1>2
<1>3. CASE k # b.hash
  BY <1>1, <1>3 DEF Closed, Misses
<1> QED
  BY <1>2, <1>3

\* A mined block stands on the latest one, so its database stays closed.
LEMMA TalkMined ==
  ASSUME Context, NEW n \in Node, NEW b, b.prev = latest[n], AddBlock(n, b)
  PROVE  TalkInv'
<1>1. ~up[n] /\ store' = [store EXCEPT ![n] = Put(@, b)] /\ gor' = gor /\ up' = up
  BY DEF AddBlock, volatile
<1>2. DOMAIN gor = {} /\ Turns = {} /\ Asides = {} /\ Rest
  BY <1>1, DownIsQuiet
<1>3. /\ store'[n] = Put(store[n], b) /\ latest[n] \in DOMAIN store[n]
      /\ \A m \in Node : m # n => store'[m] = store[m]
  BY <1>1 DEF Context, StoreInv, Base, TypeInv, Shape, Stored
<1>4. \A m \in Node : m # n => Closed(m)'
  BY <1>2, <1>3 DEF Rest, Closed, Misses
<1>5. Closed(n)'
  BY <1>2, <1>3, StoredAbove DEF Rest, Context, StoreInv
<1>6. DOMAIN gor' = {} /\ Turns' = {} /\ Asides' = {}
  BY <1>1, <1>2 DEF Turns, Asides
<1>7. Rest'
  BY <1>4, <1>5, <1>6 DEF Rest
<1> QED
  BY <1>1, <1>6, <1>7 DEF TalkInv

\* When no block is being pulled the databases lack no predecessor.
LEMMA QuietRests ==
  ASSUME Context, Quiet
  PROVE  \A n \in Node : Closed(n)
<1>1. CASE Turns = {}
  BY <1>1 DEF Context, TalkInv, Rest
<1>2. CASE Turns # {}
  <2>1. PICK g \in Turns : Stage(g)
    BY <1>2 DEF Context, TalkInv
  <2>2. g.pc = "version"
    BY DEF Quiet, Turns, Conversation
  <2> QED
    BY <2>1, <2>2 DEF Stage, Rest
<1> QED
  BY <1>1, <1>2

\* A server killed after the last message leaves nobody talking.
LEMMA TalkCrash ==
  ASSUME Context, NEW n \in Node, Crash(n), OrderlyKills
  PROVE  TalkInv'
<1>1. Quiet /\ gor' = EmptyBag
  BY DEF OrderlyKills
<1>2. store' = store
  BY DEF Crash, durable
<1>3. DOMAIN gor' = {}
  BY <1>1 DEF EmptyBag, SetToBag
<1>4. Turns' = {} /\ Asides' = {}
  BY <1>3 DEF Turns, Asides
<1>5. \A m \in Node : Closed(m)'
  BY <1>1, <1>2, QuietRests, StoresKept
<1> QED
  BY <1>3, <1>4, <1>5 DEF TalkInv, Rest

\* Processes come and go only while nobody talks.
LEMMA ProcessesTalk ==
  ASSUME TwoNodes, OrderlyKills, Context, NEW n \in Node, Processes(n)
  PROVE  TalkInv'
<1>1. CASE Start(n)
  BY <1>1, TalkStart
<1>2. CASE StartPanics(n)
  <2>1. ~up[n] /\ store' = store /\ gor' = gor /\ up' = up
    BY <1>2 DEF StartPanics, volatile
  <2>2. DOMAIN gor' = {} /\ Turns' = {} /\ Asides' = {} /\ Rest
    BY <2>1, DownIsQuiet DEF Turns, Asides
  <2>3. Rest'
    BY <2>1, <2>2, StoresKept
  <2> QED
    BY <2>1, <2>2, <2>3 DEF TalkInv
<1>3. CASE Crash(n)
  BY <1>3, TalkCrash
<1>4. CASE AddCoinbase(n)
  <2>1. PICK b : b = NextBlock(n, <<CoinBaseTx("outputsFirst", Miner)>>)
    OBVIOUS
  <2>2. b.prev = latest[n] /\ AddBlock(n, b)
    BY <1>4, <2>1 DEF AddCoinbase, NextBlock, NewBlock
  <2> QED
    BY <2>2, TalkMined
<1>5. CASE \E transfer \in Transfers[n] : SendTx(n, transfer)
  <2>1. PICK tx : AddBlock(n, NextBlock(n, <<tx>>))
    BY <1>5 DEF SendTx
  <2>2. PICK b : b = NextBlock(n, <<tx>>)
    OBVIOUS
  <2>3. b.prev = latest[n] /\ AddBlock(n, b)
    BY <2>1, <2>2 DEF NextBlock, NewBlock
  <2> QED
    BY <2>3, TalkMined
<1> QED
  BY <1>1, <1>2, <1>3, <1>4, <1>5 DEF Processes

-----------------------------------------------------------------------------
(* Two servers whose pulls are paced *)

\* A paced step keeps the conversation in order.
LEMMA StepTalks ==
  ASSUME TwoNodes, Context, [Next /\ Timely' /\ OrderlyKills]_vars
  PROVE  TalkInv'
<1>1. CASE UNCHANGED vars
  <2>1. store' = store /\ transit' = transit /\ gor' = gor /\ up' = up
    BY <1>1 DEF vars, durable, volatile
  <2>2. Turns' = Turns /\ Asides' = Asides
    BY <2>1 DEF Turns, Asides
  <2>3. \A t \in Turns : Stage(t)'
    BY <2>1, <2>2, StageKept DEF Context, TalkInv
  <2>4. Turns = {} => Rest'
    BY <2>1, <2>2, StoresKept DEF Context, TalkInv, Rest
  <2> QED
    BY <2>1, <2>2, <2>3, <2>4 DEF Context, TalkInv
<1>2. CASE Next /\ Timely' /\ OrderlyKills
  BY <1>2, HandlersTalk, ProcessesTalk DEF Next
<1> QED
  BY <1>1, <1>2

\* At first nobody talks and every database holds a genesis block.
LEMMA InitTalk == Init => TalkInv
<1> SUFFICES ASSUME Init PROVE TalkInv
  OBVIOUS
<1>1. DOMAIN gor = {} /\ \A n \in Node : store[n] = Put(<<>>, Genesis(n))
  BY DEF Init, EmptyBag, SetToBag
<1>2. Turns = {} /\ Asides = {}
  BY <1>1 DEF Turns, Asides
<1>3. \A n \in Node : Genesis(n).prev = Empty
  BY DEF Genesis, GenesisBlock, NewBlock
<1>4. ASSUME NEW n \in Node
      PROVE  Closed(n)
  <2> DEFINE d == Put(<<>>, Genesis(n))
  <2>1. DOMAIN d = {Genesis(n).hash}
    BY DEF Put
  <2>2. d[Genesis(n).hash] = Genesis(n)
    BY DEF Put
  <2>3. store[n] = d
    BY <1>1
  <2>4. \A h \in DOMAIN store[n] : store[n][h].prev = Empty
    BY <1>3, <2>1, <2>2, <2>3
  <2> QED
    BY <2>4 DEF Closed, Misses
<1> QED
  BY <1>1, <1>2, <1>4 DEF TalkInv, Rest

\* So the conversation stays in order.
LEMMA TalkHolds ==
  ASSUME TwoNodes, NoClockTies, NilIsNoMap
  PROVE  PacedSpec => []Context
<1>1. Init => Tidy /\ TalkInv
  BY InitTidy, InitTalk
<1>2. Tidy /\ StoreInv /\ [Next]_vars => Tidy'
  BY StepTidy
<1>3. Context /\ [Next /\ Timely' /\ OrderlyKills]_vars => TalkInv'
  BY StepTalks
<1>4. Context <=> StoreInv /\ Tidy /\ TalkInv
  BY DEF Context
<1>5. [Next /\ Timely' /\ OrderlyKills]_vars => [Next]_vars
  OBVIOUS
<1>6. Spec => []StoreInv
  BY StoreInvHolds
<1> QED
  BY <1>1, <1>2, <1>3, <1>4, <1>5, <1>6, PTL DEF Spec, PacedSpec

\* Between two nodes whose pulls are paced, every node can walk its chain
\* down to a genesis block whenever no block is being pulled, over any number
\* of runs, kills and pulls, whoever of the two is ahead and wherever their
\* genesis blocks come from: the pull of a chain, newest block first, leaves
\* the database with one hole at most, BlockInTransit lists what is below
\* that hole, so the next hash asked for closes it.
THEOREM SyncPulls ==
  ASSUME TwoNodes, NoClockTies, NilIsNoMap
  PROVE  PacedSpec => []PullComplete
<1>1. Context => PullComplete
  <2> SUFFICES ASSUME Context, Quiet, NEW n \in Node
               PROVE  ReachesGenesis(store[n], latest[n])
    BY DEF PullComplete
  <2>1. Closed(n)
    BY QuietRests
  <2>2. latest[n] \in DOMAIN store[n]
    BY DEF Context, StoreInv, Base, TypeInv, Stored
  <2> QED
    BY <2>1, <2>2, ClosedReaches DEF Context, StoreInv
<1> QED
  BY <1>1, TalkHolds, PTL

\* And none of their servers ends by a panic: every getdata finds its block,
\* every walk reaches a genesis block, the list is never popped when it is
\* empty, no message is cut short, and UpdateUTXO only meets genesis blocks.
THEOREM SyncStaysUp ==
  ASSUME TwoNodes, NoClockTies, NilIsNoMap
  PROVE  PacedSpec => NoHandlerPanics
<1>1. ASSUME Context, Next, Timely', OrderlyKills, NEW n \in Node, up[n], ~up'[n]
      PROVE  crashes' # crashes
  <2>1. CASE \E g \in DOMAIN gor : handleConnection(g)
    BY <1>1, <2>1, HandlersTalk
  <2>2. CASE \E m \in Node : Processes(m)
    <3>1. PICK m \in Node : Processes(m)
      BY <2>2
    <3>2. CASE Start(m)
      BY <1>1, <3>2 DEF Start, Context, StoreInv, Base, TypeInv
    <3>3. CASE Crash(m)
      BY <3>3 DEF Crash, Context, StoreInv, Base, TypeInv
    <3>4. CASE up' = up
      BY <1>1, <3>4
    <3> QED
      BY <3>1, <3>2, <3>3, <3>4
         DEF Processes, StartPanics, AddCoinbase, SendTx, AddBlock, volatile
  <2> QED
    BY <1>1, <2>1, <2>2 DEF Next
<1>2. Context /\ [Next /\ Timely' /\ OrderlyKills]_vars
        => [\A n \in Node : up[n] /\ ~up'[n] => crashes' # crashes]_vars
  BY <1>1
<1> QED
  BY <1>2, TalkHolds, PTL DEF PacedSpec, NoHandlerPanics

=============================================================================
