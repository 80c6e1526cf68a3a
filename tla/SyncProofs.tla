----------------------------- MODULE SyncProofs -----------------------------
(***************************************************************************)
(* The invariants of Sync, proved for any nodes, clocks, transfers and     *)
(* bounds.                                                                 *)
(*                                                                         *)
(* First the part that needs no assumption about clocks: types, bolt's     *)
(* write lock and bc.topHash.                                              *)
(***************************************************************************)
EXTENDS Sync, Induction

\* The steps at which a goroutine still has somebody to answer.
Answering == {"version", "isKnownNode", "addKnown", "getblocks", "walk", "inv", "request",
              "getdata", "block", "commit", "next", "ask"}

\* A goroutine as the handlers build it.
Sound(g) ==
    /\ g.at \in Node /\ up[g.at]
    /\ g.pc \in Steps \cup {"version"}
    /\ g.pc \in Answering => g.from \in Node /\ g.from # g.at
    /\ g.pc = "version" => g.height \in 0..MaxHeight
    /\ g.pc \in {"block", "commit", "next", "apply"} => g.block.height \in 0..MaxHeight

Shape ==
    /\ store = [n \in Node |-> store[n]]
    /\ latest = [n \in Node |-> latest[n]]
    /\ top = [n \in Node |-> top[n]]
    /\ up \in [Node -> BOOLEAN]
    /\ runs \in [Node -> 0..MaxRuns] /\ crashes \in 0..MaxCrashes
    /\ IsABag(gor)

Domains == DOMAIN chainstate = Node /\ DOMAIN known = Node /\ DOMAIN transit = Node

Stored ==
    \A n \in Node :
        /\ latest[n] \in DOMAIN store[n]
        /\ \A h \in DOMAIN store[n] :
              store[n][h].hash = h /\ store[n][h].height \in 0..MaxHeight

Goroutines == \A g \in DOMAIN gor : Sound(g)

\* A goroutine inside AddBlockBy's transaction is the only one of its node,
\* and bc.topHash already shows its block.
Locks ==
    \A g \in DOMAIN gor : g.pc = "commit" =>
        /\ gor[g] = 1
        /\ g.block.height > Height(g.at)
        /\ top[g.at] = g.block.hash
        /\ \A h \in DOMAIN gor : h.pc = "commit" /\ h.at = g.at => h = g

Tops == \A n \in Node : up[n] /\ ~WriteLocked(n) => top[n] = latest[n]

TypeInv == Shape /\ Domains /\ Stored /\ Goroutines
LockInv == Locks /\ Tops

-----------------------------------------------------------------------------
(* The bag of goroutines *)

\* What Become does to the bag.
LEMMA BecomeGor ==
  ASSUME IsABag(gor), NEW g \in DOMAIN gor, NEW S, Become(g, S)
  PROVE  /\ IsABag(gor')
         /\ DOMAIN gor' \subseteq DOMAIN gor \cup S
         /\ \A x \in DOMAIN gor \ {g} : x \in DOMAIN gor'
         /\ \A x \in DOMAIN gor' \ S : gor'[x] <= gor[x] /\ gor'[x] \in Nat \ {0}
         /\ \A x \in S : x \in DOMAIN gor' /\ (x \notin DOMAIN gor => gor'[x] = 1)
         /\ gor[g] = 1 /\ g \notin S => g \notin DOMAIN gor'
  BY DEF Become, IsABag, (+), (-), SetToBag

\* What a stopped server does to it.
LEMMA GoDownGor ==
  ASSUME IsABag(gor), NEW n, NEW S, GoDown(n, S)
  PROVE  /\ IsABag(gor')
         /\ DOMAIN gor' = (DOMAIN gor \ At(n)) \cup S
         /\ \A x \in DOMAIN gor' \ S : gor'[x] = gor[x]
  BY DEF GoDown, IsABag, (+), SetToBag

\* What a new message does to it.
LEMMA SentGor ==
  ASSUME IsABag(gor), NEW S, gor' = gor (+) SetToBag(S)
  PROVE  /\ IsABag(gor')
         /\ DOMAIN gor' = DOMAIN gor \cup S
         /\ \A x \in DOMAIN gor \ S : gor'[x] = gor[x]
  BY DEF IsABag, (+), SetToBag

-----------------------------------------------------------------------------
(* Steps that have the same effect on what the invariants speak of *)

\* A goroutine outside AddBlockBy moves on, without touching the database's
\* blocks or bc.topHash, and without entering AddBlockBy's transaction.
LEMMA MoveOn ==
  ASSUME TypeInv, LockInv, NEW g \in DOMAIN gor, NEW S, Become(g, S),
         g.pc # "commit", \A x \in S : Sound(x) /\ x.pc # "commit",
         UNCHANGED <<store, latest, up, top, counters>>, Domains'
  PROVE  TypeInv' /\ LockInv'
<1> USE DEF counters
<1>1. /\ IsABag(gor')
      /\ DOMAIN gor' \subseteq DOMAIN gor \cup S
      /\ \A x \in DOMAIN gor \ {g} : x \in DOMAIN gor'
      /\ \A x \in DOMAIN gor' \ S : gor'[x] <= gor[x] /\ gor'[x] \in Nat \ {0}
  BY BecomeGor DEF TypeInv, Shape
<1>2. Shape'
  BY <1>1 DEF TypeInv, Shape
<1>3. Stored'
  BY DEF TypeInv, Stored
<1>4. Goroutines'
  BY <1>1 DEF TypeInv, Goroutines, Sound
<1>5. \A x \in DOMAIN gor' : x.pc = "commit" => x \in DOMAIN gor /\ gor'[x] = 1
  BY <1>1 DEF LockInv, Locks
<1>6. Locks'
  BY <1>5 DEF LockInv, Locks, Height, LatestBlock
<1>7. \A n \in Node : WriteLocked(n) => WriteLocked(n)'
  BY <1>1 DEF WriteLocked, At
<1>8. Tops'
  BY <1>7 DEF LockInv, Tops
<1> QED
  BY <1>2, <1>3, <1>4, <1>6, <1>8 DEF TypeInv, LockInv

\* A server stops; the truncated messages it leaves behind have arrived at
\* servers that are up.
LEMMA Stop ==
  ASSUME TypeInv, LockInv, NEW n \in Node, NEW M \in SUBSET Node,
         \A m \in M : up[m] /\ m # n,
         GoDown(n, {[at |-> m, pc |-> "truncated"] : m \in M}),
         UNCHANGED <<durable, runs>>, crashes' \in 0..MaxCrashes
  PROVE  TypeInv' /\ LockInv'
<1> DEFINE S == {[at |-> m, pc |-> "truncated"] : m \in M}
<1>1. /\ IsABag(gor')
      /\ DOMAIN gor' = (DOMAIN gor \ At(n)) \cup S
      /\ \A x \in DOMAIN gor' \ S : gor'[x] = gor[x]
  BY GoDownGor DEF TypeInv, Shape
<1>2. /\ up' = [up EXCEPT ![n] = FALSE]
      /\ top' = [top EXCEPT ![n] = Empty]
      /\ UNCHANGED <<store, latest, chainstate, runs>>
  BY DEF GoDown, durable
<1>3. Shape'
  BY <1>1, <1>2 DEF TypeInv, Shape
<1>4. Domains'
  BY <1>2 DEF TypeInv, Domains, GoDown
<1>5. Stored'
  BY <1>2 DEF TypeInv, Stored
<1>6. \A x \in S : x.at \in M /\ x.pc = "truncated"
  OBVIOUS
<1>7. Goroutines'
  <2>1. SUFFICES ASSUME NEW x \in DOMAIN gor'
                 PROVE  Sound(x)'
    BY DEF Goroutines
  <2>2. CASE x \in S
    BY <1>2, <1>6, <2>2 DEF Sound, Steps, Answering, TypeInv, Shape
  <2>3. CASE x \in DOMAIN gor \ At(n)
    BY <1>2, <2>3 DEF Sound, TypeInv, Shape, Goroutines, At
  <2> QED
    BY <1>1, <2>2, <2>3
<1>8. \A x \in DOMAIN gor' : x.pc = "commit" =>
        x \in DOMAIN gor /\ x.at # n /\ x.at \in Node /\ gor'[x] = gor[x]
  BY <1>1, <1>6 DEF At, TypeInv, Goroutines, Sound
<1>9. Locks'
  BY <1>2, <1>8 DEF TypeInv, Shape, LockInv, Locks, Height, LatestBlock
<1>10. \A k \in Node : k # n /\ WriteLocked(k) => WriteLocked(k)'
  BY <1>1 DEF WriteLocked, At
<1>11. Tops'
  BY <1>2, <1>10 DEF TypeInv, Shape, LockInv, Tops
<1> QED
  BY <1>3, <1>4, <1>5, <1>7, <1>9, <1>11 DEF TypeInv, LockInv

\* The messages a stopping server cuts short are to other nodes that are up,
\* since no goroutine answers its own node.
LEMMA CutOff ==
  ASSUME TypeInv, NEW n \in Node, NEW G \in SUBSET At(n), NEW S \in SUBSET Receivers(G)
  PROVE  \E M \in SUBSET Node :
           /\ \A m \in M : up[m] /\ m # n
           /\ CutShort(S) = {[at |-> m, pc |-> "truncated"] : m \in M}
<1> DEFINE M == {k \in S : up[k]}
<1>1. \A m \in S : m \in Node /\ m # n
  BY DEF Receivers, At, TypeInv, Goroutines, Sound, Answering
<1>2. M \in SUBSET Node /\ \A m \in M : up[m] /\ m # n
  BY <1>1
<1>3. CutShort(S) = {[at |-> m, pc |-> "truncated"] : m \in M}
  BY DEF CutShort
<1> QED
  BY <1>2, <1>3

\* What a panicking goroutine does ...
LEMMA PanicDown ==
  ASSUME TypeInv, NEW g \in DOMAIN gor, Panic(g)
  PROVE  /\ g.at \in Node
         /\ UNCHANGED <<durable, runs, crashes>>
         /\ \E M \in SUBSET Node :
              /\ \A m \in M : up[m] /\ m # g.at
              /\ GoDown(g.at, {[at |-> m, pc |-> "truncated"] : m \in M})
<1>1. g.at \in Node
  BY DEF TypeInv, Goroutines, Sound
<1>2. PICK S \in SUBSET Receivers(At(g.at) \ {g}) : GoDown(g.at, CutShort(S))
  BY DEF Panic
<1>3. At(g.at) \ {g} \in SUBSET At(g.at)
  OBVIOUS
<1>4. PICK M \in SUBSET Node :
        /\ \A m \in M : up[m] /\ m # g.at
        /\ CutShort(S) = {[at |-> m, pc |-> "truncated"] : m \in M}
  BY <1>1, <1>3, CutOff
<1> QED
  BY <1>1, <1>2, <1>4 DEF Panic, counters

\* ... and a kill.
LEMMA CrashDown ==
  ASSUME TypeInv, NEW n \in Node, Crash(n)
  PROVE  /\ UNCHANGED <<durable, runs>>
         /\ crashes' \in 0..MaxCrashes
         /\ \E M \in SUBSET Node :
              /\ \A m \in M : up[m] /\ m # n
              /\ GoDown(n, {[at |-> m, pc |-> "truncated"] : m \in M})
<1>1. PICK S \in SUBSET Receivers(At(n)) : GoDown(n, CutShort(S))
  BY DEF Crash
<1>2. PICK M \in SUBSET Node :
        /\ \A m \in M : up[m] /\ m # n
        /\ CutShort(S) = {[at |-> m, pc |-> "truncated"] : m \in M}
  BY CutOff
<1>3. crashes' \in 0..MaxCrashes
  BY SyncAssumption DEF Crash, TypeInv, Shape
<1> QED
  BY <1>1, <1>2, <1>3 DEF Crash

\* A panicking goroutine takes its server with it.
LEMMA PanicStops ==
  ASSUME TypeInv, LockInv, NEW g \in DOMAIN gor, Panic(g)
  PROVE  TypeInv' /\ LockInv'
<1>1. PICK M \in SUBSET Node :
        /\ \A m \in M : up[m] /\ m # g.at
        /\ GoDown(g.at, {[at |-> m, pc |-> "truncated"] : m \in M})
  BY PanicDown
<1>2. g.at \in Node /\ UNCHANGED <<durable, runs>> /\ crashes' \in 0..MaxCrashes
  BY PanicDown DEF TypeInv, Shape
<1> QED
  BY <1>1, <1>2, Stop, SMTT(20)

\* A goroutine outside AddBlockBy's transaction sends a message and moves on.
LEMMA SendAndMoveOn ==
  ASSUME TypeInv, LockInv, NEW g \in DOMAIN gor, NEW m, NEW S, SendData(g, m, S),
         g.pc # "commit", m.pc # "commit", up[m.at] => Sound(m),
         \A x \in S : Sound(x) /\ x.pc # "commit",
         UNCHANGED <<durable, up, top, transit, counters>>
  PROVE  TypeInv' /\ LockInv'
<1>1. Become(g, S \cup Deliver(m))
  BY DEF SendData
<1>2. \A x \in S \cup Deliver(m) : Sound(x) /\ x.pc # "commit"
  BY DEF Deliver
<1>3. Domains'
  BY DEF SendData, TypeInv, Domains, durable
<1> QED
  BY <1>1, <1>2, <1>3, MoveOn DEF durable

-----------------------------------------------------------------------------
(* Processes come and go *)

\* The first state, every database holding its genesis block only.
LEMMA InitTypes == Init => TypeInv /\ LockInv
<1> SUFFICES ASSUME Init PROVE TypeInv /\ LockInv
  OBVIOUS
<1>1. gor = [e \in {} |-> 1] /\ DOMAIN gor = {}
  BY DEF Init, EmptyBag, SetToBag
<1>2. Shape
  BY <1>1, SyncAssumption DEF Init, Shape, IsABag
<1>3. Domains
  BY DEF Init, Domains
<1>4. Stored
  <2>1. \A n \in Node : Genesis(n).height = 0
    BY DEF Genesis, GenesisBlock, NewBlock
  <2>2. \A n \in Node : DOMAIN store[n] = {Genesis(n).hash}
    BY DEF Init, Put
  <2>3. \A n \in Node : store[n][Genesis(n).hash] = Genesis(n)
    BY DEF Init, Put
  <2>4. \A n \in Node : latest[n] = Genesis(n).hash
    BY DEF Init
  <2>5. 0 \in 0..MaxHeight
    BY SyncAssumption
  <2> QED
    BY <2>1, <2>2, <2>3, <2>4, <2>5 DEF Stored
<1> QED
  BY <1>1, <1>2, <1>3, <1>4 DEF Init, TypeInv, LockInv, Goroutines, Locks, Tops

\* A server starts and reads bc.topHash from its database.
LEMMA StartTypes ==
  ASSUME TypeInv, LockInv, NEW n \in Node, Start(n)
  PROVE  TypeInv' /\ LockInv'
<1> DEFINE version == [at |-> Seed, pc |-> "version", from |-> n, height |-> Height(n)]
           T == IF n # Seed /\ (n = Seed \/ up[Seed]) THEN {version} ELSE {}
<1>1. /\ IsABag(gor')
      /\ DOMAIN gor' = DOMAIN gor \cup T
      /\ \A x \in DOMAIN gor \ T : gor'[x] = gor[x]
  <2>1. gor' = gor (+) SetToBag(T)
    BY DEF Start
  <2> QED
    BY <2>1, SentGor DEF TypeInv, Shape
<1>2. /\ ~up[n]
      /\ up' = [up EXCEPT ![n] = TRUE]
      /\ top' = [top EXCEPT ![n] = latest[n]]
      /\ UNCHANGED <<store, latest, crashes>>
  BY DEF Start
<1>3. Shape'
  <2>1. runs[n] < MaxRuns /\ runs' = [runs EXCEPT ![n] = @ + 1]
    BY DEF Start
  <2>2. runs' \in [Node -> 0..MaxRuns]
    BY <2>1, SyncAssumption DEF TypeInv, Shape
  <2>3. store' = [k \in Node |-> store'[k]] /\ latest' = [k \in Node |-> latest'[k]]
    BY <1>2 DEF TypeInv, Shape
  <2>4. top' = [k \in Node |-> top'[k]]
    BY <1>2 DEF TypeInv, Shape
  <2>5. up' \in [Node -> BOOLEAN]
    BY <1>2 DEF TypeInv, Shape
  <2> QED
    BY <1>1, <1>2, <2>2, <2>3, <2>4, <2>5 DEF TypeInv, Shape
<1>4. Domains'
  BY DEF TypeInv, Domains, Start
<1>5. Stored'
  BY <1>2 DEF TypeInv, Stored
<1>6. Height(n) \in 0..MaxHeight
  BY DEF TypeInv, Stored, Height, LatestBlock
<1>7. Goroutines'
  <2>1. SUFFICES ASSUME NEW x \in DOMAIN gor'
                 PROVE  Sound(x)'
    BY DEF Goroutines
  <2>2. CASE x \in T
    <3>1. x = version /\ n # Seed /\ up[Seed]
      BY <2>2
    <3> QED
      BY <1>2, <1>6, <3>1, SyncAssumption DEF Sound, Steps, Answering, TypeInv, Shape
  <2>3. CASE x \in DOMAIN gor
    BY <1>2, <2>3 DEF Sound, TypeInv, Shape, Goroutines
  <2> QED
    BY <1>1, <2>2, <2>3
<1>8. \A x \in DOMAIN gor' : x.pc = "commit" =>
        x \in DOMAIN gor /\ x.at # n /\ x.at \in Node /\ gor'[x] = gor[x]
  BY <1>1, <1>2 DEF TypeInv, Goroutines, Sound
<1>9. Locks'
  BY <1>2, <1>8 DEF TypeInv, Shape, LockInv, Locks, Height, LatestBlock
<1>10. \A k \in Node : WriteLocked(k) => WriteLocked(k)'
  BY <1>1 DEF WriteLocked, At
<1>11. Tops'
  BY <1>2, <1>10 DEF TypeInv, Shape, LockInv, Tops
<1> QED
  BY <1>3, <1>4, <1>5, <1>7, <1>9, <1>11 DEF TypeInv, LockInv

\* A start that panics leaves everything but the unspent outputs alone.
LEMMA StartPanicsTypes ==
  ASSUME TypeInv, LockInv, NEW n \in Node, StartPanics(n)
  PROVE  TypeInv' /\ LockInv'
<1>1. UNCHANGED <<store, latest, top, up, known, transit, gor, runs, crashes>>
  BY DEF StartPanics, volatile, counters
<1>2. Shape' /\ Stored'
  BY <1>1 DEF TypeInv, Shape, Stored
<1>3. Domains'
  BY <1>1 DEF StartPanics, TypeInv, Domains
<1>4. Goroutines'
  BY <1>1 DEF TypeInv, Goroutines, Sound
<1>5. LockInv'
  BY <1>1 DEF LockInv, Locks, Tops, WriteLocked, At, Height, LatestBlock
<1> QED
  BY <1>2, <1>3, <1>4, <1>5 DEF TypeInv

\* A kill has the same effect.
LEMMA CrashTypes ==
  ASSUME TypeInv, LockInv, NEW n \in Node, Crash(n)
  PROVE  TypeInv' /\ LockInv'
<1>1. PICK M \in SUBSET Node :
        /\ \A m \in M : up[m] /\ m # n
        /\ GoDown(n, {[at |-> m, pc |-> "truncated"] : m \in M})
  BY CrashDown
<1>2. UNCHANGED <<durable, runs>> /\ crashes' \in 0..MaxCrashes
  BY CrashDown
<1> QED
  BY <1>1, <1>2, Stop

\* A block mined while the server is down.
LEMMA AddBlockTypes ==
  ASSUME TypeInv, LockInv, NEW n \in Node, NEW txs, AddBlock(n, NextBlock(n, txs)),
         DOMAIN chainstate' = Node
  PROVE  TypeInv' /\ LockInv'
<1> DEFINE b == NextBlock(n, txs)
<1>1. /\ ~up[n] /\ Height(n) < MaxHeight
      /\ store' = [store EXCEPT ![n] = Put(@, b)]
      /\ latest' = [latest EXCEPT ![n] = b.hash]
      /\ UNCHANGED <<up, top, known, transit, gor, runs, crashes>>
  BY DEF AddBlock, volatile, counters
<1>2. Height(n) \in 0..MaxHeight
  BY DEF TypeInv, Stored, Height, LatestBlock
<1>3. b.height \in 0..MaxHeight
  BY <1>1, <1>2, SyncAssumption DEF NextBlock, NewBlock
<1> HIDE DEF b
<1>4. Shape'
  BY <1>1 DEF TypeInv, Shape
<1>5. Domains'
  BY <1>1 DEF TypeInv, Domains
<1>6. /\ \A m \in Node : m # n => store'[m] = store[m] /\ latest'[m] = latest[m]
      /\ store'[n] = Put(store[n], b) /\ latest'[n] = b.hash
  BY <1>1 DEF TypeInv, Shape
<1>7. Stored'
  BY <1>3, <1>6 DEF TypeInv, Stored, Put
<1>8. Goroutines' /\ \A g \in DOMAIN gor : g.at \in Node /\ g.at # n
  BY <1>1 DEF TypeInv, Goroutines, Sound
<1>9. Locks'
  BY <1>1, <1>6, <1>8 DEF LockInv, Locks, Height, LatestBlock
<1>10. Tops'
  BY <1>1, <1>6 DEF LockInv, Tops, WriteLocked, At
<1> QED
  BY <1>4, <1>5, <1>7, <1>8, <1>9, <1>10 DEF TypeInv, LockInv

-----------------------------------------------------------------------------
(* Handlers *)

\* What the lemmas on handlers start from.
LEMMA Facts ==
  ASSUME TypeInv, NEW g \in DOMAIN gor
  PROVE  /\ Sound(g) /\ g.at \in Node /\ up[g.at]
         /\ g.pc \in Answering => g.from \in Node /\ g.from # g.at
         /\ \A n \in Node : Height(n) \in 0..MaxHeight
  BY DEF TypeInv, Goroutines, Sound, Stored, Height, LatestBlock

\* version.
LEMMA VersionTypes ==
  ASSUME TypeInv, LockInv, NEW g \in DOMAIN gor,
         handleVersion(g) \/ isKnownNode(g) \/ addKnown(g) \/ setKnown(g)
  PROVE  TypeInv' /\ LockInv'
<1> USE Facts
<1>1. CASE handleVersion(g)
  <2> DEFINE m == IF Behind(g)
         THEN [at |-> g.from, pc |-> "getblocks", from |-> g.at]
         ELSE [at |-> g.from, pc |-> "version", from |-> g.at, height |-> Height(g.at)]
  <2> DEFINE x == [at |-> g.at, pc |-> "isKnownNode", from |-> g.from]
  <2>1. SendData(g, m, {x}) /\ g.pc = "version"
    BY <1>1 DEF handleVersion
  <2>2. Sound(x)
    BY <2>1 DEF Sound, Steps, Answering
  <2>3. up[m.at] => Sound(m)
    BY <2>1 DEF Sound, Steps, Answering
  <2>4. m.pc # "commit" /\ x.pc # "commit"
    OBVIOUS
  <2>5. UNCHANGED <<durable, up, top, transit, counters>>
    BY <1>1 DEF handleVersion
  <2> HIDE DEF m, x
  <2> QED
    BY <2>1, <2>2, <2>3, <2>4, <2>5, SendAndMoveOn
<1>2. CASE isKnownNode(g)
  <2> DEFINE S == IF g.from \in Range(known[g.at]) THEN {}
                  ELSE {[at |-> g.at, pc |-> "addKnown", from |-> g.from]}
  <2>1. Become(g, S) /\ g.pc = "isKnownNode"
    BY <1>2 DEF isKnownNode
  <2>2. \A x \in S : Sound(x) /\ x.pc # "commit"
    BY <2>1 DEF Sound, Steps, Answering
  <2>3. UNCHANGED <<store, latest, chainstate, up, top, known, transit, counters>>
    BY <1>2 DEF isKnownNode, durable, volatile
  <2>4. Domains'
    BY <2>3 DEF TypeInv, Domains
  <2> QED
    BY <2>1, <2>2, <2>3, <2>4, MoveOn
<1>3. CASE addKnown(g)
  <2> DEFINE x == [at |-> g.at, pc |-> "setKnown", list |-> Append(known[g.at], g.from)]
  <2>1. Become(g, {x}) /\ g.pc = "addKnown"
    BY <1>3 DEF addKnown
  <2>2. Sound(x) /\ x.pc # "commit"
    BY <2>1 DEF Sound, Steps, Answering
  <2>3. UNCHANGED <<store, latest, chainstate, up, top, known, transit, counters>>
    BY <1>3 DEF addKnown, durable, volatile
  <2>4. Domains'
    BY <2>3 DEF TypeInv, Domains
  <2> QED
    BY <2>1, <2>2, <2>3, <2>4, MoveOn
<1>4. CASE setKnown(g)
  <2>1. UNCHANGED <<store, latest, chainstate, up, top, transit, counters>>
    BY <1>4 DEF setKnown, durable
  <2>2. Domains'
    BY <1>4, <2>1 DEF setKnown, TypeInv, Domains
  <2> QED
    BY <1>4, <2>1, <2>2, MoveOn DEF setKnown
<1> QED
  BY <1>1, <1>2, <1>3, <1>4

\* getblocks and inv.
LEMMA InvTypes ==
  ASSUME TypeInv, LockInv, NEW g \in DOMAIN gor,
         \/ handleGetBlocks(g) \/ GetBlockHashes(g) \/ handleInv(g)
         \/ requestLatest(g) \/ filterTransit(g) \/ setTransit(g)
  PROVE  TypeInv' /\ LockInv'
<1> USE Facts
<1>1. CASE handleGetBlocks(g)
  <2> DEFINE x == [at |-> g.at, pc |-> "walk", from |-> g.from, cursor |-> top[g.at]]
  <2>1. Become(g, {x}) /\ g.pc = "getblocks"
    BY <1>1 DEF handleGetBlocks
  <2>2. Sound(x) /\ x.pc # "commit"
    BY <2>1 DEF Sound, Steps, Answering
  <2>3. UNCHANGED <<store, latest, chainstate, up, top, known, transit, counters>>
    BY <1>1 DEF handleGetBlocks, durable, volatile
  <2>4. Domains'
    BY <2>3 DEF TypeInv, Domains
  <2> QED
    BY <2>1, <2>2, <2>3, <2>4, MoveOn
<1>2. CASE GetBlockHashes(g) /\ ReachesGenesis(store[g.at], g.cursor)
  <2> DEFINE m == [at |-> g.from, pc |-> "inv", from |-> g.at,
                   items |-> Inventory(Chain(store[g.at], g.cursor))]
  <2>1. SendData(g, m, {}) /\ g.pc = "walk"
    BY <1>2 DEF GetBlockHashes
  <2>2. (up[m.at] => Sound(m)) /\ m.pc # "commit"
    BY <2>1 DEF Sound, Steps, Answering
  <2>3. UNCHANGED <<durable, up, top, transit, counters>>
    BY <1>2 DEF GetBlockHashes
  <2> HIDE DEF m
  <2> QED
    BY <2>1, <2>2, <2>3, SendAndMoveOn
<1>3. CASE GetBlockHashes(g) /\ ~ReachesGenesis(store[g.at], g.cursor)
  BY <1>3, PanicStops DEF GetBlockHashes
<1>4. CASE handleInv(g)
  <2> DEFINE x == [at |-> g.at, pc |-> "request", from |-> g.from, id |-> g.items[1]]
  <2>1. Become(g, {x}) /\ g.pc = "inv"
    BY <1>4 DEF handleInv
  <2>2. Sound(x) /\ x.pc # "commit"
    BY <2>1 DEF Sound, Steps, Answering
  <2>3. UNCHANGED <<store, latest, chainstate, up, top, known, counters>>
    BY <1>4 DEF handleInv, durable
  <2>4. Domains'
    BY <1>4, <2>3 DEF handleInv, TypeInv, Domains
  <2> QED
    BY <2>1, <2>2, <2>3, <2>4, MoveOn
<1>5. CASE requestLatest(g)
  <2> DEFINE m == [at |-> g.from, pc |-> "getdata", from |-> g.at, id |-> g.id]
  <2> DEFINE x == [at |-> g.at, pc |-> "filter", id |-> g.id]
  <2>1. SendData(g, m, {x}) /\ g.pc = "request"
    BY <1>5 DEF requestLatest
  <2>2. (up[m.at] => Sound(m)) /\ m.pc # "commit"
    BY <2>1 DEF Sound, Steps, Answering
  <2>3. Sound(x) /\ x.pc # "commit"
    BY <2>1 DEF Sound, Steps, Answering
  <2>4. UNCHANGED <<durable, up, top, transit, counters>>
    BY <1>5 DEF requestLatest
  <2> HIDE DEF m, x
  <2> QED
    BY <2>1, <2>2, <2>3, <2>4, SendAndMoveOn
<1>6. CASE filterTransit(g)
  <2> DEFINE x == [at |-> g.at, pc |-> "setTransit",
                   rest |-> Without(transit[g.at], g.id)]
  <2>1. Become(g, {x}) /\ g.pc = "filter"
    BY <1>6 DEF filterTransit
  <2>2. Sound(x) /\ x.pc # "commit"
    BY <2>1 DEF Sound, Steps, Answering
  <2>3. UNCHANGED <<store, latest, chainstate, up, top, known, transit, counters>>
    BY <1>6 DEF filterTransit, durable, volatile
  <2>4. Domains'
    BY <2>3 DEF TypeInv, Domains
  <2> QED
    BY <2>1, <2>2, <2>3, <2>4, MoveOn
<1>7. CASE setTransit(g)
  <2>1. UNCHANGED <<store, latest, chainstate, up, top, known, counters>>
    BY <1>7 DEF setTransit, durable
  <2>2. Domains'
    BY <1>7, <2>1 DEF setTransit, TypeInv, Domains
  <2> QED
    BY <1>7, <2>1, <2>2, MoveOn DEF setTransit
<1> QED
  BY <1>1, <1>2, <1>3, <1>4, <1>5, <1>6, <1>7

\* getdata, and what handleBlock does after AddBlockBy.
LEMMA DataTypes ==
  ASSUME TypeInv, LockInv, NEW g \in DOMAIN gor,
         \/ handleGetData(g) \/ nextInTransit(g) \/ requestNext(g) \/ popTransit(g)
         \/ updateUTXO(g) \/ readTruncated(g)
  PROVE  TypeInv' /\ LockInv'
<1> USE Facts
<1>1. CASE handleGetData(g) /\ g.id \in DOMAIN store[g.at]
  <2> DEFINE m == [at |-> g.from, pc |-> "block", from |-> g.at,
                   block |-> store[g.at][g.id]]
  <2>1. SendData(g, m, {}) /\ g.pc = "getdata"
    BY <1>1 DEF handleGetData
  <2>2. store[g.at][g.id].height \in 0..MaxHeight
    BY <1>1 DEF TypeInv, Stored
  <2>3. (up[m.at] => Sound(m)) /\ m.pc # "commit"
    BY <2>1, <2>2 DEF Sound, Steps, Answering
  <2>4. UNCHANGED <<durable, up, top, transit, counters>>
    BY <1>1 DEF handleGetData
  <2> HIDE DEF m
  <2> QED
    BY <2>1, <2>3, <2>4, SendAndMoveOn
<1>2. CASE handleGetData(g) /\ g.id \notin DOMAIN store[g.at]
  BY <1>2, PanicStops DEF handleGetData
<1>3. CASE nextInTransit(g)
  <2> DEFINE S == IF HashesLeft(g.at)
         THEN {[at |-> g.at, pc |-> "ask", from |-> g.from, id |-> transit[g.at][1]]}
         ELSE {[at |-> g.at, pc |-> "apply", block |-> g.block]}
  <2>1. Become(g, S) /\ g.pc = "next"
    BY <1>3 DEF nextInTransit
  <2>2. \A x \in S : Sound(x) /\ x.pc # "commit"
    BY <2>1 DEF Sound, Steps, Answering
  <2>3. UNCHANGED <<store, latest, chainstate, up, top, known, transit, counters>>
    BY <1>3 DEF nextInTransit, durable, volatile
  <2>4. Domains'
    BY <2>3 DEF TypeInv, Domains
  <2> QED
    BY <2>1, <2>2, <2>3, <2>4, MoveOn
<1>4. CASE requestNext(g)
  <2> DEFINE m == [at |-> g.from, pc |-> "getdata", from |-> g.at, id |-> g.id]
  <2> DEFINE x == [at |-> g.at, pc |-> "pop"]
  <2>1. SendData(g, m, {x}) /\ g.pc = "ask"
    BY <1>4 DEF requestNext
  <2>2. (up[m.at] => Sound(m)) /\ m.pc # "commit"
    BY <2>1 DEF Sound, Steps, Answering
  <2>3. Sound(x) /\ x.pc # "commit"
    BY <2>1 DEF Sound, Steps, Answering
  <2>4. UNCHANGED <<durable, up, top, transit, counters>>
    BY <1>4 DEF requestNext
  <2> HIDE DEF m, x
  <2> QED
    BY <2>1, <2>2, <2>3, <2>4, SendAndMoveOn
<1>5. CASE popTransit(g) /\ transit[g.at] # <<>>
  <2> DEFINE x == [at |-> g.at, pc |-> "setTransit", rest |-> Tail(transit[g.at])]
  <2>1. Become(g, {x}) /\ g.pc = "pop"
    BY <1>5 DEF popTransit
  <2>2. Sound(x) /\ x.pc # "commit"
    BY <2>1 DEF Sound, Steps, Answering
  <2>3. UNCHANGED <<store, latest, chainstate, up, top, known, transit, counters>>
    BY <1>5 DEF popTransit, durable, volatile
  <2>4. Domains'
    BY <2>3 DEF TypeInv, Domains
  <2> QED
    BY <2>1, <2>2, <2>3, <2>4, MoveOn
<1>6. CASE popTransit(g) /\ transit[g.at] = <<>>
  BY <1>6, PanicStops DEF popTransit
<1>7. CASE updateUTXO(g) /\ UpdateUTXO(chainstate[g.at], g.block) # Nil
  <2>1. UNCHANGED <<store, latest, up, top, known, transit, counters>>
    BY <1>7 DEF updateUTXO, volatile
  <2>2. Domains'
    BY <1>7, <2>1 DEF updateUTXO, TypeInv, Domains
  <2> QED
    BY <1>7, <2>1, <2>2, MoveOn DEF updateUTXO
<1>8. CASE updateUTXO(g) /\ UpdateUTXO(chainstate[g.at], g.block) = Nil
  BY <1>8, PanicStops DEF updateUTXO
<1>9. CASE readTruncated(g)
  BY <1>9, PanicStops DEF readTruncated
<1> QED
  BY <1>1, <1>2, <1>3, <1>4, <1>5, <1>6, <1>7, <1>8, <1>9

\* AddBlockBy sets bc.topHash and is inside its transaction.
LEMMA EnterTypes ==
  ASSUME TypeInv, LockInv, NEW g \in DOMAIN gor, AddBlockBy(g), Outgrows(g.block, g.at)
  PROVE  TypeInv' /\ LockInv'
<1> USE Facts
<1> DEFINE x == With(g, "commit")
<1>1. /\ g.pc = "block" /\ ~WriteLocked(g.at)
      /\ top' = [top EXCEPT ![g.at] = g.block.hash]
      /\ Become(g, {x})
      /\ UNCHANGED <<store, latest, chainstate, up, known, transit, runs, crashes>>
  BY DEF AddBlockBy, durable, counters
<1>2. x.at = g.at /\ x.pc = "commit" /\ x.block = g.block
  BY DEF With
<1>3. /\ IsABag(gor')
      /\ DOMAIN gor' \subseteq DOMAIN gor \cup {x}
      /\ \A y \in DOMAIN gor \ {g} : y \in DOMAIN gor'
      /\ \A y \in DOMAIN gor' \ {x} : gor'[y] <= gor[y] /\ gor'[y] \in Nat \ {0}
      /\ x \in DOMAIN gor' /\ (x \notin DOMAIN gor => gor'[x] = 1)
  BY <1>1, BecomeGor DEF TypeInv, Shape
<1>4. Shape' /\ Domains' /\ Stored'
  BY <1>1, <1>3 DEF TypeInv, Shape, Domains, Stored
<1>5. Sound(x)
  BY <1>1 DEF Sound, Steps, Answering, With
<1>6. Goroutines'
  BY <1>1, <1>3, <1>5 DEF TypeInv, Goroutines, Sound
<1>7. \A y \in DOMAIN gor : y.pc = "commit" => y.at # g.at /\ y.at \in Node
  BY <1>1 DEF WriteLocked, At, TypeInv, Goroutines, Sound
<1>8. g.block.height > Height(g.at)
  BY DEF Outgrows
<1> HIDE DEF x
<1>9. \A y \in DOMAIN gor' : y.pc = "commit" =>
        \/ y = x /\ gor'[y] = 1
        \/ y \in DOMAIN gor /\ y # x /\ gor'[y] = 1
  BY <1>2, <1>3, <1>7 DEF LockInv, Locks
<1>10. /\ top'[g.at] = g.block.hash
       /\ \A n \in Node : n # g.at => top'[n] = top[n]
       /\ \A n \in Node : Height(n)' = Height(n)
  BY <1>1 DEF TypeInv, Shape, Height, LatestBlock
<1>11. Locks'
  BY <1>2, <1>7, <1>8, <1>9, <1>10 DEF LockInv, Locks
<1>12. WriteLocked(g.at)' /\ \A n \in Node : n # g.at /\ WriteLocked(n) => WriteLocked(n)'
  BY <1>2, <1>3 DEF WriteLocked, At
<1>13. Tops'
  <2>1. SUFFICES ASSUME NEW n \in Node, up[n], ~WriteLocked(n)'
                 PROVE  top'[n] = latest[n]
    BY <1>1 DEF Tops
  <2>2. n # g.at /\ ~WriteLocked(n)
    BY <1>12, <2>1
  <2> QED
    BY <1>10, <2>1, <2>2 DEF LockInv, Tops
<1> QED
  BY <1>4, <1>6, <1>11, <1>13 DEF TypeInv, LockInv

\* A database with one block more has its type.
LEMMA PutTyped ==
  ASSUME NEW blocks, NEW b, b.height \in 0..MaxHeight,
         \A h \in DOMAIN blocks : blocks[h].hash = h /\ blocks[h].height \in 0..MaxHeight
  PROVE  /\ DOMAIN Put(blocks, b) = DOMAIN blocks \cup {b.hash}
         /\ \A h \in DOMAIN Put(blocks, b) :
               Put(blocks, b)[h].hash = h /\ Put(blocks, b)[h].height \in 0..MaxHeight
  BY DEF Put

\* AddBlockBy stores a block no higher than the latest one.
LEMMA SideTypes ==
  ASSUME TypeInv, LockInv, NEW g \in DOMAIN gor, AddBlockBy(g), ~Outgrows(g.block, g.at)
  PROVE  TypeInv' /\ LockInv'
<1> USE Facts
<1> DEFINE x == With(g, "next")
<1>1. /\ g.pc = "block" /\ ~WriteLocked(g.at)
      /\ store' = [store EXCEPT ![g.at] = Put(@, g.block)]
      /\ Become(g, {x})
      /\ UNCHANGED <<latest, chainstate, up, top, known, transit, runs, crashes>>
  BY DEF AddBlockBy, volatile, counters
<1>2. x.at = g.at /\ x.pc = "next" /\ x.block = g.block
  BY DEF With
<1>3. /\ IsABag(gor')
      /\ DOMAIN gor' \subseteq DOMAIN gor \cup {x}
      /\ \A y \in DOMAIN gor \ {g} : y \in DOMAIN gor'
      /\ \A y \in DOMAIN gor' \ {x} : gor'[y] <= gor[y] /\ gor'[y] \in Nat \ {0}
  BY <1>1, BecomeGor DEF TypeInv, Shape
<1>4. /\ \A n \in Node : n # g.at => store'[n] = store[n]
      /\ store'[g.at] = Put(store[g.at], g.block)
      /\ store' = [n \in Node |-> store'[n]]
  BY <1>1 DEF TypeInv, Shape
<1>5. Shape' /\ Domains'
  BY <1>1, <1>3, <1>4 DEF TypeInv, Shape, Domains
<1>6. g.block.height \in 0..MaxHeight
  BY <1>1 DEF Sound
<1>7. Stored'
  <2> SUFFICES ASSUME NEW n \in Node
               PROVE  /\ latest'[n] \in DOMAIN store'[n]
                      /\ \A h \in DOMAIN store'[n] :
                            store'[n][h].hash = h /\ store'[n][h].height \in 0..MaxHeight
    BY DEF Stored
  <2>1. /\ latest[n] \in DOMAIN store[n]
        /\ \A h \in DOMAIN store[n] :
              store[n][h].hash = h /\ store[n][h].height \in 0..MaxHeight
    BY DEF TypeInv, Stored
  <2>2. CASE n # g.at
    BY <1>1, <1>4, <2>1, <2>2
  <2>3. CASE n = g.at
    <3>1. /\ DOMAIN Put(store[n], g.block) = DOMAIN store[n] \cup {g.block.hash}
          /\ \A h \in DOMAIN Put(store[n], g.block) :
                /\ Put(store[n], g.block)[h].hash = h
                /\ Put(store[n], g.block)[h].height \in 0..MaxHeight
      BY <1>6, <2>1, PutTyped
    <3>2. store'[n] = Put(store[n], g.block) /\ latest'[n] = latest[n]
      BY <1>1, <1>4, <2>3
    <3> QED
      BY <2>1, <3>1, <3>2
  <2> QED
    BY <2>2, <2>3
<1>8. Sound(x)
  BY <1>1 DEF Sound, Steps, Answering, With
<1>9. Goroutines'
  BY <1>1, <1>3, <1>8 DEF TypeInv, Goroutines, Sound
<1> HIDE DEF x
<1>10. \A y \in DOMAIN gor' : y.pc = "commit" =>
         y \in DOMAIN gor /\ gor'[y] = 1 /\ y.at # g.at /\ y.at \in Node
  BY <1>1, <1>2, <1>3 DEF WriteLocked, At, LockInv, Locks, TypeInv, Goroutines, Sound
<1>11. \A n \in Node : n # g.at => Height(n)' = Height(n)
  BY <1>1, <1>4 DEF Height, LatestBlock
<1>12. Locks'
  BY <1>1, <1>10, <1>11 DEF LockInv, Locks
<1>13. \A n \in Node : WriteLocked(n) => WriteLocked(n)'
  BY <1>1, <1>3 DEF WriteLocked, At
<1>14. Tops'
  BY <1>1, <1>13 DEF LockInv, Tops
<1> QED
  BY <1>5, <1>7, <1>9, <1>12, <1>14 DEF TypeInv, LockInv

\* AddBlockBy's transaction commits.
LEMMA CommitTypes ==
  ASSUME TypeInv, LockInv, NEW g \in DOMAIN gor, commitBlock(g)
  PROVE  TypeInv' /\ LockInv'
<1> USE Facts
<1> DEFINE x == With(g, "next")
<1>1. /\ g.pc = "commit"
      /\ store' = [store EXCEPT ![g.at] = Put(@, g.block)]
      /\ latest' = [latest EXCEPT ![g.at] = g.block.hash]
      /\ Become(g, {x})
      /\ UNCHANGED <<chainstate, up, top, known, transit, runs, crashes>>
  BY DEF commitBlock, volatile, counters
<1>2. x.at = g.at /\ x.pc = "next" /\ x.block = g.block
  BY DEF With
<1>3. /\ IsABag(gor')
      /\ DOMAIN gor' \subseteq DOMAIN gor \cup {x}
      /\ \A y \in DOMAIN gor \ {g} : y \in DOMAIN gor'
      /\ \A y \in DOMAIN gor' \ {x} : gor'[y] <= gor[y] /\ gor'[y] \in Nat \ {0}
      /\ gor[g] = 1 /\ g \notin {x} => g \notin DOMAIN gor'
  BY <1>1, BecomeGor DEF TypeInv, Shape
<1>4. /\ \A n \in Node : n # g.at => store'[n] = store[n] /\ latest'[n] = latest[n]
      /\ store'[g.at] = Put(store[g.at], g.block) /\ latest'[g.at] = g.block.hash
      /\ store' = [n \in Node |-> store'[n]] /\ latest' = [n \in Node |-> latest'[n]]
  BY <1>1 DEF TypeInv, Shape
<1>5. Shape' /\ Domains'
  BY <1>1, <1>3, <1>4 DEF TypeInv, Shape, Domains
<1>6. g.block.height \in 0..MaxHeight
  BY <1>1 DEF Sound
<1>7. Stored'
  <2> SUFFICES ASSUME NEW n \in Node
               PROVE  /\ latest'[n] \in DOMAIN store'[n]
                      /\ \A h \in DOMAIN store'[n] :
                            store'[n][h].hash = h /\ store'[n][h].height \in 0..MaxHeight
    BY DEF Stored
  <2>1. /\ latest[n] \in DOMAIN store[n]
        /\ \A h \in DOMAIN store[n] :
              store[n][h].hash = h /\ store[n][h].height \in 0..MaxHeight
    BY DEF TypeInv, Stored
  <2>2. CASE n # g.at
    BY <1>1, <1>4, <2>1, <2>2
  <2>3. CASE n = g.at
    <3>1. /\ DOMAIN Put(store[n], g.block) = DOMAIN store[n] \cup {g.block.hash}
          /\ \A h \in DOMAIN Put(store[n], g.block) :
                /\ Put(store[n], g.block)[h].hash = h
                /\ Put(store[n], g.block)[h].height \in 0..MaxHeight
      BY <1>6, <2>1, PutTyped
    <3>2. store'[n] = Put(store[n], g.block) /\ latest'[n] = g.block.hash
      BY <1>1, <1>4, <2>3
    <3> QED
      BY <2>1, <3>1, <3>2
  <2> QED
    BY <2>2, <2>3
<1>8. Sound(x)
  BY <1>1 DEF Sound, Steps, Answering, With
<1>9. Goroutines'
  BY <1>1, <1>3, <1>8 DEF TypeInv, Goroutines, Sound
<1> HIDE DEF x
<1>10. g \notin DOMAIN gor'
  BY <1>1, <1>2, <1>3 DEF LockInv, Locks
<1>11. \A y \in DOMAIN gor' : y.pc = "commit" =>
         y \in DOMAIN gor /\ gor'[y] = 1 /\ y.at # g.at /\ y.at \in Node
  BY <1>1, <1>2, <1>3, <1>10 DEF LockInv, Locks, TypeInv, Goroutines, Sound
<1>12. \A n \in Node : n # g.at => Height(n)' = Height(n)
  BY <1>4 DEF Height, LatestBlock
<1>13. Locks'
  BY <1>1, <1>11, <1>12 DEF LockInv, Locks
<1>14. \A n \in Node : n # g.at /\ WriteLocked(n) => WriteLocked(n)'
  BY <1>3 DEF WriteLocked, At
<1>15. Tops'
  BY <1>1, <1>4, <1>14 DEF LockInv, Locks, Tops
<1> QED
  BY <1>5, <1>7, <1>9, <1>13, <1>15 DEF TypeInv, LockInv

-----------------------------------------------------------------------------

\* Every step keeps types, bolt's lock and bc.topHash.
LEMMA StepTypes ==
  ASSUME TypeInv, LockInv, [Next]_vars
  PROVE  TypeInv' /\ LockInv'
<1>1. CASE UNCHANGED vars
  <2>1. UNCHANGED <<store, latest, chainstate, up, top, known, transit, gor, runs, crashes>>
    BY <1>1 DEF vars, durable, volatile, counters
  <2>2. TypeInv'
    BY <2>1 DEF TypeInv, Shape, Domains, Stored, Goroutines, Sound
  <2> QED
    BY <2>1, <2>2 DEF LockInv, Locks, Tops, WriteLocked, At, Height, LatestBlock
<1>2. ASSUME NEW n \in Node, Processes(n)
      PROVE  TypeInv' /\ LockInv'
  <2>1. CASE AddCoinbase(n)
    BY <2>1, AddBlockTypes DEF AddCoinbase, TypeInv, Domains
  <2>2. ASSUME NEW transfer \in Transfers[n], SendTx(n, transfer)
        PROVE  TypeInv' /\ LockInv'
    <3>1. PICK tx : /\ AddBlock(n, NextBlock(n, <<tx>>))
                    /\ DOMAIN chainstate' = DOMAIN chainstate
      BY <2>2 DEF SendTx
    <3> QED
      BY <3>1, AddBlockTypes DEF TypeInv, Domains
  <2> QED
    BY <1>2, <2>1, <2>2, StartTypes, StartPanicsTypes, CrashTypes DEF Processes
<1>3. ASSUME NEW g \in DOMAIN gor, handleConnection(g)
      PROVE  TypeInv' /\ LockInv'
  BY <1>3, VersionTypes, InvTypes, DataTypes, EnterTypes, SideTypes, CommitTypes
     DEF handleConnection
<1> QED
  BY <1>1, <1>2, <1>3 DEF Next

\* So they always hold.
LEMMA InvariantHolds == Spec => [](TypeInv /\ LockInv)
  BY InitTypes, StepTypes, PTL DEF Spec

\* Every variable keeps its type, whatever messages arrive in whatever order,
\* and whichever servers panic or are killed.
THEOREM SyncTypes == Spec => []TypeOK
<1>1. TypeInv => TypeOK
  <2> SUFFICES ASSUME TypeInv PROVE TypeOK
    OBVIOUS
  <2>1. DOMAIN store = Node /\ DOMAIN latest = Node /\ DOMAIN top = Node
    BY DEF TypeInv, Shape
  <2> QED
    BY <2>1 DEF TypeInv, Shape, Domains, Stored, Goroutines, Sound, TypeOK
<1> QED
  BY <1>1, InvariantHolds, PTL

\* Although AddBlockBy sets bc.topHash without a lock and before it commits,
\* a running server's bc.topHash differs from "latest" only while one
\* goroutine is inside bolt's write transaction, and then it shows the higher
\* block that is about to be committed.
THEOREM SyncTops == Spec => []TopTracksLatest
<1>1. TypeInv /\ LockInv => TopTracksLatest
  <2> SUFFICES ASSUME TypeInv, LockInv, NEW n \in Node, up[n]
               PROVE  \/ top[n] = latest[n] /\ ~WriteLocked(n)
                      \/ \E g \in At(n) : g.pc = "commit" /\ top[n] = g.block.hash
                                          /\ g.block.height > Height(n)
    BY DEF TopTracksLatest
  <2>1. CASE WriteLocked(n)
    BY <2>1 DEF WriteLocked, At, LockInv, Locks
  <2>2. CASE ~WriteLocked(n)
    BY <2>2 DEF LockInv, Tops
  <2> QED
    BY <2>1, <2>2
<1> QED
  BY <1>1, InvariantHolds, PTL

-----------------------------------------------------------------------------
(* Lists without one of their elements *)

Keeping == INSTANCE FoldTheorems WITH op <- keepUnless

LEMMA KeepingFolds ==
  \A list, a : Without(list, a) = Keeping!Fold(a, <<>>, list)
  BY DEF Without, Keeping!Fold, Keeping!FoldLeft, Keeping!MapThenFoldSet, Keeping!Max,
         FoldLeft, MapThenFoldSet, Max

\* What remains are the other elements.
LEMMA WithoutKeeps ==
  ASSUME NEW S, NEW list \in Seq(S), NEW a
  PROVE  /\ Without(list, a) \in Seq(S)
         /\ Range(Without(list, a)) = Range(list) \ {a}
<1> DEFINE Kept(s) == /\ Without(s, a) \in Seq(S)
                      /\ Range(Without(s, a)) = Range(s) \ {a}
           T == {s \in Seq(S) : Kept(s)}
<1>1. <<>> \in T
  <2>1. Without(<<>>, a) = <<>>
    BY KeepingFolds, Keeping!FoldOfNothing
  <2>2. Range(<<>>) = {} /\ <<>> \in Seq(S)
    BY DEF Range
  <2> QED
    BY <2>1, <2>2
<1>2. ASSUME NEW s \in Seq(S), NEW x \in S, s \in T
      PROVE  Append(s, x) \in T
  <2> DEFINE longer == Append(s, x)
             kept == Without(s, a)
  <2>1. Without(longer, a) = IF x # a THEN Append(kept, x) ELSE kept
    <3>1. Without(longer, a) = keepUnless(a, kept, x)
      BY KeepingFolds, Keeping!FoldAppends
    <3> QED
      BY <3>1 DEF keepUnless
  <2>2. kept \in Seq(S) /\ Range(kept) = Range(s) \ {a}
    BY <1>2
  <2>3. ASSUME NEW t \in Seq(S)
        PROVE  Append(t, x) \in Seq(S) /\ Range(Append(t, x)) = Range(t) \cup {x}
    <3>1. /\ DOMAIN t = 1..Len(t) /\ DOMAIN Append(t, x) = 1..Len(t)+1
          /\ Append(t, x)[Len(t) + 1] = x
          /\ \A i \in 1..Len(t) : Append(t, x)[i] = t[i]
      OBVIOUS
    <3> QED
      BY <3>1 DEF Range
  <2>4. longer \in Seq(S) /\ Range(longer) = Range(s) \cup {x}
    BY <2>3
  <2> HIDE DEF longer, kept
  <2> SUFFICES Kept(longer)
    BY <2>4 DEF longer
  <2>5. CASE x = a
    BY <2>1, <2>2, <2>4, <2>5
  <2>6. CASE x # a
    <3>1. Append(kept, x) \in Seq(S) /\ Range(Append(kept, x)) = Range(kept) \cup {x}
      BY <2>2, <2>3
    <3> QED
      BY <2>1, <2>2, <2>4, <2>6, <3>1
  <2> QED
    BY <2>5, <2>6 DEF longer
<1> HIDE DEF T
<1>3. list \in T
  BY <1>1, <1>2, SeqInduct
<1> QED
  BY <1>3 DEF T

\* A list that holds a node only at its front loses that front.
LEMMA WithoutFirst ==
  ASSUME NEW S, NEW list \in Seq(S), NEW a, a \notin Range(list)
  PROVE  Without(<<a>> \o list, a) = list
<1> DEFINE U == S \cup {a}
           T == {s \in Seq(S) : a \notin Range(s) => Without(<<a>> \o s, a) = s}
<1>1. a \in U /\ \A x \in S : x \in U
  OBVIOUS
<1>2. <<>> \in T
  <2>1. PICK none : none = <<>>
    OBVIOUS
  <2> HIDE DEF U
  <2>2. none \in Seq(U)
    BY <2>1
  <2>3. Without(Append(none, a), a) = keepUnless(a, Without(none, a), a)
    BY <1>1, <2>2, KeepingFolds, Keeping!FoldAppends
  <2>4. Without(none, a) = none
    BY <2>1, KeepingFolds, Keeping!FoldOfNothing
  <2>5. Append(none, a) = <<a>> \o none
    BY <2>1
  <2> QED
    BY <2>1, <2>3, <2>4, <2>5 DEF keepUnless
<1>3. ASSUME NEW s \in Seq(S), NEW x \in S, s \in T
      PROVE  Append(s, x) \in T
  <2> SUFFICES ASSUME a \notin Range(Append(s, x))
               PROVE  Without(<<a>> \o Append(s, x), a) = Append(s, x)
    OBVIOUS
  <2>1. a \notin Range(s) /\ x # a
    <3>1. /\ DOMAIN s = 1..Len(s) /\ DOMAIN Append(s, x) = 1..Len(s)+1
          /\ Append(s, x)[Len(s) + 1] = x
          /\ \A i \in 1..Len(s) : Append(s, x)[i] = s[i]
      OBVIOUS
    <3> QED
      BY <3>1 DEF Range
  <2>2. <<a>> \o Append(s, x) = Append(<<a>> \o s, x) /\ <<a>> \o s \in Seq(U)
    OBVIOUS
  <2> DEFINE front == <<a>> \o s
  <2> HIDE DEF front, U
  <2>3. Without(Append(front, x), a) = keepUnless(a, Without(front, a), x)
    <3>1. front \in Seq(U) /\ x \in U
      BY <1>1, <2>2 DEF front
    <3> QED
      BY <3>1, KeepingFolds, Keeping!FoldAppends
  <2>4. Without(front, a) = s
    BY <1>3, <2>1 DEF front
  <2> QED
    BY <2>1, <2>2, <2>3, <2>4 DEF keepUnless, front
<1> HIDE DEF T
<1>4. list \in T
  BY <1>2, <1>3, SeqInduct
<1> QED
  BY <1>4 DEF T

=============================================================================
