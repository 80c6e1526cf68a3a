---------------------------- MODULE LedgerProofs ----------------------------
(***************************************************************************)
(* The walk over a chain of blocks, what adding a block does to it, and    *)
(* what the loops over its transactions take from it.                      *)
(***************************************************************************)
EXTENDS Ledger, Induction, SequenceTheorems

-----------------------------------------------------------------------------
(* Storing a block *)

\* Put adds the block under its hash and changes no other entry.
LEMMA PutProperties ==
  ASSUME NEW blocks, NEW b
  PROVE  /\ Put(blocks, b) # <<>>
         /\ DOMAIN Put(blocks, b) = DOMAIN blocks \cup {b.hash}
         /\ Put(blocks, b)[b.hash] = b
         /\ \A h \in DOMAIN blocks : h # b.hash => Put(blocks, b)[h] = blocks[h]
<1>1. DOMAIN Put(blocks, b) = DOMAIN blocks \cup {b.hash}
  BY DEF Put
<1>2. DOMAIN <<>> = {}
  OBVIOUS
<1>3. Put(blocks, b) # <<>>
  BY <1>1, <1>2
<1> QED
  BY <1>1, <1>3 DEF Put

-----------------------------------------------------------------------------
(* The walk over the chain *)

\* The function Chain is read from: what the walk meets from each block on.
IsWalk(f, blocks) ==
    f = [h \in DOMAIN blocks |->
           IF blocks[h].prev \in DOMAIN blocks
           THEN <<blocks[h]>> \o f[blocks[h].prev]
           ELSE <<blocks[h]>>]

\* The walk is defined: it comes to an end from every block.
Walkable(blocks) == \E f : IsWalk(f, blocks) /\ \A g : IsWalk(g, blocks) => g = f

\* Where the walk is defined, Chain is read from it.
LEMMA ChainIsWalk ==
  ASSUME NEW blocks, NEW f, IsWalk(f, blocks), \A g : IsWalk(g, blocks) => g = f,
         NEW top \in DOMAIN blocks
  PROVE  Chain(blocks, top) = f[top]
<1> DEFINE from == CHOOSE g : IsWalk(g, blocks)
<1>1. from = f
  OBVIOUS
<1>2. Chain(blocks, top) = from[top]
  BY DEF Chain, IsWalk
<1> QED
  BY <1>1, <1>2

\* There is nothing to walk over in an empty database.
LEMMA NothingWalkable == Walkable(<<>>)
<1>1. IsWalk(<<>>, <<>>)
  BY DEF IsWalk
<1>2. \A g : IsWalk(g, <<>>) => g = <<>>
  BY DEF IsWalk
<1> QED
  BY <1>1, <1>2 DEF Walkable

\* A block under a new hash that no stored block names as its predecessor
\* (AddBlock) leaves every stored chain as it is, and its own chain is the
\* block followed by the chain of its predecessor.
LEMMA PutExtendsChain ==
  ASSUME NEW blocks, Walkable(blocks), NEW b, b.hash \notin DOMAIN blocks,
         b.prev # b.hash, \A h \in DOMAIN blocks : blocks[h].prev # b.hash
  PROVE  /\ Walkable(Put(blocks, b))
         /\ \A top \in DOMAIN blocks : Chain(Put(blocks, b), top) = Chain(blocks, top)
         /\ Chain(Put(blocks, b), b.hash) =
              IF b.prev \in DOMAIN blocks THEN <<b>> \o Chain(blocks, b.prev) ELSE <<b>>
<1> DEFINE more == Put(blocks, b)
           end(f) == IF b.prev \in DOMAIN blocks THEN <<b>> \o f[b.prev] ELSE <<b>>
<1>1. PICK f : IsWalk(f, blocks) /\ \A g : IsWalk(g, blocks) => g = f
  BY DEF Walkable
<1>2. /\ DOMAIN more = DOMAIN blocks \cup {b.hash}
      /\ more[b.hash] = b
      /\ \A h \in DOMAIN blocks : more[h] = blocks[h]
  BY DEF Put
<1> HIDE DEF more
<1> DEFINE longer == [h \in DOMAIN more |-> IF h = b.hash THEN end(f) ELSE f[h]]
<1>3. IsWalk(longer, more)
  <2>1. /\ f = [h \in DOMAIN blocks |-> f[h]]
        /\ \A h \in DOMAIN blocks :
             f[h] = IF blocks[h].prev \in DOMAIN blocks
                    THEN <<blocks[h]>> \o f[blocks[h].prev] ELSE <<blocks[h]>>
    BY <1>1 DEF IsWalk
  <2>2. \A h \in DOMAIN blocks : blocks[h].prev \in DOMAIN more <=> blocks[h].prev \in DOMAIN blocks
    BY <1>2
  <2>3. b.prev \in DOMAIN more <=> b.prev \in DOMAIN blocks
    BY <1>2
  <2>4. \A h \in DOMAIN blocks : longer[h] = f[h]
    BY <1>2
  <2>5. longer[b.hash] = end(longer)
    BY <1>2, <2>4
  <2>6. \A h \in DOMAIN more :
          longer[h] = IF more[h].prev \in DOMAIN more
                      THEN <<more[h]>> \o longer[more[h].prev] ELSE <<more[h]>>
    <3> TAKE h \in DOMAIN more
    <3>1. CASE h = b.hash
      BY <3>1, <2>3, <2>5, <1>2
    <3>2. CASE h \in DOMAIN blocks
      <4>1. longer[h] = f[h] /\ more[h] = blocks[h]
        BY <3>2, <2>4, <1>2
      <4>2. CASE blocks[h].prev \in DOMAIN blocks
        <5>1. longer[blocks[h].prev] = f[blocks[h].prev]
          BY <4>2, <2>4
        <5>2. f[h] = <<blocks[h]>> \o f[blocks[h].prev]
          BY <3>2, <4>2, <2>1
        <5> QED
          BY <3>2, <4>1, <4>2, <5>1, <5>2, <2>2
      <4>3. CASE blocks[h].prev \notin DOMAIN blocks
        <5>1. f[h] = <<blocks[h]>>
          BY <3>2, <4>3, <2>1
        <5> QED
          BY <3>2, <4>1, <4>3, <5>1, <2>2
      <4> QED
        BY <4>2, <4>3
    <3> QED
      BY <3>1, <3>2, <1>2
  <2> HIDE DEF longer
  <2>7. longer = [h \in DOMAIN more |-> longer[h]]
    BY DEF longer
  <2> QED
    BY <2>6, <2>7 DEF IsWalk
<1>4. \A g : IsWalk(g, more) => g = longer
  <2> SUFFICES ASSUME NEW g, IsWalk(g, more) PROVE g = longer
    OBVIOUS
  <2> DEFINE old == [h \in DOMAIN blocks |-> g[h]]
  <2>1. /\ g = [h \in DOMAIN more |-> g[h]]
        /\ \A h \in DOMAIN more :
             g[h] = IF more[h].prev \in DOMAIN more
                    THEN <<more[h]>> \o g[more[h].prev] ELSE <<more[h]>>
    BY DEF IsWalk
  <2>2. \A h \in DOMAIN blocks : old[h] = g[h]
    OBVIOUS
  <2>3. \A h \in DOMAIN blocks :
          old[h] = IF blocks[h].prev \in DOMAIN blocks
                   THEN <<blocks[h]>> \o old[blocks[h].prev] ELSE <<blocks[h]>>
    BY <2>1, <2>2, <1>2
  <2>4. old = [h \in DOMAIN blocks |-> old[h]]
    OBVIOUS
  <2> HIDE DEF old
  <2>5. IsWalk(old, blocks)
    BY <2>3, <2>4 DEF IsWalk
  <2>6. old = f
    BY <2>5, <1>1
  <2>7. \A h \in DOMAIN blocks : g[h] = f[h]
    BY <2>2, <2>6
  <2>8. g[b.hash] = end(f)
    <3>1. g[b.hash] = IF b.prev \in DOMAIN more THEN <<b>> \o g[b.prev] ELSE <<b>>
      BY <2>1, <1>2
    <3>2. b.prev \in DOMAIN more <=> b.prev \in DOMAIN blocks
      BY <1>2
    <3> QED
      BY <3>1, <3>2, <2>7
  <2>9. \A h \in DOMAIN more : g[h] = longer[h]
    BY <2>7, <2>8, <1>2
  <2> QED
    BY <2>1, <2>9
<1>5. /\ \A h \in DOMAIN more : Chain(more, h) = longer[h]
      /\ \A h \in DOMAIN blocks : Chain(blocks, h) = f[h]
  <2> HIDE DEF longer
  <2> QED
    BY <1>1, <1>3, <1>4, ChainIsWalk
<1>6. \A h \in DOMAIN blocks : longer[h] = f[h]
  BY <1>2
<1>7. longer[b.hash] = end(f)
  BY <1>2
<1>8. end(f) = IF b.prev \in DOMAIN blocks THEN <<b>> \o Chain(blocks, b.prev) ELSE <<b>>
  BY <1>5
<1>9. Walkable(more)
  BY <1>3, <1>4 DEF Walkable
<1> QED
  BY <1>2, <1>5, <1>6, <1>7, <1>8, <1>9 DEF more

\* The chain of the first block is that block.
LEMMA FirstBlockChain ==
  ASSUME NEW b, b.prev # b.hash
  PROVE  Walkable(Put(<<>>, b)) /\ Chain(Put(<<>>, b), b.hash) = <<b>>
<1>1. PICK blocks : blocks = <<>>
  OBVIOUS
<1>2. DOMAIN blocks = {}
  BY <1>1
<1>3. Walkable(blocks)
  BY <1>1, NothingWalkable
<1>4. /\ Walkable(Put(blocks, b))
      /\ Chain(Put(blocks, b), b.hash) =
           IF b.prev \in DOMAIN blocks THEN <<b>> \o Chain(blocks, b.prev) ELSE <<b>>
  BY <1>2, <1>3, PutExtendsChain
<1> QED
  BY <1>1, <1>2, <1>4

\* Every predecessor that is stored is lower than its successor.
Descends(blocks, H) ==
    \A h \in DOMAIN blocks :
        /\ blocks[h].height \in 0..H
        /\ blocks[h].prev \in DOMAIN blocks => blocks[blocks[h].prev].height < blocks[h].height

\* Then no walk runs in a circle: it is defined from every block ...
LEMMA DescentEnds ==
  ASSUME NEW blocks, NEW H \in Nat, Descends(blocks, H)
  PROVE  \E f : IsWalk(f, blocks)
<1> DEFINE Below(k) == {h \in DOMAIN blocks : blocks[h].height < k}
           Step(f, h) == IF blocks[h].prev \in DOMAIN blocks
                         THEN <<blocks[h]>> \o f[blocks[h].prev] ELSE <<blocks[h]>>
           E == {k \in Nat : \E f : f = [h \in Below(k) |-> Step(f, h)]}
<1>1. 0 \in E
  <2>1. Below(0) = {}
    BY DEF Descends
  <2> HIDE DEF Below
  <2>2. <<>> = [h \in Below(0) |-> Step(<<>>, h)]
    BY <2>1
  <2> QED
    BY <2>2
<1>2. ASSUME NEW k \in Nat, k \in E PROVE k + 1 \in E
  <2>1. PICK f : f = [h \in Below(k) |-> Step(f, h)]
    BY <1>2
  <2> DEFINE g == [h \in Below(k + 1) |-> IF h \in Below(k) THEN f[h] ELSE Step(f, h)]
  <2>2. ASSUME NEW h \in Below(k + 1)
        PROVE  g[h] = Step(g, h)
    <3>1. g[h] = Step(f, h)
      BY <2>1
    <3>2. CASE blocks[h].prev \in DOMAIN blocks
      <4>1. blocks[h].prev \in Below(k) /\ blocks[h].prev \in Below(k + 1)
        BY <3>2 DEF Descends
      <4>2. g[blocks[h].prev] = f[blocks[h].prev]
        BY <4>1
      <4> QED
        BY <3>1, <4>2
    <3>3. CASE blocks[h].prev \notin DOMAIN blocks
      BY <3>1, <3>3
    <3> QED
      BY <3>2, <3>3
  <2>3. g = [h \in Below(k + 1) |-> g[h]]
    OBVIOUS
  <2> HIDE DEF g, Below, Step
  <2>4. g = [h \in Below(k + 1) |-> Step(g, h)]
    BY <2>2, <2>3
  <2> QED
    BY <2>4
<1>3. H + 1 \in E
  <2> HIDE DEF E
  <2> QED
    BY <1>1, <1>2, NatInduct
<1>4. Below(H + 1) = DOMAIN blocks
  BY DEF Descends
<1>5. PICK f : f = [h \in Below(H + 1) |-> Step(f, h)]
  BY <1>3
<1>6. f = [h \in DOMAIN blocks |-> Step(f, h)]
  <2> HIDE DEF Below, Step
  <2> QED
    BY <1>4, <1>5
<1> QED
  BY <1>6 DEF IsWalk

\* ... and meets stored blocks only, its first one included.
LEMMA ChainOfStored ==
  ASSUME NEW blocks, NEW H \in Nat, Descends(blocks, H), NEW top \in DOMAIN blocks
  PROVE  /\ Chain(blocks, top) \in Seq({blocks[h] : h \in DOMAIN blocks})
         /\ Chain(blocks, top) # <<>>
         /\ Chain(blocks, top)[1] = blocks[top]
<1> DEFINE from == CHOOSE f : IsWalk(f, blocks)
           B == {blocks[h] : h \in DOMAIN blocks}
<1>1. IsWalk(from, blocks)
  BY DescentEnds
<1>2. Chain(blocks, top) = from[top]
  BY DEF Chain, IsWalk
<1> HIDE DEF from
<1>3. \A h \in DOMAIN blocks :
        from[h] = IF blocks[h].prev \in DOMAIN blocks
                  THEN <<blocks[h]>> \o from[blocks[h].prev] ELSE <<blocks[h]>>
  BY <1>1 DEF IsWalk
<1> DEFINE T == {k \in Nat : \A h \in DOMAIN blocks : blocks[h].height < k => from[h] \in Seq(B)}
<1>4. 0 \in T
  BY DEF Descends
<1>5. ASSUME NEW k \in Nat, k \in T PROVE k + 1 \in T
  <2> SUFFICES ASSUME NEW h \in DOMAIN blocks, blocks[h].height < k + 1
               PROVE  from[h] \in Seq(B)
    OBVIOUS
  <2>1. <<blocks[h]>> \in Seq(B)
    OBVIOUS
  <2> HIDE DEF B
  <2>2. CASE blocks[h].prev \in DOMAIN blocks
    <3>1. blocks[blocks[h].prev].height < k
      BY <2>2 DEF Descends
    <3>2. from[blocks[h].prev] \in Seq(B)
      BY <1>5, <2>2, <3>1
    <3>3. from[h] = <<blocks[h]>> \o from[blocks[h].prev]
      BY <1>3, <2>2
    <3> QED
      BY <2>1, <3>2, <3>3
  <2>3. CASE blocks[h].prev \notin DOMAIN blocks
    BY <1>3, <2>1, <2>3
  <2> QED
    BY <2>2, <2>3
<1>6. from[top] \in Seq(B)
  <2>1. H + 1 \in T
    <3> HIDE DEF T
    <3> QED
      BY <1>4, <1>5, NatInduct
  <2> QED
    BY <2>1 DEF Descends
<1>7. blocks[top].prev \in DOMAIN blocks => from[blocks[top].prev] \in Seq(B)
  <2>1. H + 1 \in T
    <3> HIDE DEF T
    <3> QED
      BY <1>4, <1>5, NatInduct
  <2> QED
    BY <2>1 DEF Descends
<1>8. from[top] # <<>> /\ from[top][1] = blocks[top]
  <2>1. <<blocks[top]>> \in Seq(B)
    OBVIOUS
  <2> HIDE DEF B
  <2>2. CASE blocks[top].prev \in DOMAIN blocks
    <3>1. from[top] = <<blocks[top]>> \o from[blocks[top].prev]
      BY <1>3, <2>2
    <3>2. from[blocks[top].prev] \in Seq(B)
      BY <1>7, <2>2
    <3>3. \A s \in Seq(B) : <<blocks[top]>> \o s # <<>> /\ (<<blocks[top]>> \o s)[1] = blocks[top]
      BY <2>1
    <3> QED
      BY <3>1, <3>2, <3>3
  <2>3. CASE blocks[top].prev \notin DOMAIN blocks
    <3>1. from[top] = <<blocks[top]>>
      BY <1>3, <2>3
    <3>2. <<blocks[top]>> # <<>> /\ <<blocks[top]>>[1] = blocks[top]
      OBVIOUS
    <3> QED
      BY <3>1, <3>2
  <2> QED
    BY <2>2, <2>3
<1> QED
  BY <1>2, <1>6, <1>8

\* A chain is its first block and the chain of that block's predecessor.
LEMMA ChainUnfolds ==
  ASSUME NEW blocks, NEW H \in Nat, Descends(blocks, H), NEW top \in DOMAIN blocks
  PROVE  Chain(blocks, top) =
           IF blocks[top].prev \in DOMAIN blocks
           THEN <<blocks[top]>> \o Chain(blocks, blocks[top].prev) ELSE <<blocks[top]>>
<1> DEFINE from == CHOOSE f : IsWalk(f, blocks)
<1>1. IsWalk(from, blocks)
  BY DescentEnds
<1>2. \A h \in DOMAIN blocks : Chain(blocks, h) = from[h]
  BY DEF Chain, IsWalk
<1> HIDE DEF from
<1>3. \A h \in DOMAIN blocks :
        from[h] = IF blocks[h].prev \in DOMAIN blocks
                  THEN <<blocks[h]>> \o from[blocks[h].prev] ELSE <<blocks[h]>>
  BY <1>1 DEF IsWalk
<1> QED
  BY <1>2, <1>3

\* A chain goes down: no block of it is higher than its first one.
LEMMA ChainBelow ==
  ASSUME NEW blocks, NEW H \in Nat, Descends(blocks, H), NEW top \in DOMAIN blocks
  PROVE  \A i \in DOMAIN Chain(blocks, top) :
           Chain(blocks, top)[i].height <= blocks[top].height
<1> DEFINE B == {blocks[h] : h \in DOMAIN blocks}
           Low(h) == \A i \in DOMAIN Chain(blocks, h) :
                       Chain(blocks, h)[i].height <= blocks[h].height
           T == {k \in Nat : \A h \in DOMAIN blocks : blocks[h].height < k => Low(h)}
<1>1. 0 \in T
  BY DEF Descends
<1>2. ASSUME NEW k \in Nat, k \in T PROVE k + 1 \in T
  <2> SUFFICES ASSUME NEW h \in DOMAIN blocks, blocks[h].height < k + 1
               PROVE  Low(h)
    OBVIOUS
  <2>1. /\ Chain(blocks, h) = IF blocks[h].prev \in DOMAIN blocks
             THEN <<blocks[h]>> \o Chain(blocks, blocks[h].prev) ELSE <<blocks[h]>>
        /\ blocks[h].height \in Nat
    BY ChainUnfolds DEF Descends
  <2>2. CASE blocks[h].prev \in DOMAIN blocks
    <3> DEFINE p == blocks[h].prev
               rest == Chain(blocks, p)
    <3>1. blocks[p].height < k /\ blocks[p].height < blocks[h].height /\ blocks[p].height \in Nat
      BY <2>2 DEF Descends
    <3>2. rest \in Seq(B)
      BY <2>2, ChainOfStored
    <3>3. \A i \in DOMAIN rest : rest[i].height <= blocks[p].height
      BY <1>2, <2>2, <3>1
    <3>4. \A b \in B : b.height \in Nat
      BY DEF Descends
    <3>5. Chain(blocks, h) = <<blocks[h]>> \o rest
      BY <2>1, <2>2
    <3> HIDE DEF rest, p, B
    <3>6. \A i \in DOMAIN (<<blocks[h]>> \o rest) :
            \/ (<<blocks[h]>> \o rest)[i] = blocks[h]
            \/ \E j \in DOMAIN rest : (<<blocks[h]>> \o rest)[i] = rest[j]
      <4>1. \A i \in 1..Len(rest) + 1 : i = 1 \/ i - 1 \in 1..Len(rest)
        BY <3>2
      <4> QED
        BY <3>2, <4>1
    <3>7. \A j \in DOMAIN rest : rest[j].height \in Nat
      BY <3>2, <3>4
    <3> QED
      BY <2>1, <3>1, <3>3, <3>5, <3>6, <3>7
  <2>3. CASE blocks[h].prev \notin DOMAIN blocks
    BY <2>1, <2>3
  <2> QED
    BY <2>2, <2>3
<1>3. H + 1 \in T
  <2> HIDE DEF T
  <2> QED
    BY <1>1, <1>2, NatInduct
<1> QED
  BY <1>3 DEF Descends

\* Where the predecessor of every block is stored, every walk reaches a
\* genesis block.
LEMMA CompleteReachesGenesis ==
  ASSUME NEW blocks, NEW H \in Nat, Descends(blocks, H), NEW top \in DOMAIN blocks,
         \A h \in DOMAIN blocks : blocks[h].prev \in DOMAIN blocks \cup {Empty}
  PROVE  ReachesGenesis(blocks, top)
<1> DEFINE B == {blocks[h] : h \in DOMAIN blocks}
           Ends(h) == Last(Chain(blocks, h)).prev = Empty
           T == {k \in Nat : \A h \in DOMAIN blocks : blocks[h].height < k => Ends(h)}
<1>1. 0 \in T
  BY DEF Descends
<1>2. ASSUME NEW k \in Nat, k \in T PROVE k + 1 \in T
  <2> SUFFICES ASSUME NEW h \in DOMAIN blocks, blocks[h].height < k + 1
               PROVE  Ends(h)
    OBVIOUS
  <2>1. Chain(blocks, h) = IF blocks[h].prev \in DOMAIN blocks
             THEN <<blocks[h]>> \o Chain(blocks, blocks[h].prev) ELSE <<blocks[h]>>
    BY ChainUnfolds
  <2>2. CASE blocks[h].prev \in DOMAIN blocks
    <3> DEFINE p == blocks[h].prev
               rest == Chain(blocks, p)
    <3>1. blocks[p].height < k
      BY <2>2 DEF Descends
    <3>2. rest \in Seq(B) /\ rest # <<>>
      BY <2>2, ChainOfStored
    <3>3. Last(rest).prev = Empty
      BY <1>2, <2>2, <3>1
    <3>4. Chain(blocks, h) = <<blocks[h]>> \o rest
      BY <2>1, <2>2
    <3> HIDE DEF rest, B
    <3>5. Last(<<blocks[h]>> \o rest) = Last(rest)
      BY <3>2 DEF Last
    <3> QED
      BY <3>3, <3>4, <3>5
  <2>3. CASE blocks[h].prev \notin DOMAIN blocks
    <3>1. blocks[h].prev = Empty /\ Chain(blocks, h) = <<blocks[h]>>
      BY <2>1, <2>3
    <3>2. Last(<<blocks[h]>>) = blocks[h]
      BY DEF Last
    <3> QED
      BY <3>1, <3>2
  <2> QED
    BY <2>2, <2>3
<1>3. H + 1 \in T
  <2> HIDE DEF T
  <2> QED
    BY <1>1, <1>2, NatInduct
<1> QED
  BY <1>3 DEF Descends, ReachesGenesis

-----------------------------------------------------------------------------
(* The folds of module Ledger *)

addValue(nothing, sum, o) == sum + o.value

Finding == INSTANCE FoldTheorems WITH op <- visitTransaction
Taking  == INSTANCE FoldTheorems WITH op <- takeOutput
Summing == INSTANCE FoldTheorems WITH op <- addValue

LEMMA FindingFolds ==
  \A pkh, base, txs : FoldLeft(LAMBDA acc, tx : visitTransaction(pkh, acc, tx), base, txs)
                       = Finding!Fold(pkh, base, txs)
  BY DEF Finding!Fold, Finding!FoldLeft, Finding!MapThenFoldSet, Finding!Max,
         FoldLeft, MapThenFoldSet, Max

LEMMA TakingFolds ==
  \A want, base, outs : FoldLeft(LAMBDA acc, out : takeOutput(want, acc, out), base, outs)
                       = Taking!Fold(want, base, outs)
  BY DEF Taking!Fold, Taking!FoldLeft, Taking!MapThenFoldSet, Taking!Max,
         FoldLeft, MapThenFoldSet, Max

LEMMA SummingFolds ==
  \A outs : SumValues(outs) = Summing!Fold(0, 0, outs)
  BY DEF SumValues, addValue, Summing!Fold, Summing!FoldLeft, Summing!MapThenFoldSet, Summing!Max,
         FoldLeft, MapThenFoldSet, Max

\* The sum of the values of one output, and of two.
LEMMA SumOfFew ==
  ASSUME NEW o, o.value \in Int
  PROVE  /\ SumValues(<<o>>) = o.value
         /\ \A p : p.value \in Int => SumValues(<<o>> \o <<p>>) = o.value + p.value
<1>1. SumValues(<<>>) = 0
  BY SummingFolds, Summing!FoldOfNothing
<1>2. ASSUME NEW A, NEW outs \in Seq(A), NEW q \in A
      PROVE  SumValues(Append(outs, q)) = SumValues(outs) + q.value
  <2>1. SumValues(Append(outs, q)) = addValue(0, SumValues(outs), q)
    BY SummingFolds, Summing!FoldAppends
  <2> QED
    BY <2>1 DEF addValue
<1>3. SumValues(<<o>>) = o.value
  <2>1. <<o>> = Append(<<>>, o) /\ <<>> \in Seq({o}) /\ o \in {o}
    OBVIOUS
  <2>2. SumValues(Append(<<>>, o)) = SumValues(<<>>) + o.value
    BY <1>2, <2>1
  <2> QED
    BY <1>1, <2>1, <2>2
<1>4. ASSUME NEW p, p.value \in Int PROVE SumValues(<<o>> \o <<p>>) = o.value + p.value
  <2>1. <<o>> \o <<p>> = Append(<<o>>, p) /\ <<o>> \in Seq({o, p}) /\ p \in {o, p}
    OBVIOUS
  <2>2. SumValues(Append(<<o>>, p)) = SumValues(<<o>>) + p.value
    BY <1>2, <2>1
  <2> QED
    BY <1>3, <2>1, <2>2
<1> QED
  BY <1>3, <1>4

-----------------------------------------------------------------------------
(* Transactions in a chain *)

\* A block of the command line program holds one transaction.
Single(block) == block.txs = <<block.txs[1]>>

\* The blocks' transactions are visited in the order of the blocks.
LEMMA VisitedSingles ==
  ASSUME NEW B, NEW chain \in Seq(B), \A i \in DOMAIN chain : Single(chain[i])
  PROVE  /\ Visited(chain) = [i \in DOMAIN chain |-> chain[i].txs[1]]
         /\ Visited(chain) \in Seq(Range(Visited(chain)))
         /\ Len(Visited(chain)) = Len(chain)
<1> DEFINE N == Len(chain)
           lists == [i \in DOMAIN chain |-> chain[i].txs]
           firsts(n) == [i \in 1..n |-> chain[i].txs[1]]
<1>1. /\ N \in Nat /\ DOMAIN chain = 1..N /\ Len(lists) = N
      /\ \A i \in 1..N : lists[i] = <<chain[i].txs[1]>>
      /\ lists \in Seq(Range(lists))
  BY DEF Single, Range
<1>2. \A n \in Nat : /\ firsts(n) \in Seq(Range(firsts(n))) /\ Len(firsts(n)) = n
                     /\ DOMAIN firsts(n) = 1..n
  BY DEF Range
<1>3. firsts(1) = <<chain[1].txs[1]>>
  OBVIOUS
<1>4. ASSUME NEW n \in Nat \ {0}
      PROVE  firsts(n + 1) = firsts(n) \o <<chain[n + 1].txs[1]>>
  OBVIOUS
<1>5. PICK flat : /\ \A i \in 1..N :
                       flat[i] = IF i = 1 THEN lists[i] ELSE flat[i - 1] \o lists[i]
                  /\ FlattenSeq(lists) = IF N = 0 THEN lists ELSE flat[N]
  <2> HIDE DEF lists
  <2> QED
    BY <1>1, FlattenRuns
<1>6. Visited(chain) = IF N = 0 THEN lists ELSE flat[N]
  BY <1>5 DEF Visited
<1>7. \A n \in Nat : n \in 1..N => flat[n] = firsts(n)
  <2> DEFINE S == {n \in Nat : n \in 1..N => flat[n] = firsts(n)}
  <2> HIDE DEF lists, firsts
  <2>1. 0 \in S
    OBVIOUS
  <2>2. ASSUME NEW n \in Nat, n \in S PROVE n + 1 \in S
    <3> SUFFICES ASSUME n + 1 \in 1..N PROVE flat[n + 1] = firsts(n + 1)
      OBVIOUS
    <3>1. flat[n + 1] = IF n + 1 = 1 THEN lists[n + 1] ELSE flat[n] \o lists[n + 1]
      <4>1. \A i \in 1..N : flat[i] = IF i = 1 THEN lists[i] ELSE flat[i - 1] \o lists[i]
        BY <1>5
      <4>2. (n + 1) - 1 = n
        OBVIOUS
      <4> QED
        BY <4>1, <4>2
    <3>2. lists[n + 1] = <<chain[n + 1].txs[1]>>
      BY <1>1
    <3>3. CASE n = 0
      BY <1>3, <3>1, <3>2, <3>3
    <3>4. CASE n # 0
      <4>1. n \in 1..N /\ n + 1 # 1 /\ n \in Nat \ {0}
        BY <1>1, <3>4
      <4>2. flat[n] = firsts(n)
        BY <2>2, <4>1
      <4> QED
        BY <1>4, <3>1, <3>2, <4>1, <4>2
    <3> QED
      BY <3>3, <3>4
  <2> HIDE DEF S
  <2>3. \A n \in Nat : n \in S
    BY <2>1, <2>2, NatInduct
  <2> QED
    BY <2>3 DEF S
<1>8. Visited(chain) = firsts(N)
  <2>1. CASE N = 0
    BY <1>1, <1>6, <2>1
  <2>2. CASE N # 0
    <3> HIDE DEF lists, firsts
    <3> QED
      BY <1>1, <1>6, <1>7, <2>2
  <2> QED
    BY <2>1, <2>2
<1> QED
  BY <1>1, <1>2, <1>8

\* FindTxByID finds a transaction with the ID if the chain has one.
LEMMA FindTxByIDFinds ==
  ASSUME NEW chain, NEW T, Visited(chain) \in Seq(T), NEW id,
         \E tx \in Range(Visited(chain)) : tx.id = id
  PROVE  /\ FindTxByID(chain, id) \in Range(Visited(chain))
         /\ FindTxByID(chain, id).id = id
<1> DEFINE txs  == Visited(chain)
           hits == {i \in DOMAIN txs : txs[i].id = id}
           first == CHOOSE i \in hits : \A j \in hits : i <= j
<1>1. hits \subseteq Nat /\ hits # {}
  <2>1. DOMAIN txs \subseteq Nat
    OBVIOUS
  <2> QED
    BY <2>1 DEF Range
<1>2. \E i \in hits : \A j \in hits : i <= j
  <2> HIDE DEF hits
  <2> QED
    BY <1>1, LeastElement
<1>3. first \in hits
  BY <1>2
<1>4. FindTxByID(chain, id) = txs[first]
  BY <1>1 DEF FindTxByID
<1> QED
  BY <1>3, <1>4 DEF Range

\* What FindUnspendTransaction finds is in the chain.
LEMMA FoundIsVisited ==
  ASSUME NEW chain, NEW T, Visited(chain) \in Seq(T), NEW pkh,
         \A tx \in T : Len(tx.out) \in Nat
  PROVE  FindUnspendTransaction(chain, pkh) \in Seq(T)
<1> DEFINE txs == Visited(chain)
           N == Len(txs)
           base == [found |-> <<>>, spent |-> {}]
<1>1. N \in Nat /\ \A n \in 1..N : txs[n] \in T
  OBVIOUS
<1>2. PICK run : /\ run[0] = base
                 /\ \A n \in 1..N : run[n] = visitTransaction(pkh, run[n - 1], txs[n])
                 /\ Finding!Fold(pkh, base, txs) = run[N]
  BY Finding!FoldRuns
<1>3. ASSUME NEW acc, acc.found \in Seq(T), NEW tx \in T
      PROVE  visitTransaction(pkh, acc, tx).found \in Seq(T)
  <2> DEFINE left == {v \in UnspentIndices(tx, acc.spent) : CanBeUnlockedWith(tx.out[v + 1], pkh)}
  <2>1. IsFiniteSet(left)
    <3>1. left \subseteq 0..Len(tx.out) - 1
      BY DEF UnspentIndices
    <3>2. IsFiniteSet(0..Len(tx.out) - 1)
      BY FS_Interval
    <3> QED
      BY <3>1, <3>2, FS_Subset
  <2>2. Cardinality(left) \in Nat
    BY <2>1, FS_CardinalityType
  <2>3. [k \in 1..Cardinality(left) |-> tx] \in Seq(T)
    <3> HIDE DEF left
    <3> QED
      BY <2>2
  <2>4. visitTransaction(pkh, acc, tx).found = acc.found \o [k \in 1..Cardinality(left) |-> tx]
    BY DEF visitTransaction
  <2> HIDE DEF left
  <2> QED
    BY <1>3, <2>3, <2>4
<1> DEFINE S == {n \in 0..N : run[n].found \in Seq(T)}
<1>4. 0 \in S
  <2>1. run[0].found = <<>> /\ <<>> \in Seq(T) /\ 0 \in 0..N
    BY <1>1, <1>2
  <2> QED
    BY <2>1
<1>5. ASSUME NEW n \in 0..N-1, n \in S PROVE n + 1 \in S
  <2>1. n + 1 \in 1..N /\ (n + 1) - 1 = n /\ n + 1 \in 0..N
    BY <1>1
  <2>2. run[n + 1] = visitTransaction(pkh, run[n], txs[n + 1])
    BY <1>2, <2>1
  <2>3. run[n].found \in Seq(T) /\ txs[n + 1] \in T
    BY <1>1, <1>5, <2>1
  <2>4. run[n + 1].found \in Seq(T)
    BY <1>3, <2>2, <2>3
  <2> QED
    BY <2>1, <2>4
<1> HIDE DEF S
<1>6. \A n \in 0..N : n \in S
  BY <1>1, <1>4, <1>5, UpToInduct
<1>7. FindUnspendTransaction(chain, pkh) = run[N].found
  BY <1>2, FindingFolds DEF FindUnspendTransaction
<1> QED
  BY <1>1, <1>6, <1>7 DEF S

-----------------------------------------------------------------------------
(* What CreateTransaction makes *)

\* The ID of a transaction is taken over its outputs, which hold positive
\* amounts.
WellFormed(tx) ==
    /\ tx.id[2].out = tx.out
    /\ tx.out \in Seq(Range(tx.out))
    /\ \A o \in Range(tx.out) : o.value \in Nat \ {0}

\* The transaction holds the output an input (or a choice of outputs) names,
\* locked to that public key hash.
Holds(tx, ref, pkh) ==
    /\ tx.id = ref.txid
    /\ ref.vout + 1 \in DOMAIN tx.out
    /\ tx.out[ref.vout + 1].pkh = pkh

\* Outputs of the transactions in T, locked to the public key hash, and their
\* sum: 0 if there are none, the value of the output if it is one.
ChosenFrom(chosen, T, pkh) ==
    /\ chosen.sum \in Nat
    /\ chosen.refs \in Seq(Range(chosen.refs))
    /\ \A r \in Range(chosen.refs) : r.vout \in Nat /\ \E tx \in T : Holds(tx, r, pkh)
    /\ Len(chosen.refs) = 0 => chosen.sum = 0
    /\ Len(chosen.refs) = 1 =>
         \A tx \in T : tx.id = chosen.refs[1].txid =>
           tx.out[chosen.refs[1].vout + 1].value = chosen.sum

\* That is what FindSpendableOutputs takes from a chain.
LEMMA ChosenOutputs ==
  ASSUME NEW chain, NEW T, Visited(chain) \in Seq(T), \A tx \in T : WellFormed(tx),
         NEW pkh, NEW amount \in Nat,
         NEW chosen, chosen = FindSpendableOutputs(chain, pkh, amount)
  PROVE  ChosenFrom(chosen, T, pkh)
<1> DEFINE found == FindUnspendTransaction(chain, pkh)
           O == UNION {Range(OutputsOf(tx)) : tx \in T}
           outs == FlattenSeq([k \in DOMAIN found |-> OutputsOf(found[k])])
           want == [pkh |-> pkh, amount |-> amount]
           base == [sum |-> 0, refs |-> <<>>]
           N == Len(outs)
           ref(o) == [txid |-> o.txid, vout |-> o.vout]
           Mine == {o \in O : o.output.pkh = pkh}
           R == {ref(o) : o \in Mine}
           J(acc) == /\ acc.sum \in Nat /\ acc.refs \in Seq(R)
                     /\ Len(acc.refs) = 0 => acc.sum = 0
                     /\ Len(acc.refs) = 1 =>
                          \E o \in Mine : acc.refs[1] = ref(o) /\ acc.sum = o.output.value
<1>1. \A tx \in T : /\ tx.out \in Seq(Range(tx.out)) /\ Len(tx.out) \in Nat
                    /\ DOMAIN tx.out = 1..Len(tx.out)
                    /\ \A i \in DOMAIN tx.out : tx.out[i].value \in Nat \ {0}
  BY DEF WellFormed, Range
<1>2. found \in Seq(T)
  BY <1>1, FoundIsVisited
<1>3. \A o \in O : /\ o.vout \in Nat /\ o.output.value \in Nat
                   /\ \E tx \in T : /\ tx.id = o.txid /\ o.vout + 1 \in DOMAIN tx.out
                                    /\ tx.out[o.vout + 1] = o.output
  <2> TAKE o \in O
  <2>1. PICK tx \in T : o \in Range(OutputsOf(tx))
    OBVIOUS
  <2>2. PICK i \in DOMAIN tx.out : o = [output |-> tx.out[i], txid |-> tx.id, vout |-> i - 1]
    BY <2>1 DEF OutputsOf, Range
  <2>3. i \in 1..Len(tx.out) /\ Len(tx.out) \in Nat
    BY <1>1
  <2>4. o.vout \in Nat /\ o.vout + 1 = i
    BY <2>2, <2>3
  <2> QED
    BY <1>1, <2>2, <2>4
<1>4. outs \in Seq(O)
  <2>1. \A tx \in T : OutputsOf(tx) \in Seq(O)
    <3> TAKE tx \in T
    <3>1. DOMAIN OutputsOf(tx) = 1..Len(tx.out) /\ Len(tx.out) \in Nat
      BY <1>1 DEF OutputsOf
    <3>2. OutputsOf(tx) = [i \in 1..Len(tx.out) |-> OutputsOf(tx)[i]]
      BY <3>1 DEF OutputsOf
    <3>3. \A i \in 1..Len(tx.out) : OutputsOf(tx)[i] \in O
      BY <3>1 DEF Range
    <3> HIDE DEF O
    <3> QED
      BY <3>1, <3>2, <3>3
  <2> DEFINE lists == [k \in DOMAIN found |-> OutputsOf(found[k])]
  <2>2. lists \in Seq(Seq(O))
    <3>1. Len(found) \in Nat /\ DOMAIN found = 1..Len(found)
          /\ \A k \in 1..Len(found) : found[k] \in T
      BY <1>2
    <3>2. lists = [k \in 1..Len(found) |-> OutputsOf(found[k])]
      BY <3>1
    <3>3. \A k \in 1..Len(found) : OutputsOf(found[k]) \in Seq(O)
      BY <2>1, <3>1
    <3> HIDE DEF found, O, lists
    <3> QED
      BY <3>1, <3>2, <3>3
  <2> HIDE DEF found, O
  <2> QED
    BY <2>2, FlattenInSeq
<1> HIDE DEF O, outs, found
<1>5. N \in Nat /\ \A n \in 1..N : outs[n] \in O
  BY <1>4
<1>6. PICK run : /\ run[0] = base
                 /\ \A n \in 1..N : run[n] = takeOutput(want, run[n - 1], outs[n])
                 /\ Taking!Fold(want, base, outs) = run[N]
  BY <1>4, Taking!FoldRuns
<1>7. ASSUME NEW acc, J(acc), NEW o \in O PROVE J(takeOutput(want, acc, o))
  <2> DEFINE next == takeOutput(want, acc, o)
  <2>1. next = acc \/
          /\ o.output.pkh = pkh
          /\ next = [sum |-> acc.sum + o.output.value, refs |-> Append(acc.refs, ref(o))]
    BY DEF takeOutput, CanBeUnlockedWith
  <2>2. CASE next = acc
    BY <1>7, <2>2
  <2>3. CASE o.output.pkh = pkh
          /\ next = [sum |-> acc.sum + o.output.value, refs |-> Append(acc.refs, ref(o))]
    <3>1. o \in Mine /\ ref(o) \in R /\ o.output.value \in Nat
      BY <1>3, <2>3
    <3>2. next.sum = acc.sum + o.output.value /\ next.refs = Append(acc.refs, ref(o))
      BY <2>3
    <3> HIDE DEF Mine, R, ref, next
    <3>3. /\ next.refs \in Seq(R) /\ Len(next.refs) = Len(acc.refs) + 1
          /\ Len(acc.refs) \in Nat /\ next.sum \in Nat
          /\ next.refs[Len(acc.refs) + 1] = ref(o)
      BY <1>7, <3>1, <3>2
    <3>4. Len(next.refs) = 1 => acc.sum = 0 /\ next.refs[1] = ref(o)
      BY <1>7, <3>3
    <3>5. Len(next.refs) = 1 => next.sum = o.output.value
      BY <3>1, <3>2, <3>4
    <3>6. Len(next.refs) # 0
      BY <3>3
    <3> QED
      BY <3>1, <3>3, <3>4, <3>5, <3>6 DEF next
  <2> QED
    BY <2>1, <2>2, <2>3
<1> DEFINE S == {n \in 0..N : J(run[n])}
<1>8. 0 \in S
  <2>1. run[0].sum = 0 /\ run[0].refs = <<>> /\ <<>> \in Seq(R) /\ Len(<<>>) = 0
    BY <1>6
  <2>2. 0 \in 0..N
    BY <1>5
  <2>3. /\ run[0].sum \in Nat /\ run[0].refs \in Seq(R) /\ Len(run[0].refs) = 0
    BY <2>1
  <2>4. Len(run[0].refs) # 1
    BY <2>3
  <2> HIDE DEF R, Mine, ref
  <2>5. J(run[0])
    BY <2>1, <2>3, <2>4
  <2> HIDE DEF J
  <2> QED
    BY <2>2, <2>5
<1>9. ASSUME NEW n \in 0..N-1, n \in S PROVE n + 1 \in S
  <2>1. n + 1 \in 1..N /\ (n + 1) - 1 = n /\ n + 1 \in 0..N
    BY <1>5
  <2> HIDE DEF J
  <2>2. J(run[n + 1])
    BY <1>5, <1>6, <1>7, <1>9, <2>1
  <2> QED
    BY <2>1, <2>2
<1>10. chosen = run[N]
  BY <1>6, TakingFolds DEF FindSpendableOutputs, outs, found
<1>11. J(chosen)
  <2> HIDE DEF S
  <2>1. \A n \in 0..N : n \in S
    BY <1>5, <1>8, <1>9, UpToInduct
  <2>2. N \in S
    BY <1>5, <2>1
  <2> HIDE DEF J
  <2> QED
    BY <1>10, <2>2 DEF S
<1>12. \A r \in R : r.vout \in Nat /\ \E tx \in T : Holds(tx, r, pkh)
  BY <1>3 DEF Holds
<1>13. Range(chosen.refs) \subseteq R /\ chosen.refs \in Seq(Range(chosen.refs))
  <2> HIDE DEF R
  <2>1. chosen.refs \in Seq(R)
    BY <1>11
  <2> QED
    BY <2>1 DEF Range
<1>14. Len(chosen.refs) = 1 =>
         \A tx \in T : tx.id = chosen.refs[1].txid =>
           tx.out[chosen.refs[1].vout + 1].value = chosen.sum
  <2> SUFFICES ASSUME Len(chosen.refs) = 1, NEW tx \in T, tx.id = chosen.refs[1].txid
               PROVE  tx.out[chosen.refs[1].vout + 1].value = chosen.sum
    OBVIOUS
  <2>1. PICK o \in Mine : chosen.refs[1] = ref(o) /\ chosen.sum = o.output.value
    BY <1>11
  <2>2. PICK s \in T : s.id = o.txid /\ s.out[o.vout + 1] = o.output
    BY <1>3
  <2>3. s.id = tx.id
    BY <2>1, <2>2
  <2>4. s.out = tx.out
    BY <2>3 DEF WellFormed
  <2> QED
    BY <2>1, <2>2, <2>4
<1> QED
  <2> HIDE DEF R, Mine
  <2> QED
    BY <1>11, <1>12, <1>13, <1>14 DEF ChosenFrom

\* Iterating the Go map gives the chosen outputs in some order.
LEMMA MapOrdersPermute ==
  ASSUME NEW R, NEW refs \in Seq(R), NEW order \in MapOrders(refs)
  PROVE  /\ order \in Seq(R) /\ Len(order) = Len(refs)
         /\ Len(refs) = 1 => order[1] = refs[1]
<1> DEFINE n == Len(refs)
<1>1. PICK p \in Bijection(1..n, 1..n) : order = [i \in 1..n |-> refs[p[i]]]
  BY DEF MapOrders
<1>2. p \in [1..n -> 1..n]
  BY DEF Bijection, Injection
<1>3. n \in Nat /\ \A i \in 1..n : refs[i] \in R
  OBVIOUS
<1>4. order \in Seq(R) /\ Len(order) = n
  <2>1. \A i \in 1..n : refs[p[i]] \in R
    BY <1>2, <1>3
  <2> QED
    BY <1>1, <1>3, <2>1
<1>5. n = 1 => order[1] = refs[1]
  <2> SUFFICES ASSUME n = 1 PROVE order[1] = refs[1]
    OBVIOUS
  <2>1. 1 \in 1..n /\ p[1] = 1
    BY <1>2
  <2> QED
    BY <1>1, <2>1
<1> QED
  BY <1>4, <1>5

\* A transaction and its inputs have the fields the code gives them.
IsTransaction(tx) ==
    /\ tx = [id |-> tx.id, in |-> tx.in, out |-> tx.out]
    /\ tx.in \in Seq(Range(tx.in))
    /\ \A input \in Range(tx.in) :
         input = [txid |-> input.txid, vout |-> input.vout, sig |-> input.sig, key |-> input.key]

\* A transfer spends outputs of the chain that its key unlocks, pays positive
\* amounts, and, if it has one input, pays out what that input holds.
SpendsFrom(tx, T, key) ==
    /\ Len(tx.in) \in Nat \ {0}
    /\ \A input \in Range(tx.in) :
         /\ input.key = key /\ input.vout \in Nat
         /\ \E source \in T : Holds(source, input, PublickeyHash(key))
    /\ Len(tx.in) = 1 =>
         \A source \in T : source.id = tx.in[1].txid =>
           SumValues(tx.out) = source.out[tx.in[1].vout + 1].value

\* Every input has a signature over its digest; the rest is unchanged.
SignedAs(signed, tx, gob, chain) ==
    /\ signed.id = tx.id /\ signed.out = tx.out
    /\ Len(signed.in) = Len(tx.in)
    /\ \A i \in DOMAIN tx.in :
         /\ signed.in[i].txid = tx.in[i].txid /\ signed.in[i].vout = tx.in[i].vout
         /\ signed.in[i].key = tx.in[i].key
         /\ signed.in[i].sig = <<tx.in[i].key, Digests(gob, tx, chain, FALSE)[i]>>

\* That is what sign does to a transaction.
LEMMA SignKeeps ==
  ASSUME NEW gob, NEW tx, IsTransaction(tx), NEW chain,
         NEW signed, signed = SignTransaction(gob, tx, chain)
  PROVE  IsTransaction(signed) /\ SignedAs(signed, tx, gob, chain)
<1> DEFINE digest == Digests(gob, tx, chain, FALSE)
           n == Len(tx.in)
           in(i) == [tx.in[i] EXCEPT !.sig = <<tx.in[i].key, digest[i]>>]
           ins == [i \in 1..n |-> in(i)]
<1>1. /\ tx = [id |-> tx.id, in |-> tx.in, out |-> tx.out]
      /\ n \in Nat /\ DOMAIN tx.in = 1..n
      /\ \A i \in 1..n : tx.in[i] = [txid |-> tx.in[i].txid, vout |-> tx.in[i].vout,
                                     sig |-> tx.in[i].sig, key |-> tx.in[i].key]
  BY DEF IsTransaction, Range
<1>2. signed = [tx EXCEPT !.in = ins]
  BY <1>1 DEF SignTransaction
<1> HIDE DEF digest
<1>3. \A i \in 1..n : in(i) = [txid |-> tx.in[i].txid, vout |-> tx.in[i].vout,
                               sig |-> <<tx.in[i].key, digest[i]>>, key |-> tx.in[i].key]
  <2>1. \A r, x : r = [txid |-> r.txid, vout |-> r.vout, sig |-> r.sig, key |-> r.key] =>
          [r EXCEPT !.sig = x] = [txid |-> r.txid, vout |-> r.vout, sig |-> x, key |-> r.key]
    OBVIOUS
  <2> QED
    BY <1>1, <2>1
<1>4. \A i \in 1..n : /\ in(i).txid = tx.in[i].txid /\ in(i).vout = tx.in[i].vout
                      /\ in(i).sig = <<tx.in[i].key, digest[i]>> /\ in(i).key = tx.in[i].key
                      /\ in(i) = [txid |-> in(i).txid, vout |-> in(i).vout,
                                  sig |-> in(i).sig, key |-> in(i).key]
  BY <1>3
<1> HIDE DEF in
<1>5. /\ ins \in Seq(Range(ins)) /\ Len(ins) = n /\ DOMAIN ins = 1..n
      /\ \A i \in 1..n : ins[i] = in(i)
  BY <1>1 DEF Range
<1> HIDE DEF ins
<1>6. signed = [id |-> tx.id, in |-> ins, out |-> tx.out]
  BY <1>1, <1>2
<1>7. signed.id = tx.id /\ signed.in = ins /\ signed.out = tx.out
  BY <1>6
<1>8. IsTransaction(signed)
  BY <1>4, <1>5, <1>6, <1>7 DEF IsTransaction, Range
<1> QED
  BY <1>1, <1>4, <1>5, <1>7, <1>8 DEF digest, SignedAs

\* The transactions CreateTransaction returns, if the chain's are well formed.
LEMMA CreatedSpends ==
  ASSUME NEW chain, NEW T, Visited(chain) \in Seq(T), \A s \in T : WellFormed(s),
         NEW gob, NEW key, NEW to, NEW amount \in Nat \ {0},
         NEW tx \in CreateTransaction(gob, chain, key, to, amount)
  PROVE  /\ IsTransaction(tx) /\ WellFormed(tx) /\ SpendsFrom(tx, T, key)
         /\ \E unsigned : IsTransaction(unsigned) /\ SignedAs(tx, unsigned, gob, chain)
<1> DEFINE from   == PublickeyHash(key)
           chosen == FindSpendableOutputs(chain, from, amount)
           inputs(refs) == [i \in DOMAIN refs |->
             [txid |-> refs[i].txid, vout |-> refs[i].vout, sig |-> Empty, key |-> key]]
           out == <<[value |-> amount, pkh |-> to]>> \o Change(chosen.sum, amount, from)
<1>1. /\ ~(chosen.sum < amount)
      /\ \E refs \in MapOrders(chosen.refs) :
           tx = SignTransaction(gob, NewTransaction(gob, inputs(refs), out), chain)
  BY DEF CreateTransaction
<1>2. PICK refs \in MapOrders(chosen.refs) :
        tx = SignTransaction(gob, NewTransaction(gob, inputs(refs), out), chain)
  BY <1>1
<1> DEFINE n == Len(refs)
           R == Range(chosen.refs)
<1>3. /\ chosen.sum \in Nat /\ chosen.refs \in Seq(R)
      /\ \A r \in R : r.vout \in Nat /\ \E s \in T : Holds(s, r, from)
      /\ Len(chosen.refs) = 0 => chosen.sum = 0
      /\ Len(chosen.refs) = 1 =>
           \A s \in T : s.id = chosen.refs[1].txid =>
             s.out[chosen.refs[1].vout + 1].value = chosen.sum
  <2> HIDE DEF chosen, from
  <2>1. PICK c : c = chosen
    OBVIOUS
  <2>2. c = FindSpendableOutputs(chain, from, amount) /\ amount \in Nat
    BY <2>1 DEF chosen
  <2>3. ChosenFrom(c, T, from)
    BY <2>2, ChosenOutputs
  <2>4. ChosenFrom(chosen, T, from)
    BY <2>1, <2>3
  <2> QED
    BY <2>4 DEF ChosenFrom
<1>4. refs \in Seq(R) /\ n = Len(chosen.refs) /\ n \in Nat
      /\ (Len(chosen.refs) = 1 => refs[1] = chosen.refs[1])
  <2> HIDE DEF R, chosen
  <2> QED
    BY <1>2, <1>3, MapOrdersPermute
<1> HIDE DEF chosen, from, R
<1>5. n # 0 /\ n \in Nat \ {0}
  BY <1>1, <1>3, <1>4
<1>6. /\ out \in Seq(Range(out))
      /\ \A o \in Range(out) : o.value \in Nat \ {0}
      /\ SumValues(out) = chosen.sum
  <2> DEFINE pays == [value |-> amount, pkh |-> to]
             rest == [value |-> chosen.sum - amount, pkh |-> from]
  <2>1. CASE chosen.sum > amount
    <3>1. out = <<pays>> \o <<rest>>
      BY <2>1 DEF Change
    <3>2. pays.value = amount /\ rest.value = chosen.sum - amount
          /\ rest.value \in Nat \ {0}
      BY <1>3, <2>1
    <3> HIDE DEF pays, rest, out
    <3>3. SumValues(out) = pays.value + rest.value
      <4>1. pays.value \in Int /\ rest.value \in Int
        BY <3>2
      <4>2. \A b : b.value \in Int => SumValues(<<pays>> \o <<b>>) = pays.value + b.value
        BY <4>1, SumOfFew
      <4> QED
        BY <3>1, <4>1, <4>2
    <3>4. Range(out) = {pays, rest} /\ out \in Seq({pays, rest})
      <4>1. out \in Seq({pays, rest}) /\ Len(out) = 2 /\ out[1] = pays /\ out[2] = rest
        BY <3>1
      <4> QED
        BY <4>1 DEF Range
    <3>5. SumValues(out) = chosen.sum
      BY <1>3, <3>2, <3>3
    <3> QED
      BY <3>2, <3>4, <3>5
  <2>2. CASE ~(chosen.sum > amount)
    <3>1. out = <<pays>>
      <4>1. out = <<pays>> \o <<>>
        BY <2>2 DEF Change
      <4> HIDE DEF pays, out
      <4> QED
        BY <4>1
    <3>2. pays.value = amount /\ chosen.sum = amount
      BY <1>1, <1>3, <2>2
    <3> HIDE DEF pays, out
    <3>3. SumValues(out) = pays.value
      <4>1. pays.value \in Int
        BY <3>2
      <4>2. SumValues(<<pays>>) = pays.value
        BY <4>1, SumOfFew
      <4> QED
        BY <3>1, <4>2
    <3>4. Range(out) = {pays} /\ out \in Seq({pays})
      BY <3>1 DEF Range
    <3> QED
      BY <3>2, <3>3, <3>4
  <2> QED
    BY <2>1, <2>2
<1> DEFINE unsigned == NewTransaction(gob, inputs(refs), out)
<1>7. /\ DOMAIN inputs(refs) = 1..n /\ Len(inputs(refs)) = n
      /\ inputs(refs) \in Seq(Range(inputs(refs)))
      /\ \A i \in 1..n : inputs(refs)[i] = [txid |-> refs[i].txid, vout |-> refs[i].vout,
                                            sig |-> Empty, key |-> key]
  BY <1>4 DEF Range
<1> HIDE DEF inputs, out
<1>8. /\ unsigned.in = inputs(refs) /\ unsigned.out = out
      /\ unsigned.id[2].out = out
      /\ unsigned = [id |-> unsigned.id, in |-> unsigned.in, out |-> unsigned.out]
  BY DEF NewTransaction, Hash
<1> HIDE DEF unsigned
<1>9. IsTransaction(unsigned)
  BY <1>7, <1>8 DEF IsTransaction, Range
<1>10. IsTransaction(tx) /\ SignedAs(tx, unsigned, gob, chain)
  <2>1. tx = SignTransaction(gob, unsigned, chain)
    BY <1>2 DEF unsigned
  <2> QED
    BY <1>9, <2>1, SignKeeps
<1>11. /\ tx.id = unsigned.id /\ tx.out = out
       /\ Len(tx.in) = n /\ DOMAIN tx.in = 1..n
       /\ \A i \in 1..n : /\ tx.in[i].txid = refs[i].txid /\ tx.in[i].vout = refs[i].vout
                          /\ tx.in[i].key = key
  <2>1. DOMAIN unsigned.in = 1..n /\ Len(unsigned.in) = n
    BY <1>7, <1>8
  <2>2. Len(tx.in) = n /\ DOMAIN tx.in = 1..Len(tx.in)
    BY <1>10, <2>1 DEF IsTransaction, SignedAs
  <2>3. \A i \in 1..n : /\ unsigned.in[i].txid = refs[i].txid
                        /\ unsigned.in[i].vout = refs[i].vout
                        /\ unsigned.in[i].key = key
    BY <1>7, <1>8
  <2> QED
    BY <1>8, <1>10, <2>1, <2>2, <2>3 DEF SignedAs
<1>12. WellFormed(tx)
  BY <1>6, <1>8, <1>11 DEF WellFormed
<1>13. \A i \in 1..n : /\ tx.in[i].vout \in Nat
                       /\ \E s \in T : Holds(s, tx.in[i], from)
  <2> TAKE i \in 1..n
  <2>1. refs[i] \in R
    BY <1>4
  <2>2. PICK s \in T : Holds(s, refs[i], from)
    BY <1>3, <2>1
  <2>3. Holds(s, tx.in[i], from)
    BY <1>11, <2>2 DEF Holds
  <2> QED
    BY <1>3, <1>11, <2>1, <2>3
<1>14. n = 1 => \A s \in T : s.id = tx.in[1].txid =>
                  SumValues(tx.out) = s.out[tx.in[1].vout + 1].value
  <2> SUFFICES ASSUME n = 1, NEW s \in T, s.id = tx.in[1].txid
               PROVE  SumValues(tx.out) = s.out[tx.in[1].vout + 1].value
    OBVIOUS
  <2>1. refs[1] = chosen.refs[1] /\ tx.in[1].txid = refs[1].txid /\ tx.in[1].vout = refs[1].vout
    BY <1>4, <1>11
  <2>2. s.out[chosen.refs[1].vout + 1].value = chosen.sum
    BY <1>3, <1>4, <2>1
  <2> QED
    BY <1>6, <1>11, <2>1, <2>2
<1>15. SpendsFrom(tx, T, key)
  <2>1. \A input \in Range(tx.in) : \E i \in 1..n : input = tx.in[i]
    BY <1>11 DEF Range
  <2>2. \A input \in Range(tx.in) :
         /\ input.key = key /\ input.vout \in Nat
         /\ \E source \in T : Holds(source, input, from)
    BY <1>11, <1>13, <2>1
  <2> QED
    BY <1>5, <1>11, <1>14, <2>2 DEF SpendsFrom, from
<1> QED
  BY <1>9, <1>12, <1>15, <1>10

-----------------------------------------------------------------------------
(* What sign and Verify hash *)

\* The copy both start from, and what they make of it for the i-th input.
Trimmed(tx) ==
    [tx EXCEPT !.in = [i \in DOMAIN tx.in |-> [tx.in[i] EXCEPT !.sig = Empty, !.key = Empty]]]

KeyAt(tx, chain, i) == FindTxByID(chain, tx.in[i].txid).out[tx.in[i].vout + 1].pkh

Round(gob, tx, chain, wipe, last, i) ==
    LET before == IF wipe /\ i > 1 THEN [last EXCEPT !.in[i-1].key = Empty] ELSE last
        keyed  == [before EXCEPT !.in[i].key = KeyAt(tx, chain, i)]
    IN  [keyed EXCEPT !.id = Hash(gob, keyed)]

\* The function Digests is read from.
IsCopies(copy, n, gob, tx, chain, wipe) ==
    copy = [i \in 0..n |->
              IF i = 0 THEN Trimmed(tx) ELSE Round(gob, tx, chain, wipe, copy[i-1], i)]

\* It is defined for every number of inputs.
LEMMA CopiesExist ==
  ASSUME NEW gob, NEW tx, NEW chain, NEW wipe
  PROVE  \A n \in Nat : \E copy : IsCopies(copy, n, gob, tx, chain, wipe)
<1> DEFINE round(last, i) == Round(gob, tx, chain, wipe, last, i)
           base == Trimmed(tx)
           Is(f, n) == f = [i \in 0..n |-> IF i = 0 THEN base ELSE round(f[i-1], i)]
           S == {n \in Nat : \E f : Is(f, n)}
<1>1. \A f, n : IsCopies(f, n, gob, tx, chain, wipe) <=> Is(f, n)
  BY DEF IsCopies
<1> HIDE DEF round, base
<1>2. 0 \in S
  <2>1. Is([i \in 0..0 |-> base], 0)
    BY SMT
  <2> QED
    BY <2>1
<1>3. ASSUME NEW n \in Nat, n \in S PROVE n + 1 \in S
  <2>1. PICK f : Is(f, n)
    BY <1>3
  <2>2. \A i \in 0..n : f[i] = IF i = 0 THEN base ELSE round(f[i-1], i)
    BY <2>1
  <2> DEFINE g == [i \in 0..n+1 |-> IF i = n + 1 THEN round(f[n], n + 1) ELSE f[i]]
  <2>3. \A i \in 0..n : g[i] = f[i]
    OBVIOUS
  <2>4. g[n + 1] = round(f[n], n + 1)
    OBVIOUS
  <2>5. g = [i \in 0..n+1 |-> g[i]]
    OBVIOUS
  <2> HIDE DEF g
  <2>6. ASSUME NEW i \in 0..n+1
        PROVE  g[i] = IF i = 0 THEN base ELSE round(g[i-1], i)
    <3>1. CASE i = 0
      BY <2>2, <2>3, <3>1
    <3>2. CASE i \in 1..n
      <4>1. i \in 0..n /\ i - 1 \in 0..n /\ i # 0
        BY <3>2
      <4> QED
        BY <2>2, <2>3, <4>1
    <3>3. CASE i = n + 1
      <4>1. i - 1 = n /\ n \in 0..n /\ i # 0
        BY <3>3
      <4> QED
        BY <2>3, <2>4, <3>3, <4>1
    <3> QED
      BY <3>1, <3>2, <3>3
  <2>7. Is(g, n + 1)
    BY <2>5, <2>6
  <2> HIDE DEF Is
  <2> QED
    BY <2>7
<1> HIDE DEF S
<1>4. \A n \in Nat : n \in S
  BY <1>2, <1>3, NatInduct
<1> QED
  BY <1>1, <1>4 DEF S

\* The second digest is taken over a copy whose first input has that key.
SecondOver(digests, gob, key) ==
    \E copy : digests[2] = Hash(gob, copy) /\ copy.in[1].key = key

\* That key is wiped, or still the public key hash of the output it spends.
LEMMA SecondDigest ==
  ASSUME NEW gob, NEW tx, IsTransaction(tx), Len(tx.in) >= 2, NEW chain, NEW wipe \in BOOLEAN
  PROVE  SecondOver(Digests(gob, tx, chain, wipe), gob,
                    IF wipe THEN Empty ELSE KeyAt(tx, chain, 1))
<1> DEFINE n == Len(tx.in)
           copy == CHOOSE f : IsCopies(f, n, gob, tx, chain, wipe)
<1>1. n \in Nat /\ DOMAIN tx.in = 1..n /\ 1 \in 1..n /\ 2 \in 1..n
  BY DEF IsTransaction
<1>2. Digests(gob, tx, chain, wipe) = [i \in DOMAIN tx.in |-> copy[i].id]
  BY DEF Digests, IsCopies, Round, Trimmed, KeyAt
<1>3. IsCopies(copy, n, gob, tx, chain, wipe)
  BY <1>1, CopiesExist
<1> HIDE DEF copy
<1>4. /\ copy[0] = Trimmed(tx)
      /\ copy[1] = Round(gob, tx, chain, wipe, copy[0], 1)
      /\ copy[2] = Round(gob, tx, chain, wipe, copy[1], 2)
  <2>1. \A i \in 0..n : copy[i] = IF i = 0 THEN Trimmed(tx)
                                  ELSE Round(gob, tx, chain, wipe, copy[i-1], i)
    BY <1>3 DEF IsCopies
  <2>2. 0 \in 0..n /\ 1 \in 0..n /\ 2 \in 0..n /\ 1 - 1 = 0 /\ 2 - 1 = 1
    BY <1>1
  <2> QED
    BY <2>1, <2>2
<1> DEFINE Ok(c) == /\ c = [id |-> c.id, in |-> c.in, out |-> c.out]
                    /\ c.in = [i \in 1..n |-> c.in[i]]
                    /\ \A i \in 1..n : c.in[i] = [txid |-> c.in[i].txid, vout |-> c.in[i].vout,
                                                  sig |-> c.in[i].sig, key |-> c.in[i].key]
<1> DEFINE SetKey(c, k, x) == [c EXCEPT !.in[k].key = x]
           SetID(c, x) == [c EXCEPT !.id = x]
<1>5. ASSUME NEW c, Ok(c), NEW k \in 1..n, NEW x
      PROVE  /\ Ok(SetKey(c, k, x)) /\ SetKey(c, k, x).in[k].key = x
             /\ \A i \in 1..n : i # k => SetKey(c, k, x).in[i] = c.in[i]
  <2> DEFINE d == SetKey(c, k, x)
             input == [c.in[k] EXCEPT !.key = x]
             ins   == [c.in EXCEPT ![k] = input]
  <2>1. input = [txid |-> c.in[k].txid, vout |-> c.in[k].vout, sig |-> c.in[k].sig, key |-> x]
    <3>1. \A r : r = [txid |-> r.txid, vout |-> r.vout, sig |-> r.sig, key |-> r.key] =>
            [r EXCEPT !.key = x] = [txid |-> r.txid, vout |-> r.vout, sig |-> r.sig, key |-> x]
      OBVIOUS
    <3> QED
      BY <1>5, <3>1
  <2>2. input.key = x /\ input = [txid |-> input.txid, vout |-> input.vout,
                                  sig |-> input.sig, key |-> input.key]
    BY <2>1
  <2>3. \A r, y : r = [id |-> r.id, in |-> r.in, out |-> r.out] =>
          [r EXCEPT !.in = y] = [id |-> r.id, in |-> y, out |-> r.out]
    OBVIOUS
  <2>4. d = [c EXCEPT !.in = ins]
    OBVIOUS
  <2> HIDE DEF input, d
  <2>5. /\ ins = [i \in 1..n |-> IF i = k THEN input ELSE c.in[i]]
    BY <1>5
  <2>6. /\ ins = [i \in 1..n |-> ins[i]] /\ ins[k] = input
        /\ \A i \in 1..n : i # k => ins[i] = c.in[i]
    BY <2>5
  <2> HIDE DEF ins
  <2>7. d = [id |-> c.id, in |-> ins, out |-> c.out]
    BY <1>5, <2>3, <2>4
  <2>8. d.in = ins /\ d = [id |-> d.id, in |-> d.in, out |-> d.out]
    BY <2>7
  <2>9. Ok(d)
    BY <1>5, <2>2, <2>6, <2>8
  <2> HIDE DEF Ok
  <2>10. d.in[k].key = x /\ \A i \in 1..n : i # k => d.in[i] = c.in[i]
    BY <2>2, <2>6, <2>8
  <2> QED
    BY <2>9, <2>10 DEF d
<1>6. ASSUME NEW c, Ok(c), NEW x
      PROVE  Ok(SetID(c, x)) /\ SetID(c, x).in = c.in /\ SetID(c, x).id = x
  <2> DEFINE d == SetID(c, x)
  <2>1. \A r, y : r = [id |-> r.id, in |-> r.in, out |-> r.out] =>
          [r EXCEPT !.id = y] = [id |-> y, in |-> r.in, out |-> r.out]
    OBVIOUS
  <2>2. d = [id |-> x, in |-> c.in, out |-> c.out]
    BY <1>6, <2>1
  <2> HIDE DEF d
  <2>3. d.id = x /\ d.in = c.in /\ d = [id |-> d.id, in |-> d.in, out |-> d.out]
    BY <2>2
  <2>4. Ok(d)
    BY <1>6, <2>3
  <2> HIDE DEF Ok
  <2> QED
    BY <2>3, <2>4 DEF d
<1>7. Ok(Trimmed(tx))
  <2> DEFINE input(i) == [tx.in[i] EXCEPT !.sig = Empty, !.key = Empty]
             ins == [i \in 1..n |-> input(i)]
  <2>1. ASSUME NEW r, r = [txid |-> r.txid, vout |-> r.vout, sig |-> r.sig, key |-> r.key]
        PROVE  [r EXCEPT !.sig = Empty, !.key = Empty] =
                 [txid |-> r.txid, vout |-> r.vout, sig |-> Empty, key |-> Empty]
    <3> DEFINE unsigned == [txid |-> r.txid, vout |-> r.vout, sig |-> Empty, key |-> r.key]
    <3>1. [r EXCEPT !.sig = Empty] = unsigned
      BY <2>1
    <3>2. [unsigned EXCEPT !.key = Empty] =
            [txid |-> r.txid, vout |-> r.vout, sig |-> Empty, key |-> Empty]
      OBVIOUS
    <3> HIDE DEF unsigned
    <3> QED
      BY <3>1, <3>2
  <2>2. \A r, y : r = [id |-> r.id, in |-> r.in, out |-> r.out] =>
          [r EXCEPT !.in = y] = [id |-> r.id, in |-> y, out |-> r.out]
    OBVIOUS
  <2>3. \A i \in 1..n : input(i) = [txid |-> input(i).txid, vout |-> input(i).vout,
                                    sig |-> input(i).sig, key |-> input(i).key]
    <3> TAKE i \in 1..n
    <3>1. tx.in[i] = [txid |-> tx.in[i].txid, vout |-> tx.in[i].vout,
                      sig |-> tx.in[i].sig, key |-> tx.in[i].key]
      BY <1>1 DEF IsTransaction, Range
    <3>2. input(i) = [txid |-> tx.in[i].txid, vout |-> tx.in[i].vout, sig |-> Empty, key |-> Empty]
      BY <2>1, <3>1
    <3> QED
      BY <3>2
  <2>4. Trimmed(tx) = [tx EXCEPT !.in = ins]
    BY <1>1 DEF Trimmed
  <2> HIDE DEF input
  <2>5. ins = [i \in 1..n |-> ins[i]] /\ \A i \in 1..n : ins[i] = input(i)
    OBVIOUS
  <2> HIDE DEF ins
  <2>6. Trimmed(tx) = [id |-> tx.id, in |-> ins, out |-> tx.out]
    BY <2>2, <2>4 DEF IsTransaction
  <2>7. PICK t : t = Trimmed(tx)
    OBVIOUS
  <2>8. t.in = ins /\ t = [id |-> t.id, in |-> t.in, out |-> t.out]
    BY <2>6, <2>7
  <2>9. Ok(t)
    BY <2>3, <2>5, <2>8
  <2> HIDE DEF Ok
  <2> QED
    BY <2>7, <2>9
<1> DEFINE first  == SetKey(copy[0], 1, KeyAt(tx, chain, 1))
           before == IF wipe THEN SetKey(copy[1], 1, Empty) ELSE copy[1]
           second == SetKey(before, 2, KeyAt(tx, chain, 2))
<1>8. copy[1] = SetID(first, Hash(gob, first))
  BY <1>4 DEF Round
<1>9. copy[2] = SetID(second, Hash(gob, second))
  BY <1>4 DEF Round
<1> HIDE DEF Ok, SetID, SetKey
<1>10. Ok(first) /\ first.in[1].key = KeyAt(tx, chain, 1)
  BY <1>1, <1>4, <1>5, <1>7
<1>11. Ok(copy[1]) /\ copy[1].in[1].key = KeyAt(tx, chain, 1)
  <2> HIDE DEF first
  <2> QED
    BY <1>6, <1>8, <1>10
<1>12. Ok(before) /\ before.in[1].key = IF wipe THEN Empty ELSE KeyAt(tx, chain, 1)
  <2>1. CASE wipe
    BY <1>1, <1>5, <1>11, <2>1
  <2>2. CASE ~wipe
    BY <1>11, <2>2
  <2> QED
    BY <2>1, <2>2
<1> HIDE DEF first, before
<1>13. Ok(second) /\ second.in[1] = before.in[1]
  BY <1>1, <1>5, <1>12
<1> HIDE DEF second
<1>14. copy[2].id = Hash(gob, second)
  BY <1>6, <1>9, <1>13
<1>15. Digests(gob, tx, chain, wipe)[2] = copy[2].id
  BY <1>1, <1>2
<1> QED
  BY <1>12, <1>15, <1>13, <1>14 DEF SecondOver

\* Looking an output up by the ID finds one locked to the same key hash: all
\* transactions with an ID have the same outputs.
LEMMA FoundHolds ==
  ASSUME NEW chain, NEW T, Visited(chain) \in Seq(T), Range(Visited(chain)) = T,
         \A s \in T : WellFormed(s),
         NEW ref, NEW pkh, NEW source \in T, Holds(source, ref, pkh)
  PROVE  /\ FindTxByID(chain, ref.txid) \in T
         /\ Holds(FindTxByID(chain, ref.txid), ref, pkh)
         /\ FindTxByID(chain, ref.txid).out = source.out
<1>1. source.id = ref.txid
  BY DEF Holds
<1>2. PICK hit : hit = FindTxByID(chain, ref.txid)
  OBVIOUS
<1>3. hit \in T /\ hit.id = ref.txid
  BY <1>1, <1>2, FindTxByIDFinds
<1>4. hit.out = source.out
  BY <1>1, <1>3 DEF WellFormed
<1>5. Holds(hit, ref, pkh)
  BY <1>3, <1>4 DEF Holds
<1> QED
  BY <1>2, <1>3, <1>4, <1>5

\* Of the transactions CreateTransaction returns, those that Verify accepts
\* have one input: sign leaves the first key in when it hashes the second.
LEMMA VerifiedHasOneInput ==
  ASSUME NEW chain, NEW T, Visited(chain) \in Seq(T), Range(Visited(chain)) = T,
         \A s \in T : WellFormed(s),
         NEW gob, NEW key, NEW to, NEW amount \in Nat \ {0},
         NEW tx \in CreateTransaction(gob, chain, key, to, amount),
         VerifyTransaction(gob, tx, chain)
  PROVE  Len(tx.in) = 1 /\ ~IsCoinbase(tx)
<1>1. IsTransaction(tx) /\ SpendsFrom(tx, T, key)
  BY CreatedSpends
<1>2. PICK unsigned : IsTransaction(unsigned) /\ SignedAs(tx, unsigned, gob, chain)
  BY CreatedSpends
<1>3. Len(tx.in) \in Nat \ {0} /\ DOMAIN tx.in = 1..Len(tx.in)
  BY <1>1 DEF SpendsFrom, IsTransaction
<1>4. 1 \in DOMAIN tx.in /\ tx.in[1] \in Range(tx.in)
  BY <1>3 DEF Range
<1>5. ~IsCoinbase(tx)
  <2>1. tx.in[1].vout \in Nat
    BY <1>1, <1>4 DEF SpendsFrom
  <2> QED
    BY <2>1 DEF IsCoinbase
<1>6. ASSUME Len(tx.in) # 1 PROVE FALSE
  <2>1. /\ Len(tx.in) >= 2 /\ 2 \in DOMAIN tx.in
        /\ Len(unsigned.in) >= 2 /\ 1 \in DOMAIN unsigned.in /\ 2 \in DOMAIN unsigned.in
    <3>1. Len(unsigned.in) = Len(tx.in) /\ DOMAIN unsigned.in = 1..Len(unsigned.in)
      BY <1>2 DEF SignedAs, IsTransaction
    <3>2. \A n \in Nat \ {0} : n # 1 => n >= 2
      OBVIOUS
    <3>3. Len(tx.in) >= 2
      BY <1>3, <1>6, <3>2
    <3>4. \A n \in Nat : n >= 2 => 1 \in 1..n /\ 2 \in 1..n
      OBVIOUS
    <3> QED
      BY <1>3, <3>1, <3>3, <3>4
  <2>2. tx.in[2].sig = <<tx.in[2].key, Digests(gob, tx, chain, TRUE)[2]>>
    BY <1>5, <2>1 DEF VerifyTransaction
  <2>3. tx.in[2].sig = <<unsigned.in[2].key, Digests(gob, unsigned, chain, FALSE)[2]>>
    BY <1>2, <2>1 DEF SignedAs
  <2>4. Digests(gob, tx, chain, TRUE)[2] = Digests(gob, unsigned, chain, FALSE)[2]
    <3>1. \A a, b, c, d : <<a, b>> = <<c, d>> => b = d
      OBVIOUS
    <3> QED
      BY <2>2, <2>3, <3>1
  <2>5. SecondOver(Digests(gob, tx, chain, TRUE), gob, Empty)
    <3>1. PICK wipe \in BOOLEAN : wipe = TRUE
      OBVIOUS
    <3>2. SecondOver(Digests(gob, tx, chain, wipe), gob,
                     IF wipe THEN Empty ELSE KeyAt(tx, chain, 1))
      BY <1>1, <2>1, SecondDigest
    <3> QED
      BY <3>1, <3>2
  <2>6. SecondOver(Digests(gob, unsigned, chain, FALSE), gob, KeyAt(unsigned, chain, 1))
    <3>1. PICK wipe \in BOOLEAN : wipe = FALSE
      OBVIOUS
    <3>2. SecondOver(Digests(gob, unsigned, chain, wipe), gob,
                     IF wipe THEN Empty ELSE KeyAt(unsigned, chain, 1))
      BY <1>2, <2>1, SecondDigest
    <3> QED
      BY <3>1, <3>2
  <2>7. KeyAt(unsigned, chain, 1) = Empty
    <3>1. PICK wiped : /\ Digests(gob, tx, chain, TRUE)[2] = Hash(gob, wiped)
                       /\ wiped.in[1].key = Empty
      BY <2>5 DEF SecondOver
    <3>2. PICK kept : /\ Digests(gob, unsigned, chain, FALSE)[2] = Hash(gob, kept)
                      /\ kept.in[1].key = KeyAt(unsigned, chain, 1)
      BY <2>6 DEF SecondOver
    <3>3. \A c, d : Hash(gob, c) = Hash(gob, d) => c = d
      BY DEF Hash
    <3> QED
      BY <2>4, <3>1, <3>2, <3>3
  <2>8. PICK source \in T : Holds(source, tx.in[1], PublickeyHash(key))
    BY <1>1, <1>4 DEF SpendsFrom
  <2>9. Holds(FindTxByID(chain, tx.in[1].txid), tx.in[1], PublickeyHash(key))
    BY <2>8, FoundHolds
  <2>10. KeyAt(unsigned, chain, 1) = PublickeyHash(key)
    BY <1>2, <2>1, <2>9 DEF KeyAt, SignedAs, Holds
  <2>11. PublickeyHash(key) # Empty
    BY DEF PublickeyHash, Empty
  <2> QED
    BY <2>7, <2>10, <2>11
<1> QED
  BY <1>5, <1>6

-----------------------------------------------------------------------------
(* Counting what a loop keeps *)

\* The number of elements of a sequence that are in Q.
Count(Q, seq) == Cardinality({i \in DOMAIN seq : seq[i] \in Q})

\* What one element adds to a count.
One(Q, x) == IF x \in Q THEN 1 ELSE 0

\* recordUnspent needs no context.
recordNext(nothing, acc, tx) == recordUnspent(acc, tx)

Filtering == INSTANCE FoldTheorems WITH op <- keepMember
Recording == INSTANCE FoldTheorems WITH op <- recordNext

\* FoldLeft of a loop is the fold the theorems are about.
LEMMA FilteringFolds ==
  \A S, seq : KeepMembers(S, seq) = Filtering!Fold(S, <<>>, seq)
  BY DEF KeepMembers, Filtering!Fold, Filtering!FoldLeft, Filtering!MapThenFoldSet, Filtering!Max,
         FoldLeft, MapThenFoldSet, Max

LEMMA RecordingFolds ==
  \A nothing, base, txs :
    FoldLeft(recordUnspent, base, txs) = Recording!Fold(nothing, base, txs)
  BY DEF recordNext, Recording!Fold, Recording!FoldLeft, Recording!MapThenFoldSet, Recording!Max,
         FoldLeft, MapThenFoldSet, Max

\* A count is finite, and one more element adds to it if it is in Q.
LEMMA CountAppends ==
  ASSUME NEW Q, NEW A
  PROVE  /\ Count(Q, <<>>) = 0
         /\ \A s \in Seq(A), x \in A :
              /\ Count(Q, s) \in Nat
              /\ Count(Q, Append(s, x)) = Count(Q, s) + One(Q, x)
<1>1. Count(Q, <<>>) = 0
  <2>1. {i \in DOMAIN <<>> : <<>>[i] \in Q} = {}
    OBVIOUS
  <2> QED
    BY <2>1, FS_EmptySet DEF Count
<1>2. ASSUME NEW s \in Seq(A), NEW x \in A
      PROVE  /\ Count(Q, s) \in Nat
             /\ Count(Q, Append(s, x)) = Count(Q, s) + One(Q, x)
  <2> DEFINE n == Len(s)
             hits(t) == {i \in DOMAIN t : t[i] \in Q}
  <2>1. n \in Nat /\ DOMAIN s = 1..n
    OBVIOUS
  <2>2. IsFiniteSet(hits(s))
    <3>1. hits(s) \subseteq 1..n /\ IsFiniteSet(1..n)
      BY <2>1, FS_Interval
    <3> QED
      BY <3>1, FS_Subset
  <2>3. hits(Append(s, x)) = IF x \in Q THEN hits(s) \cup {n + 1} ELSE hits(s)
    <3>1. /\ DOMAIN Append(s, x) = 1..n + 1 /\ Append(s, x)[n + 1] = x
          /\ \A i \in 1..n : Append(s, x)[i] = s[i]
      OBVIOUS
    <3>2. \A i : i \in 1..n + 1 <=> i \in 1..n \/ i = n + 1
      BY <2>1
    <3> QED
      BY <2>1, <3>1, <3>2
  <2>4. n + 1 \notin hits(s)
    BY <2>1
  <2> HIDE DEF hits
  <2>5. Cardinality(hits(s)) \in Nat
    BY <2>2, FS_CardinalityType
  <2>6. Cardinality(hits(s) \cup {n + 1}) = Cardinality(hits(s)) + 1
    BY <2>2, <2>4, FS_AddElement
  <2>7. Count(Q, s) = Cardinality(hits(s)) /\ Count(Q, Append(s, x)) = Cardinality(hits(Append(s, x)))
    BY DEF Count, hits
  <2> QED
    BY <2>3, <2>5, <2>6, <2>7 DEF One
<1> QED
  BY <1>1, <1>2

\* Counts of two sequences add up.
LEMMA CountConcat ==
  ASSUME NEW Q, NEW A, NEW s \in Seq(A)
  PROVE  \A t \in Seq(A) : Count(Q, s \o t) = Count(Q, s) + Count(Q, t)
<1>1. \A u \in Seq(A), y \in A :
        /\ Count(Q, u) \in Nat
        /\ Count(Q, Append(u, y)) = Count(Q, u) + One(Q, y)
  BY CountAppends
<1> DEFINE S == {t \in Seq(A) : Count(Q, s \o t) = Count(Q, s) + Count(Q, t)}
<1>2. <<>> \in S
  <2>1. Count(Q, s) \in Nat
    <3>1. CASE s = <<>>
      BY <3>1, CountAppends
    <3>2. CASE s # <<>>
      <4>1. \E x : x \in A
        BY <3>2
      <4> QED
        BY <4>1, CountAppends
    <3> QED
      BY <3>1, <3>2
  <2>2. s \o <<>> = s /\ <<>> \in Seq(A)
    OBVIOUS
  <2> QED
    BY <2>1, <2>2, CountAppends
<1>3. ASSUME NEW t \in Seq(A), NEW x \in A, t \in S PROVE Append(t, x) \in S
  <2>1. Count(Q, s \o t) = Count(Q, s) + Count(Q, t)
    BY <1>3
  <2>2. s \o Append(t, x) = Append(s \o t, x) /\ s \o t \in Seq(A) /\ Append(t, x) \in Seq(A)
    OBVIOUS
  <2> HIDE DEF S
  <2>3. PICK c \in Seq(A) : c = s \o t
    BY <2>2
  <2>4. /\ Count(Q, c) \in Nat
        /\ Count(Q, Append(c, x)) = Count(Q, c) + One(Q, x)
    BY <1>1
  <2>5. /\ Count(Q, t) \in Nat
        /\ Count(Q, Append(t, x)) = Count(Q, t) + One(Q, x)
    BY <1>1
  <2>6. Count(Q, s) \in Nat
    BY <1>1
  <2>7. Count(Q, s \o Append(t, x)) = Count(Q, s) + Count(Q, Append(t, x))
    BY <2>1, <2>2, <2>3, <2>4, <2>5, <2>6 DEF One
  <2> QED
    BY <2>2, <2>7 DEF S
<1> HIDE DEF S
<1>4. \A t \in Seq(A) : t \in S
  BY <1>2, <1>3, SeqInduct
<1> QED
  BY <1>4 DEF S

\* A count is a number, also that of nothing.
LEMMA CountInNat ==
  ASSUME NEW Q, NEW A, NEW s \in Seq(A)
  PROVE  Count(Q, s) \in Nat
<1>1. CASE s = <<>>
  BY <1>1, CountAppends
<1>2. CASE s # <<>>
  <2>1. s[1] \in A
    BY <1>2
  <2> QED
    BY <2>1, CountAppends
<1> QED
  BY <1>1, <1>2

\* Keeping the members of S keeps those counted that are in S.
KeepsCount(S, A, Q, s) ==
    /\ KeepMembers(S, s) \in Seq(A \cap S)
    /\ Count(Q, KeepMembers(S, s)) = Count(Q \cap S, s)

LEMMA KeepMembersCount ==
  ASSUME NEW S, NEW A, NEW Q
  PROVE  \A s \in Seq(A) : KeepsCount(S, A, Q, s)
<1> DEFINE E == {s \in Seq(A) : /\ KeepMembers(S, s) \in Seq(A \cap S)
                                /\ Count(Q, KeepMembers(S, s)) = Count(Q \cap S, s)}
<1>1. <<>> \in E
  <2>1. KeepMembers(S, <<>>) = <<>>
    BY FilteringFolds, Filtering!FoldOfNothing
  <2>2. <<>> \in Seq(A) /\ <<>> \in Seq(A \cap S)
    OBVIOUS
  <2>3. Count(Q, <<>>) = 0 /\ Count(Q \cap S, <<>>) = 0
    BY CountAppends
  <2> QED
    BY <2>1, <2>2, <2>3
<1>2. ASSUME NEW s \in Seq(A), NEW x \in A, s \in E PROVE Append(s, x) \in E
  <2> DEFINE kept == KeepMembers(S, s)
             more == KeepMembers(S, Append(s, x))
  <2>1. more = IF x \in S THEN Append(kept, x) ELSE kept
    <3>1. more = keepMember(S, kept, x)
      BY FilteringFolds, Filtering!FoldAppends
    <3> QED
      BY <3>1 DEF keepMember
  <2>2. kept \in Seq(A \cap S) /\ Count(Q, kept) = Count(Q \cap S, s)
    BY <1>2
  <2> HIDE DEF kept, more
  <2>3. PICK both : both = Q \cap S
    OBVIOUS
  <2>4. /\ Count(both, Append(s, x)) = Count(both, s) + One(both, x)
        /\ Count(both, s) \in Nat
    BY CountAppends
  <2>5. more \in Seq(A \cap S)
    BY <2>1, <2>2
  <2>6. Count(Q, more) = Count(Q \cap S, Append(s, x))
    <3>1. CASE x \in S
      <4>1. x \in A \cap S
        BY <3>1
      <4>2. PICK B : B = A \cap S
        OBVIOUS
      <4>3. kept \in Seq(B) /\ x \in B
        BY <2>2, <4>1, <4>2
      <4>4. Count(Q, Append(kept, x)) = Count(Q, kept) + One(Q, x)
        BY <4>3, CountAppends
      <4> QED
        BY <2>1, <2>2, <2>3, <2>4, <3>1, <4>4 DEF One
    <3>2. CASE x \notin S
      BY <2>1, <2>2, <2>3, <2>4, <3>2 DEF One
    <3> QED
      BY <3>1, <3>2
  <2>7. Append(s, x) \in Seq(A)
    OBVIOUS
  <2> QED
    BY <2>5, <2>6, <2>7 DEF more
<1> HIDE DEF E
<1>3. \A s \in Seq(A) : s \in E
  BY <1>1, <1>2, SeqInduct
<1> QED
  BY <1>3 DEF E, KeepsCount

\* All elements count if they are in Q, and none if none is.
LEMMA CountAllOrNone ==
  ASSUME NEW A, NEW s \in Seq(A), NEW Q
  PROVE  /\ A \subseteq Q => Count(Q, s) = Len(s)
         /\ A \cap Q = {} => Count(Q, s) = 0
<1>1. ASSUME A \subseteq Q PROVE Count(Q, s) = Len(s)
  <2>1. {i \in DOMAIN s : s[i] \in Q} = 1..Len(s) /\ Len(s) \in Nat
    BY <1>1
  <2>2. PICK n \in Nat : n = Len(s)
    BY <2>1
  <2>3. Cardinality(1..n) = n
    BY FS_Interval
  <2> QED
    BY <2>1, <2>2, <2>3 DEF Count
<1>2. ASSUME A \cap Q = {} PROVE Count(Q, s) = 0
  <2>1. {i \in DOMAIN s : s[i] \in Q} = {}
    BY <1>2
  <2> QED
    BY <2>1, FS_EmptySet DEF Count
<1> QED
  BY <1>1, <1>2

-----------------------------------------------------------------------------
(* What the two walks agree on *)

\* Every input names an output of a transaction in T and its sender's key.
AllKeyed(T) ==
    \A tx \in T : ~IsCoinbase(tx) =>
        \A i \in DOMAIN tx.in : \E s \in T : Holds(s, tx.in[i], PublickeyHash(tx.in[i].key))

\* What is recorded as spent by everybody and by one key: of the outputs
\* locked to that key the same.
Agree(all, mine, T, pkh) ==
    /\ mine \subseteq all
    /\ \A tx \in T : \A v \in 0..Len(tx.out) - 1 :
         tx.out[v + 1].pkh = pkh /\ <<tx.id, v>> \in all => <<tx.id, v>> \in mine

\* The outputs left, by index, that are locked to a key.
LeftFor(pkh, tx, spent) ==
    {v \in UnspentIndices(tx, spent) : CanBeUnlockedWith(tx.out[v + 1], pkh)}

\* Then the same outputs of each transaction are left for that key.
LEMMA SameLeft ==
  ASSUME NEW T, NEW pkh, NEW all, NEW mine, Agree(all, mine, T, pkh), NEW tx \in T
  PROVE  LeftFor(pkh, tx, all) = LeftFor(pkh, tx, mine)
<1>1. \A v \in LeftFor(pkh, tx, all) : v \in LeftFor(pkh, tx, mine)
  BY DEF LeftFor, UnspentIndices, Agree
<1>2. \A v \in LeftFor(pkh, tx, mine) : v \in LeftFor(pkh, tx, all)
  BY DEF LeftFor, UnspentIndices, Agree, CanBeUnlockedWith
<1>3. /\ LeftFor(pkh, tx, all) \subseteq 0..Len(tx.out) - 1
      /\ LeftFor(pkh, tx, mine) \subseteq 0..Len(tx.out) - 1
  BY DEF LeftFor, UnspentIndices
<1> QED
  BY <1>1, <1>2

\* One more transaction keeps the records in agreement: the key in an input
\* is that of the output it names.
LEMMA AgreementKept ==
  ASSUME NEW T, \A s \in T : WellFormed(s), AllKeyed(T), NEW pkh, NEW all, NEW mine,
         Agree(all, mine, T, pkh), NEW tx \in T
  PROVE  Agree(all \cup SpentBy(tx, LAMBDA input : TRUE),
               mine \cup SpentBy(tx, LAMBDA input : CanUnlockOutputWith(input, pkh)), T, pkh)
<1> DEFINE more == SpentBy(tx, LAMBDA input : TRUE)
           ours == SpentBy(tx, LAMBDA input : CanUnlockOutputWith(input, pkh))
<1>1. ours \subseteq more
  BY DEF SpentBy
<1>2. ASSUME NEW s \in T, NEW v \in 0..Len(s.out) - 1, s.out[v + 1].pkh = pkh,
             <<s.id, v>> \in more
      PROVE  <<s.id, v>> \in ours
  <2>1. PICK i \in DOMAIN tx.in : <<s.id, v>> = <<tx.in[i].txid, tx.in[i].vout>>
    BY <1>2 DEF SpentBy
  <2>2. ~IsCoinbase(tx)
    BY <1>2 DEF SpentBy
  <2>3. PICK u \in T : Holds(u, tx.in[i], PublickeyHash(tx.in[i].key))
    BY <2>2 DEF AllKeyed
  <2>4. tx.in[i].txid = s.id /\ tx.in[i].vout = v
    BY <2>1
  <2>5. u.id = s.id /\ u.out = s.out
    BY <2>3, <2>4 DEF Holds, WellFormed
  <2>6. CanUnlockOutputWith(tx.in[i], pkh)
    BY <1>2, <2>3, <2>4, <2>5 DEF Holds, CanUnlockOutputWith
  <2> QED
    BY <2>1, <2>2, <2>6 DEF SpentBy
<1> HIDE DEF more, ours
<1>3. Agree(all \cup more, mine \cup ours, T, pkh)
  BY <1>1, <1>2 DEF Agree
<1> QED
  BY <1>3 DEF more, ours

\* What recordUnspent appends for a transaction.
Recorded(tx, left) ==
    LET kept == KeepMembers({o \in Range(OutputsOf(tx)) : o.vout \in left}, OutputsOf(tx))
    IN  [k \in DOMAIN kept |-> kept[k].output]

\* It holds an output locked to a key for each of them that is left.
LEMMA RecordedCount ==
  ASSUME NEW tx, WellFormed(tx), NEW spent, NEW pkh, NEW Q,
         \A o \in Range(tx.out) : o \in Q <=> o.pkh = pkh
  PROVE  /\ Recorded(tx, UnspentIndices(tx, spent)) \in Seq(Range(tx.out))
         /\ Count(Q, Recorded(tx, UnspentIndices(tx, spent)))
              = Cardinality(LeftFor(pkh, tx, spent))
<1> DEFINE n == Len(tx.out)
           left == UnspentIndices(tx, spent)
           all  == OutputsOf(tx)
           A == Range(all)
           S == {o \in A : o.vout \in left}
           R == {o \in A : o.output \in Q}
           kept == KeepMembers(S, all)
           outs == Recorded(tx, left)
<1>1. n \in Nat /\ DOMAIN tx.out = 1..n
  BY DEF WellFormed
<1>2. /\ DOMAIN all = 1..n /\ all = [i \in 1..n |-> all[i]]
      /\ \A i \in 1..n : /\ all[i].output = tx.out[i] /\ all[i].vout = i - 1
                         /\ tx.out[i] \in Range(tx.out)
  BY <1>1 DEF OutputsOf, Range
<1>3. all \in Seq(A)
  <2>1. \A i \in 1..n : all[i] \in A
    BY <1>2 DEF Range
  <2> HIDE DEF A, all
  <2> QED
    BY <1>1, <1>2, <2>1
<1>4. \A o \in A : o.output \in Range(tx.out)
  BY <1>2 DEF Range
<1>5. kept \in Seq(A \cap S) /\ Count(R, kept) = Count(R \cap S, all)
  <2> HIDE DEF A, all, S, R
  <2>1. KeepsCount(S, A, R, all)
    BY <1>3, KeepMembersCount
  <2> QED
    BY <2>1 DEF KeepsCount
<1>6. outs = [k \in DOMAIN kept |-> kept[k].output]
  BY DEF Recorded
<1>7. \A k \in DOMAIN kept : kept[k] \in A /\ kept[k].output \in Range(tx.out)
  <2> HIDE DEF A, S, all, kept
  <2> QED
    BY <1>4, <1>5
<1>8. outs \in Seq(Range(tx.out)) /\ DOMAIN outs = DOMAIN kept
  <2>1. DOMAIN kept = 1..Len(kept) /\ Len(kept) \in Nat
    <3> HIDE DEF A, S, all, kept
    <3> QED
      BY <1>5
  <2> HIDE DEF kept, outs
  <2> QED
    BY <1>6, <1>7, <2>1
<1>9. Count(Q, outs) = Count(R, kept)
  <2>1. \A k \in DOMAIN kept : outs[k] \in Q <=> kept[k] \in R
    <3> HIDE DEF A, S, all, kept, outs
    <3> QED
      BY <1>6, <1>7 DEF R
  <2>2. {k \in DOMAIN outs : outs[k] \in Q} = {k \in DOMAIN kept : kept[k] \in R}
    <3> HIDE DEF R, kept, outs
    <3> QED
      BY <1>8, <2>1
  <2> HIDE DEF R, kept, outs
  <2> QED
    BY <2>2 DEF Count
<1> DEFINE hits == {i \in 1..n : all[i] \in R \cap S}
           mine == LeftFor(pkh, tx, spent)
<1>10. Count(R \cap S, all) = Cardinality(hits)
  BY <1>2 DEF Count
<1>11. \A i \in 1..n : i \in hits <=> i - 1 \in mine
  <2> TAKE i \in 1..n
  <2>1. all[i] \in A /\ all[i].output = tx.out[i] /\ all[i].vout = i - 1
    BY <1>2 DEF Range
  <2>2. all[i] \in R <=> tx.out[i].pkh = pkh
    <3> HIDE DEF A, all
    <3> QED
      BY <1>2, <2>1
  <2>3. all[i] \in S <=> i - 1 \in left
    <3> HIDE DEF A, all, left
    <3> QED
      BY <2>1
  <2>4. i - 1 \in mine <=> i - 1 \in left /\ tx.out[i].pkh = pkh
    <3>1. (i - 1) + 1 = i
      BY <1>1
    <3> QED
      BY <3>1 DEF LeftFor, CanBeUnlockedWith
  <2> HIDE DEF R, S, all, left, mine
  <2> QED
    BY <2>2, <2>3, <2>4
<1>12. mine \subseteq 0..n - 1
  BY DEF LeftFor, UnspentIndices
<1>13. hits \subseteq 1..n
  OBVIOUS
<1> HIDE DEF hits, mine
<1>14. IsFiniteSet(hits)
  <2>1. IsFiniteSet(1..n)
    BY <1>1, FS_Interval
  <2> QED
    BY <1>13, <2>1, FS_Subset
<1>15. ExistsBijection(hits, mine)
  <2> DEFINE f == [i \in hits |-> i - 1]
  <2>1. \A i \in hits : f[i] \in mine
    BY <1>11, <1>13
  <2>2. \A i, j \in hits : f[i] = f[j] => i = j
    BY <1>1, <1>13
  <2>3. \A v \in mine : v + 1 \in hits /\ f[v + 1] = v
    <3> TAKE v \in mine
    <3>1. v + 1 \in 1..n /\ (v + 1) - 1 = v
      BY <1>1, <1>12
    <3>2. v + 1 \in hits
      BY <1>11, <3>1
    <3> QED
      BY <3>1, <3>2
  <2>4. f \in [hits -> mine]
    BY <2>1
  <2> HIDE DEF f
  <2>5. f \in Injection(hits, mine)
    BY <2>2, <2>4 DEF Injection, IsInjective
  <2>6. f \in Surjection(hits, mine)
    BY <2>3, <2>4 DEF Surjection
  <2>7. f \in Bijection(hits, mine)
    BY <2>5, <2>6 DEF Bijection
  <2> QED
    BY <2>7 DEF ExistsBijection
<1>16. Cardinality(hits) = Cardinality(mine)
  BY <1>14, <1>15, FS_Bijection
<1> QED
  BY <1>5, <1>8, <1>9, <1>10, <1>16 DEF mine

\* The outputs of the transactions in T that are locked to a key.
LockedTo(T, pkh) == {o \in UNION {Range(tx.out) : tx \in T} : o.pkh = pkh}

\* The two walks have come as far: what they record as spent agrees, and for
\* each ID as many outputs locked to the key are unspent as its transactions
\* were found.
InStep(all, mine, T, pkh) ==
    /\ Agree(all.spent, mine.spent, T, pkh)
    /\ mine.found \in Seq(T)
    /\ \A id : /\ OutputsAt(all.utxo, id) \in Seq(UNION {Range(tx.out) : tx \in T})
               /\ Count(LockedTo(T, pkh), OutputsAt(all.utxo, id))
                    = Count({tx \in T : tx.id = id}, mine.found)

\* They stay in step over the next transaction.
LEMMA NextInStep ==
  ASSUME NEW T, \A s \in T : WellFormed(s), AllKeyed(T), NEW pkh, NEW all, NEW mine,
         InStep(all, mine, T, pkh), NEW tx \in T
  PROVE  InStep(recordUnspent(all, tx), visitTransaction(pkh, mine, tx), T, pkh)
<1> DEFINE Q == LockedTo(T, pkh)
           O == UNION {Range(s.out) : s \in T}
           left == LeftFor(pkh, tx, mine.spent)
           n == Cardinality(left)
           again == [k \in 1..n |-> tx]
           outs == Recorded(tx, UnspentIndices(tx, all.spent))
           kept == KeepMembers({o \in Range(OutputsOf(tx)) : o.vout \in UnspentIndices(tx, all.spent)},
                               OutputsOf(tx))
           all2 == recordUnspent(all, tx)
           mine2 == visitTransaction(pkh, mine, tx)
<1>1. /\ all2.spent = all.spent \cup SpentBy(tx, LAMBDA input : TRUE)
      /\ all2.utxo = IF kept = <<>> THEN all.utxo
                     ELSE [id \in DOMAIN all.utxo \cup {tx.id} |->
                             IF id = tx.id THEN OutputsAt(all.utxo, tx.id) \o outs ELSE all.utxo[id]]
  BY DEF recordUnspent, Recorded
<1>2. /\ mine2.spent = mine.spent \cup SpentBy(tx, LAMBDA input : CanUnlockOutputWith(input, pkh))
      /\ mine2.found = mine.found \o again
  BY DEF visitTransaction, LeftFor
<1>3. Agree(all2.spent, mine2.spent, T, pkh)
  <2>1. Agree(all.spent, mine.spent, T, pkh)
    BY DEF InStep
  <2>2. Agree(all.spent \cup SpentBy(tx, LAMBDA input : TRUE),
              mine.spent \cup SpentBy(tx, LAMBDA input : CanUnlockOutputWith(input, pkh)), T, pkh)
    BY <2>1, AgreementKept
  <2> HIDE DEF all2, mine2
  <2> QED
    BY <1>1, <1>2, <2>2
<1>4. \A o \in Range(tx.out) : o \in Q <=> o.pkh = pkh
  BY DEF LockedTo
<1>5. Range(tx.out) \subseteq O
  OBVIOUS
<1>6. outs \in Seq(Range(tx.out)) /\ Count(Q, outs) = n
  <2>1. LeftFor(pkh, tx, all.spent) = left
    BY SameLeft DEF InStep
  <2> HIDE DEF Q
  <2>2. /\ Recorded(tx, UnspentIndices(tx, all.spent)) \in Seq(Range(tx.out))
        /\ Count(Q, Recorded(tx, UnspentIndices(tx, all.spent)))
             = Cardinality(LeftFor(pkh, tx, all.spent))
    BY <1>4, RecordedCount
  <2> QED
    BY <2>1, <2>2
<1>7. outs \in Seq(O)
  <2> HIDE DEF outs, O
  <2> QED
    BY <1>5, <1>6
<1>8. n \in Nat
  <2>1. left \subseteq 0..Len(tx.out) - 1 /\ Len(tx.out) \in Nat
    BY DEF LeftFor, UnspentIndices, WellFormed
  <2>2. IsFiniteSet(0..Len(tx.out) - 1)
    BY <2>1, FS_Interval
  <2> HIDE DEF left
  <2>3. IsFiniteSet(left)
    BY <2>1, <2>2, FS_Subset
  <2> QED
    BY <2>3, FS_CardinalityType
<1> HIDE DEF n, outs, all2, mine2, Q, O, kept
<1>9. kept = <<>> => outs = <<>>
  <2>1. outs = [k \in DOMAIN kept |-> kept[k].output]
    BY DEF outs, kept, Recorded
  <2> QED
    BY <2>1
<1>10. again \in Seq(T) /\ Len(again) = n /\ again \in Seq({tx})
  BY <1>8
<1> HIDE DEF again
<1>11. mine2.found \in Seq(T)
  BY <1>2, <1>10 DEF InStep
<1>12. ASSUME NEW id
       PROVE  /\ OutputsAt(all2.utxo, id) \in Seq(O)
              /\ Count(Q, OutputsAt(all2.utxo, id)) = Count({s \in T : s.id = id}, mine2.found)
  <2> DEFINE F == {s \in T : s.id = id}
             had == OutputsAt(all.utxo, id)
  <2>1. had \in Seq(O) /\ Count(Q, had) = Count(F, mine.found)
    BY DEF InStep, O, Q
  <2>2. Count(F, mine2.found) = Count(F, mine.found) + Count(F, again)
    <3>1. mine.found \in Seq(T)
      BY DEF InStep
    <3> HIDE DEF F
    <3> QED
      BY <1>2, <1>10, <3>1, CountConcat
  <2>3. Count(Q, had) \in Nat
    BY <2>1, CountInNat
  <2>4. CASE id = tx.id
    <3>1. {tx} \subseteq F
      BY <2>4
    <3> HIDE DEF F
    <3>2. Count(F, again) = n
      BY <1>10, <3>1, CountAllOrNone
    <3>3. OutputsAt(all2.utxo, id) = had \o outs
      <4>1. CASE kept = <<>>
        <5>1. all2.utxo = all.utxo /\ outs = <<>>
          BY <1>1, <1>9, <4>1
        <5> HIDE DEF had
        <5>2. had \o <<>> = had
          BY <2>1
        <5> QED
          BY <5>1, <5>2 DEF had
      <4>2. CASE kept # <<>>
        BY <1>1, <2>4, <4>2 DEF OutputsAt
      <4> QED
        BY <4>1, <4>2
    <3> HIDE DEF had
    <3>4. had \o outs \in Seq(O)
      BY <1>7, <2>1
    <3>5. Count(Q, had \o outs) = Count(Q, had) + Count(Q, outs)
      BY <1>7, <2>1, CountConcat
    <3> QED
      BY <1>6, <2>1, <2>2, <3>2, <3>3, <3>4, <3>5 DEF F
  <2>5. CASE id # tx.id
    <3>1. {tx} \cap F = {}
      BY <2>5
    <3> HIDE DEF F
    <3>2. Count(F, again) = 0
      BY <1>10, <3>1, CountAllOrNone
    <3>3. OutputsAt(all2.utxo, id) = had
      BY <1>1, <2>5 DEF OutputsAt
    <3> HIDE DEF had
    <3> QED
      BY <2>1, <2>2, <2>3, <3>2, <3>3 DEF F
  <2> QED
    BY <2>4, <2>5
<1> QED
  BY <1>3, <1>11, <1>12 DEF InStep, Q, O, all2, mine2

\* The members of the two folds, from the base over the transactions.
IsRecording(run, nothing, base, txs) ==
    /\ run[0] = base
    /\ \A n \in 1..Len(txs) : run[n] = recordNext(nothing, run[n - 1], txs[n])
    /\ Recording!Fold(nothing, base, txs) = run[Len(txs)]

IsFinding(run, pkh, base, txs) ==
    /\ run[0] = base
    /\ \A n \in 1..Len(txs) : run[n] = visitTransaction(pkh, run[n - 1], txs[n])
    /\ Finding!Fold(pkh, base, txs) = run[Len(txs)]

\* There are such runs.
LEMMA RecordingRuns ==
  ASSUME NEW nothing, NEW base, NEW T, NEW txs \in Seq(T)
  PROVE  \E run : IsRecording(run, nothing, base, txs)
BY Recording!FoldRuns DEF IsRecording

LEMMA FindingRuns ==
  ASSUME NEW pkh, NEW base, NEW T, NEW txs \in Seq(T)
  PROVE  \E run : IsFinding(run, pkh, base, txs)
BY Finding!FoldRuns DEF IsFinding

\* Over the whole chain, then.
WalksAgree(chain, T, pkh) ==
    /\ FindUnspendTransaction(chain, pkh) \in Seq(T)
    /\ \A id :
         /\ OutputsAt(FindAllUTXO(chain), id) \in Seq(UNION {Range(tx.out) : tx \in T})
         /\ Count(LockedTo(T, pkh), OutputsAt(FindAllUTXO(chain), id))
              = Count({tx \in T : tx.id = id}, FindUnspendTransaction(chain, pkh))

LEMMA WalksInStep ==
  ASSUME NEW chain, NEW T, Visited(chain) \in Seq(T), \A s \in T : WellFormed(s), AllKeyed(T),
         NEW pkh
  PROVE  WalksAgree(chain, T, pkh)
<1> DEFINE txs == Visited(chain)
           N == Len(txs)
           all0 == [utxo |-> <<>>, spent |-> {}]
           mine0 == [found |-> <<>>, spent |-> {}]
<1>1. N \in Nat /\ \A n \in 1..N : txs[n] \in T
  OBVIOUS
<1>2. txs \in Seq(T)
  OBVIOUS
<1> HIDE DEF txs, all0, mine0
<1>3. PICK all : IsRecording(all, pkh, all0, txs)
  BY <1>2, RecordingRuns
<1>4. PICK mine : IsFinding(mine, pkh, mine0, txs)
  BY <1>2, FindingRuns
<1>5. /\ FindAllUTXO(chain) = all[N].utxo
      /\ FindUnspendTransaction(chain, pkh) = mine[N].found
  BY <1>3, <1>4, RecordingFolds, FindingFolds
     DEF txs, all0, mine0, IsRecording, IsFinding, FindAllUTXO, FindUnspendTransaction
<1> DEFINE S == {n \in 0..N : InStep(all[n], mine[n], T, pkh)}
<1>6. 0 \in S
  <2>1. all[0].spent = {} /\ all[0].utxo = <<>> /\ mine[0].spent = {} /\ mine[0].found = <<>>
    BY <1>3, <1>4 DEF all0, mine0, IsRecording, IsFinding
  <2>2. Agree({}, {}, T, pkh)
    BY DEF Agree
  <2>3. \A id : OutputsAt(<<>>, id) = <<>>
    BY DEF OutputsAt
  <2>4. \A Q : Count(Q, <<>>) = 0
    BY CountAppends
  <2>5. <<>> \in Seq(T) /\ <<>> \in Seq(UNION {Range(tx.out) : tx \in T}) /\ 0 \in 0..N
    BY <1>1
  <2> QED
    BY <2>1, <2>2, <2>3, <2>4, <2>5 DEF InStep
<1>7. ASSUME NEW n \in 0..N-1, n \in S PROVE n + 1 \in S
  <2>1. n + 1 \in 1..N /\ (n + 1) - 1 = n /\ n + 1 \in 0..N
    BY <1>1
  <2>2. /\ all[n + 1] = recordUnspent(all[n], txs[n + 1])
        /\ mine[n + 1] = visitTransaction(pkh, mine[n], txs[n + 1])
    BY <1>3, <1>4, <2>1 DEF txs, recordNext, IsRecording, IsFinding
  <2>3. txs[n + 1] \in T /\ InStep(all[n], mine[n], T, pkh)
    BY <1>1, <1>7, <2>1
  <2>4. InStep(recordUnspent(all[n], txs[n + 1]), visitTransaction(pkh, mine[n], txs[n + 1]), T, pkh)
    BY <2>3, NextInStep
  <2> QED
    BY <2>1, <2>2, <2>4
<1> HIDE DEF S
<1>8. N \in S
  <2>1. \A n \in 0..N : n \in S
    BY <1>1, <1>6, <1>7, UpToInduct
  <2> QED
    BY <1>1, <2>1
<1>9. InStep(all[N], mine[N], T, pkh)
  BY <1>8 DEF S
<1> QED
  BY <1>5, <1>9 DEF InStep, WalksAgree

-----------------------------------------------------------------------------
(* The unspent outputs as a map *)

IsMap(f) == f = [x \in DOMAIN f |-> f[x]]

\* Whatever the chain, FindAllUTXO builds a map.
LEMMA UnspentIsMap ==
  ASSUME NEW chain, NEW T, Visited(chain) \in Seq(T)
  PROVE  IsMap(FindAllUTXO(chain))
<1> DEFINE txs == Visited(chain)
           N == Len(txs)
           none == [utxo |-> <<>>, spent |-> {}]
<1>1. N \in Nat /\ txs \in Seq(T)
  OBVIOUS
<1> HIDE DEF txs, none
<1>2. PICK run : IsRecording(run, 0, none, txs)
  BY <1>1, RecordingRuns
<1>3. FindAllUTXO(chain) = run[N].utxo
  BY <1>2, RecordingFolds DEF txs, none, IsRecording, FindAllUTXO
<1> DEFINE S == {n \in 0..N : IsMap(run[n].utxo)}
<1>4. 0 \in S
  <2>1. run[0].utxo = <<>> /\ 0 \in 0..N
    BY <1>1, <1>2 DEF IsRecording, none
  <2>2. IsMap(<<>>)
    BY DEF IsMap
  <2> QED
    BY <2>1, <2>2
<1>5. ASSUME NEW n \in 0..N-1, n \in S PROVE n + 1 \in S
  <2>1. n + 1 \in 1..N /\ (n + 1) - 1 = n /\ n + 1 \in 0..N
    BY <1>1
  <2>2. run[n + 1] = recordUnspent(run[n], txs[n + 1])
    BY <1>2, <2>1 DEF recordNext, IsRecording
  <2>3. ASSUME NEW acc, NEW tx, IsMap(acc.utxo)
        PROVE  IsMap(recordUnspent(acc, tx).utxo)
    BY <2>3 DEF recordUnspent, IsMap
  <2>4. IsMap(run[n].utxo)
    BY <1>5
  <2> QED
    BY <2>1, <2>2, <2>3, <2>4
<1> HIDE DEF S
<1>6. \A n \in 0..N : n \in S
  BY <1>1, <1>4, <1>5, UpToInduct
<1> QED
  BY <1>1, <1>3, <1>6 DEF S

\* One transaction of UpdateUTXO.
applyTx(nothing, acc, tx) ==
    IF acc = Nil \/ IsCoinbase(tx) THEN acc
    ELSE LET spent == FoldLeft(SpendInput, acc, tx.in)
         IN  IF spent = Nil THEN Nil ELSE (tx.id :> tx.out) @@ spent

Applying == INSTANCE FoldTheorems WITH op <- applyTx

LEMMA ApplyingFolds ==
  \A nothing, utxo, block : UpdateUTXO(utxo, block) = Applying!Fold(nothing, utxo, block.txs)
  BY DEF UpdateUTXO, applyTx, Applying!Fold, Applying!FoldLeft, Applying!MapThenFoldSet,
         Applying!Max, FoldLeft, MapThenFoldSet, Max

\* A block that only rewards its miner leaves the unspent outputs as they are.
LEMMA RewardPassedOver ==
  ASSUME NEW utxo, NEW block, NEW tx, block.txs = <<tx>>, IsCoinbase(tx)
  PROVE  UpdateUTXO(utxo, block) = utxo
<1>1. PICK none : none = <<>>
  OBVIOUS
<1> DEFINE txs == Append(none, tx)
<1>2. block.txs = txs
  BY <1>1
<1>3. PICK T : none \in Seq(T) /\ tx \in T
  <2>1. none \in Seq({tx}) /\ tx \in {tx}
    BY <1>1
  <2> QED
    BY <2>1
<1>4. ASSUME NEW nothing
      PROVE  Applying!Fold(nothing, utxo, txs) = utxo
  <2>1. Applying!Fold(nothing, utxo, txs) = applyTx(nothing, Applying!Fold(nothing, utxo, none), tx)
    BY <1>3, Applying!FoldAppends
  <2>2. Applying!Fold(nothing, utxo, none) = utxo
    BY <1>1, Applying!FoldOfNothing
  <2> QED
    BY <2>1, <2>2 DEF applyTx
<1> QED
  BY <1>2, <1>4, ApplyingFolds

=============================================================================
