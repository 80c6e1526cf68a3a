-------------------------- MODULE BlockStoreProofs --------------------------
(***************************************************************************)
(* What any implementation of BlockStore can rely on: a hash names one     *)
(* block in the whole group, heads are highest, and no ancestor is lost.   *)
(***************************************************************************)
EXTENDS BlockStore, TLAPS

\* The variables are functions on the nodes, and heights are natural numbers.
Shape ==
    /\ held = [n \in Node |-> held[n]]
    /\ head = [n \in Node |-> head[n]]
    /\ \A n \in Node : \A b \in held[n] : b.height \in Nat

Invariant == Shape /\ HeadIsHighest /\ OneBlockPerHash /\ AncestryHeld

\* Every node holds a genesis block and nothing else.
LEMMA InitInvariant == Init => Invariant
  BY DEF Init, Invariant, Shape, HeadIsHighest, OneBlockPerHash, AncestryHeld

\* A node extends its own head.
LEMMA ExtendInvariant ==
  ASSUME Invariant, NEW n \in Node, Extend(n)
  PROVE  Invariant'
<1>1. PICK b \in held'[n] :
        /\ b.prev = head[n].hash
        /\ b.height = head[n].height + 1
        /\ \A m \in Node : \A c \in held[m] : c.hash # b.hash
        /\ held' = [held EXCEPT ![n] = @ \cup {b}]
        /\ head' = [head EXCEPT ![n] = b]
  BY DEF Extend
<1>2. /\ held' = [m \in Node |-> IF m = n THEN held[n] \cup {b} ELSE held[m]]
      /\ head' = [m \in Node |-> IF m = n THEN b ELSE head[m]]
  BY <1>1 DEF Invariant, Shape
<1>3. head[n] \in held[n] /\ head[n].height \in Nat
  BY DEF Invariant, Shape, HeadIsHighest
<1>4. b.height \in Nat /\ b.height > head[n].height
  BY <1>1, <1>3
<1>5. Shape'
  BY <1>2, <1>4 DEF Invariant, Shape
<1>6. HeadIsHighest'
  BY <1>2, <1>3, <1>4 DEF Invariant, Shape, HeadIsHighest
<1>7. OneBlockPerHash'
  BY <1>1, <1>2 DEF Invariant, OneBlockPerHash
<1>8. AncestryHeld'
  BY <1>1, <1>2, <1>3 DEF Invariant, AncestryHeld
<1> QED
  BY <1>5, <1>6, <1>7, <1>8 DEF Invariant

\* A node copies a block.
LEMMA CopyInvariant ==
  ASSUME Invariant, NEW n \in Node, NEW m \in Node, Copy(n, m)
  PROVE  Invariant'
<1>1. PICK b \in held[m] :
        /\ held' = [held EXCEPT ![n] = @ \cup {b}]
        /\ head' = [head EXCEPT ![n] = IF b.height > @.height THEN b ELSE @]
  BY DEF Copy
<1>2. /\ held' = [k \in Node |-> IF k = n THEN held[n] \cup {b} ELSE held[k]]
      /\ head' = [k \in Node |-> IF k = n
                    THEN IF b.height > head[n].height THEN b ELSE head[n] ELSE head[k]]
  BY <1>1 DEF Invariant, Shape
<1>3. head[n] \in held[n] /\ head[n].height \in Nat /\ b.height \in Nat
  BY DEF Invariant, Shape, HeadIsHighest
<1>4. Shape'
  BY <1>2, <1>3 DEF Invariant, Shape
<1>5. HeadIsHighest'
  BY <1>2, <1>3 DEF Invariant, Shape, HeadIsHighest
<1>6. OneBlockPerHash'
  BY <1>2 DEF Invariant, OneBlockPerHash
<1>7. AncestryHeld'
  BY <1>2 DEF Invariant, AncestryHeld
<1> QED
  BY <1>4, <1>5, <1>6, <1>7 DEF Invariant

\* The four parts together are inductive.
LEMMA InvariantHolds == Spec => []Invariant
<1>1. ASSUME Invariant, [Next]_vars
      PROVE  Invariant'
  <2>1. CASE UNCHANGED vars
    BY <1>1, <2>1 DEF vars, Invariant, Shape, HeadIsHighest, OneBlockPerHash, AncestryHeld
  <2> QED
    BY <1>1, <2>1, ExtendInvariant, CopyInvariant DEF Next
<1> QED
  BY <1>1, InitInvariant, PTL DEF Spec

\* Any group of nodes that behaves like BlockStore keeps one block under a
\* hash, although AddBlockBy stores whatever arrives over what is there.
THEOREM StoreHashUnique == Spec => []OneBlockPerHash
  BY InvariantHolds, PTL DEF Invariant

\* And "latest" stays on a highest block of each node.
THEOREM StoreHeadHighest == Spec => []HeadIsHighest
  BY InvariantHolds, PTL DEF Invariant

\* And the predecessor of every block stays in some node's database.
THEOREM StoreAncestry == Spec => []AncestryHeld
  BY InvariantHolds, PTL DEF Invariant

=============================================================================
