----------------------------- MODULE BlockStore -----------------------------
(***************************************************************************)
(* What the block databases of a group of nodes promise, whatever messages *)
(* the nodes exchange: each node holds a growing set of blocks and one of  *)
(* them is its head.  A node either extends its own head with a block      *)
(* nobody holds under that hash, or copies a block another node holds; its *)
(* head moves only to a strictly higher block.                             *)
(***************************************************************************)
EXTENDS Integers

CONSTANTS
    Node,   \* the nodes
    Empty   \* the predecessor of a genesis block

VARIABLES
    held,   \* the blocks of each node
    head    \* the block under "latest" of each node

vars == <<held, head>>

\* Each node starts from a genesis block, its own or a copied one.
Init ==
    /\ head = [n \in Node |-> head[n]]
    /\ held = [n \in Node |-> {head[n]}]
    /\ \A n \in Node : head[n].prev = Empty /\ head[n].height = 0
    /\ \A m, n \in Node : head[m].hash = head[n].hash => head[m] = head[n]

\* Node n adds a new block on top of its head.
Extend(n) ==
    \E b \in held'[n] :
        /\ b.prev = head[n].hash
        /\ b.height = head[n].height + 1
        /\ \A m \in Node : \A c \in held[m] : c.hash # b.hash
        /\ held' = [held EXCEPT ![n] = @ \cup {b}]
        /\ head' = [head EXCEPT ![n] = b]

\* Node n stores a block that node m holds.
Copy(n, m) ==
    \E b \in held[m] :
        /\ held' = [held EXCEPT ![n] = @ \cup {b}]
        /\ head' = [head EXCEPT ![n] = IF b.height > @.height THEN b ELSE @]

Next == \E n \in Node : Extend(n) \/ \E m \in Node : Copy(n, m)

Spec == Init /\ [][Next]_vars

-----------------------------------------------------------------------------

\* A hash names one block in the whole group.
OneBlockPerHash ==
    \A m, n \in Node : \A b \in held[m], c \in held[n] : b.hash = c.hash => b = c

\* The head is a held block and no held block is higher.
HeadIsHighest ==
    \A n \in Node : head[n] \in held[n] /\ \A b \in held[n] : b.height <= head[n].height

\* The predecessor of a block is never lost to the group.
AncestryHeld ==
    \A n \in Node : \A b \in held[n] : b.prev # Empty =>
        \E m \in Node : \E c \in held[m] : c.hash = b.prev /\ c.height + 1 = b.height

=============================================================================
