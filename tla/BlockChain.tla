----------------------------- MODULE BlockChain -----------------------------
(***************************************************************************)
(* What block distribution promises while one process makes the blocks:    *)
(* there is one chain, which grows at its end and never forks, a block's   *)
(* number is how many came before it, and each node's head is a place in   *)
(* the chain that only moves forward while its process lives.              *)
(***************************************************************************)
EXTENDS Naturals, FiniteSets

CONSTANTS
  Node,
  Genesis,   \* what the first block extends
  Content    \* what a block may hold

VARIABLES blocks,  \* the blocks of the chain
          head,    \* the block each node believes to be the last
          life     \* how often each node's process was started again

vars == <<blocks, head, life>>

Init == /\ blocks = {}
        /\ head = [n \in Node |-> Genesis]
        /\ life = [n \in Node |-> 0]

Last == IF blocks = {} THEN Genesis
        ELSE CHOOSE b \in blocks : b.number + 1 = Cardinality(blocks)

Extend(c) ==
  /\ blocks' = blocks \cup {[pre |-> Last, number |-> Cardinality(blocks), txs |-> c]}
  /\ UNCHANGED <<head, life>>

\* Node n moves on to block b, and may pass over others.
Adopt(n, b) == /\ head[n] = Genesis \/ head[n].number < b.number
               /\ head' = [head EXCEPT ![n] = b]
               /\ UNCHANGED <<blocks, life>>

\* A new process knows of no block.
Forget(n) == /\ head' = [head EXCEPT ![n] = Genesis]
             /\ life' = [life EXCEPT ![n] = @ + 1]
             /\ UNCHANGED blocks

Next == \/ \E c \in Content : Extend(c)
        \/ \E n \in Node : Forget(n) \/ \E b \in blocks : Adopt(n, b)

Spec == Init /\ [][Next]_vars
=============================================================================
