---------------------------- MODULE MCStoreNode ----------------------------
(***************************************************************************)
(* StoreNode for TLC: the blocks that the parser may answer.               *)
(***************************************************************************)
EXTENDS StoreNode

At(k, v, number) == [key |-> k, entry |-> [value |-> v, number |-> number, version |-> 0]]
Tx(reads, writes) == [rd |-> reads, wt |-> writes]

\* What is left of a file parses as no transaction at all, more often than not;
\* a block that creates k;
\* one whose second transaction read what its first one is to replace, and which in the
\* end changes no value, only their block numbers,
\* one whose second transaction read what its first one writes,
\* and one that writes without having read.
MCBlock(k, l) == {
  NoBlock,
  [number |-> 1, txs |-> <<Tx(<<At(k, "", 0)>>, <<At(k, "v", 0)>>)>>],
  [number |-> 2, txs |-> <<Tx(<<At(k, "v", 1)>>, <<At(k, "w", 0)>>),
                           Tx(<<At(k, "v", 1), At(l, "", 0)>>, <<At(k, "v", 0), At(l, "", 0)>>)>>],
  [number |-> 3, txs |-> <<Tx(<<At(k, "v", 2)>>, <<At(l, "w", 0)>>),
                           Tx(<<At(l, "w", 3)>>, <<At(k, "w", 0)>>)>>],
  [number |-> 1, txs |-> <<Tx(<<>>, <<At(k, "v", 0)>>)>>]}

Blocks2 == MCBlock("k", "l")
Values2 == {"", "v", "w"}
Keys2 == {"k", "l"}
TwoCases == {<<300, 256, 5>>, <<5, 300>>}
Messages == {[number |-> 0, pre_hash |-> ""], [number |-> 1, pre_hash |-> "h"]}
=============================================================================
