------------------------------- MODULE Blocks -------------------------------
(***************************************************************************)
(* What a block is to the world state (src/proto/block.proto): a number    *)
(* and a sequence of transactions, each with what it read and what it      *)
(* writes.  A value of the state is an integrated_value: the value, the    *)
(* number of the block that wrote it and a version the writer chose.  A    *)
(* key that is not there reads as the default integrated_value.            *)
(***************************************************************************)
EXTENDS Naturals, Sequences

CONSTANTS
  Key,
  Value,     \* the values, with the empty one
  NoValue,   \* the empty string
  Block      \* the blocks that the parser may answer

Entry == [value : Value, number : Nat, version : Nat]
Absent == [value |-> NoValue, number |-> 0, version |-> 0]
KeyEntry == [key : Key, entry : Entry]
Transaction == [rd : Seq(KeyEntry), wt : Seq(KeyEntry)]

ASSUME BlockAssumption ==
  /\ NoValue \in Value
  /\ Block \subseteq [number : Nat, txs : Seq(Transaction)]

State == [Key -> Entry]

\* Every read of every transaction of b is what state d holds.
Current(b, d) ==
  \A t \in DOMAIN b.txs : \A r \in DOMAIN b.txs[t].rd :
     d[b.txs[t].rd[r].key] = b.txs[t].rd[r].entry

\* Where b writes k, as pairs of a transaction and a place in its wt_set.
Writes(b, k) == {w \in UNION {{t} \X DOMAIN b.txs[t].wt : t \in DOMAIN b.txs} :
                   b.txs[w[1]].wt[w[2]].key = k}

\* The last of them: of two writes to one key in a batch the later one stays.
LastWrite(b, k) ==
  CHOOSE w \in Writes(b, k) : \A v \in Writes(b, k) : v[1] < w[1] \/ (v[1] = w[1] /\ v[2] <= w[2])

\* State d after the batch of b: what b writes carries b's number.
Written(b, d) ==
  [k \in Key |-> IF Writes(b, k) = {} THEN d[k]
                 ELSE LET w == LastWrite(b, k)
                          e == b.txs[w[1]].wt[w[2]].entry
                      IN  [value |-> e.value, number |-> b.number, version |-> e.version]]

\* Every key that b writes was also read by it, with an older number.
Forward(b) ==
  \A k \in Key : Writes(b, k) # {} =>
     \E t \in DOMAIN b.txs : \E r \in DOMAIN b.txs[t].rd :
        b.txs[t].rd[r].key = k /\ b.txs[t].rd[r].entry.number < b.number

WritesNothing(b) == \A k \in Key : Writes(b, k) = {}
=============================================================================
