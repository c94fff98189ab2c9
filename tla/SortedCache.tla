---------------------------- MODULE SortedCache ----------------------------
(***************************************************************************)
(* What consen_node_cache is for: the transactions waiting for a block, in *)
(* the order of their timestamps, those of one timestamp in the order they *)
(* came; taken out all at once.                                            *)
(***************************************************************************)
EXTENDS Naturals, Sequences, SequencesExt

CONSTANTS Tx, MaxStamp

VARIABLES content,   \* the waiting transactions, in order
          stamp      \* the timestamp of each transaction that came

vars == <<content, stamp>>

Init == content = <<>> /\ stamp = [t \in Tx |-> 0]

\* t goes after the k waiting transactions that are not later.
Add(t, s) ==
  /\ \A i \in DOMAIN content : content[i] # t
  /\ stamp' = [stamp EXCEPT ![t] = s]
  /\ \E k \in 0 .. Len(content) :
       /\ \A i \in DOMAIN content : stamp[content[i]] <= s <=> i <= k
       /\ content' = InsertAt(content, k + 1, t)

Take == content # <<>> /\ content' = <<>> /\ UNCHANGED stamp

Next == Take \/ \E t \in Tx, s \in 1 .. MaxStamp : Add(t, s)

Spec == Init /\ [][Next]_vars
=============================================================================
