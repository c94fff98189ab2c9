------------------------------ MODULE TxCache ------------------------------
(***************************************************************************)
(* consen_node_cache of one consensus node: the doubly linked list of      *)
(* waiting transactions and the three operations that touch it -           *)
(* insert_tx, run by the brpc workers of SendTxToConsenNode under          *)
(* _tx_mutex; generate_block, run by the thread that distributes blocks;   *)
(* and GetTxFromFollower, run by a brpc worker.  The last two read and     *)
(* clear the list without the mutex, so they are modelled access by access.*)
(*                                                                         *)
(* A cell of the list is named by its transaction.  What a message of a    *)
(* block holds is a matter of its own: generate_block overwrites the       *)
(* pointer that add_txs() returned, so the message stays empty.            *)
(* Following a null pointer, or one to a cell that was deleted, ends the   *)
(* run (up = FALSE): nothing is claimed of what the program does then.     *)
(***************************************************************************)
EXTENDS Naturals, Sequences, FiniteSets

CONSTANTS
  Tx,        \* transactions, each sent to the node at most once
  Null,      \* nullptr
  MaxStamp,  \* bound: timestamps are 1..MaxStamp
  Serial     \* TRUE: no insert runs while the list is read or cleared, nor do two readers

ASSUME TxAssumption == IsFiniteSet(Tx) /\ Null \notin Tx /\ Tx \cap {"first", "back", "front"} = {}
ASSUME StampAssumption == MaxStamp \in Nat \ {0} /\ Serial \in BOOLEAN

VARIABLES
  role,      \* what raft::get_node_role() answers
  heap,      \* per cell: "new" (not linked yet), "live" or "freed"
  stamp,     \* _timestamp of each cell
  next, prev, head, tail,
  size,      \* _tx_size
  ins,       \* the insert that holds _tx_mutex: its cell and where it goes
  pc,        \* what each reader does next
  cur,       \* the pointer each reader walks with
  first,     \* the pointer its walk started from
  rest,      \* tmp of clear_cache
  last,      \* ~flag: this turn of the loop is the last
  body,      \* block_body of the block being made: of each message the transaction in it, or Null
  blocks,    \* the bodies of the blocks made
  up,        \* FALSE once a bad pointer was followed
  (* history, which no action reads: *)
  visited,   \* the cells this round of generate_block has passed over, in order
  rounds,    \* for each block made, the cells its round passed over
  dropped,   \* cells deleted for another LEADER's request
  late       \* transactions whose insert ran while a reader was inside the list

list  == <<heap, stamp, next, prev, head, tail, size>>
local == <<cur, first, rest, last, visited, body>>
vars  == <<role, list, ins, pc, local, blocks, rounds, dropped, late, up>>

Reader == {"distributor", "collector"}
NoInsert == [tx |-> Null, place |-> Null]

Init ==
  /\ role = "FOLLOWER"
  /\ heap = [t \in Tx |-> "new"]
  /\ stamp = [t \in Tx |-> 0]
  /\ next = [t \in Tx |-> Null] /\ prev = [t \in Tx |-> Null]
  /\ head = Null /\ tail = Null /\ size = 0
  /\ ins = NoInsert
  /\ pc = [r \in Reader |-> "idle"]
  /\ cur = [r \in Reader |-> Null] /\ first = [r \in Reader |-> Null]
  /\ rest = [r \in Reader |-> Null] /\ last = [r \in Reader |-> FALSE]
  /\ body = <<>> /\ blocks = <<>>
  /\ visited = <<>> /\ rounds = <<>> /\ dropped = {} /\ late = {}
  /\ up = TRUE

\* Following p is undefined.
Bad(p) == p \notin {t \in Tx : heap[t] = "live"}

Die == up' = FALSE /\ UNCHANGED <<role, list, ins, pc, local, blocks, rounds, dropped, late>>

\* Readers that are inside the list.
Reading == {r \in Reader : pc[r] \notin {"idle", "gather"}}

\* May r, or an insert, go into the list now?
MayEnter(r) == Serial => ins = NoInsert /\ Reading \subseteq {r}
MayInsert == Serial => Reading = {}

\* The node wins its election.
BecomeLeader ==
  /\ up /\ role # "LEADER"
  /\ role' = "LEADER"
  /\ UNCHANGED <<list, ins, pc, local, blocks, rounds, dropped, late, up>>

-----------------------------------------------------------------------------
(* insert_tx: the search for the place, then the linking.                  *)

\* The cells of the search from the tail: following _prev k times.
FromTail[k \in 0 .. Cardinality(Tx)] ==
  IF k = 0 THEN tail
  ELSE LET p == FromTail[k - 1] IN IF p = Null THEN Null ELSE prev[p]

\* mutant: a cell with the same timestamp does not stop it
StopsBefore(s) ==
  LET Stops == {k \in DOMAIN FromTail : Bad(FromTail[k]) \/ stamp[FromTail[k]] < s}
  IN  FromTail[CHOOSE k \in Stops : \A j \in Stops : k <= j]

\* Where the search stops: at the first cell not later than s, or at a bad pointer.
StopsAt(s) ==
  LET Stops == {k \in DOMAIN FromTail : Bad(FromTail[k]) \/ stamp[FromTail[k]] <= s}
  IN  FromTail[CHOOSE k \in Stops : \A j \in Stops : k <= j]

InsertSearch(t, s) ==
  LET To(place) == /\ ins' = [tx |-> t, place |-> place]
                   /\ stamp' = [stamp EXCEPT ![t] = s]
                   /\ late' = IF Reading # {} THEN late \cup {t} ELSE late
                   /\ UNCHANGED <<role, heap, next, prev, head, tail, size, pc, local,
                                  blocks, rounds, dropped, up>>
  IN  /\ up /\ ins = NoInsert /\ heap[t] = "new" /\ MayInsert
      /\ \/ head = Null /\ To("first")
         \/ head # Null /\ Bad(tail) /\ Die
         \/ head # Null /\ ~Bad(tail) /\ s > stamp[tail] /\ To("back")
         \/ /\ head # Null /\ ~Bad(tail) /\ s <= stamp[tail]
            /\ \/ Bad(head) /\ Die
               \/ ~Bad(head) /\ s < stamp[head] /\ To("front")
               \/ ~Bad(head) /\ s >= stamp[head] /\ Bad(StopsAt(s)) /\ Die
               \/ ~Bad(head) /\ s >= stamp[head] /\ ~Bad(StopsAt(s)) /\ To(StopsAt(s))

\* mutant: the mutex is never unlocked
LinkedLocked(t) ==
  /\ heap' = [heap EXCEPT ![t] = "live"]
  /\ size' = size + 1
  /\ UNCHANGED <<role, stamp, ins, pc, local, blocks, rounds, dropped, late, up>>

\* The linking is over: unlock, and answer the client.
Linked(t) ==
  /\ heap' = [heap EXCEPT ![t] = "live"]
  /\ size' = size + 1
  /\ ins' = NoInsert
  /\ UNCHANGED <<role, stamp, pc, local, blocks, rounds, dropped, late, up>>

LinkFirst(t) ==
  /\ ins.place = "first" /\ Linked(t)
  /\ head' = t /\ tail' = t
  /\ UNCHANGED <<next, prev>>

\* mutant: _prev is not set
LinkBackOneWay(t) ==
  /\ ins.place = "back" /\ ~Bad(tail) /\ Linked(t)
  /\ next' = [next EXCEPT ![tail] = t]
  /\ tail' = t
  /\ UNCHANGED <<prev, head>>

LinkBack(t) ==
  /\ ins.place = "back"
  /\ \/ Bad(tail) /\ Die
     \/ /\ ~Bad(tail) /\ Linked(t)
        /\ prev' = [prev EXCEPT ![t] = tail]
        /\ next' = [next EXCEPT ![tail] = t]
        /\ tail' = t
        /\ UNCHANGED head

\* mutant: _head stays
LinkFrontHidden(t) ==
  /\ ins.place = "front" /\ ~Bad(head) /\ Linked(t)
  /\ next' = [next EXCEPT ![t] = head]
  /\ prev' = [prev EXCEPT ![head] = t]
  /\ UNCHANGED <<head, tail>>

LinkFront(t) ==
  /\ ins.place = "front"
  /\ \/ Bad(head) /\ Die
     \/ /\ ~Bad(head) /\ Linked(t)
        /\ next' = [next EXCEPT ![t] = head]
        /\ prev' = [prev EXCEPT ![head] = t]
        /\ head' = t
        /\ UNCHANGED tail

\* The cell after p is followed without a look at whether there is one.
LinkAfter(t, p) ==
  /\ ins.place = p
  /\ \/ Bad(p) /\ Die
     \/ ~Bad(p) /\ Bad(next[p]) /\ Die
     \/ /\ ~Bad(p) /\ ~Bad(next[p]) /\ Linked(t)
        /\ prev' = [prev EXCEPT ![t] = p, ![next[p]] = t]
        /\ next' = [next EXCEPT ![t] = next[p], ![p] = t]
        /\ UNCHANGED <<head, tail>>

InsertLink ==
  /\ up /\ ins # NoInsert
  /\ LET t == ins.tx
     IN  LinkFirst(t) \/ LinkBack(t) \/ LinkFront(t) \/ \E p \in Tx : LinkAfter(t, p)

-----------------------------------------------------------------------------
(* The readers.                                                            *)

\* distribute_block and generate_block up to the round of GetTxFromFollower calls.
StartDistribute ==
  /\ up /\ pc["distributor"] = "idle"
  /\ role = "LEADER" /\ size > 0
  /\ pc' = [pc EXCEPT !["distributor"] = "gather"]
  /\ UNCHANGED <<role, list, ins, local, blocks, rounds, dropped, late, up>>

\* A reader goes into the list: an insert that has its place by now runs beside it.
Overtaken == IF ins = NoInsert THEN late ELSE late \cup {ins.tx}

\* mutant: the block of the round before is filled again
GatherAgain ==
  /\ up /\ pc["distributor"] = "gather" /\ MayEnter("distributor")
  /\ pc' = [pc EXCEPT !["distributor"] = "copy"]
  /\ cur' = [cur EXCEPT !["distributor"] = head]
  /\ late' = Overtaken
  /\ UNCHANGED <<role, list, ins, first, rest, last, visited, body, blocks, rounds, dropped, up>>

\* mutant: waits for a transaction
GatherWaits ==
  /\ up /\ pc["distributor"] = "gather" /\ head # Null
  /\ pc' = [pc EXCEPT !["distributor"] = "copy"]
  /\ cur' = [cur EXCEPT !["distributor"] = head]
  /\ body' = <<>> /\ visited' = <<>>
  /\ late' = Overtaken
  /\ UNCHANGED <<role, list, ins, first, rest, last, blocks, rounds, dropped, up>>

\* The round is over.  No follower ever answers it with a transaction (see Walk), so
\* there is nothing to merge; get_all_tx returns _head.
Gather ==
  /\ up /\ pc["distributor"] = "gather" /\ MayEnter("distributor")
  /\ pc' = [pc EXCEPT !["distributor"] = "copy"]
  /\ cur' = [cur EXCEPT !["distributor"] = head]
  /\ body' = <<>> /\ visited' = <<>>
  /\ late' = Overtaken
  /\ UNCHANGED <<role, list, ins, first, rest, last, blocks, rounds, dropped, up>>

\* mutant: the loop is left before it has passed over _tail
CopyBeforeTail ==
  LET c == cur["distributor"]
  IN  /\ up /\ pc["distributor"] = "copy" /\ ~Bad(c)
      /\ body' = Append(body, Null)
      /\ visited' = Append(visited, c)
      /\ cur' = [cur EXCEPT !["distributor"] = next[c]]
      /\ pc' = [pc EXCEPT !["distributor"] = IF tail \in {c, next[c]} THEN "clear" ELSE "copy"]
      /\ UNCHANGED <<role, list, ins, first, rest, last, blocks, rounds, dropped, late, up>>

\* One turn of the loop of generate_block: a message is added to the body, and the pointer
\* to it is then set to the cell's transaction.  The message has no transaction in it.
Copy ==
  LET c == cur["distributor"]
  IN  /\ up /\ pc["distributor"] = "copy"
      /\ \/ Bad(c) /\ Die
         \/ /\ ~Bad(c)
            /\ body' = Append(body, Null)
            /\ visited' = Append(visited, c)
            /\ cur' = [cur EXCEPT !["distributor"] = next[c]]
            /\ pc' = [pc EXCEPT !["distributor"] = IF c = tail THEN "clear" ELSE "copy"]
            /\ UNCHANGED <<role, list, ins, first, rest, last, blocks, rounds, dropped, late, up>>

\* GetTxFromFollower: a node that is not LEADER walks its list first.
StartCollect ==
  /\ up /\ pc["collector"] = "idle" /\ MayEnter("collector")
  /\ pc' = [pc EXCEPT !["collector"] = IF role = "LEADER" THEN "clear" ELSE "walk"]
  /\ cur' = [cur EXCEPT !["collector"] = head]
  /\ first' = [first EXCEPT !["collector"] = head]
  /\ late' = Overtaken
  /\ UNCHANGED <<role, list, ins, rest, last, visited, body, blocks, rounds, dropped, up>>

\* One turn of its loop, which waits to come back to the first cell.
Walk ==
  LET c == cur["collector"]
  IN  /\ up /\ pc["collector"] = "walk"
      /\ \/ Bad(c) /\ Die
         \/ /\ ~Bad(c)
            /\ cur' = [cur EXCEPT !["collector"] = next[c]]
            /\ pc' = [pc EXCEPT !["collector"] =
                        IF next[c] = first["collector"] THEN "clear" ELSE "walk"]
            /\ UNCHANGED <<role, list, ins, first, rest, last, visited, body, blocks, rounds, dropped, late, up>>

\* One turn of clear_cache: _head is deleted ...
ClearDelete(r) ==
  /\ up /\ pc[r] = "clear"
  /\ \/ Bad(head) /\ Die
     \/ /\ ~Bad(head)
        /\ last' = [last EXCEPT ![r] = (head = tail)]
        /\ rest' = [rest EXCEPT ![r] = next[head]]
        /\ heap' = [heap EXCEPT ![head] = "freed"]
        /\ dropped' = IF r = "collector" THEN dropped \cup {head} ELSE dropped
        /\ pc' = [pc EXCEPT ![r] = "advance"]
        /\ UNCHANGED <<role, stamp, next, prev, head, tail, size, ins, cur, first,
                       visited, body, blocks, rounds, late, up>>

\* ... and moved on.
ClearAdvance(r) ==
  /\ up /\ pc[r] = "advance"
  /\ head' = rest[r]
  /\ pc' = [pc EXCEPT ![r] = IF last[r] THEN "reset" ELSE "clear"]
  /\ UNCHANGED <<role, heap, stamp, next, prev, tail, size, ins, local, blocks, rounds, dropped, late, up>>

\* The end of clear_cache, _tx_size being left alone, and the block generate_block returns.
ClearReset(r) ==
  /\ up /\ pc[r] = "reset"
  /\ head' = Null /\ tail' = Null
  /\ pc' = [pc EXCEPT ![r] = "idle"]
  /\ IF r = "collector" THEN UNCHANGED <<blocks, rounds>>
     ELSE blocks' = Append(blocks, body) /\ rounds' = Append(rounds, visited)
  /\ UNCHANGED <<role, heap, stamp, next, prev, size, ins, local, dropped, late, up>>

-----------------------------------------------------------------------------
Distribute ==
  \/ StartDistribute \/ Gather \/ Copy
  \/ ClearDelete("distributor") \/ ClearAdvance("distributor") \/ ClearReset("distributor")

Collect ==
  \/ StartCollect \/ Walk
  \/ ClearDelete("collector") \/ ClearAdvance("collector") \/ ClearReset("collector")

Insert == InsertLink \/ \E t \in Tx, s \in 1 .. MaxStamp : InsertSearch(t, s)

Next == BecomeLeader \/ Insert \/ Distribute \/ Collect

Spec == Init /\ [][Next]_vars

\* A thread that is inside an operation keeps running.
Fairness == /\ WF_vars(InsertLink)
            /\ WF_vars(Gather \/ Copy) /\ WF_vars(Walk)
            /\ \A r \in Reader : WF_vars(ClearDelete(r) \/ ClearAdvance(r) \/ ClearReset(r))

FairSpec == Spec /\ Fairness

-----------------------------------------------------------------------------
(* What the cache promises.                                                *)

Pointer == Tx \cup {Null}

\* The values of the variables; a reader that is idle has left the list.
TypeOK ==
  /\ role \in {"FOLLOWER", "LEADER"}
  /\ heap \in [Tx -> {"new", "live", "freed"}]
  /\ stamp \in [Tx -> 0 .. MaxStamp]
  /\ next \in [Tx -> Pointer] /\ prev \in [Tx -> Pointer]
  /\ head \in Pointer /\ tail \in Pointer
  /\ size \in 0 .. Cardinality(Tx)
  /\ ins \in [tx : Pointer, place : Pointer \cup {"first", "back", "front"}]
  /\ pc \in [Reader -> {"idle", "gather", "copy", "walk", "clear", "advance", "reset"}]
  /\ cur \in [Reader -> Pointer] /\ first \in [Reader -> Pointer]
  /\ rest \in [Reader -> Pointer] /\ last \in [Reader -> BOOLEAN]
  /\ body \in Seq(Pointer) /\ visited \in Seq(Tx)
  /\ blocks \in Seq(Seq(Pointer))
  /\ \A i \in DOMAIN rounds : rounds[i] \in Seq(Tx)
  /\ dropped \subseteq Tx /\ late \subseteq Tx
  /\ up \in BOOLEAN
  /\ ins # NoInsert => heap[ins.tx] = "new"

\* The cells reached from _head, in order.
FromHead[k \in 0 .. Cardinality(Tx)] ==
  IF k = 0 THEN head
  ELSE LET p == FromHead[k - 1] IN IF p = Null THEN Null ELSE next[p]

Path ==
  LET n == Cardinality({k \in DOMAIN FromHead : FromHead[k] # Null})
  IN  [i \in 1 .. n |-> FromHead[i - 1]]

CellsOf(s) == {s[i] : i \in DOMAIN s}
Came   == {t \in Tx : heap[t] # "new"}
Passed == UNION {CellsOf(rounds[i]) : i \in DOMAIN rounds}
Packed == UNION {CellsOf(blocks[i]) : i \in DOMAIN blocks}

\* consen_node_cache.cpp:41 has every transaction inserted into the cache and then packed
\* into a new block: outside the readers, a transaction that was accepted is in the list or
\* in a block.  (Nothing is said of the cells deleted for another LEADER's request.)
NoTxLost == up /\ Reading = {} => Came \subseteq CellsOf(Path) \cup Packed \cup dropped

\* How an accepted transaction leaves the list, though inserts, the distributor and another
\* LEADER's requests interleave without a lock: a round of generate_block passed over its
\* cell, or its cell was deleted for the other LEADER, or its insert ran beside a reader.
\* Only the last are lost by the race; that the others reach nobody either, the messages of
\* the block being empty and the reply too, is what NoTxLost speaks of.
LossExplained ==
  up /\ Reading = {} => Came \subseteq CellsOf(Path) \cup Passed \cup dropped \cup late

\* No cell is passed over twice by generate_block, in one round or in two, even where the
\* list is read and cleared while transactions are inserted and another LEADER's request
\* clears it too.
PassedOnce ==
  \A i, j \in DOMAIN rounds : \A x \in DOMAIN rounds[i], y \in DOMAIN rounds[j] :
    rounds[i][x] = rounds[j][y] => i = j /\ x = y

\* Where inserts and readers keep apart, a bad pointer is followed in three cases only: an
\* insert with the timestamp of _tail, a reader of an empty list, and the walk of a node
\* that is not LEADER.
CrashExplained ==
  Serial /\ ~up =>
    \/ ins # NoInsert /\ ins.place = tail /\ stamp[ins.tx] = stamp[tail]
    \/ head = Null /\ \E r \in Reader : pc[r] \in {"copy", "clear"}
    \/ pc["collector"] = "walk"

\* Where inserts and readers keep apart, the list is SortedCache's sequence, taken when
\* its clearing begins.
Content == IF \E r \in Reader : pc[r] \in {"clear", "advance", "reset"} THEN <<>> ELSE Path
Sorted == INSTANCE SortedCache
            WITH content <- Content,
                 stamp   <- [t \in Tx |-> IF heap[t] = "new" THEN 0 ELSE stamp[t]]
SortedSpec == Sorted!Spec

\* A block is made of what the cache held, or the node is lost: no loop of the distributor
\* runs on for ever, whatever is inserted or cleared under it.
DistributeEnds == pc["distributor"] # "idle" ~> pc["distributor"] = "idle" \/ ~up
=============================================================================
