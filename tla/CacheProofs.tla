---------------------------- MODULE CacheProofs ----------------------------
(***************************************************************************)
(* Theorems about TxCache that hold however inserts and readers            *)
(* interleave: the types, that no cell is passed over twice, and how a     *)
(* transaction leaves the list.                                            *)
(***************************************************************************)
EXTENDS TxCache, Numbers, FiniteSetTheorems, SequenceTheorems

-----------------------------------------------------------------------------
(***************************************************************************)
(* The types.  TypeOK bounds _tx_size, which is never taken back: it is    *)
(* the number of cells that were ever linked.                              *)
(***************************************************************************)
Place == Tx \cup {"first", "back", "front"}

ListTypes ==
  /\ heap \in [Tx -> {"new", "live", "freed"}]
  /\ stamp \in [Tx -> 0 .. MaxStamp]
  /\ next \in [Tx -> Pointer] /\ prev \in [Tx -> Pointer]
  /\ head \in Pointer /\ tail \in Pointer
  /\ size = Cardinality(Came)

InsertTypes ==
  ins # NoInsert => /\ ins \in [tx : Tx, place : Place]
                    /\ heap[ins.tx] = "new" /\ stamp[ins.tx] \in 1 .. MaxStamp

ReaderTypes ==
  /\ pc \in [Reader -> {"idle", "gather", "copy", "walk", "clear", "advance", "reset"}]
  /\ cur \in [Reader -> Pointer] /\ first \in [Reader -> Pointer]
  /\ rest \in [Reader -> Pointer] /\ last \in [Reader -> BOOLEAN]
  /\ visited \in Seq(Tx) /\ body \in Seq(Pointer)

HistoryTypes ==
  /\ role \in {"FOLLOWER", "LEADER"}
  /\ rounds \in Seq(Seq(Tx)) /\ blocks \in Seq(Seq(Pointer))
  /\ dropped \subseteq Tx /\ late \subseteq Tx
  /\ up \in BOOLEAN

CacheTypes == ListTypes /\ InsertTypes /\ ReaderTypes /\ HistoryTypes

LEMMA Readers == "distributor" \in Reader /\ "collector" \in Reader
BY DEF Reader

LEMMA CacheTypesInit == ASSUME Init PROVE CacheTypes
<1>1. Came = {}
  BY DEF Init, Came
<1>2. ListTypes
  BY <1>1, FS_EmptySet, StampAssumption DEF Init, ListTypes, Pointer
<1>3. ReaderTypes
  BY DEF Init, ReaderTypes, Pointer, Reader
<1> QED
  BY <1>2, <1>3 DEF Init, InsertTypes, HistoryTypes, CacheTypes

\* One more cell came.
LEMMA LinkedCounts ==
  ASSUME ListTypes, NEW t \in Tx, heap[t] = "new", Linked(t)
  PROVE  /\ heap' \in [Tx -> {"new", "live", "freed"}] /\ stamp' = stamp
         /\ size' = Cardinality(Came')
<1>1. heap' = [heap EXCEPT ![t] = "live"] /\ size' = size + 1 /\ stamp' = stamp
  BY DEF Linked
<1>2. Came' = Came \cup {t} /\ t \notin Came
  BY <1>1 DEF Came, ListTypes
<1>3. IsFiniteSet(Came)
  BY FS_Subset, TxAssumption DEF Came
<1>4. Cardinality(Came') = Cardinality(Came) + 1
  BY <1>2, <1>3, FS_AddElement
<1> QED
  BY <1>1, <1>4 DEF ListTypes

LEMMA LinkTyped ==
  ASSUME CacheTypes, InsertLink PROVE CacheTypes'
<1> DEFINE t == ins.tx
<1>1. t \in Tx /\ heap[t] = "new" /\ ins \in [tx : Tx, place : Place] /\ ins # NoInsert
  BY DEF InsertLink, CacheTypes, InsertTypes
<1>2. CASE Die
  BY <1>2 DEF Die, CacheTypes, ListTypes, Came, InsertTypes, ReaderTypes, HistoryTypes, list, local
<1>3. CASE Linked(t) /\ next' \in [Tx -> Pointer] /\ prev' \in [Tx -> Pointer]
           /\ head' \in Pointer /\ tail' \in Pointer
  <2>1. ListTypes'
    BY <1>1, <1>3, LinkedCounts DEF ListTypes, CacheTypes
  <2>2. InsertTypes'
    BY <1>3 DEF Linked, InsertTypes
  <2> QED
    BY <1>3, <2>1, <2>2 DEF Linked, CacheTypes, ReaderTypes, HistoryTypes, local
<1>4. t \in Pointer /\ head \in Pointer /\ tail \in Pointer
      /\ next \in [Tx -> Pointer] /\ prev \in [Tx -> Pointer]
  BY <1>1 DEF Pointer, CacheTypes, ListTypes
<1>5. CASE LinkFirst(t) \/ LinkBack(t) \/ LinkFront(t)
  BY <1>2, <1>3, <1>4, <1>5 DEF LinkFirst, LinkBack, LinkFront, Bad, Pointer
<1>6. ASSUME NEW p \in Tx, LinkAfter(t, p) PROVE CacheTypes'
  BY <1>2, <1>3, <1>4, <1>6 DEF LinkAfter, Bad, Pointer
<1> QED
  BY <1>5, <1>6 DEF InsertLink

LEMMA SearchTyped ==
  ASSUME CacheTypes, NEW t \in Tx, NEW s \in 1 .. MaxStamp, InsertSearch(t, s) PROVE CacheTypes'
<1>1. CASE Die
  BY <1>1 DEF Die, CacheTypes, ListTypes, Came, InsertTypes, ReaderTypes, HistoryTypes, list, local
<1>2. ASSUME NEW place \in Place, ins' = [tx |-> t, place |-> place], stamp' = [stamp EXCEPT ![t] = s],
             UNCHANGED <<role, heap, next, prev, head, tail, size, pc, local, blocks, rounds, dropped, up>>,
             late' \in {late, late \cup {t}}
      PROVE  CacheTypes'
  BY <1>2 DEF InsertSearch, CacheTypes, ListTypes, Came, InsertTypes, ReaderTypes, HistoryTypes, local
<1>3. ~Bad(StopsAt(s)) => StopsAt(s) \in Place
  BY DEF Bad, Place
<1> HIDE DEF StopsAt
<1> QED
  BY <1>1, <1>2, <1>3 DEF InsertSearch, Place

LEMMA ReadTyped ==
  ASSUME CacheTypes, BecomeLeader \/ StartDistribute \/ Gather \/ Copy \/ StartCollect \/ Walk PROVE CacheTypes'
<1>1. CASE Die
  BY <1>1 DEF Die, CacheTypes, ListTypes, Came, InsertTypes, ReaderTypes, HistoryTypes, list, local
<1>2. CASE ~Die
  <2>1. UNCHANGED list /\ UNCHANGED <<ins, blocks, rounds, dropped, up>> /\ role' \in {role, "LEADER"}
    BY <1>2 DEF BecomeLeader, StartDistribute, Gather, Copy, StartCollect, Walk, list
  <2>2. HistoryTypes'
    <3>1. late' \in {late, Overtaken}
      BY <1>2 DEF BecomeLeader, StartDistribute, Gather, Copy, StartCollect, Walk
    <3>2. Overtaken \subseteq Tx
      BY DEF Overtaken, HistoryTypes, InsertTypes, CacheTypes
    <3> QED
      BY <2>1, <3>1, <3>2 DEF HistoryTypes, CacheTypes
  <2>3. UNCHANGED <<rest, last>> /\ (visited' = <<>> \/ visited' = visited \/ \E c \in Tx : visited' = Append(visited, c))
    BY <1>2 DEF BecomeLeader, StartDistribute, Gather, Copy, StartCollect, Walk, Bad, local
  <2>4. \/ UNCHANGED <<cur, first>>
        \/ \E r \in Reader, p \in Pointer : cur' = [cur EXCEPT ![r] = p] /\ (UNCHANGED first \/ first' = [first EXCEPT ![r] = p])
    <3>1. CASE BecomeLeader \/ StartDistribute
      BY <3>1 DEF BecomeLeader, StartDistribute, local
    <3>2. CASE Gather \/ StartCollect
      BY <3>2, Readers DEF Gather, StartCollect, CacheTypes, ListTypes
    <3>3. CASE Copy
      BY <1>2, <3>3, Readers DEF Copy, Bad, CacheTypes, ListTypes
    <3>4. CASE Walk
      BY <1>2, <3>4, Readers DEF Walk, Bad, CacheTypes, ListTypes
    <3> QED
      BY <3>1, <3>2, <3>3, <3>4
  <2>5. pc' = pc \/ \E r \in Reader, at \in {"gather", "copy", "walk", "clear"} : pc' = [pc EXCEPT ![r] = at]
    BY <1>2, Readers DEF BecomeLeader, StartDistribute, Gather, Copy, StartCollect, Walk
  <2>6. ReaderTypes'
    <3>1. pc' \in [Reader -> {"idle", "gather", "copy", "walk", "clear", "advance", "reset"}]
      BY <2>5 DEF CacheTypes, ReaderTypes
    <3>2. cur' \in [Reader -> Pointer] /\ first' \in [Reader -> Pointer]
      BY <2>4 DEF CacheTypes, ReaderTypes
    <3>3. visited' \in Seq(Tx)
      <4>1. visited \in Seq(Tx) /\ <<>> \in Seq(Tx)
        BY EmptySeq DEF CacheTypes, ReaderTypes
      <4>2. \A c \in Tx : Append(visited, c) \in Seq(Tx)
        BY <4>1, AppendProperties
      <4> QED
        BY <2>3, <4>1, <4>2
    <3>4. body' \in Seq(Pointer)
      <4>1. body \in Seq(Pointer) /\ <<>> \in Seq(Pointer) /\ Append(body, Null) \in Seq(Pointer)
        BY EmptySeq, AppendProperties DEF CacheTypes, ReaderTypes, Pointer
      <4>2. body' = <<>> \/ body' = body \/ body' = Append(body, Null)
        BY <1>2 DEF BecomeLeader, StartDistribute, Gather, Copy, StartCollect, Walk, local
      <4> QED
        BY <4>1, <4>2
    <3> QED
      BY <2>3, <3>1, <3>2, <3>3, <3>4 DEF CacheTypes, ReaderTypes
  <2> QED
    BY <2>1, <2>2, <2>6 DEF CacheTypes, ListTypes, Came, InsertTypes, list
<1> QED
  BY <1>1, <1>2

LEMMA ClearTyped ==
  ASSUME CacheTypes, NEW r \in Reader, ClearDelete(r) \/ ClearAdvance(r) \/ ClearReset(r) PROVE CacheTypes'
<1>1. CASE Die
  BY <1>1 DEF Die, CacheTypes, ListTypes, Came, InsertTypes, ReaderTypes, HistoryTypes, list, local
<1>2. CASE ClearDelete(r) /\ ~Die
  <2>1. head \in Tx /\ heap[head] = "live" /\ heap' = [heap EXCEPT ![head] = "freed"]
    BY <1>2 DEF ClearDelete, Bad
  <2>2. Came' = Came
    BY <2>1 DEF Came, CacheTypes, ListTypes
  <2>3. ListTypes' /\ InsertTypes'
    BY <1>2, <2>1, <2>2 DEF ClearDelete, CacheTypes, ListTypes, InsertTypes
  <2>4. ReaderTypes'
    BY <1>2, <2>1, ZenonT(60) DEF ClearDelete, CacheTypes, ListTypes, ReaderTypes
  <2> QED
    BY <1>2, <2>1, <2>3, <2>4 DEF ClearDelete, CacheTypes, HistoryTypes
<1>3. CASE ClearAdvance(r)
  BY <1>3 DEF ClearAdvance, CacheTypes, ListTypes, Came, InsertTypes, ReaderTypes, HistoryTypes, local
<1>4. CASE ClearReset(r)
  <2>1. rounds' \in Seq(Seq(Tx)) /\ blocks' \in Seq(Seq(Pointer))
    <3>1. rounds \in Seq(Seq(Tx)) /\ visited \in Seq(Tx) /\ blocks \in Seq(Seq(Pointer)) /\ body \in Seq(Pointer)
      BY DEF CacheTypes, HistoryTypes, ReaderTypes
    <3>2. Append(rounds, visited) \in Seq(Seq(Tx)) /\ Append(blocks, body) \in Seq(Seq(Pointer))
      BY <3>1, AppendProperties
    <3>3. \/ rounds' = rounds /\ blocks' = blocks
          \/ rounds' = Append(rounds, visited) /\ blocks' = Append(blocks, body)
      BY <1>4 DEF ClearReset
    <3> QED
      BY <3>1, <3>2, <3>3
  <2> QED
    BY <1>4, <2>1 DEF ClearReset, CacheTypes, ListTypes, Came, InsertTypes, ReaderTypes, HistoryTypes, local, Pointer
<1> QED
  BY <1>1, <1>2, <1>3, <1>4

LEMMA CacheTypesStep == ASSUME CacheTypes, [Next]_vars PROVE CacheTypes'
<1>1. CASE UNCHANGED vars
  BY <1>1 DEF vars, CacheTypes, ListTypes, Came, InsertTypes, ReaderTypes, HistoryTypes, list, local
<1> QED
  BY <1>1, LinkTyped, SearchTyped, ReadTyped, ClearTyped, Readers DEF Next, Insert, Distribute, Collect

\* TypeOK: the cache's variables keep their types, an insert that holds the mutex has a new
\* cell, and _tx_size counts each transaction once.
THEOREM CacheTyped == Spec => []TypeOK
<1>1. CacheTypes => TypeOK
  <2> SUFFICES ASSUME CacheTypes PROVE TypeOK
    OBVIOUS
  <2>1. size \in 0 .. Cardinality(Tx)
    BY FS_Subset, FS_CardinalityType, TxAssumption DEF CacheTypes, ListTypes, Came
  <2>2. ins \in [tx : Pointer, place : Pointer \cup {"first", "back", "front"}]
    BY DEF CacheTypes, InsertTypes, NoInsert, Pointer, Place
  <2>3. \A i \in DOMAIN rounds : rounds[i] \in Seq(Tx)
    BY DEF CacheTypes, HistoryTypes
  <2> QED
    BY <2>1, <2>2, <2>3 DEF CacheTypes, ListTypes, InsertTypes, ReaderTypes, HistoryTypes, TypeOK
<1> QED
  BY <1>1, CacheTypesInit, CacheTypesStep, PTL DEF Spec

-----------------------------------------------------------------------------
(***************************************************************************)
(* No cell is passed over twice, whatever interleaves.  The cells form     *)
(* chains along _next; a chain is begun by a first insert and grows only.  *)
(* generate_block gets to its end only on the chain of _tail, and _tail    *)
(* never returns to a chain it left, so a chain is walked at most once.    *)
(***************************************************************************)
\* chain names the chain of each cell by a cell of it; rank grows along _next.
Chained(chain, rank) ==
  /\ \A x \in Tx :
       /\ next[x] # Null => /\ next[x] \in Came /\ chain[next[x]] = chain[x]
                            /\ rank[x] < rank[next[x]]
       /\ heap[x] = "new" => next[x] = Null
       /\ heap[x] # "new" => chain[x] \in Came
  /\ tail # Null => \A x \in Passed : chain[x] # chain[tail]
  /\ pc["distributor"] = "copy" =>
       /\ \A i, j \in DOMAIN visited : i < j => rank[visited[i]] < rank[visited[j]]
       /\ cur["distributor"] # Null =>
            \A i \in DOMAIN visited : /\ chain[visited[i]] = chain[cur["distributor"]]
                                     /\ rank[visited[i]] < rank[cur["distributor"]]

\* Whatever is pointed to or was passed over has come.
PointersCame ==
  /\ head # Null => head \in Came
  /\ tail # Null => tail \in Came
  /\ \A r \in Reader : (cur[r] # Null => cur[r] \in Came) /\ (rest[r] # Null => rest[r] \in Came)
  /\ CellsOf(visited) \subseteq Came /\ Passed \subseteq Came

Clearing == {"clear", "advance", "reset"}

PassInv ==
  /\ PointersCame
  /\ pc["distributor"] \in Clearing =>
       /\ \A i, j \in DOMAIN visited : visited[i] = visited[j] => i = j
       /\ CellsOf(visited) \cap Passed = {}
  /\ PassedOnce
  /\ \E chain \in [Tx -> Tx], rank \in [Tx -> Int] : Chained(chain, rank)

LEMMA PassInvInit == ASSUME Init PROVE PassInv
<1>1. Passed = {} /\ CellsOf(visited) = {}
  BY DEF Init, Passed, CellsOf
<1>2. PointersCame
  BY <1>1 DEF Init, PointersCame
<1>3. Chained([x \in Tx |-> x], [x \in Tx |-> 0])
  BY <1>1 DEF Init, Chained
<1>4. [x \in Tx |-> x] \in [Tx -> Tx] /\ [x \in Tx |-> 0] \in [Tx -> Int]
  OBVIOUS
<1>5. pc["distributor"] = "idle" /\ PassedOnce
  BY Readers DEF Init, PassedOnce
<1> QED
  BY <1>2, <1>3, <1>4, <1>5 DEF PassInv, Clearing

\* A cell is linked: its chain is one that is there, or its own.
LEMMA LinkPasses ==
  ASSUME CacheTypes, PassInv,
         NEW chain \in [Tx -> Tx], NEW rank \in [Tx -> Int], Chained(chain, rank),
         NEW t \in Tx, heap[t] = "new", Linked(t),
         NEW c \in Came \cup {t}, NEW order \in [Tx -> Int],
         \A x, y \in Tx \ {t} : rank[x] < rank[y] => order[x] < order[y],
         \A x \in Tx : next'[x] # Null =>
            /\ next'[x] \in Came \cup {t}
            /\ [chain EXCEPT ![t] = c][next'[x]] = [chain EXCEPT ![t] = c][x]
            /\ order[x] < order[next'[x]],
         \A x \in Tx : heap[x] = "new" /\ x # t => next'[x] = Null,
         head' \in {head, t}, tail' \in {tail, t},
         tail' = t => c = t \/ (tail # Null /\ c = chain[tail])
  PROVE  PassInv'
<1> DEFINE joined == [chain EXCEPT ![t] = c]
<1>1. heap' = [heap EXCEPT ![t] = "live"] /\ UNCHANGED <<pc, cur, first, rest, last, visited, rounds>>
  BY DEF Linked, local
<1>2. Came' = Came \cup {t} /\ t \notin Came /\ Came \subseteq Tx
  BY <1>1 DEF Came, CacheTypes, ListTypes
<1>3. UNCHANGED Passed /\ UNCHANGED CellsOf(visited)
  BY <1>1 DEF Passed
<1>4. PointersCame'
  BY <1>1, <1>2, <1>3 DEF PassInv, PointersCame
<1>5. PassedOnce'
  BY <1>1 DEF PassInv, PassedOnce
<1>6. joined \in [Tx -> Tx]
  BY <1>2
<1>7. \A i \in DOMAIN visited : visited[i] \in Tx \ {t}
  BY <1>2 DEF PassInv, PointersCame, CellsOf
<1>8. Chained(joined, order)'
  <2>1. ASSUME NEW x \in Tx
        PROVE  /\ next'[x] # Null => /\ next'[x] \in Came' /\ joined[next'[x]] = joined[x]
                                     /\ order[x] < order[next'[x]]
               /\ heap'[x] = "new" => next'[x] = Null
               /\ heap'[x] # "new" => joined[x] \in Came'
    <3>1. heap'[x] = "new" => next'[x] = Null
      BY <1>1 DEF CacheTypes, ListTypes
    <3>2. heap'[x] # "new" => joined[x] \in Came'
      BY <1>1, <1>2 DEF Chained, CacheTypes, ListTypes
    <3> QED
      BY <1>2, <3>1, <3>2
  <2>2. ASSUME tail' # Null, NEW x \in Passed PROVE joined[x] # joined[tail']
    <3>1. x \in Came /\ x # t /\ chain[x] \in Came
      BY <1>2 DEF PassInv, PointersCame, Came, Chained
    <3>2. tail' # t => tail' = tail /\ tail \in Came
      BY <2>2 DEF PassInv, PointersCame
    <3> QED
      BY <1>2, <2>2, <3>1, <3>2 DEF Chained
  <2>3. ASSUME pc["distributor"] = "copy"
        PROVE  /\ \A i, j \in DOMAIN visited : i < j => order[visited[i]] < order[visited[j]]
               /\ cur["distributor"] # Null =>
                    \A i \in DOMAIN visited : /\ joined[visited[i]] = joined[cur["distributor"]]
                                             /\ order[visited[i]] < order[cur["distributor"]]
    <3>1. cur["distributor"] # Null => cur["distributor"] \in Tx \ {t}
      BY <1>2, Readers DEF PassInv, PointersCame
    <3> QED
      BY <1>7, <2>3, <3>1 DEF Chained
  <2> QED
    BY <1>1, <1>3, <2>1, <2>2, <2>3 DEF Chained
<1> QED
  BY <1>1, <1>3, <1>4, <1>5, <1>6, <1>8 DEF PassInv

\* Nothing PassInv speaks of changes.
LEMMA PassSame ==
  ASSUME PassInv, UNCHANGED <<heap, next, head, tail, pc, cur, rest, visited, rounds>> PROVE PassInv'
<1>1. UNCHANGED <<Came, Passed>>
  BY DEF Came, Passed
<1>2. PICK chain \in [Tx -> Tx], rank \in [Tx -> Int] : Chained(chain, rank)
  BY DEF PassInv
<1> QED
  BY <1>1, <1>2 DEF PassInv, PointersCame, PassedOnce, Chained

LEMMA InsertPasses == ASSUME CacheTypes, PassInv, InsertLink PROVE PassInv'
<1> DEFINE t == ins.tx
<1>1. t \in Tx /\ heap[t] = "new" /\ t \notin Came /\ Came \subseteq Tx
  BY DEF InsertLink, CacheTypes, InsertTypes, Came
<1>2. PICK chain \in [Tx -> Tx], rank \in [Tx -> Int] : Chained(chain, rank)
  BY DEF PassInv
<1>3. CASE Die
  BY <1>3, PassSame DEF Die, list, local
<1>4. /\ next \in [Tx -> Pointer] /\ \A x \in Tx : next[x] # t
      /\ \A x \in Tx : next[x] # Null => next[x] \in Came /\ chain[next[x]] = chain[x] /\ rank[x] < rank[next[x]]
      /\ \A x \in Tx : heap[x] = "new" => next[x] = Null
  <2>1. next \in [Tx -> Pointer]
    BY DEF CacheTypes, ListTypes
  <2>2. \A x \in Tx : next[x] # Null => next[x] \in Came /\ chain[next[x]] = chain[x] /\ rank[x] < rank[next[x]]
    BY <1>2 DEF Chained
  <2>3. \A x \in Tx : heap[x] = "new" => next[x] = Null
    BY <1>2 DEF Chained
  <2>4. \A x \in Tx : next[x] # t
    BY <1>1, <2>2, TxAssumption
  <2> QED
    BY <2>1, <2>2, <2>3, <2>4
<1>5. \A x \in Tx : ~Bad(x) => x \in Came
  BY DEF Bad, Came
<1>6. CASE LinkFirst(t)
  BY <1>1, <1>2, <1>4, <1>6, LinkPasses DEF LinkFirst
<1>7. CASE LinkBack(t) /\ ~Die
  <2>1. tail \in Came /\ tail # Null /\ next' = [next EXCEPT ![tail] = t] /\ tail' = t /\ head' = head /\ Linked(t)
    BY <1>7, TxAssumption DEF LinkBack, Bad, Came
  <2> DEFINE order == [rank EXCEPT ![t] = rank[tail] + 1]
  <2>2. order \in [Tx -> Int] /\ chain[tail] \in Came /\ tail # t
    BY <1>1, <1>2, <2>1 DEF Chained, Came
  <2>3. \A x \in Tx : next'[x] # Null =>
            /\ next'[x] \in Came \cup {t}
            /\ [chain EXCEPT ![t] = chain[tail]][next'[x]] = [chain EXCEPT ![t] = chain[tail]][x]
            /\ order[x] < order[next'[x]]
    BY <1>1, <1>4, <2>1, <2>2
  <2>4. \A x, y \in Tx \ {t} : rank[x] < rank[y] => order[x] < order[y]
    OBVIOUS
  <2>5. \A x \in Tx : heap[x] = "new" /\ x # t => next'[x] = Null
    BY <1>4, <2>1 DEF Came
  <2> HIDE DEF order
  <2> QED
    BY <1>1, <1>2, <2>1, <2>2, <2>3, <2>4, <2>5, LinkPasses
<1>8. CASE LinkFront(t) /\ ~Die
  <2>1. head \in Came /\ next' = [next EXCEPT ![t] = head] /\ tail' = tail /\ head' = t /\ Linked(t)
    BY <1>8 DEF LinkFront, Bad, Came
  <2> DEFINE order == [rank EXCEPT ![t] = rank[head] - 1]
  <2>2. order \in [Tx -> Int] /\ chain[head] \in Came /\ head # t /\ tail # t
    BY <1>1, <1>2, <2>1, TxAssumption DEF Chained, Came, PassInv, PointersCame
  <2>3. \A x \in Tx : next'[x] # Null =>
            /\ next'[x] \in Came \cup {t}
            /\ [chain EXCEPT ![t] = chain[head]][next'[x]] = [chain EXCEPT ![t] = chain[head]][x]
            /\ order[x] < order[next'[x]]
    BY <1>1, <1>4, <2>1, <2>2
  <2>4. \A x, y \in Tx \ {t} : rank[x] < rank[y] => order[x] < order[y]
    OBVIOUS
  <2>5. \A x \in Tx : heap[x] = "new" /\ x # t => next'[x] = Null
    BY <1>4, <2>1 DEF Came
  <2> HIDE DEF order
  <2> QED
    BY <1>1, <1>2, <2>1, <2>2, <2>3, <2>4, <2>5, LinkPasses
<1>9. ASSUME NEW p \in Tx, LinkAfter(t, p), ~Die PROVE PassInv'
  <2>1. /\ p \in Came /\ next[p] # Null /\ next' = [next EXCEPT ![t] = next[p], ![p] = t]
        /\ tail' = tail /\ head' = head /\ Linked(t)
    BY <1>9, TxAssumption DEF LinkAfter, Bad, Came
  <2> DEFINE order == [x \in Tx |-> IF x = t THEN rank[p] + 1 ELSE IF rank[x] > rank[p] THEN rank[x] + 1 ELSE rank[x]]
  <2>2. order \in [Tx -> Int] /\ chain[p] \in Came /\ p # t /\ tail # t /\ next[p] \in Tx /\ next[p] # t
    BY <1>1, <1>2, <1>4, <2>1, TxAssumption DEF Chained, Came, PassInv, PointersCame
  <2>3. \A x \in Tx : next'[x] = IF x = p THEN t ELSE IF x = t THEN next[p] ELSE next[x]
    BY <1>4, <2>1, <2>2
  <2>4. \A x, y \in Tx \ {t} : rank[x] < rank[y] => order[x] < order[y]
    OBVIOUS
  <2>5. order[p] < order[t] /\ order[t] < order[next[p]]
    BY <1>1, <1>4, <2>1, <2>2
  <2>6. ASSUME NEW x \in Tx, next'[x] # Null
        PROVE  /\ next'[x] \in Came \cup {t}
               /\ [chain EXCEPT ![t] = chain[p]][next'[x]] = [chain EXCEPT ![t] = chain[p]][x]
               /\ order[x] < order[next'[x]]
    <3> HIDE DEF order
    <3>1. CASE x = p
      BY <1>1, <2>2, <2>3, <2>5, <3>1
    <3>2. CASE x = t
      BY <1>1, <1>4, <2>1, <2>2, <2>3, <2>5, <3>2
    <3>3. CASE x # p /\ x # t
      BY <1>1, <1>4, <2>3, <2>4, <2>6, <3>3
    <3> QED
      BY <3>1, <3>2, <3>3
  <2>7. \A x \in Tx : heap[x] = "new" /\ x # t => next'[x] = Null
    BY <1>4, <2>1, <2>3 DEF Came
  <2> HIDE DEF order
  <2>8. \A x \in Tx : next'[x] # Null =>
            /\ next'[x] \in Came \cup {t}
            /\ [chain EXCEPT ![t] = chain[p]][next'[x]] = [chain EXCEPT ![t] = chain[p]][x]
            /\ order[x] < order[next'[x]]
    BY <2>6
  <2>9. head' \in {head, t} /\ tail' \in {tail, t} /\ tail' # t /\ chain[p] \in Came \cup {t} /\ Linked(t)
    BY <2>1, <2>2
  <2>10. order \in [Tx -> Int]
    BY <2>2
  <2> QED
    BY <1>1, <1>2, <2>4, <2>7, <2>8, <2>9, <2>10, LinkPasses, SMTT(60)
<1>10. LinkFirst(t) \/ LinkBack(t) \/ LinkFront(t) \/ \E p \in Tx : LinkAfter(t, p)
  BY DEF InsertLink
<1> QED
  BY <1>3, <1>6, <1>7, <1>8, <1>9, <1>10

\* A reader walks or copies: the list is left alone.
LEMMA ReadPasses ==
  ASSUME CacheTypes, PassInv, BecomeLeader \/ StartDistribute \/ Gather \/ Copy \/ StartCollect \/ Walk
  PROVE  PassInv'
<1>1. CASE Die \/ BecomeLeader
  BY <1>1, PassSame DEF Die, BecomeLeader, list, local
<1>2. PICK chain \in [Tx -> Tx], rank \in [Tx -> Int] : Chained(chain, rank)
  BY DEF PassInv
<1>3. CASE ~Die /\ ~BecomeLeader
  <2>1. UNCHANGED <<heap, next, head, tail, rest, rounds>> /\ UNCHANGED <<Came, Passed, PassedOnce>>
    BY <1>3 DEF StartDistribute, Gather, Copy, StartCollect, Walk, list, local, Came, Passed, PassedOnce
  <2>2. SUFFICES PointersCame' /\ Chained(chain, rank)'
                 /\ (pc'["distributor"] \in Clearing =>
                       /\ \A i, j \in DOMAIN visited' : visited'[i] = visited'[j] => i = j
                       /\ CellsOf(visited') \cap Passed = {})
    BY <1>2, <2>1 DEF PassInv
  <2>3. \A x \in Tx : heap[x] = "live" => x \in Came /\ (next[x] # Null => next[x] \in Came)
    BY <1>2 DEF Came, Chained
  <2>4. CASE StartDistribute
    <3>1. pc'["distributor"] = "gather" /\ UNCHANGED <<cur, visited>>
      BY <2>4, Readers DEF StartDistribute, CacheTypes, ReaderTypes, local
    <3> QED
      BY <1>2, <2>1, <3>1 DEF PassInv, PointersCame, Chained, Clearing
  <2>5. CASE Gather
    <3>1. pc'["distributor"] = "copy" /\ visited' = <<>> /\ cur' = [cur EXCEPT !["distributor"] = head]
      BY <2>5, Readers DEF Gather, CacheTypes, ReaderTypes
    <3>2. CellsOf(visited') = {} /\ DOMAIN visited' = {}
      BY <3>1 DEF CellsOf
    <3>3. \A r \in Reader : cur'[r] \in {cur[r], head}
      BY <3>1 DEF CacheTypes, ReaderTypes
    <3>4. PointersCame'
      BY <2>1, <3>2, <3>3 DEF PassInv, PointersCame
    <3>5. Chained(chain, rank)'
      BY <1>2, <2>1, <3>2 DEF Chained
    <3> QED
      BY <3>1, <3>4, <3>5 DEF Clearing
  <2>6. CASE StartCollect
    <3>1. /\ cur' = [cur EXCEPT !["collector"] = head] /\ UNCHANGED visited
          /\ pc'["distributor"] = pc["distributor"] /\ cur'["distributor"] = cur["distributor"]
      BY <2>6, Readers DEF StartCollect, CacheTypes, ReaderTypes, Reader
    <3>2. \A r \in Reader : cur'[r] \in {cur[r], head}
      BY <3>1 DEF CacheTypes, ReaderTypes
    <3> QED
      BY <1>2, <2>1, <3>1, <3>2 DEF PassInv, PointersCame, Chained
  <2>7. CASE Walk
    <3> DEFINE c == cur["collector"]
    <3>1. /\ cur' = [cur EXCEPT !["collector"] = next[c]] /\ UNCHANGED visited
          /\ pc'["distributor"] = pc["distributor"] /\ cur'["distributor"] = cur["distributor"]
          /\ c \in Tx /\ heap[c] = "live"
      BY <1>3, <2>7, Readers DEF Walk, CacheTypes, ReaderTypes, Reader, Bad
    <3>2. \A r \in Reader : cur'[r] \in {cur[r], next[c]}
      BY <3>1 DEF CacheTypes, ReaderTypes
    <3>3. next[c] # Null => next[c] \in Came
      BY <2>3, <3>1
    <3> QED
      BY <1>2, <2>1, <3>1, <3>2, <3>3 DEF PassInv, PointersCame, Chained
  <2>8. CASE Copy
    <3> DEFINE c == cur["distributor"]
    <3>1. /\ c \in Tx /\ heap[c] = "live" /\ visited' = Append(visited, c) /\ pc["distributor"] = "copy"
          /\ cur' = [cur EXCEPT !["distributor"] = next[c]]
          /\ pc'["distributor"] = IF c = tail THEN "clear" ELSE "copy"
      BY <1>3, <2>8, Readers DEF Copy, CacheTypes, ReaderTypes, Reader, Bad
    <3>2. c # Null /\ c \in Came
      BY <2>3, <3>1, TxAssumption
    <3>3. visited \in Seq(Tx) /\ DOMAIN visited' = 1 .. Len(visited) + 1 /\ DOMAIN visited = 1 .. Len(visited)
          /\ Len(visited) \in Nat
          /\ \A i \in DOMAIN visited' : visited'[i] = IF i = Len(visited) + 1 THEN c ELSE visited[i]
      BY <3>1 DEF CacheTypes, ReaderTypes
    <3>4. \A i \in DOMAIN visited : visited[i] \in Tx /\ visited[i] \in Came
      BY <3>3 DEF PassInv, PointersCame, CellsOf
    <3>5. \A r \in Reader : cur'[r] \in {cur[r], next[c]}
      BY <3>1 DEF CacheTypes, ReaderTypes
    <3>6. cur'["distributor"] = next[c]
      BY <3>1, Readers DEF CacheTypes, ReaderTypes
    <3>7. PointersCame'
      <4>1. CellsOf(visited') \subseteq Came
        BY <3>2, <3>3, <3>4 DEF CellsOf
      <4>2. next[c] # Null => next[c] \in Came
        BY <2>3, <3>1
      <4> QED
        BY <2>1, <3>5, <4>1, <4>2 DEF PassInv, PointersCame
    <3>8. \A i, j \in DOMAIN visited' : i < j => rank[visited'[i]] < rank[visited'[j]]
      BY <1>2, <3>1, <3>2, <3>3 DEF Chained
    <3>9. next[c] # Null => \A i \in DOMAIN visited' :
             chain[visited'[i]] = chain[next[c]] /\ rank[visited'[i]] < rank[next[c]]
      <4> SUFFICES ASSUME next[c] # Null, NEW i \in DOMAIN visited'
                   PROVE  chain[visited'[i]] = chain[next[c]] /\ rank[visited'[i]] < rank[next[c]]
        OBVIOUS
      <4>1. next[c] \in Tx /\ chain[next[c]] = chain[c] /\ rank[c] < rank[next[c]]
        BY <1>2, <2>3, <3>1 DEF Chained, Came
      <4>2. i # Len(visited) + 1 => chain[visited[i]] = chain[c] /\ rank[visited[i]] < rank[c] /\ visited[i] \in Tx
        BY <1>2, <3>1, <3>2, <3>3, <3>4 DEF Chained
      <4> QED
        BY <3>1, <3>3, <4>1, <4>2
    <3>10. Chained(chain, rank)'
      BY <1>2, <2>1, <3>1, <3>6, <3>8, <3>9 DEF Chained
    <3>11. \A i, j \in DOMAIN visited' : visited'[i] = visited'[j] => i = j
      <4> SUFFICES ASSUME NEW i \in DOMAIN visited', NEW j \in DOMAIN visited', visited'[i] = visited'[j], i # j
                   PROVE  FALSE
        OBVIOUS
      <4>1. i \in Nat /\ j \in Nat /\ rank[visited'[i]] \in Int
        BY <3>1, <3>3, <3>4
      <4>2. CASE i < j
        BY <3>8, <4>1, <4>2
      <4>3. CASE j < i
        BY <3>8, <4>1, <4>3
      <4> QED
        BY <4>1, <4>2, <4>3
    <3>12. c = tail => CellsOf(visited') \cap Passed = {}
      <4>1. \A i \in DOMAIN visited' : chain[visited'[i]] = chain[c]
        BY <1>2, <3>1, <3>2, <3>3 DEF Chained
      <4> QED
        BY <1>2, <3>2, <4>1 DEF Chained, CellsOf
    <3> QED
      BY <2>1, <3>1, <3>7, <3>10, <3>11, <3>12 DEF Clearing
  <2> QED
    BY <1>3, <2>4, <2>5, <2>6, <2>7, <2>8
<1> QED
  BY <1>1, <1>3

\* The clearing, and at its end the block.
LEMMA ClearPasses ==
  ASSUME CacheTypes, PassInv, NEW r \in Reader, ClearDelete(r) \/ ClearAdvance(r) \/ ClearReset(r)
  PROVE  PassInv'
<1>1. CASE Die
  BY <1>1, PassSame DEF Die, list, local
<1>2. PICK chain \in [Tx -> Tx], rank \in [Tx -> Int] : Chained(chain, rank)
  BY DEF PassInv
<1>3. pc \in [Reader -> {"idle", "gather", "copy", "walk", "clear", "advance", "reset"}]
      /\ rest \in [Reader -> Pointer] /\ rounds \in Seq(Seq(Tx)) /\ visited \in Seq(Tx)
  BY DEF CacheTypes, ReaderTypes, HistoryTypes
<1>4. CASE (ClearDelete(r) \/ ClearAdvance(r)) /\ ~Die
  <2>1. UNCHANGED <<next, tail, cur, visited, rounds, Passed, PassedOnce>>
    BY <1>4 DEF ClearDelete, ClearAdvance, Passed, PassedOnce, local
  <2>2. /\ pc'["distributor"] \in Clearing => pc["distributor"] \in Clearing
        /\ pc'["distributor"] = "copy" => pc["distributor"] = "copy"
    BY <1>3, <1>4, Readers DEF ClearDelete, ClearAdvance, Clearing
  <2>3. UNCHANGED Came /\ \A x \in Tx : heap'[x] = "new" <=> heap[x] = "new"
    BY <1>4 DEF ClearDelete, ClearAdvance, Bad, Came, CacheTypes, ListTypes
  <2>4. /\ head' # Null => head' \in Came
        /\ \A y \in Reader : rest'[y] # Null => rest'[y] \in Came
    <3>1. CASE ClearDelete(r)
      <4>1. head \in Tx /\ rest' = [rest EXCEPT ![r] = next[head]] /\ head' = head
        BY <1>4, <3>1 DEF ClearDelete, Bad
      <4>2. (next[head] # Null => next[head] \in Came) /\ \A y \in Reader : rest'[y] \in {rest[y], next[head]}
        BY <1>2, <1>3, <4>1 DEF Chained
      <4> QED
        BY <4>1, <4>2 DEF PassInv, PointersCame
    <3>2. CASE ClearAdvance(r)
      BY <3>2 DEF ClearAdvance, local, PassInv, PointersCame
    <3> QED
      BY <1>4, <3>1, <3>2
  <2>5. PointersCame'
    BY <2>1, <2>3, <2>4 DEF PassInv, PointersCame
  <2>6. Chained(chain, rank)'
    BY <1>2, <2>1, <2>2, <2>3 DEF Chained
  <2> QED
    BY <2>1, <2>2, <2>5, <2>6 DEF PassInv
<1>5. CASE ClearReset(r)
  <2>1. /\ pc[r] = "reset" /\ UNCHANGED <<heap, next, visited, cur, rest, Came>> /\ head' = Null /\ tail' = Null
        /\ rounds' = IF r = "collector" THEN rounds ELSE Append(rounds, visited)
        /\ pc' = [pc EXCEPT ![r] = "idle"]
    BY <1>5 DEF ClearReset, local, Came
  <2>2. /\ pc'["distributor"] \in Clearing => pc["distributor"] \in Clearing /\ r = "collector"
        /\ pc'["distributor"] = "copy" => pc["distributor"] = "copy"
    BY <1>3, <2>1, Readers DEF Clearing, Reader
  <2>3. r # "collector" => r = "distributor" /\ pc["distributor"] \in Clearing
    BY <2>1 DEF Reader, Clearing
  <2>4. Passed' = Passed \/ (r = "distributor" /\ Passed' = Passed \cup CellsOf(visited))
    <3>1. CASE r = "collector"
      BY <2>1, <3>1 DEF Passed
    <3>2. CASE r # "collector"
      <4>1. DOMAIN rounds' = DOMAIN rounds \cup {Len(rounds) + 1} /\ rounds'[Len(rounds) + 1] = visited
            /\ \A i \in DOMAIN rounds : rounds'[i] = rounds[i]
        BY <1>3, <2>1, <3>2
      <4> QED
        BY <2>3, <3>2, <4>1 DEF Passed
    <3> QED
      BY <3>1, <3>2
  <2>5. PointersCame'
    BY <2>1, <2>4 DEF PassInv, PointersCame
  <2>6. Chained(chain, rank)'
    BY <1>2, <2>1, <2>2 DEF Chained
  <2>7. pc'["distributor"] \in Clearing => /\ \A i, j \in DOMAIN visited' : visited'[i] = visited'[j] => i = j
                                           /\ CellsOf(visited') \cap Passed' = {}
    <3> SUFFICES ASSUME pc'["distributor"] \in Clearing
                 PROVE  /\ \A i, j \in DOMAIN visited' : visited'[i] = visited'[j] => i = j
                        /\ CellsOf(visited') \cap Passed' = {}
      OBVIOUS
    <3>1. Passed' = Passed
      BY <2>2, <2>4
    <3> QED
      BY <2>1, <2>2, <3>1 DEF PassInv
  <2>8. PassedOnce'
    <3>1. CASE r = "collector"
      BY <2>1, <3>1 DEF PassInv, PassedOnce
    <3>2. CASE r # "collector"
      <4>1. /\ DOMAIN rounds' = DOMAIN rounds \cup {Len(rounds) + 1} /\ rounds'[Len(rounds) + 1] = visited
            /\ \A i \in DOMAIN rounds : rounds'[i] = rounds[i] /\ i # Len(rounds) + 1
        BY <1>3, <2>1, <3>2
      <4>2. CellsOf(visited) \cap Passed = {} /\ \A i, j \in DOMAIN visited : visited[i] = visited[j] => i = j
        BY <2>3, <3>2 DEF PassInv
      <4>3. \A i \in DOMAIN rounds : \A x \in DOMAIN rounds[i], y \in DOMAIN visited : rounds[i][x] # visited[y]
        BY <4>2 DEF Passed, CellsOf
      <4> QED
        BY <4>1, <4>2, <4>3 DEF PassInv, PassedOnce
    <3> QED
      BY <3>1, <3>2
  <2> QED
    BY <2>5, <2>6, <2>7, <2>8 DEF PassInv
<1> QED
  BY <1>1, <1>4, <1>5

LEMMA PassInvStep == ASSUME CacheTypes, PassInv, [Next]_vars PROVE PassInv'
<1>1. CASE UNCHANGED vars
  BY <1>1, PassSame DEF vars, list, local
<1>2. ASSUME NEW t \in Tx, NEW s \in 1 .. MaxStamp, InsertSearch(t, s) PROVE PassInv'
  BY <1>2, PassSame DEF InsertSearch, Die, list, local
<1> QED
  BY <1>1, <1>2, InsertPasses, ReadPasses, ClearPasses, Readers DEF Next, Insert, Distribute, Collect

\* PassedOnce: generate_block passes over no cell in two rounds, or twice in one, in every
\* interleaving of the inserts with the two readers of the list.
THEOREM NeverPassedTwice == Spec => []PassedOnce
<1>1. Init => CacheTypes /\ PassInv
  BY CacheTypesInit, PassInvInit
<1>2. CacheTypes /\ PassInv /\ [Next]_vars => (CacheTypes /\ PassInv)'
  BY CacheTypesStep, PassInvStep
<1>3. CacheTypes /\ PassInv => PassedOnce
  BY DEF PassInv
<1> QED
  BY <1>1, <1>2, <1>3, PTL DEF Spec

-----------------------------------------------------------------------------
(***************************************************************************)
(* Walks along _next or _prev.  On cells that the links lead through in    *)
(* one direction no walk comes back, so it ends within Cardinality(Tx).    *)
(***************************************************************************)
\* What a walk of N steps along link passes over: FromHead and FromTail are such walks.
Walked(start, link, N) ==
  LET walk[k \in 0 .. N] ==
        IF k = 0 THEN start ELSE LET p == walk[k - 1] IN IF p = Null THEN Null ELSE link[p]
  IN  walk

\* The walk is what its recursion says.
LEMMA WalkIs ==
  ASSUME NEW start \in Pointer, NEW link \in [Tx -> Pointer], NEW N \in Nat
  PROVE  /\ Walked(start, link, N) \in [0 .. N -> Pointer]
         /\ \A k \in 0 .. N : Walked(start, link, N)[k] =
              IF k = 0 THEN start
              ELSE IF Walked(start, link, N)[k - 1] = Null THEN Null ELSE link[Walked(start, link, N)[k - 1]]
<1> DEFINE walk == Walked(start, link, N)
           Walks(g) == g = [k \in 0 .. N |-> IF k = 0 THEN start
                            ELSE LET p == g[k - 1] IN IF p = Null THEN Null ELSE link[p]]
           down == [k \in 0 .. N |-> IF k = 0 THEN 0 ELSE k - 1]
           step == [a \in (0 .. N) \X Pointer |-> IF a[2] = Null THEN Null ELSE link[a[2]]]
<1>1. down \in [0 .. N -> 0 .. N] /\ \A k \in 0 .. N : k # 0 => down[k] < k /\ down[k] = k - 1
  OBVIOUS
<1>2. step \in [(0 .. N) \X Pointer -> Pointer]
  BY DEF Pointer
<1>3. 0 .. N \in SUBSET Nat /\ 0 \in 0 .. N
  OBVIOUS
<1> HIDE DEF down
<1>4. PICK f \in [0 .. N -> Pointer] : Follows(0 .. N, start, down, step, f)
  <2> HIDE DEF step
  <2> QED
    BY <1>1, <1>2, <1>3, Recursion
<1>5. ASSUME NEW k \in 0 .. N
      PROVE  f[k] = IF k = 0 THEN start ELSE IF f[k - 1] = Null THEN Null ELSE link[f[k - 1]]
  <2>1. f[k] = IF k = 0 THEN start ELSE step[<<k, f[down[k]]>>]
    <3> HIDE DEF step
    <3> QED
      BY <1>4, Zenon DEF Follows
  <2>2. CASE k # 0
    <3>1. down[k] = k - 1 /\ k - 1 \in 0 .. N
      BY <1>1, <2>2
    <3>2. f[k - 1] \in Pointer
      BY <3>1
    <3> QED
      BY <2>1, <2>2, <3>1, <3>2
  <2> QED
    BY <2>1, <2>2
<1>6. Walks(f)
  <2>1. f = [k \in 0 .. N |-> f[k]]
    OBVIOUS
  <2> QED
    BY <1>5, <2>1
<1> HIDE DEF Walks
<1>7. Walks(walk)
  <2>1. walk = CHOOSE g : Walks(g)
    BY DEF Walked, Walks
  <2> HIDE DEF walk
  <2> QED
    BY <1>6, <2>1, Zenon
<1>8. Walks(f) /\ Walks(walk) => \A k \in 0 .. N : k = 0 => walk[k] = start
  BY DEF Walks
<1> HIDE DEF walk
<1>9. ASSUME NEW k \in 0 .. N
      PROVE  walk[k] = IF k = 0 THEN start ELSE IF walk[k - 1] = Null THEN Null ELSE link[walk[k - 1]]
  BY <1>7 DEF Walks
<1>10. walk \in [0 .. N -> Pointer]
  <2> DEFINE S == {k \in Nat : k <= N => walk[k] \in Pointer}
  <2>1. 0 \in S
    BY <1>9
  <2>2. ASSUME NEW k \in S PROVE k + 1 \in S
    <3> SUFFICES ASSUME k + 1 <= N PROVE walk[k + 1] \in Pointer
      OBVIOUS
    <3>1. walk[k] \in Pointer /\ k + 1 \in 0 .. N /\ k + 1 # 0 /\ (k + 1) - 1 = k
      BY <2>2
    <3>2. walk[k + 1] = IF walk[k] = Null THEN Null ELSE link[walk[k]]
      BY <1>9, <3>1
    <3> QED
      BY <3>1, <3>2 DEF Pointer
  <2>3. S \in SUBSET Nat
    OBVIOUS
  <2> HIDE DEF S
  <2>4. \A k \in Nat : k \in S
    BY <2>1, <2>2, <2>3, Induct
  <2>5. \A k \in 0 .. N : walk[k] \in Pointer
    BY <2>4 DEF S
  <2>6. walk = [k \in 0 .. N |-> walk[k]]
    BY <1>7 DEF Walks
  <2> QED
    BY <2>5, <2>6
<1> QED
  BY <1>9, <1>10 DEF walk

\* A walk through C, along whose links rank grows, stays in C and ends.
LEMMA WalkRises ==
  ASSUME NEW C \in SUBSET Tx, NEW rank \in [Tx -> Int], NEW start \in C \cup {Null},
         NEW link \in [Tx -> Pointer], NEW N \in Nat, Cardinality(Tx) <= N,
         \A y \in C : link[y] # Null => link[y] \in C /\ rank[y] < rank[link[y]]
  PROVE  \A k \in 0 .. N :
           /\ Walked(start, link, N)[k] \in C \cup {Null}
           /\ k = N => Walked(start, link, N)[k] = Null
           /\ \A i \in 0 .. k : Walked(start, link, N)[k] # Null =>
                /\ Walked(start, link, N)[i] # Null
                /\ i < k => rank[Walked(start, link, N)[i]] < rank[Walked(start, link, N)[k]]
<1> DEFINE walk == Walked(start, link, N)
           Rises(k) == /\ walk[k] \in C \cup {Null}
                       /\ walk[k] # Null => \A i \in 0 .. k :
                            walk[i] \in C /\ (i < k => rank[walk[i]] < rank[walk[k]])
           S == {k \in Nat : k <= N => Rises(k)}
<1>1. /\ walk \in [0 .. N -> Pointer]
      /\ \A k \in 0 .. N : walk[k] = IF k = 0 THEN start ELSE IF walk[k - 1] = Null THEN Null ELSE link[walk[k - 1]]
  <2>1. start \in Pointer
    BY DEF Pointer
  <2> QED
    BY <2>1, WalkIs, Zenon
<1> HIDE DEF walk
<1>2. 0 \in S
  BY <1>1
<1>3. ASSUME NEW k \in S PROVE k + 1 \in S
  <2> SUFFICES ASSUME k + 1 <= N PROVE Rises(k + 1)
    OBVIOUS
  <2>1. Rises(k) /\ k + 1 \in 0 .. N /\ k + 1 # 0 /\ (k + 1) - 1 = k /\ k \in Nat
    BY <1>3
  <2>2. walk[k + 1] = IF walk[k] = Null THEN Null ELSE link[walk[k]]
    BY <1>1, <2>1
  <2>3. CASE walk[k + 1] = Null
    BY <2>3
  <2>4. CASE walk[k + 1] # Null
    <3>1. walk[k] \in C /\ walk[k + 1] \in C /\ rank[walk[k]] < rank[walk[k + 1]]
      BY <2>1, <2>2, <2>4
    <3>2. ASSUME NEW i \in 0 .. k + 1 PROVE walk[i] \in C /\ (i < k + 1 => rank[walk[i]] < rank[walk[k + 1]])
      <4>1. CASE i = k + 1
        BY <3>1, <4>1
      <4>2. CASE i # k + 1
        <5>1. i \in 0 .. k /\ walk[i] \in C /\ (i < k => rank[walk[i]] < rank[walk[k]])
          BY <2>1, <3>1, <4>2, TxAssumption
        <5>2. i = k \/ i < k
          BY <2>1, <5>1
        <5>3. rank[walk[i]] \in Int /\ rank[walk[k]] \in Int /\ rank[walk[k + 1]] \in Int
          BY <3>1, <5>1
        <5> QED
          BY <3>1, <5>1, <5>2, <5>3
      <4> QED
        BY <4>1, <4>2
    <3> QED
      BY <3>1, <3>2
  <2> QED
    BY <2>3, <2>4
<1>4. \A k \in 0 .. N : Rises(k)
  <2>1. S \in SUBSET Nat
    OBVIOUS
  <2> HIDE DEF S
  <2>2. \A k \in Nat : k \in S
    BY <1>2, <1>3, <2>1, Induct
  <2> HIDE DEF Rises
  <2> QED
    BY <2>2 DEF S
<1>5. walk[N] = Null
  <2> SUFFICES ASSUME walk[N] # Null PROVE FALSE
    OBVIOUS
  <2>1. \A i \in 0 .. N : walk[i] \in C /\ (i < N => rank[walk[i]] < rank[walk[N]])
    BY <1>4
  <2>2. \A i, j \in 0 .. N : walk[i] = walk[j] => i = j
    <3> SUFFICES ASSUME NEW i \in 0 .. N, NEW j \in 0 .. N, walk[i] = walk[j], i < j PROVE FALSE
      OBVIOUS
    <3>1. Rises(j) /\ walk[j] \in C /\ walk[j] # Null /\ i \in 0 .. j
      BY <1>4, <2>1, TxAssumption
    <3>2. rank[walk[i]] < rank[walk[j]] /\ rank[walk[j]] \in Int
      BY <3>1
    <3> QED
      BY <3>2
  <2>3. walk \in Injection(0 .. N, Tx)
    BY <1>1, <2>1, <2>2 DEF Injection, IsInjective
  <2>4. Cardinality(0 .. N) <= Cardinality(Tx)
    BY <2>3, FS_Injection, TxAssumption
  <2>5. Cardinality(0 .. N) = N + 1
    <3>1. 0 \in Int /\ N \in Int
      OBVIOUS
    <3>2. Cardinality(0 .. N) = IF 0 > N THEN 0 ELSE N - 0 + 1
      BY <3>1, FS_Interval, Zenon
    <3> QED
      BY <3>2
  <2> QED
    BY <2>4, <2>5, FS_CardinalityType, TxAssumption
<1>6. \A y \in C : y # Null
  BY TxAssumption
<1> QED
  BY <1>4, <1>5, <1>6 DEF walk

-----------------------------------------------------------------------------
(***************************************************************************)
(* How a transaction leaves the list, whatever interleaves.  What is owed  *)
(* is in the list while nobody reads it; as soon as a reader goes in, the  *)
(* cells it must find are fixed.  Inserts beside it add cells, but break   *)
(* no way from _head over the cells that are owed to _tail.                *)
(***************************************************************************)
\* Accepted, and not accounted for yet.
Owed == Came \ (Passed \cup dropped \cup late)

\* From _head, and from each cell of C, the links lead along growing rank over all cells of
\* S that are not behind, up to _tail.
Linkage(C, S, rank) ==
  /\ S \subseteq C /\ C \subseteq Came
  /\ \A y \in C : next[y] # Null => next[y] \in C /\ rank[y] < rank[next[y]]
  /\ \A y \in C, x \in S : rank[y] <= rank[x] =>
       y = x \/ (rank[y] < rank[x] /\ next[y] # Null /\ rank[next[y]] <= rank[x])
  /\ S # {} => /\ head \in C /\ tail \in C
               /\ \A x \in S : rank[head] <= rank[x] /\ rank[x] <= rank[tail]

\* The search from the tail stays in the list.
PrevIn(C, rank) == \A y \in C : prev[y] # Null => prev[y] \in C /\ rank[prev[y]] < rank[y]

\* Nobody is inside the list, whose cells are C.
Quiet(C, rank) ==
  /\ Linkage(C, C, rank) /\ Owed \subseteq C /\ PrevIn(C, rank)
  /\ C = {} => head = Null /\ tail = Null
  /\ ins # NoInsert => \/ C = {} /\ (ins.tx \in late \/ ins.place = "first")
                       \/ C # {} /\ ins.place \in {"back", "front"} \cup C

\* Somebody is, and the cells S are still to be found by the distributor.
Busy(C, S, rank) ==
  /\ S # {} /\ Owed \subseteq S /\ Linkage(C, S, rank)
  /\ ins # NoInsert => ins.place # "first"
  /\ pc["collector"] = "advance" =>
       /\ ~last["collector"] /\ heap[head] = "freed" /\ rest["collector"] \in C
       /\ \A x \in S : rank[rest["collector"]] <= rank[x]
  /\ pc["collector"] # "reset"
  /\ pc["distributor"] = "copy" =>
       \A x \in S \ CellsOf(visited) :
         cur["distributor"] \in C /\ rank[cur["distributor"]] <= rank[x]

LossInv == up =>
  /\ Reading # {} /\ ins # NoInsert => ins.tx \in late
  /\ \A x \in Tx : heap[x] = "new" => prev[x] = Null
  /\ Reading = {} => \E C \in SUBSET Came, rank \in [Tx -> Int] : Quiet(C, rank)
  /\ Reading # {} =>
       \/ Owed = {}
       \/ pc["distributor"] \in Clearing /\ Owed \subseteq CellsOf(visited)
       \/ pc["distributor"] \notin Clearing
          /\ \E C \in SUBSET Came, S \in SUBSET Came, rank \in [Tx -> Int] : Busy(C, S, rank)

LEMMA LossInvInit == ASSUME Init PROVE LossInv
<1>1. Came = {} /\ Reading = {}
  BY DEF Init, Came, Reading
<1>2. Quiet({}, [x \in Tx |-> 0])
  BY <1>1 DEF Init, Quiet, Linkage, PrevIn, Owed
<1>3. [x \in Tx |-> 0] \in [Tx -> Int] /\ {} \in SUBSET Came
  OBVIOUS
<1> QED
  BY <1>1, <1>2, <1>3 DEF Init, LossInv

\* The way from _head passes over every cell of a list that nobody reads.
LEMMA Reached ==
  ASSUME CacheTypes, NEW C \in SUBSET Tx, NEW rank \in [Tx -> Int], Linkage(C, C, rank), C = {} => head = Null
  PROVE  C \subseteq CellsOf(Path)
<1> DEFINE N == Cardinality(Tx)
<1>1. N \in Nat /\ next \in [Tx -> Pointer]
  BY FS_CardinalityType, TxAssumption DEF CacheTypes, ListTypes
<1>2. FromHead = Walked(head, next, N)
  BY DEF FromHead, Walked
<1> HIDE DEF N
<1>3. /\ Walked(head, next, N) \in [0 .. N -> Pointer]
      /\ \A k \in 0 .. N : Walked(head, next, N)[k] =
           IF k = 0 THEN head
           ELSE IF Walked(head, next, N)[k - 1] = Null THEN Null ELSE next[Walked(head, next, N)[k - 1]]
  <2>1. head \in Pointer
    BY DEF CacheTypes, ListTypes
  <2> QED
    BY <1>1, <2>1, WalkIs, Zenon
<1>4. head \in C \cup {Null} /\ Cardinality(Tx) <= N
  BY <1>1 DEF Linkage, N
<1>5. \A y \in C : next[y] # Null => next[y] \in C /\ rank[y] < rank[next[y]]
  BY DEF Linkage
<1>6. \A k \in 0 .. N : /\ FromHead[k] \in C \cup {Null}
                        /\ k = N => FromHead[k] = Null
                        /\ \A i \in 0 .. k : FromHead[k] # Null => FromHead[i] # Null
  <2>1. \A k \in 0 .. N :
           /\ Walked(head, next, N)[k] \in C \cup {Null}
           /\ k = N => Walked(head, next, N)[k] = Null
           /\ \A i \in 0 .. k : Walked(head, next, N)[k] # Null =>
                /\ Walked(head, next, N)[i] # Null
                /\ i < k => rank[Walked(head, next, N)[i]] < rank[Walked(head, next, N)[k]]
    BY <1>1, <1>4, <1>5, WalkRises, Zenon
  <2> QED
    BY <1>2, <2>1, Zenon
<1>7. \A k \in 0 .. N : FromHead[k] = IF k = 0 THEN head
                                      ELSE IF FromHead[k - 1] = Null THEN Null ELSE next[FromHead[k - 1]]
  BY <1>2, <1>3, Zenon
<1> SUFFICES ASSUME NEW x \in C PROVE x \in CellsOf(Path)
  OBVIOUS
<1>8. \E k \in 0 .. N : FromHead[k] = x
  <2> DEFINE Beyond == {k \in 0 .. N : FromHead[k] = Null \/ rank[FromHead[k]] > rank[x]}
  <2>1. Beyond \in SUBSET Nat /\ N \in Beyond
    BY <1>1, <1>6
  <2>2. PICK d \in Beyond : \A k \in Beyond : d <= k
    BY <2>1, Least
  <2>3. head \in C /\ rank[head] <= rank[x] /\ head # Null /\ rank[head] \in Int /\ rank[x] \in Int
    BY TxAssumption DEF Linkage
  <2>4. d # 0
    <3>1. FromHead[0] = head
      BY <1>1, <1>7
    <3> QED
      BY <2>2, <2>3, <3>1
  <2>5. d - 1 \in 0 .. N /\ d - 1 \notin Beyond
    <3>1. d \in 0 .. N
      OBVIOUS
    <3> HIDE DEF Beyond
    <3> QED
      BY <1>1, <2>2, <2>4, <3>1
  <2> DEFINE y == FromHead[d - 1]
  <2>6. y \in C /\ y # Null /\ ~(rank[y] > rank[x])
    BY <1>6, <2>5
  <2>7. FromHead[d] = next[y]
    BY <1>7, <2>2, <2>4, <2>6
  <2>8. rank[y] <= rank[x]
    BY <2>6
  <2>9. y = x \/ (next[y] # Null /\ rank[next[y]] <= rank[x] /\ rank[next[y]] \in Int)
    BY <1>5, <2>6, <2>8 DEF Linkage
  <2>10. next[y] = Null \/ rank[next[y]] > rank[x]
    BY <2>2, <2>7
  <2> HIDE DEF y
  <2>11. y = x
    BY <2>3, <2>9, <2>10
  <2> QED
    BY <2>5, <2>11 DEF y
<1>9. PICK k \in 0 .. N : FromHead[k] = x
  BY <1>8
<1> DEFINE Held == {i \in DOMAIN FromHead : FromHead[i] # Null}
<1>10. 0 .. k \subseteq Held /\ Held \subseteq 0 .. N
  <2>1. DOMAIN FromHead = 0 .. N /\ x # Null /\ 0 .. k \subseteq 0 .. N
    BY <1>1, <1>2, <1>3, TxAssumption
  <2>2. \A i \in 0 .. k : FromHead[i] # Null
    BY <1>6, <1>9, <2>1, Zenon
  <2> QED
    BY <2>1, <2>2
<1>11. Cardinality(Held) \in Nat /\ k + 1 <= Cardinality(Held)
  <2>1. IsFiniteSet(0 .. N)
    BY <1>1, FS_Interval
  <2>2. IsFiniteSet(Held)
    BY <1>10, <2>1, FS_Subset
  <2>3. Cardinality(0 .. k) <= Cardinality(Held)
    BY <1>10, <2>2, FS_Subset
  <2>4. Cardinality(0 .. k) = k + 1
    <3>1. 0 \in Int /\ k \in Int /\ k >= 0
      OBVIOUS
    <3>2. Cardinality(0 .. k) = IF 0 > k THEN 0 ELSE k - 0 + 1
      BY <3>1, FS_Interval, Zenon
    <3> QED
      BY <3>1, <3>2
  <2> QED
    BY <2>2, <2>3, <2>4, FS_CardinalityType
<1>12. Path = [i \in 1 .. Cardinality(Held) |-> FromHead[i - 1]]
  BY DEF Path
<1> HIDE DEF Held
<1>13. k + 1 \in DOMAIN Path /\ Path[k + 1] = FromHead[k]
  BY <1>11, <1>12
<1> QED
  BY <1>9, <1>13 DEF CellsOf

\* A place that the search finds in such a list is in it.
LEMMA StopsIn ==
  ASSUME CacheTypes, NEW C \in SUBSET Tx, NEW rank \in [Tx -> Int], PrevIn(C, rank), tail \in C,
         NEW s \in Nat, ~Bad(StopsAt(s))
  PROVE  StopsAt(s) \in C
<1> DEFINE N == Cardinality(Tx)
           back == [x \in Tx |-> -rank[x]]
           Stops == {k \in DOMAIN FromTail : Bad(FromTail[k]) \/ stamp[FromTail[k]] <= s}
<1>1. N \in Nat /\ prev \in [Tx -> Pointer] /\ tail \in Pointer
  BY FS_CardinalityType, TxAssumption DEF CacheTypes, ListTypes
<1>2. FromTail = Walked(tail, prev, N)
  BY DEF FromTail, Walked
<1> HIDE DEF N
<1>3. DOMAIN FromTail = 0 .. N
  <2>1. Walked(tail, prev, N) \in [0 .. N -> Pointer]
    BY <1>1, WalkIs, Zenon
  <2> QED
    BY <1>2, <2>1
<1>4. back \in [Tx -> Int] /\ Cardinality(Tx) <= N
  BY <1>1 DEF N
<1>5. \A y \in C : prev[y] # Null => prev[y] \in C /\ back[y] < back[prev[y]]
  BY DEF PrevIn
<1> HIDE DEF back
<1>6. \A k \in 0 .. N : FromTail[k] \in C \cup {Null} /\ (k = N => FromTail[k] = Null)
  <2>1. tail \in C \cup {Null}
    OBVIOUS
  <2>2. \A k \in 0 .. N :
           /\ Walked(tail, prev, N)[k] \in C \cup {Null}
           /\ k = N => Walked(tail, prev, N)[k] = Null
           /\ \A i \in 0 .. k : Walked(tail, prev, N)[k] # Null =>
                /\ Walked(tail, prev, N)[i] # Null
                /\ i < k => back[Walked(tail, prev, N)[i]] < back[Walked(tail, prev, N)[k]]
    BY <1>1, <1>4, <1>5, <2>1, WalkRises, Zenon
  <2> QED
    BY <1>2, <2>2, Zenon
<1>7. N \in Stops /\ Stops \in SUBSET Nat
  BY <1>1, <1>3, <1>6, TxAssumption DEF Bad
<1> HIDE DEF Stops
<1> DEFINE least == CHOOSE k \in Stops : \A j \in Stops : k <= j
<1>8. least \in Stops
  BY <1>7, Least
<1>9. StopsAt(s) = FromTail[least]
  BY DEF StopsAt, Stops
<1> HIDE DEF least
<1>10. FromTail[least] \in C \cup {Null}
  BY <1>3, <1>6, <1>8 DEF Stops
<1> QED
  BY <1>9, <1>10, TxAssumption DEF Bad

\* With the cell that is linked the list C has become D, and the cells of S are still found.
Extended(C, S, rank, D, order) ==
  /\ C \subseteq D /\ D \subseteq C \cup {ins.tx}
  /\ \A x, y \in C : rank[x] <= rank[y] => order[x] <= order[y]
  /\ Linkage(D, S, order)'
  /\ S = C /\ ins.place \in {"back", "front"} \cup C =>
       ins.tx \in D /\ Linkage(D, D, order)' /\ (PrevIn(C, rank) => PrevIn(D, order)')

\* A cell linked into such a list, by an insert that does not take it for empty, breaks no way;
\* if nobody is inside, the list has it from then on.
LEMMA LinkLinks ==
  ASSUME CacheTypes, PassInv,
         NEW C \in SUBSET Came, NEW S \in SUBSET Came, NEW rank \in [Tx -> Int], Linkage(C, S, rank), S # {},
         InsertLink, up', ins.place # "first", \A y \in Tx : heap[y] = "new" => prev[y] = Null
  PROVE  \E D \in SUBSET Came', order \in [Tx -> Int] : Extended(C, S, rank, D, order)
<1>a. PICK t : t = ins.tx
  OBVIOUS
<1> DEFINE Goal(D, order) ==
             /\ C \subseteq D /\ D \subseteq C \cup {t}
             /\ \A x, y \in C : rank[x] <= rank[y] => order[x] <= order[y]
             /\ Linkage(D, S, order)'
             /\ S = C /\ ins.place \in {"back", "front"} \cup C =>
                  t \in D /\ Linkage(D, D, order)' /\ (PrevIn(C, rank) => PrevIn(D, order)')
<1>1. /\ t \in Tx /\ heap[t] = "new" /\ t \notin Came /\ Came \subseteq Tx /\ Null \notin Tx
      /\ next \in [Tx -> Pointer] /\ prev \in [Tx -> Pointer] /\ prev[t] = Null
  BY <1>a, TxAssumption DEF InsertLink, CacheTypes, InsertTypes, ListTypes, Came
<1>2. next[t] = Null /\ \A y \in Tx : next[y] # t
  BY <1>1 DEF PassInv, Chained
<1>3. /\ C \subseteq Tx /\ t \notin C /\ S \subseteq C /\ C # {}
      /\ \A y \in C : next[y] # Null => next[y] \in C /\ rank[y] < rank[next[y]]
      /\ \A y \in C, x \in S : rank[y] <= rank[x] =>
           y = x \/ (rank[y] < rank[x] /\ next[y] # Null /\ rank[next[y]] <= rank[x])
      /\ head \in C /\ tail \in C /\ \A x \in S : rank[head] <= rank[x] /\ rank[x] <= rank[tail]
      /\ \A y \in C : rank[y] \in Int
  BY <1>1 DEF Linkage
<1>4. Linked(t) => Came' = Came \cup {t}
  BY <1>1 DEF Linked, Came, CacheTypes, ListTypes
<1>5. ~Die
  BY DEF Die
<1>6. CASE LinkBack(t)
  <2>a. PICK D : D = C \cup {t}
    OBVIOUS
  <2>b. PICK order : order = [rank EXCEPT ![t] = rank[tail] + 1]
    OBVIOUS
  <2>1. /\ Linked(t) /\ prev' = [prev EXCEPT ![t] = tail] /\ next' = [next EXCEPT ![tail] = t]
        /\ tail' = t /\ head' = head
    BY <1>5, <1>6 DEF LinkBack
  <2>2. /\ order \in [Tx -> Int] /\ order[t] = rank[tail] + 1 /\ \A y \in C : order[y] = rank[y]
        /\ next'[tail] = t /\ \A y \in D : y # tail => next'[y] = next[y]
    BY <1>1, <1>3, <2>1, <2>a, <2>b
  <2>3. ASSUME NEW T \in {S, D}, T = S \/ S = C PROVE Linkage(D, T, order)'
    <3>1. T \subseteq D /\ D \subseteq Came'
      BY <1>3, <1>4, <2>1, <2>a
    <3>2. \A y \in D : next'[y] # Null => next'[y] \in D /\ order[y] < order[next'[y]]
      BY <1>2, <1>3, <2>2, <2>a
    <3>3. ASSUME NEW y \in D, NEW x \in T, order[y] <= order[x], y # x
          PROVE  order[y] < order[x] /\ next'[y] # Null /\ order[next'[y]] <= order[x]
      <4>1. CASE x = t
        <5>1. y \in C /\ tail \in S /\ rank[y] <= rank[tail]
          BY <1>3, <2>3, <2>a, <3>3, <4>1
        <5>2. CASE y = tail
          BY <1>1, <1>3, <2>2, <4>1, <5>2
        <5>3. CASE y # tail
          BY <1>3, <2>2, <4>1, <5>1, <5>3
        <5> QED
          BY <5>2, <5>3
      <4>2. CASE x # t
        <5>1. x \in S /\ x \in C /\ rank[x] <= rank[tail] /\ order[x] = rank[x]
          BY <1>3, <2>2, <2>3, <2>a, <4>2
        <5>2. y # t /\ y \in C /\ rank[y] <= rank[x]
          BY <1>3, <2>2, <2>a, <3>3, <5>1
        <5>3. rank[y] < rank[x] /\ next[y] # Null /\ rank[next[y]] <= rank[x] /\ next[y] \in C /\ y # tail
          BY <1>3, <3>3, <5>1, <5>2
        <5> QED
          BY <2>2, <5>1, <5>2, <5>3
      <4> QED
        BY <4>1, <4>2
    <3>4. head' \in D /\ tail' \in D /\ \A x \in T : order[head'] <= order[x] /\ order[x] <= order[tail']
      BY <1>3, <2>1, <2>2, <2>3, <2>a
    <3> QED
      BY <3>1, <3>2, <3>3, <3>4 DEF Linkage
  <2>4. PrevIn(C, rank) => PrevIn(D, order)'
    BY <1>1, <1>3, <2>1, <2>2, <2>a DEF PrevIn
  <2>5. Goal(D, order)
    BY <2>2, <2>3, <2>4, <2>a
  <2>6. D \in SUBSET Came'
    BY <1>3, <1>4, <2>1, <2>a
  <2> HIDE DEF Goal
  <2>7. \E E \in SUBSET Came', o \in [Tx -> Int] : Goal(E, o)
    BY <2>2, <2>5, <2>6
  <2> QED
    BY <1>a, <2>7 DEF Goal, Extended
<1>7. CASE LinkFront(t)
  <2>a. PICK D : D = C \cup {t}
    OBVIOUS
  <2>b. PICK order : order = [rank EXCEPT ![t] = rank[head] - 1]
    OBVIOUS
  <2>1. /\ Linked(t) /\ prev' = [prev EXCEPT ![head] = t] /\ next' = [next EXCEPT ![t] = head]
        /\ tail' = tail /\ head' = t
    BY <1>5, <1>7 DEF LinkFront
  <2>2. /\ order \in [Tx -> Int] /\ order[t] = rank[head] - 1 /\ \A y \in C : order[y] = rank[y]
        /\ next'[t] = head /\ \A y \in C : next'[y] = next[y]
    BY <1>1, <1>3, <2>1, <2>a, <2>b
  <2>3. ASSUME NEW T \in {S, D}, T = S \/ S = C PROVE Linkage(D, T, order)'
    <3>1. T \subseteq D /\ D \subseteq Came'
      BY <1>3, <1>4, <2>1, <2>a
    <3>2. \A y \in D : next'[y] # Null => next'[y] \in D /\ order[y] < order[next'[y]]
      BY <1>3, <2>2, <2>a
    <3>3. ASSUME NEW y \in D, NEW x \in T, order[y] <= order[x], y # x
          PROVE  order[y] < order[x] /\ next'[y] # Null /\ order[next'[y]] <= order[x]
      <4>1. CASE x = t
        <5>1. y \in C /\ rank[head] <= rank[y] /\ order[y] = rank[y]
          BY <1>3, <2>2, <2>3, <2>a, <3>3, <4>1
        <5> QED
          BY <1>3, <2>2, <3>3, <4>1, <5>1
      <4>2. CASE x # t
        <5>1. x \in S /\ x \in C /\ rank[head] <= rank[x] /\ order[x] = rank[x] /\ head # Null
          BY <1>1, <1>3, <2>2, <2>3, <2>a, <4>2
        <5>2. CASE y = t
          BY <1>3, <2>2, <5>1, <5>2
        <5>3. CASE y # t
          BY <1>3, <2>2, <2>a, <3>3, <5>1, <5>3
        <5> QED
          BY <5>2, <5>3
      <4> QED
        BY <4>1, <4>2
    <3>4. head' \in D /\ tail' \in D /\ \A x \in T : order[head'] <= order[x] /\ order[x] <= order[tail']
      <4>1. rank[head] <= rank[tail]
        BY <1>3
      <4> QED
        BY <1>3, <2>1, <2>2, <2>3, <2>a, <4>1
    <3> QED
      BY <3>1, <3>2, <3>3, <3>4 DEF Linkage
  <2>4. PrevIn(C, rank) => PrevIn(D, order)'
    BY <1>1, <1>3, <2>1, <2>2, <2>a DEF PrevIn
  <2>5. Goal(D, order)
    BY <2>2, <2>3, <2>4, <2>a
  <2>6. D \in SUBSET Came'
    BY <1>3, <1>4, <2>1, <2>a
  <2> HIDE DEF Goal
  <2>7. \E E \in SUBSET Came', o \in [Tx -> Int] : Goal(E, o)
    BY <2>2, <2>5, <2>6
  <2> QED
    BY <1>a, <2>7 DEF Goal, Extended
<1>8. ASSUME NEW p \in Tx, LinkAfter(t, p) PROVE \E E \in SUBSET Came', o \in [Tx -> Int] : Goal(E, o)
  <2>a. PICK n : n = next[p]
    OBVIOUS
  <2>1. /\ Linked(t) /\ prev' = [prev EXCEPT ![t] = p, ![n] = t] /\ next' = [next EXCEPT ![t] = n, ![p] = t]
        /\ tail' = tail /\ head' = head /\ ins.place = p /\ n # Null /\ n \in Tx
    BY <1>1, <1>5, <1>8, <2>a DEF LinkAfter, Bad
  <2>2. p # t /\ n # t /\ \A y \in Tx : next'[y] = IF y = p THEN t ELSE IF y = t THEN n ELSE next[y]
    BY <1>1, <1>2, <2>1, <2>a
  <2>3. CASE p \notin C
    <3>1. \A y \in C : next'[y] = next[y]
      BY <1>3, <2>2, <2>3
    <3>2. Linkage(C, S, rank)'
      BY <1>3, <1>4, <2>1, <3>1 DEF Linkage
    <3>3. ins.place \notin {"back", "front"} \cup C
      BY <2>1, <2>3, TxAssumption
    <3>4. Goal(C, rank)
      BY <3>2, <3>3
    <3>5. C \in SUBSET Came'
      BY <1>4, <2>1
    <3> HIDE DEF Goal
    <3> QED
      BY <3>4, <3>5
  <2>4. CASE p \in C
    <3>a. PICK D : D = C \cup {t}
      OBVIOUS
    <3>b. PICK order : order = [x \in Tx |-> IF x = t THEN rank[p] + 1 ELSE IF rank[x] > rank[p] THEN rank[x] + 1 ELSE rank[x]]
      OBVIOUS
    <3>1. /\ order \in [Tx -> Int]
          /\ \A x, y \in C : rank[x] <= rank[y] <=> order[x] <= order[y]
          /\ \A x \in C : order[x] <= order[t] <=> rank[x] <= rank[p]
          /\ \A x \in C : order[t] <= order[x] <=> rank[p] < rank[x]
          /\ \A x \in C : order[x] # order[t]
      BY <1>1, <1>3, <2>4, <3>b
    <3>2. n \in C /\ rank[p] < rank[n]
      BY <1>3, <2>1, <2>4, <2>a
    <3>3. \A x \in D : order[x] \in Int
      BY <1>1, <1>3, <3>1, <3>a
    <3>4. ASSUME NEW T \in {S, D}, T = S \/ S = C PROVE Linkage(D, T, order)'
      <4>1. T \subseteq D /\ D \subseteq Came'
        BY <1>3, <1>4, <2>1, <3>a
      <4>2. ASSUME NEW y \in D, next'[y] # Null PROVE next'[y] \in D /\ order[y] < order[next'[y]]
        <5>1. CASE y = p
          BY <3>a, <1>1, <2>2, <2>4, <3>1, <3>3, <5>1
        <5>2. CASE y = t
          BY <3>a, <1>1, <2>2, <3>1, <3>2, <3>3, <5>2
        <5>3. CASE y # p /\ y # t
          <6>1. next'[y] = next[y] /\ y \in C /\ next[y] \in C /\ rank[y] < rank[next[y]]
            BY <3>a, <1>3, <2>2, <4>2, <5>3
          <6>2. ~(order[next[y]] <= order[y])
            BY <3>a, <1>3, <3>1, <6>1
          <6> QED
            BY <3>a, <3>3, <6>1, <6>2
        <5> QED
          BY <5>1, <5>2, <5>3
      <4>3. ASSUME NEW y \in D, NEW x \in T, order[y] <= order[x], y # x
            PROVE  order[y] < order[x] /\ next'[y] # Null /\ order[next'[y]] <= order[x]
        <5>1. CASE x = t
          <6>1. y \in C /\ p \in S /\ rank[y] <= rank[p]
            BY <3>a, <1>3, <2>4, <3>1, <3>4, <4>3, <5>1
          <6>2. order[y] < order[t]
            BY <3>a, <1>1, <3>1, <3>3, <4>3, <5>1, <6>1
          <6>3. CASE y = p
            BY <3>a, <1>1, <2>2, <3>3, <5>1, <6>2, <6>3
          <6>4. CASE y # p
            <7>1. rank[next[y]] <= rank[p] /\ next[y] # Null /\ next[y] \in C /\ next'[y] = next[y]
              BY <3>a, <1>3, <2>2, <6>1, <6>4
            <7>2. order[next[y]] <= order[t]
              BY <3>a, <3>1, <7>1
            <7> QED
              BY <5>1, <6>2, <7>1, <7>2
          <6> QED
            BY <6>3, <6>4
        <5>2. CASE x # t
          <6>1. x \in S /\ x \in C
            BY <3>a, <1>3, <3>4, <5>2
          <6>2. CASE y = t
            <7>1. rank[p] < rank[x] /\ rank[p] <= rank[x] /\ p # x
              BY <3>a, <1>3, <2>4, <3>1, <4>3, <6>1, <6>2
            <7>2. rank[n] <= rank[x]
              BY <2>a, <1>3, <2>4, <6>1, <7>1
            <7>3. next'[y] = n /\ order[n] <= order[x]
              BY <3>a, <1>1, <2>2, <3>1, <3>2, <6>1, <6>2, <7>2
            <7>4. order[t] # order[x] /\ order[t] \in Int /\ order[x] \in Int
              BY <3>a, <1>1, <3>1, <3>3, <6>1
            <7> QED
              BY <3>a, <2>1, <4>3, <6>2, <7>3, <7>4
          <6>3. CASE y # t
            <7>1. y \in C /\ rank[y] <= rank[x]
              BY <3>a, <3>1, <4>3, <6>1, <6>3
            <7>2. rank[y] < rank[x] /\ next[y] # Null /\ next[y] \in C /\ rank[next[y]] <= rank[x]
              BY <3>a, <1>3, <4>3, <6>1, <7>1
            <7>3. order[y] < order[x]
              <8>1. ~(rank[x] <= rank[y])
                BY <3>a, <1>3, <6>1, <7>1, <7>2
              <8>2. ~(order[x] <= order[y])
                BY <3>a, <3>1, <6>1, <7>1, <8>1
              <8> QED
                BY <3>3, <6>1, <7>1, <8>2, <3>a
            <7>4. CASE y = p
              BY <3>a, <1>1, <2>2, <3>1, <6>1, <7>2, <7>3, <7>4
            <7>5. CASE y # p
              <8>1. next'[y] = next[y]
                BY <1>3, <2>2, <6>3, <7>1, <7>5
              <8> QED
                BY <3>a, <3>1, <6>1, <7>2, <7>3, <8>1
            <7> QED
              BY <7>4, <7>5
          <6> QED
            BY <6>2, <6>3
        <5> QED
          BY <5>1, <5>2
      <4>4. ASSUME NEW x \in T PROVE order[head'] <= order[x] /\ order[x] <= order[tail']
        <5>1. CASE x = t
          <6>1. rank[head] <= rank[p] /\ rank[n] <= rank[tail] /\ rank[p] < rank[tail]
            BY <3>a, <1>3, <2>4, <3>2, <3>4, <5>1
          <6> QED
            BY <3>a, <1>3, <2>1, <3>1, <5>1, <6>1
        <5>2. CASE x # t
          <6>1. x \in S /\ x \in C /\ rank[head] <= rank[x] /\ rank[x] <= rank[tail]
            BY <3>a, <1>3, <3>4, <5>2
          <6> QED
            BY <3>a, <1>3, <2>1, <3>1, <6>1
        <5> QED
          BY <5>1, <5>2
      <4>5. head' \in D /\ tail' \in D
        BY <3>a, <1>3, <2>1
      <4> QED
        BY <3>a, <4>1, <4>2, <4>3, <4>4, <4>5 DEF Linkage
    <3>5. PrevIn(C, rank) => PrevIn(D, order)'
      <4> SUFFICES ASSUME PrevIn(C, rank), NEW y \in D, prev'[y] # Null
                   PROVE  prev'[y] \in D /\ order[prev'[y]] < order[y]
        BY DEF PrevIn
      <4>1. prev'[y] = IF y = n THEN t ELSE IF y = t THEN p ELSE prev[y]
        BY <3>a, <1>1, <1>3, <2>1, <2>2
      <4>2. CASE y = n
        BY <3>a, <1>1, <3>1, <3>2, <3>3, <4>1, <4>2
      <4>3. CASE y = t
        BY <3>a, <1>1, <2>2, <2>4, <3>1, <3>3, <4>1, <4>3
      <4>4. CASE y # n /\ y # t
        <5>1. prev'[y] = prev[y] /\ y \in C /\ prev[y] \in C /\ rank[prev[y]] < rank[y]
          BY <3>a, <4>1, <4>4 DEF PrevIn
        <5>2. ~(order[y] <= order[prev[y]])
          BY <3>a, <1>3, <3>1, <5>1
        <5> QED
          BY <3>a, <3>3, <5>1, <5>2
      <4> QED
        BY <3>a, <4>2, <4>3, <4>4
    <3>6. Goal(D, order)
      BY <3>1, <3>4, <3>5, <3>a
    <3>7. D \in SUBSET Came'
      BY <1>3, <1>4, <2>1, <3>a
    <3> HIDE DEF Goal
    <3> QED
      BY <3>1, <3>6, <3>7
  <2> QED
    BY <2>3, <2>4
<1>9. LinkBack(t) \/ LinkFront(t) \/ \E p \in Tx : LinkAfter(t, p)
  BY <1>a DEF InsertLink, LinkFirst
<1> QED
  BY <1>a, <1>6, <1>7, <1>8, <1>9 DEF Extended

LEMMA LinkOwes == ASSUME CacheTypes, PassInv, LossInv, InsertLink PROVE LossInv'
<1> SUFFICES ASSUME up' PROVE LossInv'
  BY DEF LossInv
<1>a. PICK t : t = ins.tx
  OBVIOUS
<1>1. /\ t \in Tx /\ heap[t] = "new" /\ t \notin Came /\ Came \subseteq Tx /\ ins # NoInsert /\ up /\ ~Die
      /\ next \in [Tx -> Pointer] /\ prev \in [Tx -> Pointer]
  BY <1>a DEF InsertLink, CacheTypes, InsertTypes, ListTypes, Came, Die
<1>2. Linked(t)
  BY <1>1, <1>a DEF InsertLink, LinkFirst, LinkBack, LinkFront, LinkAfter
<1>3. /\ heap' = [heap EXCEPT ![t] = "live"] /\ ins' = NoInsert
      /\ UNCHANGED <<pc, cur, rest, last, visited, rounds, dropped, late>>
  BY <1>2 DEF Linked, local
<1>4. Reading' = Reading /\ Passed' = Passed /\ Came' = Came \cup {t}
  BY <1>1, <1>3 DEF Reading, Passed, Came, CacheTypes, ListTypes
<1>5. Owed' \subseteq Owed \cup {t} /\ (t \in late => Owed' \subseteq Owed)
  BY <1>3, <1>4 DEF Owed
<1>6. /\ Reading # {} => t \in late
      /\ \A x \in Tx : heap[x] = "new" => prev[x] = Null
      /\ Reading = {} => \E C \in SUBSET Came, rank \in [Tx -> Int] : Quiet(C, rank)
      /\ Reading # {} =>
           \/ Owed = {}
           \/ pc["distributor"] \in Clearing /\ Owed \subseteq CellsOf(visited)
           \/ pc["distributor"] \notin Clearing
              /\ \E C \in SUBSET Came, S \in SUBSET Came, rank \in [Tx -> Int] : Busy(C, S, rank)
  BY <1>1, <1>a DEF LossInv
<1>7. ASSUME NEW x \in Tx, heap'[x] = "new" PROVE prev'[x] = Null
  <2>1. heap[x] = "new" /\ x # t /\ prev[x] = Null
    BY <1>1, <1>3, <1>6, <1>7 DEF CacheTypes, ListTypes
  <2> QED
    BY <1>1, <1>a, <2>1 DEF InsertLink, LinkFirst, LinkBack, LinkFront, LinkAfter, Bad
<1>8. next[t] = Null /\ prev[t] = Null
  BY <1>1, <1>6 DEF PassInv, Chained
<1>9. CASE Reading = {}
  <2>1. PICK C \in SUBSET Came, rank \in [Tx -> Int] : Quiet(C, rank)
    BY <1>6, <1>9
  <2>2. CASE C = {} /\ ins.place = "first"
    <3>1. head' = t /\ tail' = t /\ next'[t] = Null /\ prev'[t] = Null
      BY <1>1, <1>8, <1>a, <2>2, TxAssumption DEF InsertLink, LinkFirst, LinkBack, LinkFront, LinkAfter
    <3>2. [x \in Tx |-> 0] \in [Tx -> Int] /\ {t} \in SUBSET Came'
      BY <1>4
    <3>3. PICK zero \in [Tx -> Int] : zero = [x \in Tx |-> 0]
      BY <3>2
    <3>4. Linkage({t}, {t}, zero)'
      BY <1>1, <1>4, <3>1, <3>3 DEF Linkage
    <3>5. PrevIn({t}, zero)' /\ Owed' \subseteq {t}
      BY <1>5, <2>1, <2>2, <3>1 DEF PrevIn, Quiet
    <3>6. Quiet({t}, zero)'
      BY <1>3, <3>4, <3>5 DEF Quiet
    <3> QED
      BY <1>3, <1>4, <1>7, <1>9, <3>2, <3>6 DEF LossInv
  <2>3. CASE C = {} /\ ins.place # "first"
    <3>1. t \in late /\ head = Null /\ tail = Null /\ Owed \subseteq {}
      BY <1>1, <1>a, <2>1, <2>3 DEF Quiet
    <3>2. head' = Null /\ tail' = Null
      BY <1>1, <1>a, <2>3, <3>1, TxAssumption DEF InsertLink, LinkFirst, LinkBack, LinkFront, LinkAfter, Bad
    <3>3. Quiet({}, rank)'
      BY <1>3, <1>5, <3>1, <3>2 DEF Quiet, Linkage, PrevIn
    <3> QED
      BY <1>3, <1>4, <1>7, <1>9, <3>3 DEF LossInv
  <2>4. CASE C # {}
    <3>1. ins.place \in {"back", "front"} \cup C /\ ins.place # "first"
      BY <1>1, <2>1, <2>4, TxAssumption DEF Quiet
    <3>2. PICK D \in SUBSET Came', order \in [Tx -> Int] :
             t \in D /\ C \subseteq D /\ Linkage(D, D, order)' /\ PrevIn(D, order)'
      <4>1. \E D \in SUBSET Came', order \in [Tx -> Int] : Extended(C, C, rank, D, order)
        BY <1>6, <2>1, <2>4, <3>1, LinkLinks DEF Quiet
      <4> QED
        BY <1>a, <2>1, <3>1, <4>1 DEF Extended, Quiet
    <3>3. Quiet(D, order)'
      BY <1>3, <1>5, <2>1, <3>2 DEF Quiet
    <3> QED
      BY <1>3, <1>4, <1>7, <1>9, <3>3 DEF LossInv
  <2> QED
    BY <2>2, <2>3, <2>4
<1>10. CASE Reading # {}
  <2>1. Owed' \subseteq Owed
    BY <1>5, <1>6, <1>10
  <2>2. CASE Owed = {} \/ (pc["distributor"] \in Clearing /\ Owed \subseteq CellsOf(visited))
    <3>1. CellsOf(visited)' = CellsOf(visited)
      BY <1>3 DEF CellsOf
    <3> QED
      BY <1>3, <1>4, <1>7, <1>10, <2>1, <2>2, <3>1 DEF LossInv
  <2>3. CASE pc["distributor"] \notin Clearing
             /\ \E C \in SUBSET Came, S \in SUBSET Came, rank \in [Tx -> Int] : Busy(C, S, rank)
    <3>1. PICK C \in SUBSET Came, S \in SUBSET Came, rank \in [Tx -> Int] : Busy(C, S, rank)
      BY <2>3
    <3>2. ins.place # "first" /\ Linkage(C, S, rank) /\ S # {} /\ S \subseteq C
      BY <1>1, <3>1 DEF Busy, Linkage
    <3>3. PICK D \in SUBSET Came', order \in [Tx -> Int] :
             /\ C \subseteq D /\ Linkage(D, S, order)'
             /\ \A x, y \in C : rank[x] <= rank[y] => order[x] <= order[y]
      <4>1. \E D \in SUBSET Came', order \in [Tx -> Int] : Extended(C, S, rank, D, order)
        BY <1>6, <3>1, <3>2, LinkLinks
      <4> QED
        BY <4>1 DEF Extended
    <3>4. pc["collector"] = "advance" => head' = head /\ heap'[head'] = "freed"
      <4> SUFFICES ASSUME pc["collector"] = "advance" PROVE head' = head /\ heap'[head'] = "freed"
        OBVIOUS
      <4>1. heap[head] = "freed" /\ head \in Tx
        BY <1>1, <3>1, <3>2 DEF Busy, Linkage
      <4>2. head' = head
        BY <1>1, <1>a, <3>2, <4>1 DEF InsertLink, LinkFirst, LinkBack, LinkFront, LinkAfter, Bad
      <4> QED
        BY <1>1, <1>3, <4>1, <4>2 DEF CacheTypes, ListTypes
    <3>5. CellsOf(visited)' = CellsOf(visited)
      BY <1>3 DEF CellsOf
    <3>6. Busy(D, S, order)'
      <4>1. S # {} /\ Owed' \subseteq S
        BY <2>1, <3>1 DEF Busy
      <4>2. pc'["collector"] = "advance" =>
              /\ ~last'["collector"] /\ heap'[head'] = "freed" /\ rest'["collector"] \in D
              /\ \A x \in S : order[rest'["collector"]] <= order[x]
        BY <1>3, <3>1, <3>2, <3>3, <3>4 DEF Busy
      <4>3. pc'["distributor"] = "copy" =>
              \A x \in S \ CellsOf(visited') :
                cur'["distributor"] \in D /\ order[cur'["distributor"]] <= order[x]
        BY <1>3, <3>1, <3>2, <3>3 DEF Busy
      <4>4. pc'["collector"] # "reset"
        BY <1>3, <3>1 DEF Busy
      <4> QED
        BY <1>3, <3>3, <4>1, <4>2, <4>3, <4>4 DEF Busy, CellsOf
    <3>7. S \in SUBSET Came'
      BY <1>4
    <3> QED
      BY <1>3, <1>4, <1>7, <1>10, <2>3, <3>3, <3>6, <3>7 DEF LossInv
  <2> QED
    BY <1>6, <1>10, <2>2, <2>3
<1> QED
  BY <1>9, <1>10

LEMMA SearchOwes ==
  ASSUME CacheTypes, PassInv, LossInv, NEW t \in Tx, NEW s \in 1 .. MaxStamp, InsertSearch(t, s) PROVE LossInv'
<1> SUFFICES ASSUME up' PROVE LossInv'
  BY DEF LossInv
<1>1. /\ up /\ ins = NoInsert
      /\ UNCHANGED <<heap, next, prev, head, tail, pc, cur, rest, last, visited, rounds, dropped>>
      /\ late' = IF Reading # {} THEN late \cup {t} ELSE late
  BY DEF InsertSearch, Die, local
<1>2. PICK place : /\ ins' = [tx |-> t, place |-> place]
                   /\ head = Null => place = "first"
                   /\ head # Null => place \in {"back", "front"} \/ (place = StopsAt(s) /\ ~Bad(StopsAt(s)))
  BY DEF InsertSearch, Die
<1>3. /\ Reading' = Reading /\ Came' = Came /\ Owed' \subseteq Owed /\ CellsOf(visited)' = CellsOf(visited)
      /\ \A C, S, rank : Linkage(C, S, rank)' <=> Linkage(C, S, rank)
      /\ \A C, rank : PrevIn(C, rank)' <=> PrevIn(C, rank)
  BY <1>1 DEF Reading, Came, Owed, Passed, CellsOf, Linkage, PrevIn
<1>4. \A x \in Tx : heap[x] = "new" => prev[x] = Null
  BY <1>1 DEF LossInv
<1>5. ins'.tx = t /\ ins'.place = place
  BY <1>2
<1>6. CASE Reading = {}
  <2>1. PICK C \in SUBSET Came, rank \in [Tx -> Int] : Quiet(C, rank)
    BY <1>1, <1>6 DEF LossInv
  <2>2. C \subseteq Tx /\ Null \notin Tx
    BY TxAssumption DEF Came
  <2>3. CASE C = {}
    <3>1. place = "first"
      BY <1>2, <2>1, <2>3 DEF Quiet
    <3>2. Quiet(C, rank)'
      BY <1>1, <1>3, <1>5, <2>1, <2>3, <3>1 DEF Quiet
    <3> QED
      BY <1>1, <1>3, <1>4, <1>6, <2>1, <3>2 DEF LossInv
  <2>4. CASE C # {}
    <3>1. head # Null /\ tail \in C /\ PrevIn(C, rank)
      BY <2>1, <2>2, <2>4 DEF Quiet, Linkage
    <3>2. s \in Nat
      BY StampAssumption
    <3>3. ~Bad(StopsAt(s)) => StopsAt(s) \in C
      BY <2>2, <3>1, <3>2, StopsIn
    <3>4. place \in {"back", "front"} \cup C
      BY <1>2, <3>1, <3>3
    <3>5. Quiet(C, rank)'
      BY <1>1, <1>3, <1>5, <2>1, <2>4, <3>4 DEF Quiet
    <3> QED
      BY <1>1, <1>3, <1>4, <1>6, <2>1, <3>5 DEF LossInv
  <2> QED
    BY <2>3, <2>4
<1>7. CASE Reading # {}
  <2>1. ins'.tx \in late'
    BY <1>1, <1>5, <1>7
  <2>2. CASE Owed = {} \/ (pc["distributor"] \in Clearing /\ Owed \subseteq CellsOf(visited))
    BY <1>1, <1>3, <1>4, <1>7, <2>1, <2>2 DEF LossInv
  <2>3. CASE pc["distributor"] \notin Clearing
             /\ \E C \in SUBSET Came, S \in SUBSET Came, rank \in [Tx -> Int] : Busy(C, S, rank)
    <3>1. PICK C \in SUBSET Came, S \in SUBSET Came, rank \in [Tx -> Int] : Busy(C, S, rank)
      BY <2>3
    <3>2. head # Null
      BY <3>1, TxAssumption DEF Busy, Linkage, Came
    <3>3. StopsAt(s) \in Tx => StopsAt(s) # "first"
      BY TxAssumption
    <3>4. place # "first"
      <4>1. ~Bad(StopsAt(s)) => StopsAt(s) \in Tx
        BY DEF Bad
      <4> QED
        BY <1>2, <3>2, <3>3, <4>1
    <3>5. Busy(C, S, rank)'
      BY <1>1, <1>3, <1>5, <3>1, <3>4 DEF Busy, CellsOf
    <3> QED
      BY <1>1, <1>3, <1>4, <1>7, <2>1, <2>3, <3>1, <3>5 DEF LossInv
  <2> QED
    BY <1>1, <1>7, <2>2, <2>3 DEF LossInv
<1> QED
  BY <1>6, <1>7

\* A reader that goes into a list nobody reads finds all that is owed.
LEMMA EnterOwes ==
  ASSUME CacheTypes, LossInv, up, up',
         UNCHANGED <<list, ins, rounds, dropped, rest, last>>, late' = Overtaken, Reading' # {},
         pc'["collector"] \notin {"advance", "reset"} \/ (Reading # {} /\ pc'["collector"] = pc["collector"]),
         \/ pc'["distributor"] = "copy" /\ pc["distributor"] = "gather" /\ cur'["distributor"] = head
         \/ /\ pc'["distributor"] = pc["distributor"] /\ visited' = visited
            /\ cur'["distributor"] = cur["distributor"]
  PROVE  LossInv'
<1>1. /\ Came' = Came /\ Owed' \subseteq Owed
      /\ \A C, S, rank : Linkage(C, S, rank)' <=> Linkage(C, S, rank)
  BY DEF Came, Owed, Passed, Linkage, Overtaken, list
<1>2. ins' # NoInsert => ins'.tx \in late'
  BY DEF Overtaken
<1>3. \A x \in Tx : heap'[x] = "new" => prev'[x] = Null
  BY DEF LossInv, list
<1>4. CASE Owed' = {}
  BY <1>2, <1>3, <1>4 DEF LossInv
<1>5. CASE Owed' # {}
  <2>1. CASE Reading = {}
    <3>1. PICK C \in SUBSET Came, rank \in [Tx -> Int] : Quiet(C, rank)
      BY <2>1 DEF LossInv
    <3>2. C # {} /\ Owed' \subseteq C /\ C \subseteq Tx
      BY <1>1, <1>5, <3>1 DEF Quiet, Came
    <3>3. Linkage(C, C, rank)' /\ head \in C /\ \A x \in C : rank[head] <= rank[x]
      <4>1. Linkage(C, C, rank)
        BY <3>1 DEF Quiet
      <4>2. Linkage(C, C, rank)'
        BY <1>1, <4>1
      <4> QED
        BY <3>2, <4>1, <4>2 DEF Linkage
    <3>4. ins # NoInsert => ins.place # "first"
      BY <3>1, <3>2, TxAssumption DEF Quiet
    <3>5. pc["distributor"] \in {"idle", "gather"}
      BY <2>1, Readers DEF Reading
    <3>6. Busy(C, C, rank)'
      BY <2>1, <3>2, <3>3, <3>4, <3>5 DEF Busy
    <3> QED
      BY <1>1, <1>2, <1>3, <3>5, <3>6 DEF LossInv, Clearing
  <2>2. CASE Reading # {} /\ pc["distributor"] \in Clearing
    <3>1. Owed' \subseteq CellsOf(visited') /\ pc'["distributor"] = pc["distributor"]
      BY <1>1, <2>2 DEF LossInv, Clearing, CellsOf
    <3> QED
      BY <1>2, <1>3, <2>2, <3>1 DEF LossInv, CellsOf
  <2>3. CASE Reading # {} /\ pc["distributor"] \notin Clearing
    <3>1. PICK C \in SUBSET Came, S \in SUBSET Came, rank \in [Tx -> Int] : Busy(C, S, rank)
      BY <1>1, <1>5, <2>3 DEF LossInv
    <3>2. Linkage(C, S, rank)' /\ head \in C /\ (\A x \in S : rank[head] <= rank[x]) /\ Owed' \subseteq S
      <4>1. Linkage(C, S, rank) /\ S # {} /\ Owed' \subseteq S
        BY <1>1, <3>1 DEF Busy
      <4>2. Linkage(C, S, rank)'
        BY <1>1, <4>1
      <4> QED
        BY <4>1, <4>2 DEF Linkage
    <3>3. pc'["distributor"] = "copy" =>
            \A x \in S \ CellsOf(visited') :
              cur'["distributor"] \in C /\ rank[cur'["distributor"]] <= rank[x]
      BY <3>1, <3>2 DEF Busy
    <3>4. Busy(C, S, rank)'
      BY <2>3, <3>1, <3>2, <3>3 DEF Busy, list, CellsOf
    <3> QED
      BY <1>1, <1>2, <1>3, <2>3, <3>1, <3>4 DEF LossInv, Clearing
  <2> QED
    BY <2>1, <2>2, <2>3
<1> QED
  BY <1>4, <1>5

LEMMA ReadOwes ==
  ASSUME CacheTypes, PassInv, LossInv,
         BecomeLeader \/ StartDistribute \/ Gather \/ Copy \/ StartCollect \/ Walk
  PROVE  LossInv'
<1> SUFFICES ASSUME up' PROVE LossInv'
  BY DEF LossInv
<1>1. up /\ ~Die /\ UNCHANGED <<list, ins, rounds, dropped, rest, last>>
  BY DEF BecomeLeader, StartDistribute, Gather, Copy, StartCollect, Walk, local, Die
<1>2. pc \in [Reader -> {"idle", "gather", "copy", "walk", "clear", "advance", "reset"}] /\ cur \in [Reader -> Pointer]
  BY DEF CacheTypes, ReaderTypes
<1>3. CASE Gather
  <2>1. pc' = [pc EXCEPT !["distributor"] = "copy"] /\ cur' = [cur EXCEPT !["distributor"] = head]
        /\ pc["distributor"] = "gather" /\ late' = Overtaken
    BY <1>3 DEF Gather
  <2>2. pc'["distributor"] = "copy" /\ pc'["collector"] = pc["collector"] /\ cur'["distributor"] = head
    BY <1>2, <2>1, Readers
  <2>3. Reading' # {} /\ (Reading = {} => pc["collector"] \in {"idle", "gather"})
    BY <2>2, Readers DEF Reading
  <2> QED
    BY <1>1, <2>1, <2>2, <2>3, EnterOwes
<1>4. CASE StartCollect
  <2>1. /\ pc'["collector"] \in {"walk", "clear"} /\ pc'["distributor"] = pc["distributor"]
        /\ cur'["distributor"] = cur["distributor"] /\ late' = Overtaken /\ visited' = visited
    BY <1>2, <1>4, Readers DEF StartCollect
  <2>2. Reading' # {}
    BY <2>1, Readers DEF Reading
  <2> QED
    BY <1>1, <2>1, <2>2, EnterOwes
<1>5. CASE ~Gather /\ ~StartCollect
  <2>1. late' = late
    BY <1>1, <1>5 DEF BecomeLeader, StartDistribute, Copy, Walk
  <2>2. /\ Came' = Came /\ Owed' = Owed
        /\ \A C, S, rank : Linkage(C, S, rank)' <=> Linkage(C, S, rank)
        /\ \A C, rank : PrevIn(C, rank)' <=> PrevIn(C, rank)
        /\ \A C, rank : Quiet(C, rank)' <=> Quiet(C, rank)
    BY <1>1, <2>1 DEF Came, Owed, Passed, Linkage, PrevIn, Quiet, list
  <2>3. Reading' = Reading
    BY <1>1, <1>2, <1>5, Readers DEF BecomeLeader, StartDistribute, Copy, Walk, Reading
  <2>4. CASE ~Copy
    <3>1. visited' = visited /\ cur'["distributor"] = cur["distributor"]
      BY <1>1, <1>2, <1>5, <2>4, Readers DEF BecomeLeader, StartDistribute, Walk, local
    <3>2. /\ pc'["collector"] = pc["collector"] \/ pc'["collector"] \in {"walk", "clear"}
          /\ pc'["distributor"] = pc["distributor"] \/ (pc["distributor"] = "idle" /\ pc'["distributor"] = "gather")
      BY <1>1, <1>2, <1>5, <2>4, Readers DEF BecomeLeader, StartDistribute, Walk
    <3>3. \A C, S, rank : Busy(C, S, rank) => Busy(C, S, rank)'
      BY <1>1, <2>2, <3>1, <3>2 DEF Busy, list, CellsOf
    <3> QED
      BY <1>1, <2>1, <2>2, <2>3, <3>1, <3>2, <3>3 DEF LossInv, Clearing, list, CellsOf
  <2>5. CASE Copy
    <3>a. PICK c : c = cur["distributor"]
      OBVIOUS
    <3>1. /\ pc["distributor"] = "copy" /\ c \in Tx /\ visited' = Append(visited, c)
          /\ cur' = [cur EXCEPT !["distributor"] = next[c]]
          /\ pc' = [pc EXCEPT !["distributor"] = IF c = tail THEN "clear" ELSE "copy"]
      BY <1>1, <2>5, <3>a DEF Copy, Bad
    <3>2. CellsOf(visited') = CellsOf(visited) \cup {c}
      <4>1. visited \in Seq(Tx)
        BY DEF CacheTypes, ReaderTypes
      <4> QED
        BY <3>1, <4>1 DEF CellsOf
    <3>3. Reading # {}
      BY <3>1, Readers DEF Reading
    <3>4. CASE Owed = {}
      BY <1>1, <2>1, <2>2, <2>3, <3>3, <3>4 DEF LossInv, list
    <3>5. CASE Owed # {}
      <4>1. PICK C \in SUBSET Came, S \in SUBSET Came, rank \in [Tx -> Int] : Busy(C, S, rank)
        BY <1>1, <3>1, <3>3, <3>5 DEF LossInv, Clearing
      <4>2. /\ \A y \in C, x \in S : rank[y] <= rank[x] =>
                  y = x \/ (rank[y] < rank[x] /\ next[y] # Null /\ rank[next[y]] <= rank[x])
            /\ \A y \in C : next[y] # Null => next[y] \in C
            /\ \A x \in S : rank[x] <= rank[tail] /\ rank[x] \in Int
            /\ \A x \in S \ CellsOf(visited) : c \in C /\ rank[c] <= rank[x] /\ rank[c] \in Int
            /\ Owed \subseteq S
        BY <3>1, <3>a, <4>1 DEF Busy, Linkage, Came
      <4>3. CASE c = tail
        <5>1. \A x \in S \ CellsOf(visited) : x = c
          BY <4>2, <4>3
        <5>2. Owed' \subseteq CellsOf(visited')
          BY <2>2, <3>2, <4>2, <5>1
        <5>3. pc'["distributor"] = "clear"
          BY <1>2, <3>1, <4>3, Readers
        <5> QED
          BY <1>1, <2>1, <2>3, <3>3, <5>2, <5>3 DEF LossInv, Clearing, list, CellsOf
      <4>4. CASE c # tail
        <5>1. /\ pc'["distributor"] = "copy" /\ pc'["collector"] = pc["collector"]
              /\ cur'["distributor"] = next[c]
          BY <1>2, <3>1, <4>4, Readers
        <5>2. \A x \in S \ CellsOf(visited') : next[c] \in C /\ rank[next[c]] <= rank[x]
          BY <3>2, <4>2
        <5>3. \A x \in S \ CellsOf(visited') :
                cur'["distributor"] \in C /\ rank[cur'["distributor"]] <= rank[x]
          BY <5>1, <5>2
        <5>4. Busy(C, S, rank)'
          BY <1>1, <2>2, <4>1, <5>1, <5>3 DEF Busy, list, CellsOf
        <5> QED
          BY <1>1, <2>1, <2>2, <2>3, <3>3, <4>1, <5>1, <5>4 DEF LossInv, Clearing, list
      <4> QED
        BY <4>3, <4>4
    <3> QED
      BY <3>4, <3>5
  <2> QED
    BY <2>4, <2>5
<1> QED
  BY <1>3, <1>4, <1>5

LEMMA ClearOwes ==
  ASSUME CacheTypes, PassInv, LossInv, NEW r \in Reader, ClearDelete(r) \/ ClearAdvance(r) \/ ClearReset(r)
  PROVE  LossInv'
<1> SUFFICES ASSUME up' PROVE LossInv'
  BY DEF LossInv
<1>1. up /\ ~Die /\ UNCHANGED <<next, prev, ins, cur, visited, late>> /\ pc[r] \in Clearing
  BY DEF ClearDelete, ClearAdvance, ClearReset, Die, local, Clearing
<1>2. /\ pc \in [Reader -> {"idle", "gather", "copy", "walk", "clear", "advance", "reset"}]
      /\ last \in [Reader -> BOOLEAN] /\ rest \in [Reader -> Pointer]
      /\ heap \in [Tx -> {"new", "live", "freed"}] /\ rounds \in Seq(Seq(Tx)) /\ visited \in Seq(Tx)
  BY DEF CacheTypes, ListTypes, ReaderTypes, HistoryTypes
<1>3. Reading # {} /\ (ins' # NoInsert => ins'.tx \in late')
  <2>1. Reading # {}
    BY <1>1 DEF Reading, Clearing
  <2> QED
    BY <1>1, <2>1 DEF LossInv
<1>4. Came' = Came /\ \A x \in Tx : heap'[x] = "new" => prev'[x] = Null
  <2>1. \A x \in Tx : heap'[x] = "new" <=> heap[x] = "new"
    BY <1>1, <1>2 DEF ClearDelete, ClearAdvance, ClearReset, Bad
  <2>2. \A x \in Tx : heap[x] = "new" => prev[x] = Null
    BY <1>1 DEF LossInv
  <2> QED
    BY <1>1, <2>1, <2>2 DEF Came
<1>5. [x \in Tx |-> 0] \in [Tx -> Int]
  OBVIOUS
<1>6. CASE ClearReset(r)
  <2>1. /\ head' = Null /\ tail' = Null /\ dropped' = dropped /\ pc[r] = "reset"
        /\ rounds' = IF r = "collector" THEN rounds ELSE Append(rounds, visited)
        /\ pc' = [pc EXCEPT ![r] = "idle"]
    BY <1>6 DEF ClearReset
  <2>2. CASE r = "collector"
    <3>1. Owed' = Owed /\ pc'["distributor"] = pc["distributor"] /\ CellsOf(visited') = CellsOf(visited)
      BY <1>1, <1>2, <1>4, <2>1, <2>2, Readers DEF Owed, Passed, CellsOf
    <3>2. Owed = {} \/ (pc["distributor"] \in Clearing /\ Owed \subseteq CellsOf(visited))
      BY <1>1, <1>3, <2>1, <2>2 DEF LossInv, Busy
    <3>3. CASE Reading' # {}
      BY <1>3, <1>4, <3>1, <3>2, <3>3 DEF LossInv, CellsOf
    <3>4. CASE Reading' = {}
      <4>1. pc["distributor"] \notin Clearing
        BY <3>1, <3>4, Readers DEF Reading, Clearing
      <4>2. Owed' = {} /\ (ins' # NoInsert => ins'.tx \in late')
        BY <1>3, <3>1, <3>2, <4>1
      <4>3. PICK zero \in [Tx -> Int] : zero = [x \in Tx |-> 0]
        BY <1>5
      <4>4. Quiet({}, zero)'
        BY <2>1, <4>2 DEF Quiet, Linkage, PrevIn
      <4> QED
        BY <1>4, <3>4, <4>4 DEF LossInv
    <3> QED
      BY <3>3, <3>4
  <2>3. CASE r = "distributor"
    <3>1. Passed' = Passed \cup CellsOf(visited)
      <4>1. DOMAIN rounds' = DOMAIN rounds \cup {Len(rounds) + 1} /\ rounds'[Len(rounds) + 1] = visited
            /\ \A i \in DOMAIN rounds : rounds'[i] = rounds[i]
        BY <1>2, <2>1, <2>3
      <4> QED
        BY <4>1 DEF Passed
    <3>2. Owed \subseteq CellsOf(visited)
      BY <1>1, <1>3, <2>3 DEF LossInv
    <3>3. Owed' = {}
      BY <1>1, <1>4, <2>1, <3>1, <3>2 DEF Owed
    <3>4. PICK zero \in [Tx -> Int] : zero = [x \in Tx |-> 0]
      BY <1>5
    <3>5. Quiet({}, zero)'
      BY <1>3, <2>1, <3>3 DEF Quiet, Linkage, PrevIn
    <3> QED
      BY <1>3, <1>4, <3>3, <3>5 DEF LossInv
  <2> QED
    BY <2>2, <2>3 DEF Reader
<1>7. CASE ClearDelete(r) \/ ClearAdvance(r)
  <2>1. tail' = tail
    BY <1>1, <1>7 DEF ClearDelete, ClearAdvance
  <2>2. Reading' # {} /\ Passed' = Passed /\ Owed' \subseteq Owed
    <3>1. rounds' = rounds /\ dropped \subseteq dropped' /\ pc'[r] \in Clearing
      BY <1>1, <1>2, <1>7 DEF ClearDelete, ClearAdvance, Clearing
    <3> QED
      BY <1>1, <1>4, <3>1 DEF Reading, Passed, Owed, Clearing
  <2>3. /\ pc["distributor"] \in Clearing => pc'["distributor"] \in Clearing
        /\ r = "collector" => pc'["distributor"] = pc["distributor"]
    BY <1>1, <1>2, <1>7, Readers DEF ClearDelete, ClearAdvance, Clearing
  <2>4. CASE Owed' = {}
    BY <1>3, <1>4, <2>2, <2>4 DEF LossInv
  <2>5. CASE pc["distributor"] \in Clearing
    <3>1. Owed' \subseteq CellsOf(visited')
      BY <1>1, <1>3, <2>2, <2>5 DEF LossInv, CellsOf
    <3> QED
      BY <1>3, <1>4, <2>2, <2>3, <2>5, <3>1 DEF LossInv, CellsOf
  <2>6. CASE Owed' # {} /\ pc["distributor"] \notin Clearing
    <3>1. r = "collector" /\ pc'["distributor"] = pc["distributor"]
      BY <1>1, <2>3, <2>6 DEF Reader
    <3>2. PICK C \in SUBSET Came, S \in SUBSET Came, rank \in [Tx -> Int] : Busy(C, S, rank)
      BY <1>1, <1>3, <2>2, <2>6 DEF LossInv
    <3>3. /\ S \subseteq C /\ C \subseteq Came /\ head \in C /\ tail \in C /\ Came \subseteq Tx
          /\ \A y \in C : next[y] # Null => next[y] \in C /\ rank[y] < rank[next[y]]
          /\ \A y \in C, x \in S : rank[y] <= rank[x] =>
               y = x \/ (rank[y] < rank[x] /\ next[y] # Null /\ rank[next[y]] <= rank[x])
          /\ \A x \in S : rank[head] <= rank[x] /\ rank[x] <= rank[tail]
          /\ Owed \subseteq S /\ (ins # NoInsert => ins.place # "first")
      BY <3>2 DEF Busy, Linkage, Came
    <3>4. pc'["distributor"] = "copy" =>
            \A x \in S \ CellsOf(visited') :
              cur'["distributor"] \in C /\ rank[cur'["distributor"]] <= rank[x]
      BY <1>1, <3>1, <3>2 DEF Busy, CellsOf
    <3>5. CASE ClearDelete(r)
      <4>a. PICK h : h = head
        OBVIOUS
      <4>1. /\ head' = head /\ last' = [last EXCEPT !["collector"] = (h = tail)]
            /\ rest' = [rest EXCEPT !["collector"] = next[h]] /\ heap' = [heap EXCEPT ![h] = "freed"]
            /\ dropped' = dropped \cup {h} /\ pc' = [pc EXCEPT !["collector"] = "advance"]
        BY <1>1, <3>1, <3>5, <4>a DEF ClearDelete
      <4>b. PICK T : T = S \ {h}
        OBVIOUS
      <4>2. Owed' \subseteq T /\ T # {} /\ T \subseteq S
        BY <1>1, <2>2, <2>6, <3>3, <4>1, <4>b DEF Owed
      <4>3. h \in C /\ \A x \in C : rank[x] \in Int
        BY <3>3, <4>a
      <4>4. \A x \in T : rank[h] < rank[x] /\ next[h] # Null /\ next[h] \in C /\ rank[next[h]] <= rank[x]
        BY <3>3, <4>3, <4>a, <4>b
      <4>5. h # tail
        BY <3>3, <4>2, <4>3, <4>4
      <4>6. /\ ~last'["collector"] /\ heap'[head'] = "freed" /\ rest'["collector"] = next[h]
            /\ pc'["collector"] = "advance"
        BY <1>2, <3>3, <4>1, <4>3, <4>5, <4>a, Readers
      <4>7. rest'["collector"] \in C /\ \A x \in T : rank[rest'["collector"]] <= rank[x]
        BY <4>2, <4>4, <4>6
      <4>8. Linkage(C, T, rank)'
        BY <1>1, <1>4, <2>1, <3>3, <4>1, <4>2 DEF Linkage
      <4>9. \A x \in T \ CellsOf(visited') : x \in S \ CellsOf(visited')
        BY <4>2
      <4>10. Busy(C, T, rank)'
        BY <1>1, <3>3, <3>4, <4>2, <4>6, <4>7, <4>8, <4>9 DEF Busy, CellsOf
      <4>11. T \in SUBSET Came'
        BY <1>4, <4>2
      <4> QED
        BY <1>3, <1>4, <2>2, <2>6, <3>1, <4>10, <4>11 DEF LossInv
    <3>6. CASE ClearAdvance(r)
      <4>1. pc["collector"] = "advance" /\ head' = rest["collector"] /\ heap' = heap
            /\ pc' = [pc EXCEPT !["collector"] = IF last["collector"] THEN "reset" ELSE "clear"]
        BY <3>1, <3>6 DEF ClearAdvance
      <4>2. /\ ~last["collector"] /\ rest["collector"] \in C
            /\ \A x \in S : rank[rest["collector"]] <= rank[x]
        BY <3>2, <4>1 DEF Busy
      <4>3. pc'["collector"] = "clear"
        BY <1>2, <4>1, <4>2, Readers
      <4>4. Linkage(C, S, rank)'
        BY <1>1, <1>4, <2>1, <3>3, <4>1, <4>2 DEF Linkage
      <4>5. S # {} /\ Owed' \subseteq S
        BY <2>2, <3>2 DEF Busy
      <4>6. Busy(C, S, rank)'
        BY <1>1, <3>3, <3>4, <4>3, <4>4, <4>5 DEF Busy, CellsOf
      <4> QED
        BY <1>3, <1>4, <2>2, <2>6, <3>1, <4>6 DEF LossInv
    <3> QED
      BY <1>7, <3>5, <3>6
  <2> QED
    BY <2>4, <2>5, <2>6
<1> QED
  BY <1>6, <1>7

LEMMA LossInvStep == ASSUME CacheTypes, PassInv, LossInv, [Next]_vars PROVE LossInv'
<1>1. CASE UNCHANGED vars
  <2>1. UNCHANGED <<list, ins, pc, cur, rest, last, visited, rounds, dropped, late, up>>
    BY <1>1 DEF vars, local
  <2>2. /\ Reading' = Reading /\ Came' = Came /\ Owed' = Owed /\ CellsOf(visited') = CellsOf(visited)
        /\ \A C, S, rank : Linkage(C, S, rank)' <=> Linkage(C, S, rank)
        /\ \A C, rank : PrevIn(C, rank)' <=> PrevIn(C, rank)
    BY <2>1 DEF list, Reading, Came, Owed, Passed, CellsOf, Linkage, PrevIn
  <2>3. /\ \A C, rank : Quiet(C, rank)' <=> Quiet(C, rank)
        /\ \A C, S, rank : Busy(C, S, rank)' <=> Busy(C, S, rank)
    BY <2>1, <2>2 DEF list, Quiet, Busy, CellsOf
  <2> QED
    BY <2>1, <2>2, <2>3 DEF list, LossInv, CellsOf
<1> QED
  BY <1>1, LinkOwes, SearchOwes, ReadOwes, ClearOwes, Readers DEF Next, Insert, Distribute, Collect

\* LossExplained: whenever nobody reads or clears the list, a transaction that was accepted is
\* in it, was passed over by a round of generate_block, was deleted for another LEADER, or was
\* inserted beside a reader - for any number of transactions and every interleaving.
THEOREM LossesExplained == Spec => []LossExplained
<1>1. Init => CacheTypes /\ PassInv /\ LossInv
  BY CacheTypesInit, PassInvInit, LossInvInit
<1>2. CacheTypes /\ PassInv /\ LossInv /\ [Next]_vars => (CacheTypes /\ PassInv /\ LossInv)'
  BY CacheTypesStep, PassInvStep, LossInvStep
<1>3. CacheTypes /\ LossInv => LossExplained
  <2> SUFFICES ASSUME CacheTypes, LossInv, up, Reading = {}
               PROVE  Came \subseteq CellsOf(Path) \cup Passed \cup dropped \cup late
    BY DEF LossExplained
  <2>1. PICK C \in SUBSET Came, rank \in [Tx -> Int] : Quiet(C, rank)
    BY DEF LossInv
  <2>2. C \subseteq Tx /\ Linkage(C, C, rank) /\ (C = {} => head = Null) /\ Owed \subseteq C
    BY <2>1 DEF Quiet, Came
  <2>3. C \subseteq CellsOf(Path)
    BY <2>2, Reached
  <2> QED
    BY <2>2, <2>3 DEF Owed
<1> QED
  BY <1>1, <1>2, <1>3, PTL DEF Spec
=============================================================================
