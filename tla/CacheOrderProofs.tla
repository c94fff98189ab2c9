-------------------------- MODULE CacheOrderProofs --------------------------
(***************************************************************************)
(* Theorems about TxCache where inserts and readers keep apart (Serial):   *)
(* the list is a sequence sorted by timestamp, insert_tx puts each cell    *)
(* where SortedCache does, and a bad pointer is followed in three cases.   *)
(***************************************************************************)
EXTENDS CacheProofs

HeadOf(q) == IF q = <<>> THEN Null ELSE q[1]
TailOf(q) == IF q = <<>> THEN Null ELSE q[Len(q)]

\* The live cells are those of q, chained in this order, no later one before an earlier.
ListIs(q) ==
  /\ \A i, j \in 1 .. Len(q) : q[i] = q[j] => i = j
  /\ \A x \in Tx : heap[x] = "live" <=> x \in CellsOf(q)
  /\ \A i, j \in 1 .. Len(q) : i < j => stamp[q[i]] <= stamp[q[j]]
  /\ \A i \in 1 .. Len(q) : next[q[i]] = IF i = Len(q) THEN Null ELSE q[i + 1]
  /\ \A x \in Tx : heap[x] = "new" => next[x] = Null /\ prev[x] = Null

\* While nobody clears the list its ends and its backward links are right too.
Intact(q) ==
  /\ head = HeadOf(q) /\ tail = TailOf(q)
  /\ \A i \in 1 .. Len(q) : prev[q[i]] = IF i = 1 THEN Null ELSE q[i - 1]

\* An insert that has found its place, after the first i cells.
Found(q, i) ==
  /\ \A j \in 1 .. Len(q) : stamp[q[j]] <= stamp[ins.tx] <=> j <= i
  /\ ins.place = IF q = <<>> THEN "first" ELSE IF i = 0 THEN "front"
                 ELSE IF stamp[ins.tx] > stamp[q[Len(q)]] THEN "back" ELSE q[i]

\* What is left of the list while reader r clears it.
Cleared(r, q) ==
  /\ q # <<>> => tail = q[Len(q)]
  /\ pc[r] = "clear" => head = HeadOf(q)
  /\ pc[r] = "advance" => rest[r] = HeadOf(q) /\ (last[r] <=> q = <<>>)
  /\ pc[r] = "reset" => q = <<>> /\ head = Null

\* generate_block has passed over a proper part of the list, or finds none.
Copied(q) ==
  /\ q = <<>> => visited = <<>>
  /\ q # <<>> => Len(visited) < Len(q)
  /\ \A i \in 1 .. Len(visited) : visited[i] = q[i]
  /\ cur["distributor"] = IF q = <<>> THEN Null ELSE q[Len(visited) + 1]

Waiting(q) ==
  /\ ListIs(q)
  /\ \A r1, r2 \in Reading : r1 = r2
  /\ ins # NoInsert => Reading = {} /\ \E i \in 0 .. Len(q) : Found(q, i)
  /\ (\A r \in Reader : pc[r] \notin Clearing) => Intact(q)
  /\ \A r \in Reader : pc[r] \in Clearing => Cleared(r, q)
  /\ pc["distributor"] = "copy" => Copied(q)
  /\ pc["collector"] = "walk" =>
       first["collector"] = head /\ cur["collector"] \in CellsOf(q) \cup {Null}

OrderInv == IF up THEN \E q \in Seq(Tx) : Waiting(q) ELSE CrashExplained

-----------------------------------------------------------------------------
(***************************************************************************)
(* The list and its sequence.                                              *)
(***************************************************************************)
\* A walk that begins at the head of q and follows its links passes over q.
LEMMA Follow ==
  ASSUME NEW q \in Seq(Tx), NEW link, NEW N \in Nat,
         \A i \in 1 .. Len(q) : link[q[i]] = IF i = Len(q) THEN Null ELSE q[i + 1]
  PROVE  Walked(HeadOf(q), link, N) = [k \in 0 .. N |-> IF k < Len(q) THEN q[k + 1] ELSE Null]
<1> DEFINE walk == Walked(HeadOf(q), link, N)
           Walks(g) == g = [k \in 0 .. N |-> IF k = 0 THEN HeadOf(q)
                            ELSE LET p == g[k - 1] IN IF p = Null THEN Null ELSE link[p]]
           f == [k \in 0 .. N |-> IF k < Len(q) THEN q[k + 1] ELSE Null]
<1>1. \A i \in 1 .. Len(q) : q[i] \in Tx /\ q[i] # Null
  BY TxAssumption
<1>2. Walks(f)
  <2>1. \A k \in 0 .. N : f[k] = IF k = 0 THEN HeadOf(q) ELSE IF f[k - 1] = Null THEN Null ELSE link[f[k - 1]]
    BY <1>1, SMTT(60) DEF HeadOf
  <2>2. f = [k \in 0 .. N |-> f[k]]
    OBVIOUS
  <2> HIDE DEF f
  <2> QED
    BY <2>1, <2>2
<1> HIDE DEF f
<1>3. Walks(walk)
  <2>1. walk = CHOOSE g : Walks(g)
    BY DEF Walked
  <2> HIDE DEF walk
  <2> QED
    BY <1>2, <2>1, Zenon
<1> HIDE DEF walk
<1> DEFINE Wrong == {k \in 0 .. N : f[k] # walk[k]}
<1>4. Wrong = {}
  <2> SUFFICES ASSUME Wrong # {} PROVE FALSE
    OBVIOUS
  <2>1. Wrong \in SUBSET Nat
    OBVIOUS
  <2>2. PICK k \in Wrong : \A j \in Wrong : k <= j
    BY <2>1, Least
  <2>3. k = 0 \/ (k - 1 \in 0 .. N /\ k - 1 \notin Wrong)
    BY <2>2
  <2>4. walk[k] = IF k = 0 THEN HeadOf(q) ELSE IF walk[k - 1] = Null THEN Null ELSE link[walk[k - 1]]
    BY <1>3
  <2>5. f[k] = IF k = 0 THEN HeadOf(q) ELSE IF f[k - 1] = Null THEN Null ELSE link[f[k - 1]]
    BY <1>2
  <2> QED
    BY <2>2, <2>3, <2>4, <2>5
<1>5. walk = [k \in 0 .. N |-> walk[k]] /\ f = [k \in 0 .. N |-> f[k]]
  BY <1>2, <1>3
<1> QED
  BY <1>4, <1>5 DEF f, walk

LEMMA ListBounded ==
  ASSUME NEW q \in Seq(Tx), ListIs(q) PROVE Len(q) <= Cardinality(Tx) /\ Cardinality(Tx) \in Nat /\ Len(q) \in Nat
<1>1. q \in Injection(1 .. Len(q), Tx) /\ Len(q) \in Nat
  BY DEF ListIs, Injection, IsInjective
<1>2. Cardinality(1 .. Len(q)) <= Cardinality(Tx)
  BY <1>1, FS_Injection, TxAssumption
<1>3. Cardinality(1 .. Len(q)) = Len(q)
  <2>1. 1 \in Int /\ Len(q) \in Int
    BY <1>1
  <2>2. Cardinality(1 .. Len(q)) = IF 1 > Len(q) THEN 0 ELSE Len(q) - 1 + 1
    BY <2>1, FS_Interval, Zenon
  <2> QED
    BY <1>1, <2>2
<1> QED
  BY <1>1, <1>2, <1>3, FS_CardinalityType, TxAssumption

\* The cells reached from _head are the sequence.
LEMMA PathIs ==
  ASSUME NEW q \in Seq(Tx), ListIs(q), head = HeadOf(q) PROVE Path = q
<1> DEFINE N == Cardinality(Tx)
<1>1. Len(q) <= N /\ N \in Nat /\ Len(q) \in Nat
  BY ListBounded
<1>2. FromHead = Walked(HeadOf(q), next, N)
  BY DEF FromHead, Walked
<1> HIDE DEF N
<1>3. FromHead = [k \in 0 .. N |-> IF k < Len(q) THEN q[k + 1] ELSE Null]
  BY <1>1, <1>2, Follow DEF ListIs
<1>4. \A i \in 1 .. Len(q) : q[i] # Null
  BY TxAssumption
<1>5. {k \in DOMAIN FromHead : FromHead[k] # Null} = 0 .. Len(q) - 1
  BY <1>1, <1>3, <1>4
<1>6. Cardinality(0 .. Len(q) - 1) = Len(q)
  <2>1. 0 \in Int /\ Len(q) - 1 \in Int
    BY <1>1
  <2>2. Cardinality(0 .. Len(q) - 1) = IF 0 > Len(q) - 1 THEN 0 ELSE (Len(q) - 1) - 0 + 1
    BY <2>1, FS_Interval, Zenon
  <2> QED
    BY <1>1, <2>2
<1>7. Path = [i \in 1 .. Len(q) |-> FromHead[i - 1]]
  BY <1>5, <1>6 DEF Path
<1>8. \A i \in 1 .. Len(q) : FromHead[i - 1] = q[i]
  BY <1>1, <1>3
<1> QED
  BY <1>7, <1>8

\* The search from the tail passes over it backwards.
LEMMA FromTailIs ==
  ASSUME NEW q \in Seq(Tx), ListIs(q), Intact(q)
  PROVE  FromTail = [k \in 0 .. Cardinality(Tx) |-> IF k < Len(q) THEN q[Len(q) - k] ELSE Null]
<1> DEFINE N == Cardinality(Tx)
           r == [i \in 1 .. Len(q) |-> q[Len(q) + 1 - i]]
<1>1. N \in Nat /\ Len(q) \in Nat
  BY ListBounded
<1>2. r \in Seq(Tx) /\ Len(r) = Len(q) /\ \A i \in 1 .. Len(q) : r[i] = q[Len(q) + 1 - i]
  <2>1. \A i \in 1 .. Len(q) : q[Len(q) + 1 - i] \in Tx
    BY <1>1
  <2> QED
    BY <1>1, <2>1
<1>3. FromTail = Walked(tail, prev, N)
  BY DEF FromTail, Walked
<1> HIDE DEF N, r
<1>4. tail = HeadOf(r)
  BY <1>1, <1>2 DEF Intact, HeadOf, TailOf
<1>5. \A i \in 1 .. Len(r) : prev[r[i]] = IF i = Len(r) THEN Null ELSE r[i + 1]
  <2> SUFFICES ASSUME NEW i \in 1 .. Len(r) PROVE prev[r[i]] = IF i = Len(r) THEN Null ELSE r[i + 1]
    OBVIOUS
  <2>1. r[i] = q[Len(q) + 1 - i] /\ Len(q) + 1 - i \in 1 .. Len(q)
    BY <1>1, <1>2
  <2>2. prev[r[i]] = IF Len(q) + 1 - i = 1 THEN Null ELSE q[Len(q) + 1 - i - 1]
    BY <2>1 DEF Intact
  <2>3. i # Len(q) => r[i + 1] = q[Len(q) + 1 - i - 1]
    BY <1>1, <1>2
  <2> QED
    BY <1>1, <1>2, <2>2, <2>3
<1>6. FromTail = [k \in 0 .. N |-> IF k < Len(r) THEN r[k + 1] ELSE Null]
  <2>1. Walked(HeadOf(r), prev, N) = [k \in 0 .. N |-> IF k < Len(r) THEN r[k + 1] ELSE Null]
    <3>1. r \in Seq(Tx)
      BY <1>2
    <3> QED
      BY <1>1, <1>5, <3>1, Follow, Zenon
  <2> QED
    BY <1>3, <1>4, <2>1, Zenon
<1>7. ASSUME NEW k \in 0 .. N, k < Len(r) PROVE r[k + 1] = q[Len(q) - k]
  <2> DEFINE n == Len(q)
  <2>1. n \in Nat /\ Len(r) = n
    BY <1>1, <1>2
  <2> HIDE DEF n
  <2>2. k + 1 \in 1 .. n /\ n + 1 - (k + 1) = n - k
    BY <1>1, <1>7, <2>1
  <2>3. r[k + 1] = q[n + 1 - (k + 1)]
    BY <1>2, <2>2, Zenon DEF n
  <2> QED
    BY <2>2, <2>3, Zenon DEF n
<1>8. ASSUME NEW k \in 0 .. N
      PROVE  (IF k < Len(r) THEN r[k + 1] ELSE Null) = (IF k < Len(q) THEN q[Len(q) - k] ELSE Null)
  <2>1. Len(r) = Len(q) /\ (k < Len(r) => r[k + 1] = q[Len(q) - k])
    BY <1>2, <1>7
  <2> QED
    BY <2>1, Zenon
<1>9. [k \in 0 .. N |-> IF k < Len(r) THEN r[k + 1] ELSE Null]
        = [k \in 0 .. N |-> IF k < Len(q) THEN q[Len(q) - k] ELSE Null]
  BY <1>8, Zenon
<1> QED
  BY <1>6, <1>9, Zenon DEF N

\* Where a timestamp belongs in a sorted sequence.
LEMMA PlaceExists ==
  ASSUME CacheTypes, NEW q \in Seq(Tx), ListIs(q), NEW s \in Nat
  PROVE  \E i \in 0 .. Len(q) : \A j \in 1 .. Len(q) : stamp[q[j]] <= s <=> j <= i
<1> DEFINE Later == {i \in 0 .. Len(q) : \A j \in 1 .. Len(q) : j > i => stamp[q[j]] > s}
<1>1. Len(q) \in Nat /\ \A j \in 1 .. Len(q) : stamp[q[j]] \in Nat
  BY StampAssumption DEF CacheTypes, ListTypes
<1>2. Later \in SUBSET Nat /\ Len(q) \in Later
  BY <1>1
<1>3. PICK i \in Later : \A k \in Later : i <= k
  BY <1>2, Least
<1>4. i # 0 => stamp[q[i]] <= s
  <2> SUFFICES ASSUME i # 0, ~(stamp[q[i]] <= s) PROVE FALSE
    OBVIOUS
  <2>1. i - 1 \in Later /\ i \in Nat
    BY <1>1, <1>3
  <2>2. i <= i - 1
    BY <1>3, <2>1
  <2> QED
    BY <2>1, <2>2
<1>5. \A j \in 1 .. Len(q) : j <= i => stamp[q[j]] <= stamp[q[i]]
  BY <1>1 DEF ListIs
<1>6. i \in 0 .. Len(q) /\ \A j \in 1 .. Len(q) : j > i => stamp[q[j]] > s
  BY <1>3
<1>7. ASSUME NEW j \in 1 .. Len(q) PROVE stamp[q[j]] <= s <=> j <= i
  <2>1. CASE j <= i
    BY <1>1, <1>4, <1>5, <1>6, <2>1
  <2>2. CASE ~(j <= i)
    BY <1>1, <1>6, <2>2
  <2> QED
    BY <2>1, <2>2
<1> QED
  BY <1>6, <1>7

\* The loop of insert_tx stops at the last cell that is not later.
LEMMA StopsAtIs ==
  ASSUME CacheTypes, NEW q \in Seq(Tx), ListIs(q), Intact(q), NEW s \in Nat,
         NEW i \in 1 .. Len(q), \A j \in 1 .. Len(q) : stamp[q[j]] <= s <=> j <= i
  PROVE  StopsAt(s) = q[i]
<1> DEFINE Stops == {k \in DOMAIN FromTail : Bad(FromTail[k]) \/ stamp[FromTail[k]] <= s}
<1>1. Len(q) <= Cardinality(Tx) /\ Cardinality(Tx) \in Nat /\ Len(q) \in Nat
  BY ListBounded
<1>2. FromTail = [k \in 0 .. Cardinality(Tx) |-> IF k < Len(q) THEN q[Len(q) - k] ELSE Null]
  BY FromTailIs
<1>3. \A j \in 1 .. Len(q) : ~Bad(q[j])
  BY DEF ListIs, Bad, CellsOf
<1>4. Len(q) - i \in Stops /\ FromTail[Len(q) - i] = q[i]
  BY <1>1, <1>2
<1>5. \A k \in Stops : Len(q) - i <= k
  <2> SUFFICES ASSUME NEW k \in Stops, k < Len(q) - i PROVE FALSE
    BY <1>1, <1>2
  <2>1. FromTail[k] = q[Len(q) - k] /\ Len(q) - k \in 1 .. Len(q) /\ ~(Len(q) - k <= i)
    BY <1>1, <1>2
  <2> QED
    BY <1>3, <2>1
<1>6. Stops \subseteq Nat
  BY <1>1, <1>2
<1> HIDE DEF Stops
<1>7. (CHOOSE k \in Stops : \A j \in Stops : k <= j) = Len(q) - i
  <2> DEFINE least == CHOOSE k \in Stops : \A j \in Stops : k <= j
  <2>1. least \in Stops /\ \A j \in Stops : least <= j
    BY <1>4, <1>5
  <2> HIDE DEF least
  <2>2. least <= Len(q) - i /\ Len(q) - i <= least /\ least \in Nat /\ Len(q) - i \in Nat
    BY <1>4, <1>5, <1>6, <2>1
  <2>3. least = Len(q) - i
    BY <2>2
  <2> QED
    BY <2>3 DEF least
<1> QED
  BY <1>4, <1>7 DEF StopsAt, Stops

-----------------------------------------------------------------------------
(***************************************************************************)
(* The inserts.                                                            *)
(***************************************************************************)
Idle == \A r \in Reader : pc[r] \notin Clearing

LEMMA WaitingInit == ASSUME Init PROVE up /\ Waiting(<<>>)
<1>1. Passed = {} /\ CellsOf(<<>>) = {}
  BY DEF Init, Passed, CellsOf
<1>2. Reading = {}
  BY DEF Init, Reading
<1>3. ListIs(<<>>) /\ Intact(<<>>)
  BY <1>1 DEF Init, ListIs, Intact, HeadOf, TailOf
<1> QED
  BY <1>2, <1>3, Readers DEF Init, Waiting, Clearing

\* insert_tx searches only a list that is at rest.
LEMMA AtRest ==
  ASSUME CacheTypes, NEW q \in Seq(Tx), Waiting(q), Reading = {}
  PROVE  /\ ListIs(q) /\ Intact(q)
         /\ \A r \in Reader : pc[r] \notin Clearing \cup {"copy", "walk"}
<1>1. \A r \in Reader : pc[r] \notin Clearing \cup {"copy", "walk"}
  BY DEF Reading, Clearing
<1> QED
  BY <1>1 DEF Waiting

LEMMA SearchKeeps ==
  ASSUME Serial, CacheTypes, NEW q \in Seq(Tx), Waiting(q), up,
         NEW t \in Tx, NEW s \in 1 .. MaxStamp, InsertSearch(t, s)
  PROVE  up' /\ Waiting(q)'
<1>1. Reading = {} /\ heap[t] = "new" /\ ins = NoInsert
  BY DEF InsertSearch, MayInsert
<1>2. /\ ListIs(q) /\ Intact(q)
      /\ \A r \in Reader : pc[r] \notin Clearing \cup {"copy", "walk"}
  BY <1>1, AtRest
<1>3. /\ Len(q) \in Nat /\ \A j \in 1 .. Len(q) : q[j] \in Tx /\ q[j] # t /\ ~Bad(q[j]) /\ q[j] # Null
      /\ s \in Nat /\ t # Null /\ q # <<>> => Len(q) \in 1 .. Len(q) /\ 1 \in 1 .. Len(q)
  BY <1>1, <1>2, TxAssumption, StampAssumption DEF ListIs, Bad, CellsOf
<1>4. \A j \in 1 .. Len(q) : stamp[q[j]] \in Nat
  BY <1>3 DEF CacheTypes, ListTypes
<1>5. PICK i \in 0 .. Len(q) : \A j \in 1 .. Len(q) : stamp[q[j]] <= s <=> j <= i
  BY <1>2, <1>3, PlaceExists
<1>6. i # 0 => StopsAt(s) = q[i]
  BY <1>2, <1>3, <1>5, StopsAtIs
<1> DEFINE place == IF q = <<>> THEN "first" ELSE IF i = 0 THEN "front"
                    ELSE IF s > stamp[q[Len(q)]] THEN "back" ELSE q[i]
<1>7. /\ ins' = [tx |-> t, place |-> place] /\ stamp' = [stamp EXCEPT ![t] = s]
      /\ UNCHANGED <<role, heap, next, prev, head, tail, size, pc, local, rounds, dropped, up>>
  <2>1. CASE q = <<>>
    BY <1>2, <2>1 DEF InsertSearch, Intact, HeadOf
  <2>2. CASE q # <<>>
    <3>1. head = q[1] /\ tail = q[Len(q)] /\ head # Null /\ ~Bad(tail) /\ ~Bad(head)
      BY <1>2, <1>3, <2>2 DEF Intact, HeadOf, TailOf
    <3>2. s < stamp[head] <=> i = 0
      BY <1>3, <1>4, <1>5, <2>2, <3>1
    <3>3. stamp[tail] \in Nat /\ stamp[head] \in Nat
      BY <1>3, <1>4, <2>2, <3>1
    <3>4. s > stamp[tail] => stamp[head] <= stamp[tail]
      BY <1>2, <1>3, <1>4, <2>2, <3>1 DEF ListIs
    <3>5. i # 0 => ~Bad(StopsAt(s))
      BY <1>3, <1>6
    <3> HIDE DEF StopsAt
    <3>6. CASE s > stamp[tail]
      <4>1. ~(s < stamp[head]) /\ ~(s <= stamp[tail])
        BY <1>3, <3>3, <3>4, <3>6
      <4>2. place = "back"
        BY <2>2, <3>1, <3>2, <3>6, <4>1
      <4> HIDE DEF place
      <4> QED
        BY <3>1, <4>1, <4>2 DEF InsertSearch
    <3>7. CASE ~(s > stamp[tail]) /\ i = 0
      <4>1. s < stamp[head] /\ ~(s >= stamp[head]) /\ s <= stamp[tail]
        BY <1>3, <3>2, <3>3, <3>7
      <4>2. place = "front"
        BY <2>2, <3>7
      <4> HIDE DEF place
      <4> QED
        BY <3>1, <3>7, <4>1, <4>2 DEF InsertSearch
    <3>8. CASE ~(s > stamp[tail]) /\ i # 0
      <4>1. place = StopsAt(s)
        BY <1>6, <2>2, <3>1, <3>8
      <4> QED
        BY <1>3, <2>2, <3>1, <3>2, <3>3, <3>5, <3>8, <4>1 DEF InsertSearch
    <3> QED
      BY <3>6, <3>7, <3>8
  <2> QED
    BY <2>1, <2>2
<1>8. UNCHANGED <<Reading, Passed>> /\ Reading = {}
  BY <1>1, <1>7 DEF Reading, Passed
<1>9. \A j \in 1 .. Len(q) : stamp'[q[j]] = stamp[q[j]]
  BY <1>3, <1>7 DEF CacheTypes, ListTypes
<1>10. ListIs(q)' /\ Intact(q)'
  BY <1>2, <1>7, <1>8, <1>9 DEF ListIs, Intact, local
<1>11. Found(q, i)'
  BY <1>3, <1>5, <1>7, <1>9 DEF Found, CacheTypes, ListTypes
<1>12. up' /\ \A r \in Reader : pc'[r] \notin Clearing \cup {"copy", "walk"}
  BY <1>2, <1>7
<1>13. pc'["distributor"] # "copy" /\ pc'["collector"] # "walk"
  BY <1>12, Readers
<1>14. Reading' = {} /\ \E k \in 0 .. Len(q) : Found(q, k)'
  BY <1>8, <1>11
<1> QED
  BY <1>10, <1>12, <1>13, <1>14 DEF Waiting

\* t put into q after i cells.
Put(q, i, t) == [j \in 1 .. Len(q) + 1 |-> IF j <= i THEN q[j] ELSE IF j = i + 1 THEN t ELSE q[j - 1]]

\* r is q, of n elements, with t put in after i of them.
IsPut(r, q, n, i, t) ==
  \A j \in 1 .. n + 1 : r[j] = IF j <= i THEN q[j] ELSE IF j = i + 1 THEN t ELSE q[j - 1]

LEMMA PutIs ==
  ASSUME NEW q \in Seq(Tx), NEW i \in 0 .. Len(q), NEW t \in Tx
  PROVE  /\ Put(q, i, t) \in Seq(Tx) /\ Len(Put(q, i, t)) = Len(q) + 1 /\ Len(q) \in Nat /\ Put(q, i, t) # <<>>
         /\ IsPut(Put(q, i, t), q, Len(q), i, t)
         /\ CellsOf(Put(q, i, t)) = CellsOf(q) \cup {t}
<1> DEFINE r == Put(q, i, t)
<1>1. Len(q) \in Nat /\ \A j \in 1 .. Len(q) : q[j] \in Tx
  OBVIOUS
<1>2. \A j \in 1 .. Len(q) + 1 : r[j] = IF j <= i THEN q[j] ELSE IF j = i + 1 THEN t ELSE q[j - 1]
  BY DEF Put
<1>3. \A j \in 1 .. Len(q) + 1 : r[j] \in Tx
  BY <1>1, <1>2
<1>4. r \in [1 .. Len(q) + 1 -> Tx]
  BY <1>3 DEF Put
<1>5. r \in Seq(Tx) /\ Len(r) = Len(q) + 1 /\ r # <<>> /\ DOMAIN r = 1 .. Len(q) + 1
  BY <1>1, <1>4
<1> HIDE DEF r
<1>6. \A j \in 1 .. Len(q) : r[IF j <= i THEN j ELSE j + 1] = q[j]
  BY <1>1, <1>2, SMTT(60)
<1>7. r[i + 1] = t
  BY <1>1, <1>2
<1>8. CellsOf(r) \subseteq CellsOf(q) \cup {t}
  BY <1>1, <1>2, <1>5 DEF CellsOf
<1>9. CellsOf(q) \cup {t} \subseteq CellsOf(r)
  <2>1. \A j \in 1 .. Len(q) : (IF j <= i THEN j ELSE j + 1) \in DOMAIN r
    BY <1>1, <1>5
  <2>2. i + 1 \in DOMAIN r /\ DOMAIN q = 1 .. Len(q)
    BY <1>1, <1>5
  <2> QED
    BY <1>6, <1>7, <2>1, <2>2 DEF CellsOf
<1> QED
  BY <1>1, <1>2, <1>5, <1>8, <1>9 DEF r, IsPut

LEMMA PutDistinct ==
  ASSUME NEW n \in Nat, NEW i \in 0 .. n, NEW q, NEW r, NEW t, IsPut(r, q, n, i, t),
         \A j \in 1 .. n : q[j] # t,
         \A j, k \in 1 .. n : q[j] = q[k] => j = k
  PROVE  \A j, k \in 1 .. n + 1 : r[j] = r[k] => j = k
<1> DEFINE From(j) == IF j <= i THEN j ELSE j - 1
<1>1. \A j \in 1 .. n + 1 : j # i + 1 => r[j] = q[From(j)] /\ From(j) \in 1 .. n
  BY DEF IsPut
<1>2. r[i + 1] = t
  BY DEF IsPut
<1>3. ASSUME NEW j \in 1 .. n + 1, NEW k \in 1 .. n + 1, r[j] = r[k] PROVE j = k
  <2>1. CASE j = i + 1 \/ k = i + 1
    BY <1>1, <1>2, <1>3, <2>1
  <2>2. CASE j # i + 1 /\ k # i + 1
    <3>1. From(j) = From(k)
      BY <1>1, <1>3, <2>2
    <3> QED
      BY <2>2, <3>1
  <2> QED
    BY <2>1, <2>2
<1> QED
  BY <1>3

LEMMA PutSorted ==
  ASSUME NEW n \in Nat, NEW i \in 0 .. n, NEW q, NEW r, NEW t \in Tx, IsPut(r, q, n, i, t),
         NEW key \in [Tx -> Nat],
         \A j \in 1 .. n : q[j] \in Tx,
         \A j, k \in 1 .. n : j < k => key[q[j]] <= key[q[k]],
         \A j \in 1 .. n : key[q[j]] <= key[t] <=> j <= i
  PROVE  \A j, k \in 1 .. n + 1 : j < k => key[r[j]] <= key[r[k]]
<1>1. \A x \in Tx : key[x] \in Nat
  OBVIOUS
<1>2. ASSUME NEW j \in 1 .. n + 1, NEW k \in 1 .. n + 1, j < k PROVE key[r[j]] <= key[r[k]]
  <2>1. r[j] = (IF j <= i THEN q[j] ELSE IF j = i + 1 THEN t ELSE q[j - 1])
        /\ r[k] = (IF k <= i THEN q[k] ELSE IF k = i + 1 THEN t ELSE q[k - 1])
    BY DEF IsPut
  <2>2. CASE j <= i /\ k <= i
    BY <1>2, <2>1, <2>2
  <2>3. CASE j <= i /\ k = i + 1
    BY <1>2, <2>1, <2>3
  <2>4. CASE j <= i /\ k > i + 1
    <3>1. j \in 1 .. n /\ k - 1 \in 1 .. n /\ j < k - 1
      BY <2>4
    <3> QED
      BY <2>1, <2>4, <3>1
  <2>5. CASE j = i + 1
    <3>1. k - 1 \in 1 .. n /\ ~(k - 1 <= i) /\ r[k] = q[k - 1] /\ r[j] = t
      BY <1>2, <2>1, <2>5
    <3>2. ~(key[q[k - 1]] <= key[t]) /\ key[q[k - 1]] \in Nat /\ key[t] \in Nat
      BY <1>1, <3>1
    <3> QED
      BY <3>1, <3>2
  <2>6. CASE j > i + 1
    <3>1. j - 1 \in 1 .. n /\ k - 1 \in 1 .. n /\ j - 1 < k - 1 /\ r[k] = q[k - 1] /\ r[j] = q[j - 1]
      BY <1>2, <2>1, <2>6
    <3> QED
      BY <3>1
  <2> QED
    BY <1>2, <2>2, <2>3, <2>4, <2>5, <2>6
<1> QED
  BY <1>2

\* t becomes the cell after the first i of q.
LinkedAt(q, i, t) ==
  /\ Linked(t)
  /\ \A x \in Tx : next'[x] = IF x = t THEN IF i = Len(q) THEN Null ELSE q[i + 1]
                              ELSE IF i # 0 /\ x = q[i] THEN t ELSE next[x]
  /\ \A x \in Tx : prev'[x] = IF x = t THEN IF i = 0 THEN Null ELSE q[i]
                              ELSE IF i # Len(q) /\ x = q[i + 1] THEN t ELSE prev[x]
  /\ head' = IF i = 0 THEN t ELSE head
  /\ tail' = IF i = Len(q) THEN t ELSE tail

\* A cell is linked where it was found to belong.
LEMMA PutKeeps ==
  ASSUME CacheTypes, NEW q \in Seq(Tx), Waiting(q), up, NEW t \in Tx, ins # NoInsert, ins.tx = t,
         NEW i \in 0 .. Len(q), Found(q, i), LinkedAt(q, i, t)
  PROVE  up' /\ Waiting(Put(q, i, t))'
<1> DEFINE r == Put(q, i, t)
<1>1. Reading = {} /\ heap[t] = "new"
  BY DEF Waiting, CacheTypes, InsertTypes
<1>2. /\ ListIs(q) /\ Intact(q)
      /\ \A x \in Reader : pc[x] \notin Clearing \cup {"copy", "walk"}
  BY <1>1, AtRest
<1> HIDE DEF r
<1>3. /\ r \in Seq(Tx) /\ Len(r) = Len(q) + 1 /\ Len(q) \in Nat /\ r # <<>>
      /\ IsPut(r, q, Len(q), i, t)
      /\ CellsOf(r) = CellsOf(q) \cup {t}
  BY PutIs DEF r
<1>4. \A j \in 1 .. Len(q) : q[j] \in Tx /\ q[j] # t /\ q[j] \in CellsOf(q)
  BY <1>1, <1>2 DEF ListIs, CellsOf
<1>5. /\ heap' = [heap EXCEPT ![t] = "live"] /\ ins' = NoInsert
      /\ UNCHANGED <<stamp, pc, visited, rounds, dropped, up, Passed, Reading>>
  BY DEF LinkedAt, Linked, local, Passed, Reading
<1>6. \A x \in Tx : heap'[x] = IF x = t THEN "live" ELSE heap[x]
  BY <1>5 DEF CacheTypes, ListTypes
<1>7. \A j, k \in 1 .. Len(r) : r[j] = r[k] => j = k
  <2>1. (\A j \in 1 .. Len(q) : q[j] # t) /\ \A j, k \in 1 .. Len(q) : q[j] = q[k] => j = k
    BY <1>2, <1>4 DEF ListIs
  <2> QED
    BY <1>3, <2>1, PutDistinct
<1>8. \A x \in Tx : heap'[x] = "live" <=> x \in CellsOf(r)
  BY <1>2, <1>3, <1>6 DEF ListIs
<1>9. \A j, k \in 1 .. Len(r) : j < k => stamp'[r[j]] <= stamp'[r[k]]
  <2>1. stamp \in [Tx -> Nat]
    BY StampAssumption DEF CacheTypes, ListTypes
  <2>2. /\ \A j, k \in 1 .. Len(q) : j < k => stamp[q[j]] <= stamp[q[k]]
        /\ \A j \in 1 .. Len(q) : stamp[q[j]] <= stamp[t] <=> j <= i
    BY <1>2 DEF ListIs, Found
  <2> QED
    BY <1>3, <1>4, <1>5, <2>1, <2>2, PutSorted
<1>10. \A j \in 1 .. Len(r) : next'[r[j]] = IF j = Len(r) THEN Null ELSE r[j + 1]
  <2>1. \A j \in 1 .. Len(q) : next[q[j]] = IF j = Len(q) THEN Null ELSE q[j + 1]
    BY <1>2 DEF ListIs
  <2>2. \A j \in 1 .. Len(q) : i # 0 => (q[j] = q[i] <=> j = i)
    BY <1>2, <1>3 DEF ListIs
  <2> SUFFICES ASSUME NEW j \in 1 .. Len(r) PROVE next'[r[j]] = IF j = Len(r) THEN Null ELSE r[j + 1]
    OBVIOUS
  <2>3. CASE j <= i
    <3>1. r[j] = q[j] /\ j \in 1 .. Len(q) /\ j # Len(r) /\ i # 0
      BY <1>3, <2>3 DEF IsPut
    <3>2. j = i => r[j + 1] = t
      BY <1>3 DEF IsPut
    <3>3. j # i => r[j + 1] = q[j + 1] /\ j # Len(q)
      BY <1>3, <2>3 DEF IsPut
    <3> QED
      BY <1>4, <2>1, <2>2, <3>1, <3>2, <3>3 DEF LinkedAt
  <2>4. CASE j = i + 1
    BY <1>3, <1>4, <2>4 DEF LinkedAt, IsPut
  <2>5. CASE j > i + 1
    <3>1. r[j] = q[j - 1] /\ j - 1 \in 1 .. Len(q) /\ j - 1 # i /\ (j - 1) + 1 = j /\ (j + 1) - 1 = j
      BY <1>3, <2>5 DEF IsPut
    <3>2. j # Len(r) => r[j + 1] = q[(j + 1) - 1]
      BY <1>3, <2>5 DEF IsPut
    <3>3. next'[q[j - 1]] = next[q[j - 1]]
      BY <1>4, <2>2, <3>1 DEF LinkedAt
    <3>4. next[q[j - 1]] = IF j - 1 = Len(q) THEN Null ELSE q[(j - 1) + 1]
      BY <2>1, <3>1
    <3> QED
      BY <1>3, <3>1, <3>2, <3>3, <3>4
  <2> QED
    BY <1>3, <2>3, <2>4, <2>5 DEF IsPut
<1>11. \A j \in 1 .. Len(r) : prev'[r[j]] = IF j = 1 THEN Null ELSE r[j - 1]
  <2>1. \A j \in 1 .. Len(q) : prev[q[j]] = IF j = 1 THEN Null ELSE q[j - 1]
    BY <1>2 DEF Intact
  <2>2. \A j \in 1 .. Len(q) : i # Len(q) => (q[j] = q[i + 1] <=> j = i + 1)
    BY <1>2, <1>3 DEF ListIs
  <2> SUFFICES ASSUME NEW j \in 1 .. Len(r) PROVE prev'[r[j]] = IF j = 1 THEN Null ELSE r[j - 1]
    OBVIOUS
  <2>3. CASE j <= i
    <3>1. r[j] = q[j] /\ j \in 1 .. Len(q) /\ (j # 1 => r[j - 1] = q[j - 1])
      BY <1>3, <2>3 DEF IsPut
    <3> QED
      BY <1>3, <1>4, <2>1, <2>2, <2>3, <3>1 DEF LinkedAt, IsPut
  <2>4. CASE j = i + 1
    <3>1. r[j] = t /\ (j # 1 => r[j - 1] = q[i])
      BY <1>3, <2>4 DEF IsPut
    <3> QED
      BY <1>3, <2>4, <3>1 DEF LinkedAt, IsPut
  <2>5. CASE j > i + 1
    <3>1. r[j] = q[j - 1] /\ j - 1 \in 1 .. Len(q) /\ j # 1 /\ (j = i + 2 => r[j - 1] = t) /\ (j # i + 2 => r[j - 1] = q[j - 2])
      BY <1>3, <2>5 DEF IsPut
    <3>2. j = i + 2 => prev'[r[j]] = t
      BY <1>3, <1>4, <2>2, <3>1 DEF LinkedAt, IsPut
    <3>3. j # i + 2 => prev'[r[j]] = prev[q[j - 1]] /\ j - 1 # 1 /\ prev[q[j - 1]] = q[(j - 1) - 1]
      BY <1>3, <1>4, <2>1, <2>2, <2>5, <3>1, SMTT(60) DEF LinkedAt, IsPut
    <3>4. (j - 1) - 1 = j - 2
      BY <1>3 DEF IsPut
    <3> QED
      BY <3>1, <3>2, <3>3, <3>4
  <2> QED
    BY <1>3, <2>3, <2>4, <2>5 DEF IsPut
<1>12. \A x \in Tx : heap'[x] = "new" => next'[x] = Null /\ prev'[x] = Null
  <2>1. \A j \in 1 .. Len(q) : heap[q[j]] = "live"
    BY <1>2, <1>4 DEF ListIs
  <2> QED
    BY <1>2, <1>6, <2>1 DEF ListIs, LinkedAt
<1>13. ListIs(r)'
  BY <1>7, <1>8, <1>9, <1>10, <1>12 DEF ListIs
<1>14. Intact(r)'
  <2>1. head' = r[1]
    BY <1>2, <1>3 DEF Intact, HeadOf, LinkedAt, IsPut
  <2>2. tail' = r[Len(r)]
    BY <1>2, <1>3 DEF Intact, TailOf, LinkedAt, IsPut
  <2> QED
    BY <1>3, <1>11, <2>1, <2>2 DEF Intact, HeadOf, TailOf
<1>15. /\ Reading' = {} /\ \A x \in Reader : pc'[x] \notin Clearing \cup {"copy", "walk"}
       /\ pc'["distributor"] # "copy" /\ pc'["collector"] # "walk"
  BY <1>1, <1>2, <1>5, Readers
<1>16. Waiting(r)'
  BY <1>5, <1>13, <1>14, <1>15 DEF Waiting
<1> QED
  BY <1>5, <1>16 DEF r

\* The linking puts the cell there, or the run ends as CrashExplained says.
LEMMA LinkKeeps ==
  ASSUME Serial, CacheTypes, NEW q \in Seq(Tx), Waiting(q), up, InsertLink
  PROVE  \/ ~up' /\ UNCHANGED <<list, ins, pc>> /\ CrashExplained'
         \/ \E i \in 0 .. Len(q) : Found(q, i) /\ LinkedAt(q, i, ins.tx)
<1> DEFINE t == ins.tx
<1>1. ins # NoInsert /\ t \in Tx /\ heap[t] = "new" /\ Reading = {} /\ t # Null
  BY TxAssumption DEF InsertLink, Waiting, CacheTypes, InsertTypes
<1>2. ListIs(q) /\ Intact(q)
  BY <1>1, AtRest
<1>3. PICK i \in 0 .. Len(q) : Found(q, i)
  BY <1>1 DEF Waiting
<1>4. /\ Len(q) \in Nat
      /\ \A j \in 1 .. Len(q) : q[j] \in Tx /\ q[j] # t /\ ~Bad(q[j]) /\ q[j] # Null /\ stamp[q[j]] \in Nat
      /\ stamp[t] \in Nat
  BY <1>1, <1>2, TxAssumption DEF ListIs, Bad, CellsOf, CacheTypes, ListTypes
<1>5. next[t] = Null /\ prev[t] = Null
  BY <1>1, <1>2 DEF ListIs
<1>6. next \in [Tx -> Pointer] /\ prev \in [Tx -> Pointer]
  BY DEF CacheTypes, ListTypes
<1>7. \A p \in Tx : p \notin {"first", "back", "front"}
  BY TxAssumption
<1>8. (q # <<>> => head = q[1] /\ tail = q[Len(q)] /\ Len(q) # 0 /\ ~Bad(head) /\ ~Bad(tail))
      /\ (q = <<>> => head = Null /\ tail = Null /\ i = 0 /\ Len(q) = 0)
  BY <1>2, <1>4 DEF Intact, HeadOf, TailOf
<1>9. CASE ins.place = "first"
  <2>1. q = <<>>
    BY <1>3, <1>4, <1>7, <1>9 DEF Found
  <2>2. LinkFirst(t)
    BY <1>7, <1>9 DEF InsertLink, LinkFirst, LinkBack, LinkFront, LinkAfter
  <2>3. LinkedAt(q, i, t)
    BY <1>4, <1>5, <1>8, <2>1, <2>2 DEF LinkFirst, LinkedAt
  <2> QED
    BY <1>3, <2>3
<1>10. CASE ins.place = "back"
  <2>1. q # <<>> /\ i # 0 /\ stamp[t] > stamp[q[Len(q)]]
    BY <1>3, <1>4, <1>7, <1>10 DEF Found
  <2>2. i = Len(q)
    BY <1>3, <1>4, <1>8, <2>1 DEF Found
  <2>3. LinkBack(t) /\ ~Bad(tail)
    BY <1>7, <1>8, <1>10, <2>1 DEF InsertLink, LinkFirst, LinkBack, LinkFront, LinkAfter
  <2>4. Linked(t) /\ prev' = [prev EXCEPT ![t] = tail] /\ next' = [next EXCEPT ![tail] = t] /\ tail' = t /\ head' = head
    BY <2>3 DEF LinkBack
  <2>5. LinkedAt(q, i, t)
    BY <1>1, <1>4, <1>5, <1>6, <1>8, <2>1, <2>2, <2>4 DEF LinkedAt
  <2> QED
    BY <1>3, <2>5
<1>11. CASE ins.place = "front"
  <2>1. q # <<>> /\ i = 0
    BY <1>3, <1>4, <1>7, <1>11 DEF Found
  <2>2. LinkFront(t) /\ ~Bad(head)
    BY <1>7, <1>8, <1>11, <2>1 DEF InsertLink, LinkFirst, LinkBack, LinkFront, LinkAfter
  <2>3. Linked(t) /\ next' = [next EXCEPT ![t] = head] /\ prev' = [prev EXCEPT ![head] = t] /\ head' = t /\ tail' = tail
    BY <2>2 DEF LinkFront
  <2>4. LinkedAt(q, i, t)
    BY <1>1, <1>4, <1>5, <1>6, <1>8, <2>1, <2>3 DEF LinkedAt
  <2> QED
    BY <1>3, <2>4
<1>12. CASE ins.place \notin {"first", "back", "front"}
  <2>1. q # <<>> /\ i # 0 /\ ins.place = q[i] /\ ~(stamp[t] > stamp[q[Len(q)]])
    BY <1>3, <1>4, <1>12 DEF Found
  <2>2. LinkAfter(t, q[i]) /\ ~Bad(q[i]) /\ q[i] \in Tx
    BY <1>4, <1>12, <2>1 DEF InsertLink, LinkFirst, LinkBack, LinkFront, LinkAfter
  <2>3. CASE i = Len(q)
    <3>1. stamp[tail] <= stamp[t] /\ ~(stamp[t] > stamp[tail]) /\ stamp[tail] \in Nat
      BY <1>3, <1>4, <1>8, <2>1, <2>3 DEF Found
    <3>2. stamp[t] = stamp[tail] /\ ins.place = tail
      BY <1>4, <1>8, <2>1, <2>3, <3>1
    <3>3. Bad(next[q[i]])
      BY <1>2, <2>1, <2>3, TxAssumption DEF ListIs, Bad
    <3>4. Die
      BY <2>2, <3>3 DEF LinkAfter
    <3> QED
      BY <1>1, <3>2, <3>4 DEF Die, CrashExplained, list
  <2>4. CASE i # Len(q)
    <3>1. next[q[i]] = q[i + 1] /\ i + 1 \in 1 .. Len(q) /\ ~Bad(q[i + 1])
      BY <1>2, <1>4, <2>1, <2>4 DEF ListIs
    <3>2. /\ Linked(t) /\ head' = head /\ tail' = tail
          /\ prev' = [prev EXCEPT ![t] = q[i], ![q[i + 1]] = t]
          /\ next' = [next EXCEPT ![t] = q[i + 1], ![q[i]] = t]
      BY <2>2, <3>1 DEF LinkAfter
    <3>3. LinkedAt(q, i, t)
      <4>1. q[i] \in Tx /\ q[i + 1] \in Tx /\ q[i] # t /\ q[i + 1] # t
        BY <1>4, <2>1, <3>1
      <4>2. \A x \in Tx : next'[x] = IF x = t THEN q[i + 1] ELSE IF x = q[i] THEN t ELSE next[x]
        BY <1>6, <3>2, <4>1
      <4>3. \A x \in Tx : prev'[x] = IF x = t THEN q[i] ELSE IF x = q[i + 1] THEN t ELSE prev[x]
        BY <1>6, <3>2, <4>1
      <4> QED
        BY <2>1, <2>4, <3>2, <4>2, <4>3 DEF LinkedAt
    <3> QED
      BY <1>3, <3>3
  <2> QED
    BY <2>3, <2>4
<1> QED
  BY <1>9, <1>10, <1>11, <1>12

-----------------------------------------------------------------------------
(***************************************************************************)
(* The readers.  One that is in the list is alone with it.                 *)
(***************************************************************************)
LEMMA WaitingSame ==
  ASSUME NEW q, Waiting(q), UNCHANGED <<heap, stamp, next, prev, head, tail, ins, pc, local, rounds, dropped>>
  PROVE  Waiting(q)'
<1>1. UNCHANGED <<Reading, Passed>>
  BY DEF Reading, Passed
<1>2. ListIs(q)'
  BY <1>1 DEF Waiting, ListIs, local
<1>3. \A r \in Reader : Cleared(r, q)' = Cleared(r, q)
  BY DEF Cleared, local
<1>4. Intact(q)' = Intact(q) /\ Copied(q)' = Copied(q) /\ \A i \in 0 .. Len(q) : Found(q, i)' = Found(q, i)
  BY DEF Intact, Copied, Found, local
<1> QED
  BY <1>1, <1>2, <1>3, <1>4 DEF Waiting, local

LEMMA Alone ==
  ASSUME CacheTypes, NEW q \in Seq(Tx), Waiting(q), NEW r \in Reading
  PROVE  ins = NoInsert /\ \A y \in Reader \ {r} : pc[y] \in {"idle", "gather"}
BY DEF Waiting, Reading

\* A list without an insert and a reader in it.
LEMMA AtRestIs ==
  ASSUME CacheTypes, NEW q \in Seq(Tx), ListIs(q), Intact(q),
         \A r \in Reader : pc[r] \in {"idle", "gather"},
         ins # NoInsert => \E i \in 0 .. Len(q) : Found(q, i)
  PROVE  Waiting(q)
<1>1. Reading = {}
  BY DEF Reading
<1>2. \A r \in Reader : pc[r] \notin Clearing \cup {"copy", "walk"}
  BY DEF Clearing
<1> QED
  BY <1>1, <1>2, Readers DEF Waiting

LEMMA EntryKeeps ==
  ASSUME Serial, CacheTypes, NEW q \in Seq(Tx), Waiting(q),
         BecomeLeader \/ StartDistribute \/ Gather \/ StartCollect
  PROVE  up' /\ Waiting(q)'
<1>1. pc \in [Reader -> {"idle", "gather", "copy", "walk", "clear", "advance", "reset"}]
      /\ cur \in [Reader -> Pointer] /\ first \in [Reader -> Pointer]
  BY DEF CacheTypes, ReaderTypes
<1>2. CASE BecomeLeader
  BY <1>2, WaitingSame DEF BecomeLeader, list
<1>3. CASE StartDistribute
  <2>1. /\ pc["distributor"] = "idle" /\ pc' = [pc EXCEPT !["distributor"] = "gather"] /\ up'
        /\ UNCHANGED <<heap, stamp, next, prev, head, tail, ins, local, rounds, dropped>>
    BY <1>3 DEF StartDistribute, list
  <2>2. pc'["distributor"] = "gather" /\ pc'["collector"] = pc["collector"]
    BY <1>1, <2>1 DEF Reader
  <2>3. UNCHANGED <<Reading, Passed>>
    BY <1>1, <2>1, <2>2 DEF Reading, Passed, Reader
  <2>4. ListIs(q)'
    BY <2>1, <2>2, <2>3 DEF Waiting, ListIs, local, Clearing
  <2>5. \A r \in Reader : pc'[r] \in Clearing => pc[r] \in Clearing /\ Cleared(r, q)' = Cleared(r, q)
    BY <1>1, <2>1, <2>2 DEF Cleared, local, Clearing, Reader
  <2>6. Intact(q)' = Intact(q) /\ \A i \in 0 .. Len(q) : Found(q, i)' = Found(q, i)
    BY <2>1 DEF Intact, Found
  <2>7. (\A r \in Reader : pc'[r] \notin Clearing) => \A r \in Reader : pc[r] \notin Clearing
    BY <2>1, <2>2 DEF Clearing, Reader
  <2> QED
    BY <2>1, <2>2, <2>3, <2>4, <2>5, <2>6, <2>7 DEF Waiting, local
<1>4. ASSUME NEW r \in Reader, MayEnter(r), pc[r] \in {"idle", "gather"}
      PROVE  /\ ListIs(q) /\ Intact(q) /\ ins = NoInsert /\ Reading = {}
             /\ \A y \in Reader : pc[y] \in {"idle", "gather"}
  <2>1. Reading = {} /\ ins = NoInsert
    BY <1>4 DEF MayEnter, Reading
  <2> QED
    BY <2>1, AtRest DEF Reading
<1>5. CASE Gather
  <2>1. /\ pc["distributor"] = "gather" /\ MayEnter("distributor") /\ pc' = [pc EXCEPT !["distributor"] = "copy"] /\ up'
        /\ cur' = [cur EXCEPT !["distributor"] = head] /\ visited' = <<>>
        /\ UNCHANGED <<heap, stamp, next, prev, head, tail, ins, first, rest, last, rounds, dropped>>
    BY <1>5 DEF Gather, list
  <2>2. pc'["distributor"] = "copy" /\ pc'["collector"] = pc["collector"] /\ cur'["distributor"] = head
    BY <1>1, <2>1 DEF Reader
  <2>3. /\ ListIs(q) /\ Intact(q) /\ ins = NoInsert /\ Reading = {}
        /\ \A y \in Reader : pc[y] \in {"idle", "gather"}
    BY <1>4, <2>1, Readers
  <2>4. Passed' = Passed /\ Reading' \subseteq {"distributor"} /\ \A y \in Reader : pc'[y] \notin Clearing \cup {"walk"}
    BY <1>1, <2>1, <2>2, <2>3 DEF Reading, Passed, Reader, Clearing
  <2>5. ListIs(q)' /\ Intact(q)'
    BY <2>1, <2>2, <2>3, <2>4 DEF ListIs, Intact, Clearing
  <2>6. Copied(q)'
    BY <2>1, <2>2, <2>3 DEF Copied, Intact, HeadOf
  <2> QED
    BY <2>1, <2>2, <2>3, <2>4, <2>5, <2>6, Readers DEF Waiting
<1>6. CASE StartCollect
  <2>1. /\ pc["collector"] = "idle" /\ MayEnter("collector") /\ up'
        /\ pc' = [pc EXCEPT !["collector"] = IF role = "LEADER" THEN "clear" ELSE "walk"]
        /\ cur' = [cur EXCEPT !["collector"] = head] /\ first' = [first EXCEPT !["collector"] = head]
        /\ UNCHANGED <<heap, stamp, next, prev, head, tail, ins, rest, last, visited, rounds, dropped>>
    BY <1>6 DEF StartCollect, list
  <2>2. /\ pc'["collector"] = (IF role = "LEADER" THEN "clear" ELSE "walk") /\ pc'["distributor"] = pc["distributor"]
        /\ cur'["collector"] = head /\ first'["collector"] = head
    BY <1>1, <2>1 DEF Reader
  <2>3. /\ ListIs(q) /\ Intact(q) /\ ins = NoInsert /\ Reading = {}
        /\ \A y \in Reader : pc[y] \in {"idle", "gather"}
    BY <1>4, <2>1, Readers
  <2>4. Passed' = Passed /\ Reading' \subseteq {"collector"} /\ pc["distributor"] \in {"idle", "gather"}
    BY <1>1, <2>1, <2>2, <2>3 DEF Reading, Passed, Reader
  <2>5. ListIs(q)' /\ Intact(q)'
    BY <2>1, <2>2, <2>3, <2>4 DEF ListIs, Intact, Clearing
  <2>6. \A r \in Reader : pc'[r] \in Clearing => Cleared(r, q)'
    <3>1. pc'["collector"] \in Clearing => Cleared("collector", q)'
      BY <2>1, <2>2, <2>3 DEF Cleared, Intact, TailOf, Clearing
    <3> QED
      BY <2>2, <2>4, <3>1 DEF Reader, Clearing
  <2>7. head \in CellsOf(q) \cup {Null}
    BY <2>3 DEF Intact, HeadOf, CellsOf
  <2>8. pc'["distributor"] # "copy"
    BY <2>2, <2>4
  <2> QED
    BY <2>1, <2>2, <2>3, <2>4, <2>5, <2>6, <2>7, <2>8 DEF Waiting
<1> QED
  BY <1>2, <1>3, <1>5, <1>6

\* Copying passes over the list; at its last cell, all of it is visited.
LEMMA CopyKeeps ==
  ASSUME Serial, CacheTypes, NEW q \in Seq(Tx), Waiting(q), up, Copy
  PROVE  \/ ~up' /\ UNCHANGED <<list, ins, pc>> /\ CrashExplained'
         \/ up' /\ Waiting(q)' /\ q # <<>>
<1> DEFINE c == cur["distributor"]
           k == Len(visited)
<1>1. pc \in [Reader -> {"idle", "gather", "copy", "walk", "clear", "advance", "reset"}]
      /\ cur \in [Reader -> Pointer] /\ visited \in Seq(Tx) /\ k \in Nat /\ Len(q) \in Nat
  BY DEF CacheTypes, ReaderTypes
<1>2. pc["distributor"] = "copy" /\ "distributor" \in Reading
  BY Readers DEF Copy, Reading
<1>3. ins = NoInsert /\ pc["collector"] \in {"idle", "gather"}
  BY <1>2, Alone, Readers DEF Reader
<1>4. ListIs(q) /\ Intact(q) /\ Copied(q)
  BY <1>2, <1>3 DEF Waiting, Reader, Clearing
<1>5. CASE q = <<>>
  <2>1. Bad(c) /\ head = Null
    BY <1>4, <1>5, TxAssumption DEF Copied, Intact, HeadOf, Bad
  <2>2. Die
    BY <2>1 DEF Copy
  <2> QED
    BY <1>2, <2>1, <2>2, Readers DEF Die, CrashExplained, list
<1>6. CASE q # <<>>
  <2>1. c = q[k + 1] /\ k + 1 \in 1 .. Len(q) /\ q[k + 1] \in Tx /\ Len(q) \in 1 .. Len(q)
    BY <1>1, <1>4, <1>6 DEF Copied
  <2>2. ~Bad(c)
    BY <1>4, <2>1 DEF ListIs, Bad, CellsOf
  <2>3. /\ visited' = Append(visited, c) /\ up' = up /\ cur' = [cur EXCEPT !["distributor"] = next[c]]
        /\ pc' = [pc EXCEPT !["distributor"] = IF c = tail THEN "clear" ELSE "copy"]
        /\ UNCHANGED <<heap, stamp, next, prev, head, tail, ins, first, rest, last, rounds, dropped>>
    BY <2>2 DEF Copy, Die, list
  <2>4. /\ pc'["distributor"] = (IF c = tail THEN "clear" ELSE "copy") /\ pc'["collector"] = pc["collector"]
        /\ cur'["distributor"] = next[c]
    BY <1>1, <2>3 DEF Reader
  <2>5. c = tail <=> k + 1 = Len(q)
    BY <1>4, <1>6, <2>1 DEF ListIs, Intact, TailOf
  <2>6. /\ Len(visited') = k + 1 /\ DOMAIN visited' = 1 .. k + 1
        /\ \A i \in 1 .. k + 1 : visited'[i] = q[i]
    <3>1. Len(visited') = k + 1 /\ DOMAIN visited' = 1 .. k + 1
          /\ \A i \in 1 .. k + 1 : visited'[i] = IF i = k + 1 THEN c ELSE visited[i]
      BY <1>1, <2>1, <2>3
    <3>2. \A i \in 1 .. k : visited[i] = q[i]
      BY <1>4 DEF Copied
    <3> QED
      BY <1>1, <2>1, <3>1, <3>2
  <2>7. UNCHANGED Passed /\ Reading' \subseteq {"distributor"}
    BY <1>3, <2>3, <2>4 DEF Passed, Reading, Reader
  <2>8. ListIs(q)' /\ Intact(q)'
    BY <1>4, <2>3 DEF ListIs, Intact
  <2>9. c # tail => Copied(q)'
    <3>1. c # tail => next[c] = q[k + 2] /\ k + 1 < Len(q) /\ (k + 1) + 1 = k + 2
      BY <1>1, <1>4, <2>1, <2>5 DEF ListIs
    <3> QED
      BY <1>6, <2>4, <2>6, <3>1 DEF Copied
  <2>10. c = tail => Cleared("distributor", q)'
    BY <1>4, <1>6, <2>3, <2>4 DEF Cleared, Intact, TailOf
  <2>11. \A r \in Reader : pc'[r] \in Clearing => Cleared(r, q)'
    BY <1>3, <2>4, <2>10 DEF Reader, Clearing
  <2>12. pc'["distributor"] = "copy" => Copied(q)'
    BY <2>4, <2>9
  <2>13. pc'["collector"] # "walk" /\ ins' = NoInsert
    BY <1>3, <2>3, <2>4
  <2> QED
    BY <1>6, <2>3, <2>7, <2>8, <2>11, <2>12, <2>13 DEF Waiting
<1> QED
  BY <1>5, <1>6

\* The walk of a node that is not LEADER never comes back to its first cell.
LEMMA WalkKeeps ==
  ASSUME Serial, CacheTypes, NEW q \in Seq(Tx), Waiting(q), up, Walk
  PROVE  \/ ~up' /\ UNCHANGED <<list, ins, pc>> /\ CrashExplained'
         \/ up' /\ Waiting(q)' /\ pc' = pc
<1> DEFINE c == cur["collector"]
<1>1. pc \in [Reader -> {"idle", "gather", "copy", "walk", "clear", "advance", "reset"}]
      /\ cur \in [Reader -> Pointer]
  BY DEF CacheTypes, ReaderTypes
<1>2. pc["collector"] = "walk" /\ "collector" \in Reading
  BY Readers DEF Walk, Reading
<1>3. ins = NoInsert /\ pc["distributor"] \in {"idle", "gather"}
  BY <1>2, Alone, Readers DEF Reader
<1>4. ListIs(q) /\ Intact(q) /\ first["collector"] = head /\ c \in CellsOf(q) \cup {Null}
  BY <1>2, <1>3 DEF Waiting, Reader, Clearing
<1>5. CASE Die
  BY <1>2, <1>5 DEF Die, CrashExplained, list
<1>6. CASE ~Die
  <2>1. /\ c \in Tx /\ up' = up /\ cur' = [cur EXCEPT !["collector"] = next[c]]
        /\ pc' = [pc EXCEPT !["collector"] = IF next[c] = first["collector"] THEN "clear" ELSE "walk"]
        /\ UNCHANGED <<heap, stamp, next, prev, head, tail, ins, first, rest, last, visited, rounds, dropped>>
    BY <1>6 DEF Walk, Bad, list
  <2>2. PICK i \in 1 .. Len(q) : c = q[i]
    BY <1>4, <2>1, TxAssumption DEF CellsOf
  <2>3. next[c] \in CellsOf(q) \cup {Null} /\ next[c] # head
    <3>1. head = q[1] /\ 1 \in 1 .. Len(q) /\ q[1] # Null /\ Len(q) \in Nat
      BY <1>4, <2>2, TxAssumption DEF Intact, HeadOf
    <3>2. i = Len(q) => next[c] = Null
      BY <1>4, <2>2 DEF ListIs
    <3>3. i # Len(q) => next[c] = q[i + 1] /\ i + 1 \in 1 .. Len(q) /\ i + 1 # 1
      BY <1>4, <2>2 DEF ListIs
    <3>4. i # Len(q) => q[i + 1] # q[1]
      BY <1>4, <3>1, <3>3 DEF ListIs
    <3> QED
      BY <3>1, <3>2, <3>3, <3>4 DEF CellsOf
  <2>4. pc' = pc /\ cur'["collector"] = next[c] /\ cur'["distributor"] = cur["distributor"]
    BY <1>1, <1>2, <1>4, <2>1, <2>3, Readers DEF Reader
  <2>5. UNCHANGED <<Passed, Reading>>
    BY <2>1, <2>4 DEF Passed, Reading
  <2>6. ListIs(q)' /\ Intact(q)'
    BY <1>4, <2>1, <2>4, <2>5 DEF ListIs, Intact
  <2>7. \A r \in Reader : pc[r] \notin Clearing
    BY <1>2, <1>3 DEF Reader, Clearing
  <2> QED
    BY <1>2, <1>3, <1>4, <2>1, <2>3, <2>4, <2>5, <2>6, <2>7 DEF Waiting
<1> QED
  BY <1>5, <1>6

LEMMA RestIs ==
  ASSUME NEW q \in Seq(Tx), q # <<>>, \A i, j \in 1 .. Len(q) : q[i] = q[j] => i = j
  PROVE  /\ Tail(q) \in Seq(Tx) /\ Len(Tail(q)) = Len(q) - 1 /\ Len(q) \in Nat \ {0} /\ q[1] \in CellsOf(q)
         /\ \A i \in 1 .. Len(q) - 1 : Tail(q)[i] = q[i + 1] /\ i + 1 \in 1 .. Len(q)
         /\ CellsOf(Tail(q)) = CellsOf(q) \ {q[1]}
         /\ (Tail(q) = <<>> <=> Len(q) = 1)
<1>1. /\ Tail(q) \in Seq(Tx) /\ Len(Tail(q)) = Len(q) - 1 /\ Len(q) \in Nat \ {0}
      /\ \A i \in 1 .. Len(q) - 1 : Tail(q)[i] = q[i + 1] /\ i + 1 \in 1 .. Len(q)
  OBVIOUS
<1>2. DOMAIN Tail(q) = 1 .. Len(q) - 1 /\ DOMAIN q = 1 .. Len(q)
  BY <1>1
<1>3. CellsOf(Tail(q)) \subseteq CellsOf(q) \ {q[1]}
  BY <1>1, <1>2 DEF CellsOf
<1>4. CellsOf(q) \ {q[1]} \subseteq CellsOf(Tail(q))
  <2> SUFFICES ASSUME NEW i \in 1 .. Len(q), q[i] # q[1] PROVE q[i] \in CellsOf(Tail(q))
    BY <1>2 DEF CellsOf
  <2>1. i - 1 \in 1 .. Len(q) - 1 /\ (i - 1) + 1 = i
    BY <1>1
  <2>2. Tail(q)[i - 1] = q[i]
    BY <1>1, <2>1
  <2> QED
    BY <1>2, <2>1, <2>2 DEF CellsOf
<1>5. Tail(q) = <<>> <=> Len(q) = 1
  BY <1>1, SMTT(60)
<1>6. q[1] \in CellsOf(q)
  BY <1>1, <1>2 DEF CellsOf
<1>7. CellsOf(Tail(q)) = CellsOf(q) \ {q[1]}
  BY <1>3, <1>4
<1> QED
  BY <1>1, <1>5, <1>6, <1>7

\* clear_cache takes the cells from the front, and ends when none is left.
LEMMA DeleteKeeps ==
  ASSUME Serial, CacheTypes, NEW q \in Seq(Tx), Waiting(q), up, NEW r \in Reader, ClearDelete(r)
  PROVE  \/ ~up' /\ UNCHANGED <<list, ins, pc>> /\ CrashExplained'
         \/ up' /\ Tail(q) \in Seq(Tx) /\ Waiting(Tail(q))' /\ UNCHANGED stamp
            /\ (\A t \in Tx : heap'[t] = "new" <=> heap[t] = "new") /\ pc'[r] \in Clearing
<1> DEFINE rem == Tail(q)
<1>1. pc \in [Reader -> {"idle", "gather", "copy", "walk", "clear", "advance", "reset"}]
      /\ rest \in [Reader -> Pointer] /\ last \in [Reader -> BOOLEAN] /\ heap \in [Tx -> {"new", "live", "freed"}]
  BY DEF CacheTypes, ReaderTypes, ListTypes
<1>2. pc[r] = "clear" /\ r \in Reading /\ pc[r] \in Clearing
  BY DEF ClearDelete, Reading, Clearing
<1>3. ins = NoInsert /\ \A y \in Reader : y # r => pc[y] \in {"idle", "gather"}
  BY <1>2, Alone
<1>4. ListIs(q) /\ Cleared(r, q) /\ head = HeadOf(q)
  BY <1>2 DEF Waiting, Cleared
<1>5. CASE q = <<>>
  <2>1. Bad(head) /\ head = Null
    BY <1>4, <1>5, TxAssumption DEF HeadOf, Bad
  <2>2. Die
    BY <2>1 DEF ClearDelete
  <2> QED
    BY <1>2, <2>1, <2>2 DEF Die, CrashExplained, list
<1>6. CASE q # <<>>
  <2>1. /\ rem \in Seq(Tx) /\ Len(rem) = Len(q) - 1 /\ Len(q) \in Nat \ {0} /\ q[1] \in CellsOf(q)
        /\ \A i \in 1 .. Len(q) - 1 : rem[i] = q[i + 1] /\ i + 1 \in 1 .. Len(q)
        /\ CellsOf(rem) = CellsOf(q) \ {q[1]} /\ (rem = <<>> <=> Len(q) = 1)
    BY <1>4, <1>6, RestIs DEF ListIs
  <2> HIDE DEF rem
  <2>2. head = q[1] /\ q[1] \in Tx /\ ~Bad(head) /\ tail = q[Len(q)] /\ heap[q[1]] = "live"
    BY <1>4, <1>6, <2>1 DEF HeadOf, Bad, Cleared, ListIs
  <2>3. /\ last' = [last EXCEPT ![r] = (head = tail)] /\ rest' = [rest EXCEPT ![r] = next[head]]
        /\ heap' = [heap EXCEPT ![head] = "freed"] /\ pc' = [pc EXCEPT ![r] = "advance"]
        /\ dropped' = IF r = "collector" THEN dropped \cup {head} ELSE dropped
        /\ UNCHANGED <<stamp, next, prev, head, tail, ins, cur, first, visited, rounds, up>>
    BY <2>2 DEF ClearDelete, Die
  <2>4. pc'[r] = "advance" /\ (\A y \in Reader : y # r => pc'[y] = pc[y]) /\ rest'[r] = next[q[1]]
        /\ \A x \in Tx : heap'[x] = IF x = q[1] THEN "freed" ELSE heap[x]
    BY <1>1, <2>2, <2>3
  <2>5. last'[r] <=> Len(q) = 1
    <3>1. last'[r] = (q[1] = q[Len(q)])
      BY <1>1, <2>2, <2>3
    <3>2. q[1] = q[Len(q)] <=> Len(q) = 1
      BY <1>4, <2>1 DEF ListIs
    <3> QED
      BY <3>1, <3>2
  <2>6. next[q[1]] = HeadOf(rem)
    BY <1>4, <2>1 DEF ListIs, HeadOf
  <2>7. rem # <<>> => tail = rem[Len(rem)]
    <3>1. rem # <<>> => rem[Len(q) - 1] = q[(Len(q) - 1) + 1] /\ (Len(q) - 1) + 1 = Len(q)
      BY <2>1
    <3> QED
      BY <2>1, <2>2, <3>1
  <2>8. Cleared(r, rem)'
    BY <2>1, <2>3, <2>4, <2>5, <2>6, <2>7 DEF Cleared
  <2>9. ListIs(rem)'
    <3>1. \A i, j \in 1 .. Len(rem) : rem[i] = rem[j] => i = j
      <4> SUFFICES ASSUME NEW i \in 1 .. Len(rem), NEW j \in 1 .. Len(rem), rem[i] = rem[j] PROVE i = j
        OBVIOUS
      <4>1. q[i + 1] = q[j + 1] /\ i + 1 \in 1 .. Len(q) /\ j + 1 \in 1 .. Len(q)
        BY <2>1
      <4>2. i + 1 = j + 1
        BY <1>4, <4>1 DEF ListIs
      <4> QED
        BY <4>2
    <3>2. \A x \in Tx : heap'[x] = "live" <=> x \in CellsOf(rem)
      BY <1>4, <2>1, <2>4 DEF ListIs
    <3>3. \A i, j \in 1 .. Len(rem) : i < j => stamp[rem[i]] <= stamp[rem[j]]
      <4> SUFFICES ASSUME NEW i \in 1 .. Len(rem), NEW j \in 1 .. Len(rem), i < j PROVE stamp[rem[i]] <= stamp[rem[j]]
        OBVIOUS
      <4>1. rem[i] = q[i + 1] /\ rem[j] = q[j + 1] /\ i + 1 \in 1 .. Len(q) /\ j + 1 \in 1 .. Len(q) /\ i + 1 < j + 1
        BY <2>1
      <4> QED
        BY <1>4, <4>1 DEF ListIs
    <3>4. \A i \in 1 .. Len(rem) : next[rem[i]] = IF i = Len(rem) THEN Null ELSE rem[i + 1]
      <4> SUFFICES ASSUME NEW i \in 1 .. Len(rem) PROVE next[rem[i]] = IF i = Len(rem) THEN Null ELSE rem[i + 1]
        OBVIOUS
      <4>1. next[rem[i]] = IF i + 1 = Len(q) THEN Null ELSE q[(i + 1) + 1]
        BY <1>4, <2>1 DEF ListIs
      <4>2. i # Len(rem) => rem[i + 1] = q[(i + 1) + 1]
        BY <2>1
      <4> QED
        BY <2>1, <4>1, <4>2
    <3>5. \A x \in Tx : heap'[x] = "new" => next[x] = Null /\ prev[x] = Null
      BY <1>4, <2>4 DEF ListIs
    <3> QED
      BY <2>3, <3>1, <3>2, <3>3, <3>4, <3>5 DEF ListIs
  <2>10. UNCHANGED Passed /\ Reading' \subseteq {r} /\ \A y \in Reader : y # r => pc'[y] \in {"idle", "gather"}
    BY <1>3, <2>3, <2>4 DEF Passed, Reading
  <2>11. \A y \in Reader : pc'[y] \in Clearing => Cleared(y, rem)'
    BY <2>8, <2>10 DEF Clearing
  <2>12. pc'["distributor"] # "copy" /\ pc'["collector"] # "walk" /\ pc'[r] \in Clearing
    BY <2>4, <2>10, Readers DEF Clearing
  <2>13. Waiting(rem)'
    BY <1>3, <2>3, <2>9, <2>10, <2>11, <2>12 DEF Waiting
  <2> QED
    BY <2>1, <2>2, <2>3, <2>4, <2>12, <2>13 DEF rem
<1> QED
  BY <1>5, <1>6

LEMMA AdvanceKeeps ==
  ASSUME Serial, CacheTypes, NEW q \in Seq(Tx), Waiting(q), up, NEW r \in Reader, ClearAdvance(r)
  PROVE  up' /\ Waiting(q)' /\ pc[r] \in Clearing /\ pc'[r] \in Clearing
<1>1. pc \in [Reader -> {"idle", "gather", "copy", "walk", "clear", "advance", "reset"}]
  BY DEF CacheTypes, ReaderTypes
<1>2. pc[r] = "advance" /\ r \in Reading /\ pc[r] \in Clearing
  BY DEF ClearAdvance, Reading, Clearing
<1>3. ins = NoInsert /\ \A y \in Reader : y # r => pc[y] \in {"idle", "gather"}
  BY <1>2, Alone
<1>4. ListIs(q) /\ Cleared(r, q) /\ rest[r] = HeadOf(q) /\ (last[r] <=> q = <<>>)
  BY <1>2 DEF Waiting, Cleared
<1>5. /\ head' = rest[r] /\ pc' = [pc EXCEPT ![r] = IF last[r] THEN "reset" ELSE "clear"]
      /\ UNCHANGED <<heap, stamp, next, prev, tail, ins, local, rounds, dropped, up>>
  BY DEF ClearAdvance
<1>6. pc'[r] = (IF last[r] THEN "reset" ELSE "clear") /\ \A y \in Reader : y # r => pc'[y] = pc[y]
  BY <1>1, <1>5
<1>7. UNCHANGED Passed /\ Reading' \subseteq {r} /\ pc'[r] \in Clearing
      /\ \A y \in Reader : y # r => pc'[y] \in {"idle", "gather"}
  BY <1>3, <1>5, <1>6 DEF Passed, Reading, Clearing
<1>8. ListIs(q)'
  BY <1>4, <1>5 DEF ListIs
<1>9. Cleared(r, q)'
  BY <1>4, <1>5, <1>6 DEF Cleared, HeadOf
<1>10. \A y \in Reader : pc'[y] \in Clearing => Cleared(y, q)'
  BY <1>7, <1>9 DEF Clearing
<1>11. pc'["distributor"] # "copy" /\ pc'["collector"] # "walk"
  BY <1>6, <1>7, Readers DEF Clearing
<1> QED
  BY <1>2, <1>3, <1>5, <1>7, <1>8, <1>10, <1>11 DEF Waiting

LEMMA ResetKeeps ==
  ASSUME Serial, CacheTypes, NEW q \in Seq(Tx), Waiting(q), up, NEW r \in Reader, ClearReset(r)
  PROVE  up' /\ q = <<>> /\ Waiting(q)' /\ pc[r] \in Clearing /\ \A y \in Reader : pc'[y] \notin Clearing
<1>1. pc \in [Reader -> {"idle", "gather", "copy", "walk", "clear", "advance", "reset"}]
      /\ rounds \in Seq(Seq(Tx)) /\ visited \in Seq(Tx)
  BY DEF CacheTypes, ReaderTypes, HistoryTypes
<1>2. pc[r] = "reset" /\ r \in Reading /\ pc[r] \in Clearing
  BY DEF ClearReset, Reading, Clearing
<1>3. ins = NoInsert /\ \A y \in Reader : y # r => pc[y] \in {"idle", "gather"}
  BY <1>2, Alone
<1>4. ListIs(q) /\ q = <<>>
  BY <1>2 DEF Waiting, Cleared
<1>5. /\ head' = Null /\ tail' = Null /\ pc' = [pc EXCEPT ![r] = "idle"]
      /\ rounds' = IF r = "collector" THEN rounds ELSE Append(rounds, visited)
      /\ UNCHANGED <<heap, stamp, next, prev, ins, local, dropped, up>>
  BY DEF ClearReset
<1>6. \A y \in Reader : pc'[y] \in {"idle", "gather"}
  BY <1>1, <1>3, <1>5
<1>7. ListIs(q)' /\ Intact(q)'
  BY <1>4, <1>5 DEF ListIs, Intact, HeadOf, TailOf
<1>8. Waiting(q)'
  <2>1. Reading' = {}
    BY <1>6 DEF Reading
  <2>2. \A y \in Reader : pc'[y] \notin Clearing \cup {"copy", "walk"}
    BY <1>6 DEF Clearing
  <2> QED
    BY <1>3, <1>5, <1>7, <2>1, <2>2, Readers DEF Waiting
<1> QED
  BY <1>2, <1>4, <1>5, <1>6, <1>8 DEF Clearing

-----------------------------------------------------------------------------
(***************************************************************************)
(* What SortedCache sees of it.                                            *)
(***************************************************************************)
Taken == \E r \in Reader : pc[r] \in Clearing
Stamps == [t \in Tx |-> IF heap[t] = "new" THEN 0 ELSE stamp[t]]

LEMMA ContentIs ==
  ASSUME CacheTypes, NEW q \in Seq(Tx), Waiting(q) PROVE Content = IF Taken THEN <<>> ELSE q
<1>1. CASE Taken
  BY <1>1 DEF Content, Taken, Clearing
<1>2. CASE ~Taken
  <2>1. ListIs(q) /\ head = HeadOf(q)
    BY <1>2 DEF Waiting, Taken, Intact
  <2>2. Path = q
    BY <2>1, PathIs
  <2> QED
    BY <1>2, <2>2 DEF Content, Taken, Clearing
<1> QED
  BY <1>1, <1>2

LEMMA ContentAlways ==
  \A q \in Seq(Tx) : CacheTypes /\ Waiting(q) => Content = IF Taken THEN <<>> ELSE q
BY ContentIs

LEMMA ContentThen ==
  (\A q \in Seq(Tx) : CacheTypes /\ Waiting(q) => Content = IF Taken THEN <<>> ELSE q)'
BY ContentAlways, PTL

\* A step that adds nothing.
LEMMA TakeOrStutter ==
  ASSUME Content' \in {Content, <<>>}, Stamps' = Stamps
  PROVE  Sorted!Next \/ UNCHANGED Sorted!vars
<1>1. CASE Content' = Content
  BY <1>1 DEF Sorted!vars, Stamps
<1>2. CASE Content' # Content
  BY <1>2 DEF Sorted!Next, Sorted!Take, Stamps
<1> QED
  BY <1>1, <1>2

LEMMA LostStutters ==
  ASSUME UNCHANGED <<list, pc>> PROVE UNCHANGED Sorted!vars
<1>1. UNCHANGED FromHead
  BY DEF FromHead, list
<1>2. UNCHANGED Path
  BY <1>1 DEF Path
<1> QED
  BY <1>2 DEF Sorted!vars, Content, list

LEMMA InsertAtIs ==
  ASSUME NEW q \in Seq(Tx), NEW i \in 0 .. Len(q), NEW t \in Tx
  PROVE  Sorted!InsertAt(q, i + 1, t) = Put(q, i, t)
<1> DEFINE a == SubSeq(q, 1, i)
           b == SubSeq(q, i + 1, Len(q))
           c == a \o <<t>>
           z == c \o b
<1>1. Len(q) \in Nat
  OBVIOUS
<1>2. a \in Seq(Tx) /\ Len(a) = i /\ \A j \in 1 .. i : a[j] = q[j]
  BY <1>1
<1>3. b \in Seq(Tx) /\ Len(b) = Len(q) - i /\ \A j \in 1 .. Len(q) - i : b[j] = q[i + j]
  BY <1>1
<1> HIDE DEF a, b
<1>4. c \in Seq(Tx) /\ Len(c) = i + 1 /\ \A j \in 1 .. i + 1 : c[j] = IF j <= i THEN a[j] ELSE t
  BY <1>1, <1>2
<1> HIDE DEF c
<1>5. z \in Seq(Tx) /\ Len(z) = Len(q) + 1
      /\ \A j \in 1 .. Len(q) + 1 : z[j] = IF j <= i + 1 THEN c[j] ELSE b[j - (i + 1)]
  <2>1. z \in Seq(Tx) /\ Len(z) = Len(c) + Len(b)
        /\ \A j \in 1 .. Len(c) + Len(b) : z[j] = IF j <= Len(c) THEN c[j] ELSE b[j - Len(c)]
    BY <1>3, <1>4, ConcatProperties
  <2>2. Len(c) + Len(b) = Len(q) + 1
    BY <1>1, <1>3, <1>4
  <2> QED
    BY <1>4, <2>1, <2>2
<1> HIDE DEF z
<1>6. ASSUME NEW j \in 1 .. Len(q) + 1 PROVE z[j] = Put(q, i, t)[j]
  <2>1. Put(q, i, t)[j] = IF j <= i THEN q[j] ELSE IF j = i + 1 THEN t ELSE q[j - 1]
    BY DEF Put
  <2>2. CASE j <= i + 1
    <3>1. z[j] = c[j] /\ j \in 1 .. i + 1
      BY <1>1, <1>5, <2>2
    <3> QED
      BY <1>1, <1>2, <1>4, <2>1, <2>2, <3>1
  <2>3. CASE j > i + 1
    <3>1. z[j] = b[j - (i + 1)] /\ j - (i + 1) \in 1 .. Len(q) - i
      BY <1>1, <1>5, <2>3
    <3>2. b[j - (i + 1)] = q[i + (j - (i + 1))] /\ i + (j - (i + 1)) = j - 1
      BY <1>1, <1>3, <3>1, SMTT(60)
    <3>3. ~(j <= i) /\ j # i + 1
      BY <1>1, <2>3
    <3> QED
      BY <2>1, <3>1, <3>2, <3>3
  <2>4. j <= i + 1 \/ j > i + 1
    BY <1>1
  <2> QED
    BY <2>2, <2>3, <2>4
<1>7. z = [j \in 1 .. Len(q) + 1 |-> z[j]]
  BY <1>5
<1>8. z = Put(q, i, t)
  BY <1>6, <1>7 DEF Put
<1>9. (i + 1) - 1 = i
  BY <1>1
<1> QED
  BY <1>8, <1>9 DEF a, b, c, z, Sorted!InsertAt

\* Linking is Add: the cell goes after those that are not later.
LEMMA LinkAdds ==
  ASSUME CacheTypes, NEW q \in Seq(Tx), Waiting(q), up, ins # NoInsert, NEW t \in Tx, ins.tx = t,
         NEW i \in 0 .. Len(q), Found(q, i), LinkedAt(q, i, t)
  PROVE  \E r \in Seq(Tx) : up' /\ Waiting(r)' /\ (CacheTypes' => Sorted!Next)
<1> DEFINE r == Put(q, i, t)
<1>1. heap[t] = "new" /\ stamp[t] \in 1 .. MaxStamp /\ Reading = {}
  BY DEF CacheTypes, InsertTypes, Waiting
<1>2. ListIs(q) /\ \A y \in Reader : pc[y] \notin Clearing
  BY <1>1, AtRest
<1>3. up' /\ Waiting(r)'
  BY PutKeeps
<1>4. r \in Seq(Tx) /\ r = Sorted!InsertAt(q, i + 1, t)
  BY PutIs, InsertAtIs
<1> HIDE DEF r
<1>5. Len(q) \in Nat /\ DOMAIN q = 1 .. Len(q)
      /\ \A j \in 1 .. Len(q) : q[j] \in Tx /\ q[j] # t /\ heap[q[j]] = "live"
  BY <1>1, <1>2 DEF ListIs, CellsOf
<1>6. UNCHANGED <<pc, stamp>> /\ heap' = [heap EXCEPT ![t] = "live"]
  BY DEF LinkedAt, Linked
<1>7. Content = q
  BY <1>2, ContentIs DEF Taken
<1>8. ASSUME CacheTypes' PROVE Content' = r
  <2>1. ~Taken'
    BY <1>2, <1>6 DEF Taken
  <2>2. Content' = IF Taken' THEN <<>> ELSE r
    BY <1>3, <1>4, <1>8, ContentThen
  <2> QED
    BY <2>1, <2>2
<1> PICK s \in 1 .. MaxStamp : s = stamp[t]
  BY <1>1
<1>9. Stamps' = [Stamps EXCEPT ![t] = s]
  BY <1>1, <1>6 DEF Stamps, CacheTypes, ListTypes
<1>10. \A j \in DOMAIN q : Stamps[q[j]] <= s <=> j <= i
  <2>1. \A j \in 1 .. Len(q) : Stamps[q[j]] = stamp[q[j]]
    BY <1>5 DEF Stamps
  <2> QED
    BY <1>5, <2>1 DEF Found
<1>11. ASSUME CacheTypes' PROVE Sorted!Add(t, s)
  <2>1. /\ \A j \in DOMAIN Content : Content[j] # t /\ (Stamps[Content[j]] <= s <=> j <= i)
        /\ Content' = Sorted!InsertAt(Content, i + 1, t) /\ i \in 0 .. Len(Content)
    BY <1>4, <1>5, <1>7, <1>8, <1>10, <1>11
  <2> QED
    BY <1>9, <2>1 DEF Sorted!Add, Stamps
<1>12. ASSUME CacheTypes' PROVE Sorted!Next
  <2>1. Sorted!Add(t, s)
    BY <1>11, <1>12
  <2>2. \E x \in Tx, y \in 1 .. MaxStamp : Sorted!Add(x, y)
    BY <2>1, Zenon
  <2> QED
    BY <2>2 DEF Sorted!Next
<1> QED
  BY <1>3, <1>4, <1>12

-----------------------------------------------------------------------------
(***************************************************************************)
(* The theorems.                                                           *)
(***************************************************************************)
\* Where a step leads: to a list SortedCache's step may lead to, or to the end of the run.
Goes == OrderInv' /\ (Sorted!Next \/ UNCHANGED Sorted!vars)

LEMMA StutterGoes ==
  ASSUME OrderInv, UNCHANGED vars PROVE Goes
<1>1. UNCHANGED Sorted!vars
  BY LostStutters DEF vars
<1>2. CASE ~up
  BY <1>1, <1>2 DEF vars, OrderInv, CrashExplained, list, Goes
<1>3. CASE up
  <2>1. PICK q \in Seq(Tx) : Waiting(q)
    BY <1>3 DEF OrderInv
  <2>2. Waiting(q)'
    BY <2>1, WaitingSame DEF vars, list
  <2>3. OrderInv'
    BY <1>3, <2>2 DEF OrderInv, vars
  <2> QED
    BY <1>1, <2>3 DEF Goes
<1> QED
  BY <1>2, <1>3

LEMMA LostGoes ==
  ASSUME ~up', UNCHANGED <<list, ins, pc>>, CrashExplained' PROVE Goes
BY LostStutters DEF Goes, OrderInv

\* A step after which the list is r, and to which nothing came.
LEMMA LeftGoes ==
  ASSUME CacheTypes, CacheTypes', NEW q \in Seq(Tx), Waiting(q), up', NEW r \in Seq(Tx), Waiting(r)',
         Taken => Taken' \/ r = <<>>, ~Taken /\ ~Taken' => r = q, Stamps' = Stamps
  PROVE  Goes
<1>1. Content = IF Taken THEN <<>> ELSE q
  BY ContentIs
<1>2. Content' = IF Taken' THEN <<>> ELSE r
  BY ContentThen
<1>3. Content' \in {Content, <<>>}
  BY <1>1, <1>2
<1> QED
  BY <1>3, TakeOrStutter DEF Goes, OrderInv

LEMMA InsertGoes ==
  ASSUME Serial, CacheTypes, CacheTypes', OrderInv, Insert PROVE Goes
<1>1. up
  BY DEF Insert, InsertLink, InsertSearch
<1>2. PICK q \in Seq(Tx) : Waiting(q)
  BY <1>1 DEF OrderInv
<1>3. CASE InsertLink
  <2>1. CASE ~up' /\ UNCHANGED <<list, ins, pc>> /\ CrashExplained'
    BY <2>1, LostGoes
  <2>2. ASSUME NEW i \in 0 .. Len(q), Found(q, i), LinkedAt(q, i, ins.tx) PROVE Goes
    <3>1. ins # NoInsert /\ ins.tx \in Tx
      BY <1>3 DEF InsertLink, CacheTypes, InsertTypes
    <3>2. PICK t \in Tx : ins.tx = t
      BY <3>1
    <3>3. LinkedAt(q, i, t)
      BY <2>2, <3>2 DEF LinkedAt, Linked
    <3>4. PICK r \in Seq(Tx) : up' /\ Waiting(r)' /\ (CacheTypes' => Sorted!Next)
      BY <1>1, <1>2, <2>2, <3>1, <3>2, <3>3, LinkAdds
    <3> QED
      BY <3>4 DEF Goes, OrderInv
  <2> QED
    BY <1>1, <1>2, <1>3, <2>1, <2>2, LinkKeeps
<1>4. ASSUME NEW t \in Tx, NEW s \in 1 .. MaxStamp, InsertSearch(t, s) PROVE Goes
  <2>1. up' /\ Waiting(q)'
    BY <1>1, <1>2, <1>4, SearchKeeps
  <2>2. UNCHANGED <<heap, pc>> /\ stamp' = [stamp EXCEPT ![t] = s] /\ heap[t] = "new"
    BY <1>1, <1>4, <2>1 DEF InsertSearch, Die
  <2>3. Stamps' = Stamps /\ Taken' = Taken
    BY <2>2 DEF Stamps, Taken, CacheTypes, ListTypes
  <2> QED
    BY <1>2, <2>1, <2>3, LeftGoes
<1> QED
  BY <1>3, <1>4 DEF Insert

LEMMA ReadGoes ==
  ASSUME Serial, CacheTypes, CacheTypes', OrderInv,
         BecomeLeader \/ StartDistribute \/ Gather \/ Copy \/ StartCollect \/ Walk
  PROVE  Goes
<1>1. up
  BY DEF BecomeLeader, StartDistribute, Gather, Copy, StartCollect, Walk
<1>2. PICK q \in Seq(Tx) : Waiting(q)
  BY <1>1 DEF OrderInv
<1>3. CASE ~up' /\ UNCHANGED <<list, ins, pc>> /\ CrashExplained'
  BY <1>3, LostGoes
<1>4. CASE up' /\ Waiting(q)'
  <2>1. UNCHANGED <<heap, stamp>>
    BY <1>1, <1>4 DEF BecomeLeader, StartDistribute, Gather, Copy, StartCollect, Walk, Die, list
  <2>2. ASSUME NEW r \in Reader, pc[r] \in Clearing PROVE pc'[r] = pc[r]
    BY <1>1, <1>4, <2>2
       DEF BecomeLeader, StartDistribute, Gather, Copy, StartCollect, Walk, Die, Clearing, CacheTypes, ReaderTypes
  <2>3. Stamps' = Stamps /\ (Taken => Taken')
    BY <2>1, <2>2 DEF Stamps, Taken
  <2> QED
    BY <1>2, <1>4, <2>3, LeftGoes
<1> QED
  BY <1>1, <1>2, <1>3, <1>4, EntryKeeps, CopyKeeps, WalkKeeps

LEMMA ClearGoes ==
  ASSUME Serial, CacheTypes, CacheTypes', OrderInv,
         NEW r \in Reader, ClearDelete(r) \/ ClearAdvance(r) \/ ClearReset(r)
  PROVE  Goes
<1>1. up
  BY DEF ClearDelete, ClearAdvance, ClearReset
<1>2. PICK q \in Seq(Tx) : Waiting(q)
  BY <1>1 DEF OrderInv
<1>3. CASE ClearDelete(r)
  <2>1. CASE ~up' /\ UNCHANGED <<list, ins, pc>> /\ CrashExplained'
    BY <2>1, LostGoes
  <2>2. CASE /\ up' /\ Tail(q) \in Seq(Tx) /\ Waiting(Tail(q))' /\ UNCHANGED stamp
             /\ (\A t \in Tx : heap'[t] = "new" <=> heap[t] = "new") /\ pc'[r] \in Clearing
    <3>1. Stamps' = Stamps
      BY <2>2 DEF Stamps
    <3>2. Taken /\ Taken'
      BY <1>3, <2>2 DEF ClearDelete, Taken, Clearing
    <3> QED
      BY <1>2, <2>2, <3>1, <3>2, LeftGoes
  <2> QED
    BY <1>1, <1>2, <1>3, <2>1, <2>2, DeleteKeeps
<1>4. CASE ClearAdvance(r)
  <2>1. up' /\ Waiting(q)' /\ Taken /\ Taken'
    BY <1>1, <1>2, <1>4, AdvanceKeeps DEF Taken
  <2>2. Stamps' = Stamps
    BY <1>4 DEF ClearAdvance, Stamps
  <2> QED
    BY <1>2, <2>1, <2>2, LeftGoes
<1>5. CASE ClearReset(r)
  <2>1. up' /\ q = <<>> /\ Waiting(q)'
    BY <1>1, <1>2, <1>5, ResetKeeps
  <2>2. Stamps' = Stamps
    BY <1>5 DEF ClearReset, Stamps
  <2> QED
    BY <1>2, <2>1, <2>2, LeftGoes
<1> QED
  BY <1>3, <1>4, <1>5

LEMMA OrderStep ==
  ASSUME Serial, CacheTypes, CacheTypes', OrderInv, [Next]_vars PROVE Goes
BY StutterGoes, InsertGoes, ReadGoes, ClearGoes, Readers DEF Next, Distribute, Collect

LEMMA OrderHolds == ASSUME Serial PROVE Spec => [](CacheTypes /\ OrderInv)
<1>1. Init => CacheTypes /\ OrderInv
  <2> SUFFICES ASSUME Init PROVE CacheTypes /\ OrderInv
    OBVIOUS
  <2>1. <<>> \in Seq(Tx)
    BY EmptySeq
  <2> QED
    BY <2>1, CacheTypesInit, WaitingInit DEF OrderInv
<1>2. CacheTypes /\ OrderInv /\ [Next]_vars => (CacheTypes /\ OrderInv)'
  BY CacheTypesStep, OrderStep DEF Goes
<1> QED
  BY <1>1, <1>2, PTL DEF Spec

\* CrashExplained: a bad pointer is followed only by an insert with the timestamp of _tail, by a
\* reader of an empty list, and by the walk of a node that is not LEADER.
THEOREM CrashesExplained == Spec => []CrashExplained
<1>1. CASE Serial
  <2>1. CacheTypes /\ OrderInv => CrashExplained
    BY DEF OrderInv, CrashExplained
  <2> QED
    BY <1>1, <2>1, OrderHolds, PTL
<1>2. CASE ~Serial
  <2>1. CrashExplained
    BY <1>2 DEF CrashExplained
  <2> QED
    BY <2>1, PTL
<1> QED
  BY <1>1, <1>2

\* SortedSpec: where inserts and readers keep apart, the linked list implements SortedCache: each
\* insert adds its transaction in the order of the timestamps, and the clearing takes all.
THEOREM CacheImplementsSorted == ASSUME Serial PROVE Spec => SortedSpec
<1>1. Init => Sorted!Init
  <2> SUFFICES ASSUME Init PROVE Sorted!Init
    OBVIOUS
  <2>1. CacheTypes /\ Waiting(<<>>) /\ <<>> \in Seq(Tx)
    BY CacheTypesInit, WaitingInit, EmptySeq
  <2>2. Content = <<>>
    BY <2>1, ContentIs
  <2> QED
    BY <2>2 DEF Sorted!Init, Init
<1>2. CacheTypes /\ CacheTypes' /\ OrderInv /\ [Next]_vars => [Sorted!Next]_(Sorted!vars)
  BY OrderStep DEF Goes
<1> QED
  BY <1>1, <1>2, OrderHolds, PTL DEF Spec, SortedSpec, Sorted!Spec
=============================================================================
