---------------------------- MODULE BlockProofs ----------------------------
(***************************************************************************)
(* Theorems about BlockFlow, for every number of nodes, store nodes,       *)
(* transactions, blocks, restarts and repeated requests: its types, the    *)
(* store nodes that are listed, the chain of a single maker, and the       *)
(* chains of leaders of nobody.                                            *)
(***************************************************************************)
EXTENDS BlockFlow, FiniteSetTheorems, TLAPS

LEMMA Bounds == /\ MaxTx \in Nat /\ MaxHeight \in Nat
                /\ MaxRestart \in Nat /\ MaxRetry \in Nat
                /\ IsFiniteSet(Node)
BY FlowAssumption

-----------------------------------------------------------------------------
(***************************************************************************)
(* The types, with what the distributor's place says of its local          *)
(* variables and calls, and a worker's place of its request.               *)
(***************************************************************************)
Hashes == made \cup {Genesis}

ProcTypes ==
  /\ up \in [Node -> BOOLEAN] /\ life \in [Node -> 0 .. MaxRestart]
  /\ role \in [Node -> {"FOLLOWER", "LEADER"}] /\ peers \in [Node -> SUBSET Node]
  /\ seen \in [Node -> BOOLEAN]

InboxTypes ==
  /\ cached \in [Node -> 0 .. MaxTx] /\ toSave \in [Node -> SUBSET Store]
  /\ stores \in [Node -> SUBSET Store] /\ missed \in [Node -> SUBSET Store]

HeadTypes ==
  /\ hight \in [Node -> 0 .. MaxHeight] /\ preHash \in [Node -> Hashes]

MadeTypes ==
  /\ \A b \in made : /\ b.pre \in Hashes /\ b.number \in 0 .. (MaxHeight - 1)
                     /\ b.txs \in 1 .. MaxTx
  /\ retries \in Nat

LocalType == [pre : Hashes, number : 0 .. MaxHeight, block : Hashes,
              asked : SUBSET Store, failed : SUBSET Store]

RoundTypes ==
  /\ pc \in [Node -> {"idle", "read", "gather", "cut", "send", "stores"}]
  /\ loc \in [Node -> LocalType]
  /\ call \in [Node -> [Node -> {"none", "open", "ok", "failed"}]]
  /\ \A n \in Node :
       /\ pc[n] = "gather" => loc[n].number < MaxHeight
       /\ pc[n] \in {"cut", "send"} => loc[n].block \in made
       /\ \A m \in Node : call[n][m] = "open" => pc[n] \in {"gather", "send"}

RequestType == [type : {"get", "block"}, from : Node, life : Nat, to : Node, block : Hashes,
                try : Nat, at : {"sent", "hight", "stores", "join"}, asked : SUBSET Store]

RequestTypes ==
  \A r \in req :
    /\ r \in RequestType
    /\ r.type = "block" => r.block \in made
    /\ r.at # "sent" => r.type = "block" /\ up[r.to]

FlowInv == ProcTypes /\ InboxTypes /\ HeadTypes /\ MadeTypes /\ RoundTypes /\ RequestTypes

LEMMA FlowInvInit == ASSUME Init PROVE FlowInv
<1>1. ProcTypes /\ InboxTypes /\ HeadTypes /\ MadeTypes /\ RequestTypes
  BY Bounds DEF Init, ProcTypes, InboxTypes, HeadTypes, MadeTypes, RequestTypes, Hashes
<1>2. RoundTypes
  BY Bounds DEF Init, RoundTypes, LocalType, Local, NoCall, Hashes
<1> QED
  BY <1>1, <1>2 DEF FlowInv

\* All of them are started again at most MaxRestart times, so each is.
LEMMA RestartBound ==
  ASSUME ProcTypes, NEW n \in Node, Restarts < MaxRestart
  PROVE  life[n] < MaxRestart
<1> DEFINE All == {x \in Node \X (1 .. MaxRestart) : x[2] <= life[x[1]]}
           Mine == {<<n, k>> : k \in 1 .. MaxRestart}
<1>1. SUFFICES ASSUME life[n] = MaxRestart PROVE FALSE
  BY Bounds DEF ProcTypes
<1>2. Mine \subseteq All
  BY <1>1, Bounds
<1>3. IsFiniteSet(Node \X (1 .. MaxRestart))
  <2>1. IsFiniteSet(1 .. MaxRestart)
    BY Bounds, FS_Interval
  <2> QED
    BY <2>1, Bounds, FS_Product
<1>4. IsFiniteSet(All)
  BY <1>3, FS_Subset
<1>5. Cardinality(Mine) = MaxRestart
  <2> DEFINE f == [k \in 1 .. MaxRestart |-> <<n, k>>]
  <2>1. f \in Bijection(1 .. MaxRestart, Mine)
    BY DEF Bijection, Injection, Surjection, IsInjective
  <2>2. Cardinality(Mine) = Cardinality(1 .. MaxRestart)
    BY <2>1, FS_Bijection, FS_Interval, Bounds DEF ExistsBijection
  <2> QED
    BY <2>2, FS_Interval, Bounds
<1>6. Cardinality(Mine) <= Cardinality(All)
  BY <1>2, <1>4, FS_Subset
<1>7. Restarts = Cardinality(All) /\ Cardinality(All) \in Nat
  BY <1>4, FS_CardinalityType DEF Restarts
<1> QED
  BY <1>5, <1>6, <1>7, Bounds

-----------------------------------------------------------------------------
(***************************************************************************)
(* The ends and starts of a process.                                       *)
(***************************************************************************)
LEMMA LocalTyped == Local \in LocalType
BY Bounds DEF Local, LocalType, Hashes

LEMMA StopKeeps ==
  ASSUME FlowInv, NEW n \in Node, Stop(n), UNCHANGED made
  PROVE  InboxTypes' /\ RoundTypes'
<1>1. InboxTypes'
  BY Bounds DEF FlowInv, InboxTypes, Stop
<1>2. Hashes' = Hashes /\ LocalType' = LocalType
  BY DEF Hashes, LocalType
<1>3. loc' \in [Node -> LocalType]'
  BY <1>2, LocalTyped DEF FlowInv, RoundTypes, Stop
<1>4. call' \in [Node -> [Node -> {"none", "open", "ok", "failed"}]]
  BY DEF FlowInv, RoundTypes, Stop, NoCall
<1>5. RoundTypes'
  BY <1>3, <1>4 DEF FlowInv, RoundTypes, Stop, NoCall
<1> QED
  BY <1>1, <1>5

\* Without the requests that the workers of n were busy with.
LEMMA DieKeeps ==
  ASSUME FlowInv, NEW n \in Node, Die(n), req' \subseteq req \ Busy(n)
  PROVE  FlowInv'
<1>1. InboxTypes' /\ RoundTypes'
  BY StopKeeps DEF Die, past
<1>2. ProcTypes' /\ HeadTypes' /\ MadeTypes'
  BY DEF FlowInv, ProcTypes, HeadTypes, MadeTypes, Hashes, Die, past, head
<1>3. RequestTypes'
  BY DEF FlowInv, ProcTypes, RequestTypes, RequestType, Hashes, Die, past, Busy
<1> QED
  BY <1>1, <1>2, <1>3 DEF FlowInv

LEMMA RestartKeeps == ASSUME FlowInv, NEW n \in Node, Restart(n) PROVE FlowInv'
<1>1. InboxTypes' /\ RoundTypes'
  BY StopKeeps DEF Restart, past
<1>2. life[n] + 1 \in 0 .. MaxRestart
  BY RestartBound, Bounds DEF Restart, FlowInv, ProcTypes
<1>3. ProcTypes'
  BY <1>2 DEF FlowInv, ProcTypes, Restart
<1>4. HeadTypes' /\ MadeTypes'
  BY Bounds DEF FlowInv, HeadTypes, MadeTypes, Hashes, Restart, past
<1>5. RequestTypes'
  BY DEF FlowInv, ProcTypes, RequestTypes, RequestType, Hashes, Restart, past, Busy
<1> QED
  BY <1>1, <1>3, <1>4, <1>5 DEF FlowInv

-----------------------------------------------------------------------------
(***************************************************************************)
(* What changes no block, no local variable and no request.                *)
(***************************************************************************)
LEMMA RoundsUnchanged ==
  ASSUME FlowInv, UNCHANGED <<pc, loc, made>>,
         call' \in [Node -> [Node -> {"none", "open", "ok", "failed"}]],
         \A n, m \in Node : call'[n][m] = "open" => call[n][m] = "open"
  PROVE  RoundTypes'
BY DEF FlowInv, RoundTypes, LocalType, Hashes

LEMMA RequestsUnchanged ==
  ASSUME FlowInv, UNCHANGED <<up, made>>, req' \subseteq req
  PROVE  RequestTypes'
BY DEF FlowInv, RequestTypes, RequestType, Hashes

LEMMA ElectionKeeps ==
  ASSUME FlowInv, NEW n \in Node, NEW m \in Node, BecomeLeader(n) \/ DropPeer(n, m)
  PROVE  FlowInv'
<1>1. UNCHANGED <<up, life, seen, head, inbox, known, pc, loc, call, req, past>>
  BY DEF BecomeLeader, DropPeer, proc
<1>2. ProcTypes'
  BY DEF FlowInv, ProcTypes, BecomeLeader, DropPeer, proc
<1>3. InboxTypes' /\ HeadTypes' /\ MadeTypes'
  BY <1>1 DEF FlowInv, InboxTypes, HeadTypes, MadeTypes, Hashes, head, inbox, known, past
<1>4. RoundTypes' /\ RequestTypes'
  BY <1>1, RoundsUnchanged, RequestsUnchanged DEF FlowInv, RoundTypes, past
<1> QED
  BY <1>2, <1>3, <1>4 DEF FlowInv

LEMMA SendTxKeeps ==
  ASSUME FlowInv, NEW n \in Node, NEW s \in Store, InsertTx(n, s) \/ SaveStoreNode(n, s)
  PROVE  FlowInv'
<1>1. CASE Die(n) /\ req' = req \ Busy(n)
  BY <1>1, DieKeeps
<1>2. CASE UNCHANGED <<up, life, role, peers, head, pc, loc, call, req, past>>
           /\ (\/ /\ cached[n] < MaxTx /\ cached' = [cached EXCEPT ![n] = @ + 1]
                  /\ seen' = [seen EXCEPT ![n] = TRUE]
                  /\ toSave' = [toSave EXCEPT ![n] = @ \cup {s}]
                  /\ UNCHANGED known
               \/ SaveStoreNode(n, s))
  <2>1. ProcTypes'
    BY <1>2 DEF FlowInv, ProcTypes, SaveStoreNode, proc
  <2>2. InboxTypes'
    BY <1>2, Bounds DEF FlowInv, InboxTypes, SaveStoreNode, known
  <2>3. HeadTypes' /\ MadeTypes'
    BY <1>2 DEF FlowInv, HeadTypes, MadeTypes, Hashes, head, past
  <2>4. RoundTypes' /\ RequestTypes'
    BY <1>2, RoundsUnchanged, RequestsUnchanged DEF FlowInv, RoundTypes, past
  <2> QED
    BY <2>1, <2>2, <2>3, <2>4 DEF FlowInv
<1> QED
  BY <1>1, <1>2 DEF InsertTx, SaveStoreNode, proc

-----------------------------------------------------------------------------
(***************************************************************************)
(* The calls and the distributor.                                          *)
(***************************************************************************)
CallTypes == [Node -> [Node -> {"none", "open", "ok", "failed"}]]

\* A local variable that is assigned a value of its type.
LEMMA LocalAssigned ==
  ASSUME NEW l \in LocalType
  PROVE  /\ \A x \in Hashes : [l EXCEPT !.pre = x] \in LocalType /\ [l EXCEPT !.block = x] \in LocalType
         /\ \A i \in 0 .. MaxHeight : [l EXCEPT !.number = i] \in LocalType
         /\ \A S \in SUBSET Store : [l EXCEPT !.asked = S] \in LocalType /\ [l EXCEPT !.failed = S] \in LocalType
BY DEF LocalType

LEMMA OpenTyped ==
  ASSUME FlowInv, NEW n \in Node
  PROVE  /\ [call EXCEPT ![n] = Open(n)] \in CallTypes
         /\ [call EXCEPT ![n] = NoCall] \in CallTypes
BY DEF FlowInv, RoundTypes, CallTypes, Open, NoCall

LEMMA RequestsTyped ==
  ASSUME FlowInv, NEW n \in Node, NEW m \in Node, NEW try \in Nat
  PROVE  /\ GetRequest(n, m, try) \in RequestType
         /\ GetRequest(n, m, try).type = "get" /\ GetRequest(n, m, try).at = "sent"
         /\ BlockRequest(n, m, try) \in RequestType
         /\ BlockRequest(n, m, try).type = "block" /\ BlockRequest(n, m, try).at = "sent"
         /\ BlockRequest(n, m, try).block = loc[n].block
<1>1. life[n] \in Nat /\ loc[n].block \in Hashes
  BY Bounds DEF FlowInv, ProcTypes, RoundTypes, LocalType
<1>2. GetRequest(n, m, try) \in RequestType
  BY <1>1 DEF GetRequest, RequestType, Hashes
<1> QED
  BY <1>1, <1>2 DEF GetRequest, BlockRequest, RequestType

\* Requests that are sent carry a block that was made, or none.
LEMMA SentKeeps ==
  ASSUME FlowInv, NEW new, UNCHANGED <<up, made>>, req' = req \cup new,
         \A r \in new : /\ r \in RequestType /\ r.at = "sent"
                        /\ r.type = "block" => r.block \in made
  PROVE  RequestTypes'
BY DEF FlowInv, RequestTypes, RequestType, Hashes

LEMMA TimeoutKeeps ==
  ASSUME FlowInv, NEW n \in Node, NEW m \in Node, Timeout(n, m) PROVE FlowInv'
<1>1. UNCHANGED <<proc, peers, head, inbox, known, pc, loc, req, past>>
  BY DEF Timeout
<1>2. ProcTypes' /\ InboxTypes' /\ HeadTypes' /\ MadeTypes'
  BY <1>1 DEF FlowInv, ProcTypes, InboxTypes, HeadTypes, MadeTypes, Hashes, proc, head, inbox, known, past
<1>3. RoundTypes' /\ RequestTypes'
  BY <1>1, RoundsUnchanged, RequestsUnchanged DEF FlowInv, RoundTypes, Timeout, proc, past
<1> QED
  BY <1>2, <1>3 DEF FlowInv

LEMMA RetryKeeps ==
  ASSUME FlowInv, NEW n \in Node, NEW m \in Node, Retry(n, m) PROVE FlowInv'
<1>1. UNCHANGED <<proc, peers, head, inbox, known, pc, loc, call, made>> /\ retries' = retries + 1
  BY DEF Retry
<1>2. ProcTypes' /\ InboxTypes' /\ HeadTypes' /\ MadeTypes'
  BY <1>1 DEF FlowInv, ProcTypes, InboxTypes, HeadTypes, MadeTypes, Hashes, proc, head, inbox, known
<1>3. RoundTypes'
  BY <1>1, RoundsUnchanged DEF FlowInv, RoundTypes
<1>4. RequestTypes'
  <2>1. pc[n] = "gather" \/ (pc[n] = "send" /\ loc[n].block \in made)
    BY DEF Retry, FlowInv, RoundTypes
  <2>2. retries + 1 \in Nat
    BY DEF FlowInv, MadeTypes
  <2>3. LET r == Request(n, m, retries + 1)
        IN  r \in RequestType /\ r.at = "sent" /\ (r.type = "block" => r.block \in made)
    BY <2>1, <2>2, RequestsTyped DEF Request
  <2> QED
    <3> DEFINE new == {Request(n, m, retries + 1)}
    <3>1. \A r \in new : r \in RequestType /\ r.at = "sent" /\ (r.type = "block" => r.block \in made)
      BY <2>3
    <3>2. req' = req \cup new
      BY DEF Retry
    <3> HIDE DEF new
    <3> QED
      BY <1>1, <3>1, <3>2, SentKeeps DEF proc
<1> QED
  BY <1>2, <1>3, <1>4 DEF FlowInv

\* The steps of the distributor that leave heads, blocks and requests alone.
LEMMA DistributorMoves ==
  ASSUME FlowInv, NEW n \in Node,
         StartDistribute(n) \/ SendToStores(n) \/ EndDistribute(n)
           \/ \E s \in Store : JoinStore(n, s)
  PROVE  FlowInv'
<1>1. UNCHANGED <<proc, head, inbox, req, past>>
  BY DEF StartDistribute, SendToStores, EndDistribute, JoinStore
<1>2. HeadTypes' /\ MadeTypes'
  BY <1>1 DEF FlowInv, HeadTypes, MadeTypes, Hashes, head, past
<1>3. ProcTypes'
  <2>1. peers' = peers \/ peers' = [peers EXCEPT ![n] = @ \ FailedCalls(n)]
    BY DEF StartDistribute, SendToStores, EndDistribute, JoinStore
  <2> QED
    BY <1>1, <2>1 DEF FlowInv, ProcTypes, proc
<1>4. InboxTypes'
  <2>1. stores' = stores \/ stores' = [stores EXCEPT ![n] = @ \ loc[n].failed]
    BY DEF StartDistribute, SendToStores, EndDistribute, JoinStore, known
  <2>2. missed' = missed \/ \E s \in Store : missed' = [missed EXCEPT ![n] = @ \cup {s}]
    BY DEF StartDistribute, SendToStores, EndDistribute, JoinStore, known
  <2> QED
    BY <1>1, <2>1, <2>2 DEF FlowInv, InboxTypes, inbox
<1>5. RequestTypes'
  BY <1>1, RequestsUnchanged DEF proc, past
<1>6. RoundTypes'
  <2>1. UNCHANGED made /\ Hashes' = Hashes /\ LocalType' = LocalType
    BY <1>1 DEF past, Hashes, LocalType
  <2>2. CASE StartDistribute(n)
    <3>1. loc[n] \in LocalType /\ preHash[n] \in Hashes
      BY DEF FlowInv, HeadTypes, RoundTypes
    <3>2. [loc[n] EXCEPT !.pre = preHash[n]] \in LocalType
      BY <3>1, LocalAssigned
    <3>3. loc' \in [Node -> LocalType] /\ \A m \in Node : m # n => loc'[m] = loc[m]
      BY <2>2, <3>2 DEF FlowInv, RoundTypes, StartDistribute
    <3> QED
      BY <2>1, <2>2, <3>3 DEF FlowInv, RoundTypes, StartDistribute
  <2>3. CASE SendToStores(n)
    <3>1. loc[n] \in LocalType /\ stores[n] \in SUBSET Store
      BY DEF FlowInv, InboxTypes, RoundTypes
    <3>2. [loc[n] EXCEPT !.asked = stores[n]] \in LocalType
      BY <3>1, LocalAssigned
    <3>3. loc' \in [Node -> LocalType] /\ \A m \in Node : m # n => loc'[m] = loc[m]
      BY <2>3, <3>2 DEF FlowInv, RoundTypes, SendToStores
    <3>4. call' \in CallTypes
      BY <2>3, OpenTyped DEF SendToStores
    <3> QED
      BY <2>1, <2>3, <3>3, <3>4 DEF FlowInv, RoundTypes, SendToStores, CallTypes, NoCall
  <2>4. CASE EndDistribute(n)
    <3>1. [loc EXCEPT ![n] = Local] \in [Node -> LocalType]
      BY LocalTyped DEF FlowInv, RoundTypes
    <3> QED
      BY <2>1, <2>4, <3>1 DEF FlowInv, RoundTypes, EndDistribute
  <2>5. CASE \E s \in Store : JoinStore(n, s)
    <3>1. PICK s \in Store : JoinStore(n, s)
      BY <2>5
    <3>2. loc[n] \in LocalType /\ loc[n].asked \ {s} \in SUBSET Store /\ loc[n].failed \cup {s} \in SUBSET Store
      BY DEF FlowInv, RoundTypes, LocalType
    <3> DEFINE one == [loc EXCEPT ![n].asked = @ \ {s}]
               two == [loc EXCEPT ![n].asked = @ \ {s}, ![n].failed = @ \cup {s}]
    <3>3. one \in [Node -> LocalType] /\ \A m \in Node : m # n => one[m] = loc[m]
      BY <3>2 DEF FlowInv, RoundTypes, LocalType
    <3>4. two \in [Node -> LocalType] /\ \A m \in Node : m # n => two[m] = loc[m]
      BY <3>2 DEF FlowInv, RoundTypes, LocalType
    <3>6. loc' \in [Node -> LocalType] /\ \A m \in Node : m # n => loc'[m] = loc[m]
      <4>1. loc' = one \/ loc' = two
        BY <3>1 DEF JoinStore
      <4> QED
        BY <4>1, <3>3, <3>4
    <3>5. pc[n] = "stores" /\ UNCHANGED <<pc, call>>
      BY <3>1 DEF JoinStore
    <3> QED
      BY <2>1, <3>5, <3>6 DEF FlowInv, RoundTypes
  <2> QED
    BY <2>2, <2>3, <2>4, <2>5
<1> QED
  BY <1>2, <1>3, <1>4, <1>5, <1>6 DEF FlowInv

LEMMA AskKeeps == ASSUME FlowInv, NEW n \in Node, AskForTxs(n) PROVE FlowInv'
<1>1. UNCHANGED <<proc, peers, head, inbox, known, past>>
  BY DEF AskForTxs
<1>2. ProcTypes' /\ InboxTypes' /\ HeadTypes' /\ MadeTypes'
  BY <1>1 DEF FlowInv, ProcTypes, InboxTypes, HeadTypes, MadeTypes, Hashes, proc, head, inbox, known, past
<1>3. RoundTypes'
  <2>1. UNCHANGED made /\ Hashes' = Hashes /\ LocalType' = LocalType
    BY <1>1 DEF past, Hashes, LocalType
  <2>2. call' \in CallTypes
    BY OpenTyped DEF AskForTxs
  <2> QED
    <3>1. loc[n] \in LocalType /\ hight[n] \in 0 .. MaxHeight /\ hight[n] < MaxHeight
      BY DEF FlowInv, HeadTypes, RoundTypes, AskForTxs
    <3>2. [loc[n] EXCEPT !.number = hight[n]] \in LocalType /\ [loc[n] EXCEPT !.number = hight[n]].number = hight[n]
      BY <3>1, LocalAssigned DEF LocalType
    <3>3. /\ loc' \in [Node -> LocalType] /\ loc'[n].number < MaxHeight
          /\ \A m \in Node : m # n => loc'[m] = loc[m]
      BY <3>1, <3>2 DEF FlowInv, RoundTypes, AskForTxs
    <3>4. /\ pc' \in [Node -> {"idle", "read", "gather", "cut", "send", "stores"}] /\ pc'[n] = "gather"
          /\ \A m \in Node : m # n => pc'[m] = pc[m] /\ call'[m] = call[m]
      BY DEF FlowInv, RoundTypes, AskForTxs
    <3> QED
      BY <2>1, <2>2, <3>3, <3>4 DEF FlowInv, RoundTypes, CallTypes
<1>4. RequestTypes'
  <2> DEFINE new == {GetRequest(n, m, 0) : m \in peers[n]}
  <2>1. \A r \in new : r \in RequestType /\ r.at = "sent" /\ (r.type = "block" => r.block \in made)
    BY RequestsTyped DEF FlowInv, ProcTypes
  <2>2. req' = req \cup new
    BY DEF AskForTxs
  <2> HIDE DEF new
  <2> QED
    BY <1>1, <2>1, <2>2, SentKeeps DEF proc, past
<1> QED
  BY <1>2, <1>3, <1>4 DEF FlowInv

LEMMA SendKeeps == ASSUME FlowInv, NEW n \in Node, SendBlock(n) PROVE FlowInv'
<1>1. UNCHANGED <<proc, peers, hight, inbox, known, loc, past>> /\ loc[n].block \in made
  BY DEF SendBlock, FlowInv, RoundTypes
<1>2. ProcTypes' /\ InboxTypes' /\ MadeTypes'
  BY <1>1 DEF FlowInv, ProcTypes, InboxTypes, MadeTypes, Hashes, proc, inbox, known, past
<1>3. HeadTypes'
  BY <1>1 DEF FlowInv, HeadTypes, Hashes, SendBlock, past
<1>4. RoundTypes'
  <2>1. UNCHANGED <<made, loc>> /\ Hashes' = Hashes /\ LocalType' = LocalType
    BY <1>1 DEF past, Hashes, LocalType
  <2>2. call' \in CallTypes
    BY OpenTyped DEF SendBlock
  <2> QED
    BY <2>1, <2>2 DEF FlowInv, RoundTypes, SendBlock, CallTypes
<1>5. RequestTypes'
  <2> DEFINE new == {BlockRequest(n, m, 0) : m \in peers[n]}
  <2>1. \A r \in new : r \in RequestType /\ r.at = "sent" /\ (r.type = "block" => r.block \in made)
    BY <1>1, RequestsTyped DEF FlowInv, ProcTypes
  <2>2. req' = req \cup new
    BY DEF SendBlock
  <2> HIDE DEF new
  <2> QED
    BY <1>1, <2>1, <2>2, SentKeeps DEF proc, past
<1> QED
  BY <1>2, <1>3, <1>4, <1>5 DEF FlowInv

LEMMA CutKeeps == ASSUME FlowInv, NEW n \in Node, CutBlock(n) PROVE FlowInv'
<1> DEFINE b == Block(loc[n].pre, loc[n].number, cached[n])
<1>1. CASE cached[n] = 0 /\ req' = req \ Busy(n) /\ Die(n)
  BY <1>1, DieKeeps
<1>2. CASE cached[n] > 0
  <2>1. /\ UNCHANGED <<proc, preHash, toSave, known, req, retries>>
        /\ cached' = [cached EXCEPT ![n] = 0]
        /\ peers' = [peers EXCEPT ![n] = @ \ FailedCalls(n)]
        /\ call' = [call EXCEPT ![n] = NoCall]
        /\ loc' = [loc EXCEPT ![n].block = b]
        /\ hight' = [hight EXCEPT ![n] = loc[n].number + 1]
        /\ made' = made \cup {b}
        /\ pc' = [pc EXCEPT ![n] = "cut"]
        /\ pc[n] = "gather"
    BY <1>2 DEF CutBlock, Die
  <2>2. loc[n].pre \in Hashes /\ loc[n].number \in 0 .. (MaxHeight - 1) /\ cached[n] \in 1 .. MaxTx
    BY <1>2, <2>1, Bounds DEF FlowInv, InboxTypes, RoundTypes, LocalType
  <2>3. b.pre \in Hashes' /\ b.number \in 0 .. (MaxHeight - 1) /\ b.txs \in 1 .. MaxTx
    BY <2>1, <2>2 DEF Block, Hashes
  <2>4. ProcTypes'
    BY <2>1 DEF FlowInv, ProcTypes, proc
  <2>5. InboxTypes'
    BY <2>1, Bounds DEF FlowInv, InboxTypes, known
  <2>6. HeadTypes'
    BY <2>1, <2>2, Bounds DEF FlowInv, HeadTypes, Hashes
  <2>7. MadeTypes'
    <3> HIDE DEF b
    <3> QED
      BY <2>1, <2>3 DEF FlowInv, MadeTypes, Hashes
  <2>8. RoundTypes'
    <3>1. Hashes' = Hashes \cup {b} /\ LocalType \subseteq LocalType'
      BY <2>1 DEF Hashes, LocalType
    <3> HIDE DEF b
    <3>2. call' \in CallTypes
      BY <2>1, OpenTyped
    <3>3. loc' \in [Node -> LocalType']
      <4>1. loc[n] \in LocalType
        BY DEF FlowInv, RoundTypes
      <4>2. [loc[n] EXCEPT !.block = b] \in LocalType'
        BY <4>1, <3>1 DEF LocalType
      <4> QED
        BY <2>1, <3>1, <4>2 DEF FlowInv, RoundTypes
    <3>4. \A m \in Node : m # n => loc'[m] = loc[m] /\ pc'[m] = pc[m] /\ call'[m] = call[m]
      BY <2>1 DEF FlowInv, RoundTypes
    <3>5. loc'[n].block = b /\ pc'[n] = "cut" /\ call'[n] = NoCall
      BY <2>1 DEF FlowInv, RoundTypes, LocalType
    <3> QED
      BY <2>1, <3>2, <3>3, <3>4, <3>5 DEF FlowInv, RoundTypes, CallTypes, NoCall
  <2>9. RequestTypes'
    BY <2>1 DEF FlowInv, RequestTypes, RequestType, Hashes, proc
  <2> QED
    BY <2>4, <2>5, <2>6, <2>7, <2>8, <2>9 DEF FlowInv
<1> QED
  BY <1>1, <1>2 DEF CutBlock

LEMMA DistributeKeeps == ASSUME FlowInv, NEW n \in Node, Distribute(n) PROVE FlowInv'
BY DistributorMoves, AskKeeps, CutKeeps, SendKeeps DEF Distribute

-----------------------------------------------------------------------------
(***************************************************************************)
(* The workers.                                                            *)
(***************************************************************************)
LEMMA ReplyTyped ==
  ASSUME FlowInv, NEW r \in req, Reply(r)
  PROVE  /\ call' \in CallTypes
         /\ \A n, m \in Node : call'[n][m] = "open" => call[n][m] = "open"
<1>1. r.from \in Node /\ r.to \in Node
  BY DEF FlowInv, RequestTypes, RequestType
<1>2. CASE call' = [call EXCEPT ![r.from][r.to] = "ok"]
  BY <1>1, <1>2 DEF FlowInv, RoundTypes, CallTypes
<1>3. CASE call' = call
  BY <1>3 DEF FlowInv, RoundTypes, CallTypes
<1> QED
  BY <1>2, <1>3 DEF Reply

LEMMA GetTxKeeps == ASSUME FlowInv, NEW r \in req, GetTxFromFollower(r) PROVE FlowInv'
<1>1. r.to \in Node
  BY DEF FlowInv, RequestTypes, RequestType
<1>2. CASE Die(r.to) /\ req' = req \ (Busy(r.to) \cup {r})
  BY <1>1, <1>2, DieKeeps
<1>3. CASE /\ cached' = [cached EXCEPT ![r.to] = 0] /\ req' = req \ {r} /\ Reply(r)
           /\ UNCHANGED <<proc, peers, head, toSave, known, pc, loc, past>>
  <2>1. ProcTypes' /\ HeadTypes' /\ MadeTypes'
    BY <1>3 DEF FlowInv, ProcTypes, HeadTypes, MadeTypes, Hashes, proc, head, past
  <2>3. InboxTypes'
    BY <1>1, <1>3, Bounds DEF FlowInv, InboxTypes, known
  <2>2. RoundTypes' /\ RequestTypes'
    BY <1>3, ReplyTyped, RoundsUnchanged, RequestsUnchanged DEF proc, past, CallTypes
  <2> QED
    BY <2>1, <2>2, <2>3 DEF FlowInv
<1> QED
  BY <1>2, <1>3 DEF GetTxFromFollower

\* A request that has come further in its handler.
LEMMA AdvancedTyped ==
  ASSUME FlowInv, NEW r \in req, r.type = "block", up[r.to]
  PROVE  /\ \A at \in {"hight", "stores", "join"} :
               /\ [r EXCEPT !.at = at] \in RequestType
               /\ [r EXCEPT !.at = at].type = "block" /\ [r EXCEPT !.at = at].block = r.block
               /\ [r EXCEPT !.at = at].to = r.to
         /\ \A S \in SUBSET Store :
               LET q == [r EXCEPT !.asked = S]
                   p == [r EXCEPT !.at = "join", !.asked = S]
               IN  /\ q \in RequestType /\ q.type = "block" /\ q.block = r.block /\ q.to = r.to
                   /\ p \in RequestType /\ p.type = "block" /\ p.block = r.block /\ p.to = r.to
BY DEF FlowInv, RequestTypes, RequestType

LEMMA AdvanceKeeps ==
  ASSUME FlowInv, NEW r \in req, NEW q, req' = (req \ {r}) \cup {q}, UNCHANGED <<up, made>>,
         r.type = "block", up[r.to],
         q \in RequestType, q.type = "block", q.block = r.block, q.to = r.to
  PROVE  RequestTypes'
BY DEF FlowInv, RequestTypes, RequestType, Hashes

LEMMA WorkerKeeps == ASSUME FlowInv, NEW r \in req, SendBlockToOtherNode(r) PROVE FlowInv'
<1>1. /\ r.to \in Node /\ r.type = "block" /\ up[r.to] /\ r.asked \in SUBSET Store
      /\ r.block \in made
  BY DEF FlowInv, RequestTypes, RequestType, SendBlockToOtherNode, SetPreHash, SetHight, Forward,
         Forwarded, AnswerBlock
<1>2. UNCHANGED <<proc, peers, inbox, pc, loc, past>>
  BY DEF SendBlockToOtherNode, SetPreHash, SetHight, Forward, Forwarded, AnswerBlock
<1>3. ProcTypes' /\ MadeTypes'
  BY <1>2 DEF FlowInv, ProcTypes, MadeTypes, Hashes, proc, past
<1>4. HeadTypes'
  <2>1. Hashes' = Hashes
    BY <1>2 DEF Hashes, past
  <2>2. \/ UNCHANGED head
        \/ preHash' = [preHash EXCEPT ![r.to] = r.block] /\ UNCHANGED hight
        \/ hight' = [hight EXCEPT ![r.to] = r.block.number + 1] /\ UNCHANGED preHash
    BY DEF SendBlockToOtherNode, SetPreHash, SetHight, Forward, Forwarded, AnswerBlock
  <2>3. r.block.number + 1 \in 0 .. MaxHeight /\ r.block \in Hashes
    BY <1>1, Bounds DEF FlowInv, MadeTypes, Hashes
  <2> QED
    BY <2>1, <2>2, <2>3 DEF FlowInv, HeadTypes, head
<1>5. InboxTypes'
  <2>1. \/ UNCHANGED known
        \/ \E s \in Store : /\ stores' = [stores EXCEPT ![r.to] = @ \ {s}]
                            /\ missed' = [missed EXCEPT ![r.to] = @ \cup {s}]
    BY DEF SendBlockToOtherNode, SetPreHash, SetHight, Forward, Forwarded, AnswerBlock
  <2> QED
    BY <1>2, <2>1 DEF FlowInv, InboxTypes, inbox, known
<1>6. RoundTypes'
  <2>1. UNCHANGED call \/ Reply(r)
    BY DEF SendBlockToOtherNode, SetPreHash, SetHight, Forward, Forwarded, AnswerBlock
  <2>2. /\ call' \in CallTypes
        /\ \A n, m \in Node : call'[n][m] = "open" => call[n][m] = "open"
    BY <2>1, ReplyTyped DEF FlowInv, RoundTypes, CallTypes
  <2> QED
    BY <1>2, <2>2, RoundsUnchanged DEF CallTypes, past
<1>7. RequestTypes'
  <2>1. UNCHANGED <<up, made>>
    BY <1>2 DEF proc, past
  <2>2. CASE SetPreHash(r) \/ SetHight(r)
    <3>1. PICK at \in {"hight", "stores"} : req' = (req \ {r}) \cup {[r EXCEPT !.at = at]}
      BY <2>2 DEF SetPreHash, SetHight, Moved
    <3> DEFINE q == [r EXCEPT !.at = at]
    <3>2. q \in RequestType /\ q.type = "block" /\ q.block = r.block /\ q.to = r.to
      BY <1>1, AdvancedTyped, ZenonT(60)
    <3> HIDE DEF q
    <3> QED
      BY <1>1, <2>1, <3>1, <3>2, AdvanceKeeps DEF q
  <2>3. CASE Forward(r)
    <3> DEFINE q == [r EXCEPT !.at = "join", !.asked = stores[r.to]]
    <3>1. stores[r.to] \in SUBSET Store
      BY <1>1 DEF FlowInv, InboxTypes
    <3>2. q \in RequestType /\ q.type = "block" /\ q.block = r.block /\ q.to = r.to
      BY <1>1, <3>1, AdvancedTyped
    <3>3. req' = (req \ {r}) \cup {q}
      BY <2>3 DEF Forward
    <3> HIDE DEF q
    <3> QED
      BY <1>1, <2>1, <3>2, <3>3, AdvanceKeeps
  <2>4. ASSUME NEW s \in Store, Forwarded(r, s) PROVE RequestTypes'
    <3> DEFINE q == [r EXCEPT !.asked = r.asked \ {s}]
    <3>1. r.asked \ {s} \in SUBSET Store
      BY <1>1
    <3>2. q \in RequestType /\ q.type = "block" /\ q.block = r.block /\ q.to = r.to
      BY <1>1, <3>1, AdvancedTyped
    <3>3. req' = (req \ {r}) \cup {q}
      BY <2>4 DEF Forwarded
    <3> HIDE DEF q
    <3> QED
      BY <1>1, <2>1, <3>2, <3>3, AdvanceKeeps
  <2>5. CASE AnswerBlock(r)
    BY <2>1, <2>5, RequestsUnchanged DEF AnswerBlock
  <2> QED
    BY <2>2, <2>3, <2>4, <2>5 DEF SendBlockToOtherNode
<1> QED
  BY <1>3, <1>4, <1>5, <1>6, <1>7 DEF FlowInv

LEMMA FlowInvStep == ASSUME FlowInv, [Next]_vars PROVE FlowInv'
<1>1. CASE UNCHANGED vars
  BY <1>1 DEF vars, proc, head, inbox, known, past, FlowInv, ProcTypes, InboxTypes, HeadTypes,
              MadeTypes, RoundTypes, RequestTypes, LocalType, RequestType, Hashes
<1> QED
  BY <1>1, DistributeKeeps, ElectionKeeps, RestartKeeps, SendTxKeeps, TimeoutKeeps, RetryKeeps,
     GetTxKeeps, WorkerKeeps DEF Next

\* TypeOK: the values of the variables; whatever is late, lost, repeated or started again,
\* the hash of a head is that of a block that was made.
THEOREM FlowTyped == Spec => []TypeOK
<1>1. FlowInv => TypeOK
  BY Bounds DEF FlowInv, ProcTypes, InboxTypes, HeadTypes, MadeTypes, RoundTypes, RequestTypes,
                RequestType, Hashes, TypeOK
<1> QED
  BY <1>1, FlowInvInit, FlowInvStep, PTL DEF Spec

-----------------------------------------------------------------------------
(***************************************************************************)
(* The store nodes.  One that was missed and is listed all the same is     *)
(* among those that the distributor is about to remove.                    *)
(***************************************************************************)
StoresInv ==
  \A n \in Node : missed[n] \cap stores[n] \subseteq IF pc[n] = "stores" THEN loc[n].failed ELSE {}

LEMMA StoresInvStep == ASSUME FlowInv, StoresInv, [Next]_vars PROVE StoresInv'
<1> USE DEF StoresInv, FlowInv, InboxTypes, RoundTypes
<1>1. CASE UNCHANGED <<stores, missed, pc, loc>>
  BY <1>1
<1>2. ASSUME NEW n \in Node, Stop(n) PROVE StoresInv'
  BY <1>2 DEF Stop
<1>3. ASSUME NEW n \in Node, Distribute(n) PROVE StoresInv'
  <2>1. CASE StartDistribute(n) \/ AskForTxs(n) \/ SendBlock(n) \/ SendToStores(n)
    <3>1. UNCHANGED known /\ pc[n] # "stores"
      BY <2>1 DEF StartDistribute, AskForTxs, SendBlock, SendToStores
    <3>2. \A m \in Node : m # n => pc'[m] = pc[m] /\ loc'[m] = loc[m]
      BY <2>1 DEF StartDistribute, AskForTxs, SendBlock, SendToStores
    <3> QED
      BY <3>1, <3>2 DEF known
  <2>2. CASE CutBlock(n)
    <3>1. CASE Stop(n)
      BY <3>1, <1>2
    <3>2. CASE UNCHANGED known /\ pc[n] # "stores"
               /\ \A m \in Node : m # n => pc'[m] = pc[m] /\ loc'[m] = loc[m]
      BY <3>2 DEF known
    <3> QED
      BY <2>2, <3>1, <3>2 DEF CutBlock, Die
  <2>3. ASSUME NEW s \in Store, JoinStore(n, s) PROVE StoresInv'
    <3>1. /\ pc[n] = "stores" /\ UNCHANGED <<stores, pc>>
          /\ \A m \in Node : m # n => loc'[m] = loc[m] /\ missed'[m] = missed[m]
      BY <2>3 DEF JoinStore
    <3>2. \/ loc'[n].failed = loc[n].failed /\ missed'[n] = missed[n]
          \/ loc'[n].failed = loc[n].failed \cup {s} /\ missed'[n] = missed[n] \cup {s}
      BY <2>3 DEF JoinStore, LocalType
    <3> QED
      BY <3>1, <3>2
  <2>4. CASE EndDistribute(n)
    BY <2>4 DEF EndDistribute
  <2> QED
    BY <1>3, <2>1, <2>2, <2>3, <2>4 DEF Distribute
<1>4. ASSUME NEW n \in Node, NEW s \in Store, InsertTx(n, s) \/ SaveStoreNode(n, s) PROVE StoresInv'
  <2>1. CASE InsertTx(n, s)
    BY <2>1, <1>1, <1>2 DEF InsertTx, Die, known
  <2>2. CASE SaveStoreNode(n, s)
    BY <2>2 DEF SaveStoreNode
  <2> QED
    BY <1>4, <2>1, <2>2
<1>5. ASSUME NEW n \in Node, BecomeLeader(n) \/ Restart(n) \/ (\E m \in Node : DropPeer(n, m) \/ Timeout(n, m) \/ Retry(n, m))
      PROVE  StoresInv'
  BY <1>5, <1>1, <1>2 DEF BecomeLeader, Restart, DropPeer, Timeout, Retry, known
<1>6. ASSUME NEW r \in req, GetTxFromFollower(r) \/ SendBlockToOtherNode(r) PROVE StoresInv'
  <2>1. r.to \in Node
    BY DEF RequestTypes, RequestType
  <2>2. CASE Stop(r.to)
    BY <2>1, <2>2, <1>2
  <2>3. CASE \E s \in Store : /\ stores' = [stores EXCEPT ![r.to] = @ \ {s}]
                             /\ missed' = [missed EXCEPT ![r.to] = @ \cup {s}]
                             /\ UNCHANGED <<pc, loc>>
    BY <2>1, <2>3
  <2> QED
    BY <1>1, <1>6, <2>2, <2>3 DEF GetTxFromFollower, Die, SendBlockToOtherNode, SetPreHash, SetHight,
                                  Forward, Forwarded, AnswerBlock, known
<1> QED
  BY <1>1, <1>3, <1>4, <1>5, <1>6 DEF Next, vars, known

\* StoresFollow: a store node that is still listed when nothing is being sent was reached by
\* every block since it was listed, though listing, removing and sending interleave.
THEOREM ListedStoresFollow == Spec => []StoresFollow
<1>1. Init => StoresInv
  BY DEF Init, StoresInv
<1>2. StoresInv => StoresFollow
  BY DEF StoresInv, StoresFollow
<1> QED
  BY <1>1, <1>2, FlowInvInit, FlowInvStep, StoresInvStep, PTL DEF Spec

-----------------------------------------------------------------------------
(***************************************************************************)
(* While one process makes the blocks and no request is sent twice: heads  *)
(* are whole, the peers that are still listed have the maker's head, and   *)
(* no process goes back.  All of it rests on one fact: a peer that is      *)
(* still listed has answered the last block, so at most one block is on    *)
(* its way to any node, and the maker is sent none.                        *)
(***************************************************************************)
\* The process that runs at n has made a block.
Maker(n) == <<n, life[n]>> \in makers

HasHead(m, b) == preHash[m] = b /\ hight[m] = b.number + 1
NoHead(m) == preHash[m] = Genesis /\ hight[m] = 0

MakerInv ==
  /\ IsFiniteSet(makers) /\ makers \subseteq Node \X Nat
  /\ \A p \in makers : p[2] <= life[p[1]]
  /\ \A n \in Node : /\ n \notin peers[n]
                     /\ pc[n] # "idle" => up[n]
                     /\ pc[n] \in {"cut", "send", "stores"} => Maker(n)

\* Blocks on their way: one for a node, none for the maker, and never an old one.
SentInv ==
  \A r \in req : r.type = "block" =>
    /\ <<r.from, r.life>> \in makers /\ r.from # r.to
    /\ \A q \in req : q.type = "block" /\ q.to = r.to => q = r
    /\ hight[r.to] <= r.block.number + 1
    /\ r.at = "hight" => preHash[r.to] = r.block
    /\ r.at \in {"stores", "join"} => HasHead(r.to, r.block)

HeadsInv ==
  /\ makers = {} => \A m \in Node : NoHead(m)
  /\ \A m \in Node :
       /\ up[m] /\ HeadQuiet(m) => NoHead(m) \/ \E b \in made : HasHead(m, b)
       /\ pc[m] = "gather" /\ makers \subseteq {<<m, life[m]>>} => loc[m].number = hight[m]

\* The maker's own head is that of the block it is at, and the highest.
MakersHeadInv ==
  \A n \in Node : Maker(n) =>
    /\ pc[n] = "cut" => hight[n] = loc[n].block.number + 1
    /\ pc[n] = "send" => HasHead(n, loc[n].block)
    /\ \A m \in Node : hight[m] <= hight[n]
    /\ \A r \in req : r.type = "block" => r.block.number + 1 <= hight[n]

\* A peer that is listed: outside a round nothing is on its way to it, in a round its call
\* says how far the block has come.
FollowersInv ==
  \A n \in Node : Maker(n) /\ up[n] => \A m \in peers[n] :
    /\ pc[n] # "send" => \A r \in req : ~(r.type = "block" /\ r.to = m)
    /\ pc[n] = "send" =>
         /\ call[n][m] # "none"
         /\ \A r \in req : r.type = "block" /\ r.to = m => call[n][m] # "ok" /\ r.block = loc[n].block
         /\ call[n][m] = "ok" /\ up[m] /\ life[m] = 0 => HasHead(m, loc[n].block)
    /\ pc[n] \notin {"cut", "send"} /\ up[m] /\ life[m] = 0 =>
         hight[m] = hight[n] /\ preHash[m] = preHash[n]

Chain == SentInv /\ HeadsInv /\ MakersHeadInv /\ FollowersInv

ChainInv == MakerInv /\ (Undisturbed => Chain)

-----------------------------------------------------------------------------
(***************************************************************************)
(* The makers.                                                             *)
(***************************************************************************)
LEMMA Sole == ASSUME NEW S, IsFiniteSet(S), Cardinality(S) <= 1 PROVE \A p, q \in S : p = q
<1> SUFFICES ASSUME NEW p \in S, NEW q \in S, p # q PROVE FALSE
  OBVIOUS
<1>1. IsFiniteSet({p}) /\ Cardinality({p}) = 1
  BY FS_Singleton
<1>2. IsFiniteSet({p} \cup {q}) /\ Cardinality({p} \cup {q}) = 2
  <2> DEFINE P == {p}
  <2>1. q \notin P
    OBVIOUS
  <2>2. IsFiniteSet(P) /\ Cardinality(P) = 1
    BY <1>1
  <2> HIDE DEF P
  <2>3. IsFiniteSet(P \cup {q}) /\ Cardinality(P \cup {q}) = 2
    BY <2>1, <2>2, FS_AddElement
  <2> QED
    BY <2>3 DEF P
<1>3. {p} \cup {q} \in SUBSET S
  OBVIOUS
<1>4. Cardinality({p} \cup {q}) <= Cardinality(S) /\ Cardinality(S) \in Nat
  BY <1>3, FS_Subset, FS_CardinalityType
<1> QED
  BY <1>2, <1>4

\* What has been disturbed stays so.
LEMMA UndisturbedBefore ==
  ASSUME MakerInv, FlowInv, MakerInv', makers \subseteq makers', retries' >= retries, Undisturbed'
  PROVE  Undisturbed
<1>1. Cardinality(makers) <= Cardinality(makers') /\ Cardinality(makers) \in Nat /\ Cardinality(makers') \in Nat
  BY FS_Subset, FS_CardinalityType DEF MakerInv
<1> QED
  BY <1>1 DEF Undisturbed, FlowInv, MadeTypes

LEMMA ChainInit == ASSUME Init PROVE ChainInv
<1>1. MakerInv
  BY FS_EmptySet DEF Init, MakerInv
<1>2. Chain
  BY SMTT(60) DEF Init, Chain, SentInv, HeadsInv, MakersHeadInv, FollowersInv, Maker, NoHead
<1> QED
  BY <1>1, <1>2 DEF ChainInv

\* History only grows.
LEMMA PastGrows ==
  ASSUME FlowInv, [Next]_vars
  PROVE  /\ retries' >= retries /\ makers \subseteq makers'
         /\ (makers' = makers \/ \E n \in Node : CutBlock(n) /\ makers' = makers \cup {<<n, life[n]>>})
<1>1. retries \in Nat
  BY DEF FlowInv, MadeTypes
<1>2. CASE UNCHANGED past
  BY <1>1, <1>2 DEF past
<1>3. CASE \E n, m \in Node : Retry(n, m)
  BY <1>1, <1>3 DEF Retry
<1>4. CASE \E n \in Node : CutBlock(n) /\ makers' = makers \cup {<<n, life[n]>>} /\ UNCHANGED retries
  BY <1>1, <1>4
<1> QED
  BY <1>2, <1>3, <1>4, ZenonT(60) DEF Next, vars, past, Distribute, StartDistribute, AskForTxs, CutBlock, SendBlock,
     SendToStores, JoinStore, EndDistribute, BecomeLeader, Restart, Die, InsertTx, SaveStoreNode,
     DropPeer, Timeout, GetTxFromFollower, SendBlockToOtherNode, SetPreHash, SetHight, Forward,
     Forwarded, AnswerBlock

\* Steps that keep the makers and shrink the peers.
LEMMA MakersUnchanged ==
  ASSUME MakerInv, UNCHANGED <<life, makers>>,
         \A n \in Node : /\ n \notin peers'[n]
                         /\ pc'[n] = "idle" \/ (pc'[n] = pc[n] /\ up'[n] = up[n])
                            \/ (up'[n] /\ pc'[n] \notin {"cut", "send", "stores"})
                            \/ (up'[n] /\ pc[n] \in {"cut", "send", "stores"})
  PROVE  MakerInv'
BY DEF MakerInv, Maker

LEMMA MakersDie == ASSUME MakerInv, FlowInv, NEW n \in Node, Die(n) PROVE MakerInv'
<1>1. /\ UNCHANGED <<life, makers, peers>> /\ pc'[n] = "idle"
      /\ \A m \in Node : m # n => pc'[m] = pc[m] /\ up'[m] = up[m]
  BY DEF Die, Stop, past, FlowInv, RoundTypes, ProcTypes
<1> QED
  BY <1>1, MakersUnchanged DEF MakerInv

LEMMA PeersShrink ==
  ASSUME FlowInv, NEW n \in Node,
         SendToStores(n) \/ SendBlock(n) \/ EndDistribute(n) \/ (CutBlock(n) /\ ~Die(n))
           \/ \E s \in Store : JoinStore(n, s)
  PROVE  \A m \in Node : peers'[m] \subseteq peers[m]
<1>1. peers' = peers \/ peers' = [peers EXCEPT ![n] = @ \ FailedCalls(n)]
  BY DEF SendToStores, SendBlock, EndDistribute, CutBlock, JoinStore
<1> QED
  BY <1>1 DEF FlowInv, ProcTypes

LEMMA MakersDistribute == ASSUME MakerInv, FlowInv, NEW n \in Node, Distribute(n) PROVE MakerInv'
<1> USE DEF FlowInv, RoundTypes, ProcTypes
<1>1. CASE StartDistribute(n) \/ AskForTxs(n)
  <2>1. UNCHANGED <<life, makers, peers, up>> /\ up[n] /\ pc'[n] \in {"read", "gather"}
    BY <1>1 DEF StartDistribute, AskForTxs, MakerInv, proc, past
  <2>2. \A m \in Node : m # n => pc'[m] = pc[m]
    BY <1>1 DEF StartDistribute, AskForTxs
  <2> QED
    BY <2>1, <2>2, MakersUnchanged DEF MakerInv
<1>2. CASE SendBlock(n) \/ SendToStores(n) \/ EndDistribute(n) \/ \E s \in Store : JoinStore(n, s)
  <2>1. UNCHANGED <<life, makers, up>> /\ pc[n] \in {"cut", "send", "stores"}
    BY <1>2 DEF SendBlock, SendToStores, EndDistribute, JoinStore, proc, past
  <2>2. \A m \in Node : m # n => pc'[m] = pc[m]
    BY <1>2 DEF SendBlock, SendToStores, EndDistribute, JoinStore
  <2> QED
    BY <1>2, <2>1, <2>2, PeersShrink, MakersUnchanged DEF MakerInv
<1>3. CASE CutBlock(n)
  <2>1. CASE Die(n)
    BY <2>1, MakersDie
  <2>2. CASE ~Die(n)
    <3>1. /\ UNCHANGED <<life, up>> /\ makers' = makers \cup {<<n, life[n]>>} /\ pc[n] = "gather"
          /\ pc'[n] = "cut" /\ \A m \in Node : m # n => pc'[m] = pc[m]
      BY <1>3, <2>2 DEF CutBlock, proc
    <3>2. \A m \in Node : peers'[m] \subseteq peers[m]
      BY <1>3, <2>2, PeersShrink
    <3>3. life[n] \in Nat
      BY Bounds
    <3>4. IsFiniteSet(makers')
      BY <3>1, FS_AddElement DEF MakerInv
    <3>5. makers' \subseteq Node \X Nat /\ \A p \in makers' : p[2] <= life[p[1]]
      BY <3>1, <3>3 DEF MakerInv
    <3>6. \A m \in Node : Maker(m) => Maker(m)'
      BY <3>1 DEF Maker
    <3>7. Maker(n)'
      BY <3>1 DEF Maker
    <3> QED
      BY <3>1, <3>2, <3>4, <3>5, <3>6, <3>7 DEF MakerInv
  <2> QED
    BY <2>1, <2>2
<1> QED
  BY <1>1, <1>2, <1>3 DEF Distribute

LEMMA MakersStep == ASSUME MakerInv, FlowInv, [Next]_vars PROVE MakerInv'
<1>1. CASE UNCHANGED <<life, makers, up, pc>> /\ \A n \in Node : peers'[n] \subseteq peers[n]
  BY <1>1, MakersUnchanged DEF MakerInv
<1>2. CASE UNCHANGED vars
  BY <1>1, <1>2 DEF vars, proc, past
<1>3. CASE \E n \in Node : Distribute(n)
  BY <1>3, MakersDistribute
<1>4. ASSUME NEW n \in Node, Restart(n) PROVE MakerInv'
  <2>1. /\ UNCHANGED makers /\ pc'[n] = "idle" /\ peers'[n] = Node \ {n}
        /\ life'[n] = life[n] + 1 /\ life[n] \in Nat
        /\ \A m \in Node : m # n => /\ pc'[m] = pc[m] /\ up'[m] = up[m] /\ peers'[m] = peers[m]
                                    /\ life'[m] = life[m]
    BY <1>4, Bounds DEF Restart, Stop, past, FlowInv, RoundTypes, ProcTypes
  <2>2. \A p \in makers : p[1] \in Node /\ p[2] \in Nat
    BY DEF MakerInv
  <2>3. \A p \in makers' : p[2] <= life'[p[1]]
    BY <2>1, <2>2 DEF MakerInv
  <2> QED
    BY <2>1, <2>3 DEF MakerInv, Maker
<1>5. ASSUME NEW n \in Node, BecomeLeader(n) \/ \E m \in Node : DropPeer(n, m) \/ Timeout(n, m) \/ Retry(n, m)
      PROVE  MakerInv'
  BY <1>5, <1>1 DEF FlowInv, ProcTypes, BecomeLeader, DropPeer, Timeout, Retry, proc, past
<1>6. ASSUME NEW n \in Node, NEW s \in Store, InsertTx(n, s) \/ SaveStoreNode(n, s) PROVE MakerInv'
  BY <1>6, <1>1, MakersDie DEF InsertTx, SaveStoreNode, proc, past
<1>7. ASSUME NEW r \in req, GetTxFromFollower(r) \/ SendBlockToOtherNode(r) PROVE MakerInv'
  <2>1. r.to \in Node
    BY DEF FlowInv, RequestTypes, RequestType
  <2> QED
    BY <2>1, <1>1, <1>7, MakersDie DEF GetTxFromFollower, SendBlockToOtherNode, SetPreHash, SetHight,
       Forward, Forwarded, AnswerBlock, proc, past
<1> QED
  BY <1>2, <1>3, <1>4, <1>5, <1>6, <1>7 DEF Next

-----------------------------------------------------------------------------
(***************************************************************************)
(* Steps that move no block and no head.                                   *)
(***************************************************************************)
Calm ==
  /\ UNCHANGED <<life, hight, preHash, made, makers>>
  /\ \A n \in Node : (up'[n] => up[n]) /\ peers'[n] \subseteq peers[n]
  /\ \A r \in req' : r.type = "block" => r \in req
  /\ \A r \in req : r.at = "hight" /\ r \notin req' => ~up'[r.to]
  /\ \A n \in Node :
       \/ pc'[n] = pc[n] /\ loc'[n].block = loc[n].block /\ loc'[n].number = loc[n].number
       \/ pc[n] \notin {"cut", "send"} /\ pc'[n] \notin {"gather", "cut", "send"}
       \/ ~up'[n] /\ pc'[n] = "idle"
       \/ pc[n] = "read" /\ pc'[n] = "gather" /\ loc'[n].number = hight[n]
  /\ \A n, m \in Node : call'[n][m] = call[n][m] \/ call'[n][m] = "failed" \/ pc'[n] # "send"

LEMMA CalmKeeps == ASSUME FlowInv, MakerInv, Chain, Calm PROVE Chain'
<1>1. SentInv'
  BY DEF Calm, Chain, SentInv, HasHead
<1>2. HeadsInv'
  <2>1. ASSUME NEW m \in Node, up'[m], HeadQuiet(m)' PROVE HeadQuiet(m)
    <3>1. pc[m] # "cut"
      BY <2>1 DEF Calm, HeadQuiet
    <3>2. \A r \in Busy(m) : r.at # "hight"
      BY <2>1 DEF Calm, HeadQuiet, Busy
    <3> QED
      BY <3>1, <3>2 DEF HeadQuiet
  <2>2. \A m \in Node : NoHead(m)' <=> NoHead(m)
    BY DEF Calm, NoHead
  <2>3. ASSUME NEW m \in Node, up'[m], HeadQuiet(m)' PROVE (NoHead(m) \/ \E b \in made : HasHead(m, b))'
    BY <2>1, <2>2, <2>3 DEF Calm, Chain, HeadsInv, HasHead
  <2>4. ASSUME NEW m \in Node, pc'[m] = "gather", makers' \subseteq {<<m, life'[m]>>} PROVE loc'[m].number = hight'[m]
    BY <2>4 DEF Calm, Chain, HeadsInv
  <2> QED
    BY <2>2, <2>3, <2>4 DEF Calm, Chain, HeadsInv
<1>3. MakersHeadInv'
  BY DEF Calm, Chain, MakersHeadInv, Maker, HasHead
<1>4. FollowersInv'
  <2> SUFFICES ASSUME NEW n \in Node, Maker(n)', up'[n], NEW m \in peers'[n]
               PROVE  /\ pc'[n] # "send" => \A r \in req' : ~(r.type = "block" /\ r.to = m)
                      /\ pc'[n] = "send" =>
                           /\ call'[n][m] # "none"
                           /\ \A r \in req' : r.type = "block" /\ r.to = m => call'[n][m] # "ok" /\ r.block = loc'[n].block
                           /\ call'[n][m] = "ok" /\ up'[m] /\ life'[m] = 0 => HasHead(m, loc[n].block)' /\ loc'[n].block = loc[n].block
                      /\ pc'[n] \notin {"cut", "send"} /\ up'[m] /\ life'[m] = 0 =>
                           hight'[m] = hight'[n] /\ preHash'[m] = preHash'[n]
    BY DEF FollowersInv, HasHead
  <2>1. Maker(n) /\ up[n] /\ m \in peers[n] /\ m \in Node /\ (up'[m] => up[m])
    BY DEF Calm, Maker, FlowInv, ProcTypes
  <2>2. UNCHANGED <<life, hight, preHash>> /\ \A r \in req' : r.type = "block" => r \in req
    BY DEF Calm
  <2>3. CASE pc'[n] = "send"
    <3>1. pc[n] = "send" /\ loc'[n].block = loc[n].block /\ (call'[n][m] = call[n][m] \/ call'[n][m] = "failed")
      BY <2>1, <2>3 DEF Calm
    <3> QED
      BY <2>1, <2>2, <2>3, <3>1 DEF Chain, FollowersInv, HasHead
  <2>4. CASE pc'[n] # "send"
    <3>1. pc[n] # "send" /\ (pc'[n] # "cut" => pc[n] # "cut")
      BY <2>4 DEF Calm
    <3> QED
      BY <2>1, <2>2, <2>4, <3>1 DEF Chain, FollowersInv
  <2> QED
    BY <2>3, <2>4
<1> QED
  BY <1>1, <1>2, <1>3, <1>4 DEF Chain

LEMMA DieIsCalm ==
  ASSUME FlowInv, NEW n \in Node, Die(n), req' \subseteq req, \A r \in req \ req' : r.at = "hight" => r.to = n
  PROVE  Calm
<1>1. UNCHANGED <<life, hight, preHash, made, makers, peers>>
  BY DEF Die, head, past
<1>2. ~up'[n] /\ pc'[n] = "idle"
  BY DEF Die, Stop, FlowInv, ProcTypes, RoundTypes
<1>3. \A m \in Node : m # n => up'[m] = up[m] /\ pc'[m] = pc[m] /\ loc'[m] = loc[m] /\ call'[m] = call[m]
  BY DEF Die, Stop, FlowInv, ProcTypes, RoundTypes
<1>4. \A r \in req : r.at = "hight" /\ r \notin req' => ~up'[r.to]
  BY <1>2
<1>5. \A m \in Node : up'[m] => up[m]
  BY <1>2, <1>3
<1>6. \A m, k \in Node : call'[m][k] = call[m][k] \/ pc'[m] # "send"
  BY <1>2, <1>3
<1>7. \A m \in Node : \/ pc'[m] = pc[m] /\ loc'[m].block = loc[m].block /\ loc'[m].number = loc[m].number
                      \/ ~up'[m] /\ pc'[m] = "idle"
  BY <1>2, <1>3
<1> QED
  BY <1>1, <1>4, <1>5, <1>6, <1>7 DEF Calm

\* What leaves rounds and requests alone is calm, and so is the end of a call without answer.
LEMMA StillIsCalm ==
  ASSUME FlowInv, UNCHANGED <<up, life, hight, preHash, made, makers, pc, loc, req>>,
         \A n \in Node : peers'[n] \subseteq peers[n],
         \A n, m \in Node : call'[n][m] = call[n][m] \/ call'[n][m] = "failed"
  PROVE  Calm
BY DEF Calm

LEMMA NodeIsCalm ==
  ASSUME FlowInv, NEW n \in Node,
         BecomeLeader(n) \/ (\E m \in Node : DropPeer(n, m) \/ Timeout(n, m))
           \/ \E s \in Store : InsertTx(n, s) \/ SaveStoreNode(n, s)
  PROVE  Calm
<1>1. CASE BecomeLeader(n) \/ \E s \in Store : SaveStoreNode(n, s)
  <2>1. UNCHANGED <<up, life, hight, preHash, made, makers, pc, loc, req, peers, call>>
    BY <1>1 DEF BecomeLeader, SaveStoreNode, proc, head, past
  <2> QED
    BY <2>1, StillIsCalm
<1>2. ASSUME NEW m \in Node, DropPeer(n, m) PROVE Calm
  <2>1. UNCHANGED <<up, life, hight, preHash, made, makers, pc, loc, req, call>>
    BY <1>2 DEF DropPeer, proc, head, past
  <2>2. \A k \in Node : peers'[k] \subseteq peers[k]
    BY <1>2 DEF DropPeer, FlowInv, ProcTypes
  <2> QED
    BY <2>1, <2>2, StillIsCalm
<1>3. ASSUME NEW m \in Node, Timeout(n, m) PROVE Calm
  <2>1. UNCHANGED <<up, life, hight, preHash, made, makers, pc, loc, req, peers>>
    BY <1>3 DEF Timeout, proc, head, past
  <2>2. \A k, l \in Node : call'[k][l] = call[k][l] \/ call'[k][l] = "failed"
    BY <1>3 DEF Timeout, FlowInv, RoundTypes
  <2> QED
    BY <2>1, <2>2, StillIsCalm
<1>4. ASSUME NEW s \in Store, InsertTx(n, s) PROVE Calm
  <2>1. CASE UNCHANGED <<up, life, role, peers, head, known, pc, loc, call, req, past>>
    BY <2>1, StillIsCalm DEF head, past
  <2>2. CASE Die(n) /\ req' = req \ Busy(n)
    BY <2>2, DieIsCalm DEF Busy
  <2> QED
    BY <1>4, <2>1, <2>2 DEF InsertTx
<1> QED
  BY <1>1, <1>2, <1>3, <1>4

LEMMA DistributorIsCalm ==
  ASSUME FlowInv, MakerInv, NEW n \in Node,
         StartDistribute(n) \/ AskForTxs(n) \/ EndDistribute(n) \/ (\E s \in Store : JoinStore(n, s))
           \/ (CutBlock(n) /\ Die(n))
  PROVE  Calm
<1>1. CASE StartDistribute(n)
  BY <1>1 DEF StartDistribute, Calm, proc, head, past, FlowInv, RoundTypes
<1>2. CASE AskForTxs(n)
  <2>1. UNCHANGED <<up, life, hight, preHash, made, makers, peers>> /\ pc[n] = "read" /\ pc'[n] = "gather"
    BY <1>2 DEF AskForTxs, proc, head, past, FlowInv, RoundTypes
  <2>2. loc'[n].number = hight[n]
    BY <1>2 DEF AskForTxs, FlowInv, RoundTypes, LocalType
  <2>3. \A m \in Node : m # n => pc'[m] = pc[m] /\ loc'[m] = loc[m] /\ call'[m] = call[m]
    BY <1>2 DEF AskForTxs, FlowInv, RoundTypes
  <2>4. req \subseteq req' /\ \A r \in req' : r.type = "block" => r \in req
    BY <1>2 DEF AskForTxs, GetRequest
  <2> QED
    BY <2>1, <2>2, <2>3, <2>4 DEF Calm
<1>3. CASE EndDistribute(n)
  BY <1>3 DEF EndDistribute, Calm, proc, head, past, FlowInv, RoundTypes
<1>4. ASSUME NEW s \in Store, JoinStore(n, s) PROVE Calm
  <2>1. UNCHANGED <<up, life, hight, preHash, made, makers, peers, pc, call, req>>
    BY <1>4 DEF JoinStore, proc, head, past
  <2>2. pc[n] = "stores" /\ \A m \in Node : m # n => loc'[m] = loc[m]
    BY <1>4 DEF JoinStore, FlowInv, RoundTypes
  <2> QED
    BY <2>1, <2>2 DEF Calm
<1>5. CASE CutBlock(n) /\ Die(n)
  <2>1. req' = req \ Busy(n)
    BY <1>5 DEF CutBlock, Die, FlowInv, ProcTypes, MakerInv, proc
  <2> QED
    BY <1>5, <2>1, DieIsCalm DEF Busy
<1> QED
  BY <1>1, <1>2, <1>3, <1>4, <1>5

LEMMA GetTxIsCalm == ASSUME FlowInv, NEW r \in req, GetTxFromFollower(r) PROVE Calm
<1>1. r.to \in Node /\ r.from \in Node /\ r.type = "get" /\ r.at = "sent"
  BY DEF FlowInv, RequestTypes, RequestType, GetTxFromFollower
<1>2. CASE Die(r.to) /\ req' = req \ (Busy(r.to) \cup {r})
  BY <1>1, <1>2, DieIsCalm DEF Busy
<1>3. CASE ~(Die(r.to) /\ req' = req \ (Busy(r.to) \cup {r}))
  <2>1. UNCHANGED <<up, life, hight, preHash, made, makers, peers, pc, loc>> /\ req' = req \ {r} /\ Reply(r)
    BY <1>3 DEF GetTxFromFollower, proc, head, past
  <2>2. \A n, m \in Node : call'[n][m] = call[n][m] \/ pc[n] # "send"
    BY <1>1, <2>1 DEF Reply, Awaited, FlowInv, RoundTypes
  <2> QED
    BY <1>1, <2>1, <2>2 DEF Calm
<1> QED
  BY <1>2, <1>3

-----------------------------------------------------------------------------
(***************************************************************************)
(* The end of a round, the start of a process, and the steps that make and *)
(* send a block.                                                           *)
(***************************************************************************)
LEMMA RequestShape ==
  ASSUME FlowInv, NEW r \in req
  PROVE  /\ r.to \in Node /\ r.from \in Node /\ r.life \in Nat
         /\ r.type = "block" => r.block \in made /\ r.block.number \in Nat
BY Bounds DEF FlowInv, RequestTypes, RequestType, MadeTypes

LEMMA SendToStoresKeeps ==
  ASSUME FlowInv, MakerInv, Chain, NEW n \in Node, SendToStores(n) PROVE Chain'
<1>1. /\ UNCHANGED <<up, life, hight, preHash, made, makers, req>>
      /\ pc[n] = "send" /\ pc'[n] = "stores" /\ Joined(n)
      /\ peers'[n] = peers[n] \ FailedCalls(n)
  BY DEF SendToStores, proc, head, past, FlowInv, ProcTypes, RoundTypes
<1>2. \A m \in Node : m # n => pc'[m] = pc[m] /\ loc'[m] = loc[m] /\ call'[m] = call[m] /\ peers'[m] = peers[m]
  BY DEF SendToStores, FlowInv, ProcTypes, RoundTypes
<1>3. SentInv'
  BY <1>1 DEF Chain, SentInv, HasHead
<1>4. HeadsInv'
  <2>1. \A m \in Node : HeadQuiet(m)' => HeadQuiet(m)
    BY <1>1, <1>2 DEF HeadQuiet, Busy
  <2>2. \A m \in Node : pc'[m] = "gather" => m # n
    BY <1>1
  <2> QED
    BY <1>1, <1>2, <2>1, <2>2 DEF Chain, HeadsInv, NoHead, HasHead
<1>5. MakersHeadInv'
  BY <1>1, <1>2 DEF Chain, MakersHeadInv, Maker, HasHead
<1>6. FollowersInv'
  <2>1. ASSUME Maker(n), up[n], NEW m \in peers'[n]
        PROVE  /\ \A r \in req' : ~(r.type = "block" /\ r.to = m)
               /\ up'[m] /\ life'[m] = 0 => hight'[m] = hight'[n] /\ preHash'[m] = preHash'[n]
    <3>1. m \in peers[n] /\ m \in Node /\ m \notin FailedCalls(n)
      BY <1>1, <2>1 DEF FlowInv, ProcTypes
    <3>2. call[n][m] = "ok"
      BY <1>1, <2>1, <3>1 DEF Joined, FailedCalls, Chain, FollowersInv, FlowInv, RoundTypes
    <3>3. HasHead(n, loc[n].block)
      BY <1>1, <2>1 DEF Chain, MakersHeadInv
    <3> QED
      BY <1>1, <2>1, <3>1, <3>2, <3>3 DEF Chain, FollowersInv, HasHead
  <2> QED
    BY <1>1, <1>2, <2>1 DEF Chain, FollowersInv, Maker, HasHead
<1> QED
  BY <1>3, <1>4, <1>5, <1>6 DEF Chain

LEMMA RestartChain ==
  ASSUME FlowInv, MakerInv, Chain, NEW n \in Node, Restart(n) PROVE Chain'
<1>1. /\ UNCHANGED <<made, makers>> /\ req' = req \ Busy(n)
      /\ pc'[n] = "idle" /\ life'[n] = life[n] + 1 /\ life[n] \in Nat
      /\ hight'[n] = 0 /\ preHash'[n] = Genesis
  BY Bounds DEF Restart, Stop, past, FlowInv, ProcTypes, HeadTypes, RoundTypes
<1>2. \A m \in Node : m # n =>
        /\ pc'[m] = pc[m] /\ loc'[m] = loc[m] /\ call'[m] = call[m] /\ peers'[m] = peers[m]
        /\ up'[m] = up[m] /\ life'[m] = life[m] /\ hight'[m] = hight[m] /\ preHash'[m] = preHash[m]
  BY DEF Restart, Stop, FlowInv, ProcTypes, HeadTypes, RoundTypes
<1>3. ~Maker(n)'
  BY <1>1 DEF Maker, MakerInv
<1>4. \A m \in Node : Maker(m)' => m # n /\ Maker(m)
  BY <1>1, <1>2, <1>3 DEF Maker
<1>5. \A m \in Node : hight[m] \in Nat
  BY Bounds DEF FlowInv, HeadTypes
<1>6. SentInv'
  <2>1. \A r \in req' : r \in req /\ r.to \in Node /\ (r.type = "block" => r.block.number \in Nat)
    BY <1>1, RequestShape
  <2>2. \A r \in req' : r.at # "sent" => r.to # n
    BY <1>1 DEF Busy
  <2>3. ASSUME NEW r \in req', r.type = "block" PROVE hight'[r.to] <= r.block.number + 1
    <3>1. CASE r.to = n
      BY <1>1, <2>1, <2>3, <3>1
    <3>2. CASE r.to # n
      BY <1>2, <2>1, <2>3, <3>2 DEF Chain, SentInv
    <3> QED
      BY <3>1, <3>2
  <2>4. ASSUME NEW r \in req', r.type = "block", r.at # "sent"
        PROVE  /\ r.at = "hight" => preHash'[r.to] = r.block
               /\ r.at \in {"stores", "join"} => HasHead(r.to, r.block)'
    <3>1. r \in req /\ r.to \in Node /\ r.to # n
      BY <2>1, <2>2, <2>4
    <3>2. preHash'[r.to] = preHash[r.to] /\ hight'[r.to] = hight[r.to]
      BY <1>2, <3>1
    <3> QED
      BY <2>4, <3>1, <3>2 DEF Chain, SentInv, HasHead
  <2> QED
    BY <1>1, <2>1, <2>3, <2>4 DEF Chain, SentInv
<1>7. HeadsInv'
  <2>1. \A m \in Node : m # n => (HeadQuiet(m)' => HeadQuiet(m))
    BY <1>1, <1>2 DEF HeadQuiet, Busy
  <2>2. NoHead(n)' /\ \A m \in Node : m # n => (NoHead(m)' <=> NoHead(m))
    BY <1>1, <1>2 DEF NoHead
  <2> QED
    BY <1>1, <1>2, <2>1, <2>2 DEF Chain, HeadsInv, HasHead
<1>8. MakersHeadInv'
  BY <1>1, <1>2, <1>4, <1>5 DEF Chain, MakersHeadInv, HasHead
<1>9. FollowersInv'
  <2>1. \A m \in Node : life'[m] = 0 => m # n
    BY <1>1
  <2>2. \A m \in Node : peers[m] \subseteq Node
    BY DEF FlowInv, ProcTypes
  <2> QED
    BY <1>1, <1>2, <1>4, <2>1, <2>2 DEF Chain, FollowersInv, HasHead
<1> QED
  BY <1>6, <1>7, <1>8, <1>9 DEF Chain

LEMMA CutChain ==
  ASSUME FlowInv, MakerInv, MakerInv', Chain, Undisturbed', NEW n \in Node, CutBlock(n), ~Die(n)
  PROVE  Chain' /\ hight'[n] >= hight[n]
<1> DEFINE b == Block(loc[n].pre, loc[n].number, cached[n])
<1>1. /\ UNCHANGED <<up, life, preHash, req>> /\ pc[n] = "gather" /\ pc'[n] = "cut"
      /\ made' = made \cup {b} /\ makers' = makers \cup {<<n, life[n]>>}
      /\ loc'[n].block = b /\ hight'[n] = loc[n].number + 1
  BY DEF CutBlock, proc, FlowInv, HeadTypes, RoundTypes, LocalType
<1>2. \A m \in Node : m # n => pc'[m] = pc[m] /\ loc'[m] = loc[m] /\ hight'[m] = hight[m]
  BY DEF CutBlock, FlowInv, HeadTypes, RoundTypes
<1>3. \A m \in Node : peers'[m] \subseteq peers[m] /\ peers[m] \subseteq Node
  BY PeersShrink DEF FlowInv, ProcTypes
<1>4. b.number = loc[n].number
  BY DEF Block
<1> HIDE DEF b
<1>5. makers' = {<<n, life[n]>>} /\ makers \subseteq {<<n, life[n]>>}
  <2>1. IsFiniteSet(makers') /\ Cardinality(makers') <= 1
    BY DEF MakerInv, Undisturbed
  <2>2. \A p, q \in makers' : p = q
    BY <2>1, Sole
  <2> QED
    BY <1>1, <2>2
<1>6. /\ loc[n].number = hight[n] /\ \A m \in Node : hight[m] \in Nat
      /\ \A m \in Node : hight[m] <= hight[n]
  <2>1. loc[n].number = hight[n]
    BY <1>1, <1>5 DEF Chain, HeadsInv
  <2>2. \A m \in Node : hight[m] \in Nat
    BY Bounds DEF FlowInv, HeadTypes
  <2>3. CASE makers = {}
    BY <2>1, <2>2, <2>3 DEF Chain, HeadsInv, NoHead
  <2>4. CASE makers # {}
    <3>1. Maker(n)
      BY <1>5, <2>4 DEF Maker
    <3> QED
      BY <2>1, <2>2, <3>1 DEF Chain, MakersHeadInv
  <2> QED
    BY <2>3, <2>4
\* No block is on its way to n, and only to nodes that n has struck off.
<1>7. \A r \in req : r.type = "block" =>
        Maker(n) /\ r.from = n /\ r.to # n /\ r.to \in Node /\ r.to \notin peers[n]
          /\ r.block.number \in Nat /\ r.block.number + 1 <= hight[n]
  <2> SUFFICES ASSUME NEW r \in req, r.type = "block"
               PROVE  Maker(n) /\ r.from = n /\ r.to # n /\ r.to \in Node /\ r.to \notin peers[n]
                        /\ r.block.number \in Nat /\ r.block.number + 1 <= hight[n]
    OBVIOUS
  <2>1. <<r.from, r.life>> \in makers /\ r.from # r.to
    BY DEF Chain, SentInv
  <2>2. Maker(n) /\ r.from = n
    BY <1>5, <2>1 DEF Maker
  <2>3. up[n]
    BY <1>1 DEF MakerInv
  <2> QED
    BY <1>1, <2>1, <2>2, <2>3, RequestShape DEF Chain, FollowersInv, MakersHeadInv
<1>8. SentInv'
  BY <1>1, <1>2, <1>7 DEF Chain, SentInv, HasHead
<1>9. HeadsInv'
  <2>1. \A m \in Node : HeadQuiet(m)' => m # n /\ HeadQuiet(m)
    BY <1>1, <1>2 DEF HeadQuiet, Busy
  <2>2. \A m \in Node : m # n => ~(makers' \subseteq {<<m, life'[m]>>})
    BY <1>1
  <2>3. ASSUME NEW m \in Node, up'[m], HeadQuiet(m)'
        PROVE  (NoHead(m) \/ \E c \in made : HasHead(m, c))'
    <3>1. m # n /\ HeadQuiet(m) /\ up[m]
      BY <1>1, <2>1, <2>3
    <3>2. NoHead(m) \/ \E c \in made : HasHead(m, c)
      BY <3>1 DEF Chain, HeadsInv
    <3>3. preHash'[m] = preHash[m] /\ hight'[m] = hight[m]
      BY <1>1, <1>2, <3>1
    <3> QED
      BY <1>1, <3>2, <3>3 DEF NoHead, HasHead
  <2> QED
    BY <1>1, <2>2, <2>3 DEF HeadsInv
<1>10. \A m \in Node : Maker(m)' => m = n
  BY <1>1, <1>5 DEF Maker
<1>11. MakersHeadInv'
  BY <1>1, <1>2, <1>4, <1>6, <1>7, <1>10 DEF MakersHeadInv
<1>12. FollowersInv'
  BY <1>1, <1>3, <1>7, <1>10 DEF FollowersInv
<1> QED
  BY <1>1, <1>6, <1>8, <1>9, <1>11, <1>12 DEF Chain

LEMMA SendChain ==
  ASSUME FlowInv, MakerInv, Chain, Undisturbed, NEW n \in Node, SendBlock(n) PROVE Chain'
<1> DEFINE new == {BlockRequest(n, m, 0) : m \in peers[n]}
<1>1. /\ UNCHANGED <<up, life, hight, made, makers, loc, peers>> /\ pc[n] = "cut" /\ pc'[n] = "send"
      /\ preHash'[n] = loc[n].block /\ call'[n] = Open(n) /\ req' = req \cup new
  BY DEF SendBlock, proc, past, FlowInv, HeadTypes, RoundTypes
<1>2. \A m \in Node : m # n => pc'[m] = pc[m] /\ call'[m] = call[m] /\ preHash'[m] = preHash[m]
  BY DEF SendBlock, FlowInv, HeadTypes, RoundTypes
<1>3. /\ Maker(n) /\ up[n] /\ n \notin peers[n] /\ peers[n] \subseteq Node
      /\ loc[n].block \in made /\ hight[n] = loc[n].block.number + 1
      /\ \A m \in Node : hight[m] <= hight[n]
  BY <1>1 DEF MakerInv, FlowInv, ProcTypes, RoundTypes, Chain, MakersHeadInv
<1>4. \A p \in makers : p = <<n, life[n]>>
  BY <1>3, Sole DEF MakerInv, Undisturbed, Maker
<1>5. \A r \in new : /\ r.type = "block" /\ r.from = n /\ r.life = life[n] /\ r.to \in peers[n]
                     /\ r.block = loc[n].block /\ r.at = "sent"
  BY DEF BlockRequest, GetRequest
<1>6. \A q, r \in new : q.to = r.to => q = r
  <2>1. \A m \in peers[n] : BlockRequest(n, m, 0).to = m
    BY DEF BlockRequest, GetRequest
  <2>2. SUFFICES ASSUME NEW q \in new, NEW r \in new, q.to = r.to PROVE q = r
    OBVIOUS
  <2>3. PICK m \in peers[n] : q = BlockRequest(n, m, 0)
    OBVIOUS
  <2>4. PICK k \in peers[n] : r = BlockRequest(n, k, 0)
    OBVIOUS
  <2> QED
    BY <2>1, <2>2, <2>3, <2>4
<1> HIDE DEF new
\* What is still on its way goes to nodes that n has struck off.
<1>7. \A r \in req : r.type = "block" => r.to \in Node /\ r.to # n /\ r.to \notin peers[n]
  BY <1>1, <1>3, <1>4, RequestShape, ZenonT(60) DEF Chain, SentInv, FollowersInv
<1>8. HasHead(n, loc[n].block)'
  BY <1>1, <1>3 DEF HasHead
<1>9. SentInv'
  <2> SUFFICES ASSUME NEW r \in req', r.type = "block"
               PROVE  /\ <<r.from, r.life>> \in makers /\ r.from # r.to
                      /\ \A q \in req' : q.type = "block" /\ q.to = r.to => q = r
                      /\ hight[r.to] <= r.block.number + 1
                      /\ r.at = "hight" => preHash'[r.to] = r.block
                      /\ r.at \in {"stores", "join"} => preHash'[r.to] = r.block /\ hight[r.to] = r.block.number + 1
    BY <1>1 DEF SentInv, HasHead
  <2>1. CASE r \in new
    <3>1. /\ r.from = n /\ r.life = life[n] /\ r.to \in peers[n] /\ r.to \in Node
          /\ r.block = loc[n].block /\ r.at = "sent"
      BY <1>3, <1>5, <2>1
    <3>2. \A q \in req' : q.type = "block" /\ q.to = r.to => q = r
      BY <1>1, <1>6, <1>7, <2>1, <3>1
    <3> QED
      BY <1>3, <3>1, <3>2 DEF Maker
  <2>2. CASE r \in req
    <3>1. r.to \in Node /\ r.to # n /\ r.to \notin peers[n] /\ preHash'[r.to] = preHash[r.to]
      BY <1>2, <1>7, <2>2
    <3>2. \A q \in req' : q.type = "block" /\ q.to = r.to => q = r
      BY <1>1, <1>5, <2>2, <3>1 DEF Chain, SentInv
    <3> QED
      BY <2>2, <3>1, <3>2 DEF Chain, SentInv, HasHead
  <2> QED
    BY <1>1, <2>1, <2>2
<1>10. HeadsInv'
  <2>1. \A m \in Node : m # n => (HeadQuiet(m)' => HeadQuiet(m))
    BY <1>1, <1>2 DEF HeadQuiet, Busy
  <2>2. ASSUME NEW m \in Node, up'[m], HeadQuiet(m)'
        PROVE  (NoHead(m) \/ \E c \in made : HasHead(m, c))'
    <3>1. CASE m = n
      BY <1>1, <1>3, <1>8, <3>1
    <3>2. CASE m # n
      BY <1>1, <1>2, <2>1, <2>2, <3>2 DEF Chain, HeadsInv, NoHead, HasHead
    <3> QED
      BY <3>1, <3>2
  <2>3. makers # {}
    BY <1>3 DEF Maker
  <2>4. \A m \in Node : pc'[m] = "gather" => m # n
    BY <1>1
  <2> QED
    BY <1>1, <1>2, <2>2, <2>3, <2>4 DEF Chain, HeadsInv
<1>11. \A m \in Node : Maker(m)' => m = n
  BY <1>1, <1>4 DEF Maker
<1>12. MakersHeadInv'
  <2>1. \A r \in req' : r.type = "block" => r.block.number + 1 <= hight[n]
    BY <1>1, <1>3, <1>5 DEF Chain, MakersHeadInv, FlowInv, HeadTypes
  <2> QED
    BY <1>1, <1>3, <1>8, <1>11, <2>1 DEF MakersHeadInv
<1>13. FollowersInv'
  <2>1. ASSUME NEW m \in peers[n]
        PROVE  call'[n][m] = "open" /\ \A r \in req' : r.type = "block" /\ r.to = m => r.block = loc[n].block
    BY <1>1, <1>3, <1>5, <1>7 DEF Open
  <2> QED
    BY <1>1, <1>11, <2>1 DEF FollowersInv
<1> QED
  BY <1>9, <1>10, <1>12, <1>13 DEF Chain

-----------------------------------------------------------------------------
(***************************************************************************)
(* The workers.                                                            *)
(***************************************************************************)
\* A worker is at a node that is not the maker, and has the only block on its way there.
LEMMA WorkerAlone ==
  ASSUME FlowInv, MakerInv, Chain, Undisturbed, NEW r \in req, r.type = "block"
  PROVE  /\ r.to \in Node /\ r.block \in made /\ r.block.number \in Nat
         /\ <<r.from, r.life>> \in makers /\ r.from # r.to
         /\ \A p \in makers : p = <<r.from, r.life>>
         /\ \A n \in Node : Maker(n) => n = r.from /\ n # r.to /\ r.block.number + 1 <= hight[n]
         /\ \A q \in req : q.type = "block" /\ q.to = r.to => q = r
         /\ \A n \in Node : Maker(n) /\ up[n] /\ r.to \in peers[n] => pc[n] = "send"
<1>1. <<r.from, r.life>> \in makers /\ r.from # r.to /\ \A q \in req : q.type = "block" /\ q.to = r.to => q = r
  BY DEF Chain, SentInv
<1>2. \A p \in makers : p = <<r.from, r.life>>
  BY <1>1, Sole DEF MakerInv, Undisturbed
<1>3. \A n \in Node : Maker(n) => n = r.from
  BY <1>2 DEF Maker
<1> QED
  BY <1>1, <1>2, <1>3, RequestShape DEF Chain, MakersHeadInv, FollowersInv

\* A request that has come further, and what it has done to the head of its node.
LEMMA AdvanceChain ==
  ASSUME FlowInv, MakerInv, Chain, Undisturbed, NEW r \in req, r.type = "block", NEW q,
         q.type = "block", q.to = r.to, q.from = r.from, q.life = r.life, q.block = r.block,
         q.at \in {"hight", "stores", "join"},
         req' = (req \ {r}) \cup {q},
         UNCHANGED <<up, life, pc, loc, call, peers, made, makers>>,
         \A m \in Node : m # r.to => hight'[m] = hight[m] /\ preHash'[m] = preHash[m],
         preHash'[r.to] = r.block,
         IF q.at = "hight" THEN hight'[r.to] = hight[r.to] ELSE hight'[r.to] = r.block.number + 1
  PROVE  Chain'
<1>1. /\ r.to \in Node /\ r.block \in made /\ r.block.number \in Nat
      /\ <<r.from, r.life>> \in makers /\ r.from # r.to
      /\ \A n \in Node : Maker(n) => n = r.from /\ n # r.to /\ r.block.number + 1 <= hight[n]
      /\ \A p \in req : p.type = "block" /\ p.to = r.to => p = r
      /\ \A n \in Node : Maker(n) /\ up[n] /\ r.to \in peers[n] => pc[n] = "send"
      /\ \A p \in makers : p = <<r.from, r.life>>
  BY WorkerAlone
<1>2. hight[r.to] <= r.block.number + 1 /\ \A m \in Node : hight[m] \in Nat
  <2>1. hight[r.to] <= r.block.number + 1
    BY DEF Chain, SentInv
  <2>2. \A m \in Node : hight[m] \in Nat
    BY Bounds DEF FlowInv, HeadTypes
  <2> QED
    BY <2>1, <2>2
<1>3. SentInv'
  <2>1. ASSUME NEW p \in req, p # r, p.type = "block"
        PROVE  /\ p.to \in Node /\ p.to # r.to /\ hight'[p.to] = hight[p.to] /\ preHash'[p.to] = preHash[p.to]
    BY <1>1, <2>1, RequestShape
  <2>2. ASSUME NEW p \in req, p # r, p.type = "block"
        PROVE  /\ <<p.from, p.life>> \in makers /\ p.from # p.to
               /\ \A o \in req' : o.type = "block" /\ o.to = p.to => o = p
               /\ hight'[p.to] <= p.block.number + 1
               /\ p.at = "hight" => preHash'[p.to] = p.block
               /\ p.at \in {"stores", "join"} => HasHead(p.to, p.block)'
    BY <2>1, <2>2 DEF Chain, SentInv, HasHead
  <2>3. /\ <<q.from, q.life>> \in makers /\ q.from # q.to
        /\ \A o \in req' : o.type = "block" /\ o.to = q.to => o = q
        /\ hight'[q.to] <= q.block.number + 1
        /\ q.at = "hight" => preHash'[q.to] = q.block
        /\ q.at \in {"stores", "join"} => HasHead(q.to, q.block)'
    BY <1>1, <1>2 DEF HasHead
  <2> QED
    BY <2>2, <2>3 DEF SentInv
<1>4. HeadsInv'
  <2>1. ASSUME NEW m \in Node, up'[m], HeadQuiet(m)'
        PROVE  (NoHead(m) \/ \E c \in made : HasHead(m, c))'
    <3>1. CASE m = r.to
      <4>1. q \in Busy(m)'
        BY <3>1 DEF Busy
      <4>2. q.at # "hight"
        BY <2>1, <4>1 DEF HeadQuiet
      <4> QED
        BY <1>1, <3>1, <4>2 DEF HasHead
    <3>2. CASE m # r.to
      <4>1. HeadQuiet(m)
        BY <2>1, <3>2 DEF HeadQuiet, Busy
      <4> QED
        BY <2>1, <3>2, <4>1 DEF Chain, HeadsInv, NoHead, HasHead
    <3> QED
      BY <3>1, <3>2
  <2>2. makers' # {}
    BY <1>1
  <2>3. ASSUME NEW m \in Node, pc'[m] = "gather", makers' \subseteq {<<m, life'[m]>>}
        PROVE  loc'[m].number = hight'[m]
    <3>1. m # r.to
      BY <1>1, <2>3
    <3> QED
      BY <2>3, <3>1 DEF Chain, HeadsInv
  <2> QED
    BY <2>1, <2>2, <2>3 DEF HeadsInv
<1>5. \A n \in Node : Maker(n)' <=> Maker(n)
  BY DEF Maker
<1>6. MakersHeadInv'
  BY <1>1, <1>2, <1>5 DEF Chain, MakersHeadInv, HasHead
<1>7. FollowersInv'
  <2> SUFFICES ASSUME NEW n \in Node, Maker(n), up[n], NEW m \in peers[n]
               PROVE  /\ pc[n] # "send" => \A o \in req' : ~(o.type = "block" /\ o.to = m)
                      /\ pc[n] = "send" =>
                           /\ call[n][m] # "none"
                           /\ \A o \in req' : o.type = "block" /\ o.to = m => call[n][m] # "ok" /\ o.block = loc[n].block
                           /\ call[n][m] = "ok" /\ up[m] /\ life[m] = 0 => HasHead(m, loc[n].block)'
                      /\ pc[n] \notin {"cut", "send"} /\ up[m] /\ life[m] = 0 =>
                           hight'[m] = hight'[n] /\ preHash'[m] = preHash'[n]
    BY <1>5 DEF FollowersInv, HasHead
  <2>1. n # r.to /\ m \in Node
    BY <1>1 DEF FlowInv, ProcTypes
  <2>2. CASE m = r.to
    BY <1>1, <2>1, <2>2 DEF Chain, FollowersInv
  <2>3. CASE m # r.to
    BY <2>1, <2>3 DEF Chain, FollowersInv, HasHead
  <2> QED
    BY <2>2, <2>3
<1> QED
  BY <1>3, <1>4, <1>6, <1>7 DEF Chain

LEMMA WorkerAdvances ==
  ASSUME FlowInv, MakerInv, Chain, Undisturbed, NEW r \in req,
         SetPreHash(r) \/ SetHight(r) \/ Forward(r) \/ \E s \in Store : Forwarded(r, s)
  PROVE  Chain' /\ hight'[r.to] >= hight[r.to]
<1>1. r.type = "block" /\ r \in RequestType /\ r.to \in Node
  BY DEF FlowInv, RequestTypes, RequestType, SetPreHash, SetHight, Forward, Forwarded
<1>2. /\ hight[r.to] <= r.block.number + 1 /\ hight[r.to] \in Nat
      /\ r.at = "hight" => preHash[r.to] = r.block
      /\ r.at \in {"stores", "join"} => HasHead(r.to, r.block)
  <2>1. hight[r.to] \in Nat
    BY <1>1, Bounds DEF FlowInv, HeadTypes
  <2> QED
    BY <1>1, <2>1 DEF Chain, SentInv
<1>3. CASE SetPreHash(r)
  <2> DEFINE q == [r EXCEPT !.at = "hight"]
  <2>1. q.type = "block" /\ q.to = r.to /\ q.from = r.from /\ q.life = r.life /\ q.block = r.block /\ q.at = "hight"
    BY <1>1 DEF RequestType
  <2>2. /\ req' = (req \ {r}) \cup {q} /\ UNCHANGED <<up, life, pc, loc, call, peers, made, makers, hight>>
        /\ preHash'[r.to] = r.block /\ \A m \in Node : m # r.to => preHash'[m] = preHash[m]
    BY <1>1, <1>3 DEF SetPreHash, Moved, proc, past, FlowInv, HeadTypes
  <2> HIDE DEF q
  <2> QED
    BY <1>1, <1>2, <2>1, <2>2, AdvanceChain
<1>4. CASE SetHight(r)
  <2> DEFINE q == [r EXCEPT !.at = "stores"]
  <2>1. q.type = "block" /\ q.to = r.to /\ q.from = r.from /\ q.life = r.life /\ q.block = r.block /\ q.at = "stores"
    BY <1>1 DEF RequestType
  <2>2. /\ req' = (req \ {r}) \cup {q} /\ UNCHANGED <<up, life, pc, loc, call, peers, made, makers, preHash>>
        /\ hight'[r.to] = r.block.number + 1 /\ \A m \in Node : m # r.to => hight'[m] = hight[m]
    BY <1>1, <1>4 DEF SetHight, Moved, proc, past, FlowInv, HeadTypes
  <2>3. preHash'[r.to] = r.block
    BY <1>2, <1>4, <2>2 DEF SetHight
  <2> HIDE DEF q
  <2>4. Chain'
    BY <1>1, <2>1, <2>2, <2>3, AdvanceChain
  <2>5. r.block.number \in Nat
    BY <1>1, RequestShape
  <2> QED
    BY <1>2, <2>2, <2>4, <2>5
<1>5. ASSUME NEW q, q.type = "block", q.to = r.to, q.from = r.from, q.life = r.life, q.block = r.block,
             q.at = "join", req' = (req \ {r}) \cup {q}, r.at \in {"stores", "join"},
             UNCHANGED <<up, life, pc, loc, call, peers, made, makers, hight, preHash>>
      PROVE  Chain' /\ hight'[r.to] >= hight[r.to]
  <2>1. HasHead(r.to, r.block)
    BY <1>2, <1>5
  <2>2. hight'[r.to] = r.block.number + 1 /\ preHash'[r.to] = r.block
    BY <1>5, <2>1 DEF HasHead
  <2>3. Chain'
    BY <1>1, <1>5, <2>2, AdvanceChain
  <2> QED
    BY <1>2, <1>5, <2>3
<1>6. CASE Forward(r)
  <2> DEFINE q == [r EXCEPT !.at = "join", !.asked = stores[r.to]]
  <2>1. q.type = "block" /\ q.to = r.to /\ q.from = r.from /\ q.life = r.life /\ q.block = r.block /\ q.at = "join"
    BY <1>1 DEF RequestType
  <2>2. /\ req' = (req \ {r}) \cup {q} /\ r.at \in {"stores", "join"}
        /\ UNCHANGED <<up, life, pc, loc, call, peers, made, makers, hight, preHash>>
    BY <1>6 DEF Forward, proc, past, head
  <2> HIDE DEF q
  <2> QED
    BY <1>5, <2>1, <2>2
<1>7. ASSUME NEW s \in Store, Forwarded(r, s) PROVE Chain' /\ hight'[r.to] >= hight[r.to]
  <2> DEFINE q == [r EXCEPT !.asked = @ \ {s}]
  <2>1. q.type = "block" /\ q.to = r.to /\ q.from = r.from /\ q.life = r.life /\ q.block = r.block /\ q.at = "join"
    BY <1>1, <1>7 DEF RequestType, Forwarded
  <2>2. /\ req' = (req \ {r}) \cup {q} /\ r.at \in {"stores", "join"}
        /\ UNCHANGED <<up, life, pc, loc, call, peers, made, makers, hight, preHash>>
    BY <1>7 DEF Forwarded, proc, past, head
  <2> HIDE DEF q
  <2> QED
    BY <1>5, <2>1, <2>2
<1> QED
  BY <1>3, <1>4, <1>6, <1>7

LEMMA AnswerKeeps ==
  ASSUME FlowInv, MakerInv, Chain, Undisturbed, NEW r \in req, AnswerBlock(r) PROVE Chain'
<1>1. r.type = "block" /\ r.at = "join" /\ r.to \in Node /\ r.from \in Node
  BY DEF FlowInv, RequestTypes, RequestType, AnswerBlock
<1>2. /\ UNCHANGED <<up, life, pc, loc, peers, made, makers, hight, preHash>>
      /\ req' = req \ {r} /\ Reply(r)
  BY DEF AnswerBlock, proc, past, head
<1>3. /\ \A n \in Node : Maker(n) => n = r.from
      /\ \A q \in req : q.type = "block" /\ q.to = r.to => q = r
      /\ \A n \in Node : Maker(n) /\ up[n] /\ r.to \in peers[n] => pc[n] = "send"
  BY <1>1, WorkerAlone
<1>4. HasHead(r.to, r.block)
  BY <1>1 DEF Chain, SentInv
<1>5. \A n, m \in Node :
        \/ call'[n][m] = call[n][m]
        \/ n = r.from /\ m = r.to /\ call'[n][m] = "ok" /\ loc[n].block = r.block
  BY <1>1, <1>2 DEF Reply, Awaited, FlowInv, RoundTypes
<1>6. SentInv'
  BY <1>2 DEF Chain, SentInv, HasHead
<1>7. HeadsInv'
  <2>1. \A m \in Node : HeadQuiet(m)' => HeadQuiet(m)
    BY <1>1, <1>2 DEF HeadQuiet, Busy
  <2> QED
    BY <1>2, <2>1 DEF Chain, HeadsInv, NoHead, HasHead
<1>8. MakersHeadInv'
  BY <1>2 DEF Chain, MakersHeadInv, Maker, HasHead
<1>9. FollowersInv'
  <2> SUFFICES ASSUME NEW n \in Node, Maker(n), up[n], NEW m \in peers[n]
               PROVE  /\ pc[n] # "send" => \A q \in req' : ~(q.type = "block" /\ q.to = m)
                      /\ pc[n] = "send" =>
                           /\ call'[n][m] # "none"
                           /\ \A q \in req' : q.type = "block" /\ q.to = m => call'[n][m] # "ok" /\ q.block = loc[n].block
                           /\ call'[n][m] = "ok" /\ up[m] /\ life[m] = 0 => HasHead(m, loc[n].block)
                      /\ pc[n] \notin {"cut", "send"} /\ up[m] /\ life[m] = 0 =>
                           hight[m] = hight[n] /\ preHash[m] = preHash[n]
    BY <1>2 DEF FollowersInv, HasHead, Maker
  <2>1. m \in Node /\ n = r.from
    BY <1>3 DEF FlowInv, ProcTypes
  <2>2. CASE m = r.to
    <3>1. pc[n] = "send" /\ call[n][m] \notin {"none", "ok"}
      BY <1>1, <1>3, <2>2 DEF Chain, FollowersInv
    <3>2. \A q \in req' : ~(q.type = "block" /\ q.to = m)
      BY <1>2, <1>3, <2>2
    <3>3. call'[n][m] # "none"
      BY <1>5, <2>1, <3>1
    <3>4. call'[n][m] = "ok" => HasHead(m, loc[n].block)
      BY <1>4, <1>5, <2>1, <2>2, <3>1
    <3> QED
      BY <3>1, <3>2, <3>3, <3>4
  <2>3. CASE m # r.to
    <3>1. call'[n][m] = call[n][m]
      BY <1>5, <2>1, <2>3
    <3> QED
      BY <1>2, <2>1, <3>1 DEF Chain, FollowersInv
  <2> QED
    BY <2>2, <2>3
<1> QED
  BY <1>6, <1>7, <1>8, <1>9 DEF Chain

-----------------------------------------------------------------------------
(***************************************************************************)
(* Every step, and the theorems.                                           *)
(***************************************************************************)
LEMMA ChainStep == ASSUME FlowInv, ChainInv, [Next]_vars PROVE ChainInv'
<1>1. MakerInv /\ MakerInv'
  BY MakersStep DEF ChainInv
<1> SUFFICES ASSUME Undisturbed' PROVE Chain'
  BY <1>1 DEF ChainInv
<1>2. Undisturbed /\ Chain
  BY <1>1, PastGrows, UndisturbedBefore DEF ChainInv
<1>3. CASE Calm
  BY <1>1, <1>2, <1>3, CalmKeeps
<1>4. CASE UNCHANGED vars
  BY <1>3, <1>4, StillIsCalm DEF vars, proc, head, past
<1>5. ASSUME NEW n \in Node, Distribute(n) PROVE Chain'
  <2>1. CASE StartDistribute(n) \/ AskForTxs(n) \/ EndDistribute(n) \/ (\E s \in Store : JoinStore(n, s))
    BY <1>1, <1>3, <2>1, DistributorIsCalm
  <2>2. CASE CutBlock(n)
    BY <1>1, <1>2, <1>3, <2>2, DistributorIsCalm, CutChain
  <2>3. CASE SendBlock(n)
    BY <1>1, <1>2, <2>3, SendChain
  <2>4. CASE SendToStores(n)
    BY <1>1, <1>2, <2>4, SendToStoresKeeps
  <2> QED
    BY <1>5, <2>1, <2>2, <2>3, <2>4 DEF Distribute
<1>6. ASSUME NEW n \in Node, Restart(n) PROVE Chain'
  BY <1>1, <1>2, <1>6, RestartChain
<1>7. ASSUME NEW n \in Node,
             BecomeLeader(n) \/ (\E m \in Node : DropPeer(n, m) \/ Timeout(n, m))
               \/ \E s \in Store : InsertTx(n, s) \/ SaveStoreNode(n, s)
      PROVE  Chain'
  BY <1>3, <1>7, NodeIsCalm
<1>8. ASSUME NEW n \in Node, NEW m \in Node, Retry(n, m) PROVE Chain'
  BY <1>2, <1>8 DEF Retry, Undisturbed
<1>9. ASSUME NEW r \in req, GetTxFromFollower(r) \/ SendBlockToOtherNode(r) PROVE Chain'
  <2>1. CASE GetTxFromFollower(r)
    BY <1>3, <2>1, GetTxIsCalm
  <2>2. CASE SetPreHash(r) \/ SetHight(r) \/ Forward(r) \/ \E s \in Store : Forwarded(r, s)
    BY <1>1, <1>2, <2>2, WorkerAdvances
  <2>3. CASE AnswerBlock(r)
    BY <1>1, <1>2, <2>3, AnswerKeeps
  <2> QED
    BY <1>9, <2>1, <2>2, <2>3 DEF SendBlockToOtherNode
<1> QED
  BY <1>4, <1>5, <1>6, <1>7, <1>8, <1>9 DEF Next

LEMMA ChainAlways == Spec => [](FlowInv /\ ChainInv)
<1>1. Init => FlowInv /\ ChainInv
  BY FlowInvInit, ChainInit
<1>2. FlowInv /\ ChainInv /\ [Next]_vars => (FlowInv /\ ChainInv)'
  BY FlowInvStep, ChainStep
<1> QED
  BY <1>1, <1>2, PTL DEF Spec

\* HeadWhole: while one process makes the blocks, hash and height of a head are those of one
\* block, though they are assigned apart and a request may be handled after its call ended.
THEOREM HeadsAreWhole == Spec => []HeadWhole
<1>1. FlowInv /\ ChainInv => HeadWhole
  BY DEF ChainInv, Chain, HeadsInv, HeadWhole, NoHead, HasHead
<1> QED
  BY <1>1, ChainAlways, PTL

\* PeersAgree: the peers the maker still lists between two rounds have its chain head, since
\* who did not answer was struck off.
THEOREM PeersFollow == Spec => []PeersAgree
<1>1. FlowInv /\ ChainInv => PeersAgree
  BY DEF ChainInv, Chain, FollowersInv, PeersAgree, Maker
<1> QED
  BY <1>1, ChainAlways, PTL

\* HeightsGrow: while one process makes the blocks, no process goes back to an older block.
THEOREM HeightsOnlyGrow == Spec => HeightsGrow
<1> DEFINE Grows == \A n \in Node : Undisturbed' /\ life'[n] = life[n] => hight'[n] >= hight[n]
<1>1. FlowInv /\ ChainInv /\ [Next]_vars => [Grows]_vars
  <2> SUFFICES ASSUME FlowInv, ChainInv, [Next]_vars, NEW n \in Node, Undisturbed', life'[n] = life[n]
               PROVE  hight'[n] >= hight[n]
    OBVIOUS
  <2>1. hight[n] \in Nat /\ life[n] \in Nat
    BY Bounds DEF FlowInv, HeadTypes, ProcTypes
  <2>2. MakerInv /\ MakerInv' /\ Undisturbed /\ Chain
    BY MakersStep, PastGrows, UndisturbedBefore DEF ChainInv
  <2>3. CASE hight' = hight
    BY <2>1, <2>3
  <2>4. ASSUME NEW k \in Node, CutBlock(k), hight' # hight PROVE hight'[n] >= hight[n]
    <3>1. ~Die(k) /\ \A m \in Node : m # k => hight'[m] = hight[m]
      BY <2>4 DEF CutBlock, Die, head, FlowInv, HeadTypes
    <3> QED
      BY <2>1, <2>2, <2>4, <3>1, CutChain
  <2>5. ASSUME NEW k \in Node, Restart(k) PROVE hight'[n] >= hight[n]
    BY <2>1, <2>5 DEF Restart, FlowInv, ProcTypes, HeadTypes
  <2>6. ASSUME NEW r \in req, SetHight(r) PROVE hight'[n] >= hight[n]
    <3>1. r.to \in Node /\ \A m \in Node : m # r.to => hight'[m] = hight[m]
      BY <2>6, SMTT(60) DEF SetHight, FlowInv, HeadTypes, RequestTypes, RequestType
    <3> QED
      BY <2>1, <2>2, <2>6, <3>1, WorkerAdvances
  <2>7. \/ hight' = hight \/ (\E k \in Node : CutBlock(k) /\ hight' # hight)
        \/ (\E k \in Node : Restart(k)) \/ \E r \in req : SetHight(r)
    BY ZenonT(60) DEF Next, vars, head, Distribute, StartDistribute, AskForTxs, SendBlock, SendToStores,
       JoinStore, EndDistribute, BecomeLeader, Die, InsertTx, SaveStoreNode, DropPeer, Timeout, Retry,
       GetTxFromFollower, SendBlockToOtherNode, SetPreHash, Forward, Forwarded, AnswerBlock
  <2> QED
    BY <2>3, <2>4, <2>5, <2>6, <2>7
<1> QED
  BY <1>1, ChainAlways, PTL DEF Spec, HeightsGrow

-----------------------------------------------------------------------------
(***************************************************************************)
(* The blocks of one maker are a chain (BlockChain).  The maker's height   *)
(* is how many blocks there are, and what it has read of its own head      *)
(* stays true until it has cut the next block.                             *)
(***************************************************************************)
GrowInv ==
  /\ IsFiniteSet(made)
  /\ \A b \in made : b.number < Cardinality(made)
  /\ \A b, c \in made : b.number = c.number => b = c
  /\ made # {} => \E b \in made : b.number + 1 = Cardinality(made)
  /\ makers = {} => made = {}
  /\ \A n \in Node :
       /\ Maker(n) => hight[n] = Cardinality(made)
       /\ pc[n] \in {"read", "gather"} /\ makers \subseteq {<<n, life[n]>>} => loc[n].pre = preHash[n]
       /\ pc[n] = "cut" => preHash[n] = Genesis \/ preHash[n].number < loc[n].block.number

LEMMA GrowInit == ASSUME Init PROVE GrowInv
BY FS_EmptySet DEF Init, GrowInv, Maker

\* A step that neither makes a block nor moves a head, nor changes what a distributor took
\* from its head.
Settled ==
  /\ UNCHANGED <<life, hight, preHash, made, makers>>
  /\ \A n \in Node :
       \/ pc'[n] = pc[n] /\ loc'[n].pre = loc[n].pre /\ loc'[n].block = loc[n].block
       \/ pc'[n] \notin {"read", "gather", "cut"}
       \/ pc'[n] = "read" /\ loc'[n].pre = preHash[n]
       \/ pc[n] = "read" /\ pc'[n] = "gather" /\ loc'[n].pre = loc[n].pre

LEMMA SettledKeeps == ASSUME GrowInv, Settled PROVE GrowInv'
BY DEF GrowInv, Settled, Maker

LEMMA DieIsSettled == ASSUME FlowInv, NEW n \in Node, Die(n) PROVE Settled
<1>1. UNCHANGED <<life, hight, preHash, made, makers>>
  BY DEF Die, head, past
<1>2. pc'[n] = "idle" /\ \A m \in Node : m # n => pc'[m] = pc[m] /\ loc'[m] = loc[m]
  BY DEF Die, Stop, FlowInv, RoundTypes
<1> QED
  BY <1>1, <1>2 DEF Settled

LEMMA DistributorIsSettled ==
  ASSUME FlowInv, NEW n \in Node,
         \/ StartDistribute(n) \/ AskForTxs(n) \/ SendToStores(n) \/ EndDistribute(n)
         \/ (\E s \in Store : JoinStore(n, s)) \/ (CutBlock(n) /\ Die(n))
  PROVE  Settled
<1>1. CASE StartDistribute(n)
  BY <1>1 DEF StartDistribute, Settled, proc, head, past, FlowInv, RoundTypes, LocalType
<1>2. CASE AskForTxs(n)
  BY <1>2 DEF AskForTxs, Settled, proc, head, past, FlowInv, RoundTypes, LocalType
<1>3. CASE SendToStores(n)
  BY <1>3 DEF SendToStores, Settled, proc, head, past, FlowInv, RoundTypes, LocalType
<1>4. CASE EndDistribute(n)
  BY <1>4 DEF EndDistribute, Settled, proc, head, past, FlowInv, RoundTypes
<1>5. ASSUME NEW s \in Store, JoinStore(n, s) PROVE Settled
  BY <1>5 DEF JoinStore, Settled, proc, head, past, FlowInv, RoundTypes, LocalType
<1> QED
  BY <1>1, <1>2, <1>3, <1>4, <1>5, DieIsSettled

LEMMA OtherIsSettled ==
  ASSUME FlowInv,
         \/ \E n, m \in Node : BecomeLeader(n) \/ DropPeer(n, m) \/ Timeout(n, m) \/ Retry(n, m)
         \/ \E n \in Node, s \in Store : InsertTx(n, s) \/ SaveStoreNode(n, s)
         \/ \E r \in req : \/ GetTxFromFollower(r) \/ Forward(r) \/ AnswerBlock(r)
                           \/ \E s \in Store : Forwarded(r, s)
  PROVE  Settled
<1>1. CASE UNCHANGED <<life, head, pc, loc, made, makers>>
  BY <1>1 DEF Settled, head
<1>2. CASE \E n \in Node : Die(n)
  BY <1>2, DieIsSettled
<1>3. \A r \in req : r.to \in Node
  BY RequestShape
<1> QED
  BY <1>1, <1>2, <1>3, ZenonT(60) DEF BecomeLeader, DropPeer, Timeout, Retry, InsertTx, SaveStoreNode,
     GetTxFromFollower, Forward, AnswerBlock, Forwarded, proc, past

\* What a process knows of its head when it is not being set.
LEMMA QuietHead ==
  ASSUME FlowInv, Chain, NEW n \in Node, up[n], pc[n] # "cut",
         \A r \in req : r.type = "block" /\ r.at = "hight" => r.to # n
  PROVE  NoHead(n) \/ \E b \in made : HasHead(n, b)
<1>1. HeadQuiet(n)
  BY DEF HeadQuiet, Busy, FlowInv, RequestTypes
<1> QED
  BY <1>1 DEF Chain, HeadsInv

\* The chain's counting is this module's.
LEMMA SameCount == Cardinality(made) = OneChain!Cardinality(made)
BY DEF Cardinality, OneChain!Cardinality

\* The block that is cut comes after all that were made.
LEMMA CutGrows ==
  ASSUME FlowInv, MakerInv, MakerInv', Chain, GrowInv, Undisturbed', NEW n \in Node, CutBlock(n), ~Die(n)
  PROVE  /\ GrowInv' /\ OneChain!Next
<1> DEFINE b == Block(loc[n].pre, loc[n].number, cached[n])
<1>1. /\ UNCHANGED <<up, life, preHash, req>> /\ pc[n] = "gather" /\ pc'[n] = "cut"
      /\ made' = made \cup {b} /\ makers' = makers \cup {<<n, life[n]>>}
      /\ loc'[n].block = b /\ hight'[n] = loc[n].number + 1 /\ cached[n] \in 1 .. MaxTx
  BY Bounds DEF CutBlock, proc, FlowInv, HeadTypes, RoundTypes, LocalType, InboxTypes
<1>2. \A m \in Node : m # n => pc'[m] = pc[m] /\ loc'[m] = loc[m] /\ hight'[m] = hight[m]
  BY DEF CutBlock, FlowInv, HeadTypes, RoundTypes
<1>3. makers' = {<<n, life[n]>>} /\ makers \subseteq {<<n, life[n]>>}
  <2>1. IsFiniteSet(makers') /\ Cardinality(makers') <= 1
    BY DEF MakerInv, Undisturbed
  <2>2. \A p, q \in makers' : p = q
    BY <2>1, Sole
  <2> QED
    BY <1>1, <2>2
<1>4. Cardinality(made) \in Nat /\ hight[n] \in Nat
  BY FS_CardinalityType, Bounds DEF GrowInv, FlowInv, HeadTypes
<1>5. loc[n].number = Cardinality(made) /\ loc[n].number = hight[n] /\ loc[n].pre = preHash[n]
  <2>1. loc[n].number = hight[n] /\ loc[n].pre = preHash[n]
    BY <1>1, <1>3 DEF Chain, HeadsInv, GrowInv
  <2>2. CASE makers = {}
    BY <2>1, <2>2, FS_EmptySet DEF Chain, HeadsInv, NoHead, GrowInv
  <2>3. CASE makers # {}
    BY <1>3, <2>1, <2>3 DEF Maker, GrowInv
  <2> QED
    BY <2>2, <2>3
<1>6. NoHead(n) \/ \E c \in made : HasHead(n, c)
  <2>1. \A r \in req : r.type = "block" => r.to # n
    BY <1>3 DEF Chain, SentInv
  <2>2. up[n]
    BY <1>1 DEF MakerInv
  <2> QED
    BY <1>1, <2>1, <2>2, QuietHead
<1>7. preHash[n] = OneChain!Last
  <2>1. CASE made = {}
    BY <1>6, <2>1 DEF NoHead, OneChain!Last
  <2>2. CASE made # {}
    <3>1. Cardinality(made) # 0
      BY <2>2, FS_EmptySet DEF GrowInv
    <3>2. PICK c \in made : HasHead(n, c)
      BY <1>5, <1>6, <3>1 DEF NoHead
    <3>3. c.number + 1 = Cardinality(made) /\ c = preHash[n]
      BY <1>5, <3>2 DEF HasHead
    <3>4. \A d \in made : d.number \in Nat
      BY Bounds DEF FlowInv, MadeTypes
    <3>5. \A d \in made : d.number + 1 = Cardinality(made) => d = c
      BY <3>3, <3>4 DEF GrowInv
    <3> QED
      BY <2>2, <3>3, <3>5, SameCount DEF OneChain!Last
  <2> QED
    BY <2>1, <2>2
<1>8. b = [pre |-> OneChain!Last, number |-> Cardinality(made), txs |-> cached[n]]
  BY <1>5, <1>7 DEF Block
<1>9. OneChain!Next
  BY <1>1, <1>8, SameCount DEF OneChain!Next, OneChain!Extend
<1> HIDE DEF b
<1>10. b.number = Cardinality(made)
  BY <1>8
<1>11. b \notin made
  BY <1>4, <1>10 DEF GrowInv
<1>12. IsFiniteSet(made') /\ Cardinality(made') = Cardinality(made) + 1
  BY <1>1, <1>11, FS_AddElement DEF GrowInv
<1>13. \A c \in made : c.number \in Nat
  BY Bounds DEF FlowInv, MadeTypes
<1>14. /\ \A c \in made' : c.number < Cardinality(made')
       /\ \A c, d \in made' : c.number = d.number => c = d
       /\ \E c \in made' : c.number + 1 = Cardinality(made')
  <2>1. \A c \in made : c.number \in Nat /\ c.number < Cardinality(made)
    BY <1>13 DEF GrowInv
  <2>2. \A c \in made' : c \in made \/ c = b
    BY <1>1
  <2>3. \A c \in made' : c.number \in Nat /\ c.number < Cardinality(made')
    BY <1>4, <1>10, <1>12, <2>1, <2>2
  <2>4. ASSUME NEW c \in made', NEW d \in made', c.number = d.number PROVE c = d
    BY <1>4, <1>10, <2>1, <2>2, <2>4 DEF GrowInv
  <2>5. b \in made' /\ b.number + 1 = Cardinality(made')
    BY <1>1, <1>10, <1>12
  <2> QED
    BY <2>3, <2>4, <2>5
<1>15. \A m \in Node : Maker(m)' => m = n
  BY <1>1, <1>3 DEF Maker
<1>16. preHash'[n] = Genesis \/ preHash'[n].number < b.number
  BY <1>1, <1>6, <1>10 DEF NoHead, HasHead, GrowInv
<1>17. \A m \in Node : /\ Maker(m)' => hight'[m] = Cardinality(made')
                       /\ makers' \subseteq {<<m, life'[m]>>} => m = n
  <2>1. hight'[n] = Cardinality(made')
    BY <1>1, <1>5, <1>12
  <2>2. \A m \in Node : makers' \subseteq {<<m, life'[m]>>} => m = n
    BY <1>3
  <2> QED
    BY <1>15, <2>1, <2>2
<1>18. \A m \in Node : pc'[m] = "cut" => preHash'[m] = Genesis \/ preHash'[m].number < loc'[m].block.number
  BY <1>1, <1>2, <1>16 DEF GrowInv
<1>19. \A m \in Node : pc'[m] \in {"read", "gather"} /\ makers' \subseteq {<<m, life'[m]>>} => FALSE
  BY <1>1, <1>17
<1> QED
  BY <1>9, <1>12, <1>14, <1>17, <1>18, <1>19, <1>3 DEF GrowInv

LEMMA SendGrows ==
  ASSUME FlowInv, MakerInv, Chain, GrowInv, Undisturbed, NEW n \in Node, SendBlock(n)
  PROVE  GrowInv' /\ OneChain!Next
<1>1. /\ UNCHANGED <<life, hight, made, makers, loc>> /\ pc[n] = "cut" /\ pc'[n] = "send"
      /\ preHash' = [preHash EXCEPT ![n] = loc[n].block] /\ loc[n].block \in made
      /\ \A m \in Node : m # n => pc'[m] = pc[m] /\ preHash'[m] = preHash[m]
  BY DEF SendBlock, FlowInv, RoundTypes, HeadTypes, past, proc
<1>2. Maker(n)
  BY <1>1 DEF MakerInv
<1>3. \A m \in Node : makers \subseteq {<<m, life[m]>>} \/ Maker(m) => m = n
  BY <1>2, Sole DEF MakerInv, Undisturbed, Maker
<1>4. \A m \in Node : m # n => pc[m] # "cut"
  BY <1>3 DEF MakerInv
<1>5. GrowInv'
  <2>1. \A m \in Node : Maker(m)' = Maker(m)
    BY <1>1 DEF Maker
  <2>2. \A m \in Node : pc'[m] # "cut"
    BY <1>1, <1>4
  <2>3. \A m \in Node : pc'[m] \in {"read", "gather"} => ~(makers' \subseteq {<<m, life'[m]>>})
    BY <1>1, <1>3
  <2> QED
    BY <1>1, <2>1, <2>2, <2>3 DEF GrowInv
<1>6. OneChain!Adopt(n, loc[n].block)
  BY <1>1 DEF GrowInv, OneChain!Adopt
<1> QED
  BY <1>1, <1>5, <1>6 DEF OneChain!Next

\* The worker of a block: the maker is another node.
LEMMA AdoptGrows ==
  ASSUME FlowInv, MakerInv, Chain, GrowInv, Undisturbed, NEW r \in req, SetPreHash(r)
  PROVE  GrowInv' /\ (OneChain!Next \/ UNCHANGED <<made, preHash, life>>)
<1>1. /\ UNCHANGED <<up, life, hight, made, makers, pc, loc>> /\ up[r.to]
      /\ r.type = "block" /\ r.at = "sent"
      /\ preHash' = [preHash EXCEPT ![r.to] = r.block]
  BY DEF SetPreHash, proc, past
<1>2. /\ r.to \in Node /\ r.block \in made /\ <<r.from, r.life>> \in makers /\ r.from # r.to
      /\ \A n \in Node : Maker(n) => n # r.to
      /\ \A q \in req : q.type = "block" /\ q.to = r.to => q = r
  BY <1>1, WorkerAlone
<1>3. pc[r.to] # "cut" /\ ~(makers \subseteq {<<r.to, life[r.to]>>})
  BY <1>2 DEF MakerInv
<1>4. \A n \in Node : n # r.to => preHash'[n] = preHash[n]
  BY <1>1 DEF FlowInv, HeadTypes
<1>5. GrowInv'
  <2>1. \A m \in Node : Maker(m)' = Maker(m)
    BY <1>1 DEF Maker
  <2> QED
    BY <1>1, <1>3, <1>4, <2>1 DEF GrowInv
<1>6. NoHead(r.to) \/ \E b \in made : HasHead(r.to, b)
  BY <1>1, <1>2, <1>3, QuietHead
<1>7. CASE NoHead(r.to)
  BY <1>1, <1>2, <1>5, <1>7 DEF NoHead, OneChain!Next, OneChain!Adopt
<1>8. ASSUME NEW b \in made, HasHead(r.to, b) PROVE OneChain!Next \/ UNCHANGED <<made, preHash, life>>
  <2>1. b.number \in Nat /\ r.block.number \in Nat
    BY <1>2, Bounds DEF FlowInv, MadeTypes
  <2>2. b.number <= r.block.number /\ preHash[r.to] = b
    <3>1. preHash[r.to] = b /\ hight[r.to] = b.number + 1
      BY <1>8 DEF HasHead
    <3>2. hight[r.to] <= r.block.number + 1
      BY <1>1 DEF Chain, SentInv
    <3> QED
      BY <2>1, <3>1, <3>2
  <2>3. CASE b.number = r.block.number
    <3>1. r.block = b
      BY <1>2, <2>3 DEF GrowInv
    <3> QED
      BY <1>1, <1>2, <2>2, <3>1 DEF FlowInv, HeadTypes
  <2>4. CASE b.number # r.block.number
    <3>1. preHash[r.to].number < r.block.number
      BY <2>1, <2>2, <2>4
    <3> QED
      BY <1>1, <1>2, <3>1 DEF OneChain!Next, OneChain!Adopt
  <2> QED
    BY <2>3, <2>4
<1> QED
  BY <1>5, <1>6, <1>7, <1>8

LEMMA HeightGrows ==
  ASSUME FlowInv, MakerInv, Chain, GrowInv, Undisturbed, NEW r \in req, SetHight(r)
  PROVE  GrowInv' /\ UNCHANGED <<made, preHash, life>>
<1>1. /\ UNCHANGED <<life, made, makers, pc, loc, preHash>> /\ r.at = "hight"
      /\ hight' = [hight EXCEPT ![r.to] = r.block.number + 1]
  BY DEF SetHight, proc, past
<1>2. r.type = "block"
  BY <1>1 DEF FlowInv, RequestTypes
<1>3. r.to \in Node /\ \A n \in Node : Maker(n) => n # r.to
  BY <1>2, WorkerAlone
<1>4. \A n \in Node : Maker(n) => hight'[n] = hight[n]
  BY <1>1, <1>3 DEF FlowInv, HeadTypes
<1> QED
  BY <1>1, <1>4 DEF GrowInv, Maker

LEMMA RestartGrows ==
  ASSUME FlowInv, MakerInv, GrowInv, NEW n \in Node, Restart(n)
  PROVE  GrowInv' /\ OneChain!Next
<1>1. /\ UNCHANGED <<made, makers>> /\ pc'[n] = "idle"
      /\ life' = [life EXCEPT ![n] = @ + 1] /\ preHash' = [preHash EXCEPT ![n] = Genesis]
      /\ life'[n] = life[n] + 1 /\ life[n] \in Nat
      /\ \A m \in Node : m # n => /\ pc'[m] = pc[m] /\ loc'[m] = loc[m] /\ life'[m] = life[m]
                                  /\ hight'[m] = hight[m] /\ preHash'[m] = preHash[m]
  BY Bounds DEF Restart, Stop, past, FlowInv, RoundTypes, ProcTypes, HeadTypes
<1>2. ~Maker(n)' /\ \A m \in Node : m # n => Maker(m)' = Maker(m)
  BY <1>1 DEF Maker, MakerInv
<1>3. OneChain!Next
  BY <1>1 DEF OneChain!Next, OneChain!Forget
<1> QED
  BY <1>1, <1>2, <1>3 DEF GrowInv

LEMMA GrowStep ==
  ASSUME FlowInv, ChainInv, GrowInv, Undisturbed', [Next]_vars
  PROVE  GrowInv' /\ [OneChain!Next]_(OneChain!vars)
<1>1. MakerInv /\ MakerInv' /\ Undisturbed /\ Chain
  BY MakersStep, PastGrows, UndisturbedBefore DEF ChainInv
<1>2. CASE Settled
  BY <1>2, SettledKeeps DEF Settled, OneChain!vars
<1>3. CASE UNCHANGED vars
  BY <1>2, <1>3 DEF Settled, vars, proc, head, past
<1>4. ASSUME NEW n \in Node, Distribute(n) PROVE GrowInv' /\ [OneChain!Next]_(OneChain!vars)
  <2>1. CASE CutBlock(n) /\ ~Die(n)
    BY <1>1, <2>1, CutGrows
  <2>2. CASE SendBlock(n)
    BY <1>1, <2>2, SendGrows
  <2> QED
    BY <1>2, <1>4, <2>1, <2>2, DistributorIsSettled DEF Distribute
<1>5. ASSUME NEW n \in Node, Restart(n) PROVE GrowInv' /\ [OneChain!Next]_(OneChain!vars)
  BY <1>1, <1>5, RestartGrows
<1>6. ASSUME NEW r \in req, SetPreHash(r) PROVE GrowInv' /\ [OneChain!Next]_(OneChain!vars)
  BY <1>1, <1>6, AdoptGrows DEF OneChain!vars
<1>7. ASSUME NEW r \in req, SetHight(r) PROVE GrowInv' /\ [OneChain!Next]_(OneChain!vars)
  BY <1>1, <1>7, HeightGrows DEF OneChain!vars
<1> QED
  BY <1>2, <1>3, <1>4, <1>5, <1>6, <1>7, OtherIsSettled, ZenonT(60) DEF Next, SendBlockToOtherNode

\* ChainGrows: while one process makes the blocks and no request is sent twice, all blocks
\* are one chain that grows at its end, and each living process's head only moves forward in
\* it.
THEOREM TheChainGrows == Spec => ChainGrows
<1> DEFINE Inv == FlowInv /\ ChainInv /\ (Undisturbed => GrowInv)
<1>1. Init => Inv /\ OneChain!Init
  BY FlowInvInit, ChainInit, GrowInit DEF Init, OneChain!Init
<1>2. Inv /\ [Next]_vars => Inv' /\ (Undisturbed' => [OneChain!Next]_(OneChain!vars))
  <2> SUFFICES ASSUME Inv, [Next]_vars
               PROVE  Inv' /\ (Undisturbed' => [OneChain!Next]_(OneChain!vars))
    OBVIOUS
  <2>1. FlowInv' /\ ChainInv'
    BY FlowInvStep, ChainStep
  <2>2. Undisturbed' => Undisturbed
    BY MakersStep, PastGrows, UndisturbedBefore DEF ChainInv
  <2>3. Undisturbed' => GrowInv' /\ [OneChain!Next]_(OneChain!vars)
    BY <2>2, GrowStep
  <2> QED
    BY <2>1, <2>3
<1> QED
  BY <1>1, <1>2, PTL DEF Spec, ChainGrows

\* ChainSpec: while one process makes the blocks and no request is sent twice, all blocks are
\* one chain that grows at its end, and each living process's head only moves forward in it.
THEOREM OneMakerOneChain == OneMakerSpec => ChainSpec
<1> DEFINE Inv == FlowInv /\ ChainInv /\ GrowInv
<1>1. Init => Inv /\ OneChain!Init
  BY FlowInvInit, ChainInit, GrowInit DEF Init, OneChain!Init
<1>2. Inv /\ [Next /\ Undisturbed']_vars => Inv' /\ [OneChain!Next]_(OneChain!vars)
  <2>1. Inv /\ UNCHANGED vars => Inv' /\ [OneChain!Next]_(OneChain!vars)
    BY FlowInvStep, ChainStep, SettledKeeps
       DEF vars, proc, head, past, Settled, OneChain!vars
  <2>2. Inv /\ Next /\ Undisturbed' => Inv' /\ [OneChain!Next]_(OneChain!vars)
    BY FlowInvStep, ChainStep, GrowStep
  <2> QED
    BY <2>1, <2>2
<1> QED
  BY <1>1, <1>2, PTL DEF OneMakerSpec, ChainSpec, OneChain!Spec

-----------------------------------------------------------------------------
(***************************************************************************)
(* Leaders of nobody.  Without a peer no call is made, so that a           *)
(* distributor finds its own head as it left it.                           *)
(***************************************************************************)
OwnHead(n) == \/ NoHead(n)
              \/ role[n] = "LEADER" /\ \E b \in made : HasHead(n, b)
Island(n) ==
  /\ pc[n] # "idle" => up[n] /\ role[n] = "LEADER"
  /\ pc[n] \in {"read", "gather"} => loc[n].pre = preHash[n]
  /\ pc[n] = "gather" => loc[n].number = hight[n]
  /\ pc[n] = "cut" => hight[n] = loc[n].block.number + 1
  /\ up[n] /\ pc[n] # "cut" => OwnHead(n)
  /\ \A m \in Node : call[n][m] # "open"

Linked(b) == \/ b.pre = Genesis /\ b.number = 0
             \/ b.pre \in made /\ b.number = b.pre.number + 1

IslandInv == /\ NobodyLed /\ req = {}
             /\ \A n \in Node : Island(n)
             /\ \A b \in made : Linked(b)

LEMMA IslandInit == ASSUME Init, NobodyLed PROVE IslandInv
BY DEF Init, IslandInv, Island, OwnHead, NoHead, NoCall

\* Nothing that Island says of n has changed.
Untouched(n) ==
  /\ up'[n] = up[n] /\ role'[n] = role[n] /\ pc'[n] = pc[n] /\ call'[n] = call[n]
  /\ hight'[n] = hight[n] /\ preHash'[n] = preHash[n]
  /\ loc'[n].pre = loc[n].pre /\ loc'[n].number = loc[n].number /\ loc'[n].block = loc[n].block

LEMMA UntouchedKeeps ==
  ASSUME NEW n \in Node, Island(n), Untouched(n), made \subseteq made'
  PROVE  Island(n)'
BY DEF Island, Untouched, OwnHead, NoHead, HasHead

\* A step of n, which leaves the others alone, and the blocks.
LEMMA IslandStep ==
  ASSUME FlowInv, IslandInv, NobodyLed', NEW n \in Node, Island(n)',
         \A m \in Node : m # n => Untouched(m), UNCHANGED made, req' = {}
  PROVE  IslandInv'
<1>1. \A m \in Node : Island(m)'
  BY UntouchedKeeps DEF IslandInv
<1>2. \A b \in made : Linked(b)'
  BY DEF IslandInv, Linked
<1> QED
  BY <1>1, <1>2 DEF IslandInv

LEMMA IslandDies ==
  ASSUME FlowInv, IslandInv, NobodyLed', NEW n \in Node, Die(n), req' = {}
  PROVE  IslandInv'
<1>1. Island(n)'
  BY DEF Die, Stop, NoCall, Island, FlowInv, ProcTypes, RoundTypes
<1>2. \A m \in Node : m # n => Untouched(m)
  BY DEF Die, Stop, Untouched, head, FlowInv, ProcTypes, RoundTypes
<1> QED
  BY <1>1, <1>2, IslandStep DEF Die, past

LEMMA IslandRestarts ==
  ASSUME FlowInv, IslandInv, NobodyLed', NEW n \in Node, Restart(n)
  PROVE  IslandInv'
<1>1. Island(n)'
  BY DEF Restart, Stop, NoCall, Island, OwnHead, NoHead, FlowInv, ProcTypes, RoundTypes, HeadTypes
<1>2. \A m \in Node : m # n => Untouched(m)
  BY DEF Restart, Stop, Untouched, FlowInv, ProcTypes, RoundTypes, HeadTypes
<1> QED
  BY <1>1, <1>2, IslandStep DEF Restart, past, IslandInv, Busy

\* What moves neither a distributor nor a head.
LEMMA IslandQuiet ==
  ASSUME FlowInv, IslandInv, NobodyLed', NEW n \in Node,
         \/ BecomeLeader(n)
         \/ \E m \in Node : DropPeer(n, m)
         \/ \E s \in Store : InsertTx(n, s) \/ SaveStoreNode(n, s)
  PROVE  IslandInv'
<1>1. CASE BecomeLeader(n)
  <2>1. Island(n)'
    BY <1>1 DEF BecomeLeader, Island, OwnHead, NoHead, HasHead, head, past, IslandInv, FlowInv, ProcTypes
  <2>2. \A m \in Node : m # n => Untouched(m)
    BY <1>1 DEF BecomeLeader, Untouched, head, FlowInv, ProcTypes
  <2> QED
    BY <1>1, <2>1, <2>2, IslandStep DEF BecomeLeader, past, IslandInv
<1>2. CASE UNCHANGED <<up, role, head, pc, loc, call, req, made>>
  <2>1. \A m \in Node : Untouched(m)
    BY <1>2 DEF Untouched, head
  <2> QED
    BY <1>2, <2>1, UntouchedKeeps, IslandStep DEF IslandInv
<1>3. CASE Die(n) /\ req' = req \ Busy(n)
  BY <1>3, IslandDies DEF IslandInv
<1> QED
  BY <1>1, <1>2, <1>3 DEF DropPeer, InsertTx, SaveStoreNode, proc, past

\* The distributor of a LEADER, who has no peer: it asks nobody and sends to nobody.
LEMMA IslandDistributes ==
  ASSUME FlowInv, IslandInv, NobodyLed', NEW n \in Node, Distribute(n), ~CutBlock(n)
  PROVE  IslandInv'
<1>1. Island(n)
  BY DEF IslandInv
<1>2. CASE StartDistribute(n)
  <2>1. Island(n)'
    BY <1>1, <1>2 DEF StartDistribute, Island, OwnHead, NoHead, HasHead, head, proc, past, FlowInv, RoundTypes
  <2>2. \A m \in Node : m # n => Untouched(m)
    BY <1>2 DEF StartDistribute, Untouched, head, proc, FlowInv, RoundTypes
  <2> QED
    BY <1>2, <2>1, <2>2, IslandStep DEF StartDistribute, past, IslandInv
<1>3. CASE AskForTxs(n)
  <2>1. peers[n] = {}
    BY <1>1, <1>3 DEF AskForTxs, Island, IslandInv, NobodyLed
  <2>2. Island(n)'
    BY <1>1, <1>3, <2>1 DEF AskForTxs, Open, Island, OwnHead, NoHead, HasHead, head, proc, past,
                            FlowInv, RoundTypes, LocalType
  <2>3. \A m \in Node : m # n => Untouched(m)
    BY <1>3 DEF AskForTxs, Untouched, head, proc, FlowInv, RoundTypes
  <2> QED
    BY <1>3, <2>1, <2>2, <2>3, IslandStep DEF AskForTxs, past, IslandInv
<1>4. CASE SendBlock(n)
  <2>1. peers[n] = {}
    BY <1>1, <1>4 DEF SendBlock, Island, IslandInv, NobodyLed
  <2>2. HasHead(n, loc[n].block)' /\ loc[n].block \in made
    BY <1>1, <1>4 DEF SendBlock, HasHead, Island, FlowInv, RoundTypes, HeadTypes
  <2>3. Island(n)'
    BY <1>1, <1>4, <2>1, <2>2 DEF SendBlock, Open, Island, OwnHead, HasHead, proc, past, FlowInv, RoundTypes
  <2>4. \A m \in Node : m # n => Untouched(m)
    BY <1>4 DEF SendBlock, Untouched, proc, FlowInv, RoundTypes, HeadTypes
  <2> QED
    BY <1>4, <2>1, <2>3, <2>4, IslandStep DEF SendBlock, past, IslandInv
<1>5. CASE SendToStores(n)
  <2>1. Island(n)'
    BY <1>1, <1>5 DEF SendToStores, NoCall, Island, OwnHead, NoHead, HasHead, head, proc, past, FlowInv, RoundTypes
  <2>2. \A m \in Node : m # n => Untouched(m)
    BY <1>5 DEF SendToStores, Untouched, head, proc, FlowInv, RoundTypes
  <2> QED
    BY <1>5, <2>1, <2>2, IslandStep DEF SendToStores, past, IslandInv
<1>6. ASSUME NEW s \in Store, JoinStore(n, s) PROVE IslandInv'
  <2>1. ASSUME NEW x, NEW y, NEW m \in Node, \/ loc' = [loc EXCEPT ![n].asked = x]
                                             \/ loc' = [loc EXCEPT ![n].asked = x, ![n].failed = y]
        PROVE  Untouched(m)
    <3>1. loc'[m].pre = loc[m].pre /\ loc'[m].number = loc[m].number /\ loc'[m].block = loc[m].block
      <4>1. loc \in [Node -> LocalType] /\ loc[m] \in LocalType
        BY DEF FlowInv, RoundTypes
      <4>2. CASE m # n
        BY <2>1, <4>1, <4>2
      <4>3. CASE m = n /\ loc' = [loc EXCEPT ![n].asked = x]
        BY <4>1, <4>3 DEF LocalType
      <4>4. CASE m = n /\ loc' = [loc EXCEPT ![n].asked = x, ![n].failed = y]
        BY <4>1, <4>4 DEF LocalType
      <4> QED
        BY <2>1, <4>2, <4>3, <4>4
    <3> QED
      BY <1>6, <3>1 DEF JoinStore, Untouched, head, proc
  <2>2. \A m \in Node : Untouched(m)
    BY <1>6, <2>1, Zenon DEF JoinStore
  <2> QED
    BY <1>6, <2>2, UntouchedKeeps, IslandStep DEF JoinStore, past, IslandInv
<1>7. CASE EndDistribute(n)
  <2>1. Island(n)'
    BY <1>1, <1>7 DEF EndDistribute, Island, OwnHead, NoHead, HasHead, head, proc, past, FlowInv, RoundTypes
  <2>2. \A m \in Node : m # n => Untouched(m)
    BY <1>7 DEF EndDistribute, Untouched, head, proc, FlowInv, RoundTypes
  <2> QED
    BY <1>7, <2>1, <2>2, IslandStep DEF EndDistribute, past, IslandInv
<1> QED
  BY <1>2, <1>3, <1>4, <1>5, <1>6, <1>7 DEF Distribute

\* The next block is made on the head the distributor has read.
LEMMA IslandCuts ==
  ASSUME FlowInv, IslandInv, NobodyLed', NEW n \in Node, CutBlock(n), ~Die(n)
  PROVE  IslandInv'
<1> DEFINE b == Block(loc[n].pre, loc[n].number, cached[n])
<1>1. /\ pc[n] = "gather" /\ made' = made \cup {b} /\ req' = {}
      /\ loc' = [loc EXCEPT ![n].block = b] /\ hight' = [hight EXCEPT ![n] = loc[n].number + 1]
      /\ pc' = [pc EXCEPT ![n] = "cut"] /\ call' = [call EXCEPT ![n] = NoCall]
      /\ UNCHANGED <<up, role, preHash>>
  BY DEF CutBlock, proc, IslandInv
<1>2. loc[n].pre = preHash[n] /\ loc[n].number = hight[n] /\ OwnHead(n) /\ up[n] /\ role[n] = "LEADER"
  BY <1>1 DEF IslandInv, Island
<1>3. b.pre = loc[n].pre /\ b.number = loc[n].number
  BY DEF Block
<1>4. (b.pre = Genesis /\ b.number = 0) \/ (b.pre \in made' /\ b.number = b.pre.number + 1)
  BY <1>1, <1>2, <1>3 DEF OwnHead, NoHead, HasHead
<1>5. \A c \in made' : Linked(c)'
  <2>1. ASSUME NEW c \in made PROVE Linked(c)'
    BY <1>1, <2>1 DEF IslandInv, Linked
  <2>2. ASSUME NEW c, c = b PROVE Linked(c)'
    BY <1>4, <2>2 DEF Linked
  <2> QED
    BY <1>1, <2>1, <2>2
<1>6. Island(n)'
  <2>1. pc'[n] = "cut" /\ loc'[n].block = b /\ hight'[n] = loc[n].number + 1 /\ call'[n] = NoCall
    BY <1>1 DEF FlowInv, RoundTypes, LocalType, HeadTypes
  <2> QED
    BY <1>1, <1>2, <1>3, <2>1 DEF Island, NoCall
<1>7. \A m \in Node : m # n => Island(m)'
  <2>1. \A m \in Node : m # n => Untouched(m)
    BY <1>1 DEF Untouched, FlowInv, RoundTypes, HeadTypes
  <2> QED
    BY <1>1, <2>1, UntouchedKeeps DEF IslandInv
<1> QED
  BY <1>1, <1>5, <1>6, <1>7 DEF IslandInv

LEMMA IslandNext == ASSUME FlowInv, IslandInv, NobodyLed', Next PROVE IslandInv'
<1>1. ASSUME NEW n \in Node, CutBlock(n), Die(n) PROVE IslandInv'
  BY <1>1, IslandDies DEF CutBlock, IslandInv, proc, Die
<1>2. ~\E n, m \in Node : Timeout(n, m) \/ Retry(n, m)
  BY DEF Timeout, Retry, IslandInv, Island
<1>3. req = {}
  BY DEF IslandInv
<1> QED
  BY <1>1, <1>2, <1>3, IslandDistributes, IslandCuts, IslandRestarts, IslandQuiet DEF Next

\* EachItsOwn: where LEADERs are LEADERs of nobody, which LeadersAlone in RaftProofs shows of
\* the election, blocks reach no other node, and every LEADER's blocks are a whole chain of
\* its own, with any number of them at work.
THEOREM AloneEachItsOwn == AloneSpec => []EachItsOwn
<1>1. Init /\ NobodyLed => FlowInv /\ IslandInv
  BY FlowInvInit, IslandInit
<1>2. FlowInv /\ IslandInv /\ [Next /\ NobodyLed']_vars => (FlowInv /\ IslandInv)'
  <2>1. FlowInv /\ IslandInv /\ UNCHANGED vars => (FlowInv /\ IslandInv)'
    BY FlowInvStep, UntouchedKeeps
       DEF vars, proc, head, past, Untouched, IslandInv, NobodyLed, Linked
  <2> QED
    BY <2>1, FlowInvStep, IslandNext
<1>3. Init => NobodyLed
  BY DEF Init, NobodyLed
<1>4. FlowInv /\ IslandInv => EachItsOwn
  BY DEF IslandInv, Island, OwnHead, NoHead, HasHead, Linked, EachItsOwn
<1> QED
  BY <1>1, <1>2, <1>3, <1>4, PTL DEF AloneSpec
=============================================================================
