---------------------------- MODULE StoreProofs ----------------------------
(***************************************************************************)
(* Theorems about StoreNode, for every set of keys, values, blocks, files  *)
(* and nodes.  The world state moves as VersionedStore says; a block that  *)
(* is in it twice had a block in between that did not read what it wrote;  *)
(* and unreceived_before skips nobody.                                     *)
(***************************************************************************)
EXTENDS StoreNode, Numbers

\* What a step of the composed system is to the state and its recovery.
Step == Start \/ Recover \/ Fault \/ Flush \/ UNCHANGED vars

LEMMA StepIsStep == ASSUME [NodeNext]_all PROVE Step
BY DEF NodeNext, Recovers, Fails, Serves, OtherNode, Asks, all, Step

\* Blocks are what BlockAssumption says.
LEMMA BlockShape ==
  ASSUME NEW b \in Block
  PROVE  /\ b.number \in Nat
         /\ Len(b.txs) \in Nat /\ DOMAIN b.txs = 1..Len(b.txs)
         /\ \A t \in DOMAIN b.txs :
              /\ Len(b.txs[t].rd) \in Nat /\ DOMAIN b.txs[t].rd = 1..Len(b.txs[t].rd)
              /\ \A r \in DOMAIN b.txs[t].rd :
                   b.txs[t].rd[r].key \in Key /\ b.txs[t].rd[r].entry.number \in Nat
<1>1. b \in [number : Nat, txs : Seq(Transaction)]
  BY BlockAssumption
<1>2. b.number \in Nat /\ b.txs \in Seq(Transaction)
  BY <1>1
<1>3. Len(b.txs) \in Nat /\ DOMAIN b.txs = 1..Len(b.txs)
  BY <1>2
<1>4. ASSUME NEW t \in DOMAIN b.txs
      PROVE  /\ Len(b.txs[t].rd) \in Nat /\ DOMAIN b.txs[t].rd = 1..Len(b.txs[t].rd)
             /\ \A r \in DOMAIN b.txs[t].rd :
                  b.txs[t].rd[r].key \in Key /\ b.txs[t].rd[r].entry.number \in Nat
  <2>1. b.txs[t] \in Transaction
    BY <1>2, <1>3, <1>4
  <2>2. b.txs[t].rd \in Seq(KeyEntry)
    BY <2>1 DEF Transaction
  <2>3. Len(b.txs[t].rd) \in Nat /\ DOMAIN b.txs[t].rd = 1..Len(b.txs[t].rd)
    BY <2>2
  <2>4. ASSUME NEW r \in DOMAIN b.txs[t].rd
        PROVE  b.txs[t].rd[r].key \in Key /\ b.txs[t].rd[r].entry.number \in Nat
    <3>1. b.txs[t].rd[r] \in KeyEntry
      BY <2>2, <2>3, <2>4
    <3> QED
      BY <3>1 DEF KeyEntry, Entry
  <2> QED
    BY <2>3, <2>4
<1> QED
  BY <1>2, <1>3, <1>4

-----------------------------------------------------------------------------
(***************************************************************************)
(* The scan of handle_block: what it has passed over is still current, for *)
(* nothing else writes the state while it runs.                            *)
(***************************************************************************)
Passed(t, r) == t < tx \/ (t = tx /\ r < rd)

ScanInv ==
  pc = "read" =>
    /\ block \in Block /\ tx \in Nat /\ rd \in Nat
    /\ \A t \in DOMAIN block.txs : \A r \in DOMAIN block.txs[t].rd :
         Passed(t, r) => db[block.txs[t].rd[r].key] = block.txs[t].rd[r].entry

LEMMA ScanInit == ASSUME NodeInit PROVE ScanInv
BY DEF NodeInit, Init, ScanInv

LEMMA ScanStep == ASSUME ScanInv, Step PROVE ScanInv'
<1> USE DEF ScanInv
<1>1. CASE Start
  BY <1>1 DEF Start
<1>2. CASE ReadFile
  BY <1>2 DEF ReadFile
<1>3. CASE ParseBlock
  <2>1. block' \in Block /\ tx' = 1 /\ rd' = 1
    BY <1>3 DEF ParseBlock
  <2>2. ASSUME NEW t \in DOMAIN block'.txs, NEW r \in DOMAIN block'.txs[t].rd PROVE ~Passed(t, r)'
    BY <2>1, <2>2, BlockShape DEF Passed
  <2> QED
    BY <2>1, <2>2
<1>4. CASE ReadMatches
  <2>1. /\ pc = "read" /\ InReads /\ Matches /\ rd' = rd + 1
        /\ UNCHANGED <<pc, db, block, tx>>
    BY <1>4 DEF ReadMatches, state
  <2>2. ASSUME NEW t \in DOMAIN block.txs, NEW r \in DOMAIN block.txs[t].rd, Passed(t, r)'
        PROVE  Passed(t, r) \/ (t = tx /\ r = rd)
    BY <2>1, <2>2, BlockShape DEF Passed
  <2> QED
    BY <2>1, <2>2 DEF Matches
<1>5. CASE NextTx
  <2>1. /\ pc = "read" /\ InTx /\ ~InReads /\ tx' = tx + 1 /\ rd' = 1
        /\ UNCHANGED <<pc, db, block>>
    BY <1>5 DEF NextTx, state
  <2>2. ASSUME NEW t \in DOMAIN block.txs, NEW r \in DOMAIN block.txs[t].rd, Passed(t, r)'
        PROVE  Passed(t, r)
    BY <2>1, <2>2, BlockShape DEF Passed, InReads, InTx
  <2> QED
    BY <2>1, <2>2
<1>6. CASE Reject
  BY <1>6 DEF Reject
<1>7. CASE Apply
  BY <1>7 DEF Apply
<1>8. CASE Finish
  BY <1>8 DEF Finish
<1>9. CASE PoolFull \/ StackOverflow \/ Fault
  BY <1>9 DEF PoolFull, StackOverflow, Fault, Crash, PowerLoss, Gone
<1>10. CASE Flush
  BY <1>10 DEF Flush, place, Passed
<1>11. CASE UNCHANGED vars
  BY <1>11 DEF vars, state, place, Passed
<1> QED
  BY <1>1, <1>2, <1>3, <1>4, <1>5, <1>6, <1>7, <1>8, <1>9, <1>10, <1>11 DEF Step, Recover

\* When the scan has come to its end every read of the block is current.
LEMMA AppliedIsCurrent == ASSUME ScanInv, Apply PROVE block \in Block /\ Current(block, db)
<1>1. pc = "read" /\ ~InTx /\ block \in Block /\ tx \in Nat /\ rd \in Nat
  BY DEF ScanInv, Apply
<1>2. ASSUME NEW t \in DOMAIN block.txs, NEW r \in DOMAIN block.txs[t].rd PROVE Passed(t, r)
  BY <1>1, <1>2, BlockShape, SMTT(60) DEF InTx, Passed
<1> QED
  BY <1>1, <1>2 DEF ScanInv, Current

\* A step of the store node is one of VersionedStore, or leaves its variables alone.
LEMMA StoreStep == ASSUME ScanInv, Step PROVE [Store!Next]_(Store!vars)
<1> USE DEF Store!Next, Store!vars
<1>1. CASE Apply
  <2>1. Store!Commit(block) /\ block \in Block
    BY <1>1, AppliedIsCurrent, Zenon DEF Apply, Store!Commit, Store!Current, Current, Store!Written, Written,
       Store!Writes, Writes, Store!LastWrite, LastWrite
  <2> QED
    BY <2>1
<1>2. CASE PowerLoss
  BY <1>2 DEF PowerLoss, Store!Lose
<1>3. CASE Flush
  BY <1>3 DEF Flush, Store!Keep
<1>4. CASE Start \/ ReadFile \/ ParseBlock \/ ReadMatches \/ Reject \/ NextTx \/ Finish
             \/ PoolFull \/ StackOverflow \/ Crash \/ UNCHANGED vars
  BY <1>4 DEF Start, ReadFile, ParseBlock, ReadMatches, Reject, NextTx, Finish, PoolFull, StackOverflow,
     Crash, vars, state
<1> QED
  BY <1>1, <1>2, <1>3, <1>4 DEF Step, Recover, Fault

\* StoreSpec: whatever the files parse as, and wherever the process or the machine dies,
\* the world state changes by whole blocks whose reads were current.
THEOREM StoreImplemented == NodeSpec => StoreSpec
<1>1. NodeInit => Store!Init
  BY DEF NodeInit, Init, Store!Init, Store!Absent, Absent
<1>2. NodeInit => ScanInv
  BY ScanInit
<1>3. ScanInv /\ [NodeNext]_all => ScanInv'
  BY ScanStep, StepIsStep
<1>4. ScanInv /\ [NodeNext]_all => [Store!Next]_(Store!vars)
  BY StoreStep, StepIsStep
<1> QED
  BY <1>1, <1>2, <1>3, <1>4, PTL DEF NodeSpec, StoreSpec, Store!Spec

-----------------------------------------------------------------------------
(***************************************************************************)
(* Replays.  A forward block raises the number of every key it writes, so  *)
(* as long as only such blocks follow, a key keeps at least the number of  *)
(* the block that wrote it (Ranked), and that block's reads, which are     *)
(* older, are not current again.                                           *)
(***************************************************************************)
ForwardFrom(l, i) == \A m \in i..Len(l) : Forward(l[m])

Ranked(l, d) ==
  \A i \in DOMAIN l : ForwardFrom(l, i) =>
     \A k \in Key : Writes(l[i], k) # {} => l[i].number <= d[k].number

Explained(l) ==
  \A j \in DOMAIN l : \A i \in 1..(j - 1) : l[i] = l[j] => \E k \in i..j : ~Forward(l[k])

History(l, d) ==
  /\ l \in Seq(Block)
  /\ \A k \in Key : d[k].number \in Nat
  /\ Ranked(l, d) /\ Explained(l)

ReplayInv == History(log, db) /\ History(diskLog, disk)

\* Where b writes, the state has an older number than b, if b is forward and current.
LEMMA ForwardIsNewer ==
  ASSUME NEW b \in Block, NEW d, Current(b, d), Forward(b),
         NEW k \in Key, Writes(b, k) # {}
  PROVE  d[k].number < b.number
<1>1. PICK t \in DOMAIN b.txs : \E r \in DOMAIN b.txs[t].rd :
         b.txs[t].rd[r].key = k /\ b.txs[t].rd[r].entry.number < b.number
  BY DEF Forward
<1>2. PICK r \in DOMAIN b.txs[t].rd :
         b.txs[t].rd[r].key = k /\ b.txs[t].rd[r].entry.number < b.number
  BY <1>1
<1>3. d[b.txs[t].rd[r].key] = b.txs[t].rd[r].entry
  BY DEF Current
<1> QED
  BY <1>2, <1>3

\* What the batch of b leaves in k carries b's number, or is what was there.
LEMMA WrittenNumber ==
  ASSUME NEW b \in Block, NEW d, NEW k \in Key
  PROVE  Written(b, d)[k].number = IF Writes(b, k) = {} THEN d[k].number ELSE b.number
BY DEF Written

\* A block that is applied keeps the history explained.
LEMMA ApplyKeepsHistory ==
  ASSUME NEW l, NEW d, History(l, d), NEW b \in Block, Current(b, d), ~WritesNothing(b)
  PROVE  History(Append(l, b), Written(b, d))
<1> DEFINE e == Written(b, d)
           h == Append(l, b)
<1>1. /\ l \in Seq(Block) /\ Len(l) \in Nat /\ DOMAIN l = 1..Len(l)
      /\ h \in Seq(Block) /\ Len(h) = Len(l) + 1 /\ DOMAIN h = 1..(Len(l) + 1)
      /\ \A i \in 1..Len(l) : h[i] = l[i]
      /\ h[Len(l) + 1] = b
  BY DEF History
<1>2. \A k \in Key : d[k].number \in Nat
  BY DEF History
<1>3. b.number \in Nat
  BY BlockShape
<1>4. \A k \in Key : e[k].number \in Nat
  BY <1>2, <1>3, WrittenNumber
<1>5. ASSUME NEW i \in 1..Len(l), ForwardFrom(h, i) PROVE ForwardFrom(l, i) /\ Forward(b)
  BY <1>1, <1>5 DEF ForwardFrom
<1>6. Ranked(h, e)
  <2> SUFFICES ASSUME NEW i \in DOMAIN h, ForwardFrom(h, i), NEW k \in Key, Writes(h[i], k) # {}
               PROVE  h[i].number <= e[k].number
    BY DEF Ranked
  <2>1. CASE i = Len(l) + 1
    BY <2>1, <1>1, <1>3, WrittenNumber
  <2>2. CASE i \in 1..Len(l)
    <3>1. l[i].number <= d[k].number /\ l[i].number \in Nat
      BY <2>2, <1>1, <1>5, BlockShape DEF History, Ranked
    <3>2. Writes(b, k) # {} => d[k].number < b.number
      BY <2>2, <1>5, ForwardIsNewer
    <3> QED
      BY <3>1, <3>2, <2>2, <1>1, <1>2, <1>3, WrittenNumber
  <2> QED
    BY <2>1, <2>2, <1>1
<1>7. Explained(h)
  <2> SUFFICES ASSUME NEW j \in DOMAIN h, NEW i \in 1..(j - 1), h[i] = h[j],
                      \A m \in i..j : Forward(h[m])
               PROVE  FALSE
    BY DEF Explained
  <2>1. CASE j \in 1..Len(l)
    <3>1. i \in 1..Len(l) /\ \A m \in i..j : h[m] = l[m]
      BY <2>1, <1>1
    <3>2. \E m \in i..j : ~Forward(l[m])
      BY <2>1, <3>1, <1>1 DEF History, Explained
    <3> QED
      BY <3>1, <3>2
  <2>2. CASE j = Len(l) + 1
    <3>1. i \in 1..Len(l) /\ l[i] = b /\ ForwardFrom(h, i)
      BY <2>2, <1>1 DEF ForwardFrom
    <3>2. PICK k \in Key : Writes(b, k) # {}
      BY DEF WritesNothing
    <3>3. b.number <= d[k].number
      BY <3>1, <3>2, <1>1, <1>5 DEF History, Ranked
    <3>4. d[k].number < b.number
      BY <3>1, <3>2, <1>5, ForwardIsNewer
    <3> QED
      BY <3>3, <3>4, <1>2, <1>3
  <2> QED
    BY <2>1, <2>2, <1>1
<1> QED
  BY <1>1, <1>4, <1>6, <1>7 DEF History

\* A block that writes nothing leaves every number as it is.
LEMMA EmptyKeepsHistory ==
  ASSUME NEW l, NEW d, History(l, d), NEW b \in Block, WritesNothing(b)
  PROVE  History(l, Written(b, d))
<1>1. ASSUME NEW k \in Key PROVE Written(b, d)[k].number = d[k].number
  <2>1. Writes(b, k) = {}
    BY DEF WritesNothing
  <2> QED
    BY <2>1, WrittenNumber
<1> QED
  BY <1>1 DEF History, Ranked

LEMMA ReplayInit == ASSUME NodeInit PROVE ReplayInv
<1>1. log = <<>> /\ diskLog = <<>> /\ db = [k \in Key |-> Absent] /\ disk = db
  BY DEF NodeInit, Init
<1>2. History(<<>>, db)
  BY <1>1 DEF History, Ranked, Explained, Absent
<1> QED
  BY <1>1, <1>2 DEF ReplayInv

LEMMA ReplayStep == ASSUME ReplayInv, ScanInv, Step PROVE ReplayInv'
<1>1. CASE Apply
  <2>1. block \in Block /\ Current(block, db) /\ db' = Written(block, db) /\ UNCHANGED <<disk, diskLog>>
    BY <1>1, AppliedIsCurrent DEF Apply
  <2>2. History(log', db')
    <3>1. CASE WritesNothing(block)
      BY <3>1, <2>1, <1>1, EmptyKeepsHistory DEF Apply, ReplayInv
    <3>2. CASE ~WritesNothing(block)
      BY <3>2, <2>1, <1>1, ApplyKeepsHistory DEF Apply, ReplayInv
    <3> QED
      BY <3>1, <3>2
  <2> QED
    BY <2>1, <2>2 DEF ReplayInv
<1>2. CASE PowerLoss
  BY <1>2 DEF PowerLoss, ReplayInv
<1>3. CASE Flush
  BY <1>3 DEF Flush, ReplayInv
<1>4. CASE Start \/ ReadFile \/ ParseBlock \/ ReadMatches \/ Reject \/ NextTx \/ Finish
             \/ PoolFull \/ StackOverflow \/ Crash \/ UNCHANGED vars
  <2>1. UNCHANGED <<db, disk, log, diskLog>>
    BY <1>4 DEF Start, ReadFile, ParseBlock, ReadMatches, Reject, NextTx, Finish, PoolFull, StackOverflow,
       Crash, vars, state
  <2> QED
    BY <2>1 DEF ReplayInv
<1> QED
  BY <1>1, <1>2, <1>3, <1>4 DEF Step, Recover, Fault

\* ReplayExplained: recovery runs over the same files at every start, and a block is applied
\* a second time only if some block from then to now did not read the keys it wrote.
THEOREM ReplaysExplained == NodeSpec => []ReplayExplained
<1>1. NodeInit => ScanInv /\ ReplayInv
  BY ScanInit, ReplayInit
<1>2. ScanInv /\ ReplayInv /\ [NodeNext]_all => ScanInv' /\ ReplayInv'
  BY ScanStep, ReplayStep, StepIsStep
<1>3. ReplayInv => ReplayExplained
  BY DEF ReplayInv, History, Explained, ReplayExplained
<1> QED
  BY <1>1, <1>2, <1>3, PTL DEF NodeSpec

-----------------------------------------------------------------------------
(***************************************************************************)
(* The rounds of unreceived_before.  A neighbour is erased only after a    *)
(* failed call, and every neighbour is called, so one that was not called  *)
(* in a round has failed before.                                           *)
(***************************************************************************)
GossipTypes ==
  /\ up \subseteq Node
  /\ neighbours \in [Node -> SUBSET Node] /\ unreceived \in [Node -> SUBSET Node]
  /\ failed \in [Node -> SUBSET Node]
  /\ DOMAIN asked = Node
  /\ call \in [Node -> [Node -> {"none", "sent", "received", "unreceived", "failed"}]]

RoundInv ==
  \A n \in Node :
    /\ n \notin up => call[n] = G!NoCalls /\ asked[n] = G!Nothing
    /\ \A m \in Node : call[n][m] = "sent" => asked[n] # G!Nothing
    /\ n \in up => \A m \in G!Others(n) :
         /\ m \in neighbours[n] \/ m \in failed[n]
         /\ call[n][m] = "failed" => m \in failed[n]
         /\ asked[n] # G!Nothing /\ call[n][m] = "none" => m \in failed[n]
         /\ asked[n] = G!Nothing =>
              \/ m \in unreceived[n] \/ call[n][m] = "received" \/ m \in failed[n]
              \/ call[n] = G!NoCalls /\ m \in neighbours[n]

GossipInv == GossipTypes /\ RoundInv

\* What a step of the composed system is to the rounds.
GossipStep == (\E n \in Node : G!Serve(n) \/ G!Stop(n) \/ G!Round(n)) \/ UNCHANGED gossip

LEMMA StepIsGossip == ASSUME [NodeNext]_all PROVE GossipStep
BY NodeAssumption DEF NodeNext, Recovers, Fails, Serves, OtherNode, Asks, all, GossipStep

LEMMA GossipInit == ASSUME NodeInit PROVE GossipInv
BY DEF NodeInit, G!Init, GossipInv, GossipTypes, RoundInv, G!NoCalls

LEMMA ServeKeeps == ASSUME GossipInv, NEW n \in Node, G!Serve(n) PROVE GossipInv'
BY DEF GossipInv, GossipTypes, RoundInv, G!Serve, G!NoCalls, G!Others

LEMMA StopKeeps == ASSUME GossipInv, NEW n \in Node, G!Stop(n) PROVE GossipInv'
BY DEF GossipInv, GossipTypes, RoundInv, G!Stop, G!NoCalls, G!Others

LEMMA AskKeeps ==
  ASSUME GossipInv, NEW n \in Node, NEW msg \in Message, G!Ask(n, msg) PROVE GossipInv'
<1>1. msg # G!Nothing
  BY NodeAssumption
<1> QED
  BY <1>1 DEF GossipInv, GossipTypes, RoundInv, G!Ask, G!NoCalls, G!Others

LEMMA CallEndsKeeps ==
  ASSUME GossipInv, NEW n \in Node, NEW m \in Node,
         G!ReceivedBlockBefore(n, m) \/ G!CallFails(n, m)
  PROVE  GossipInv'
<1>1. asked[n] # G!Nothing /\ n \in up
  BY DEF GossipInv, RoundInv, G!ReceivedBlockBefore, G!CallFails
<1>2. CASE G!ReceivedBlockBefore(n, m)
  BY <1>1, <1>2 DEF GossipInv, GossipTypes, RoundInv, G!ReceivedBlockBefore, G!Answer, G!NoCalls, G!Others
<1>3. CASE G!CallFails(n, m)
  BY <1>1, <1>3 DEF GossipInv, GossipTypes, RoundInv, G!CallFails, G!NoCalls, G!Others
<1> QED
  BY <1>2, <1>3

LEMMA EndRoundKeeps == ASSUME GossipInv, NEW n \in Node, G!EndRound(n) PROVE GossipInv'
<1>1. GossipTypes'
  BY DEF GossipInv, GossipTypes, G!EndRound, G!With
<1>2. \A m \in Node : call[n][m] # "sent"
  BY DEF G!EndRound, G!With
<1>3. n \in up /\ asked[n] # G!Nothing
  BY DEF GossipInv, RoundInv, G!EndRound
<1>4. RoundInv'
  BY <1>2, <1>3 DEF GossipInv, GossipTypes, RoundInv, G!EndRound, G!With, G!NoCalls, G!Others
<1> QED
  BY <1>1, <1>4 DEF GossipInv

LEMMA GossipKept == ASSUME GossipInv, GossipStep PROVE GossipInv'
<1>1. CASE UNCHANGED gossip
  BY <1>1 DEF gossip, GossipInv, GossipTypes, RoundInv
<1> QED
  BY <1>1, ServeKeeps, StopKeeps, AskKeeps, CallEndsKeeps, EndRoundKeeps DEF GossipStep, G!Round

\* NobodySkipped: a node that unreceived_before leaves out answered has_received in that
\* round, whether or not it has the block, or failed a call in this life of the asker.
THEOREM NobodyIsSkipped == NodeSpec => []NobodySkipped
<1>1. GossipInv /\ [NodeNext]_all => GossipInv'
  BY GossipKept, StepIsGossip
<1>2. GossipInv => NobodySkipped
  BY DEF GossipInv, GossipTypes, RoundInv, NobodySkipped
<1> QED
  BY <1>1, <1>2, GossipInit, PTL DEF NodeSpec

-----------------------------------------------------------------------------
(***************************************************************************)
(* The types.  That a batch leaves a value in each key it writes needs the *)
(* last write to be there: the writes are finitely many, in the order of   *)
(* their transactions and of their places.                                 *)
(***************************************************************************)
LEMMA WriteShape ==
  ASSUME NEW b \in Block
  PROVE  /\ Len(b.txs) \in Nat /\ DOMAIN b.txs = 1 .. Len(b.txs)
         /\ \A t \in DOMAIN b.txs :
              /\ Len(b.txs[t].wt) \in Nat /\ DOMAIN b.txs[t].wt = 1 .. Len(b.txs[t].wt)
              /\ \A r \in DOMAIN b.txs[t].wt : b.txs[t].wt[r].entry \in Entry
<1>1. b.txs \in Seq(Transaction)
  BY BlockAssumption
<1>2. ASSUME NEW t \in DOMAIN b.txs
      PROVE  /\ Len(b.txs[t].wt) \in Nat /\ DOMAIN b.txs[t].wt = 1 .. Len(b.txs[t].wt)
             /\ \A r \in DOMAIN b.txs[t].wt : b.txs[t].wt[r].entry \in Entry
  <2>1. b.txs[t] \in Transaction
    BY <1>1, <1>2
  <2>2. b.txs[t].wt \in Seq(KeyEntry)
    BY <2>1 DEF Transaction
  <2>3. \A r \in DOMAIN b.txs[t].wt : b.txs[t].wt[r] \in KeyEntry
    BY <2>2
  <2> QED
    BY <2>2, <2>3 DEF KeyEntry
<1> QED
  BY <1>1, <1>2

LEMMA WritesAre ==
  ASSUME NEW b, NEW k, NEW w
  PROVE  w \in Writes(b, k) <=>
           \E t \in DOMAIN b.txs : \E r \in DOMAIN b.txs[t].wt : w = <<t, r>> /\ b.txs[t].wt[r].key = k
BY DEF Writes

\* A key that is written is written last once.
LEMMA LastWriteExists ==
  ASSUME NEW b \in Block, NEW k \in Key, Writes(b, k) # {}
  PROVE  LastWrite(b, k) \in Writes(b, k)
<1> DEFINE At(t) == {r \in DOMAIN b.txs[t].wt : b.txs[t].wt[r].key = k}
           Txs == {t \in DOMAIN b.txs : At(t) # {}}
<1>1. Txs \in SUBSET (1 .. Len(b.txs)) /\ Len(b.txs) \in Nat
  BY WriteShape
<1>2. Txs # {}
  BY WritesAre
<1>3. PICK t \in Txs : \A u \in Txs : u <= t
  BY <1>1, <1>2, Greatest
<1>4. At(t) \in SUBSET (1 .. Len(b.txs[t].wt)) /\ At(t) # {} /\ Len(b.txs[t].wt) \in Nat
  BY WriteShape
<1>5. PICK r \in At(t) : \A q \in At(t) : q <= r
  BY <1>4, Greatest
<1>6. <<t, r>> \in Writes(b, k)
  BY WritesAre
<1>7. ASSUME NEW v \in Writes(b, k) PROVE v[1] < t \/ (v[1] = t /\ v[2] <= r)
  <2>1. PICK u \in DOMAIN b.txs : \E q \in DOMAIN b.txs[u].wt : v = <<u, q>> /\ b.txs[u].wt[q].key = k
    BY <1>7, WritesAre
  <2>2. PICK q \in DOMAIN b.txs[u].wt : v = <<u, q>> /\ b.txs[u].wt[q].key = k
    BY <2>1
  <2>3. u \in Txs /\ q \in At(u)
    BY <2>2
  <2>4. u <= t /\ u \in Nat /\ t \in Nat
    BY <1>1, <1>3, <2>3
  <2>5. u = t => q <= r
    BY <1>5, <2>3
  <2> QED
    BY <2>2, <2>4, <2>5
<1>8. \E w \in Writes(b, k) : \A v \in Writes(b, k) : v[1] < w[1] \/ (v[1] = w[1] /\ v[2] <= w[2])
  <2> DEFINE w == <<t, r>>
  <2>1. w \in Writes(b, k) /\ w[1] = t /\ w[2] = r
    BY <1>6
  <2> HIDE DEF w
  <2>2. \A v \in Writes(b, k) : v[1] < w[1] \/ (v[1] = w[1] /\ v[2] <= w[2])
    BY <1>7, <2>1, SMTT(60)
  <2> QED
    BY <2>1, <2>2
<1> QED
  BY <1>8 DEF LastWrite

LEMMA WrittenTyped ==
  ASSUME NEW b \in Block, NEW d \in State PROVE Written(b, d) \in State
<1> SUFFICES ASSUME NEW k \in Key, Writes(b, k) # {}
             PROVE  LET w == LastWrite(b, k)
                        e == b.txs[w[1]].wt[w[2]].entry
                    IN  [value |-> e.value, number |-> b.number, version |-> e.version] \in Entry
  BY DEF State, Written
<1> DEFINE w == LastWrite(b, k)
<1>1. w \in Writes(b, k)
  BY LastWriteExists
<1> HIDE DEF w
<1>2. PICK t \in DOMAIN b.txs : \E r \in DOMAIN b.txs[t].wt : w = <<t, r>> /\ b.txs[t].wt[r].key = k
  BY <1>1, WritesAre
<1>3. PICK r \in DOMAIN b.txs[t].wt : w = <<t, r>>
  BY <1>2
<1>4. b.txs[w[1]].wt[w[2]].entry \in Entry /\ b.number \in Nat
  <2>1. w[1] = t /\ w[2] = r
    BY <1>3
  <2> QED
    BY <2>1, WriteShape, BlockShape
<1> QED
  BY <1>4, SMTT(60) DEF Entry, w

\* One of the four bytes of a length is zero, so what is left of a prefix is shorter.
LEMMA ReadableShort == ASSUME NEW length \in 1..MaxLength PROVE Readable(length) \in 0..3
<1> DEFINE bytes == EncodeInt2CharArray(length)
           Zero == {i \in 1..4 : bytes[i] = 0}
<1>1. bytes[4] = 0
  <2> DEFINE P == 256^3
  <2>1. P \in Nat /\ 4 - 1 = 3 /\ bytes[4] = (length \div P) % 256 /\ length \in 1..(P - 1)
    <3>1. P \in Nat
      BY SMT
    <3>2. 4 - 1 = 3
      BY SMT
    <3>3. bytes[4] = (length \div P) % 256
      <4>1. 4 \in 1..4
        OBVIOUS
      <4> DEFINE Byte(i) == (length \div 256^(i - 1)) % 256
      <4>2. bytes = [i \in 1..4 |-> Byte(i)]
        BY Zenon DEF EncodeInt2CharArray
      <4>3. Byte(4) = (length \div P) % 256
        BY <3>2, Zenon
      <4> HIDE DEF Byte, bytes, P
      <4> QED
        BY <4>1, <4>2, <4>3
    <3>4. length \in 1..(P - 1)
      BY DEF MaxLength
    <3> QED
      BY <3>1, <3>2, <3>3, <3>4
  <2> HIDE DEF P, bytes
  <2> QED
    BY <2>1
<1> HIDE DEF bytes
<1>2. Zero \in SUBSET Nat /\ Zero # {}
  BY <1>1
<1>3. PICK i \in Zero : \A j \in Zero : i <= j
  BY <1>2, Least
<1>4. i - 1 \in 0..3 /\ bytes[(i - 1) + 1] = 0
  BY <1>3
<1>5. \A j \in 1..(i - 1) : bytes[j] # 0
  BY <1>3
<1>6. \E n \in 0..3 : bytes[n + 1] = 0 /\ \A j \in 1..n : bytes[j] # 0
  BY <1>4, <1>5
<1> QED
  BY <1>6 DEF Readable, bytes

\* TypeOK's part about the state and its recovery; what is read is a block.
StoreTypes ==
  /\ hasDir \in BOOLEAN /\ files \in Files
  /\ db \in State /\ disk \in State
  /\ log \in Seq(Block) /\ diskLog \in Seq(Block)
  /\ pc \in {"down", "mkdir", "files", "parse", "read", "ready"}
  /\ file \in 0..Len(files) /\ size \in 0..3
  /\ block \in Block \union {NoBlock}
  /\ tx \in 1..(Len(block.txs) + 1)
  /\ rd \in Nat \ {0} /\ (InTx => rd <= Len(block.txs[tx].rd) + 1)
  /\ used \in 0..PoolSize /\ blockNumber \in Nat
  /\ fileNumber \in {0, Len(files) + 1}
  /\ starts \in 0..MaxStart
  /\ pc = "read" => block \in Block

LEMMA AbsentTyped == [k \in Key |-> Absent] \in State
BY BlockAssumption DEF State, Entry, Absent

LEMMA FileShape ==
  ASSUME files \in Files
  PROVE  Len(files) \in Nat /\ \A i \in 1..Len(files) : files[i] \in 1..MaxLength
<1> DEFINE Lengths == 1..MaxLength
<1>1. files \in Seq(Lengths)
  BY FileAssumption
<1> HIDE DEF Lengths
<1>2. Len(files) \in Nat /\ \A i \in 1..Len(files) : files[i] \in Lengths
  BY <1>1
<1> QED
  BY <1>2 DEF Lengths

LEMMA NowhereTyped ==
  ASSUME files \in Files, Nowhere
  PROVE  /\ file \in 0..Len(files) /\ size \in 0..3 /\ block \in Block \union {NoBlock}
         /\ tx \in 1..(Len(block.txs) + 1)
         /\ rd \in Nat \ {0} /\ ~InTx
BY FileShape DEF Nowhere, NoBlock, InTx
LEMMA TypesInit == ASSUME NodeInit PROVE StoreTypes
<1>1. /\ hasDir \in BOOLEAN /\ files \in Files /\ Nowhere
      /\ db = [k \in Key |-> Absent] /\ disk = db /\ log = <<>> /\ diskLog = <<>>
      /\ pc = "down" /\ used = 0 /\ blockNumber = 0 /\ fileNumber = 0 /\ starts = 0
  BY DEF NodeInit, Init
<1>2. used \in 0..PoolSize /\ starts \in 0..MaxStart
  BY <1>1, FileAssumption
<1> QED
  BY <1>1, <1>2, AbsentTyped, NowhereTyped DEF StoreTypes

LEMMA GoneKeeps ==
  ASSUME StoreTypes, Gone, UNCHANGED <<hasDir, files, disk, diskLog>>,
         db' \in {db, disk}, log' \in {log, diskLog}
  PROVE  StoreTypes'
<1>1. /\ files' \in Files /\ pc' = "down" /\ used' = 0 /\ blockNumber' = 0 /\ fileNumber' = 0
      /\ UNCHANGED starts
  BY DEF StoreTypes, Gone
<1>2. /\ file' \in 0..Len(files') /\ size' \in 0..3 /\ block' \in Block \union {NoBlock}
      /\ tx' \in 1..(Len(block'.txs) + 1)
      /\ rd' \in Nat \ {0} /\ ~InTx'
  BY <1>1, FileShape DEF Gone, NoBlock, InTx, StoreTypes
<1>3. used' \in 0..PoolSize
  BY <1>1, FileAssumption
<1> QED
  BY <1>1, <1>2, <1>3 DEF StoreTypes

LEMMA TypesStep == ASSUME StoreTypes, Step PROVE StoreTypes'
<1>1. CASE Start
  BY <1>1, FileAssumption DEF Start, StoreTypes, state, place, global, InTx
<1>2. CASE ReadFile
  <2>1. file + 1 \in 1..Len(files) /\ size' \in 0..3
    BY <1>2, FileShape, ReadableShort DEF ReadFile, StoreTypes
  <2> QED
    BY <1>2, <2>1 DEF ReadFile, StoreTypes, state, global, InTx
<1>3. CASE ParseBlock
  <2>1. block' \in Block /\ blockNumber' = block'.number /\ tx' = 1 /\ rd' = 1 /\ pc' = "read"
    BY <1>3 DEF ParseBlock
  <2>2. blockNumber' \in Nat /\ tx' \in 1..(Len(block'.txs) + 1)
    BY <2>1, BlockShape
  <2>3. InTx' => rd' <= Len(block'.txs[tx'].rd) + 1
    BY <2>1, BlockShape DEF InTx
  <2> QED
    BY <1>3, <2>1, <2>2, <2>3 DEF ParseBlock, StoreTypes, state, InTx
<1>4. CASE ReadMatches
  <2>1. block \in Block /\ tx \in DOMAIN block.txs /\ rd \in Nat \ {0}
    BY <1>4, BlockShape DEF ReadMatches, InReads, InTx, StoreTypes
  <2>2. rd + 1 \in Nat \ {0} /\ rd + 1 <= Len(block.txs[tx].rd) + 1
    BY <1>4, <2>1, BlockShape DEF ReadMatches, InReads
  <2> QED
    BY <1>4, <2>2 DEF ReadMatches, StoreTypes, state, global, InTx
<1>5. CASE Reject
  BY <1>5 DEF Reject, StoreTypes, state, place, global, InTx
<1>6. CASE NextTx
  <2>1. block \in Block /\ tx \in 1..Len(block.txs) /\ Len(block.txs) \in Nat
    BY <1>6, BlockShape DEF NextTx, InTx, StoreTypes
  <2>2. tx' \in 1..(Len(block.txs) + 1) /\ rd' = 1 /\ UNCHANGED block
    BY <1>6, <2>1 DEF NextTx
  <2>3. InTx' => rd' <= Len(block'.txs[tx'].rd) + 1
    BY <2>1, <2>2, BlockShape DEF InTx
  <2> QED
    BY <1>6, <2>2, <2>3 DEF NextTx, StoreTypes, state, global
<1>7. CASE Apply
  <2>1. block \in Block /\ db' \in State
    BY <1>7, WrittenTyped DEF Apply, StoreTypes
  <2>2. log' \in Seq(Block)
    BY <1>7, <2>1 DEF Apply, StoreTypes
  <2> QED
    BY <1>7, <2>1, <2>2 DEF Apply, StoreTypes, place, global, InTx
<1>8. CASE Finish
  <2>1. used' \in 0..PoolSize
    BY <1>8, FileAssumption DEF Finish, Full, StoreTypes
  <2> QED
    BY <1>8, <2>1 DEF Finish, StoreTypes, state, place, InTx
<1>9. CASE PoolFull \/ StackOverflow \/ Fault
  BY <1>9, GoneKeeps DEF PoolFull, StackOverflow, Fault, Crash, PowerLoss, state
<1>10. CASE Flush
  BY <1>10 DEF Flush, StoreTypes, place, global, InTx
<1>11. CASE UNCHANGED vars
  BY <1>11 DEF vars, StoreTypes, state, place, global, InTx
<1> QED
  BY <1>1, <1>2, <1>3, <1>4, <1>5, <1>6, <1>7, <1>8, <1>9, <1>10, <1>11 DEF Step, Recover

\* TypeOK's part about the rounds: a node asks others only, never itself.
RoundTypes ==
  \A n \in Node :
    /\ neighbours[n] \subseteq G!Others(n) /\ unreceived[n] \subseteq G!Others(n)
    /\ failed[n] \subseteq G!Others(n)
    /\ asked[n] \in Message \union {G!Nothing}
    /\ call[n][n] = "none"

LEMMA RoundTypesInit == ASSUME NodeInit PROVE RoundTypes
BY DEF NodeInit, G!Init, RoundTypes, G!NoCalls

LEMMA RoundTypesStep == ASSUME GossipInv, RoundTypes, GossipStep PROVE RoundTypes'
<1> USE DEF GossipInv, GossipTypes, RoundTypes, G!Others
<1>1. CASE UNCHANGED gossip
  BY <1>1 DEF gossip
<1>2. ASSUME NEW n \in Node, G!Serve(n) \/ G!Stop(n) PROVE RoundTypes'
  BY <1>2 DEF G!Serve, G!Stop, G!NoCalls
<1>3. ASSUME NEW n \in Node, NEW msg \in Message, G!Ask(n, msg) PROVE RoundTypes'
  BY <1>3 DEF G!Ask
<1>4. ASSUME NEW n \in Node, NEW m \in Node, G!ReceivedBlockBefore(n, m) PROVE RoundTypes'
  BY <1>4 DEF G!ReceivedBlockBefore
<1>5. ASSUME NEW n \in Node, NEW m \in Node, G!CallFails(n, m) PROVE RoundTypes'
  <2>1. m # n
    BY <1>5 DEF G!CallFails
  <2> QED
    BY <1>5, <2>1 DEF G!CallFails
<1>6. ASSUME NEW n \in Node, G!EndRound(n) PROVE RoundTypes'
  <2>1. G!With(n, "unreceived") \subseteq G!Others(n)
    BY DEF G!With
  <2> QED
    BY <1>6, <2>1 DEF G!EndRound
<1> QED
  BY <1>1, <1>2, <1>3, <1>4, <1>5, <1>6 DEF GossipStep, G!Round

\* TypeOK of the store node: among it that the transaction and the read that handle_block
\* is at are there or the next after the last, that the pool never holds more than its
\* size, and that no node counts itself among those it asks.
THEOREM StoreTyped == NodeSpec => []TypeOK
<1>1. NodeInit => StoreTypes /\ GossipInv /\ RoundTypes
  BY TypesInit, GossipInit, RoundTypesInit
<1>2. StoreTypes /\ GossipInv /\ RoundTypes /\ [NodeNext]_all
        => StoreTypes' /\ GossipInv' /\ RoundTypes'
  BY TypesStep, StepIsStep, GossipKept, StepIsGossip, RoundTypesStep
<1>3. StoreTypes /\ GossipInv /\ RoundTypes => TypeOK
  BY DEF StoreTypes, GossipInv, GossipTypes, RoundTypes, TypeOK
<1> QED
  BY <1>1, <1>2, <1>3, PTL DEF NodeSpec
=============================================================================
