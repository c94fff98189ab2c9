----------------------------- MODULE BlockFlow -----------------------------
(***************************************************************************)
(* How a block is made and how it spreads: the chain head of each          *)
(* consensus node (_pre_hash and _cur_hight of raft), the distributor      *)
(* thread (distribute_block with generate_block and its two rounds of      *)
(* calls), the brpc workers that answer them (GetTxFromFollower,           *)
(* SendBlockToOtherNode), and the store nodes each consensus node knows.   *)
(*                                                                         *)
(* The election is Raft's: here a node becomes LEADER, and loses peers, at *)
(* any time.  The cache is TxCache's: here it is how many transactions     *)
(* wait, read and cleared in one step.  Any call may fail; that covers the *)
(* builds whose protobuf refuses the replies, which lack required fields.  *)
(***************************************************************************)
EXTENDS Naturals, FiniteSets

CONSTANTS
  Node, Store,  \* consensus nodes, store nodes
  Genesis,      \* the empty _pre_hash
  MaxTx,        \* bound: transactions that wait at one node
  MaxHeight,    \* bound: blocks are made below this height
  MaxRestart,   \* bound: restarts, of all nodes together
  MaxRetry      \* bound: requests brpc sends again, of all calls together

ASSUME FlowAssumption ==
  /\ IsFiniteSet(Node) /\ IsFiniteSet(Store)
  /\ {MaxTx, MaxHeight, MaxRestart, MaxRetry} \subseteq Nat

VARIABLES
  up, life,  \* does the process run, and how often it was started again
  role, peers,
  hight, preHash,  \* _cur_hight, _pre_hash
  cached,    \* how many transactions wait
  seen,      \* _tx_size > 0: it only grows
  stores,    \* _store_nodes
  toSave,    \* store nodes whose transaction is in and whose address is not saved yet
  pc,        \* where the distributor is
  loc,       \* its local variables
  call,      \* the calls of its round, by peer
  req,       \* requests on their way, and those a worker is busy with
  made,      \* the blocks made (history)
  makers,    \* the processes that made one (history)
  retries,   \* requests sent again (history)
  missed     \* store nodes a block did not reach since they were listed (history)

proc  == <<up, life, role, seen>>
head  == <<hight, preHash>>
inbox == <<cached, toSave>>
known == <<stores, missed>>
past  == <<made, makers, retries>>
vars  == <<proc, peers, head, inbox, known, pc, loc, call, req, past>>

\* The md5 of a block is taken of exactly these fields, so a block stands for its cur_hash.
\* The body is a number of empty messages (consen_node_cache.cpp:86-87).
Block(pre, number, txs) == [pre |-> pre, number |-> number, txs |-> txs]

Local == [pre |-> Genesis, number |-> 0, block |-> Genesis, asked |-> {}, failed |-> {}]
NoCall == [m \in Node |-> "none"]

Init ==
  /\ up = [n \in Node |-> TRUE] /\ life = [n \in Node |-> 0]
  /\ role = [n \in Node |-> "FOLLOWER"] /\ peers = [n \in Node |-> Node \ {n}]
  /\ hight = [n \in Node |-> 0] /\ preHash = [n \in Node |-> Genesis]
  /\ cached = [n \in Node |-> 0] /\ seen = [n \in Node |-> FALSE]
  /\ stores = [n \in Node |-> {}] /\ toSave = [n \in Node |-> {}]
  /\ pc = [n \in Node |-> "idle"] /\ loc = [n \in Node |-> Local]
  /\ call = [n \in Node |-> NoCall] /\ req = {}
  /\ made = {} /\ makers = {} /\ retries = 0
  /\ missed = [n \in Node |-> {}]

-----------------------------------------------------------------------------
(* The process, and what the election does to it.                          *)

\* What ends with the process of n, but for its requests that are on their way.
Stop(n) ==
  /\ cached' = [cached EXCEPT ![n] = 0] /\ toSave' = [toSave EXCEPT ![n] = {}]
  /\ stores' = [stores EXCEPT ![n] = {}] /\ missed' = [missed EXCEPT ![n] = {}]
  /\ pc' = [pc EXCEPT ![n] = "idle"] /\ loc' = [loc EXCEPT ![n] = Local]
  /\ call' = [call EXCEPT ![n] = NoCall]

Busy(n) == {r \in req : r.to = n /\ r.at # "sent"}

\* n followed a bad pointer.
Die(n) == /\ up' = [up EXCEPT ![n] = FALSE]
          /\ Stop(n)
          /\ UNCHANGED <<life, role, seen, peers, head, past>>

Restarts == Cardinality({x \in Node \X (1 .. MaxRestart) : x[2] <= life[x[1]]})

\* A process that died, or is killed, is started again; nothing of this state is on disk.
Restart(n) ==
  /\ Restarts < MaxRestart
  /\ Stop(n)
  /\ req' = req \ Busy(n)
  /\ up' = [up EXCEPT ![n] = TRUE] /\ life' = [life EXCEPT ![n] = @ + 1]
  /\ role' = [role EXCEPT ![n] = "FOLLOWER"] /\ peers' = [peers EXCEPT ![n] = Node \ {n}]
  /\ hight' = [hight EXCEPT ![n] = 0] /\ preHash' = [preHash EXCEPT ![n] = Genesis]
  /\ seen' = [seen EXCEPT ![n] = FALSE]
  /\ UNCHANGED past

BecomeLeader(n) ==
  /\ up[n] /\ role[n] # "LEADER"
  /\ role' = [role EXCEPT ![n] = "LEADER"]
  /\ UNCHANGED <<up, life, seen, peers, head, inbox, known, pc, loc, call, req, past>>

\* A vote request or a heartbeat of n to m failed.
DropPeer(n, m) ==
  /\ up[n] /\ m \in peers[n]
  /\ peers' = [peers EXCEPT ![n] = @ \ {m}]
  /\ UNCHANGED <<proc, head, inbox, known, pc, loc, call, req, past>>

-----------------------------------------------------------------------------
(* SendTxToConsenNode.                                                     *)

\* insert_tx; one with the timestamp of the last transaction follows a null pointer.
InsertTx(n, s) ==
  /\ up[n] /\ s \notin toSave[n]
  /\ \/ /\ cached[n] < MaxTx
        /\ cached' = [cached EXCEPT ![n] = @ + 1]
        /\ seen' = [seen EXCEPT ![n] = TRUE]
        /\ toSave' = [toSave EXCEPT ![n] = @ \cup {s}]
        /\ UNCHANGED <<up, life, role, peers, head, known, pc, loc, call, req, past>>
     \/ /\ cached[n] > 0
        /\ req' = req \ Busy(n)
        /\ Die(n)

SaveStoreNode(n, s) ==
  /\ s \in toSave[n]
  /\ toSave' = [toSave EXCEPT ![n] = @ \ {s}]
  /\ stores' = [stores EXCEPT ![n] = @ \cup {s}]
  /\ missed' = IF s \in stores[n] THEN missed ELSE [missed EXCEPT ![n] = @ \ {s}]
  /\ UNCHANGED <<proc, peers, head, cached, pc, loc, call, req, past>>

-----------------------------------------------------------------------------
(* Calls.                                                                  *)

GetRequest(n, m, try) ==
  [type |-> "get", from |-> n, life |-> life[n], to |-> m, block |-> Genesis,
   try |-> try, at |-> "sent", asked |-> {}]
BlockRequest(n, m, try) ==
  [GetRequest(n, m, try) EXCEPT !.type = "block", !.block = loc[n].block]
Request(n, m, try) ==
  IF pc[n] = "gather" THEN GetRequest(n, m, try) ELSE BlockRequest(n, m, try)

Open(n) == [m \in Node |-> IF m \in peers[n] THEN "open" ELSE "none"]
Joined(n) == \A m \in Node : call[n][m] # "open"
FailedCalls(n) == {m \in Node : call[n][m] = "failed"}

\* Does the reply to r reach the call it was sent for?
Awaited(r) ==
  /\ life[r.from] = r.life /\ call[r.from][r.to] = "open"
  /\ pc[r.from] = IF r.type = "get" THEN "gather" ELSE "send"
  /\ r.type = "block" => loc[r.from].block = r.block

Reply(r) == call' = IF Awaited(r) THEN [call EXCEPT ![r.from][r.to] = "ok"] ELSE call

\* 100 ms are over, or the connection or the reply is bad; the request may still arrive.
Timeout(n, m) ==
  /\ call[n][m] = "open"
  /\ call' = [call EXCEPT ![n][m] = "failed"]
  /\ UNCHANGED <<proc, peers, head, inbox, known, pc, loc, req, past>>

\* The connection broke and brpc sends the request again.
Retry(n, m) ==
  /\ call[n][m] = "open" /\ retries < MaxRetry
  /\ retries' = retries + 1
  /\ req' = req \cup {Request(n, m, retries + 1)}
  /\ UNCHANGED <<proc, peers, head, inbox, known, pc, loc, call, made, makers>>

-----------------------------------------------------------------------------
(* distribute_block.                                                       *)

\* generate_block reads the hash ...
StartDistribute(n) ==
  /\ up[n] /\ pc[n] = "idle" /\ role[n] = "LEADER" /\ seen[n]
  /\ pc' = [pc EXCEPT ![n] = "read"]
  /\ loc' = [loc EXCEPT ![n].pre = preHash[n]]
  /\ UNCHANGED <<proc, peers, head, inbox, known, call, req, past>>

\* ... and the height, and get_all_tx asks the peers for their transactions.
AskForTxs(n) ==
  /\ pc[n] = "read" /\ hight[n] < MaxHeight
  /\ pc' = [pc EXCEPT ![n] = "gather"]
  /\ loc' = [loc EXCEPT ![n].number = hight[n]]
  /\ call' = [call EXCEPT ![n] = Open(n)]
  /\ req' = req \cup {GetRequest(n, m, 0) : m \in peers[n]}
  /\ UNCHANGED <<proc, peers, head, inbox, known, past>>

\* Peers whose call failed are erased; an empty list is read through a null pointer; else
\* the block is made, the list cleared and the height moved on.
CutBlock(n) ==
  LET b == Block(loc[n].pre, loc[n].number, cached[n])
  IN  /\ pc[n] = "gather" /\ Joined(n)
      /\ \/ cached[n] = 0 /\ req' = req \ Busy(n) /\ Die(n)
         \/ /\ cached[n] > 0
            /\ peers' = [peers EXCEPT ![n] = @ \ FailedCalls(n)]
            /\ call' = [call EXCEPT ![n] = NoCall]
            /\ cached' = [cached EXCEPT ![n] = 0]
            /\ loc' = [loc EXCEPT ![n].block = b]
            /\ hight' = [hight EXCEPT ![n] = loc[n].number + 1]
            /\ made' = made \cup {b} /\ makers' = makers \cup {<<n, life[n]>>}
            /\ pc' = [pc EXCEPT ![n] = "cut"]
            /\ UNCHANGED <<proc, preHash, toSave, known, req, retries>>

\* mutant: the hash is taken after the height was moved on
SendBlockRenumbered(n) ==
  /\ pc[n] = "cut"
  /\ preHash' = [preHash EXCEPT ![n] = [loc[n].block EXCEPT !.number = @ + 1]]
  /\ pc' = [pc EXCEPT ![n] = "send"]
  /\ call' = [call EXCEPT ![n] = Open(n)]
  /\ req' = req \cup {BlockRequest(n, m, 0) : m \in peers[n]}
  /\ UNCHANGED <<proc, peers, hight, inbox, known, loc, past>>

\* The hash is set and send_block_to_follower sends the block to the peers.
SendBlock(n) ==
  /\ pc[n] = "cut"
  /\ preHash' = [preHash EXCEPT ![n] = loc[n].block]
  /\ pc' = [pc EXCEPT ![n] = "send"]
  /\ call' = [call EXCEPT ![n] = Open(n)]
  /\ req' = req \cup {BlockRequest(n, m, 0) : m \in peers[n]}
  /\ UNCHANGED <<proc, peers, hight, inbox, known, loc, past>>

\* mutant: peers that failed stay listed
SendToStoresKeeping(n) ==
  /\ pc[n] = "send" /\ Joined(n)
  /\ call' = [call EXCEPT ![n] = NoCall]
  /\ pc' = [pc EXCEPT ![n] = "stores"]
  /\ loc' = [loc EXCEPT ![n].asked = stores[n]]
  /\ UNCHANGED <<proc, peers, head, inbox, known, req, past>>

\* Peers whose call failed are erased; the block goes to the node's own store nodes.
SendToStores(n) ==
  /\ pc[n] = "send" /\ Joined(n)
  /\ peers' = [peers EXCEPT ![n] = @ \ FailedCalls(n)]
  /\ call' = [call EXCEPT ![n] = NoCall]
  /\ pc' = [pc EXCEPT ![n] = "stores"]
  /\ loc' = [loc EXCEPT ![n].asked = stores[n]]
  /\ UNCHANGED <<proc, head, inbox, known, req, past>>

\* The call to store node s ends; a failed one is remembered.
JoinStore(n, s) ==
  /\ pc[n] = "stores" /\ s \in loc[n].asked
  /\ \/ /\ loc' = [loc EXCEPT ![n].asked = @ \ {s}]
        /\ UNCHANGED missed
     \/ /\ loc' = [loc EXCEPT ![n].asked = @ \ {s}, ![n].failed = @ \cup {s}]
        /\ missed' = [missed EXCEPT ![n] = @ \cup {s}]
  /\ UNCHANGED <<proc, peers, head, inbox, stores, pc, call, req, past>>

\* mutant: the list of the failed ones is not looked at
EndDistributeKeeping(n) ==
  /\ pc[n] = "stores" /\ loc[n].asked = {}
  /\ pc' = [pc EXCEPT ![n] = "idle"] /\ loc' = [loc EXCEPT ![n] = Local]
  /\ UNCHANGED <<proc, peers, head, inbox, known, call, req, past>>

\* The store nodes that failed are removed.
EndDistribute(n) ==
  /\ pc[n] = "stores" /\ loc[n].asked = {}
  /\ stores' = [stores EXCEPT ![n] = @ \ loc[n].failed]
  /\ pc' = [pc EXCEPT ![n] = "idle"] /\ loc' = [loc EXCEPT ![n] = Local]
  /\ UNCHANGED <<proc, peers, head, inbox, missed, call, req, past>>

-----------------------------------------------------------------------------
(* The workers.                                                            *)

\* GetTxFromFollower: a LEADER drops what waits and answers with nothing; a node that is
\* not LEADER, and one with nothing to clear, follows a null pointer.
GetTxFromFollower(r) ==
  /\ r.type = "get" /\ up[r.to]
  /\ \/ /\ role[r.to] = "LEADER" /\ cached[r.to] > 0
        /\ cached' = [cached EXCEPT ![r.to] = 0]
        /\ req' = req \ {r}
        /\ Reply(r)
        /\ UNCHANGED <<proc, peers, head, toSave, known, pc, loc, past>>
     \/ /\ role[r.to] # "LEADER" \/ cached[r.to] = 0
        /\ req' = req \ (Busy(r.to) \cup {r})
        /\ Die(r.to)

Moved(r, at) == req' = (req \ {r}) \cup {[r EXCEPT !.at = at]}

\* mutant: the call is answered before the block is used
SetPreHashAnswering(r) ==
  /\ r.type = "block" /\ r.at = "sent" /\ up[r.to]
  /\ preHash' = [preHash EXCEPT ![r.to] = r.block]
  /\ Moved(r, "hight") /\ Reply(r)
  /\ UNCHANGED <<proc, peers, hight, inbox, known, pc, loc, past>>

\* SendBlockToOtherNode: the hash of the block ...
SetPreHash(r) ==
  /\ r.type = "block" /\ r.at = "sent" /\ up[r.to]
  /\ preHash' = [preHash EXCEPT ![r.to] = r.block]
  /\ Moved(r, "hight")
  /\ UNCHANGED <<proc, peers, hight, inbox, known, pc, loc, call, past>>

\* mutant: the number of the block and not of the one after it
SetHightSame(r) ==
  /\ r.at = "hight"
  /\ hight' = [hight EXCEPT ![r.to] = r.block.number]
  /\ Moved(r, "stores")
  /\ UNCHANGED <<proc, peers, preHash, inbox, known, pc, loc, call, past>>

\* ... then the height after it ...
SetHight(r) ==
  /\ r.at = "hight"
  /\ hight' = [hight EXCEPT ![r.to] = r.block.number + 1]
  /\ Moved(r, "stores")
  /\ UNCHANGED <<proc, peers, preHash, inbox, known, pc, loc, call, past>>

\* ... and calls to the store nodes that are listed now.
Forward(r) ==
  /\ r.at = "stores"
  /\ req' = (req \ {r}) \cup {[r EXCEPT !.at = "join", !.asked = stores[r.to]]}
  /\ UNCHANGED <<proc, peers, head, inbox, known, pc, loc, call, past>>

\* A store node that was not reached is removed.
Forwarded(r, s) ==
  /\ r.at = "join" /\ s \in r.asked
  /\ req' = (req \ {r}) \cup {[r EXCEPT !.asked = @ \ {s}]}
  /\ \/ UNCHANGED known
     \/ /\ stores' = [stores EXCEPT ![r.to] = @ \ {s}]
        /\ missed' = [missed EXCEPT ![r.to] = @ \cup {s}]
  /\ UNCHANGED <<proc, peers, head, inbox, pc, loc, call, past>>

AnswerBlock(r) ==
  /\ r.at = "join" /\ r.asked = {}
  /\ req' = req \ {r}
  /\ Reply(r)
  /\ UNCHANGED <<proc, peers, head, inbox, known, pc, loc, past>>

-----------------------------------------------------------------------------
Distribute(n) ==
  \/ StartDistribute(n) \/ AskForTxs(n) \/ CutBlock(n) \/ SendBlock(n) \/ SendToStores(n)
  \/ (\E s \in Store : JoinStore(n, s)) \/ EndDistribute(n)

SendBlockToOtherNode(r) ==
  \/ SetPreHash(r) \/ SetHight(r) \/ Forward(r)
  \/ (\E s \in Store : Forwarded(r, s)) \/ AnswerBlock(r)

Next ==
  \/ \E n \in Node : Distribute(n) \/ BecomeLeader(n) \/ Restart(n)
  \/ \E n \in Node, s \in Store : InsertTx(n, s) \/ SaveStoreNode(n, s)
  \/ \E n, m \in Node : DropPeer(n, m) \/ Timeout(n, m) \/ Retry(n, m)
  \/ \E r \in req : GetTxFromFollower(r) \/ SendBlockToOtherNode(r)

Spec == Init /\ [][Next]_vars

-----------------------------------------------------------------------------
(* What distribution promises.                                             *)

\* The values of the variables; a head's hash is always that of a block some node made.
TypeOK ==
  /\ up \in [Node -> BOOLEAN] /\ life \in [Node -> 0 .. MaxRestart]
  /\ role \in [Node -> {"FOLLOWER", "LEADER"}] /\ peers \in [Node -> SUBSET Node]
  /\ hight \in [Node -> 0 .. MaxHeight]
  /\ preHash \in [Node -> made \cup {Genesis}]
  /\ cached \in [Node -> 0 .. MaxTx] /\ seen \in [Node -> BOOLEAN]
  /\ stores \in [Node -> SUBSET Store] /\ toSave \in [Node -> SUBSET Store]
  /\ missed \in [Node -> SUBSET Store]
  /\ pc \in [Node -> {"idle", "read", "gather", "cut", "send", "stores"}]
  /\ call \in [Node -> [Node -> {"none", "open", "ok", "failed"}]]
  /\ \A r \in req : /\ r.type \in {"get", "block"} /\ r.block \in made \cup {Genesis}
                    /\ r.at \in {"sent", "hight", "stores", "join"}
                    /\ r.at # "sent" => up[r.to]
  /\ \A b \in made : b.pre \in made \cup {Genesis} /\ b.number < MaxHeight /\ b.txs \in 1 .. MaxTx

\* One process makes the blocks, and no request was sent twice.
Undisturbed == Cardinality(makers) <= 1 /\ retries = 0

\* Is nobody between the two assignments of a head of n?
HeadQuiet(n) == pc[n] # "cut" /\ \A r \in Busy(n) : r.at # "hight"

\* raft_service.cpp:51 has a node's height and hash be those of the block it was sent, and
\* consen_node_cache.cpp:75 has them be those of the block before the next: while one
\* process makes the blocks, hash and height of a head are those of one block, though they
\* are set apart and requests may be handled after their call was given up.
HeadWhole ==
  Undisturbed => \A n \in Node : up[n] /\ HeadQuiet(n) =>
    \/ hight[n] = 0 /\ preHash[n] = Genesis
    \/ \E b \in made : preHash[n] = b /\ hight[n] = b.number + 1

\* While one process makes the blocks, the nodes it still lists, between two rounds and
\* unless they started again, have its chain head: the peer list is the list of the nodes
\* that follow (raft.cpp:106-112).
PeersAgree ==
  Undisturbed => \A n \in Node, m \in Node :
    /\ up[n] /\ <<n, life[n]>> \in makers /\ pc[n] \notin {"cut", "send"}
    /\ m \in peers[n] /\ up[m] /\ life[m] = 0
    => hight[m] = hight[n] /\ preHash[m] = preHash[n]

\* A store node that is still listed when nothing is being sent was reached by every block
\* the node sent since it was listed (raft.cpp:114, raft_service.cpp:54).
StoresFollow ==
  \A n \in Node : pc[n] # "stores" => missed[n] \cap stores[n] = {}

\* While one process makes the blocks and no request is sent twice, all of them together make
\* one chain, and each head is a place in it that only moves forward, though hash and height
\* are read apart, set apart and set by requests that may be late.  OneMakerSpec has the
\* behaviours that stay so for ever.
OneChain == INSTANCE BlockChain WITH blocks <- made, head <- preHash, Content <- 1 .. MaxTx
ChainSpec == OneChain!Spec
ChainGrows == OneChain!Init /\ [][Undisturbed' => [OneChain!Next]_(OneChain!vars)]_vars
OneMakerSpec == Init /\ [][Next /\ Undisturbed']_vars

\* What the replies of the election leave of it (Raft's LeaderAlone): nobody leads anyone.
\* Then each LEADER makes a chain of its own, however many there are: no request is ever on
\* its way, a node that does not make blocks has none, each block continues one that was
\* made, and hash and height of a head are those of one block.
NobodyLed == \A n \in Node : role[n] = "LEADER" => peers[n] = {}
EachItsOwn ==
  /\ req = {}
  /\ \A n \in Node : up[n] /\ pc[n] # "cut" =>
       \/ hight[n] = 0 /\ preHash[n] = Genesis
       \/ role[n] = "LEADER" /\ \E b \in made : preHash[n] = b /\ hight[n] = b.number + 1
  /\ \A b \in made : \/ b.pre = Genesis /\ b.number = 0
                     \/ b.pre \in made /\ b.number = b.pre.number + 1
AloneSpec == Init /\ [][Next /\ NobodyLed']_vars

\* While one process makes the blocks, no process goes back to an older block, however late
\* a request is handled.
HeightsGrow ==
  [][\A n \in Node : Undisturbed' /\ life'[n] = life[n] => hight'[n] >= hight[n]]_vars
=============================================================================
