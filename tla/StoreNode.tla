----------------------------- MODULE StoreNode -----------------------------
(***************************************************************************)
(* A store node among others: its process recovers the world state first   *)
(* and only then serves (the order of main), so to its neighbours it is    *)
(* away while it recovers, and a neighbour that asks then forgets it.      *)
(* Self is modelled with its world state, the other nodes by their service.*)
(***************************************************************************)
EXTENDS StatusDb

CONSTANTS Node, Message, Self

VARIABLES up, neighbours, asked, call, unreceived, failed

gossip == <<up, neighbours, asked, call, unreceived, failed>>
all == <<vars, gossip>>

G == INSTANCE Gossip

ASSUME NodeAssumption == Self \in Node /\ G!Nothing \notin Message

NodeInit == Init /\ G!Init

\* A step of the recovery, which may be its end by a full pool or a full stack.
Recovers == Recover /\ IF pc' = "down" THEN G!Stop(Self) ELSE UNCHANGED gossip

Fails == Fault /\ G!Stop(Self)

\* The services come after get_statusdb.
Serves == pc = "ready" /\ G!Serve(Self) /\ UNCHANGED vars

\* Another node starts or ends; its own recovery is not looked at.
OtherNode == /\ \E n \in Node \ {Self} : G!Serve(n) \/ (n \in up /\ G!Stop(n))
             /\ UNCHANGED vars

Asks == (\E n \in Node : G!Round(n)) /\ UNCHANGED vars

NodeNext ==
  \/ (Start \/ Flush) /\ UNCHANGED gossip
  \/ Recovers \/ Fails \/ Serves \/ OtherNode \/ Asks

NodeSpec ==
  /\ NodeInit /\ [][NodeNext]_all
  /\ WF_all(Recovers)
  /\ \A n \in Node : WF_all((G!EndRound(n) \/ \E m \in Node : G!CallFails(n, m)) /\ UNCHANGED vars)

-----------------------------------------------------------------------------
TypeOK ==
  /\ hasDir \in BOOLEAN /\ files \in Files
  /\ db \in State /\ disk \in State
  /\ log \in Seq(Block) /\ diskLog \in Seq(Block)
  /\ pc \in {"down", "mkdir", "files", "parse", "read", "ready"}
  /\ file \in 0..Len(files) /\ size \in 0..3
  /\ block \in Block \union {NoBlock}
  /\ tx \in 1..(Len(block.txs) + 1)
  /\ rd \in Nat \ {0} /\ (InTx => rd <= Len(block.txs[tx].rd) + 1)
  /\ used \in 0..PoolSize /\ blockNumber \in Nat
  /\ fileNumber \in {0, Len(files) + 1}
  /\ starts \in 0..MaxStart
  /\ up \subseteq Node
  /\ \A n \in Node :
       /\ neighbours[n] \subseteq G!Others(n) /\ unreceived[n] \subseteq G!Others(n)
       /\ asked[n] \in Message \union {G!Nothing}
       /\ call[n] \in [Node -> {"none", "sent", "received", "unreceived", "failed"}]
       /\ failed[n] \subseteq G!Others(n)

\* The world state changes only by whole blocks that were current when they were written,
\* wherever the process or the machine died: statusdb implements VersionedStore.
Store == INSTANCE VersionedStore WITH store <- db, kept <- disk
StoreSpec == Store!Spec

\* Recovery runs over the same files at every start, and over a state that has them
\* already.  What keeps a block from being applied again is only its own reads: a block is
\* in the state twice only if one written from then to now did not read each key it
\* wrote with a lower number than its own.
ReplayExplained ==
  \A j \in DOMAIN log : \A i \in 1..(j - 1) :
     log[i] = log[j] => \E k \in i..j : ~Forward(log[k])

\* A recovery that finds its directory ends: the node is ready, or its process is gone.
\* The loops are over files that run out, and over a length that may be anything.
RecoveryEnds == pc = "files" ~> pc \in {"ready", "down"}

\* Whoever unreceived_before leaves out of its answer has answered has_received in that
\* round, or has failed a call in this life of the node: nobody is skipped otherwise, in
\* whichever round after whichever failures.  Before a first round all are neighbours.
\* It is said of the answer and not of the block: no node records what it has received.
NobodySkipped ==
  \A n \in up : asked[n] = G!Nothing =>
     \A m \in G!Others(n) \ unreceived[n] :
        \/ call[n][m] = "received" \/ m \in failed[n]
        \/ call[n] = G!NoCalls /\ m \in neighbours[n]

\* unreceived_before comes back, whichever neighbours die or recover meanwhile.
RoundEnds == \A n \in Node : asked[n] # G!Nothing ~> asked[n] = G!Nothing
=============================================================================
