------------------------------- MODULE Gossip -------------------------------
(***************************************************************************)
(* The store nodes ask each other who has not received a block yet:        *)
(* unreceived_before calls ReceivedBlockBefore of every neighbour, waits   *)
(* for all and erases those whose call failed.  The handler compares the   *)
(* block with the height and hash that the node expects next, which nothing*)
(* in the code ever sets: it expects height 0 after the empty hash.        *)
(***************************************************************************)
EXTENDS Naturals

CONSTANTS
  Node,      \* the store nodes
  Message    \* what a NewBlockMsg may ask about: a number and a pre_hash

VARIABLES
  up,           \* the nodes whose service answers
  neighbours,   \* keys of _other_nodes and of _rpc_channels, which are the same
  asked,        \* the message of a running unreceived_before, or Nothing
  call,         \* each of its calls: "none", "sent", "received", "unreceived", "failed"
  unreceived,   \* what the last unreceived_before returned
  failed        \* the neighbours a call to which failed in this life (history)

vars == <<up, neighbours, asked, call, unreceived, failed>>

Nothing == [number |-> 0, pre_hash |-> "none"]
First == [number |-> 0, pre_hash |-> ""]

Others(n) == Node \ {n}
NoCalls == [m \in Node |-> "none"]

Init ==
  /\ up = {}
  /\ neighbours = [n \in Node |-> {}]
  /\ asked = [n \in Node |-> Nothing]
  /\ call = [n \in Node |-> NoCalls]
  /\ unreceived = [n \in Node |-> {}]
  /\ failed = [n \in Node |-> {}]

\* A process builds its gossip object and starts its server.
Serve(n) ==
  /\ n \notin up
  /\ up' = up \union {n}
  /\ neighbours' = [neighbours EXCEPT ![n] = Others(n)]
  /\ UNCHANGED <<asked, call, unreceived, failed>>

\* The process ends, with what it had in memory.
Stop(n) ==
  /\ up' = up \ {n}
  /\ neighbours' = [neighbours EXCEPT ![n] = {}]
  /\ asked' = [asked EXCEPT ![n] = Nothing]
  /\ call' = [call EXCEPT ![n] = NoCalls]
  /\ unreceived' = [unreceived EXCEPT ![n] = {}]
  /\ failed' = [failed EXCEPT ![n] = {}]

\* unreceived_before sends its calls.
Ask(n, msg) ==
  /\ n \in up /\ asked[n] = Nothing
  /\ asked' = [asked EXCEPT ![n] = msg]
  /\ call' = [call EXCEPT ![n] = [m \in Node |-> IF m \in neighbours[n] THEN "sent" ELSE "none"]]
  /\ UNCHANGED <<up, neighbours, unreceived, failed>>

\* What ReceivedBlockBefore answers, whether or not the node has the block: the object is
\* as it was built.
Answer(msg) == IF msg = First THEN "unreceived" ELSE "received"

\* m handles n's call and the answer comes in time.
ReceivedBlockBefore(n, m) ==
  /\ call[n][m] = "sent" /\ m \in up
  /\ call' = [call EXCEPT ![n][m] = Answer(asked[n])]
  /\ UNCHANGED <<up, neighbours, asked, unreceived, failed>>

\* The call fails: nobody listens, or three retries of 100 ms have passed.
CallFails(n, m) ==
  /\ call[n][m] = "sent"
  /\ call' = [call EXCEPT ![n][m] = "failed"]
  /\ failed' = [failed EXCEPT ![n] = @ \union {m}]
  /\ UNCHANGED <<up, neighbours, asked, unreceived>>

With(n, outcome) == {m \in Node : call[n][m] = outcome}

\* mutant: whoever did not answer has_received is erased.
EndRoundErasing(n) ==
  /\ asked[n] # Nothing /\ With(n, "sent") = {}
  /\ neighbours' = [neighbours EXCEPT ![n] = @ \intersect With(n, "received")]
  /\ unreceived' = [unreceived EXCEPT ![n] = With(n, "unreceived")]
  /\ asked' = [asked EXCEPT ![n] = Nothing]
  /\ UNCHANGED <<up, call, failed>>

\* mutant: a call that failed is waited for.
EndRoundWaits(n) ==
  /\ asked[n] # Nothing /\ With(n, "sent") \union With(n, "failed") = {}
  /\ unreceived' = [unreceived EXCEPT ![n] = With(n, "unreceived")]
  /\ asked' = [asked EXCEPT ![n] = Nothing]
  /\ UNCHANGED <<up, neighbours, call, failed>>

\* All calls are joined.
EndRound(n) ==
  /\ asked[n] # Nothing /\ With(n, "sent") = {}
  /\ neighbours' = [neighbours EXCEPT ![n] = @ \ With(n, "failed")]
  /\ unreceived' = [unreceived EXCEPT ![n] = With(n, "unreceived")]
  /\ asked' = [asked EXCEPT ![n] = Nothing]
  /\ UNCHANGED <<up, call, failed>>

Round(n) ==
  \/ \E msg \in Message : Ask(n, msg)
  \/ \E m \in Node : ReceivedBlockBefore(n, m) \/ CallFails(n, m)
  \/ EndRound(n)
=============================================================================
