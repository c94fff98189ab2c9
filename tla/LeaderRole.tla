----------------------------- MODULE LeaderRole -----------------------------
(***************************************************************************)
(* What the rest of a consensus node relies on about its raft object: the  *)
(* role a node reports through get_node_role().  consen_node_cache and the *)
(* RPC service branch on that role in every operation and never expect it  *)
(* to change back, so the promise is: a process that has become LEADER     *)
(* stays LEADER for as long as it lives, and it is CANDIDATE just before.  *)
(***************************************************************************)
EXTENDS Naturals

CONSTANT Node           \* the consensus nodes

VARIABLES role,         \* the node_role each node reports
          life          \* how many times each node's process was restarted

vars == <<role, life>>

NodeRole == {"LEADER", "CANDIDATE", "FOLLOWER"}

Init == /\ role = [n \in Node |-> "FOLLOWER"]
        /\ life = [n \in Node |-> 0]

\* A living process moves between roles; no move starts from LEADER.
Move(n, from, to) == /\ role[n] = from
                     /\ role' = [role EXCEPT ![n] = to]
                     /\ UNCHANGED life

Stand(n) == Move(n, "FOLLOWER", "CANDIDATE")
Win(n)   == Move(n, "CANDIDATE", "LEADER")
Lose(n)  == Move(n, "CANDIDATE", "FOLLOWER")

\* A new process starts as a FOLLOWER whatever the old one was.
Reborn(n) == /\ role' = [role EXCEPT ![n] = "FOLLOWER"]
             /\ life' = [life EXCEPT ![n] = @ + 1]

Next == \E n \in Node : Stand(n) \/ Win(n) \/ Lose(n) \/ Reborn(n)

Spec == Init /\ [][Next]_vars
=============================================================================
