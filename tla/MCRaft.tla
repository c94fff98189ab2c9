------------------------------- MODULE MCRaft -------------------------------
(***************************************************************************)
(* Raft for TLC: the values of the node set and the symmetry of its names. *)
(* The .cfg of each run gives the other constants.                         *)
(***************************************************************************)
EXTENDS Raft, TLC

CONSTANTS A, B, C

Two   == {A, B}
Three == {A, B, C}

\* Bound of the three-node run: A and B stand for election and C only votes, and the run
\* ends where heartbeats begin.
TwoStand == pc[C] = "idle" /\ \A n \in Node : pc[n] # "heartbeat"
CandidateSymmetry == Permutations({A, B})

\* Nodes differ only in their names; sound for the runs without liveness properties.
NodeSymmetry == Permutations(Node)
=============================================================================
