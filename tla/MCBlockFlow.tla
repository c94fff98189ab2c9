---------------------------- MODULE MCBlockFlow ----------------------------
(***************************************************************************)
(* BlockFlow for TLC; consensus nodes differ only in their names.          *)
(***************************************************************************)
EXTENDS BlockFlow, TLC

NodeSymmetry == Permutations(Node)

\* Bound of the run: it ends in the first state in which what Undisturbed excludes has
\* happened or the process that makes the blocks is no more, and nobody starts again
\* before there is a block.
OneMaker ==
  /\ Undisturbed
  /\ \A <<n, k>> \in makers : up[n] /\ life[n] = k
  /\ made = {} => Restarts = 0
=============================================================================
