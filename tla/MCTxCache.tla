----------------------------- MODULE MCTxCache -----------------------------
(***************************************************************************)
(* TxCache for TLC; the transactions differ only in their names.           *)
(***************************************************************************)
EXTENDS TxCache, TLC

TxSymmetry == Permutations(Tx)
=============================================================================
