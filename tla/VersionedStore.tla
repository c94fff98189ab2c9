--------------------------- MODULE VersionedStore ---------------------------
(***************************************************************************)
(* What statusdb promises of the world state: it changes only by a whole   *)
(* block all of whose reads are what the state holds, and a loss of power  *)
(* takes back a number of the latest blocks, whole ones, never part of one.*)
(***************************************************************************)
EXTENDS Blocks

VARIABLES store,   \* the world state
          kept     \* what of it would outlive a loss of power

vars == <<store, kept>>

Init == /\ store = [k \in Key |-> Absent]
        /\ kept = store

Commit(b) == /\ Current(b, store)
             /\ store' = Written(b, store)
             /\ UNCHANGED kept

Keep == /\ kept' = store
        /\ UNCHANGED store

Lose == /\ store' = kept
        /\ UNCHANGED kept

Next == (\E b \in Block : Commit(b)) \/ Keep \/ Lose

Spec == Init /\ [][Next]_vars
=============================================================================
