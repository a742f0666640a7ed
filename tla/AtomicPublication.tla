-------------------------- MODULE AtomicPublication --------------------------
(***************************************************************************)
(* What scripts/workflow_replay.py promises of a publication of several    *)
(* trees: all of them are replaced or none is.  Where that cannot be kept  *)
(* (the process was stopped, or the rollback failed too) the caller is not *)
(* told that it was, and every tree that was there can still be found:     *)
(* in its place, or in the backup beside it.                               *)
(***************************************************************************)
CONSTANT Trees

VARIABLES
    trees,   \* trees[t]: what the destination of t holds
    kept,    \* the trees whose previous content is in a backup
    outcome

atomicVars == <<trees, kept, outcome>>

Holds == {"absent", "old", "new", "torn"}

AtomicInit ==
    /\ trees \in [Trees -> {"absent", "old"}]
    /\ kept = {}
    /\ outcome = "pending"

Publish ==
    /\ outcome = "pending"
    /\ outcome' = "published"
    /\ trees' = [t \in Trees |-> "new"]
    /\ kept' = kept

Refuse ==
    /\ outcome = "pending"
    /\ outcome' = "failed"
    /\ UNCHANGED <<trees, kept>>

Recoverable(t) == trees[t] = "old" => (trees'[t] = "old" \/ t \in kept')

Break ==
    /\ outcome = "pending"
    /\ outcome' = "broken"
    /\ kept' \in SUBSET Trees
    /\ trees' \in [Trees -> Holds]
    /\ \/ \A t \in Trees : trees'[t] = "new"
       \/ \A t \in Trees : Recoverable(t)

AtomicNext == Publish \/ Refuse \/ Break

AtomicSpec == AtomicInit /\ [][AtomicNext]_atomicVars
=============================================================================
