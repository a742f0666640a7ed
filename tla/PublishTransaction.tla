-------------------------- MODULE PublishTransaction --------------------------
(***************************************************************************)
(* _publish_trees_transactionally of scripts/workflow_replay.py, one       *)
(* filesystem operation at a time.  Each of them may raise, the process    *)
(* may be interrupted (KeyboardInterrupt is no Exception: the finally runs *)
(* without the rollback) or killed.  Renames are atomic; removing a tree   *)
(* is not.                                                                 *)
(***************************************************************************)
EXTENDS Naturals

CONSTANT N   \* how many trees are published

ASSUME PublishAssumption == N \in Nat \ {0}

Trees == 1..N

VARIABLES
    dest,       \* dest[t]: what is at the destination
    candidate,  \* candidate[t]: does the copy beside it exist?
    backup,     \* backup[t]: its backup root: none, empty, or with the old tree
    moved,      \* moved[t]: backup_moved
    committed,  \* committed[t]: candidate_committed
    prepared,   \* how many entries there are
    at,         \* the operation that is next, and on which tree
    failures,   \* did a step of the rollback fail?
    reply       \* what the caller knows: pending, published, failed, broken

VARIABLE before \* (for the abstraction) what was at the destinations at first

entries == <<candidate, backup, moved, committed, prepared>>
publishVars == <<dest, entries, at, failures, reply, before>>

All(x) == [t \in Trees |-> x]
Turn(place, t) == at' = [place |-> place, tree |-> t]
At(place) == reply = "pending" /\ at.place = place
Reply(r) == reply' = r

PublishInit ==
    /\ dest \in [Trees -> {"absent", "old"}]
    /\ before = dest
    /\ candidate = All(FALSE)
    /\ backup = All("none")
    /\ moved = All(FALSE)
    /\ committed = All(FALSE)
    /\ prepared = 0
    /\ at = [place |-> "prepare", tree |-> 1]
    /\ failures = FALSE
    /\ reply = "pending"

-----------------------------------------------------------------------------
\* The entry is appended when its two directories exist; then the stage is copied.
PrepareTree ==
    /\ At("prepare")
    /\ prepared' = at.tree
    /\ candidate' = [candidate EXCEPT ![at.tree] = TRUE]
    /\ backup' = [backup EXCEPT ![at.tree] = "empty"]
    /\ \/ IF at.tree < N THEN Turn("prepare", at.tree + 1) ELSE Turn("save", 1)
       \/ Turn("remove", at.tree)
    /\ UNCHANGED <<dest, moved, committed, failures, reply, before>>

\* A directory cannot be made: there is no entry for this tree.
PrepareFails ==
    /\ At("prepare")
    /\ IF prepared = 0 THEN Turn("clean", 1) ELSE Turn("remove", prepared)
    /\ UNCHANGED <<dest, entries, failures, reply, before>>

SaveOld ==
    /\ At("save")
    /\ IF dest[at.tree] = "absent"
         THEN UNCHANGED <<dest, backup, moved>>
         ELSE /\ dest' = [dest EXCEPT ![at.tree] = "absent"]
              /\ backup' = [backup EXCEPT ![at.tree] = dest[at.tree]]
              /\ moved' = [moved EXCEPT ![at.tree] = TRUE]
    /\ Turn("commit", at.tree)
    /\ UNCHANGED <<candidate, committed, prepared, failures, reply, before>>

Commit ==
    /\ At("commit")
    /\ dest' = [dest EXCEPT ![at.tree] = "new"]
    /\ candidate' = [candidate EXCEPT ![at.tree] = FALSE]
    /\ committed' = [committed EXCEPT ![at.tree] = TRUE]
    /\ IF at.tree < N THEN Turn("save", at.tree + 1) ELSE Turn("discard", 1)
    /\ UNCHANGED <<backup, moved, prepared, failures, reply, before>>

\* os.replace raises: the last entry is rolled back first.
RenameFails ==
    /\ At("save") \/ At("commit")
    /\ Turn("remove", prepared)
    /\ UNCHANGED <<dest, entries, failures, reply, before>>

-----------------------------------------------------------------------------
\* The rollback goes on with the entry before, or ends.
Previous == IF at.tree > 1 THEN Turn("remove", at.tree - 1) ELSE Turn("clean", 1)

RemoveNew ==
    /\ At("remove")
    /\ dest' = IF committed[at.tree] /\ dest[at.tree] # "absent"
                 THEN [dest EXCEPT ![at.tree] = "absent"] ELSE dest
    /\ Turn("restore", at.tree)
    /\ UNCHANGED <<entries, failures, reply, before>>

\* MUTANT of RestoreOld: only a tree whose candidate was committed is restored.
RestoreCommitted ==
    /\ At("restore")
    /\ IF moved[at.tree] /\ committed[at.tree] /\ backup[at.tree] # "empty"
         THEN /\ dest' = [dest EXCEPT ![at.tree] = backup[at.tree]]
              /\ backup' = [backup EXCEPT ![at.tree] = "empty"]
         ELSE UNCHANGED <<dest, backup>>
    /\ Previous
    /\ UNCHANGED <<candidate, moved, committed, prepared, failures, reply, before>>

RestoreOld ==
    /\ At("restore")
    /\ IF moved[at.tree] /\ backup[at.tree] # "empty"
         THEN /\ dest' = [dest EXCEPT ![at.tree] = backup[at.tree]]
              /\ backup' = [backup EXCEPT ![at.tree] = "empty"]
         ELSE UNCHANGED <<dest, backup>>
    /\ Previous
    /\ UNCHANGED <<candidate, moved, committed, prepared, failures, reply, before>>

\* A step of the rollback raises: it is noted, and the entry before is next.
\* Of a tree that cannot be removed a part may be gone.
RollbackFails ==
    /\ \/ /\ At("remove") /\ committed[at.tree] /\ dest[at.tree] # "absent"
          /\ \/ dest' = [dest EXCEPT ![at.tree] = "torn"]
             \/ UNCHANGED dest
       \/ /\ At("restore") /\ moved[at.tree]
          /\ UNCHANGED dest
    /\ failures' = TRUE
    /\ Previous
    /\ UNCHANGED <<entries, reply, before>>

-----------------------------------------------------------------------------
\* The finally after a failure: backup roots that hold a tree stay.
Clean ==
    /\ At("clean")
    /\ at.tree <= prepared
    /\ candidate' = [candidate EXCEPT ![at.tree] = FALSE]
    /\ backup' = IF backup[at.tree] = "empty"
                   THEN [backup EXCEPT ![at.tree] = "none"] ELSE backup
    /\ Turn("clean", at.tree + 1)
    /\ UNCHANGED <<dest, moved, committed, prepared, failures, reply, before>>

\* Also rmtree in the finally may raise; then the rest of it is left out.
CleanEnds ==
    /\ At("clean")
    /\ Reply(IF failures THEN "broken" ELSE "failed")
    /\ UNCHANGED <<dest, entries, at, failures, before>>

\* The finally after success; a backup that cannot be removed stays.
Discard ==
    /\ At("discard")
    /\ at.tree <= N
    /\ \/ backup' = [backup EXCEPT ![at.tree] = "none"]
       \/ UNCHANGED backup
    /\ Turn("discard", at.tree + 1)
    /\ UNCHANGED <<dest, candidate, moved, committed, prepared, failures, reply, before>>

Succeed ==
    /\ At("discard")
    /\ at.tree > N
    /\ Reply("published")
    /\ UNCHANGED <<dest, entries, at, failures, before>>

\* KeyboardInterrupt: no rollback, then the finally; or the process is killed.
Interrupt ==
    /\ reply = "pending"
    /\ \/ UNCHANGED dest
       \/ /\ at.place = "remove" /\ committed[at.tree]
          /\ dest' = [dest EXCEPT ![at.tree] = "torn"]
    /\ candidate' \in {candidate, All(FALSE)}
    /\ backup' \in {backup, [t \in Trees |-> IF backup[t] = "empty" THEN "none" ELSE backup[t]]}
    /\ Reply("broken")
    /\ UNCHANGED <<moved, committed, prepared, at, failures, before>>

PublishNext ==
    \/ PrepareTree \/ PrepareFails
    \/ SaveOld \/ Commit \/ RenameFails
    \/ RemoveNew \/ RestoreOld \/ RollbackFails
    \/ Clean \/ CleanEnds
    \/ Discard \/ Succeed
    \/ Interrupt

PublishSpec == PublishInit /\ [][PublishNext]_publishVars

-----------------------------------------------------------------------------
Turns == [place : {"prepare", "save", "commit", "remove", "restore", "clean", "discard"},
          tree : 1..(N + 1)]

PublishTypeOK ==
    /\ dest \in [Trees -> {"absent", "old", "new", "torn"}]
    /\ candidate \in [Trees -> BOOLEAN]
    /\ backup \in [Trees -> {"none", "empty", "old"}]
    /\ moved \in [Trees -> BOOLEAN] /\ committed \in [Trees -> BOOLEAN]
    /\ before \in [Trees -> {"absent", "old"}]
    /\ prepared \in 0..N /\ failures \in BOOLEAN
    /\ at \in Turns
    /\ reply \in {"pending", "published", "failed", "broken"}

\* The publication is a transaction: when it returns, either every tree was
\* replaced or every tree is what it was; when it cannot say so, each old tree is
\* in its place or in the backup.  The caller looks at the trees when it is over.
Atomic == INSTANCE AtomicPublication WITH
              trees <- IF reply = "pending" THEN before ELSE dest,
              kept <- IF reply = "broken" THEN {t \in Trees : backup[t] = "old"} ELSE {},
              outcome <- reply

PublishesAtomically == Atomic!AtomicSpec
=============================================================================
