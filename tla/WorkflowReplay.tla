---------------------------- MODULE WorkflowReplay ----------------------------
(***************************************************************************)
(* generate_goldens and execute_replay of scripts/workflow_replay.py: the  *)
(* variants of the workflows are replayed one after the other into a       *)
(* temporary directory, then all their trees are published at once.        *)
(*                                                                         *)
(* A replay runs the enabled steps in order.  Each step's executor reads   *)
(* the artifacts it consumes and leaves the one it produces in the stage;  *)
(* it has the whole stage at hand and may damage earlier artifacts there.  *)
(***************************************************************************)
EXTENDS PublishTransaction

CONSTANTS
    Steps,     \* the steps of the workflow, 1 to some number
    Consumes,  \* Consumes[n]: the steps whose artifacts step n reads
    Optional,  \* optional steps
    Halts,     \* steps whose gate policy ends the replay
    Enabled,   \* Enabled[t]: the steps that variant t enables
    NotStaged

\* A file is missing, as it should be, or not: changed by another step than its
\* own, or computed from a changed one.
Contents == {"none", "pure", "tainted"}

ASSUME ReplayAssumption ==
    /\ Steps \subseteq Nat
    /\ Consumes \in [Steps -> SUBSET Steps]
    /\ \A n \in Steps : \A k \in Consumes[n] : k < n
    /\ Optional \subseteq Steps /\ Halts \subseteq Steps
    /\ Enabled \in [Trees -> SUBSET Steps]
    /\ NotStaged \notin [Steps -> Contents]

VARIABLES
    replaying,  \* the tree whose replay is at work, N + 1 when all are staged
    stage,      \* stage[n]: the file of step n's artifact
    sealed,     \* sealed[n]: what its digest said when the step ended
    staged      \* staged[t]: the tree that the replay of t left

replayVars == <<publishVars, replaying, stage, sealed, staged>>

Empty == [n \in Steps |-> "none"]

ReplayInit ==
    /\ PublishInit
    /\ replaying = 1
    /\ stage = Empty
    /\ sealed = Empty
    /\ staged = [t \in Trees |-> NotStaged]

Produced == {n \in Steps : sealed[n] # "none"}

\* The enabled steps that come before n, and those that are still to run.
Halted  == Produced \cap Halts # {}
Pending == {n \in Enabled[replaying] : \A k \in Produced : k < n}
IsNext(n) == n \in Pending /\ \A k \in Pending : n <= k

\* _validate_artifact_files
FilesThere(files, ids) == \A n \in ids : files[n] # "none"

Replaying == reply = "pending" /\ replaying <= N

\* One step of a replay: what it consumes is there, and all files are before and
\* after it.  If it damages an earlier artifact that is not noticed yet.
RunStep(n) ==
    /\ Replaying
    /\ ~Halted
    /\ IsNext(n)
    /\ Consumes[n] \ Produced \subseteq Optional
    /\ FilesThere(stage, Produced)
    /\ LET read == Consumes[n] \cap Produced
           made == IF \E k \in read : stage[k] = "tainted" THEN "tainted" ELSE "pure"
       IN  /\ \E damaged \in SUBSET Produced :
                  stage' = [k \in Steps |-> IF k = n THEN made
                                            ELSE IF k \in damaged THEN "tainted"
                                            ELSE stage[k]]
           /\ sealed' = [sealed EXCEPT ![n] = made]
    /\ UNCHANGED <<publishVars, replaying, staged>>

\* MUTANT of StageTree: the digests of the last step only are compared.
StageUnsealed ==
    /\ Replaying
    /\ Halted \/ Pending = {}
    /\ FilesThere(stage, Produced)
    /\ \A n \in Produced : (\A k \in Produced : k <= n) => stage[n] = sealed[n]
    /\ staged' = [staged EXCEPT ![replaying] = stage]
    /\ replaying' = replaying + 1
    /\ stage' = Empty
    /\ sealed' = Empty
    /\ UNCHANGED publishVars

\* The final digests must be the sealed ones.
StageTree ==
    /\ Replaying
    /\ Halted \/ Pending = {}
    /\ FilesThere(stage, Produced)
    /\ \A n \in Produced : stage[n] = sealed[n]
    /\ staged' = [staged EXCEPT ![replaying] = stage]
    /\ replaying' = replaying + 1
    /\ stage' = Empty
    /\ sealed' = Empty
    /\ UNCHANGED publishVars

\* An executor raises or one of the checks does: nothing is published.
ReplayFails ==
    /\ Replaying
    /\ Reply("failed")
    /\ UNCHANGED <<dest, entries, at, failures, before, replaying, stage, sealed, staged>>

PublishStaged ==
    /\ replaying > N
    /\ PublishNext
    /\ UNCHANGED <<replaying, stage, sealed, staged>>

ReplayNext ==
    \/ \E n \in Steps : RunStep(n)
    \/ StageTree
    \/ ReplayFails
    \/ PublishStaged

ReplaySpec == ReplayInit /\ [][ReplayNext]_replayVars

-----------------------------------------------------------------------------
ReplayTypeOK ==
    /\ PublishTypeOK
    /\ replaying \in 1..(N + 1)
    /\ stage \in [Steps -> Contents] /\ sealed \in [Steps -> Contents]
    /\ staged \in [Trees -> [Steps -> Contents] \cup {NotStaged}]

\* The steps of variant t up to the one that halts it.
Runs(t) == {n \in Enabled[t] : \A k \in Enabled[t] \cap Halts : n <= k}

\* A tree that is published holds the artifact of every step its variant runs and
\* of no other, and none that another step has damaged or that was computed from
\* a damaged one, even if the damage was done after it was sealed.
PublishedPure ==
    \A t \in Trees : dest[t] = "new" =>
        /\ staged[t] # NotStaged
        /\ \A n \in Steps : staged[t][n] = (IF n \in Runs(t) THEN "pure" ELSE "none")
=============================================================================
