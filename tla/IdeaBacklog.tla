----------------------------- MODULE IdeaBacklog -----------------------------
(***************************************************************************)
(* What the backlog of skill ideas promises to its reader: an idea enters  *)
(* once, is attempted while it is pending, or has failed in a way worth a  *)
(* retry and has a retry left, and keeps every other verdict for good,     *)
(* unless a run that could not read the backlog writes it: then all is     *)
(* begun anew.                                                             *)
(* SkillGeneration.tla implements it with files, a lock and a git tree.    *)
(***************************************************************************)
EXTENDS Naturals

CONSTANTS Ideas, MaxRetries

VARIABLES
    entry,   \* entry[i]: the status and retry_count of idea i
    blind    \* is there a run at work that could not read the entries?

Retryable == {"design_failed", "pr_failed"}
Verdicts  == Retryable \cup {"review_failed", "unexpected_changes", "pr_open", "completed"}

Open(e) ==
    \/ e.status = "pending"
    \/ e.status \in Retryable /\ e.retries <= MaxRetries

BacklogInit ==
    /\ entry = [i \in Ideas |-> [status |-> "absent", retries |-> 0]]
    /\ blind = FALSE

\* The weekly run adds ideas it has not seen, some of them as duplicates.
Enter ==
    /\ ~blind /\ UNCHANGED blind
    /\ \E new \in [{i \in Ideas : entry[i].status = "absent"} ->
                       {"absent", "pending", "duplicate"}] :
         entry' = [i \in Ideas |-> IF i \in DOMAIN new
                                     THEN [entry[i] EXCEPT !.status = new[i]]
                                     ELSE entry[i]]

\* The daily run gives its verdict on an idea that was open.
Judge ==
    /\ ~blind /\ UNCHANGED blind
    /\ \E i \in Ideas, v \in Verdicts :
         /\ Open(entry[i])
         /\ entry' = [entry EXCEPT ![i] =
                         [status  |-> v,
                          retries |-> @.retries + (IF v \in Retryable THEN 1 ELSE 0)]]

\* A run fails to read the entries, or ends without having written them.
Look ==
    /\ blind' = ~blind
    /\ UNCHANGED entry

\* The run that could not read them writes what it has come up with itself.
BeginAnew ==
    /\ blind /\ ~blind'
    /\ \E new \in [Ideas -> {"absent", "pending", "duplicate"}] :
         entry' = [i \in Ideas |-> [status |-> new[i], retries |-> 0]]

BacklogNext == Enter \/ Judge \/ Look \/ BeginAnew

BacklogSpec == BacklogInit /\ [][BacklogNext]_<<entry, blind>>
=============================================================================
