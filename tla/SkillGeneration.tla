--------------------------- MODULE SkillGeneration ---------------------------
(***************************************************************************)
(* scripts/run_skill_generation_pipeline.py: the weekly run mines ideas    *)
(* into a backlog file, the daily run turns the best open idea into a      *)
(* branch and a pull request.  Both work in the repository the operator    *)
(* uses, under one PID lock; either may be killed at any step.  A process  *)
(* that has ended or died may be launched again.                           *)
(*                                                                         *)
(* Git, GitHub, the designer (claude -p) and the reviewer are external:    *)
(* each of their calls succeeds or fails, and the designer may also write  *)
(* where it should not.  A killed run's children are taken to die with it. *)
(* Any read of the backlog may fail: a file that is not there to read, or  *)
(* that a hand has left without its shape, is taken for an empty backlog.  *)
(***************************************************************************)
EXTENDS Naturals, FiniteSets

CONSTANTS
    Ideas,      \* the ids miners come up with; an idea's skill has its name
    Composite,  \* Composite[i]: the score that orders the ideas
    Worthwhile, \* the ideas whose trading_value is at least MIN_TRADING_VALUE
    Daily,      \* processes launched with --mode daily
    Weekly,     \* processes launched with --mode weekly
    MaxRetries, \* MAX_RETRIES
    Staggered,  \* is no launch within another's check and write of the lock?
    MaxCuts,    \* bound: how many runs are killed in, or raise out of, an attempt
    Main, Free, Stale, None,
    Unread      \* what a run has read of a backlog it could not read

Retryable == {"design_failed", "pr_failed"}
Verdicts  == Retryable \cup {"review_failed", "unexpected_changes", "pr_open", "completed"}

ASSUME GenAssumption ==
    /\ Composite \in [Ideas -> Nat]
    /\ Worthwhile \subseteq Ideas
    /\ Daily \cap Weekly = {}
    /\ MaxRetries \in Nat /\ MaxCuts \in Nat
    /\ Staggered \in BOOLEAN
    /\ Main \notin Ideas /\ None \notin Ideas \cup Verdicts \cup {Unread}
    /\ Free # Stale /\ {Free, Stale} \cap (Daily \cup Weekly) = {}

VARIABLES
    lock,     \* the lock file: whose pid it holds, Stale (a dead one's), or Free
    pc,       \* pc[p]: where process p is
    backlog,  \* the backlog file: status and retry_count of each idea
    draft,    \* draft[p]: the backlog as run p has read it to write it, or Unread
    chosen,   \* chosen[d]: the idea daily run d works on
    verdict,  \* verdict[d]: the status d is about to record
    created,  \* created[d]: created_branch
    tree,     \* the working tree: branch, commit on it, and what is not committed
    skills,   \* skills merged on main: here, and at the origin
    remote,   \* the ideas whose branch is on the origin
    pr        \* pr[i]: the state of the pull request of i's branch

\* Variables that only the properties read.
VARIABLES
    designs,  \* designs[i]: attempts on i that started the designer, without cuts
    prs,      \* prs[i]: pull requests of i whose creation a run recorded, or will;
              \* both since the backlog was last begun anew
    cuts,     \* how many attempts were killed, or raised
    excused   \* may the last runs have left the tree unready for the next one?

files  == <<backlog, tree, skills, remote, pr>>
local  == <<draft, chosen, verdict, created>>
ghosts == <<designs, prs, cuts, excused>>
genVars == <<lock, pc, files, local, ghosts>>

Procs     == Daily \cup Weekly
Statuses  == Verdicts \cup {"absent", "pending", "duplicate"}

\* Places where a daily run has checked out its branch.
OnBranch == {"design", "check", "review", "check_again", "commit", "push", "open",
             "return", "rollback"}
Places   == OnBranch \cup {"idle", "locking", "select", "gate", "find_pr", "branch",
                           "record", "replace", "finish", "mine", "load", "save"}

Nothing == [i \in Ideas |-> [status |-> "absent", retries |-> 0]]
Zeros   == [i \in Ideas |-> 0]

CleanTree == [branch |-> Main, commit |-> FALSE, skill |-> {}, stray |-> FALSE,
              journal |-> FALSE]

GenInit ==
    /\ lock = Free
    /\ pc = [p \in Procs |-> "idle"]
    /\ backlog = Nothing
    /\ draft = [p \in Procs |-> None]
    /\ chosen = [d \in Daily |-> None]
    /\ verdict = [d \in Daily |-> None]
    /\ created = [d \in Daily |-> FALSE]
    /\ tree = CleanTree
    /\ skills = [here |-> {}, origin |-> {}]
    /\ remote = {}
    /\ pr = [i \in Ideas |-> "none"]
    /\ designs = Zeros
    /\ prs = Zeros
    /\ cuts = 0
    /\ excused = FALSE

GoTo(p, place) == pc' = [pc EXCEPT ![p] = place]
Judge(d, v)    == verdict' = [verdict EXCEPT ![d] = v]
Plus(f, i)     == [f EXCEPT ![i] = @ + 1]

-----------------------------------------------------------------------------
(* The lock: the file is looked at in one step and written in another.     *)

\* MUTANT of CheckLock: a launch does not look whether the pid is alive.
CheckLockBlindly(p) ==
    /\ pc[p] = "idle"
    /\ lock' = Free
    /\ GoTo(p, "locking")
    /\ UNCHANGED <<files, local, ghosts>>

\* A live pid in the file sends the run home; a dead one's file is removed.
CheckLock(p) ==
    /\ pc[p] = "idle"
    /\ lock \notin Procs
    /\ Staggered => \A q \in Procs : pc[q] # "locking"
    /\ lock' = Free
    /\ GoTo(p, "locking")
    /\ UNCHANGED <<files, local, ghosts>>

WriteLock(p) ==
    /\ pc[p] = "locking"
    /\ lock' = p
    /\ GoTo(p, IF p \in Daily THEN "select" ELSE "mine")
    /\ UNCHANGED <<files, local, ghosts>>

-----------------------------------------------------------------------------
(* The backlog file: read, and later replaced as a whole.                  *)

\* load_backlog: a file that cannot be read, parsed or is no mapping is taken for
\* an empty backlog.
ReadBacklog(p) ==
    draft' \in {[draft EXCEPT ![p] = backlog], [draft EXCEPT ![p] = Unread]}

AsRead(p) == IF draft[p] = Unread THEN Nothing ELSE draft[p]

\* What p has read is written back as new, and p is done with it.
ReplaceBacklog(p, new) ==
    /\ backlog' = new
    /\ IF draft[p] = Unread THEN designs' = Zeros /\ prs' = Zeros
                            ELSE UNCHANGED <<designs, prs>>

DropDraft(p) == draft' = [draft EXCEPT ![p] = None]

-----------------------------------------------------------------------------
(* The daily run, up to its branch.                                        *)

Eligible ==
    {i \in Worthwhile :
        \/ backlog[i].status = "pending"
        \/ backlog[i].status \in Retryable /\ backlog[i].retries <= MaxRetries}

\* Runtime deduplication: skills/<name>/SKILL.md exists in the working tree.
OnDisk(i) ==
    \/ i \in skills.here \cup tree.skill
    \/ tree.branch = i /\ tree.commit

\* Pending ideas first, then by composite score.
Precedes(i, j) ==
    LET rank(k) == IF backlog[k].status = "pending" THEN 0 ELSE 1
    IN  \/ rank(i) < rank(j)
        \/ rank(i) = rank(j) /\ Composite[i] > Composite[j]

\* No idea is open, or none is seen because the file could not be read.
SelectIdea(d) ==
    LET open == {i \in Eligible : ~OnDisk(i)}
    IN  /\ pc[d] = "select"
        /\ \/ /\ GoTo(d, "finish")
              /\ UNCHANGED chosen
           \/ \E i \in open :
                /\ \A j \in open : ~Precedes(j, i)
                /\ chosen' = [chosen EXCEPT ![d] = i]
                /\ GoTo(d, "gate")
        /\ UNCHANGED <<lock, files, draft, verdict, created, ghosts>>

\* git_safe_check: tracked changes under state/ pass, all others do not; then
\* git pull --ff-only, which may fail for the network.
SafeTree == tree.branch = Main /\ tree.skill = {} /\ ~tree.stray

GitSafeCheck(d) ==
    /\ pc[d] = "gate"
    /\ \/ /\ GoTo(d, "finish")
          /\ UNCHANGED skills
       \/ /\ SafeTree
          /\ skills' = [skills EXCEPT !.here = skills.origin]
          /\ GoTo(d, "find_pr")
    /\ UNCHANGED <<lock, backlog, tree, remote, pr, local, ghosts>>

\* MUTANT of CheckExistingPr: the status to record is left unset.
CheckExistingPrUnjudged(d) ==
    /\ pc[d] = "find_pr"
    /\ GoTo(d, IF pr[chosen[d]] = "open" THEN "record" ELSE "branch")
    /\ UNCHANGED <<lock, files, local, ghosts>>

\* gh pr list --state open; a failing gh is read as "no pull request".
CheckExistingPr(d) ==
    /\ pc[d] = "find_pr"
    /\ \/ /\ pr[chosen[d]] = "open"
          /\ Judge(d, "pr_open")
          /\ GoTo(d, "record")
       \/ /\ GoTo(d, "branch")
          /\ UNCHANGED verdict
    /\ UNCHANGED <<lock, files, draft, chosen, created, ghosts>>

\* The stale local branch is deleted and a new one made from main.
CreateBranch(d) ==
    /\ pc[d] = "branch"
    /\ \/ /\ tree.branch = Main
          /\ tree' = [tree EXCEPT !.branch = chosen[d], !.commit = FALSE]
          /\ created' = [created EXCEPT ![d] = TRUE]
          /\ GoTo(d, "design")
       \/ /\ GoTo(d, "finish")
          /\ UNCHANGED <<tree, created>>
    /\ UNCHANGED <<lock, backlog, skills, remote, pr, draft, chosen, verdict, ghosts>>

-----------------------------------------------------------------------------
(* The daily run, on its branch.                                           *)

\* claude -p writes the skill, or part of it, or elsewhere; design_skill
\* succeeds only if SKILL.md is there in the end.
DesignSkill(d) ==
    LET i == chosen[d]
    IN  /\ pc[d] = "design"
        /\ \E written, elsewhere, ok \in BOOLEAN :
             /\ ok => written \/ i \in skills.here
             /\ tree' = [tree EXCEPT !.skill = IF written THEN @ \cup {i} ELSE @,
                                     !.stray = @ \/ elsewhere]
             /\ \/ ok  /\ GoTo(d, "check") /\ UNCHANGED verdict
                \/ ~ok /\ GoTo(d, "rollback") /\ Judge(d, "design_failed")
        /\ designs' = Plus(designs, i)
        /\ UNCHANGED <<lock, backlog, skills, remote, pr, draft, chosen, created,
                       prs, cuts, excused>>

\* _check_unexpected_changes: everything outside the skill, its docs and
\* reports/ counts, changes under state/ included.
Unexpected == tree.stray \/ tree.journal

CheckChanges(d) ==
    /\ pc[d] \in {"check", "check_again"}
    /\ \/ /\ Unexpected
          /\ Judge(d, "unexpected_changes")
          /\ GoTo(d, "record")
       \/ /\ ~Unexpected
          /\ GoTo(d, IF pc[d] = "check" THEN "review" ELSE "commit")
          /\ UNCHANGED verdict
    /\ UNCHANGED <<lock, files, draft, chosen, created, ghosts>>

\* The attempt d is at ends without a verdict.  It has started the designer unless
\* it is about to, or has found a pull request before.
CutOff(d) ==
    /\ cuts < MaxCuts
    /\ cuts' = cuts + 1
    /\ designs' = IF pc[d] = "design" \/ verdict[d] = "pr_open"
                    THEN designs ELSE [designs EXCEPT ![chosen[d]] = @ - 1]
    /\ excused' = TRUE

\* The pull request d has opened is not going to be recorded.
Unrecorded(d) ==
    prs' = IF verdict[d] = "completed" THEN [prs EXCEPT ![chosen[d]] = @ - 1] ELSE prs

\* review_and_improve: scored, improved at most once, scored again.  Unexpected
\* changes of the improver fail the review; the reviewer may time out, which
\* nobody catches.
ReviewAndImprove(d) ==
    /\ pc[d] = "review"
    /\ \E elsewhere \in BOOLEAN :
         /\ tree' = [tree EXCEPT !.stray = @ \/ elsewhere]
         /\ \/ ~elsewhere /\ GoTo(d, "check_again") /\ UNCHANGED <<verdict, designs, cuts, excused>>
            \/ GoTo(d, "rollback") /\ Judge(d, "review_failed") /\ UNCHANGED <<designs, cuts, excused>>
            \/ GoTo(d, "finish") /\ CutOff(d) /\ UNCHANGED verdict
    /\ UNCHANGED <<lock, backlog, skills, remote, pr, draft, chosen, created, prs>>

\* create_skill_pr, up to the commit; the generator of the docs may time out.
CommitSkill(d) ==
    /\ pc[d] = "commit"
    /\ \/ /\ tree' = [tree EXCEPT !.commit = TRUE, !.skill = @ \ {chosen[d]}]
          /\ GoTo(d, "push")
          /\ UNCHANGED <<verdict, designs, cuts, excused>>
       \/ /\ GoTo(d, "rollback") /\ Judge(d, "pr_failed")
          /\ UNCHANGED <<tree, designs, cuts, excused>>
       \/ /\ GoTo(d, "finish") /\ CutOff(d)
          /\ UNCHANGED <<tree, verdict>>
    /\ UNCHANGED <<lock, backlog, skills, remote, pr, draft, chosen, created, prs>>

\* git push without force: a branch left at the origin by an earlier attempt
\* has another history, and the push is refused.
PushBranch(d) ==
    /\ pc[d] = "push"
    /\ \/ /\ chosen[d] \notin remote
          /\ remote' = remote \cup {chosen[d]}
          /\ GoTo(d, "open")
          /\ UNCHANGED verdict
       \/ /\ GoTo(d, "rollback") /\ Judge(d, "pr_failed")
          /\ UNCHANGED remote
    /\ UNCHANGED <<lock, backlog, tree, skills, pr, draft, chosen, created, ghosts>>

\* gh pr create; it may succeed and print something that is not a URL.
OpenPr(d) ==
    LET i == chosen[d]
    IN  /\ pc[d] = "open"
        /\ \/ /\ pr[i] # "open"
              /\ pr' = [pr EXCEPT ![i] = "open"]
              /\ \/ GoTo(d, "return") /\ Judge(d, "completed") /\ prs' = Plus(prs, i)
                 \/ GoTo(d, "rollback") /\ Judge(d, "pr_failed") /\ UNCHANGED prs
           \/ /\ GoTo(d, "rollback") /\ Judge(d, "pr_failed")
              /\ UNCHANGED <<pr, prs>>
        /\ UNCHANGED <<lock, backlog, tree, skills, remote, draft, chosen, created,
                       designs, cuts, excused>>

\* git checkout main keeps uncommitted changes; what the branch has stays on it.
BackToMain == [tree EXCEPT !.branch = Main, !.commit = FALSE]

\* Step 15: back to main before the backlog is told; if that fails the run
\* goes on, and tries once more at its end.
ReturnToMain(d) ==
    /\ pc[d] = "return"
    /\ \/ tree' = BackToMain /\ created' = [created EXCEPT ![d] = FALSE]
       \/ UNCHANGED <<tree, created>>
    /\ GoTo(d, "record")
    /\ UNCHANGED <<lock, backlog, skills, remote, pr, draft, chosen, verdict, ghosts>>

\* MUTANT of RollbackSkill: only tracked files are restored.
RollbackTrackedOnly(d) ==
    /\ pc[d] = "rollback"
    /\ tree' = BackToMain
    /\ created' = [created EXCEPT ![d] = FALSE]
    /\ excused' = (excused \/ tree.stray)
    /\ GoTo(d, "record")
    /\ UNCHANGED <<lock, backlog, skills, remote, pr, draft, chosen, verdict,
                   designs, prs, cuts>>

\* _rollback_skill restores and cleans the paths of the skill, no others.
RollbackSkill(d) ==
    /\ pc[d] = "rollback"
    /\ tree' = [BackToMain EXCEPT !.skill = @ \ {chosen[d]}]
    /\ created' = [created EXCEPT ![d] = FALSE]
    /\ excused' = (excused \/ tree.stray)
    /\ GoTo(d, "record")
    /\ UNCHANGED <<lock, backlog, skills, remote, pr, draft, chosen, verdict,
                   designs, prs, cuts>>

-----------------------------------------------------------------------------
(* The end of a daily run.                                                 *)

\* update_backlog_status reads the backlog again, because minutes have passed.
RereadBacklog(d) ==
    /\ pc[d] = "record"
    /\ ReadBacklog(d)
    /\ GoTo(d, "replace")
    /\ UNCHANGED <<lock, files, chosen, verdict, created, ghosts>>

\* The backlog read, with the verdict on the one idea, if it is in there.
Judged(d, counted) ==
    LET i == chosen[d]
    IN  IF AsRead(d)[i].status = "absent" THEN AsRead(d)
        ELSE [AsRead(d) EXCEPT ![i] =
                [status  |-> verdict[d],
                 retries |-> @.retries + (IF verdict[d] \in counted THEN 1 ELSE 0)]]

\* MUTANT of UpdateBacklogStatus: a failed pull request counts no retry.
UpdateWithoutPrRetry(d) ==
    /\ pc[d] = "replace"
    /\ ReplaceBacklog(d, Judged(d, {"design_failed"}))
    /\ excused' = (excused \/ verdict[d] = "unexpected_changes")
    /\ DropDraft(d)
    /\ GoTo(d, "finish")
    /\ UNCHANGED <<lock, tree, skills, remote, pr, chosen, verdict, created, cuts>>

\* It changes the one idea and replaces the file, which may raise.
UpdateBacklogStatus(d) ==
    /\ pc[d] = "replace"
    /\ \/ /\ ReplaceBacklog(d, Judged(d, Retryable))
          /\ excused' = (excused \/ verdict[d] = "unexpected_changes")
          /\ UNCHANGED cuts
       \/ CutOff(d) /\ Unrecorded(d) /\ UNCHANGED backlog
    /\ DropDraft(d)
    /\ GoTo(d, "finish")
    /\ UNCHANGED <<lock, tree, skills, remote, pr, chosen, verdict, created>>

\* The finally clause: back to main unless the run is there already, and the
\* lock file is unlinked, whosever it is.
Finish(p) ==
    /\ pc[p] = "finish"
    /\ lock' = Free
    /\ \/ /\ p \in Daily /\ created[p]
          /\ \/ tree' = BackToMain /\ UNCHANGED excused
             \/ excused' = TRUE /\ UNCHANGED tree
       \/ /\ p \in Daily => ~created[p]
          /\ UNCHANGED <<tree, excused>>
    /\ IF p \in Daily
         THEN /\ chosen' = [chosen EXCEPT ![p] = None]
              /\ verdict' = [verdict EXCEPT ![p] = None]
              /\ created' = [created EXCEPT ![p] = FALSE]
         ELSE UNCHANGED <<chosen, verdict, created>>
    /\ GoTo(p, "idle")
    /\ UNCHANGED <<backlog, skills, remote, pr, draft, designs, prs, cuts>>

-----------------------------------------------------------------------------
(* The weekly run: mine, read the backlog, score for minutes, write it.    *)

Mine(w) ==
    /\ pc[w] = "mine"
    /\ \/ GoTo(w, "load")
       \/ GoTo(w, "finish")
    /\ UNCHANGED <<lock, files, local, ghosts>>

LoadBacklog(w) ==
    /\ pc[w] = "load"
    /\ ReadBacklog(w)
    /\ GoTo(w, "save")
    /\ UNCHANGED <<lock, files, chosen, verdict, created, ghosts>>

\* MUTANT of SaveBacklog: an idea that is mined again starts over.
SaveBacklogAfresh(w) ==
    /\ pc[w] = "save"
    /\ \E mined \in SUBSET Ideas :
         ReplaceBacklog(w, [i \in Ideas |-> IF i \in mined
                                              THEN [status |-> "pending", retries |-> 0]
                                              ELSE AsRead(w)[i]])
    /\ DropDraft(w)
    /\ GoTo(w, "finish")
    /\ UNCHANGED <<lock, tree, skills, remote, pr, chosen, verdict, created, cuts, excused>>

\* merge_into_backlog: only ideas the draft does not have are added, pending or
\* as duplicates; save_backlog writes the draft.  Scoring may fail or time out.
SaveBacklog(w) ==
    LET read == AsRead(w)
    IN  /\ pc[w] = "save"
        /\ \/ \E new \in [{i \in Ideas : read[i].status = "absent"} ->
                              {"absent", "pending", "duplicate"}] :
                ReplaceBacklog(w, [i \in Ideas |->
                    IF i \in DOMAIN new THEN [read[i] EXCEPT !.status = new[i]] ELSE read[i]])
           \/ UNCHANGED <<backlog, designs, prs>>
        /\ DropDraft(w)
        /\ GoTo(w, "finish")
        /\ UNCHANGED <<lock, tree, skills, remote, pr, chosen, verdict, created, cuts, excused>>

-----------------------------------------------------------------------------
(* The world: kills, the operator, and GitHub.                             *)

\* A killed run leaves its lock file and the tree as they are.
Kill(p) ==
    /\ pc[p] # "idle"
    /\ lock' = IF lock = p THEN Stale ELSE lock
    /\ IF p \in Daily /\ pc[p] \in OnBranch \cup {"record", "replace"}
         THEN CutOff(p) /\ Unrecorded(p)
         ELSE /\ excused' = (excused \/ (p \in Daily /\ created[p]))
              /\ UNCHANGED <<designs, prs, cuts>>
    /\ IF p \in Daily
         THEN /\ chosen' = [chosen EXCEPT ![p] = None]
              /\ verdict' = [verdict EXCEPT ![p] = None]
              /\ created' = [created EXCEPT ![p] = FALSE]
         ELSE UNCHANGED <<chosen, verdict, created>>
    /\ DropDraft(p)
    /\ GoTo(p, "idle")
    /\ UNCHANGED files

\* The operator follows the advice of the log: checkout main, clean up.
Repair ==
    /\ \A p \in Procs : pc[p] = "idle"
    /\ tree' = [CleanTree EXCEPT !.journal = tree.journal]
    /\ tree' # tree
    /\ excused' = FALSE
    /\ UNCHANGED <<lock, pc, backlog, skills, remote, pr, local, designs, prs, cuts>>

\* trader-memory-core changes, or the operator commits, tracked files in state/.
Journal ==
    /\ tree' = [tree EXCEPT !.journal = ~@]
    /\ UNCHANGED <<lock, pc, backlog, skills, remote, pr, local, ghosts>>

\* A reviewer merges or closes a pull request, and may delete its branch.
Settle(i) ==
    /\ pr[i] = "open"
    /\ \/ /\ pr' = [pr EXCEPT ![i] = "merged"]
          /\ skills' = [skills EXCEPT !.origin = @ \cup {i}]
       \/ /\ pr' = [pr EXCEPT ![i] = "closed"]
          /\ UNCHANGED skills
    /\ remote' \in {remote, remote \ {i}}
    /\ UNCHANGED <<lock, pc, backlog, tree, local, ghosts>>

DailyStep(d) ==
    \/ SelectIdea(d) \/ GitSafeCheck(d) \/ CheckExistingPr(d) \/ CreateBranch(d)
    \/ DesignSkill(d) \/ CheckChanges(d) \/ ReviewAndImprove(d) \/ CommitSkill(d)
    \/ PushBranch(d) \/ OpenPr(d) \/ ReturnToMain(d) \/ RollbackSkill(d)
    \/ RereadBacklog(d) \/ UpdateBacklogStatus(d)

WeeklyStep(w) == Mine(w) \/ LoadBacklog(w) \/ SaveBacklog(w)

GenNext ==
    \/ \E p \in Procs : CheckLock(p) \/ WriteLock(p) \/ Finish(p) \/ Kill(p)
    \/ \E d \in Daily : DailyStep(d)
    \/ \E w \in Weekly : WeeklyStep(w)
    \/ \E i \in Ideas : Settle(i)
    \/ Repair
    \/ Journal

GenSpec == GenInit /\ [][GenNext]_genVars

-----------------------------------------------------------------------------
(* Properties.                                                             *)

\* Every variable keeps its shape.
GenTypeOK ==
    /\ lock \in Procs \cup {Free, Stale}
    /\ pc \in [Procs -> Places]
    /\ backlog \in [Ideas -> [status : Statuses, retries : Nat]]
    /\ draft \in [Procs -> [Ideas -> [status : Statuses, retries : Nat]] \cup {None, Unread}]
    /\ chosen \in [Daily -> Ideas \cup {None}]
    /\ verdict \in [Daily -> Verdicts \cup {None}]
    /\ created \in [Daily -> BOOLEAN]
    /\ tree \in [branch : Ideas \cup {Main}, commit : BOOLEAN, skill : SUBSET Ideas,
                 stray : BOOLEAN, journal : BOOLEAN]
    /\ skills \in [here : SUBSET Ideas, origin : SUBSET Ideas]
    /\ remote \in SUBSET Ideas
    /\ pr \in [Ideas -> {"none", "open", "merged", "closed"}]
    /\ designs \in [Ideas -> Nat] /\ prs \in [Ideas -> Nat]
    /\ cuts \in 0..MaxCuts
    /\ excused \in BOOLEAN

\* The backlog file, with two kinds of runs rewriting it whole and either of
\* them killed at any step, is the backlog IdeaBacklog promises: no verdict is
\* lost to the other run, none is given to an idea that was not open, and the
\* whole is begun anew only by a run that could not read it.
Promised == INSTANCE IdeaBacklog
                WITH entry <- backlog, blind <- \E p \in Procs : draft[p] = Unread
KeepsBacklog == Promised!BacklogSpec

\* A run that ended by itself leaves the tree so that git_safe_check lets the
\* next one through, except after unexpected changes, a rollback over files of
\* the designer outside the skill's paths, or a failed git checkout main.
TreeReady ==
    (~excused /\ \A p \in Procs : pc[p] = "idle") => SafeTree /\ ~tree.commit

\* The designer is started on an idea at most once and MAX_RETRIES times again,
\* not counting the attempts that were killed or raised, until a run that could
\* not read the backlog begins it anew, and with it the counts of the attempts.
DesignsBounded ==
    \A i \in Ideas : designs[i] <= 1 + MaxRetries

\* An idea gets a second pull request only if no run recorded the earlier one:
\* the run was cut off before it did, gh printed something else than a URL, or a
\* run that could not read the backlog has begun it anew.
OnePullRequest ==
    \A i \in Ideas : prs[i] <= 1
=============================================================================
