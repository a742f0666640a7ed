--------------------------- MODULE SkillImprovement ---------------------------
(***************************************************************************)
(* scripts/run_skill_improvement.sh and run_skill_improvement_loop.py.  In *)
(* a checkout of its own, which the launcher resets first and only then    *)
(* the loop locks, one skill after the other is scored; one below the      *)
(* threshold is edited by an agent on a topic branch, which is pushed if   *)
(* it scores better than before.  A launch may be killed at any step.      *)
(*                                                                         *)
(* The content of a skill is abstracted to its auto score.  All is within  *)
(* one day, since the branches have its date.  Changes of the agent beside *)
(* the skill's directory are left out: they are never staged, and the      *)
(* launcher's reset removes them.                                          *)
(***************************************************************************)
EXTENDS Naturals, FiniteSets

CONSTANTS
    Launches,
    SkillCount,  \* how many skills there are; they are 0 to SkillCount - 1
    Top,         \* the best score
    Threshold,   \* SCORE_THRESHOLD
    Separate,    \* does a launch only begin when no other is on?
    MaxLaunches, \* bound: how many launches there are
    Upstream, Unlocked, Dead, NoBranch

Skills   == 0..(SkillCount - 1)
Content  == [Skills -> 0..Top]
Branch   == Content \cup {NoBranch}

ASSUME ImprovementAssumption ==
    /\ SkillCount \in Nat \ {0} /\ Top \in Nat /\ Threshold \in 0..Top
    /\ Separate \in BOOLEAN /\ MaxLaunches \in Nat
    /\ Upstream \notin Nat /\ NoBranch \notin Content

VARIABLES
    place,    \* place[l]: where launch l is
    pidfile,  \* logs/.skill_improvement.lock: Unlocked, a launch, or Dead
    checkout, \* head, the files (work), main, and whether main has own commits
    topic,    \* topic[s]: the checkout's branch of skill s
    origin,   \* main and topics of the origin
    pull,     \* pull[s]: the pull request of the branch of s
    job,      \* job[l]: the skill, its score before and after, improved?
    ledger,   \* the state file: last_skill_index
    launched  \* (bound)

git == <<checkout, topic, origin, pull>>
improveVars == <<place, pidfile, git, job, ledger, launched>>

ImproveInit ==
    /\ place = [l \in Launches |-> "off"]
    /\ pidfile = Unlocked
    /\ \E c \in Content :
           /\ checkout = [head |-> Upstream, work |-> c, main |-> c, ahead |-> FALSE]
           /\ origin = [main |-> c, topic |-> [s \in Skills |-> NoBranch]]
    /\ topic = [s \in Skills |-> NoBranch]
    /\ pull = [s \in Skills |-> "none"]
    /\ job = [l \in Launches |-> [skill |-> 0, before |-> 0, after |-> 0, improved |-> FALSE]]
    /\ ledger = SkillCount - 1   \* stands for -1: the first skill is the next
    /\ launched = 0

On(l, p)  == place[l] = p
Go(l, p)  == place' = [place EXCEPT ![l] = p]
Skill(l)  == job[l].skill
Committed == IF checkout.head = Upstream THEN checkout.main ELSE topic[checkout.head]

-----------------------------------------------------------------------------
\* The launcher: fetch, checkout -B main, reset --hard, clean.  Branches stay.
Reset(l) ==
    /\ On(l, "off") /\ launched < MaxLaunches
    /\ Separate => \A k \in Launches : On(k, "off")
    /\ launched' = launched + 1
    /\ checkout' = [head |-> Upstream, work |-> origin.main, main |-> origin.main,
                    ahead |-> FALSE]
    /\ Go(l, "lock")
    /\ UNCHANGED <<pidfile, topic, origin, pull, job, ledger>>

\* acquire_lock looks at the file, then writes it.
LookAtLock(l) ==
    /\ On(l, "lock")
    /\ IF pidfile \in Launches
         THEN Go(l, "off") /\ UNCHANGED pidfile
         ELSE Go(l, "write_lock") /\ pidfile' = Unlocked
    /\ UNCHANGED <<git, job, ledger, launched>>

TakeLock(l) ==
    /\ On(l, "write_lock")
    /\ pidfile' = l
    /\ Go(l, "check")
    /\ UNCHANGED <<git, job, ledger, launched>>

\* git_safe_check: a clean tree on main, then pull --ff-only.
SafeCheck(l) ==
    /\ On(l, "check")
    /\ \/ /\ checkout.work = Committed /\ checkout.head = Upstream
          /\ checkout' = IF checkout.ahead THEN checkout
                         ELSE [checkout EXCEPT !.work = origin.main, !.main = origin.main]
          /\ Go(l, "review")
       \/ Go(l, "leave") /\ UNCHANGED checkout
    /\ UNCHANGED <<pidfile, topic, origin, pull, job, ledger, launched>>

\* The next skill in turn is scored; what fails or raises here ends the run, and
\* the index is not saved.
Review(l) ==
    /\ On(l, "review")
    /\ LET s == (ledger + 1) % SkillCount
           score == checkout.work[s]
       IN  \/ /\ job' = [job EXCEPT ![l] = [skill |-> s, before |-> score, after |-> score,
                                            improved |-> FALSE]]
              /\ Go(l, IF score < Threshold THEN "branch" ELSE "save")
           \/ Go(l, "leave") /\ UNCHANGED job
    /\ UNCHANGED <<pidfile, git, ledger, launched>>

\* An open pull request for the branch: nothing to do (a failing gh finds none).
FindPull(l) ==
    /\ On(l, "branch") /\ pull[Skill(l)] = "open"
    /\ Go(l, "save")
    /\ UNCHANGED <<pidfile, git, job, ledger, launched>>

\* branch -D, then checkout -b; if that raises the run ends without a summary.
MakeBranch(l) ==
    /\ On(l, "branch")
    /\ \/ /\ checkout.head # Skill(l)
          /\ topic' = [topic EXCEPT ![Skill(l)] = Committed]
          /\ checkout' = [checkout EXCEPT !.head = Skill(l)]
          /\ Go(l, "edit")
       \/ Go(l, "leave") /\ UNCHANGED <<topic, checkout>>
    /\ UNCHANGED <<pidfile, origin, pull, job, ledger, launched>>

\* claude -p edits the skill, and may fail or exceed its time having done so; it
\* is not called when the review found no improvement_items.
Edit(l) ==
    /\ On(l, "edit")
    /\ \E score \in 0..Top : checkout' = [checkout EXCEPT !.work[Skill(l)] = score]
    /\ Go(l, "rescore") \/ Go(l, "rollback")
    /\ UNCHANGED <<pidfile, topic, origin, pull, job, ledger, launched>>

\* The gates: a better score than before, and claims that fit the code.
Rescore(l) ==
    /\ On(l, "rescore")
    /\ \/ /\ checkout.work[Skill(l)] > job[l].before
          /\ job' = [job EXCEPT ![l].after = checkout.work[Skill(l)]]
          /\ Go(l, "commit")
       \/ Go(l, "rollback") /\ UNCHANGED job
    /\ UNCHANGED <<pidfile, git, ledger, launched>>

\* MUTANT of CommitEdit: a commit that fails is not noticed.
CommitHopefully(l) ==
    /\ On(l, "commit")
    /\ \/ topic' = [topic EXCEPT ![Skill(l)] = checkout.work]
       \/ UNCHANGED topic
    /\ Go(l, "push")
    /\ UNCHANGED <<pidfile, checkout, origin, pull, job, ledger, launched>>

\* Only the skill is staged; the commit is made on whatever branch is checked out.
CommitEdit(l) ==
    /\ On(l, "commit")
    /\ LET s == Skill(l)
           commit == [Committed EXCEPT ![s] = checkout.work[s]]
       IN  \/ /\ commit # Committed
              /\ IF checkout.head = Upstream
                   THEN /\ checkout' = [checkout EXCEPT !.main = commit, !.ahead = TRUE]
                        /\ UNCHANGED topic
                   ELSE /\ topic' = [topic EXCEPT ![checkout.head] = commit]
                        /\ UNCHANGED checkout
              /\ Go(l, "push")
           \/ Go(l, "rollback") /\ UNCHANGED <<checkout, topic>>
    /\ UNCHANGED <<pidfile, origin, pull, job, ledger, launched>>

\* The branch is pushed by its name; one that an earlier run pushed refuses.  A
\* failed push is no rollback: the branch stays.
Push(l) ==
    /\ On(l, "push")
    /\ LET s == Skill(l)
       IN  \/ /\ topic[s] # NoBranch
              /\ origin.topic[s] = NoBranch \/ pull[s] = "merged"
              /\ origin' = [origin EXCEPT !.topic[s] = topic[s]]
              /\ Go(l, "open")
           \/ Go(l, "back") /\ UNCHANGED origin
    /\ UNCHANGED <<pidfile, checkout, topic, pull, job, ledger, launched>>

\* gh pr create; the run is a success whatever it says.
OpenPull(l) ==
    /\ On(l, "open")
    /\ LET s == Skill(l)
       IN  \/ origin.topic[s] # origin.main /\ pull' = [pull EXCEPT ![s] = "open"]
           \/ UNCHANGED pull
    /\ job' = [job EXCEPT ![l].improved = TRUE]
    /\ Go(l, "back")
    /\ UNCHANGED <<pidfile, checkout, topic, origin, ledger, launched>>

\* The finally: checkout main; _rollback does that and deletes the branch.
Back(l) ==
    /\ On(l, "back") \/ On(l, "rollback")
    /\ checkout' = [checkout EXCEPT !.head = Upstream, !.work = checkout.main]
    /\ topic' = IF On(l, "back") THEN topic ELSE [topic EXCEPT ![Skill(l)] = NoBranch]
    /\ Go(l, "save")
    /\ UNCHANGED <<pidfile, origin, pull, job, ledger, launched>>

SaveLedger(l) ==
    /\ On(l, "save")
    /\ ledger' = Skill(l)
    /\ Go(l, "clean")
    /\ UNCHANGED <<pidfile, git, job, launched>>

\* Local branches of pull requests that are over are deleted, one by one.
CleanUp(l) ==
    /\ On(l, "clean")
    /\ \E over \in SUBSET {s \in Skills : pull[s] \in {"merged", "closed"}} :
           topic' = [s \in Skills |-> IF s \in over /\ checkout.head # s THEN NoBranch
                                      ELSE topic[s]]
    /\ Go(l, "leave")
    /\ UNCHANGED <<pidfile, checkout, origin, pull, job, ledger, launched>>

\* release_lock removes the file, whoever wrote it.
Release(l) ==
    /\ On(l, "leave")
    /\ pidfile' = Unlocked
    /\ Go(l, "off")
    /\ UNCHANGED <<git, job, ledger, launched>>

KillLaunch(l) ==
    /\ ~On(l, "off")
    /\ pidfile' = IF pidfile = l THEN Dead ELSE pidfile
    /\ Go(l, "off")
    /\ UNCHANGED <<git, job, ledger, launched>>

\* The maintainer; the branch may be deleted with the pull request.
Decide(s) ==
    /\ pull[s] = "open"
    /\ \/ /\ pull' = [pull EXCEPT ![s] = "merged"]
          /\ \E b \in {origin.topic[s], NoBranch} :
                 origin' = [main |-> [origin.main EXCEPT ![s] = origin.topic[s][s]],
                            topic |-> [origin.topic EXCEPT ![s] = b]]
       \/ /\ pull' = [pull EXCEPT ![s] = "closed"]
          /\ \E b \in {origin.topic[s], NoBranch} : origin' = [origin EXCEPT !.topic[s] = b]
    /\ UNCHANGED <<place, pidfile, checkout, topic, job, ledger, launched>>

ImproveNext ==
    \/ \E l \in Launches :
           \/ Reset(l) \/ LookAtLock(l) \/ TakeLock(l) \/ SafeCheck(l) \/ Review(l)
           \/ FindPull(l) \/ MakeBranch(l) \/ Edit(l) \/ Rescore(l) \/ CommitEdit(l)
           \/ Push(l) \/ OpenPull(l) \/ Back(l) \/ SaveLedger(l) \/ CleanUp(l)
           \/ Release(l) \/ KillLaunch(l)
    \/ \E s \in Skills : Decide(s)

ImproveSpec == ImproveInit /\ [][ImproveNext]_improveVars

-----------------------------------------------------------------------------
Places == {"off", "lock", "write_lock", "check", "review", "branch", "edit", "rescore",
           "commit", "push", "open", "back", "rollback", "save", "clean", "leave"}

ImproveTypeOK ==
    /\ place \in [Launches -> Places]
    /\ pidfile \in Launches \cup {Unlocked, Dead}
    /\ checkout \in [head : Skills \cup {Upstream}, work : Content, main : Content,
                     ahead : BOOLEAN]
    /\ topic \in [Skills -> Branch]
    /\ origin \in [main : Content, topic : [Skills -> Branch]]
    /\ pull \in [Skills -> {"none", "open", "merged", "closed"}]
    /\ job \in [Launches -> [skill : Skills, before : 0..Top, after : 0..Top,
                             improved : BOOLEAN]]
    /\ ledger \in Skills /\ launched \in 0..MaxLaunches

\* When launches do not overlap, whatever was killed, failed, merged or closed
\* before: a run calls a skill improved, and asks for a pull, only if the branch
\* on the origin has the very edit that it scored, which was better than what the
\* skill was; and the ledger moves from a skill to the next, never past one.
ReportsWhatIsPublished ==
    [][/\ \A l \in Launches :
              (job'[l].improved /\ ~job[l].improved) =>
                  LET s == Skill(l)
                  IN  /\ origin.topic[s] # NoBranch
                      /\ origin.topic[s][s] = job[l].after
                      /\ job[l].after > job[l].before
       /\ \A s \in Skills : (pull'[s] = "open" /\ pull[s] # "open") =>
              \E l \in Launches : Skill(l) = s /\ job'[l].improved
       /\ ledger' \in {ledger, (ledger + 1) % SkillCount}]_improveVars
=============================================================================
