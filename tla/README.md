# A verification of claude-trading-skills in TLA+

The repository is a collection of trading skills (scripts driven from the
command line or by another skill) and of the automation around them. Most of it
computes: it fetches, scores and reports, and keeps nothing. What it keeps, it
keeps in files that several programs write one after the other, or at once: the
theses of `trader-memory-core`, the run directories and the lock of the daily
routine, the backlog and the git branches of the two skill loops, the
checkpoints of long screening runs. These modules are about that part: what the
operations do to the kept state, in every order, when they overlap and when
they are cut off between two steps.

Paths below are relative to `src/`.

## 1. Inventory

### Thesis lifecycle - `skills/trader-memory-core/scripts/thesis_store.py`

*State.* One record per thesis: its status (`IDEA`, `ENTRY_READY`, `ACTIVE`,
`PARTIALLY_CLOSED`, `CLOSED`, `INVALIDATED`), entry and exit, a position
(equity: `shares` and `shares_remaining`; futures: `quantity`,
`quantity_remaining`, `multiplier`, `direction`), a `status_history` that is
also the ledger of sold legs, and an outcome.

*Operations.* `transition`, `attach_position`, `attach_futures_position`,
`open_position`, `trim`, `close`, `terminate`, `update`, `mark_reviewed`,
`link_report`. Each loads the record, checks, mutates in memory, and saves
through `_validate_thesis`, which refuses a record that contradicts its status.

*Hard.* Long sequences of legal calls: a re-attach after opening, a futures
position laid over an equity one, three ways to end a position, values that
compare quietly (NaN). *Correct when* units are neither lost nor made up, a
settled outcome is the sum of its legs, a futures thesis never gets an amount
that ignores multiplier and direction, nothing moves backwards, and an open
thesis can be closed.

### Thesis store - same file

*State.* A directory: `th_*.yaml`, one per thesis, and `_index.json`, which
repeats some fields of each. No lock. *Operations.* Every lifecycle operation
as load file, save file, load index, save index; `register`, which first looks
for a thesis of the same origin (index, then a scan of the files);
`rebuild_index`, `validate_state`, and queries that read the index only.
*Hard.* Two operations interleaved; a process that dies between its two saves.
*Correct when* registration is idempotent, the index never points to nothing,
no thesis is lost, and a rebuild repairs.

### Daily routine - `scripts/run_daily_trading_routine.py`

*State.* A lock file with the owner's pid; per run a directory with the
artifacts of the skills, `summary.json` and `summary.md`. *Operations.*
`acquire_lock`, `release_lock`; `run_routine`: market skills in a thread pool,
exposure gate, circuit breaker, screeners in a thread pool, summary. *Hard.*
Two invocations racing for the lock, kills, stale locks and reused pids; skills
that end in any order, fail, time out or leave old data; failures while the
summary is written. *Correct when* one run at a time spends API calls, no skill
starts before everything ahead of it allowed it, candidates are shown only for
a run that was cleared, and the lock is given up.

The routine starts skills as child processes. Its circuit breaker
(`skills/drawdown-circuit-breaker`) reads the theses that the store writes; its
exposure gate (`skills/exposure-coach`) reads the artifacts of the market
skills.

### Skill generation - `scripts/run_skill_generation_pipeline.py`

*State.* A pid lock; the idea backlog, a file that the weekly and the daily run
both rewrite; the operator's own checkout with its branches; pull requests.
*Operations.* Weekly: mine ideas, score them, merge them into the backlog.
Daily: pick the best open idea, check the tree, make a branch, have the skill
designed and reviewed, commit, push, open a pull request, record the verdict,
or roll back. *Hard.* A kill between the pull request and the verdict; steps
that fail on a branch; retries that must be bounded; two programs that rewrite
one file, and take it for empty when they cannot read it. *Correct when* no
verdict that a run could read is lost, an idea leads to one pull request and is
not retried for ever, and a run leaves a tree the next one accepts.

### Skill improvement - `scripts/run_skill_improvement.sh`, `scripts/run_skill_improvement_loop.py`

*State.* A checkout of its own (the launcher makes it, so that the loop does
not share a working tree with the generation pipeline), a pid lock, a ledger
with the index of the last skill. *Operations.* Reset the checkout; score the
next skill; if it is below the threshold, have it edited on a branch, score it
again, commit, push, open a pull request, or roll back. *Hard.* Kills, branches
that earlier runs left here or at the origin, commits and pushes that fail, a
reset that comes before the lock. *Correct when* what a run reports, and asks a
maintainer to merge, is the edit that it scored.

### Growth-screen run state - `skills/us-undervalued-growth-screener/scripts/manage_run_state.py`

*State.* `run_state.json`, one file per candidate, the audit of the screen.
*Operations.* init, set-screening-audit, save-candidate, set-funnel,
set-unprocessed, set-status, assemble. An agent calls them one by one over days.
*Hard.* Any legal order, repeated screens, a kill between the candidate's file
and the state. *Correct when* the assembled snapshot accounts for every selected
company and calls itself complete only if it is.

### Workflow replay - `scripts/workflow_replay.py`

*State.* A stage in a temporary directory per variant, published trees.
*Operations.* Replay the steps of a workflow, each leaving an artifact that is
sealed by a digest; publish all trees by renames with backup and rollback.
*Hard.* Steps that damage earlier artifacts; renames that fail half-way;
rollbacks that fail; interrupts. *Correct when* all trees are replaced or none,
and a published tree holds what its steps made.

### MT5 robot tester - `skills/mt5-robot-tester/scripts/mt5_batch_tester.py`

*State.* Per robot the rounds in `state.json` and the verdict in
`learnings.json`; a candidates, an in-testing and a finalists folder; an OS lock
and a `.blocked` file per terminal. *Hard.* Kills between the copies, the unlink
and the checkpoint; interrupts, whose handlers remove what was just made; a
terminal that does not stop. *Correct when* no robot is
lost or called done before it is filed, and nothing is tested beside a terminal
that is still running.

### Decisions over a history

`skills/ftd-detector/scripts/rally_tracker.py` (swing lows, rally attempts and
follow-through days of an index), the three triggers of
`skills/parabolic-short-trade-planner` (opening range, first red, VWAP failure,
with a state file per plan),
`skills/drawdown-circuit-breaker/scripts/check_circuit_breaker.py` (losses of
the day, week, month, losing streaks) and `skills/ibd-distribution-day-monitor`
(falls on rising volume of two index funds, their age and recovery, a risk
level, the share of a position to keep) start from the whole history, or its
last part, each time. *Hard.* What a decision of today does to one of yesterday;
a window whose indices move and whose end is cut off. *Correct when* a
confirmed signal, an entry or a halt stands until something documented ends it,
and a monitor without a memory says what one with a memory would.

### The rest

The edge research pipeline and the FMP client are functions or short sequences;
they come last in the plan. Screeners, sizing, market analysis, backtesting and
the repository's own checks keep no state between calls. `PROJECT.json` lists
all of them with the reason each is left out, and lists the hazards of the
code, modelled or not, at their lines.

## 2. Modules

| module | what it is |
|---|---|
| `ThesisLifecycle` | one thesis; an action per operation, the save validation as `Valid'` |
| `PositionAccount` | abstract: a quantity is planned, held, sold in legs, settled at their sum or abandoned |
| `ThesisStore` | the directory; an action per read or write of a file, processes that interleave and die |
| `ThesisRegistry` | abstract: a map from origins to theses, updated atomically |
| `PidLock` | `acquire_lock` and `release_lock`, an action per system call |
| `DailyRoutine` | `run_routine` on top of `PidLock` |
| `SkillGeneration` | the daily and weekly runs, git and GitHub, the operator |
| `IdeaBacklog` | abstract: an idea is entered once, attempted while open, and keeps its verdict, until the whole is begun anew |
| `SkillImprovement` | the launcher and the loop over their own checkout |
| `RunState` | the checkpoint of a screening run, a write at a time |
| `PublishTransaction` | the publication of several trees, a rename at a time |
| `AtomicPublication` | abstract: all trees replaced, none, or all recoverable and not called published |
| `WorkflowReplay` | the replays, then `PublishTransaction` |
| `RobotTester` | rounds, verdicts, folders and the blocked terminal |
| `FollowThrough` | swing lows, rallies and follow-through days of one index |
| `IntradayTriggers` | three triggers over five-minute bars, their state files, and the monitor |
| `CircuitBreaker` | the breaker's rules over legs and exits |
| `DistributionDays` | the distribution days of two funds over a fetched window, the risk and the exposure |
| `DistributionLedger` | abstract: a list of distribution days kept by hand, one session at a time |
| `MCPrograms` | the eight modules above that share nothing, side by side |
| `MC...` | constants for the runs |
| `...Proofs` | the theorems |

`ThesisLifecycle` implements `PositionAccount` and `ThesisStore` (without
overlap) implements `ThesisRegistry`, by `INSTANCE ... WITH`; `DailyRoutine`
extends `PidLock` and implements its specification (`ObeysLock`);
`SkillGeneration` implements `IdeaBacklog` (`KeepsBacklog`); `PublishTransaction`
implements `AtomicPublication` (`PublishesAtomically`), and `WorkflowReplay`
extends it; `DistributionDays` implements `DistributionLedger` twice, once per
fund (`KeepsLedger`). The two
thesis modules split one file by concern: `ThesisLifecycle` says what an
operation does to a record and takes it as one step; `ThesisStore` says how it
reaches the disk and keeps of a record only what the protocol depends on.

### ThesisLifecycle

Variables are the fields of the record. `at` is the last timestamp of
`status_history` and `ledger` the two sums the code takes over it: the code
reads nothing else of the history. Prices are whole cents and quantities whole
units, so the code's rounding of amounts to two places is exact; percentages
and holding days are left out, since no guard reads them. `NoVal` is null or
absent, `NaN` any non-finite number; the finiteness guards of the code are
modelled where the code has them, and only there. The five exit reasons form
two classes, the one an invalidated thesis may carry and the others.
`mark_reviewed` and `link_report` change nothing that is kept here.

`_validate_thesis` is `Valid`, split as the code splits it by status; each
operation's last conjunct is `Valid'`: an operation whose result would be
invalid saves nothing, hence is not a step. `Append` carries the check that
history does not go back in time. Timestamps are an input: the default (now)
and the caller's dates, which the code widens to midnight, both come from
`Times`.

### ThesisStore

`pc[p]` is the next file access of the operation in process `p`; `mem` is the
thesis and `snap` the index it holds in memory. Files are replaced by
`os.replace`, so a save is one step and no reader sees half a file. `register`
is `BuildThesis`, `FindIndexed`, `ScanFile`/`FoundNothing`, `SaveThesis`,
`LoadIndex`, `SaveIndex`; `Advance` and `LinkReport` stand for every operation
that loads a thesis and rewrites it; `Rebuild`, `RebuildFile`, `SaveRebuilt`
are `rebuild_index`. `Crash` may happen at any step and covers an operation
that raises. `unindexed` is a history variable for `StaleOnlyIfCutOff`.
`HashCollides` says whether a generated id may be one in use (the code does not
look). Not modelled: durability of a rename across a power failure (the code
does not `fsync`), files edited by hand, and the index fields no operation
reads back.

### PidLock

`lock` is the file at the path, with the process that made it and the pid in
it, which is empty between `os.open` and `os.write`. A contender that reads it
in between gets a `ValueError` and takes it for stale. `unlink` removes
whatever is at the path at that moment. The loop makes two attempts. `Crash`
leaves the file; `GivePid`, if `PidReuse`, gives the pid of an ended invocation
to an unrelated program, for which `os.kill(pid, 0)` succeeds, or, if it is
another user's, raises the `PermissionError` that `Probe` takes for a dead
process. The invocations themselves are one user's. `Overlap` says whether two
`acquire_lock` calls may run at once.

### DailyRoutine

`stage[p]` is where `run_routine` is, `res[p][k]` what skill `k` of the run has
come to. A stage submits its skills, they end in any order (`SkillEnds`), and
the stage looks when the pool is empty. What the code reads from an artifact is
a member of a small set: failed (start, exit code, timeout or invalid
artifact), stale, fresh, denied, allowed, empty, candidates. `Raise` is any
exception of a stage, `Interrupt` a `KeyboardInterrupt`, `WriteFails` an
exception of `write_summary`, which `run_routine` answers once. Skills of a
killed parent run on as orphans: here they stay "started" for good, and
`OneRunSpends` speaks of invocations that are alive.

### SkillGeneration

A process is launched, looks at the lock file (`CheckLock`) and writes it
(`WriteLock`) in two steps; if `Staggered`, as launchd's calendar has it, no
launch falls between the two steps of another. `tree` is the operator's
checkout: its branch, whether a commit is on it, the skills with uncommitted
files, stray files, and the tracked files under `state/` that other programs
change (`Journal`). A skill is one thing with the name of its idea. The designer,
the reviewer, git and gh succeed or fail; the designer may write where it should
not. `Kill` and `Settle` (a maintainer merges or closes, and may delete the
branch) happen at any time, `Repair` between runs.

`draft[p]` is the backlog as run `p` has read it to write it. Both readers,
`load_backlog` of the pipeline and of `score_ideas.py`, return an empty backlog
when the file cannot be read or parsed or is no mapping: `ReadBacklog` may leave
`Unread`, `AsRead` is then `Nothing`, and the save that follows puts what little
the run has in place of the file (`ReplaceBacklog`). `KeepsBacklog` allows that
to such a run alone: `blind` of `IdeaBacklog` is "some run holds `Unread`".
`designs`, `prs`, `cuts` and `excused` are history variables for the other
properties; the first two count since the backlog was last begun anew.

### SkillImprovement

A skill's content is its auto score; `checkout`, `topic` and `origin` are maps
from skills to scores, which is enough to say which edit is on which branch.
`Reset` is the launcher, which does not take the lock. With `Separate` a launch
begins only when no other is on.

### RunState

`run` is `run_state.json`; `command` is a command between two of its writes, so
that `KillCommand` can end it there. `Audits` keeps of a screen its selection,
the outcome of its pool and whether it is settled. A payload that is refused
for its form changes nothing and is not a step. `set-screening-audit` writes
artifacts before it refuses a selection, and so does the model.

### PublishTransaction and WorkflowReplay

`at` is the next file operation, `moved` and `committed` the two flags the code
keeps per tree. Any operation may raise; `Interrupt` is a `KeyboardInterrupt`,
which the code's `except Exception` does not catch, or a kill. In
`WorkflowReplay` an artifact is pure or tainted; a step may damage any earlier
artifact in the stage without being seen, and `StageTree` compares the digests.

### RobotTester

The tests of a round are one step with one outcome, and metrics are what the
gates make of them. `_copy_exclusive` is two steps (the file exists, then it is
whole). `orphan` is a terminal that outlived its test; the blocker is written
by the run that could not stop it, and `KillRun` may come before that.

A run stops where it is (`KillRun`), or by an interrupt that meets an `except
BaseException` (`InterruptRun`): that of `_copy_exclusive` removes the copy being
made, that of `_move_exclusive` the copy in the in-testing folder, also when the
candidate was unlinked a moment before. `dropped` keeps the robots that last case
met, for `NoRobotLost`, which allows no other loss.

### FollowThrough, IntradayTriggers, CircuitBreaker, DistributionDays

The program is a function of the history, written as operators and recursive
functions; the state is the history and the last verdict, and an action is a
session, a bar or a booking followed by a new evaluation. The action properties
(`ConfirmedHolds`, `SignalStands`, `HaltHolds`, `RemovalStands`,
`CutsOnlyOnDistribution`) relate a verdict to the one before. The operators were compared with the Python functions on generated
histories (8,741 for follow-through days, 1,458 for the triggers, 1,500 for the
breaker, 1,500 for distribution days) and agreed on all. Prices are integers; the code's rounding to two
places of a percentage is kept where a threshold is compared with it
(`GainPct100`). `CircuitBreaker` takes what `trim`, `close` and `terminate` of
the thesis store write into a leg and an exit; a leg's time is now or yesterday's
midnight (`LegStated`), since both trims and closes can be dated back. `DistributionDays` is a run after
every session, for that session; `averages` is what the moving averages say,
an input, of the funds that the run could load. A run for an earlier date
(`--as-of`) sees a shorter window, which `Fetched` stands for as well. A row
without a close ends the code's run with an exception and is not in the model; a
price of zero is.

## 3. Runs

| run | instance | what it shows |
|---|---|---|
| `thesis_lifecycle` | prices 0, 2, 3; sizes 1, 3; multiplier 2; two timestamps | types, accounting, outcomes, terms fixed, closeability, `PositionAccount` implemented |
| `thesis_pnl_sum` | the same | finding: the outcome is not always the sum of the ledger |
| `thesis_futures_closeable` | the same | finding: `update` can leave a futures thesis that cannot be closed |
| `store_one` | one process; 3 ids, 2 origins, 2 reports, 3 statuses | idempotence, staleness only by a cut-off, `ThesisRegistry` implemented, with a crash at any step |
| `store_two` | two processes; 2 ids, 2 origins, 1 report, 2 statuses | index never dangling, under every interleaving and crash |
| `lock_overlap` | two overlapping invocations | finding: both get the lock |
| `routine_alone` | one invocation; two required inputs, one optional; one required screener, two optional | gates, queue, summaries, the lock is given up |
| `routine_shared` | two invocations whose acquisitions do not overlap; one input, one screener | the lock names the run, one spends, nobody skipped for a dead one, `acquire_lock` returns, lock protocol kept |
| `generation` | two ideas, one daily and one weekly process launched again and again, one retry, one attempt cut off | backlog kept, designs bounded, one pull request per recorded idea, tree ready |
| `programs` | eight programs, below | their safety properties, `AtomicPublication` and `DistributionLedger` implemented |
| `run_state_no_candidates` | two symbols, six audits | finding: an audit without selected symbols is refused |
| `ftd_no_fallback` | a history with one follow-through day, then up to nine sessions | finding: an older follow-through day is confirmed again |

`programs` starts in states each of which lets one of eight programs
move: the run is the union of eight explorations, not their product, since the
programs share no state. Instances: two symbols and six audits; two variants of
a three-step workflow with an optional and a halting step; one robot and three
kills; two skills, scores 0 to 2, three launches; a history of 17 sessions with two
corrections and seven more of three kinds, three swing lows searched; sessions
of up to five bars of four kinds; two theses, the file of one of which may be damaged
(`Fragile`), three legs, six days with a weekend and a holiday, in which a week and a
month begin; seven sessions of two funds, of four kinds, with terms of two sessions, six
fetched, and both funds, one or none loaded.

*Why the bounds are enough.* In `ThesisLifecycle` the only arithmetic is sums
of `(price - entry) * n`. Prices 2 and 3 allow a gain, a loss and a break-even,
0 is the boundary that the code's truth tests treat like a missing price; size
3 allows two partial sales and a final one, size 1 none, and the pair allows a
re-attach of another size. Two timestamps distinguish in order from out of
order. In `ThesisStore` a duplicate needs two ids of one origin, a third id
lets a scan pass over another thesis; two processes suffice to undo each
other's writes, and the theorems show that the number plays no part. For the
lock two invocations suffice for a race and a third lets a stale lock be
unlinked twice. In `DailyRoutine` two required inputs let one fail and the
other be stale; two invocations suffice because the lock is all they share.
`MaxTries` (2) is the code's own bound.

In `SkillGeneration` two ideas let the weekly run add one while the daily run
works on the other; `MaxRetries` is the code's own 1; `MaxCuts` bounds attempts that were
killed or raised, which the code does not count. In `SkillImprovement` two
skills let a run meet the other skill's branch, and three launches let one meet
what two left; `MaxLaunches` bounds them. In `PublishTransaction` two trees are
the least for which a rollback has something to undo. One robot suffices for
`RobotTester` because robots share only the terminal; `MaxKills` lets a run, its
resumption and the one after that be killed or interrupted. `FollowThrough` begins in a
history with a confirmed day, since a random history seldom has one; `MaxLows` is
3 instead of 6 so that the limit is met within `MaxDays`. Five bars are enough for
each trigger to be armed, marked, triggered and invalidated; the triggers were also
run with six. `LastDay` (6) has a loss in one week evaluated in the next.
In `DistributionDays` the window of six finds days up to four sessions old, which a term
of two lets expire at three (line 87), be recovered from in their term and, without
effect, after it (line 139), and be seen expired in a second run; in the seventh session
the oldest row falls out of the window.

*Deadlock* is not checked: a terminal thesis, an invocation that has ended and
a directory with no free id are ordinary ends. It is checked in `generation`,
whose processes can always be launched again.

*Fairness.* Safety is checked without any. `AcquireReturns` assumes that a
process inside `acquire_lock` takes its next step: the function sleeps nowhere
and waits for nobody. The running owner is given no fairness, so the property
holds beside a run that never ends. `RunEnds` assumes that a process goes on
(`Proceed`): every child has a timeout after which `subprocess.run` kills it,
and nothing else in a run waits. Nothing is assumed of when invocations start,
of what fails, and of what is killed.

*Closeability* (`EquityCloseable`, `FuturesCloseable`) is stated with
`ENABLED`: some accepted call closes the thesis now.

*Mutants.* A definition marked as a mutant stands before the one it varies and
is used by no specification: it is that definition with a plausible bug, and
`PROJECT.json` names the property that TLC finds violated with it in place.

## 4. What is proved

The proofs hold for every value of the constants under the modules' named
assumptions: finite prices and timestamps are numbers, sizes and multipliers
positive, thresholds in their range, and a value that stands for "nothing"
(`None`, `Unread`, `NoVal`, `NoRun`, `NotStaged`, `NoBranch`) is none of the values it is
used beside. Where a theorem assumes more of the environment, the assumption is
in its statement: `Orderly` (acquisitions of the routine's lock do not overlap,
pids are not reused), `Staggered` (launchd starts no run of the generation
pipeline inside another's `CheckLock`), `Separate` (a launch of the improvement
loop begins when the last has ended), `Alone` (store operations do not overlap),
`~HashCollides`. None can be dropped: TLC refutes mutual exclusion without
`Orderly` (`lock_overlap`), `KeepsBacklog` with `Staggered = FALSE`,
`ReportsWhatIsPublished` with `Separate = FALSE`, idempotence with two store
processes, and `OriginFixed` when ids collide. Every invariant below was checked by TLC as an invariant of a run
before it was proved, and in each there is a reason for every conjunct: the step
that could not be shown to keep the property without it.

**ThesisLifecycleProofs.** `TypeCorrect`, `UnitsConserved`, `SettledExactly`,
`FuturesMoneySafe`, from the inductive invariant `IInv`: the four properties
with `Valid` (the last save was accepted), `Unsold` (before the first sale
nothing is sold and all is held) and `OutcomeAtEnd` (no outcome before the
end). Without `Unsold` a re-attach could not be shown to conserve units; without
`Valid` a sale could not be shown to have something to sell; without
`OutcomeAtEnd` an invalidation that writes no amount could not be shown to leave
a futures thesis without a wrong one. One lemma per operation. `TerminalIsFinal`
and `ContractIsFixed` are action properties from the same invariant,
`TermsAreFixed` joins them, and `ImplementsAccount` is the refinement of `PositionAccount`, one lemma per group
of operations. That no status goes backwards is part of it. `EquityCloseAccepted` is the
reason why an open equity thesis can be closed: what `close` computes from it, with the
day of its entry and the time of its last event, passes the guards and the validation.

**ThesisStoreProofs.** Two parts. For any number of processes that interleave
and die anywhere, and ids that do not collide (`~HashCollides`): `TypeCorrect`,
`IndexSafe`, `OriginSafe`. The invariant says of operations in progress what
the code's order of steps gives: an id without a file belongs to one operation,
an operation saves over the same origin, the file is there before the index is
touched, and every copy of the index in memory points to saved theses
(`SnapPointsToThesis`): this is what makes a lost update harmless to
`IndexPointsToThesis`. For operations that do not overlap (`Alone`):
`Idempotent`, `StaleOnlyByCrash`, `RebuildIsRepair`. The invariant `SoloInv`
adds what the scan has established so far (`ScanSoFar`, `NewOrigin`), what an
operation knows between its saves (`SavedKnown`) and the part of the index
rebuilt (`RebuiltSoFar`). `ImplementsRegistry` maps the files to
`ThesisRegistry`: a step that saves a thesis is one operation of it, at that
moment (`SaveOperates`), and every other step of an operation, also the one that
dies, is a stutter.

**DailyRoutineProofs, the lock.** For any number of invocations whose
acquisitions do not overlap and whose pids are not reused (`Orderly`), dying
anywhere: `LockTypeCorrect`, `OneRunAtATime` (with `LockNamesRunner`),
`StaleLockReplaced`. The invariant says that while one invocation acquires,
runs may end but none begins, so what it read of the lock can be outdated in the
harmless direction only (`ProbesRunner`, `UnlinksStale`), and that the second
attempt finds no file (`FirstTry`). Both conditions are needed: TLC refutes the
properties without them (`lock_overlap` is the one about overlap).

**DailyRoutineProofs, the routine.** `RoutineObeysLock` is the refinement of the
lock protocol, step by step, for any `Overlap` and `PidReuse`. Nor do the routine's
own properties need anything of the lock: `RoutineTypeCorrect`, `GatesAlwaysHold`,
`QueueIsCleared`, `SummariesAgree`. `RoutineInv` says, per invocation, that only
skills of the stage that is on are running (`OnlyStageRuns`), that the results
are of the skills' kinds (`ResultsFit`), that later stages are untouched and
earlier ones allowed this one (`StagesInOrder`, `Gated`), that a summary exists
from the last stage on (`Decided`), when the results it was decided on can no
longer change, that all three copies of it are honest (`Reported`) and written in
order (`WrittenInOrder`). Without `OnlyStageRuns` a skill that ends late could
change a result after the summary was decided. `OneSpender` and `LockServesRoutine`
compose the two parts: `Orderly` and the refinement give `MutualExclusion`, and
`SpendsInRun` ties running skills to it.

**SkillGenerationProofs.** For staggered launches, any ideas, processes, retries
and cuts: `GenTypeCorrect`, `LeavesTreeReady`, `DesignerBounded`,
`OnePullRequestEach`, and `BacklogKept`, the refinement of `IdeaBacklog`, with reads
that may fail. `GenInv` is one statement because the parts need each other: one run is
past its launch and its pid is in the file (`OneActive`), hence what a run is about to
write is made from the backlog as it is, or from nothing if it could not read it
(`DraftCurrent`), and a daily run's idea is still open (`Works`); what is on the tree follows from where the run is
(`TreeFits`, `TreeRests`); the retries in the file count the designs, but for
the attempt at work (`CountsFit`), which is the bound, and a recorded pull request
is the one that closed its idea, which is `OnePullRequest`.

**PublicationProofs, the improvement loop.** For launches that do not overlap (`Separate`), any
skills, scores and number of launches, killed anywhere: `ImproveTypeCorrect` and
`PublishesWhatWasScored`, the action property `ReportsWhatIsPublished`.
`ImproveInv` says of the one launch that is on (`OneOn`) that it is at the skill
whose turn it is, on that skill's branch, and that the score it will report is
that of the files, then of the branch, then of the branch at the origin
(`InTurn`). The maintainer acts beside it: `PullHasBranch`, and that a launch about
to open a pull request has none open, keep a decision from taking its branch away.

**CheckpointProofs, the run state.** For any symbols and screens, with commands killed between
their writes: `RunTypeCorrect`, `AssemblesHonestly`, `RunStaysConsistent`. `RunInv`
says what a command between two writes was given (`CommandFits`), that a
candidate's file is what the run says unless a save was cut off (`FilesFollow`),
and that a complete run is of a settled screen with every symbol saved
(`CompleteIsSettled`); without the last a repeated `save-candidate` after
completion could not be shown to leave the next snapshot honest.

**PublicationProofs, the replay.** For any number of variants and steps: `ReplayTypeCorrect`;
`PublishesAllOrNothing`, the refinement of `AtomicPublication`; `PublishesPure`.
`PublishInv` says what has been done to each tree before, at and behind the one
the transaction is at (`TreesFollow`, `EntriesFollow`): every tree of a rollback
is untouched, saved or committed when it is reached, and recovered, or known as a
failure, when it is passed. `ReplayInv` adds that an artifact
that was damaged shows in the digests (`DamageShows`) and that what is staged was
pure when it was compared (`StagedPure`).

**CheckpointProofs, the robot tester.** For any robots and any number of kills and interrupts: `TesterTypeCorrect`,
`NoRobotIsLost`, `TerminalIsAlone`. `TesterInv` says the property of both checkpoints,
the one in memory and the one on disk (`DoneDelivered`), since a launch turns one
into the other and a save the reverse; where a robot is that has left the candidates
(`MovedWhole`); that the robot at work is a candidate until it is unlinked
(`WorksOnCandidate`), so that neither undoing a failed move nor an interrupt's handler
removes the copy of one moved before; in what order the verdict is learnt and copies are
made (`MovesInOrder`), so that a finalist's other copy is whole when an interrupt meets
the unlink; and that a terminal that outlived its test is announced, or about to be
(`Announced`).

**HistoryProofs, the triggers.** For sessions of any length and bars of any prices
above the entry offset, with saves cut off anywhere: `IntradayTypeCorrect` and
`SignalsStand`. An evaluator is a fold over the session. One step lemma each says
what a bar can do to the state the fold has reached (`OrlStepSound` and its like), and
the fold lemma that the outcome for a beginning of the session is what the fold for
the longer one passes through, since a bar is read with what came before it only
(`OrlStepLocal`). Hence an outcome stands by the outcome for every beginning
(`OrlStands`, `FirstRedStands`, `VwapFailStands`), and `IntradayInv` says that a whole
state file holds the outcome for a beginning, whatever runs came between. That prices
are above the offset, which the planner's screen for a least price of five dollars
gives, makes an entry differ from "no entry yet".

**HistoryProofs, the follow-through day.** For histories of any length, any window and any
number of swing lows looked at: `FollowTypeCorrect` and `ConfirmedStays`, the action
property `ConfirmedHolds`. The verdict is about the latest swing low that has a
follow-through day (`ConfirmedDecides`, `DecidesConfirmed`). A session more leaves the
first day of a rally, its failure and its follow-through day where they were
(`Day1Grows`, `FailsGrows`, `FtdHolds`); a day that was not there comes with the new
session (`FtdComes`), so that it is later; and the search drops old lows and finds no
new one among the old sessions (`SwingLowsGrow`).

**HistoryProofs, the breaker.** For any theses, amounts, limits, cooldown, weeks, months and
sessions: `BreakerTypeCorrect` and `HaltStands`, the action property `HaltHolds`. `BreakerInv`
says that nothing is booked for later than now, that now is at a session, and that the
decision is the one of the files. Before a daily, weekly or monthly halt is over no such
period has begun (`PeriodIs`), so that the same legs are added up (`RealizedStands`,
`TimePasses`); a leg that is no gain makes no total greater (`TotalMonotone`,
`TotalAppend`, `LossesAdd`); a close that lost lengthens the losing run, whose last exit is
not earlier for it (`LossesLengthen`). Nothing booked for later is what `RealizedStands`
needs; now at a session is what `PeriodIs` needs, and without it the property is false: a
weekly halt is lifted on a holiday (section 5).

**HistoryProofs, the distribution days.** For histories of any length, any rows, rule,
windows and thresholds, and a window of at least the term and two sessions:
`MonitorTypeCorrect`, `LedgerKept` (the refinement of `DistributionLedger`),
`RemovalsStand` and `CutsNeedDistribution`. No invariant beyond the types is needed, since
nothing is kept; what is needed is how one window lies over the next. A row is one older,
or out of sight (`RecentAppend`); so is a day found (`DetectedShift`) and a session that
recovered it (`CrossingsShift`), to which only the last session may be added, and that one
only in the day's term. Hence what is active now was active and is not removed
(`ActiveShift`, `StandingShift`), and the first recovery stays the first
(`FirstCrossingShift`). Counts fall when no day is added (`CountsFall`), by an injection;
the level follows the counts and the funds loaded (`ClassifyMonotone`, `CombineMonotone`).
The width of the window (`LookbackAssumption`) is what the days of the last term need to
be in sight with the session before them.

Of the four parts of `HistoryProofs` the first three need induction, on the length of a
history or of a sum. The library states it for a predicate, as an operator parameter,
which no prover here can instantiate; `SetInduction` states it for a set of numbers, and
is proved from the library's theorem that the finite subsets of a set are well founded.
From it, `RecursionExists`: there is a function that follows a recursion on an interval.

*What proving changed in the models.* An attempt at an idea that already had its
pull request starts no designer; `CutOff` took one back all the same, which two
cuts turn into a negative count, and one cut never shows. The abstract values for
"nothing" were not always assumed to differ from the values beside them, and the
types of records held in memory were not complete. The triggers were modelled for any
price, though the screener takes no stock under five dollars, and nothing said of what
type the moves of a session are. The breaker added up amounts over sets with a library
fold, whose operator parameter the provers cannot follow; it now adds them in the order of
the theses and legs, as the code does (`Total`).

**ProgramsProofs.** In `MCPrograms` each program's part of a behaviour is a behaviour of that
program (`ProgramsApart`), so what is proved of it alone holds in the run;
`ProgramsTypeCorrect` puts the eight type invariants together, from `Separate`.

**Proved only.** `OriginFixed`, `RebuildRepairs` and the type invariant of `ThesisStore` are
theorems and in no run any more: an id given twice breaks `IndexPointsToThesis` and a
rebuild that misses a file breaks `StaleOnlyIfCutOff`, which the runs keep.

**Model-checked only.** Liveness (`AcquireReturns`, `RunEnds`) and closeability
(`EquityCloseable`), since the prover handles neither fairness nor `ENABLED`; the step
that makes the second true is proved (`EquityCloseAccepted`).

## 5. Where the code and its documentation disagree

Five runs end in a counterexample, each against a quoted line.

1. `terminate(INVALIDATED)` with a price and no date after a trim multiplies by
   the original quantity and ignores the trims (`thesis_pnl_sum`);
   `references/thesis_lifecycle.md` says the outcome is the sum of
   `realized_pnl`.
2. `update` can store a NaN entry price on an open futures thesis, after which
   `close` and `trim` refuse it (`thesis_futures_closeable`); the comment on
   the save chokepoint says that no save path can persist an uncloseable
   thesis. The check runs in the equity branch only.
3. Overlapping invocations of the routine can both get the lock
   (`lock_overlap`); the documentation says that the lock makes a second
   invocation safe.
4. `set-screening-audit` reads `selected_count or -1`, so that an audit that
   selected nothing is refused and a run cannot reach the documented outcome
   `no_candidates` (`run_state_no_candidates`).
5. The follow-through day search passes over a swing low whose rally failed
   before it asks whether the follow-through day there was invalidated
   (`ftd_no_fallback`): after closes ... 112, 110, 108, 106, 104 an older one is
   confirmed again, on a lower close. A comment and a test say that an
   invalidated one ends the search.

Seen while modelling, and not made into runs:

- Thesis store: overlapping `register` calls for one origin make two theses;
  `attach_position` rewrites `position.shares` of an ACTIVE thesis, which the
  documentation calls immutable; a futures thesis opened over an attached equity
  position keeps `shares_remaining` when it is closed; an operation that
  overlaps another on the same thesis puts the earlier status or reports back;
  a generated id (16 bits) is not compared with the ids in use; a kill in the
  middle of `ingest_bulk_csv` leaves the first rows registered.
- Routine: a pid that was reused keeps the lock from being replaced, and one that
  is another user's (`PermissionError`) does not, though alive; a
  `KeyboardInterrupt`, or a second failure of `write_summary`, leaves no
  summary, though `run_routine`'s docstring promises one.
- Generation pipeline: a rollback leaves the designer's files outside the
  skill's paths, and a failed `git checkout main` the branch, after which every
  run refuses the tree until the operator cleans up (`excused`); an attempt that
  is killed or raises counts no retry. A backlog that cannot be read or parsed is
  taken for an empty one, and the next save erases every verdict in it, also when
  only that one read failed; the docstring of `merge_into_backlog`
  (`score_ideas.py`:326) says that existing ideas' fields, above all their status,
  are never overwritten.
- Improvement loop: the launcher's reset precedes the lock, so that a second
  launch discards what the first is at (`Separate = FALSE` refutes
  `ReportsWhatIsPublished`); a branch left at the origin by a closed pull
  request makes every later push of that day fail.
- Run state: a repeated screen sets the completed count to zero while verified
  candidates stay, which assemble then refuses until one is saved again.
- Replay: a `KeyboardInterrupt` between two renames skips the rollback; the old
  tree stays in its backup.
- Robot tester: after a kill between the copies and the unlink every resume
  stops at "destination already exists" until the copy is removed by hand; a
  terminal orphaned by a kill of the run itself is not noticed. An interrupt right
  after `source.unlink()` (`mt5_batch_tester.py`:1022) makes the handler below it
  unlink the copy as well: a rejected robot is then in no folder (`dropped`), though
  the docstring of `_move_exclusive` says the source is removed only after the
  destination succeeded.
- Follow-through day: a confirmed day whose swing low is not among the six
  latest is forgotten.
- Triggers: a state file is emptied before it is written; after a kill in
  between, a run without bars reports the plan as armed. A comment in
  `vwap_fail_evaluator.py` speaks of the retest bar's close where the code uses
  its high.
- Distribution days: a window shorter than the term and two sessions is flagged
  and used all the same, and the days it does not reach are missing from the
  count; the five percent are a product of floats without the tolerance that the
  decline has, so that a rise from 400.60 to 420.63, five percent to the cent, is
  none.
- Breaker: an idea invalidated before it was entered counts as incomplete data
  and blocks for good; a weekly halt is lifted by an evaluation on a holiday
  that begins the next week, before the session the halt names.

## 6. Plan

Done, in this order because the theses are where money is counted and the
routine and the loops are what runs unattended:

1. `ThesisLifecycle`, `PositionAccount`, proofs.
2. `ThesisStore`, `ThesisRegistry`, proofs.
3. `PidLock`, proofs.
4. `DailyRoutine`, composed with `PidLock`, proofs.
5. `SkillGeneration`, `IdeaBacklog`; `SkillImprovement`; proofs. Their composition
   was planned, and dropped when it turned out that each has a checkout of its own.
6. `RunState`, proofs.
7. `PublishTransaction`, `AtomicPublication`, composed into `WorkflowReplay`, proofs.
8. `RobotTester`, proofs.
9. `CircuitBreaker`, `FollowThrough`, `IntradayTriggers`; proofs.
10. `DistributionDays`, `DistributionLedger`; proofs.

Next: the edge pipeline's orchestrator with its bounded review, and the FMP
client's retry and budget.

## 7. Not modelled

Most of the repository's lines compute a report from data: screeners, scorers,
market analysis, report parsers, statistics, and the 20,000 lines of the growth
screener and the replay's executors. Their correctness is numeric, one call at a
time, and is the business of unit tests; a model would repeat the arithmetic.
Checks of the repository itself (catalogue, documentation, supply chain) are
functions of its files. Of the modelled programs, wording, logs, prompts, and
the validation of payloads beyond what a guard reads are left out; the notes in
`PROJECT.json` say so per component.
