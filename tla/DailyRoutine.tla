---------------------------- MODULE DailyRoutine ----------------------------
(***************************************************************************)
(* The daily trading routine: invocations of                               *)
(* scripts/run_daily_trading_routine.py that take the PID lock, run child  *)
(* skills in stages behind two gates, and leave a summary.  The lock is    *)
(* that of PidLock, action for action; this module adds what a process     *)
(* does while its place in PidLock is "running" or "skipped".              *)
(*                                                                         *)
(* The skills of a stage run in a thread pool and end in any order; a      *)
(* stage waits for all of its skills.  A child that fails to start, exits  *)
(* non-zero, times out or leaves no valid artifact has "failed".           *)
(***************************************************************************)
EXTENDS PidLock, FiniteSets

CONSTANTS
    RequiredInputs,     \* keys of the required market skills
    OptionalInputs,     \* keys of the optional ones (macro_regime)
    RequiredScreeners,  \* keys of the required screeners (vcp)
    OptionalScreeners   \* keys of the optional ones

VARIABLES
    stage,     \* stage[p]: where run_routine is
    res,       \* res[p][k]: the result of skill k in p's run
    outcome,   \* outcome[p]: status and queue of the summary being written
    json,      \* json[p]: summary.json in p's run directory, or None
    md         \* md[p]: summary.md, or None

runVars == <<stage, res, outcome, json, md>>
vars    == <<lockVars, runVars>>

Inputs    == RequiredInputs \cup OptionalInputs
Screeners == RequiredScreeners \cup OptionalScreeners
Skills    == Inputs \cup {"exposure", "circuit_breaker"} \cup Screeners

Results  == {"none", "started", "failed", "stale", "fresh", "denied", "allowed",
             "empty", "candidates"}
Statuses == {"COMPLETED_REVIEW_REQUIRED", "STOPPED_BY_EXPOSURE_GATE",
             "STOPPED_STALE_DATA", "STOPPED_BY_CIRCUIT_BREAKER",
             "FAILED_REQUIRED_SKILL", "SKIPPED_OVERLAP"}
Summary  == [status : Statuses, queue : {"empty", "candidates"}]
Stages   == {"none", "market", "exposure", "breaker", "screeners",
             "json", "md", "json_again", "md_again", "written", "escaped"}

ASSUME RoutineAssumption ==
    /\ None \notin Summary
    /\ RequiredInputs \cap OptionalInputs = {}
    /\ RequiredScreeners \cap OptionalScreeners = {}
    /\ Inputs \cap Screeners = {}
    /\ {"exposure", "circuit_breaker"} \cap (Inputs \cup Screeners) = {}

Init ==
    /\ LockInit
    /\ stage = [p \in Procs |-> "none"]
    /\ res = [p \in Procs |-> [k \in Skills |-> "none"]]
    /\ outcome = [p \in Procs |-> None]
    /\ json = [p \in Procs |-> None]
    /\ md = [p \in Procs |-> None]

-----------------------------------------------------------------------------
(***************************************************************************)
(* Child skills.                                                           *)
(***************************************************************************)

\* MUTANT of Endings: the source date of an input is not checked at all.
EndingsUnchecked(k) == {"failed", "ok"}

\* What a child that ended can have left behind.  A source date that is
\* missing, in the future or older than the limit makes an input stale.
Endings(k) ==
    CASE k \in RequiredInputs -> {"failed", "stale", "fresh"}
      [] k \in OptionalInputs -> {"failed", "fresh"}
      [] k \in {"exposure", "circuit_breaker"} -> {"failed", "denied", "allowed"}
      [] OTHER -> {"failed", "empty", "candidates"}

\* _run_skill returns, or raises in the pool and is recorded as an error.
SkillEnds(p, k) ==
    /\ pc[p] = "running"
    /\ res[p][k] = "started"
    /\ \E r \in Endings(k) : res' = [res EXCEPT ![p][k] = r]
    /\ UNCHANGED <<lockVars, stage, outcome, json, md>>

Over(p, S) == \A k \in S : res[p][k] \notin {"none", "started"}
Some(p, S, r) == \E k \in S : res[p][k] = r

\* Go on to a stage by submitting its skills.
Submit(p, next, S) ==
    /\ stage' = [stage EXCEPT ![p] = next]
    /\ res' = [res EXCEPT ![p] = [k \in Skills |-> IF k \in S THEN "started" ELSE @[k]]]
    /\ UNCHANGED <<lockVars, outcome, json, md>>

\* Go on to write_summary.
Conclude(p, status, queue) ==
    /\ stage' = [stage EXCEPT ![p] = "json"]
    /\ outcome' = [outcome EXCEPT ![p] = [status |-> status, queue |-> queue]]
    /\ UNCHANGED <<lockVars, res, json, md>>

-----------------------------------------------------------------------------
(***************************************************************************)
(* run_routine.                                                            *)
(***************************************************************************)
RunMarketRegime(p) ==
    /\ pc[p] = "running"
    /\ stage[p] = "none"
    /\ Submit(p, "market", Inputs)

\* MUTANT of CheckInputs: a stale input is only a warning.
CheckInputsLeniently(p) ==
    /\ stage[p] = "market" /\ pc[p] = "running"
    /\ Over(p, Inputs)
    /\ IF Some(p, RequiredInputs, "failed")
         THEN Conclude(p, "FAILED_REQUIRED_SKILL", "empty")
         ELSE Submit(p, "exposure", {"exposure"})

\* MUTANT of CheckInputs: wait until the required inputs are there.
CheckInputsOnSuccess(p) ==
    /\ stage[p] = "market" /\ pc[p] = "running"
    /\ Over(p, Inputs)
    /\ ~Some(p, RequiredInputs, "failed")
    /\ IF Some(p, RequiredInputs, "stale")
         THEN Conclude(p, "STOPPED_STALE_DATA", "empty")
         ELSE Submit(p, "exposure", {"exposure"})

\* The required inputs must all be there and fresh; the optional are not asked.
CheckInputs(p) ==
    /\ stage[p] = "market" /\ pc[p] = "running"
    /\ Over(p, Inputs)
    /\ IF Some(p, RequiredInputs, "failed")
         THEN Conclude(p, "FAILED_REQUIRED_SKILL", "empty")
         ELSE IF Some(p, RequiredInputs, "stale")
         THEN Conclude(p, "STOPPED_STALE_DATA", "empty")
         ELSE Submit(p, "exposure", {"exposure"})

CheckExposure(p) ==
    /\ stage[p] = "exposure" /\ pc[p] = "running"
    /\ Over(p, {"exposure"})
    /\ CASE res[p]["exposure"] = "failed" -> Conclude(p, "FAILED_REQUIRED_SKILL", "empty")
         [] res[p]["exposure"] = "denied" -> Conclude(p, "STOPPED_BY_EXPOSURE_GATE", "empty")
         [] OTHER -> Submit(p, "breaker", {"circuit_breaker"})

\* Besides the child's own result, the redacted artifact may fail to be written.
CheckBreaker(p) ==
    /\ stage[p] = "breaker" /\ pc[p] = "running"
    /\ Over(p, {"circuit_breaker"})
    /\ \/ Conclude(p, "FAILED_REQUIRED_SKILL", "empty")
       \/ /\ res[p]["circuit_breaker"] = "denied"
          /\ Conclude(p, "STOPPED_BY_CIRCUIT_BREAKER", "empty")
       \/ /\ res[p]["circuit_breaker"] = "allowed"
          /\ Submit(p, "screeners", Screeners)

\* MUTANT of CheckScreeners: the queue is kept when a required screener failed.
CheckScreenersKeepingQueue(p) ==
    /\ stage[p] = "screeners" /\ pc[p] = "running"
    /\ Over(p, Screeners)
    /\ Conclude(p, IF Some(p, RequiredScreeners, "failed")
                     THEN "FAILED_REQUIRED_SKILL" ELSE "COMPLETED_REVIEW_REQUIRED",
                   IF Some(p, Screeners, "candidates") THEN "candidates" ELSE "empty")

\* A failed optional screener is a warning; a failed required one ends the run
\* without a queue.
CheckScreeners(p) ==
    /\ stage[p] = "screeners" /\ pc[p] = "running"
    /\ Over(p, Screeners)
    /\ IF Some(p, RequiredScreeners, "failed")
         THEN Conclude(p, "FAILED_REQUIRED_SKILL", "empty")
         ELSE Conclude(p, "COMPLETED_REVIEW_REQUIRED",
                       IF Some(p, Screeners, "candidates") THEN "candidates" ELSE "empty")

\* A stage raises; the pool of threads has waited for the skills submitted.
Raise(p) ==
    /\ pc[p] = "running"
    /\ stage[p] \in {"none", "market", "exposure", "breaker", "screeners"}
    /\ ~Some(p, Skills, "started")
    /\ Conclude(p, "FAILED_REQUIRED_SKILL", "empty")

\* MUTANT of Skip: acquire_lock is inside the try, so a skipped run unlinks too.
SkipAndRelease(p) ==
    /\ pc[p] = "skipped"
    /\ stage[p] = "none"
    /\ lock' = None
    /\ stage' = [stage EXCEPT ![p] = "json"]
    /\ outcome' = [outcome EXCEPT ![p] = [status |-> "SKIPPED_OVERLAP", queue |-> "empty"]]
    /\ UNCHANGED <<pc, seen, tries, res, json, md>>

\* acquire_lock returned False.
Skip(p) ==
    /\ pc[p] = "skipped"
    /\ stage[p] = "none"
    /\ Conclude(p, "SKIPPED_OVERLAP", "empty")

-----------------------------------------------------------------------------
(***************************************************************************)
(* write_summary: both texts go to temporary files, then summary.json and  *)
(* summary.md are replaced, in this order.  If it raises, run_routine      *)
(* tries once more with a failed status and the queue it has; what that    *)
(* raises escapes, as does the first failure of a skipped run.             *)
(***************************************************************************)
Writing == {"json", "md", "json_again", "md_again"}

GoToStage(p, next) == stage' = [stage EXCEPT ![p] = next]

\* MUTANT of ReplaceJson: the two replaces are swapped.
ReplaceMarkdownFirst(p) ==
    /\ stage[p] \in {"json", "json_again"} /\ pc[p] \in {"running", "skipped"}
    /\ md' = [md EXCEPT ![p] = outcome[p]]
    /\ GoToStage(p, IF stage[p] = "json" THEN "md" ELSE "md_again")
    /\ UNCHANGED <<lockVars, res, outcome, json>>

ReplaceJson(p) ==
    /\ stage[p] \in {"json", "json_again"} /\ pc[p] \in {"running", "skipped"}
    /\ json' = [json EXCEPT ![p] = outcome[p]]
    /\ GoToStage(p, IF stage[p] = "json" THEN "md" ELSE "md_again")
    /\ UNCHANGED <<lockVars, res, outcome, md>>

ReplaceMarkdown(p) ==
    /\ stage[p] \in {"md", "md_again"} /\ pc[p] \in {"running", "skipped"}
    /\ md' = [md EXCEPT ![p] = outcome[p]]
    /\ GoToStage(p, "written")
    /\ UNCHANGED <<lockVars, res, outcome, json>>

WriteFails(p) ==
    /\ stage[p] \in Writing /\ pc[p] \in {"running", "skipped"}
    /\ IF pc[p] = "running" /\ stage[p] \in {"json", "md"}
         THEN /\ GoToStage(p, "json_again")
              /\ outcome' = [outcome EXCEPT ![p] =
                                [status |-> "FAILED_REQUIRED_SKILL", queue |-> @.queue]]
         ELSE GoToStage(p, "escaped") /\ UNCHANGED outcome
    /\ UNCHANGED <<lockVars, res, json, md>>

\* A KeyboardInterrupt is no Exception: nothing is written, the lock still goes.
\* The pool of threads first waits for the skills submitted.
Interrupt(p) ==
    /\ pc[p] = "running"
    /\ stage[p] \notin {"written", "escaped"}
    /\ ~Some(p, Skills, "started")
    /\ GoToStage(p, "escaped")
    /\ UNCHANGED <<lockVars, res, outcome, json, md>>

\* MUTANT of ReleaseLock: the lock goes before the first stage.
ReleaseAtOnce(p) ==
    /\ Release(p)
    /\ UNCHANGED runVars

\* The finally clause: the lock goes when the run has nothing left to write.
ReleaseLock(p) ==
    /\ stage[p] \in {"written", "escaped"}
    /\ Release(p)
    /\ UNCHANGED runVars

LockStep(p) ==
    /\ Start(p) \/ AcquireStep(p) \/ Exit(p) \/ Crash(p) \/ GivePid(p)
    /\ UNCHANGED runVars

\* What p's own code does next when nothing goes wrong.
Proceed(p) ==
    \/ AcquireStep(p) /\ UNCHANGED runVars
    \/ Skip(p) \/ RunMarketRegime(p)
    \/ \E k \in Skills : SkillEnds(p, k)
    \/ CheckInputs(p) \/ CheckExposure(p) \/ CheckBreaker(p) \/ CheckScreeners(p)
    \/ ReplaceJson(p) \/ ReplaceMarkdown(p)
    \/ ReleaseLock(p)

Next == \E p \in Procs :
    \/ Proceed(p) \/ LockStep(p)
    \/ Raise(p) \/ WriteFails(p) \/ Interrupt(p)

Spec == Init /\ [][Next]_vars

\* A process goes on until it ends: every child has a timeout, after which
\* subprocess.run kills it, and nothing else in a run waits.  Nothing is
\* assumed of when invocations start or die, or of what fails.
FairSpec == Spec /\ \A p \in Procs : WF_vars(Proceed(p))

-----------------------------------------------------------------------------
\* Every variable stays in its type.
TypeOK ==
    /\ LockTypeOK
    /\ stage \in [Procs -> Stages]
    /\ res \in [Procs -> [Skills -> Results]]
    /\ outcome \in [Procs -> Summary \cup {None}]
    /\ json \in [Procs -> Summary \cup {None}]
    /\ md \in [Procs -> Summary \cup {None}]

Fresh(p) == \A k \in RequiredInputs : res[p][k] = "fresh"

\* Fail-closed order of the gates: no skill is started before everything ahead
\* of it has explicitly allowed it, whatever failed, ended late or raised.
GatesHold ==
    \A p \in Procs :
        /\ res[p]["exposure"] # "none" => Fresh(p)
        /\ res[p]["circuit_breaker"] # "none" => res[p]["exposure"] = "allowed"
        /\ \A k \in Screeners : res[p][k] # "none" =>
               res[p]["circuit_breaker"] = "allowed"

Cleared(p) ==
    /\ Fresh(p)
    /\ res[p]["exposure"] = "allowed"
    /\ res[p]["circuit_breaker"] = "allowed"
    /\ Over(p, Screeners)
    /\ ~Some(p, RequiredScreeners, "failed")

\* A summary on disk reports a completed run or shows candidates only for a run
\* that passed both gates and whose required screeners all ended well, also
\* when it was written by the handler of a failed write.
QueueOnlyIfCleared ==
    \A p \in Procs : \A s \in {json[p], md[p]} :
        s # None /\ (s.status = "COMPLETED_REVIEW_REQUIRED" \/ s.queue = "candidates")
            => Cleared(p)

\* The operator's summary.md never says something else than the machine's
\* summary.json, wherever the process dies and whichever write fails, and a run
\* that released its lock without an error has left both.
MarkdownRepeatsJson ==
    \A p \in Procs :
        /\ md[p] # None => md[p] = json[p]
        /\ stage[p] = "written" => md[p] # None

\* Skills are never running for two invocations at once: what the lock is for.
OneRunSpends ==
    \A p, q \in Procs :
        Some(p, Skills, "started") /\ Some(q, Skills, "started")
          /\ pc[p] # "dead" /\ pc[q] # "dead" => p = q

\* The routine uses the lock as PidLock says: every step of an invocation is a
\* step of the lock protocol or leaves the lock alone.
ObeysLock == LockSpec

\* A run that got the lock gives it up, if it is not killed: no failure of a
\* skill, a stage or a write leaves it in possession of the lock.
RunEnds ==
    \A p \in Procs : pc[p] = "running" ~> pc[p] # "running"
=============================================================================
