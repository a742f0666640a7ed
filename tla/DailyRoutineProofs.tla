-------------------------- MODULE DailyRoutineProofs --------------------------
(***************************************************************************)
(* What the PID lock and the daily routine guarantee for any set of skills *)
(* and screeners and any number of invocations that die anywhere.          *)
(*                                                                         *)
(* Gates, queue and summaries are a matter of one invocation: its stages   *)
(* follow one another whatever the lock does, so they need no assumption   *)
(* on it.  That two invocations never run skills at once is what the lock  *)
(* is for.  It holds when acquire_lock calls do not overlap and no pid     *)
(* goes to another program: without these two, TLC refutes it.             *)
(***************************************************************************)
EXTENDS DailyRoutine, TLAPS

(***************************************************************************)
(* The lock.                                                               *)
(***************************************************************************)
Orderly == ~Overlap /\ ~PidReuse

Ran     == {"running", "leaving", "done", "dead"}
Idle    == \A q \in Procs : pc[q] # "running"

\* Acquisitions do not overlap, and no pid belongs to another program.
OneAcquires ==
    \A p, q \in Procs : pc[p] \in Acquiring /\ pc[q] \in Acquiring => p = q

NoForeign == \A p \in Procs : pc[p] # "foreign"

\* A pid in the lock file is that of an invocation past its acquire_lock.
PidRan ==
    /\ lock # None /\ lock.pid # None => pc[lock.pid] \in Ran
    /\ \A p \in Procs : pc[p] = "probe" => seen[p] \in Procs /\ pc[seen[p]] \in Ran

\* While one invocation acquires, a run may end but none begins: what it has
\* read of the lock file can only be outdated in the harmless direction.
WriterAlone ==
    \A p \in Procs : pc[p] = "write" => Idle /\ lock = [maker |-> p, pid |-> None]

ProbesRunner ==
    \A p, q \in Procs : pc[p] = "probe" /\ pc[q] = "running" => seen[p] = q

UnlinksStale == \A p \in Procs : pc[p] = "unlink" => Idle

\* The second attempt finds no lock file: the first has removed it.
FirstTry ==
    \A p \in Procs :
        /\ pc[p] \in Acquiring => tries[p] \in 1..MaxTries
        /\ pc[p] = "create" /\ tries[p] = MaxTries => lock = None
        /\ pc[p] \in {"read", "probe", "unlink"} => tries[p] = 1

LockInv ==
    /\ LockTypeOK
    /\ OneAcquires
    /\ NoForeign
    /\ PidRan
    /\ WriterAlone
    /\ ProbesRunner
    /\ UnlinksStale
    /\ FirstTry
    /\ LockNamesRunner

LEMMA LockNoneApart == None \notin Procs /\ None \notin LockFile
BY LockAssumption DEF LockFile

LEMMA LockInitInv == LockInit => LockInv
BY DEF LockInit, LockInv, LockTypeOK, OneAcquires, NoForeign, PidRan, WriterAlone,
    ProbesRunner, UnlinksStale, FirstTry, LockNamesRunner, Places, Ended,
    Acquiring, MaxTries, Idle

\* One case per action: what each part of the invariant says is about pc, the
\* lock file and what was read of it, which every action touches.
LEMMA LockStepInv ==
    ASSUME Orderly, LockInv, [LockNext]_lockVars
    PROVE  LockInv'
<1> USE LockNoneApart
    DEF LockInv, LockTypeOK, LockFile, GoTo, MaxTries, Places, Acquiring, Ended,
        Ran, Idle, OneAcquires, NoForeign, PidRan, WriterAlone, ProbesRunner,
        UnlinksStale, FirstTry, LockNamesRunner
<1>1. CASE UNCHANGED lockVars
  BY <1>1 DEF lockVars
<1>2. ASSUME NEW p \in Procs, Start(p)
      PROVE  LockInv'
  BY <1>2 DEF Start, Orderly
<1>3. ASSUME NEW p \in Procs, Create(p)
      PROVE  LockInv'
  BY <1>3 DEF Create
<1>4. ASSUME NEW p \in Procs, Write(p)
      PROVE  LockInv'
  BY <1>4 DEF Write
<1>5. ASSUME NEW p \in Procs, Read(p)
      PROVE  LockInv'
  BY <1>5 DEF Read
<1>6. ASSUME NEW p \in Procs, Probe(p)
      PROVE  LockInv'
  BY <1>6 DEF Probe, Alive
<1>7. ASSUME NEW p \in Procs, Unlink(p)
      PROVE  LockInv'
  BY <1>7 DEF Unlink
<1>8. ASSUME NEW p \in Procs, Release(p)
      PROVE  LockInv'
  BY <1>8 DEF Release
<1>9. ASSUME NEW p \in Procs, Exit(p) \/ Crash(p)
      PROVE  LockInv'
  BY <1>9 DEF Exit, Crash
<1>10. ASSUME NEW p \in Procs, GivePid(p)
       PROVE  LockInv'
  BY <1>10 DEF GivePid, Orderly
<1>11. QED
  BY <1>1, <1>2, <1>3, <1>4, <1>5, <1>6, <1>7, <1>8, <1>9, <1>10
  DEF LockNext, AcquireStep

\* acquire_lock and release_lock keep the invariant, wherever an invocation dies.
THEOREM LockInductive == Orderly /\ LockSpec => []LockInv
<1>1. CASE Orderly
  <2>1. LockInv /\ [LockNext]_lockVars => LockInv'
    BY <1>1, LockStepInv
  <2>2. QED BY <2>1, LockInitInv, PTL DEF LockSpec
<1>2. CASE ~Orderly
  BY <1>2
<1>3. QED BY <1>1, <1>2

\* Type correctness of the lock protocol, which bounds the attempts to two.
THEOREM LockTypeCorrect == Orderly /\ LockSpec => []LockTypeOK
<1>1. LockInv => LockTypeOK
  BY DEF LockInv
<1>2. QED BY <1>1, LockInductive, PTL

\* Any number of invocations run one at a time, and the one that runs is named
\* in the lock file.
THEOREM OneRunAtATime == Orderly /\ LockSpec => [](MutualExclusion /\ LockNamesRunner)
<1>1. LockInv => MutualExclusion /\ LockNamesRunner
  <2> SUFFICES ASSUME LockInv, NEW p \in Procs, NEW q \in Procs,
                      pc[p] = "running", pc[q] = "running"
               PROVE  p = q
    BY DEF LockInv, MutualExclusion
  <2>1. /\ lock = [maker |-> p, pid |-> p]
        /\ lock = [maker |-> q, pid |-> q]
    BY DEF LockInv, LockNamesRunner
  <2>2. QED BY <2>1
<1>2. QED BY <1>1, LockInductive, PTL

\* No invocation is skipped on account of a lock file a dead one left.
THEOREM StaleLockReplaced == Orderly /\ LockSpec => SkippedByRun
<1> DEFINE A == \A p \in Procs : pc[p] # "skipped" /\ pc'[p] = "skipped" =>
                   \E q \in Procs : pc[q] \in {"running", "leaving"}
<1>1. ASSUME LockInv, [LockNext]_lockVars
      PROVE  [A]_lockVars
  <2> SUFFICES ASSUME NEW p \in Procs, pc[p] # "skipped", pc'[p] = "skipped"
               PROVE  \E q \in Procs : pc[q] \in {"running", "leaving"}
    OBVIOUS
  <2>1. Probe(p) \/ Unlink(p)
    BY <1>1 DEF LockNext, lockVars, AcquireStep, Start, Create, Write, Read, Probe,
        Unlink, Release, Exit, Crash, GivePid, GoTo, LockInv, LockTypeOK
  <2>2. ~Unlink(p)
    BY <1>1 DEF Unlink, GoTo, LockInv, LockTypeOK, FirstTry, MaxTries
  <2>3. Alive(seen[p]) /\ pc[p] = "probe"
    BY <1>1, <2>1, <2>2 DEF Probe, GoTo, LockInv, LockTypeOK
  <2>4. QED
    BY <1>1, <2>3 DEF LockInv, PidRan, Ran, Alive, Acquiring
<1>2. QED BY <1>1, LockInductive, PTL DEF LockSpec, SkippedByRun

-----------------------------------------------------------------------------
(***************************************************************************)
(* The routine under the lock.                                             *)
(***************************************************************************)

\* The skills that a stage waits for.
SkillsOf(s) ==
    CASE s = "market"    -> Inputs
      [] s = "exposure"  -> {"exposure"}
      [] s = "breaker"   -> {"circuit_breaker"}
      [] s = "screeners" -> Screeners
      [] OTHER           -> {}

\* A skill that is running was submitted by the stage that is on.
OnlyStageRuns(p) == \A k \in Skills : res[p][k] = "started" => k \in SkillsOf(stage[p])

\* What a skill left behind is of its kind: no screener allows, no gate is fresh.
ResultsFit(p) ==
    \A k \in Skills : res[p][k] \in Endings(k) \cup {"none", "started"}

\* No skill of a later stage has a result; what let the run get here was allowed.
Untouched(p, S) == \A k \in S : res[p][k] = "none"
StagesInOrder(p) ==
    /\ stage[p] = "none" => Untouched(p, Skills)
    /\ stage[p] = "market" => Untouched(p, {"exposure", "circuit_breaker"} \cup Screeners)
    /\ stage[p] = "exposure" => Fresh(p) /\ Untouched(p, {"circuit_breaker"} \cup Screeners)
    /\ stage[p] = "breaker" => res[p]["exposure"] = "allowed" /\ Untouched(p, Screeners)
    /\ stage[p] = "screeners" => res[p]["circuit_breaker"] = "allowed"

\* The gates in front of p's skills (GatesHold, for one invocation).
Gated(p) ==
    /\ res[p]["exposure"] # "none" => Fresh(p)
    /\ res[p]["circuit_breaker"] # "none" => res[p]["exposure"] = "allowed"
    /\ \A k \in Screeners : res[p][k] # "none" => res[p]["circuit_breaker"] = "allowed"

\* A summary exists from the end of the last stage on, when all skills are over:
\* what it was decided on can no longer change.
Deciding == {"none", "market", "exposure", "breaker", "screeners"}
Decided(p) ==
    /\ stage[p] \in Writing => outcome[p] # None
    /\ stage[p] \in Deciding => outcome[p] = None
    /\ outcome[p] = None => json[p] = None /\ md[p] = None

Honest(p, s) ==
    s # None /\ (s.status = "COMPLETED_REVIEW_REQUIRED" \/ s.queue = "candidates")
        => Cleared(p)
Reported(p) == Honest(p, outcome[p]) /\ Honest(p, json[p]) /\ Honest(p, md[p])

\* The markdown is written once, after a JSON of the same outcome.
WrittenInOrder(p) ==
    /\ stage[p] \in Writing => md[p] = None
    /\ stage[p] \in {"md", "md_again"} => json[p] = outcome[p]
    /\ md[p] # None => md[p] = json[p]
    /\ stage[p] = "written" => md[p] # None

\* Skills run only for an invocation that has the lock, or has died with it.
SpendsInRun(p) == Some(p, Skills, "started") => pc[p] \in {"running", "dead", "foreign"}

RunInv(p) ==
    /\ OnlyStageRuns(p)
    /\ ResultsFit(p)
    /\ StagesInOrder(p)
    /\ Gated(p)
    /\ Decided(p)
    /\ Reported(p)
    /\ WrittenInOrder(p)
    /\ SpendsInRun(p)

RoutineInv == TypeOK /\ \A p \in Procs : RunInv(p)

-----------------------------------------------------------------------------
(***************************************************************************)
(* The routine obeys the lock protocol.                                    *)
(***************************************************************************)

\* Everything that is not a step of acquire_lock or release_lock, an exit or a
\* death leaves the lock alone.
LEMMA StepObeysLock == [Next]_vars => [LockNext]_lockVars
<1> SUFFICES ASSUME [Next]_vars
             PROVE  [LockNext]_lockVars
  OBVIOUS
<1>1. CASE UNCHANGED vars
  BY <1>1 DEF vars
<1>2. ASSUME NEW p \in Procs, Proceed(p)
      PROVE  [LockNext]_lockVars
  <2>1. CASE AcquireStep(p) \/ ReleaseLock(p)
    BY <2>1 DEF ReleaseLock, LockNext
  <2>2. CASE ~(AcquireStep(p) \/ ReleaseLock(p))
    <3>1. UNCHANGED lockVars
      BY <1>2, <2>2 DEF Proceed, Skip, RunMarketRegime, SkillEnds, CheckInputs,
          CheckExposure, CheckBreaker, CheckScreeners, ReplaceJson, ReplaceMarkdown,
          Submit, Conclude
    <3>2. QED BY <3>1
  <2>3. QED BY <2>1, <2>2
<1>3. ASSUME NEW p \in Procs, LockStep(p)
      PROVE  [LockNext]_lockVars
  BY <1>3 DEF LockStep, LockNext
<1>4. ASSUME NEW p \in Procs, Raise(p) \/ WriteFails(p) \/ Interrupt(p)
      PROVE  [LockNext]_lockVars
  BY <1>4 DEF Raise, WriteFails, Interrupt, Conclude
<1>5. QED BY <1>1, <1>2, <1>3, <1>4 DEF Next

\* Every behaviour of the routine is one of the lock protocol: what PidLock says
\* of the lock holds of the routine that uses it.
THEOREM RoutineObeysLock == Spec => ObeysLock
<1>1. Init => LockInit
  BY DEF Init
<1>2. QED BY <1>1, StepObeysLock, PTL DEF Spec, ObeysLock, LockSpec

-----------------------------------------------------------------------------
(***************************************************************************)
(* One invocation at a time.                                               *)
(***************************************************************************)

\* The groups of skills are apart, so that each result is of one kind.
LEMMA GroupsApart ==
    /\ None \notin Summary
    /\ "exposure" \notin Inputs \cup Screeners \cup {"circuit_breaker"}
    /\ "circuit_breaker" \notin Inputs \cup Screeners
    /\ \A k \in Inputs : k \notin Screeners
    /\ \A k \in RequiredInputs : k \in Inputs /\ k \in Skills
    /\ \A k \in Inputs \cup Screeners : k \in Skills
    /\ "exposure" \in Skills /\ "circuit_breaker" \in Skills
    /\ \A k \in Skills : k \in Inputs \cup Screeners \cup {"exposure", "circuit_breaker"}
BY RoutineAssumption DEF Inputs, Screeners, Skills

LEMMA EndingsByKind ==
    /\ \A k \in Skills : Endings(k) \subseteq Results \ {"none", "started"}
    /\ \A k \in RequiredInputs : Endings(k) = {"failed", "stale", "fresh"}
    /\ Endings("exposure") = {"failed", "denied", "allowed"}
    /\ Endings("circuit_breaker") = {"failed", "denied", "allowed"}
BY RoutineAssumption DEF Endings, Results, Skills, Inputs, Screeners

LEMMA LockTyped ==
    ASSUME LockTypeOK, [LockNext]_lockVars
    PROVE  LockTypeOK'
<1> USE DEF LockTypeOK, LockFile, Places, Acquiring, Ended, MaxTries, GoTo
<1>1. CASE UNCHANGED lockVars
  BY <1>1 DEF lockVars
<1>2. ASSUME NEW p \in Procs, Start(p) \/ Create(p) \/ Write(p) \/ Read(p)
      PROVE  LockTypeOK'
  BY <1>2 DEF Start, Create, Write, Read
<1>3. ASSUME NEW p \in Procs, Probe(p) \/ Unlink(p)
      PROVE  LockTypeOK'
  BY <1>3 DEF Probe, Unlink
<1>4. ASSUME NEW p \in Procs, Release(p) \/ Exit(p) \/ Crash(p) \/ GivePid(p)
      PROVE  LockTypeOK'
  BY <1>4 DEF Release, Exit, Crash, GivePid
<1>5. QED BY <1>1, <1>2, <1>3, <1>4 DEF LockNext, AcquireStep

\* What is said of an invocation depends on its own entries only, and, as for
\* its place, only on whether it may run skills.
LEMMA RunFrame ==
    ASSUME NEW q \in Procs, RunInv(q),
           stage'[q] = stage[q], res'[q] = res[q], outcome'[q] = outcome[q],
           json'[q] = json[q], md'[q] = md[q],
           Some(q, Skills, "started") => pc'[q] \in {"running", "dead", "foreign"}
    PROVE  RunInv(q)'
BY DEF RunInv, OnlyStageRuns, ResultsFit, StagesInOrder, Untouched, Gated, Decided,
    Reported, Honest, Cleared, Over, Some, Fresh, WrittenInOrder, SpendsInRun

LEMMA RoutineInitInv == Init => RoutineInv
<1> SUFFICES ASSUME Init PROVE RoutineInv
  OBVIOUS
<1>1. TypeOK
  BY DEF Init, LockInit, TypeOK, LockTypeOK, MaxTries, Places, Stages, Results
<1>2. ASSUME NEW p \in Procs
      PROVE  RunInv(p)
  BY GroupsApart
  DEF Init, RunInv, OnlyStageRuns, ResultsFit, StagesInOrder, Untouched, Gated, Decided,
      Deciding, Writing, Reported, Honest, WrittenInOrder, SpendsInRun, Some
<1>3. QED BY <1>1, <1>2 DEF RoutineInv

-----------------------------------------------------------------------------
(***************************************************************************)
(* One lemma per group of actions: the invocation that moves keeps its     *)
(* part of the invariant.                                                  *)
(***************************************************************************)

\* The other entries stay as they are.
Only(p) ==
    /\ \A q \in Procs \ {p} :
          /\ stage'[q] = stage[q] /\ res'[q] = res[q] /\ outcome'[q] = outcome[q]
          /\ json'[q] = json[q] /\ md'[q] = md[q]
    /\ UNCHANGED pc

\* Skills end while the stage waits.  A result that is there already is kept: no
\* gate that was passed can be taken back, and nothing decided is reopened.
LEMMA SkillEndsStep ==
    ASSUME RoutineInv, NEW p \in Procs, NEW k \in Skills, SkillEnds(p, k)
    PROVE  RunInv(p)' /\ Only(p)
<1> USE DEF SkillEnds
<1>1. /\ stage'[p] = stage[p] /\ outcome'[p] = outcome[p]
      /\ json'[p] = json[p] /\ md'[p] = md[p] /\ pc' = pc
  BY DEF lockVars
<1>2. PICK r \in Endings(k) : res' = [res EXCEPT ![p][k] = r]
  OBVIOUS
<1>3. /\ res'[p] = [res[p] EXCEPT ![k] = r]
      /\ \A q \in Procs \ {p} : res'[q] = res[q]
  BY <1>2 DEF RoutineInv, TypeOK
<1>4. res[p] \in [Skills -> Results]
  BY DEF RoutineInv, TypeOK
<1>5. r \notin {"none", "started"} /\ res[p][k] = "started" /\ k \in SkillsOf(stage[p])
  BY <1>2, EndingsByKind DEF RoutineInv, RunInv, OnlyStageRuns
<1>6. stage[p] \in Deciding \ {"none"}
  BY <1>5 DEF SkillsOf, Deciding
<1>7. (outcome[p] = None /\ json[p] = None /\ md[p] = None)'
  BY <1>1, <1>6 DEF RoutineInv, RunInv, Decided, Deciding
<1>8. OnlyStageRuns(p)' /\ ResultsFit(p)' /\ SpendsInRun(p)'
  BY <1>1, <1>3, <1>4, <1>5
  DEF RoutineInv, RunInv, OnlyStageRuns, ResultsFit, SpendsInRun, Some
<1>9. StagesInOrder(p)' /\ Gated(p)'
  BY <1>1, <1>3, <1>4, <1>5, GroupsApart
  DEF RoutineInv, RunInv, StagesInOrder, Gated, Untouched, Fresh, SkillsOf
<1>10. Decided(p)' /\ Reported(p)' /\ WrittenInOrder(p)'
  BY <1>1, <1>6, <1>7 DEF Decided, Reported, Honest, WrittenInOrder, Deciding, Writing
<1>11. QED BY <1>1, <1>3, <1>8, <1>9, <1>10 DEF RunInv, Only, RoutineInv, TypeOK

\* Going on to the next stage: everything ahead of it has just been found allowed,
\* and all that was started before is over.
LEMMA SubmitStep ==
    ASSUME RoutineInv, NEW p \in Procs, NEW next \in {"market", "exposure", "breaker", "screeners"},
           Submit(p, next, SkillsOf(next)), pc[p] = "running", stage[p] \in Deciding,
           \A k \in Skills : res[p][k] # "started",
           next = "market" => stage[p] = "none",
           next = "exposure" => stage[p] = "market" /\ Fresh(p),
           next = "breaker" => stage[p] = "exposure" /\ res[p]["exposure"] = "allowed",
           next = "screeners" => stage[p] = "breaker" /\ res[p]["circuit_breaker"] = "allowed"
    PROVE  RunInv(p)' /\ Only(p)
<1> USE DEF Submit
<1>1. /\ stage'[p] = next /\ outcome'[p] = outcome[p]
      /\ json'[p] = json[p] /\ md'[p] = md[p] /\ pc' = pc
  BY DEF lockVars, RoutineInv, TypeOK
<1>2. res'[p] = [k \in Skills |-> IF k \in SkillsOf(next) THEN "started" ELSE res[p][k]]
  BY DEF RoutineInv, TypeOK
<1>3. Only(p)
  BY DEF Only, lockVars, RoutineInv, TypeOK
<1>4. outcome[p] = None /\ json[p] = None /\ md[p] = None
  BY DEF RoutineInv, RunInv, Decided
<1>5. OnlyStageRuns(p)' /\ ResultsFit(p)' /\ SpendsInRun(p)'
  BY <1>1, <1>2
  DEF RoutineInv, RunInv, OnlyStageRuns, ResultsFit, SpendsInRun, Some
<1>6. StagesInOrder(p)' /\ Gated(p)'
  BY <1>1, <1>2, GroupsApart
  DEF RoutineInv, RunInv, StagesInOrder, Gated, Untouched, Fresh, SkillsOf
<1>7. Decided(p)' /\ Reported(p)' /\ WrittenInOrder(p)'
  BY <1>1, <1>4 DEF Decided, Reported, Honest, WrittenInOrder, Deciding, Writing
<1>8. QED BY <1>3, <1>5, <1>6, <1>7 DEF RunInv

\* Ending the stages: no skill is running, and a summary that reports success or
\* candidates is concluded only when the run is cleared.
LEMMA ConcludeStep ==
    ASSUME RoutineInv, NEW p \in Procs, NEW status \in Statuses,
           NEW queue \in {"empty", "candidates"},
           Conclude(p, status, queue), pc[p] \in {"running", "skipped"},
           stage[p] \in Deciding,
           \A k \in Skills : res[p][k] # "started",
           status = "COMPLETED_REVIEW_REQUIRED" \/ queue = "candidates" => Cleared(p)
    PROVE  RunInv(p)' /\ Only(p)
<1> USE DEF Conclude
<1>1. /\ stage'[p] = "json" /\ outcome'[p] = [status |-> status, queue |-> queue]
      /\ res'[p] = res[p] /\ json'[p] = json[p] /\ md'[p] = md[p] /\ pc' = pc
  BY DEF lockVars, RoutineInv, TypeOK
<1>2. Only(p)
  BY DEF Only, lockVars, RoutineInv, TypeOK
<1>3. json[p] = None /\ md[p] = None
  BY DEF RoutineInv, RunInv, Decided
<1>4. [status |-> status, queue |-> queue] # None
  BY GroupsApart DEF Summary
<1>5. Gated(p)' /\ ResultsFit(p)'
  BY <1>1 DEF RoutineInv, RunInv, Gated, ResultsFit, Fresh
<1>6. OnlyStageRuns(p)' /\ SpendsInRun(p)' /\ StagesInOrder(p)'
  BY <1>1 DEF OnlyStageRuns, SpendsInRun, Some, StagesInOrder
<1>7. Cleared(p)' <=> Cleared(p)
  BY <1>1 DEF Cleared, Fresh, Over, Some
<1>8. Decided(p)' /\ WrittenInOrder(p)' /\ Reported(p)'
  BY <1>1, <1>3, <1>4, <1>7
  DEF Decided, Deciding, Writing, WrittenInOrder, Reported, Honest
<1>9. QED BY <1>2, <1>5, <1>6, <1>8 DEF RunInv

\* run_routine up to write_summary, stage by stage.
LEMMA StageStep ==
    ASSUME RoutineInv, NEW p \in Procs,
           \/ RunMarketRegime(p) \/ CheckInputs(p) \/ CheckExposure(p)
           \/ CheckBreaker(p) \/ CheckScreeners(p) \/ Raise(p) \/ Skip(p)
    PROVE  RunInv(p)' /\ Only(p)
<1> USE DEF RoutineInv
<1>1. RunInv(p) /\ res[p] \in [Skills -> Results] /\ pc[p] \in Places
  BY DEF TypeOK, LockTypeOK
<1>2. CASE RunMarketRegime(p)
  <2>1. \A k \in Skills : res[p][k] # "started"
    BY <1>1, <1>2 DEF RunMarketRegime, RunInv, StagesInOrder, Untouched
  <2>2. Submit(p, "market", SkillsOf("market"))
    BY <1>2 DEF RunMarketRegime, SkillsOf
  <2>3. QED BY <1>2, <2>1, <2>2, SubmitStep DEF RunMarketRegime, Deciding
<1>3. CASE CheckInputs(p)
  <2>1. \A k \in Skills : res[p][k] # "started"
    BY <1>1, <1>3 DEF CheckInputs, RunInv, OnlyStageRuns, SkillsOf, Over
  <2>2. CASE Some(p, RequiredInputs, "failed") \/ Some(p, RequiredInputs, "stale")
    <3>1. \E status \in {"FAILED_REQUIRED_SKILL", "STOPPED_STALE_DATA"} :
             Conclude(p, status, "empty")
      BY <1>3, <2>2 DEF CheckInputs
    <3>2. QED BY <1>3, <2>1, <3>1, ConcludeStep DEF CheckInputs, Statuses, Deciding
  <2>3. CASE ~Some(p, RequiredInputs, "failed") /\ ~Some(p, RequiredInputs, "stale")
    <3>1. Submit(p, "exposure", SkillsOf("exposure"))
      BY <1>3, <2>3 DEF CheckInputs, SkillsOf
    <3>2. Fresh(p)
      <4> SUFFICES ASSUME NEW k \in RequiredInputs
                   PROVE  res[p][k] = "fresh"
        BY DEF Fresh
      <4>1. res[p][k] \in {"failed", "stale", "fresh", "none", "started"}
        BY <1>1, GroupsApart, EndingsByKind DEF RunInv, ResultsFit
      <4>2. res[p][k] \notin {"none", "started"}
        BY <1>3, GroupsApart DEF CheckInputs, Over
      <4>3. QED BY <2>3, <4>1, <4>2 DEF Some
    <3>3. QED BY <1>3, <2>1, <3>1, <3>2, SubmitStep DEF CheckInputs, Deciding
  <2>4. QED BY <2>2, <2>3
<1>4. CASE CheckExposure(p)
  <2>1. \A k \in Skills : res[p][k] # "started"
    BY <1>1, <1>4 DEF CheckExposure, RunInv, OnlyStageRuns, SkillsOf, Over
  <2>2. res[p]["exposure"] \in {"failed", "denied", "allowed"}
    BY <1>1, <1>4, GroupsApart, EndingsByKind DEF CheckExposure, RunInv, ResultsFit, Over
  <2>3. CASE res[p]["exposure"] = "allowed"
    <3>1. Submit(p, "breaker", SkillsOf("breaker"))
      BY <1>4, <2>3 DEF CheckExposure, SkillsOf
    <3>2. QED BY <1>4, <2>1, <2>3, <3>1, SubmitStep DEF CheckExposure, Deciding
  <2>4. CASE res[p]["exposure"] # "allowed"
    <3>1. \E status \in {"FAILED_REQUIRED_SKILL", "STOPPED_BY_EXPOSURE_GATE"} :
             Conclude(p, status, "empty")
      BY <1>4, <2>2, <2>4 DEF CheckExposure
    <3>2. QED BY <1>4, <2>1, <3>1, ConcludeStep DEF CheckExposure, Statuses, Deciding
  <2>5. QED BY <2>3, <2>4
<1>5. CASE CheckBreaker(p)
  <2>1. \A k \in Skills : res[p][k] # "started"
    BY <1>1, <1>5 DEF CheckBreaker, RunInv, OnlyStageRuns, SkillsOf, Over
  <2>2. CASE res[p]["circuit_breaker"] = "allowed" /\ Submit(p, "screeners", Screeners)
    <3>1. Submit(p, "screeners", SkillsOf("screeners"))
      BY <2>2 DEF SkillsOf
    <3>2. QED BY <1>5, <2>1, <2>2, <3>1, SubmitStep DEF CheckBreaker, Deciding
  <2>3. CASE \E status \in {"FAILED_REQUIRED_SKILL", "STOPPED_BY_CIRCUIT_BREAKER"} :
                Conclude(p, status, "empty")
    BY <1>5, <2>1, <2>3, ConcludeStep DEF CheckBreaker, Statuses, Deciding
  <2>4. QED BY <1>5, <2>2, <2>3 DEF CheckBreaker
<1>6. CASE CheckScreeners(p)
  <2>1. \A k \in Skills : res[p][k] # "started"
    BY <1>1, <1>6 DEF CheckScreeners, RunInv, OnlyStageRuns, SkillsOf, Over
  <2>2. CASE Some(p, RequiredScreeners, "failed")
    BY <1>6, <2>1, <2>2, ConcludeStep DEF CheckScreeners, Statuses, Deciding
  <2>3. CASE ~Some(p, RequiredScreeners, "failed")
    <3>1. res[p]["circuit_breaker"] = "allowed"
      BY <1>1, <1>6 DEF CheckScreeners, RunInv, StagesInOrder
    <3>2. res[p]["exposure"] = "allowed" /\ Fresh(p)
      BY <1>1, <3>1 DEF RunInv, Gated
    <3>3. Cleared(p)
      BY <1>6, <2>3, <3>1, <3>2 DEF CheckScreeners, Cleared
    <3>4. \E queue \in {"empty", "candidates"} :
             Conclude(p, "COMPLETED_REVIEW_REQUIRED", queue)
      BY <1>6, <2>3 DEF CheckScreeners
    <3>5. QED BY <1>6, <2>1, <3>3, <3>4, ConcludeStep DEF CheckScreeners, Statuses, Deciding
  <2>4. QED BY <2>2, <2>3
<1>7. CASE Raise(p)
  BY <1>7, ConcludeStep DEF Raise, Some, Statuses, Deciding
<1>8. CASE Skip(p)
  <2>1. \A k \in Skills : res[p][k] # "started"
    BY <1>1, <1>8 DEF Skip, RunInv, StagesInOrder, Untouched
  <2>2. QED BY <1>8, <2>1, ConcludeStep DEF Skip, Statuses, Deciding
<1>9. QED BY <1>2, <1>3, <1>4, <1>5, <1>6, <1>7, <1>8

\* write_summary, its failures, and an interrupt: no result changes any more, and
\* the markdown follows the JSON.
LEMMA WriteStep ==
    ASSUME RoutineInv, NEW p \in Procs,
           ReplaceJson(p) \/ ReplaceMarkdown(p) \/ WriteFails(p) \/ Interrupt(p)
    PROVE  RunInv(p)' /\ Only(p)
<1> USE DEF RoutineInv, ReplaceJson, ReplaceMarkdown, WriteFails, Interrupt, GoToStage
<1>1. RunInv(p) /\ stage \in [Procs -> Stages] /\ outcome \in [Procs -> Summary \cup {None}]
      /\ json \in [Procs -> Summary \cup {None}] /\ md \in [Procs -> Summary \cup {None}]
  BY DEF TypeOK
<1>2. res' = res /\ pc' = pc /\ Only(p)
  BY <1>1 DEF lockVars, Only
<1>3. \A k \in Skills : res[p][k] # "started"
  BY <1>1 DEF RunInv, OnlyStageRuns, SkillsOf, Writing, Some
<1>4. Gated(p)' /\ ResultsFit(p)' /\ OnlyStageRuns(p)' /\ SpendsInRun(p)'
  BY <1>1, <1>2, <1>3
  DEF RunInv, Gated, ResultsFit, Fresh, OnlyStageRuns, SpendsInRun, Some
<1>5. stage'[p] \in {"md", "md_again", "written", "json_again", "escaped"}
  BY <1>1
<1>6. StagesInOrder(p)'
  BY <1>5 DEF StagesInOrder
<1>7. Cleared(p)' <=> Cleared(p)
  BY <1>2 DEF Cleared, Fresh, Over, Some
<1>8. CASE ReplaceJson(p) \/ ReplaceMarkdown(p)
  <2>1. outcome[p] # None /\ md[p] = None
    BY <1>1, <1>8 DEF RunInv, Decided, WrittenInOrder, Writing
  <2>2. outcome'[p] = outcome[p]
    BY <1>8
  <2>3. \/ /\ json'[p] = outcome[p] /\ md'[p] = md[p]
           /\ stage'[p] \in {"md", "md_again"}
        \/ /\ md'[p] = outcome[p] /\ json'[p] = json[p] /\ json[p] = outcome[p]
           /\ stage'[p] = "written"
    BY <1>1, <1>8 DEF RunInv, WrittenInOrder
  <2>4. Decided(p)' /\ WrittenInOrder(p)'
    BY <2>1, <2>2, <2>3 DEF Decided, Deciding, WrittenInOrder, Writing
  <2>5. Reported(p)'
    BY <1>1, <1>7, <2>2, <2>3 DEF RunInv, Reported, Honest
  <2>6. QED BY <1>2, <1>4, <1>6, <2>4, <2>5 DEF RunInv
<1>9. CASE WriteFails(p)
  <2>1. outcome[p] # None /\ md[p] = None /\ stage'[p] \in {"json_again", "escaped"}
    BY <1>1, <1>9 DEF RunInv, Decided, WrittenInOrder, Writing
  <2>2. outcome[p] \in Summary
    BY <1>1, <2>1
  <2>3. \/ outcome'[p] = outcome[p]
        \/ /\ stage'[p] = "json_again" /\ outcome'[p] # None
           /\ outcome'[p].status = "FAILED_REQUIRED_SKILL"
           /\ outcome'[p].queue = outcome[p].queue
    <3>1. CASE UNCHANGED outcome
      BY <3>1
    <3>2. CASE ~UNCHANGED outcome
      <4>1. outcome'[p] = [status |-> "FAILED_REQUIRED_SKILL", queue |-> outcome[p].queue]
        BY <1>1, <1>9, <3>2
      <4>2. outcome'[p] \in Summary
        BY <2>2, <4>1 DEF Summary, Statuses
      <4>3. QED BY <1>1, <1>9, <3>2, <4>1, <4>2, GroupsApart
    <3>3. QED BY <3>1, <3>2
  <2>4. json'[p] = json[p] /\ md'[p] = md[p]
    BY <1>9
  <2>5. QED BY <1>1, <1>7, <2>1, <2>3, <2>4, <1>4, <1>6, <1>2
    DEF RunInv, Decided, Deciding, Writing, WrittenInOrder, Reported, Honest
<1>10. CASE Interrupt(p)
  BY <1>1, <1>7, <1>10, <1>4, <1>6, <1>2
  DEF RunInv, Decided, Deciding, Writing, WrittenInOrder, Reported, Honest
<1>11. QED BY <1>2, <1>8, <1>9, <1>10

LockOnly(p) ==
    \/ LockStep(p)
    \/ AcquireStep(p) /\ UNCHANGED runVars
    \/ ReleaseLock(p)

\* A step of the lock leaves the run's entries alone.  An invocation that is
\* running skills stays where it runs them: it releases the lock only when it has
\* nothing left to do.
LEMMA LockOnlyStep ==
    ASSUME RoutineInv, NEW p \in Procs, LockOnly(p), NEW q \in Procs
    PROVE  RunInv(q)'
<1>1. UNCHANGED runVars /\ pc \in [Procs -> Places] /\ RunInv(q)
  BY DEF LockOnly, LockStep, ReleaseLock, RoutineInv, TypeOK, LockTypeOK
<1>2. ASSUME Some(q, Skills, "started")
      PROVE  pc'[q] \in {"running", "dead", "foreign"}
  <2>1. pc[q] \in {"running", "dead", "foreign"}
    BY <1>1, <1>2 DEF RunInv, SpendsInRun
  <2>2. q = p => ~ReleaseLock(p)
    BY <1>1, <1>2 DEF RunInv, OnlyStageRuns, SkillsOf, Some, ReleaseLock
  <2>3. pc'[q] = pc[q] \/ pc'[q] \in {"dead", "foreign"}
    BY <1>1, <2>1, <2>2
    DEF LockOnly, LockStep, ReleaseLock, Release, AcquireStep, Create, Write, Read, Probe, Unlink,
        Start, Exit, Crash, GivePid, GoTo, Acquiring, Ended
  <2>4. QED BY <2>1, <2>3
<1>3. QED BY <1>1, <1>2, RunFrame DEF runVars

LEMMA RoutineTyped ==
    ASSUME RoutineInv, [Next]_vars
    PROVE  TypeOK'
<1> USE DEF RoutineInv, TypeOK
<1>1. LockTypeOK'
  BY StepObeysLock, LockTyped
<1>2. SUFFICES (/\ stage \in [Procs -> Stages]
               /\ res \in [Procs -> [Skills -> Results]]
               /\ outcome \in [Procs -> Summary \cup {None}]
               /\ json \in [Procs -> Summary \cup {None}]
               /\ md \in [Procs -> Summary \cup {None}])'
  BY <1>1
<1>3. CASE UNCHANGED vars
  BY <1>3 DEF vars, runVars
<1>4. ASSUME NEW p \in Procs, NEW k \in Skills, SkillEnds(p, k)
      PROVE  (res \in [Procs -> [Skills -> Results]])' /\ UNCHANGED <<stage, outcome, json, md>>
  BY <1>4, EndingsByKind DEF SkillEnds
<1>5. ASSUME NEW p \in Procs, NEW next \in Stages, NEW S, Submit(p, next, S)
      PROVE  /\ (res \in [Procs -> [Skills -> Results]])'
             /\ (stage \in [Procs -> Stages])'
             /\ UNCHANGED <<outcome, json, md>>
  BY <1>5 DEF Submit, Results
<1>6. ASSUME NEW p \in Procs, NEW status \in Statuses, NEW queue \in {"empty", "candidates"},
             Conclude(p, status, queue)
      PROVE  /\ (stage \in [Procs -> Stages])'
             /\ (outcome \in [Procs -> Summary \cup {None}])'
             /\ UNCHANGED <<res, json, md>>
  BY <1>6 DEF Conclude, Summary, Stages
<1>7. ASSUME NEW p \in Procs,
             \/ RunMarketRegime(p) \/ CheckInputs(p) \/ CheckExposure(p) \/ CheckBreaker(p)
             \/ CheckScreeners(p) \/ Raise(p) \/ Skip(p)
      PROVE  \/ \E next \in Stages : \E S \in {Inputs, {"exposure"}, {"circuit_breaker"}, Screeners} :
                  Submit(p, next, S)
             \/ \E status \in Statuses, queue \in {"empty", "candidates"} :
                  Conclude(p, status, queue)
  BY <1>7 DEF RunMarketRegime, CheckInputs, CheckExposure, CheckBreaker, CheckScreeners,
      Raise, Skip, Stages, Statuses
<1>8. ASSUME NEW p \in Procs, ReplaceJson(p) \/ ReplaceMarkdown(p) \/ Interrupt(p)
      PROVE  /\ (stage \in [Procs -> Stages])'
             /\ (json \in [Procs -> Summary \cup {None}])'
             /\ (md \in [Procs -> Summary \cup {None}])'
             /\ UNCHANGED <<res, outcome>>
  BY <1>8 DEF ReplaceJson, ReplaceMarkdown, Interrupt, GoToStage, Stages
<1>9. ASSUME NEW p \in Procs, WriteFails(p)
      PROVE  /\ (stage \in [Procs -> Stages])'
             /\ (outcome \in [Procs -> Summary \cup {None}])'
             /\ UNCHANGED <<res, json, md>>
  <2>1. outcome[p] \in Summary
    BY <1>9 DEF WriteFails, RunInv, Decided
  <2>2. [status |-> "FAILED_REQUIRED_SKILL", queue |-> outcome[p].queue] \in Summary
    BY <2>1 DEF Summary, Statuses
  <2>3. QED BY <1>9, <2>2 DEF WriteFails, GoToStage, Stages
<1>10. ASSUME NEW p \in Procs, LockOnly(p)
       PROVE  UNCHANGED <<stage, res, outcome, json, md>>
  BY <1>10 DEF LockOnly, LockStep, ReleaseLock, runVars
<1>11. ASSUME NEW p \in Procs,
              Proceed(p) \/ LockStep(p) \/ Raise(p) \/ WriteFails(p) \/ Interrupt(p)
       PROVE  (/\ stage \in [Procs -> Stages]
               /\ res \in [Procs -> [Skills -> Results]]
               /\ outcome \in [Procs -> Summary \cup {None}]
               /\ json \in [Procs -> Summary \cup {None}]
               /\ md \in [Procs -> Summary \cup {None}])'
  <2>1. CASE \E k \in Skills : SkillEnds(p, k)
    BY <1>4, <2>1
  <2>2. CASE \/ RunMarketRegime(p) \/ CheckInputs(p) \/ CheckExposure(p)
             \/ CheckBreaker(p) \/ CheckScreeners(p) \/ Raise(p) \/ Skip(p)
    <3>1. CASE \E next \in Stages : \E S \in {Inputs, {"exposure"}, {"circuit_breaker"}, Screeners} :
                  Submit(p, next, S)
      BY <1>5, <3>1
    <3>2. CASE \E status \in Statuses, queue \in {"empty", "candidates"} :
                  Conclude(p, status, queue)
      BY <1>6, <3>2
    <3>3. QED BY <1>7, <2>2, <3>1, <3>2
  <2>3. CASE ReplaceJson(p) \/ ReplaceMarkdown(p) \/ Interrupt(p)
    BY <1>8, <2>3
  <2>4. CASE WriteFails(p)
    BY <1>9, <2>4
  <2>5. CASE LockOnly(p)
    BY <1>10, <2>5
  <2>6. QED BY <1>11, <2>1, <2>2, <2>3, <2>4, <2>5 DEF Proceed, LockOnly
<1>12. QED BY <1>3, <1>11 DEF Next

LEMMA RoutineStepInv ==
    ASSUME RoutineInv, [Next]_vars
    PROVE  RoutineInv'
<1>1. TypeOK'
  BY RoutineTyped
<1>2. SUFFICES ASSUME NEW q \in Procs
               PROVE  RunInv(q)'
  BY <1>1 DEF RoutineInv
<1>3. CASE UNCHANGED vars
  BY <1>3, RunFrame DEF vars, lockVars, runVars, RoutineInv, RunInv, SpendsInRun
<1>4. ASSUME NEW p \in Procs, RunInv(p)', Only(p)
      PROVE  RunInv(q)'
  BY <1>4, RunFrame DEF Only, RoutineInv, RunInv, SpendsInRun
<1>5. ASSUME NEW p \in Procs,
             Proceed(p) \/ LockStep(p) \/ Raise(p) \/ WriteFails(p) \/ Interrupt(p)
      PROVE  RunInv(q)'
  <2>1. CASE \E k \in Skills : SkillEnds(p, k)
    BY <1>4, <2>1, SkillEndsStep
  <2>2. CASE \/ RunMarketRegime(p) \/ CheckInputs(p) \/ CheckExposure(p)
             \/ CheckBreaker(p) \/ CheckScreeners(p) \/ Raise(p) \/ Skip(p)
    BY <1>4, <2>2, StageStep
  <2>3. CASE ReplaceJson(p) \/ ReplaceMarkdown(p) \/ WriteFails(p) \/ Interrupt(p)
    BY <1>4, <2>3, WriteStep
  <2>4. CASE LockOnly(p)
    BY <2>4, LockOnlyStep
  <2>5. QED BY <1>5, <2>1, <2>2, <2>3, <2>4 DEF Proceed, LockOnly
<1>6. QED BY <1>3, <1>5 DEF Next

\* Every stage and every write of run_routine keeps the invariant, whatever the
\* lock does meanwhile.
THEOREM RoutineInductive == Spec => []RoutineInv
BY RoutineInitInv, RoutineStepInv, PTL DEF Spec

-----------------------------------------------------------------------------
(***************************************************************************)
(* The results.                                                            *)
(***************************************************************************)

\* Type correctness of the routine together with its lock, also for invocations
\* that overlap and pids that are reused.
THEOREM RoutineTypeCorrect == Spec => []TypeOK
<1>1. RoutineInv => TypeOK
  BY DEF RoutineInv
<1>2. QED BY <1>1, RoutineInductive, PTL

\* No skill is ever started before everything ahead of it allowed it, for any
\* skills and screeners, whatever fails, raises, is interrupted or killed.
THEOREM GatesAlwaysHold == Spec => []GatesHold
<1>1. RoutineInv => GatesHold
  BY DEF RoutineInv, RunInv, Gated, GatesHold
<1>2. QED BY <1>1, RoutineInductive, PTL

\* A summary that reports success or candidates is of a cleared run, also when it
\* was written again by the handler of a failed write.
THEOREM QueueIsCleared == Spec => []QueueOnlyIfCleared
<1>1. RoutineInv => QueueOnlyIfCleared
  BY DEF RoutineInv, RunInv, Reported, Honest, QueueOnlyIfCleared
<1>2. QED BY <1>1, RoutineInductive, PTL

\* The summary the operator reads never differs from the one the machine reads.
THEOREM SummariesAgree == Spec => []MarkdownRepeatsJson
<1>1. RoutineInv => MarkdownRepeatsJson
  BY DEF RoutineInv, RunInv, WrittenInOrder, MarkdownRepeatsJson
<1>2. QED BY <1>1, RoutineInductive, PTL

\* Any number of invocations whose acquisitions do not overlap run skills one at
\* a time: the lock's guarantee carried through the routine that uses it.
THEOREM OneSpender == Orderly /\ Spec => []OneRunSpends
<1>1. RoutineInv /\ NoForeign /\ MutualExclusion => OneRunSpends
  BY DEF RoutineInv, RunInv, SpendsInRun, NoForeign, MutualExclusion, OneRunSpends
<1>2. Orderly /\ LockSpec => [](NoForeign /\ MutualExclusion)
  <2>1. LockInv => NoForeign
    BY DEF LockInv
  <2>2. QED BY <2>1, LockInductive, OneRunAtATime, PTL
<1>3. QED BY <1>1, <1>2, RoutineInductive, RoutineObeysLock, PTL DEF ObeysLock

\* What the lock gives the invocations of the routine, through the step-by-step
\* refinement: a run that works is the one named in the lock file, and nobody is
\* skipped on account of a dead one's.
THEOREM LockServesRoutine == Orderly /\ Spec => []LockNamesRunner /\ SkippedByRun
BY RoutineObeysLock, OneRunAtATime, StaleLockReplaced, PTL DEF ObeysLock
=============================================================================
