------------------------------ MODULE RunState ------------------------------
(***************************************************************************)
(* skills/us-undervalued-growth-screener/scripts/manage_run_state.py: the  *)
(* checkpoint of a long screening run.  An agent attaches the audit of a   *)
(* broad screen, saves the candidates it selected one by one, marks the    *)
(* run complete and assembles the snapshot that is evaluated.              *)
(*                                                                         *)
(* Each command is a process of its own: it loads run_state.json, may      *)
(* write other files, and replaces run_state.json last.  Commands of a run *)
(* follow one another; any of them may be killed between two writes.       *)
(***************************************************************************)
EXTENDS Naturals, FiniteSets

CONSTANTS
    Symbols,    \* the companies a screen can select
    Screens,    \* the audits that screen_universe.py may hand over
    NoRun       \* no file, no command

\* What an audit says: the symbols it selected, the state of the candidate
\* pool, and whether its scope, exhaustion and queue are settled.
Pools  == {"sufficient", "pending", "none_qualify", "insufficient_data"}
Audits == [selected : SUBSET Symbols, pool : Pools, settled : BOOLEAN]

\* What a run keeps of a candidate, the run's file, and a command with a next write.
Stages == {"none", "draft", "verified"}
Funnels == [selected : Nat, preflight : Nat, completed : Nat]
RunRecords ==
    [status : {"partial", "complete"}, audit : Audits \cup {NoRun},
     unprocessed : SUBSET Symbols, candidates : [Symbols -> Stages], funnel : Funnels]
Saves == [symbol : Symbols, stage : {"draft", "verified"}]
Commands == [name : {"write_audit", "attach"}, arg : Audits]
                \cup [name : {"save"}, arg : Saves]

ASSUME RunAssumption ==
    /\ IsFiniteSet(Symbols)
    /\ Screens \subseteq Audits
    /\ NoRun \notin Audits \cup RunRecords \cup Commands

VARIABLES
    run,       \* run_state.json
    files,     \* files[s]: the stage candidates/<s>.json was last written for
    trail,     \* the audit whose artifacts, and whose text, run/audit holds
    command,   \* the command that is between two of its writes
    snapshot,  \* what the last command assembled
    torn       \* (for the properties) candidates whose last save was cut off

runVars == <<run, files, trail, command, snapshot, torn>>

\* _selected_symbols and _verified_symbols
Selected(r) == IF r.audit = NoRun THEN {} ELSE r.audit.selected
Verified(r) == {s \in Symbols : r.candidates[s] = "verified"}
Missing(r)  == Selected(r) \ Verified(r)

\* A pool that selected symbols is (pending or) sufficient, any other is not.
PoolFits(a) == a.pool \in {"sufficient", "pending"} <=> a.selected # {}

\* No error in _state_invariants.
Consistent(r) ==
    /\ r.unprocessed = Missing(r)
    /\ Verified(r) \subseteq Selected(r)
    /\ r.audit # NoRun =>
           /\ r.funnel.selected = Cardinality(Selected(r))
           /\ r.funnel.completed = Cardinality(Verified(r) \cap Selected(r))
           /\ PoolFits(r.audit)

NewRun ==
    [status |-> "partial", audit |-> NoRun, unprocessed |-> {},
     candidates |-> [s \in Symbols |-> "none"],
     funnel |-> [selected |-> 0, preflight |-> 0, completed |-> 0]]

RunInit ==
    /\ run = NoRun
    /\ files = [s \in Symbols |-> "none"]
    /\ trail = [artifacts |-> NoRun, audit |-> NoRun]
    /\ command = NoRun
    /\ snapshot = NoRun
    /\ torn = {}

\* The shapes of a command: one that is over at once, and one with a next write.
Idle == command = NoRun /\ snapshot' = NoRun
Loaded == Idle /\ run # NoRun
Then(name, arg) == command' = [name |-> name, arg |-> arg]
Doing(name) == command # NoRun /\ command.name = name
Over == command' = NoRun

-----------------------------------------------------------------------------
\* init: a run that is there is only replaced with --force; candidate and audit
\* files of the replaced run stay.
InitRun ==
    /\ Idle
    /\ run' = NewRun
    /\ torn' = {}
    /\ UNCHANGED <<files, trail, command>>

\* The condition on selected_count: (count or -1) # len(selected_symbols).
CountRefused(a) ==
    LET count == Cardinality(a.selected)
    IN  (IF count = 0 THEN 0 - 1 ELSE count) # count

\* set-screening-audit: the artifacts are copied before the selection is looked
\* at, and stay if it is refused.
CopyArtifacts(a) ==
    /\ Loaded
    /\ trail' = [trail EXCEPT !.artifacts = a]
    /\ IF CountRefused(a) \/ ~PoolFits(a) THEN Over ELSE Then("write_audit", a)
    /\ UNCHANGED <<run, files, torn>>

WriteAudit ==
    /\ Doing("write_audit")
    /\ trail' = [trail EXCEPT !.audit = command.arg]
    /\ Then("attach", command.arg)
    /\ UNCHANGED <<run, files, snapshot, torn>>

\* MUTANT of AttachAudit: the status is left as it is.
AttachKeepingStatus ==
    /\ Doing("attach")
    /\ LET a == command.arg
       IN  run' = [run EXCEPT
               !.audit = a,
               !.funnel = [selected |-> Cardinality(a.selected),
                           preflight |-> 0, completed |-> 0],
               !.unprocessed = a.selected \ Verified(run)]
    /\ Over
    /\ UNCHANGED <<files, trail, snapshot, torn>>

\* The completed count starts again at zero, whatever is verified already.
AttachAudit ==
    /\ Doing("attach")
    /\ LET a == command.arg
       IN  run' = [run EXCEPT
               !.audit = a,
               !.funnel = [selected |-> Cardinality(a.selected),
                           preflight |-> 0, completed |-> 0],
               !.unprocessed = a.selected \ Verified(run),
               !.status = "partial"]
    /\ Over
    /\ UNCHANGED <<files, trail, snapshot, torn>>

-----------------------------------------------------------------------------
\* save-candidate: first the candidate's file, then the state that names it.
ReplaceCandidate(s, stage, allowUnselected) ==
    /\ Loaded
    /\ s \in Selected(run) \/ allowUnselected
    /\ files' = [files EXCEPT ![s] = stage]
    /\ Then("save", [symbol |-> s, stage |-> stage])
    /\ UNCHANGED <<run, trail, torn>>

\* MUTANT of RecordCandidate: a draft does not make the symbol unprocessed again.
RecordProgress ==
    /\ Doing("save")
    /\ LET s == command.arg.symbol
           saved == [run EXCEPT !.candidates[s] = command.arg.stage]
       IN  /\ run' = [saved EXCEPT
                  !.unprocessed = @ \ Verified(saved),
                  !.funnel.completed = Cardinality(Verified(saved) \cap Selected(saved))]
           /\ torn' = torn \ {s}
    /\ Over
    /\ UNCHANGED <<files, trail, snapshot>>

RecordCandidate ==
    /\ Doing("save")
    /\ LET s == command.arg.symbol
           saved == [run EXCEPT !.candidates[s] = command.arg.stage]
       IN  /\ run' = [saved EXCEPT
                  !.unprocessed = Missing(saved),
                  !.funnel.completed = Cardinality(Verified(saved) \cap Selected(saved))]
           /\ torn' = torn \ {s}
    /\ Over
    /\ UNCHANGED <<files, trail, snapshot>>

\* MUTANT of SetFunnel: the count is not compared with the selection's.
SetFunnelUnchecked(passed) ==
    /\ Loaded
    /\ run' = [run EXCEPT !.funnel.preflight = passed]
    /\ UNCHANGED <<files, trail, command, torn>>

\* set-funnel
SetFunnel(passed) ==
    /\ Loaded
    /\ passed <= run.funnel.selected
    /\ run' = [run EXCEPT !.funnel.preflight = passed]
    /\ UNCHANGED <<files, trail, command, torn>>

\* set-unprocessed takes the one list that is right, and no other.
SetUnprocessed(supplied) ==
    /\ Loaded
    /\ supplied = Missing(run)
    /\ run' = [run EXCEPT !.unprocessed = supplied,
                          !.status = IF supplied = {} THEN @ ELSE "partial"]
    /\ UNCHANGED <<files, trail, command, torn>>

\* set-status
MayComplete(r) ==
    /\ r.audit # NoRun
    /\ Consistent(r)
    /\ r.audit.settled
    /\ r.audit.pool \in {"sufficient", "none_qualify"}
    /\ Selected(r) = Verified(r)

SetStatus(status) ==
    /\ Loaded
    /\ status = "complete" => MayComplete(run)
    /\ run' = [run EXCEPT !.status = status]
    /\ UNCHANGED <<files, trail, command, torn>>

\* assemble: what is in the files of the selected candidates of a stage asked for.
Assembled(r, drafts) ==
    {s \in Selected(r) : r.candidates[s] \in (IF drafts THEN {"draft", "verified"}
                                                        ELSE {"verified"})}

Assemble(drafts) ==
    /\ command = NoRun /\ run # NoRun
    /\ Consistent(run)
    /\ IF Selected(run) # {}
         THEN Assembled(run, drafts) # {}
         ELSE run.status = "complete" /\ run.audit.pool = "none_qualify"
    /\ snapshot' = [status |-> run.status, audit |-> run.audit, drafts |-> drafts,
                    unprocessed |-> run.unprocessed,
                    held |-> [s \in Assembled(run, drafts) |-> files[s]]]
    /\ UNCHANGED <<run, files, trail, command, torn>>

\* The process is killed before its next write.
KillCommand ==
    /\ command # NoRun
    /\ Over
    /\ torn' = IF Doing("save") THEN torn \cup {command.arg.symbol} ELSE torn
    /\ UNCHANGED <<run, files, trail, snapshot>>

RunNext ==
    \/ InitRun
    \/ \E a \in Screens : CopyArtifacts(a)
    \/ WriteAudit
    \/ AttachAudit
    \/ \E s \in Symbols, stage \in {"draft", "verified"}, allow \in BOOLEAN :
           ReplaceCandidate(s, stage, allow)
    \/ RecordCandidate
    \/ \E n \in 0..Cardinality(Symbols) : SetFunnel(n)
    \/ \E supplied \in SUBSET Symbols : SetUnprocessed(supplied)
    \/ \E status \in {"partial", "complete"} : SetStatus(status)
    \/ \E drafts \in BOOLEAN : Assemble(drafts)
    \/ KillCommand

RunSpec == RunInit /\ [][RunNext]_runVars

-----------------------------------------------------------------------------
\* Every file has one of its shapes; a count never exceeds the selection's.
RunTypeOK ==
    /\ run \in RunRecords \cup {NoRun}
    /\ run # NoRun => run.funnel.preflight <= run.funnel.selected
    /\ command \in Commands \cup {NoRun}
    /\ files \in [Symbols -> Stages]
    /\ trail \in [artifacts : Audits \cup {NoRun}, audit : Audits \cup {NoRun}]
    /\ torn \subseteq Symbols

\* A command never makes a consistent run inconsistent (after which neither
\* completion nor assembly is possible), whatever was saved, replaced or killed
\* before, with two exceptions: the screen is repeated when a candidate is
\* verified already, or an unselected symbol is saved as verified.
StaysConsistent ==
    [][(run # NoRun /\ run' # NoRun /\ Consistent(run)) =>
           \/ Consistent(run')
           \/ Doing("attach") /\ Verified(run) # {}
           \/ ~(Verified(run') \subseteq Selected(run'))]_runVars

\* What is assembled accounts for every selected symbol: without drafts each is
\* held or listed as unprocessed, never both and never neither, and what is held
\* is the verified text unless its last save was cut off.  A snapshot that calls
\* itself complete is of a settled screen, and all its symbols were saved.
SnapshotHonest ==
    snapshot # NoRun =>
        LET held == DOMAIN snapshot.held
        IN  /\ ~snapshot.drafts =>
                   /\ held = snapshot.audit.selected \ snapshot.unprocessed
                   /\ snapshot.unprocessed \subseteq snapshot.audit.selected
                   /\ \A s \in held \ torn : snapshot.held[s] = "verified"
            /\ snapshot.status = "complete" =>
                   /\ snapshot.audit.settled
                   /\ snapshot.audit.pool \in {"sufficient", "none_qualify"}
                   /\ \A s \in snapshot.audit.selected : run.candidates[s] # "none"

\* An audit that screen_universe.py can write is attached: the three outcomes
\* without selected symbols are outcomes of a run like the others.
SoundAuditAccepted ==
    [][\A a \in Screens : (PoolFits(a) /\ CopyArtifacts(a)) => command' # NoRun]_runVars
=============================================================================
