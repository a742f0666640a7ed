--------------------------- MODULE CheckpointProofs ---------------------------
(***************************************************************************)
(* The two programs that resume their work from a checkpoint, each for any *)
(* number of things to work through, killed at any step, resumed or        *)
(* started afresh any number of times.                                     *)
(***************************************************************************)
EXTENDS RunState, RobotTester, FiniteSetTheorems, TLAPS

(***************************************************************************)
(* The growth screen: the snapshot that is assembled is honest, and no     *)
(* command spoils a consistent run.                                        *)
(***************************************************************************)

\* A command with a next write was given what that write needs; no snapshot is
\* printed by a command that writes files first.
CommandFits ==
    command # NoRun =>
        /\ run # NoRun /\ snapshot = NoRun
        /\ command.name \in {"write_audit", "attach"} => PoolFits(command.arg)
        /\ command.name = "save" => files[command.arg.symbol] = command.arg.stage

\* The candidate's file is what the run says it is, except for one whose save was
\* cut off or is on its way.
FilesFollow ==
    run # NoRun =>
        \A s \in Symbols \ torn :
            \/ run.candidates[s] = "none"
            \/ files[s] = run.candidates[s]
            \/ Doing("save") /\ command.arg.symbol = s

\* A complete run stays of a settled screen whose symbols were all saved, whatever
\* is saved again afterwards.
CompleteIsSettled ==
    run # NoRun /\ run.status = "complete" =>
        /\ run.audit \in Audits /\ run.audit.settled
        /\ run.audit.pool \in {"sufficient", "none_qualify"}
        /\ \A s \in run.audit.selected : run.candidates[s] # "none"

RunInv ==
    /\ RunTypeOK
    /\ CommandFits
    /\ FilesFollow
    /\ CompleteIsSettled
    /\ SnapshotHonest

-----------------------------------------------------------------------------
(* Counting the symbols, and the fields of a changed run.                  *)

LEMMA Counted == \A S \in SUBSET Symbols : Cardinality(S) \in Nat
BY FS_Subset, FS_CardinalityType, RunAssumption

LEMMA NewRunTyped ==
    /\ NewRun \in RunRecords /\ NewRun # NoRun
    /\ NewRun.funnel.preflight <= NewRun.funnel.selected
    /\ NewRun.status = "partial" /\ Consistent(NewRun)
    /\ \A s \in Symbols : NewRun.candidates[s] = "none"
<1>1. NewRun \in RunRecords
  BY DEF NewRun, RunRecords, Stages, Funnels
<1>2. NewRun # NoRun
  BY <1>1, RunAssumption
<1>3. Selected(NewRun) = {} /\ Verified(NewRun) = {} /\ NewRun.unprocessed = {}
  BY DEF NewRun, Selected, Verified
<1>4. Consistent(NewRun)
  BY <1>3 DEF NewRun, Consistent, Missing
<1>5. QED BY <1>1, <1>2, <1>4 DEF NewRun

LEMMA FieldsTyped ==
    ASSUME NEW r \in RunRecords
    PROVE  /\ \A a \in SUBSET Symbols : [r EXCEPT !.unprocessed = a] \in RunRecords
           /\ \A c \in {"partial", "complete"} : [r EXCEPT !.status = c] \in RunRecords
           /\ \A s \in Symbols, stage \in Stages : [r EXCEPT !.candidates[s] = stage] \in RunRecords
           /\ \A n \in Nat : [r EXCEPT !.funnel.preflight = n] \in RunRecords
           /\ \A n \in Nat : [r EXCEPT !.funnel.completed = n] \in RunRecords
           /\ Selected(r) \subseteq Symbols /\ Verified(r) \subseteq Symbols
BY DEF RunRecords, Funnels, Selected, Verified, Audits

LEMMA RunInitInv == RunInit => RunInv
BY DEF RunInit, RunInv, RunTypeOK, CommandFits, FilesFollow, CompleteIsSettled, SnapshotHonest,
    Stages

-----------------------------------------------------------------------------
(* One lemma per group of commands.                                        *)

\* What is written to run_state.json is a run; the files stay.
LEMMA RunWritten ==
    ASSUME RunInv, run' \in RunRecords, run'.funnel.preflight <= run'.funnel.selected,
           snapshot' = NoRun, command' = NoRun, torn' \subseteq Symbols,
           UNCHANGED <<files, trail>>,
           \A s \in Symbols \ torn' :
               run'.candidates[s] = "none" \/ files[s] = run'.candidates[s],
           run'.status = "complete" =>
               /\ run'.audit \in Audits /\ run'.audit.settled
               /\ run'.audit.pool \in {"sufficient", "none_qualify"}
               /\ \A s \in run'.audit.selected : run'.candidates[s] # "none"
    PROVE  RunInv'
BY DEF RunInv, RunTypeOK, CommandFits, FilesFollow, CompleteIsSettled, SnapshotHonest

\* A command that loads the run and changes no candidate finds the files as they
\* should be.
LEMMA FilesAsLoaded ==
    ASSUME RunInv, command = NoRun, run # NoRun
    PROVE  /\ run \in RunRecords
           /\ \A s \in Symbols \ torn : run.candidates[s] = "none" \/ files[s] = run.candidates[s]
BY DEF RunInv, RunTypeOK, FilesFollow, Doing

LEMMA InitStep ==
    ASSUME RunInv, InitRun
    PROVE  RunInv'
<1>1. run' = NewRun /\ torn' = {} /\ snapshot' = NoRun /\ command' = NoRun
      /\ UNCHANGED <<files, trail>>
  BY DEF InitRun, Idle
<1>2. QED BY <1>1, NewRunTyped, RunWritten

LEMMA AuditStep ==
    ASSUME RunInv, (\E a \in Screens : CopyArtifacts(a)) \/ WriteAudit \/ AttachAudit
    PROVE  RunInv'
<1>1. ASSUME NEW a \in Screens, CopyArtifacts(a)
      PROVE  RunInv'
  <2>1. a \in Audits
    BY RunAssumption
  <2>2. command' = NoRun \/ (PoolFits(a) /\ command' = [name |-> "write_audit", arg |-> a])
    BY <1>1 DEF CopyArtifacts, Over, Then
  <2>3. command' \in Commands \cup {NoRun} /\ trail' \in [artifacts : Audits \cup {NoRun},
                                                          audit : Audits \cup {NoRun}]
    BY <1>1, <2>1, <2>2 DEF CopyArtifacts, Commands, RunInv, RunTypeOK
  <2>4. FilesFollow'
    BY <1>1, <2>2, FilesAsLoaded DEF CopyArtifacts, Loaded, Idle, FilesFollow
  <2>5. QED
    BY <1>1, <2>2, <2>3, <2>4
    DEF CopyArtifacts, Loaded, Idle, RunInv, RunTypeOK, CommandFits, CompleteIsSettled,
        SnapshotHonest
<1>2. CASE WriteAudit
  <2>1. command \in Commands /\ command.name = "write_audit" /\ command.arg \in Audits
    BY <1>2 DEF WriteAudit, Doing, RunInv, RunTypeOK, Commands
  <2>2. /\ command' = [name |-> "attach", arg |-> command.arg]
        /\ trail' = [trail EXCEPT !.audit = command.arg]
        /\ UNCHANGED <<run, files, snapshot, torn>>
    BY <1>2 DEF WriteAudit, Then
  <2>3. command' \in Commands /\ trail' \in [artifacts : Audits \cup {NoRun},
                                              audit : Audits \cup {NoRun}]
    BY <2>1, <2>2 DEF Commands, RunInv, RunTypeOK
  <2>4. command # NoRun /\ PoolFits(command.arg) /\ run # NoRun /\ snapshot = NoRun
    BY <1>2, <2>1 DEF RunInv, CommandFits, WriteAudit, Doing
  <2>5. FilesFollow'
    BY <2>1, <2>2, <2>4 DEF RunInv, FilesFollow, Doing
  <2>6. QED
    BY <2>1, <2>2, <2>3, <2>4, <2>5
    DEF RunInv, RunTypeOK, CommandFits, CompleteIsSettled, SnapshotHonest
<1>3. CASE AttachAudit
  <2>1. command \in Commands /\ command.name = "attach" /\ command.arg \in Audits
    BY <1>3 DEF AttachAudit, Doing, RunInv, RunTypeOK, Commands
  <2>2. run \in RunRecords /\ snapshot = NoRun
    BY <1>3 DEF AttachAudit, Doing, RunInv, RunTypeOK, CommandFits
  <2> DEFINE count == Cardinality(command.arg.selected)
  <2>3. command.arg.selected \in SUBSET Symbols /\ count \in Nat
    BY <2>1, Counted DEF Audits
  <2>4. run' = [run EXCEPT
               !.audit = command.arg,
               !.funnel = [selected |-> count, preflight |-> 0, completed |-> 0],
               !.unprocessed = command.arg.selected \ Verified(run),
               !.status = "partial"]
    BY <1>3 DEF AttachAudit
  <2> DEFINE funnel == [selected |-> count, preflight |-> 0, completed |-> 0]
             left == command.arg.selected \ Verified(run)
  <2>5. funnel \in Funnels /\ funnel.preflight <= funnel.selected /\ left \in SUBSET Symbols
    BY <2>3 DEF Funnels
  <2>6. run' = [run EXCEPT !.audit = command.arg, !.funnel = funnel, !.unprocessed = left,
                           !.status = "partial"]
    BY <2>4
  <2> HIDE DEF count, funnel, left
  <2>7. /\ run' \in RunRecords /\ run'.funnel.preflight <= run'.funnel.selected
        /\ run'.status = "partial" /\ run'.candidates = run.candidates
    BY <2>1, <2>2, <2>5, <2>6 DEF RunRecords
  <2>8. \A s \in Symbols \ torn : run.candidates[s] = "none" \/ files[s] = run.candidates[s]
    BY <2>1, <2>2, RunAssumption DEF RunInv, FilesFollow, Doing
  <2>9. QED
    BY <1>3, <2>2, <2>7, <2>8, RunWritten DEF AttachAudit, Over, RunInv, RunTypeOK
<1>4. QED BY <1>1, <1>2, <1>3

LEMMA SaveStep ==
    ASSUME RunInv,
           \/ \E s \in Symbols, stage \in {"draft", "verified"}, allow \in BOOLEAN :
                  ReplaceCandidate(s, stage, allow)
           \/ RecordCandidate
    PROVE  RunInv'
<1>1. ASSUME NEW s \in Symbols, NEW stage \in {"draft", "verified"}, NEW allow \in BOOLEAN,
             ReplaceCandidate(s, stage, allow)
      PROVE  RunInv'
  <2>1. /\ command' = [name |-> "save", arg |-> [symbol |-> s, stage |-> stage]]
        /\ files' = [files EXCEPT ![s] = stage]
        /\ run # NoRun /\ command = NoRun /\ snapshot' = NoRun
        /\ UNCHANGED <<run, trail, torn>>
    BY <1>1 DEF ReplaceCandidate, Loaded, Idle, Then
  <2>2. command' \in Commands /\ command' # NoRun
    BY <2>1, RunAssumption DEF Commands, Saves
  <2>3. files' \in [Symbols -> Stages] /\ files'[s] = stage
    BY <2>1 DEF RunInv, RunTypeOK, Stages
  <2>4. FilesFollow'
    BY <2>1, <2>2, FilesAsLoaded DEF FilesFollow, Doing, RunInv, RunTypeOK
  <2>5. QED
    BY <2>1, <2>2, <2>3, <2>4
    DEF RunInv, RunTypeOK, CommandFits, CompleteIsSettled, SnapshotHonest
<1>2. CASE RecordCandidate
  <2> DEFINE s == command.arg.symbol
             stage == command.arg.stage
             saved == [run EXCEPT !.candidates[s] = stage]
             done == Cardinality(Verified(saved) \cap Selected(saved))
  <2>1. s \in Symbols /\ stage \in {"draft", "verified"} /\ files[s] = stage
        /\ command # NoRun /\ command.name = "save"
    BY <1>2 DEF RecordCandidate, Doing, RunInv, RunTypeOK, Commands, Saves, CommandFits
  <2>2. run \in RunRecords /\ snapshot = NoRun /\ run # NoRun
    BY <2>1 DEF RunInv, RunTypeOK, CommandFits
  <2>3. saved \in RunRecords
    BY <2>1, <2>2, FieldsTyped DEF Stages
  <2>4. done \in Nat /\ Missing(saved) \in SUBSET Symbols
    <3>1. Verified(saved) \subseteq Symbols /\ Selected(saved) \subseteq Symbols
      BY <2>3, FieldsTyped
    <3>2. QED BY <3>1, Counted DEF Missing
  <2>5. /\ run' = [saved EXCEPT !.unprocessed = Missing(saved), !.funnel.completed = done]
        /\ torn' = torn \ {s} /\ command' = NoRun /\ UNCHANGED <<files, trail, snapshot>>
    BY <1>2 DEF RecordCandidate, Over
  <2>6. /\ saved.status = run.status /\ saved.audit = run.audit /\ saved.funnel = run.funnel
        /\ saved.candidates = [run.candidates EXCEPT ![s] = stage]
    BY <2>2 DEF RunRecords
  <2> HIDE DEF saved, done
  <2>7. /\ run' \in RunRecords
        /\ run'.status = run.status /\ run'.audit = run.audit
        /\ run'.candidates = [run.candidates EXCEPT ![s] = stage]
        /\ run'.funnel.preflight = run.funnel.preflight
        /\ run'.funnel.selected = run.funnel.selected
    BY <2>3, <2>4, <2>5, <2>6 DEF RunRecords, Funnels
  <2>8. run.candidates \in [Symbols -> Stages]
    BY <2>2 DEF RunRecords
  <2>9. \A x \in Symbols \ torn' : run'.candidates[x] = "none" \/ files[x] = run'.candidates[x]
    BY <2>1, <2>2, <2>5, <2>7, <2>8 DEF RunInv, FilesFollow, Doing
  <2>10. run.status = "complete" => \A x \in run.audit.selected : run'.candidates[x] # "none"
    BY <2>1, <2>2, <2>7, <2>8 DEF RunInv, CompleteIsSettled, Audits
  <2>11. QED
    BY <2>2, <2>5, <2>7, <2>9, <2>10, RunWritten
    DEF RunInv, RunTypeOK, CompleteIsSettled
<1>3. QED BY <1>1, <1>2

LEMMA SetStep ==
    ASSUME RunInv,
           \/ \E n \in 0..Cardinality(Symbols) : SetFunnel(n)
           \/ \E supplied \in SUBSET Symbols : SetUnprocessed(supplied)
           \/ \E status \in {"partial", "complete"} : SetStatus(status)
    PROVE  RunInv'
<1>1. /\ command = NoRun /\ run # NoRun /\ run \in RunRecords
      /\ \A s \in Symbols \ torn : run.candidates[s] = "none" \/ files[s] = run.candidates[s]
      /\ run.funnel.preflight <= run.funnel.selected
      /\ snapshot' = NoRun /\ command' = NoRun /\ UNCHANGED <<files, trail, torn>>
  BY FilesAsLoaded DEF SetFunnel, SetUnprocessed, SetStatus, Loaded, Idle, RunInv, RunTypeOK
<1>2. ASSUME NEW n \in 0..Cardinality(Symbols), SetFunnel(n)
      PROVE  RunInv'
  <2>1. n \in Nat /\ n <= run.funnel.selected
    BY <1>2, Counted DEF SetFunnel
  <2>2. run' = [run EXCEPT !.funnel.preflight = n]
    BY <1>2 DEF SetFunnel
  <2>3. /\ run' \in RunRecords /\ run'.funnel.preflight = n
        /\ run'.funnel.selected = run.funnel.selected
        /\ run'.candidates = run.candidates /\ run'.status = run.status
        /\ run'.audit = run.audit
    BY <1>1, <2>1, <2>2, FieldsTyped DEF RunRecords, Funnels
  <2>4. QED
    BY <1>1, <2>1, <2>3, RunWritten DEF RunInv, RunTypeOK, CompleteIsSettled
<1>3. ASSUME NEW supplied \in SUBSET Symbols, SetUnprocessed(supplied)
      PROVE  RunInv'
  <2> DEFINE status == IF supplied = {} THEN run.status ELSE "partial"
  <2>1. run' = [run EXCEPT !.unprocessed = supplied, !.status = status]
    BY <1>3 DEF SetUnprocessed
  <2>2. status \in {"partial", "complete"} /\ (status = "complete" => run.status = "complete")
    BY <1>1 DEF RunRecords
  <2> HIDE DEF status
  <2>3. /\ run' \in RunRecords /\ run'.funnel = run.funnel /\ run'.status = status
        /\ run'.candidates = run.candidates /\ run'.audit = run.audit
    BY <1>1, <2>1, <2>2 DEF RunRecords
  <2>4. QED
    BY <1>1, <2>2, <2>3, RunWritten DEF RunInv, RunTypeOK, CompleteIsSettled
<1>4. ASSUME NEW status \in {"partial", "complete"}, SetStatus(status)
      PROVE  RunInv'
  <2>1. run' = [run EXCEPT !.status = status] /\ (status = "complete" => MayComplete(run))
    BY <1>4 DEF SetStatus
  <2>2. /\ run' \in RunRecords /\ run'.funnel = run.funnel /\ run'.status = status
        /\ run'.candidates = run.candidates /\ run'.audit = run.audit
    BY <1>1, <2>1 DEF RunRecords
  <2>3. ASSUME status = "complete"
        PROVE  /\ run.audit \in Audits /\ run.audit.settled
               /\ run.audit.pool \in {"sufficient", "none_qualify"}
               /\ \A s \in run.audit.selected : run.candidates[s] # "none"
    BY <1>1, <2>1, <2>3 DEF MayComplete, RunRecords, Selected, Verified
  <2>4. QED
    BY <1>1, <2>2, <2>3, RunWritten DEF RunInv, RunTypeOK
<1>5. QED BY <1>2, <1>3, <1>4

LEMMA AssembleStep ==
    ASSUME RunInv, \E drafts \in BOOLEAN : Assemble(drafts)
    PROVE  RunInv'
<1> PICK drafts \in BOOLEAN : Assemble(drafts)
  OBVIOUS
<1>1. /\ command = NoRun /\ run # NoRun /\ run \in RunRecords
      /\ \A s \in Symbols \ torn : run.candidates[s] = "none" \/ files[s] = run.candidates[s]
      /\ Consistent(run) /\ UNCHANGED <<run, files, trail, command, torn>>
  BY FilesAsLoaded DEF Assemble
<1>2. run.audit \in Audits /\ Selected(run) = run.audit.selected
  <2>1. CASE Selected(run) # {}
    BY <1>1, <2>1 DEF Selected, RunRecords
  <2>2. CASE Selected(run) = {}
    BY <1>1, <2>2, RunAssumption DEF Assemble, RunInv, CompleteIsSettled, Selected
  <2>3. QED BY <2>1, <2>2
<1>3. snapshot' = [status |-> run.status, audit |-> run.audit, drafts |-> drafts,
                    unprocessed |-> run.unprocessed,
                    held |-> [s \in Assembled(run, drafts) |-> files[s]]]
  BY DEF Assemble
<1>4. DOMAIN snapshot'.held = Assembled(run, drafts)
  BY <1>3
<1>5. ~drafts => /\ Assembled(run, drafts) = run.audit.selected \ run.unprocessed
                 /\ run.unprocessed \subseteq run.audit.selected
                 /\ \A s \in Assembled(run, drafts) \ torn : files[s] = "verified"
  BY <1>1, <1>2 DEF Assembled, Consistent, Missing, Verified, Audits, Stages, RunRecords
<1>6. SnapshotHonest'
  BY <1>1, <1>2, <1>3, <1>4, <1>5 DEF SnapshotHonest, RunInv, CompleteIsSettled
<1>7. QED
  BY <1>1, <1>6 DEF RunInv, RunTypeOK, CommandFits, FilesFollow, CompleteIsSettled, Doing

LEMMA KillStep ==
    ASSUME RunInv, KillCommand
    PROVE  RunInv'
<1>1. /\ command # NoRun /\ command' = NoRun /\ UNCHANGED <<run, files, trail, snapshot>>
      /\ torn' = IF Doing("save") THEN torn \cup {command.arg.symbol} ELSE torn
  BY DEF KillCommand, Over
<1>2. torn' \subseteq Symbols
  BY <1>1 DEF Doing, RunInv, RunTypeOK, Commands, Saves
<1>3. snapshot = NoRun
  BY <1>1 DEF RunInv, CommandFits
<1>4. FilesFollow'
  BY <1>1 DEF RunInv, FilesFollow, Doing
<1>5. QED
  BY <1>1, <1>2, <1>3, <1>4
  DEF RunInv, RunTypeOK, CommandFits, CompleteIsSettled, SnapshotHonest

LEMMA RunStepInv == RunInv /\ [RunNext]_runVars => RunInv'
<1> SUFFICES ASSUME RunInv, [RunNext]_runVars PROVE RunInv'
  OBVIOUS
<1>1. CASE UNCHANGED runVars
  BY <1>1
  DEF runVars, RunInv, RunTypeOK, CommandFits, FilesFollow, CompleteIsSettled, SnapshotHonest,
      Doing
<1>2. CASE RunNext
  BY <1>2, InitStep, AuditStep, SaveStep, SetStep, AssembleStep, KillStep DEF RunNext
<1>3. QED BY <1>1, <1>2

-----------------------------------------------------------------------------
(* No command spoils a consistent run.                                     *)

\* What Consistent looks at, for a run of which only the preflight count, the
\* unprocessed list or the status was set.
LEMMA SettingKeeps ==
    ASSUME NEW r \in RunRecords, NEW q \in RunRecords, Consistent(r),
           q.audit = r.audit, q.candidates = r.candidates,
           q.unprocessed = Missing(r),
           q.funnel.selected = r.funnel.selected, q.funnel.completed = r.funnel.completed
    PROVE  Consistent(q)
<1>1. Selected(q) = Selected(r) /\ Verified(q) = Verified(r) /\ Missing(q) = Missing(r)
  BY DEF Selected, Verified, Missing
<1>2. QED BY <1>1 DEF Consistent

LEMMA StaysConsistentStep ==
    ASSUME RunInv, [RunNext]_runVars, run # NoRun, run' # NoRun, Consistent(run)
    PROVE  \/ Consistent(run')
           \/ Doing("attach") /\ Verified(run) # {}
           \/ ~(Verified(run') \subseteq Selected(run'))
<1>1. run \in RunRecords /\ run' \in RunRecords
  BY RunStepInv DEF RunInv, RunTypeOK
<1>2. CASE run' = run
  BY <1>2
<1>3. CASE InitRun
  BY <1>3, NewRunTyped DEF InitRun
<1>4. CASE AttachAudit /\ Verified(run) = {}
  <2> DEFINE a == command.arg
  <2>1. a \in Audits /\ PoolFits(a) /\ a # NoRun
    BY <1>4, RunAssumption
    DEF AttachAudit, Doing, RunInv, RunTypeOK, CommandFits, Commands
  <2>2. /\ run'.audit = a /\ run'.unprocessed = a.selected
        /\ run'.candidates = run.candidates
        /\ run'.funnel.selected = Cardinality(a.selected) /\ run'.funnel.completed = 0
    BY <1>1, <1>4 DEF AttachAudit, RunRecords
  <2>3. Verified(run') = {} /\ Selected(run') = a.selected /\ Missing(run') = a.selected
    BY <1>4, <2>1, <2>2 DEF Verified, Selected, Missing
  <2>4. QED BY <2>1, <2>2, <2>3, FS_EmptySet DEF Consistent
<1>5. CASE RecordCandidate
  <2> DEFINE s == command.arg.symbol
             saved == [run EXCEPT !.candidates[s] = command.arg.stage]
             done == Cardinality(Verified(saved) \cap Selected(saved))
  <2>1. run' = [saved EXCEPT !.unprocessed = Missing(saved), !.funnel.completed = done]
    BY <1>5 DEF RecordCandidate
  <2>2. /\ saved.audit = run.audit /\ saved.funnel = run.funnel
        /\ saved = [run EXCEPT !.candidates = saved.candidates]
    BY <1>1 DEF RunRecords
  <2> HIDE DEF saved, done
  <2>3. /\ run'.audit = run.audit /\ run'.unprocessed = Missing(saved)
        /\ run'.candidates = saved.candidates
        /\ run'.funnel.selected = run.funnel.selected /\ run'.funnel.completed = done
    BY <1>1, <2>1, <2>2 DEF RunRecords, Funnels
  <2>4. /\ Selected(run') = Selected(run) /\ Selected(saved) = Selected(run)
        /\ Verified(run') = Verified(saved) /\ Missing(run') = Missing(saved)
    BY <2>2, <2>3 DEF Selected, Verified, Missing
  <2>5. QED BY <2>3, <2>4 DEF Consistent, done
<1>6. ASSUME NEW n \in 0..Cardinality(Symbols), SetFunnel(n)
      PROVE  Consistent(run')
  <2>1. /\ run'.audit = run.audit /\ run'.candidates = run.candidates
        /\ run'.unprocessed = run.unprocessed
        /\ run'.funnel.selected = run.funnel.selected
        /\ run'.funnel.completed = run.funnel.completed
    BY <1>1, <1>6 DEF SetFunnel, RunRecords, Funnels
  <2>2. QED BY <1>1, <2>1, SettingKeeps DEF Consistent
<1>7. ASSUME NEW supplied \in SUBSET Symbols, SetUnprocessed(supplied)
      PROVE  Consistent(run')
  <2>1. /\ run'.audit = run.audit /\ run'.candidates = run.candidates
        /\ run'.unprocessed = Missing(run) /\ run'.funnel = run.funnel
    BY <1>1, <1>7 DEF SetUnprocessed, RunRecords
  <2>2. QED BY <1>1, <2>1, SettingKeeps
<1>8. ASSUME NEW status \in {"partial", "complete"}, SetStatus(status)
      PROVE  Consistent(run')
  <2>1. /\ run'.audit = run.audit /\ run'.candidates = run.candidates
        /\ run'.unprocessed = run.unprocessed /\ run'.funnel = run.funnel
    BY <1>1, <1>8 DEF SetStatus, RunRecords
  <2>2. QED BY <1>1, <2>1, SettingKeeps DEF Consistent
<1>9. CASE \/ \E a \in Screens : CopyArtifacts(a)
           \/ WriteAudit
           \/ \E s \in Symbols, stage \in {"draft", "verified"}, allow \in BOOLEAN :
                  ReplaceCandidate(s, stage, allow)
           \/ \E drafts \in BOOLEAN : Assemble(drafts)
           \/ KillCommand
           \/ UNCHANGED runVars
  BY <1>2, <1>9 DEF CopyArtifacts, WriteAudit, ReplaceCandidate, Assemble, KillCommand, runVars
<1>10. CASE AttachAudit /\ Verified(run) # {}
  BY <1>10 DEF AttachAudit
<1>11. QED
  BY <1>3, <1>4, <1>5, <1>6, <1>7, <1>8, <1>9, <1>10 DEF RunNext

-----------------------------------------------------------------------------
\* The inductive invariant holds in every reachable state, whatever is killed.
THEOREM RunInductive == RunSpec => []RunInv
BY RunInitInv, RunStepInv, PTL DEF RunSpec

\* run_state.json, the candidate files and the audit artifacts keep their shapes.
THEOREM RunTypeCorrect == RunSpec => []RunTypeOK
<1>1. RunInv => RunTypeOK
  BY DEF RunInv
<1>2. QED BY <1>1, RunInductive, PTL

\* cmd_assemble: the snapshot accounts for every selected symbol, and one that
\* calls itself complete is of a settled screen.
THEOREM AssemblesHonestly == RunSpec => []SnapshotHonest
<1>1. RunInv => SnapshotHonest
  BY DEF RunInv
<1>2. QED BY <1>1, RunInductive, PTL

\* _state_invariants: no command makes a consistent run inconsistent, but a screen
\* repeated over verified candidates and an unselected symbol saved as verified.
THEOREM RunStaysConsistent == RunSpec => StaysConsistent
<1>1. RunInv /\ [RunNext]_runVars =>
        [(run # NoRun /\ run' # NoRun /\ Consistent(run)) =>
           \/ Consistent(run')
           \/ Doing("attach") /\ Verified(run) # {}
           \/ ~(Verified(run') \subseteq Selected(run'))]_runVars
  BY StaysConsistentStep
<1>2. QED BY <1>1, RunInductive, PTL DEF RunSpec, StaysConsistent

-----------------------------------------------------------------------------
(***************************************************************************)
(* The robot tester: no robot is lost, and no test joins a terminal that   *)
(* could not be stopped.                                                   *)
(***************************************************************************)

Moving == {"copy_finalist", "write_set", "copy_testing", "unlink"}
Judged == Moving \cup {"check", "done"}
Taking == Moving \cup {"round", "testing", "blocking", "learn", "check"}

\* What is whole where it should be, for an entry of r that may be called done.
Delivered(r, entry) ==
    entry.verdict = "finalist" =>
        /\ finalists[r] = "whole"
        /\ entry.optimized => r \in sets

\* NoRobotLost for the checkpoint on disk and for the one in memory alike: either
\* may become the other, at a launch or a save.
DoneDelivered(states) ==
    \A r \in Robots : states[r].status = "done" => r \notin candidates /\ Delivered(r, states[r])

\* What is left of a robot that is not a candidate any more.
MovedWhole ==
    \A r \in Robots \ candidates :
        /\ learnt[r] # "none"
        /\ testing[r] = "whole" \/ r \in dropped
        /\ learnt[r] = "finalist" => finalists[r] = "whole"

\* The robot a run works on is a candidate until it is unlinked, and those still to
\* take are others: what a move undoes is never the copy of a robot moved before.
WorksOnCandidate ==
    /\ todo \subseteq candidates
    /\ step \in Taking \cup {"done"} => robot \in Robots \ todo
    /\ step \in Taking => robot \in candidates
    /\ step = "done" => robot \notin candidates
    /\ step = "off" => todo = {}

\* A verdict is learnt before the move, and the copies are made in this order.
MovesInOrder ==
    /\ step = "testing" => Me.rounds < 3 /\ Me.gates = "open"
    /\ step = "learn" => Me.verdict # "none"
    /\ step \in Judged => learnt[robot] # "none" /\ learnt[robot] = Me.verdict
    /\ step \in {"copy_finalist", "write_set"} => Me.verdict = "finalist"
    /\ step = "write_set" => finalists[robot] = "whole"
    /\ step \in {"copy_testing", "unlink", "done"} => Delivered(robot, Me)
    /\ step \in {"unlink", "done"} => testing[robot] = "whole"

\* A terminal that was not seen to end is announced by the blocker, or is about to be.
Announced ==
    /\ orphan = "unconfirmed" => blocker \/ step = "blocking"
    /\ blocker => step = "off"

TesterSteps == Taking \cup {"done", "next", "off"}

TesterInv ==
    /\ TesterTypeOK
    /\ step \in TesterSteps /\ blocker \in BOOLEAN
    /\ DoneDelivered(memory) /\ DoneDelivered(disk)
    /\ MovedWhole
    /\ WorksOnCandidate
    /\ MovesInOrder
    /\ Announced

LEMMA FreshEntries ==
    /\ Absent \in States /\ Absent.status = "absent"
    /\ Untested \in States /\ Untested.status = "pending"
<1>1. Absent \in States /\ Absent.status = "absent"
  BY DEF Absent, States
<1>2. Untested \in States
  BY <1>1 DEF Untested, States
<1>3. Untested.status = "pending"
  BY DEF Untested, Absent
<1>4. QED BY <1>1, <1>2, <1>3

LEMMA TesterInitInv == TesterInit => TesterInv
<1> SUFFICES ASSUME TesterInit PROVE TesterInv
  OBVIOUS
<1>1. TesterTypeOK
  BY FreshEntries DEF TesterInit, TesterTypeOK
<1>2. DoneDelivered(memory) /\ DoneDelivered(disk)
  BY FreshEntries DEF TesterInit, DoneDelivered
<1>3. QED
  BY <1>1, <1>2 DEF TesterInit, TesterInv, TesterSteps, Taking, Moving, Judged, MovedWhole,
      WorksOnCandidate, MovesInOrder, Announced

-----------------------------------------------------------------------------
(* One lemma per group of actions.                                         *)

\* An entry with another status or verdict is an entry.
LEMMA EntryTyped ==
    ASSUME NEW e \in States
    PROVE  /\ \A s \in {"absent", "pending", "round1", "error", "move_error", "done"} :
                /\ [e EXCEPT !.status = s] \in States
                /\ [e EXCEPT !.status = s].status = s
                /\ [e EXCEPT !.status = s].verdict = e.verdict
                /\ [e EXCEPT !.status = s].optimized = e.optimized
           /\ \A v \in {"none", "error", "finalist", "rejected"} :
                [e EXCEPT !.verdict = v] \in States
           /\ [e EXCEPT !.status = "error", !.verdict = "error"] \in States
           /\ [e EXCEPT !.status = "error", !.verdict = "error"].status = "error"
           /\ [e EXCEPT !.current = FALSE] \in States
           /\ [e EXCEPT !.current = FALSE].status = e.status
           /\ [e EXCEPT !.current = FALSE].verdict = e.verdict
           /\ [e EXCEPT !.current = FALSE].optimized = e.optimized
BY DEF States

\* Saving an entry for the robot at hand: in memory and on disk nothing is called
\* done that was not delivered.
LEMMA SaveEntry ==
    ASSUME TesterInv, robot \in Robots, UNCHANGED robot, NEW e \in States, Save(e),
           \A r \in Robots \ {robot} :
               /\ r \in candidates' <=> r \in candidates
               /\ finalists'[r] = finalists[r]
               /\ r \in sets' <=> r \in sets,
           e.status = "done" => robot \notin candidates' /\ Delivered(robot, e)'
    PROVE  /\ memory' \in [Robots -> States] /\ disk' \in [Robots -> States]
           /\ memory'[robot] = e
           /\ DoneDelivered(memory)' /\ DoneDelivered(disk)'
<1>1. memory' = [memory EXCEPT ![robot] = e] /\ disk' = memory'
  BY DEF Save, Remember
<1>2. memory \in [Robots -> States]
  BY DEF TesterInv, TesterTypeOK
<1>3. memory' \in [Robots -> States] /\ memory'[robot] = e
  BY <1>1, <1>2
<1>4. DoneDelivered(memory)'
  <2> SUFFICES ASSUME NEW r \in Robots, memory'[r].status = "done"
               PROVE  r \notin candidates' /\ Delivered(r, memory[r])'
    BY DEF DoneDelivered
  <2>1. CASE r = robot
    BY <1>3, <2>1 DEF Delivered
  <2>2. CASE r # robot
    BY <1>1, <1>2, <2>2 DEF TesterInv, DoneDelivered, Delivered
  <2>3. QED BY <2>1, <2>2
<1>5. QED BY <1>1, <1>3, <1>4 DEF DoneDelivered, Delivered

\* A step that ends in saving the robot's entry, with the copies of this robot made,
\* undone or as they were, and goes on with the robot or to the next one.
LEMMA RecordStep ==
    ASSUME TesterInv, step \in (Taking \cup {"done"}) \ {"blocking"},
           NEW e \in States, Save(e),
           e.status = "done" => robot \notin candidates /\ Delivered(robot, e),
           learnt' \in {learnt, [learnt EXCEPT ![robot] = "error"]},
           step' = "next" \/ (step' = "round" /\ robot \in candidates),
           testing' \in [Robots -> {"none", "part", "whole"}],
           finalists' \in [Robots -> {"none", "part", "whole"}],
           sets' \subseteq Robots,
           \A r \in Robots : r # robot \/ robot \notin candidates =>
               /\ testing'[r] = testing[r]
               /\ finalists'[r] = finalists[r]
               /\ r \in sets' <=> r \in sets,
           UNCHANGED <<robot, todo, candidates, orphan, blocker, kills, dropped>>
    PROVE  TesterInv'
<1> USE DEF TesterInv
<1>1. robot \in Robots /\ step \notin {"off", "next"}
  BY DEF WorksOnCandidate, Taking, Moving
<1>2. /\ memory' \in [Robots -> States] /\ disk' \in [Robots -> States]
      /\ DoneDelivered(memory)' /\ DoneDelivered(disk)'
  BY <1>1, SaveEntry DEF Delivered
<1>3. TesterTypeOK' /\ step' \in TesterSteps /\ blocker' \in BOOLEAN
  BY <1>1, <1>2 DEF TesterTypeOK, TesterSteps, Taking
<1>4. MovedWhole'
  BY <1>1 DEF MovedWhole, TesterTypeOK
<1>5. WorksOnCandidate'
  BY <1>1 DEF WorksOnCandidate, Taking, Moving
<1>6. MovesInOrder'
  BY <1>1 DEF MovesInOrder, Moving, Judged
<1>7. Announced'
  BY <1>1 DEF Announced, TesterSteps, Taking, Moving
<1>8. QED BY <1>2, <1>3, <1>4, <1>5, <1>6, <1>7

LEMMA TesterRunStep ==
    ASSUME TesterInv,
           \/ \E resume \in BOOLEAN : LaunchRun(resume)
           \/ \E r \in Robots : TakeRobot(r)
           \/ EndRun
    PROVE  TesterInv'
<1> USE FreshEntries, TesterAssumption
    DEF TesterInv, TesterTypeOK, TesterSteps, Taking, Moving, Judged, MovedWhole,
        DoneDelivered, Delivered, WorksOnCandidate, MovesInOrder, Announced, Now, To,
        Me, folders
<1>1. ASSUME NEW resume \in BOOLEAN, LaunchRun(resume)
      PROVE  TesterInv'
  BY <1>1 DEF LaunchRun
<1>2. ASSUME NEW r \in Robots, TakeRobot(r)
      PROVE  TesterInv'
  BY <1>2 DEF TakeRobot
<1>3. CASE EndRun
  BY <1>3 DEF EndRun, Leave
<1>4. QED BY <1>1, <1>2, <1>3

LEMMA RoundStep ==
    ASSUME TesterInv,
           \/ StartTest \/ SkipRound3 \/ TestEnds \/ TestFails
           \/ Unconfirmed \/ Block \/ GiveVerdict \/ Learn
    PROVE  TesterInv'
<1> USE DEF Now, To
<1>1. Me \in States \/ step \in {"off", "next"}
  BY DEF TesterInv, TesterTypeOK, TesterSteps, WorksOnCandidate, Me
<1>2. ASSUME step \in Taking
      PROVE  robot \in Robots /\ robot \in candidates /\ Me.status # "done" /\ step \notin {"off", "next"}
  BY <1>2 DEF TesterInv, WorksOnCandidate, DoneDelivered, Me, Taking, Moving
<1>3. CASE StartTest
  BY <1>3, <1>2
  DEF StartTest, folders, TesterInv, TesterTypeOK, TesterSteps, Taking, Moving, Judged,
      MovedWhole, DoneDelivered, Delivered, WorksOnCandidate, MovesInOrder, Announced, Me
<1>4. CASE SkipRound3
  <2>1. PICK g \in {"finalist", "rejected"} :
            Save([Me EXCEPT !.rounds = 3, !.gates = g, !.optimized = FALSE])
    BY <1>4 DEF SkipRound3
  <2>2. /\ step = "round" /\ step' = "round"
        /\ UNCHANGED <<robot, todo, learnt, folders, orphan, blocker, kills, dropped>>
    BY <1>4 DEF SkipRound3
  <2>3. Me \in States /\ Me.status # "done"
    BY <1>1, <1>2, <2>2 DEF Taking
  <2>4. /\ [Me EXCEPT !.rounds = 3, !.gates = g, !.optimized = FALSE] \in States
        /\ [Me EXCEPT !.rounds = 3, !.gates = g, !.optimized = FALSE].status # "done"
    <3>1. g \in {"open", "finalist", "rejected"}
      BY <2>1
    <3>2. [Me EXCEPT !.rounds = 3, !.gates = g, !.optimized = FALSE] \in States
      BY <2>3, <3>1, 3 \in 0..3 DEF States
    <3>3. [Me EXCEPT !.rounds = 3, !.gates = g, !.optimized = FALSE].status = Me.status
      BY <2>3 DEF States
    <3>4. QED BY <2>3, <3>2, <3>3
  <2>5. QED BY <1>2, <2>1, <2>2, <2>4, RecordStep DEF folders, Taking, TesterInv, TesterTypeOK
<1>5. CASE TestEnds
  <2> DEFINE entry(g) ==
        [Me EXCEPT !.rounds = @ + 1, !.gates = g, !.optimized = (Me.rounds = 2),
                   !.status = IF Me.rounds = 0 THEN "round1" ELSE @]
  <2>1. /\ step = "testing" /\ step' = "round"
        /\ UNCHANGED <<robot, todo, learnt, folders, orphan, blocker, kills, dropped>>
    BY <1>5 DEF TestEnds
  <2>2. PICK g \in Gates(Me.rounds + 1) : Save(entry(g))
    BY <1>5 DEF TestEnds
  <2>3. Me \in States /\ Me.rounds \in 0..2 /\ Me.status # "done"
    BY <1>1, <1>2, <2>1 DEF States, Taking, TesterInv, MovesInOrder
  <2>4. g \in {"open", "finalist", "rejected"}
    BY <2>2, <2>3 DEF Gates
  <2>5. entry(g) \in States /\ entry(g).status # "done"
    <3>1. entry(g) = [Me EXCEPT !.rounds = Me.rounds + 1, !.gates = g,
                                !.optimized = (Me.rounds = 2),
                                !.status = IF Me.rounds = 0 THEN "round1" ELSE Me.status]
      OBVIOUS
    <3>2. Me.rounds + 1 \in 0..3 /\ (Me.rounds = 2) \in BOOLEAN
      BY <2>3
    <3>3. (IF Me.rounds = 0 THEN "round1" ELSE Me.status)
              \in {"absent", "pending", "round1", "error", "move_error"}
      BY <2>3 DEF States
    <3>4. QED BY <2>3, <2>4, <3>1, <3>2, <3>3 DEF States
  <2>6. QED BY <1>2, <2>1, <2>2, <2>5, RecordStep DEF folders, Taking, TesterInv, TesterTypeOK
<1>6. CASE TestFails
  <2> DEFINE entry == [Me EXCEPT !.status = "error",
                                 !.verdict = IF Me.rounds = 0 THEN @ ELSE "error"]
  <2>1. /\ step = "testing" /\ step' = "next" /\ Save(entry)
        /\ learnt' = [learnt EXCEPT ![robot] = "error"]
        /\ UNCHANGED <<robot, todo, folders, orphan, blocker, kills, dropped>>
    BY <1>6 DEF TestFails
  <2>2. entry \in States /\ entry.status = "error"
    BY <1>1, <2>1 DEF States
  <2>3. QED BY <1>2, <2>1, <2>2, RecordStep DEF folders, Taking, TesterInv, TesterTypeOK
<1>7. CASE Unconfirmed
  BY <1>7, <1>2
  DEF Unconfirmed, folders, TesterInv, TesterTypeOK, TesterSteps, Taking, Moving, Judged,
      MovedWhole, DoneDelivered, Delivered, WorksOnCandidate, MovesInOrder, Announced, Me
<1>8. CASE Block
  <2>1. /\ robot \in Robots /\ Me \in States /\ memory \in [Robots -> States]
        /\ DoneDelivered(memory)
    BY <1>1, <1>2, <1>8 DEF Block, Taking, TesterInv, TesterTypeOK
  <2>2. /\ disk' = [memory EXCEPT ![robot] = [Me EXCEPT !.status = "error", !.verdict = "error"]]
        /\ memory' = [r \in Robots |-> Absent]
        /\ UNCHANGED <<learnt, candidates, testing, finalists, sets, orphan, kills, dropped>>
    BY <1>8 DEF Block, Leave, Me, folders
  <2>3. disk' \in [Robots -> States] /\ DoneDelivered(disk)'
    BY <2>1, <2>2, EntryTyped DEF DoneDelivered, Delivered
  <2>4. memory' \in [Robots -> States] /\ DoneDelivered(memory)'
    BY <2>2, FreshEntries DEF DoneDelivered
  <2>5. QED
    BY <1>8, <2>2, <2>3, <2>4
    DEF Block, Leave, TesterInv, TesterTypeOK, TesterSteps, Taking, Moving, Judged, MovedWhole,
        WorksOnCandidate, MovesInOrder, Announced
<1>9. CASE GiveVerdict
  <2>1. robot \in Robots /\ Me \in States /\ Me.status # "done" /\ step = "round"
    BY <1>1, <1>2, <1>9 DEF GiveVerdict, Taking
  <2>2. /\ [Me EXCEPT !.verdict = Me.gates] \in States
        /\ [Me EXCEPT !.verdict = Me.gates].status # "done"
    BY <1>9, <2>1 DEF GiveVerdict, States
  <2>3. memory' \in [Robots -> States] /\ DoneDelivered(memory)' /\ DoneDelivered(disk)'
    BY <1>9, <2>1, <2>2
    DEF GiveVerdict, Remember, TesterInv, TesterTypeOK, DoneDelivered, Delivered, folders
  <2>4. QED
    BY <1>9, <2>1, <2>3
    DEF GiveVerdict, Remember, States, Me, folders, TesterInv, TesterTypeOK, TesterSteps, Taking, Moving, Judged,
        MovedWhole, WorksOnCandidate, MovesInOrder, Announced
<1>10. CASE Learn
  <2>1. /\ robot \in Robots /\ Me.status # "done" /\ step = "learn"
        /\ Me.verdict \in {"error", "finalist", "rejected"}
    BY <1>1, <1>2, <1>10 DEF Learn, Taking, TesterInv, MovesInOrder, States
  <2>2. QED
    BY <1>10, <2>1
    DEF Learn, folders, TesterInv, TesterTypeOK, TesterSteps, Taking, Moving, Judged,
        MovedWhole, DoneDelivered, Delivered, WorksOnCandidate, MovesInOrder, Announced, Me
<1>11. QED BY <1>3, <1>4, <1>5, <1>6, <1>7, <1>8, <1>9, <1>10

LEMMA MoveStep ==
    ASSUME TesterInv,
           \/ CheckFolders \/ CopyFinalist \/ WriteSet \/ CopyTesting
           \/ UnlinkCandidate \/ MoveFails \/ SaveDone \/ SaveFails
    PROVE  TesterInv'
<1> USE DEF Now, To
<1>1. /\ step \in Judged /\ robot \in Robots /\ Me \in States
      /\ step # "done" => robot \in candidates
  BY DEF CheckFolders, CopyFinalist, WriteSet, CopyTesting, UnlinkCandidate, MoveFails, SaveDone,
      SaveFails, TesterInv, TesterTypeOK, WorksOnCandidate, Me, Judged, Moving, Taking
<1>2. ASSUME NotMoved, step # "done",
             testing' \in {testing, [testing EXCEPT ![robot] = "none"]},
             finalists' \in {finalists, [finalists EXCEPT ![robot] = "none"]},
             sets' \in {sets, sets \ {robot}},
             UNCHANGED <<robot, todo, candidates, orphan, blocker, kills, dropped>>
      PROVE  TesterInv'
  <2>1. /\ [Me EXCEPT !.status = "move_error"] \in States
        /\ [Me EXCEPT !.status = "move_error"].status = "move_error"
    BY <1>1, EntryTyped
  <2>2. /\ testing' \in [Robots -> {"none", "part", "whole"}]
        /\ finalists' \in [Robots -> {"none", "part", "whole"}]
        /\ sets' \subseteq Robots
        /\ \A r \in Robots \ {robot} :
              /\ testing'[r] = testing[r]
              /\ finalists'[r] = finalists[r]
              /\ r \in sets' <=> r \in sets
    BY <1>1, <1>2 DEF TesterInv, TesterTypeOK
  <2>3. step \in (Taking \cup {"done"}) \ {"blocking"}
    BY <1>1 DEF Judged, Taking, Moving
  <2>4. QED BY <1>1, <1>2, <2>1, <2>2, <2>3, RecordStep DEF NotMoved
<1>3. CASE CheckFolders /\ Taken
  BY <1>2, <1>3 DEF CheckFolders, folders
<1>4. CASE CheckFolders /\ ~Taken
  BY <1>1, <1>4
  DEF CheckFolders, Taken, folders, TesterInv, TesterTypeOK, TesterSteps, Taking, Moving,
      Judged, MovedWhole, DoneDelivered, Delivered, WorksOnCandidate, MovesInOrder, Announced, Me
<1>5. CASE CopyFinalist \/ WriteSet
  BY <1>1, <1>5
  DEF CopyFinalist, WriteSet, TesterInv, TesterTypeOK, TesterSteps, Taking, Moving, Judged,
      MovedWhole, DoneDelivered, Delivered, WorksOnCandidate, MovesInOrder, Announced, Me
<1>6. CASE CopyTesting \/ UnlinkCandidate
  BY <1>1, <1>6
  DEF CopyTesting, UnlinkCandidate, TesterInv, TesterTypeOK, TesterSteps, Taking, Moving, Judged,
      MovedWhole, DoneDelivered, Delivered, WorksOnCandidate, MovesInOrder, Announced, Me
<1>7. CASE MoveFails
  <2>1. [finalists EXCEPT ![robot] = IF Me.verdict = "finalist" THEN "none" ELSE @]
            \in {finalists, [finalists EXCEPT ![robot] = "none"]}
    BY <1>1 DEF TesterInv, TesterTypeOK
  <2>2. QED BY <1>2, <1>7, <2>1 DEF MoveFails
<1>8. CASE SaveDone \/ SaveFails
  <2>1. PICK entry \in {[Me EXCEPT !.status = "done"],
                        [Me EXCEPT !.status = "error", !.verdict = "error"]} : Save(entry)
    BY <1>8 DEF SaveDone, SaveFails
  <2>2. /\ step = "done" /\ step' = "next"
        /\ learnt' \in {learnt, [learnt EXCEPT ![robot] = "error"]}
        /\ UNCHANGED <<robot, todo, folders, orphan, blocker, kills, dropped>>
    BY <1>8 DEF SaveDone, SaveFails
  <2>3. robot \notin candidates /\ Delivered(robot, Me)
    BY <2>2 DEF TesterInv, WorksOnCandidate, MovesInOrder
  <2>4. entry \in States /\ (entry.status = "done" => Delivered(robot, entry))
    <3>1. CASE entry = [Me EXCEPT !.status = "done"]
      BY <1>1, <2>3, <3>1, EntryTyped DEF Delivered
    <3>2. CASE entry = [Me EXCEPT !.status = "error", !.verdict = "error"]
      BY <1>1, <3>2, EntryTyped
    <3>3. QED BY <2>1, <3>1, <3>2
  <2>5. QED BY <2>1, <2>2, <2>3, <2>4, RecordStep DEF folders, TesterInv, TesterTypeOK
<1>9. QED BY <1>3, <1>4, <1>5, <1>6, <1>7, <1>8

LEMMA WorldStep ==
    ASSUME TesterInv, KillRun \/ InterruptRun \/ EditInputs \/ TerminalExits \/ Unblock
    PROVE  TesterInv'
<1> USE FreshEntries, TesterAssumption
    DEF TesterInv, TesterTypeOK, TesterSteps, Taking, Moving, Judged, MovedWhole,
        DoneDelivered, Delivered, WorksOnCandidate, MovesInOrder, Announced, Now, To,
        Me, folders
<1>1. CASE KillRun
  BY <1>1 DEF KillRun, Stop, Leave
<1>2. CASE EditInputs
  <2>1. \A r \in Robots :
          /\ disk'[r] \in States /\ disk'[r].status = disk[r].status
          /\ disk'[r].verdict = disk[r].verdict /\ disk'[r].optimized = disk[r].optimized
    BY <1>2, EntryTyped DEF EditInputs
  <2>2. disk' \in [Robots -> States]
    BY <1>2, <2>1 DEF EditInputs
  <2>3. QED BY <1>2, <2>1, <2>2 DEF EditInputs
<1>3. CASE TerminalExits
  BY <1>3 DEF TerminalExits
<1>4. CASE Unblock
  BY <1>4 DEF Unblock
<1>5. CASE InterruptRun
  <2>1. step \in Moving /\ robot \in Robots /\ robot \in candidates
    BY <1>5 DEF InterruptRun
  <2>2. \A r \in Robots \ {robot} :
          /\ testing'[r] = testing[r] /\ finalists'[r] = finalists[r]
          /\ r \in sets' <=> r \in sets
          /\ r \in candidates' <=> r \in candidates
          /\ r \in dropped' <=> r \in dropped
    BY <1>5 DEF InterruptRun
  <2>3. robot \notin candidates' =>
          /\ learnt[robot] # "none" /\ robot \in dropped'
          /\ learnt[robot] = "finalist" => finalists'[robot] = "whole"
    BY <1>5, <2>1 DEF InterruptRun
  <2>4. disk[robot].status # "done"
    BY <2>1
  <2>5. TesterTypeOK'
    BY <1>5, <2>1 DEF InterruptRun, Stop, Leave
  <2>6. DoneDelivered(memory)' /\ DoneDelivered(disk)'
    BY <1>5, <2>2, <2>4 DEF InterruptRun, Stop, Leave
  <2>7. MovedWhole'
    BY <1>5, <2>2, <2>3 DEF InterruptRun, Stop
  <2>8. QED BY <1>5, <2>1, <2>5, <2>6, <2>7 DEF InterruptRun, Stop, Leave
<1>6. QED BY <1>1, <1>2, <1>3, <1>4, <1>5

LEMMA TesterStepInv == TesterInv /\ [TesterNext]_testerVars => TesterInv'
<1> SUFFICES ASSUME TesterInv, [TesterNext]_testerVars PROVE TesterInv'
  OBVIOUS
<1>1. CASE UNCHANGED testerVars
  BY <1>1
  DEF testerVars, folders, TesterInv, TesterTypeOK, DoneDelivered, Delivered, MovedWhole,
      WorksOnCandidate, MovesInOrder, Announced, Me
<1>2. CASE TesterNext
  BY <1>2, TesterRunStep, RoundStep, MoveStep, WorldStep DEF TesterNext
<1>3. QED BY <1>1, <1>2

-----------------------------------------------------------------------------
\* The inductive invariant holds in every reachable state, whatever fails and
\* whenever a run is killed.
THEOREM TesterInductive == TesterSpec => []TesterInv
BY TesterInitInv, TesterStepInv, PTL DEF TesterSpec

\* The robots, the folders and both checkpoints stay in their types.
THEOREM TesterTypeCorrect == TesterSpec => []TesterTypeOK
<1>1. TesterInv => TesterTypeOK
  BY DEF TesterInv
<1>2. QED BY <1>1, TesterInductive, PTL

\* _move_bot, _finish and the handlers that remove what was being made: the verdict
\* of a robot gone from the candidates was learnt, and the robot is whole in the
\* in-testing folder; only an interrupt that meets the unlink of the candidate
\* removes that copy, a finalist's other one stays.  A finalist that state.json
\* calls done is delivered.
THEOREM NoRobotIsLost == TesterSpec => []NoRobotLost
<1>1. TesterInv => NoRobotLost
  BY DEF TesterInv, NoRobotLost, DoneDelivered, Delivered, MovedWhole
<1>2. QED BY <1>1, TesterInductive, PTL

\* The blocker: no test is started beside a terminal that could not be stopped.
THEOREM TerminalIsAlone == TesterSpec => []TerminalAlone
<1>1. TesterInv => TerminalAlone
  BY DEF TesterInv, TerminalAlone, Announced
<1>2. QED BY <1>1, TesterInductive, PTL
===============================================================================
