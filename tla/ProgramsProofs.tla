---------------------------- MODULE ProgramsProofs ----------------------------
(***************************************************************************)
(* The programs side by side: each behaves as it does alone, so that what  *)
(* was proved of it alone holds beside the others.                         *)
(***************************************************************************)
EXTENDS MCPrograms, HistoryProofs, CheckpointProofs, PublicationProofs

\* In a behaviour of them all every program's part is a behaviour of that program: none
\* touches the files, the checkout, the terminal or the history of another.
LEMMA ProgramsApart ==
    MCSpec => /\ RunSpec /\ ReplaySpec /\ TesterSpec /\ ImproveSpec
              /\ FollowSpec /\ IntradaySpec /\ BreakerSpec /\ MonitorSpec
<1>1. MCInit => /\ RunInit /\ ReplayInit /\ TesterInit /\ ImproveInit
                /\ FollowInit /\ IntradayInit /\ BreakerInit /\ MonitorInit
  BY DEF MCInit
<1>2. [MCNext]_vars =>
        /\ [RunNext]_runVars /\ [ReplayNext]_replayVars
        /\ [TesterNext]_testerVars /\ [ImproveNext]_improveVars
        /\ [FollowNext]_trendVars /\ [IntradayNext]_intradayVars
        /\ [BreakerNext]_breakerVars /\ [SessionEnds]_monitorVars
  BY DEF MCNext, vars, Chosen
<1>3. QED BY <1>1, <1>2, PTL DEF MCSpec, RunSpec, ReplaySpec, TesterSpec, ImproveSpec,
        FollowSpec, IntradaySpec, BreakerSpec, MonitorSpec

\* Every program's state keeps its types, for any values of the constants, if a launch of
\* the improvement loop begins when the last has ended.
THEOREM ProgramsTypeCorrect == Separate /\ MCSpec => []ProgramsTypeOK
<1>1. RunTypeOK /\ ReplayTypeOK /\ TesterTypeOK /\ ImproveTypeOK /\ FollowTypeOK
        /\ IntradayTypeOK /\ BreakerTypeOK /\ MonitorTypeOK => ProgramsTypeOK
  BY DEF ProgramsTypeOK
<1>2. QED BY <1>1, ProgramsApart, RunTypeCorrect, ReplayTypeCorrect, TesterTypeCorrect,
        ImproveTypeCorrect, FollowTypeCorrect, IntradayTypeCorrect, BreakerTypeCorrect,
        MonitorTypeCorrect, PTL
=============================================================================
