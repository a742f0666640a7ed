------------------------------ MODULE MCPrograms ------------------------------
(***************************************************************************)
(* The programs that run on their own: the first state chooses one of      *)
(* them, and the others stand still at a state that costs nothing.         *)
(***************************************************************************)
EXTENDS RunState, WorkflowReplay, RobotTester, SkillImprovement, FollowThrough,
        IntradayTriggers, CircuitBreaker, DistributionDays

VARIABLE active  \* the program that this behaviour is about

CONSTANTS x, y

MCSymbols == {x, y}
Screen(sel, pool, settled) == [selected |-> sel, pool |-> pool, settled |-> settled]
MCScreens ==
    {Screen({x, y}, "sufficient", TRUE), Screen({x}, "sufficient", TRUE),
     Screen({y}, "sufficient", FALSE), Screen({x}, "pending", TRUE),
     Screen({}, "none_qualify", TRUE), Screen({}, "sufficient", TRUE)}

MCN == 2
MCSteps == 1..3
MCConsumes == <<{}, {1}, {1, 2}>>
MCOptional == {2}
MCHalts == {2}
MCEnabled == <<{1, 2, 3}, {1, 3}>>

\* Two corrections, the first with a follow-through day (102, volume 2, low 101).
Session1(close, volume) ==
    [close |-> close, high |-> close + 1, low |-> close - 1, volume |-> volume]
Closes == <<101, 102, 100, 98, 96, 97, 98, 99, 102, 103, 106, 109, 112, 110, 108, 106, 104>>
Corrections == [i \in 1..Len(Closes) |-> Session1(Closes[i], IF i = 9 THEN 2 ELSE 1)]
NoHistory == <<Session1(100, 1)>>
MCPasts == {Corrections, NoHistory}
Move(change, volume) == [change |-> change, up |-> 1, down |-> 1, volume |-> volume]
MCMoves == {Move(0 - 2, 1), Move(1, 1), Move(3, 2)}

\* An up bar, a red one, a fall and one that sweeps both sides.
FiveMin(o, h, l, c, v) == [o |-> o, h |-> h, l |-> l, c |-> c, v |-> v]
MCBarKinds == {FiveMin(6, 9, 6, 8, 2), FiveMin(7, 8, 5, 6, 2), FiveMin(6, 6, 3, 4, 3),
               FiveMin(6, 10, 2, 6, 1)}

\* Thursday, Friday the first, a weekend, a holiday and a Tuesday.
MCSessionDays == {1, 2, 6}
MCMondays == {0 - 2, 5}
MCFirsts == {0 - 20, 2}
MCAmounts == {0 - 2, 1}

\* Terms of two sessions instead of 25, so that a day may expire, be recovered
\* from in time and be recovered from too late; runs that load both funds, one, or none.
DayRow(close, high, volume) == [close |-> close, high |-> high, volume |-> volume]
Up(volume) == DayRow(1000, 1001, volume)
Fall(volume) == DayRow(998, 1000, volume)
Deep(volume) == DayRow(950, 1000, volume)
Gap == DayRow(0, 1060, 1)
Both(q, s) == [i \in Funds |-> IF i = "QQQ" THEN q ELSE s]
MCDayRows == {Both(Up(1), Up(1)), Both(Fall(2), Up(2)), Both(Deep(3), Fall(3)),
              Both(Gap, Fall(1))}
MCAverages ==
    {Both("yes", "no"), Both("no", "yes"), [i \in {"SPY"} |-> "no"], [i \in {} |-> "no"]}
MCCounts == [window \in Windows |-> IF window = "d25" THEN 2 ELSE 1]
MCThresholds ==
    [caution_d25 |-> 2, high_d25 |-> 2, high_d15 |-> 2, high_d5 |-> 1,
     severe_d25 |-> 3, severe_d15 |-> 3, severe_ma_d25 |-> 2]

vars == <<runVars, replayVars, testerVars, improveVars, trendVars, intradayVars,
          breakerVars, monitorVars, active>>

MCInit ==
    /\ active \in {"run_state", "replay", "tester", "improvement", "trend", "intraday",
                   "breaker", "monitor"}
    /\ RunInit /\ ReplayInit /\ TesterInit /\ ImproveInit
    /\ FollowInit /\ IntradayInit /\ BreakerInit /\ MonitorInit
    /\ active # "replay" => dest = All("old")
    /\ active # "improvement" => checkout.work = [s \in Skills |-> 0]
    /\ history = IF active = "trend" THEN Corrections ELSE NoHistory
    /\ active # "intraday" => anchored
    /\ active # "monitor" => sessions = [i \in Funds |-> <<Up(1)>>]

Chosen(program) == active = program /\ UNCHANGED active

MCNext ==
    \/ /\ Chosen("run_state") /\ RunNext
       /\ UNCHANGED <<replayVars, testerVars, improveVars, trendVars, intradayVars,
                      breakerVars, monitorVars>>
    \/ /\ Chosen("replay") /\ ReplayNext
       /\ UNCHANGED <<runVars, testerVars, improveVars, trendVars, intradayVars,
                      breakerVars, monitorVars>>
    \/ /\ Chosen("tester") /\ TesterNext
       /\ UNCHANGED <<runVars, replayVars, improveVars, trendVars, intradayVars,
                      breakerVars, monitorVars>>
    \/ /\ Chosen("improvement") /\ ImproveNext
       /\ UNCHANGED <<runVars, replayVars, testerVars, trendVars, intradayVars,
                      breakerVars, monitorVars>>
    \/ /\ Chosen("trend") /\ FollowNext
       /\ UNCHANGED <<runVars, replayVars, testerVars, improveVars, intradayVars,
                      breakerVars, monitorVars>>
    \/ /\ Chosen("intraday") /\ IntradayNext
       /\ UNCHANGED <<runVars, replayVars, testerVars, improveVars, trendVars,
                      breakerVars, monitorVars>>
    \/ /\ Chosen("breaker") /\ BreakerNext
       /\ UNCHANGED <<runVars, replayVars, testerVars, improveVars, trendVars,
                      intradayVars, monitorVars>>
    \/ /\ Chosen("monitor") /\ SessionEnds
       /\ UNCHANGED <<runVars, replayVars, testerVars, improveVars, trendVars,
                      intradayVars, breakerVars>>

MCSpec == MCInit /\ [][MCNext]_vars

\* Every program's state is of its types.
ProgramsTypeOK ==
    /\ RunTypeOK /\ ReplayTypeOK /\ TesterTypeOK /\ ImproveTypeOK
    /\ FollowTypeOK /\ IntradayTypeOK /\ BreakerTypeOK /\ MonitorTypeOK
=============================================================================
