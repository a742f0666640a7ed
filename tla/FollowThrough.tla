---------------------------- MODULE FollowThrough ----------------------------
(***************************************************************************)
(* skills/ftd-detector/scripts/rally_tracker.py, one index: every run      *)
(* analyses the last sessions afresh and says how far the market is on its *)
(* way from a correction to a follow-through day (FTD).  The history grows *)
(* by a session at a time, so what matters is how the verdict of one day   *)
(* follows from that of the day before.                                    *)
(*                                                                         *)
(* Prices and volumes are positive integers.  An index below is the number *)
(* of a session in the whole history.                                      *)
(***************************************************************************)
EXTENDS Integers, Sequences, FiniteSets

CONSTANTS
    Pasts,     \* the histories a behaviour may begin with
    Moves,     \* what a session may bring: change, up, down, volume
    MaxDays,   \* bound: the length of the history
    Window,    \* how many sessions are looked at (60)
    MaxLows    \* how many swing lows are looked at (6)

Bars == [close : Nat \ {0}, high : Nat, low : Nat, volume : Nat \ {0}]

ASSUME FollowThroughAssumption ==
    /\ Pasts \subseteq Seq(Bars) /\ << >> \notin Pasts
    /\ Moves \subseteq [change : Int, up : Nat, down : Nat, volume : Nat \ {0}]
    /\ MaxDays \in Nat /\ Window \in Nat /\ MaxLows \in Nat

VARIABLES
    history,  \* one bar per session, oldest first
    signal    \* what the detector says of it

trendVars == <<history, signal>>

FTD_DAY_START == 4
FTD_DAY_END   == 10

Least(S) == CHOOSE i \in S : \A j \in S : i <= j
Last(S)  == CHOOSE i \in S : \A j \in S : j <= i

Days(h)    == (IF Len(h) > Window THEN Len(h) - Window + 1 ELSE 1)..Len(h)
From(h, i) == {j \in Days(h) : j > i}
Close(h, i) == h[i].close
IsDown(h, i) == Close(h, i) < Close(h, i - 1)

-----------------------------------------------------------------------------
\* _is_swing_low: 3% below the high of the 40 sessions before, with three down
\* days since, and no lower close beside it (the last session has one side only).
RecentHigh(h, i) ==
    LET before == {j \in Days(h) : j < i /\ j >= i - 40}
    IN  Least({j \in before : \A k \in before : Close(h, k) <= Close(h, j)})

IsSwingLow(h, i) ==
    LET high == RecentHigh(h, i)
    IN  /\ 100 * (Close(h, high) - Close(h, i)) >= 3 * Close(h, high)
        /\ Cardinality({j \in (high + 1)..i : IsDown(h, j)}) >= 3
        /\ Close(h, i - 1) >= Close(h, i)
        /\ i < Len(h) => Close(h, i + 1) >= Close(h, i)

AllLows(h) == {i \in Days(h) : i >= Least(Days(h)) + 4 /\ IsSwingLow(h, i)}

\* _find_all_swing_lows: the latest ones.
SwingLows(h) == {i \in AllLows(h) : Cardinality({j \in AllLows(h) : j > i}) < MaxLows}

-----------------------------------------------------------------------------
\* track_rally_attempt.  Day 1 closes up or in the upper half of its range; the
\* attempt fails with a close below the low, or on days 2 and 3 below day 1's range.
FirstDays(h, s) ==
    {i \in From(h, s) : \/ Close(h, i) > Close(h, i - 1)
                        \/ /\ h[i].high > h[i].low
                           /\ 2 * (Close(h, i) - h[i].low) >= h[i].high - h[i].low}
HasDay1(h, s) == FirstDays(h, s) # {}
Day1(h, s) == Least(FirstDays(h, s))

Fails(h, s) ==
    \/ \E i \in From(h, s) : Close(h, i) < Close(h, s)
    \/ /\ HasDay1(h, s)
       /\ \E i \in From(h, Day1(h, s)) : /\ i <= Day1(h, s) + 2
                                         /\ Close(h, i) < h[Day1(h, s)].low

DayCount(h, s) == Len(h) - Day1(h, s) + 1

\* detect_ftd: the first of the days 4 to 10 that gains 1.25%, as rounded to two
\* decimals, on more volume than the day before.
GainPct100(h, i) ==
    LET prev == Close(h, i - 1)
    IN  (2 * 10000 * (Close(h, i) - prev) + prev) \div (2 * prev)

FollowThroughs(h, s) ==
    {i \in From(h, s) : /\ i - Day1(h, s) + 1 \in FTD_DAY_START..FTD_DAY_END
                        /\ GainPct100(h, i) >= 125
                        /\ h[i].volume > h[i - 1].volume}
HasFtd(h, s) == ~Fails(h, s) /\ HasDay1(h, s) /\ FollowThroughs(h, s) # {}
Ftd(h, s) == Least(FollowThroughs(h, s))
Undercut(h, f) == \E i \in From(h, f) : Close(h, i) < h[f].low

-----------------------------------------------------------------------------
Verdict(state, low, ftd) == [state |-> state, low |-> low, ftd |-> ftd]

OfFtd(h, s) ==
    Verdict(IF Undercut(h, Ftd(h, s)) THEN "FTD_INVALIDATED" ELSE "FTD_CONFIRMED", s, Ftd(h, s))

\* analyze_single_index, step 1: the latest swing low.
OfLatest(h, s) ==
    CASE Fails(h, s)                       -> Verdict("RALLY_FAILED", s, 0)
      [] ~Fails(h, s) /\ ~HasDay1(h, s)    -> Verdict("CORRECTION", s, 0)
      [] HasFtd(h, s)                      -> OfFtd(h, s)
      [] OTHER -> Verdict(IF DayCount(h, s) < FTD_DAY_START THEN "RALLY_ATTEMPT"
                          ELSE IF DayCount(h, s) <= FTD_DAY_END THEN "FTD_WINDOW"
                          ELSE "RALLY_FAILED", s, 0)

\* MUTANT of Analysis: the older lows are not searched.
LatestOnly(h) ==
    IF Len(h) < 10 \/ SwingLows(h) = {} THEN Verdict("NO_SIGNAL", 0, 0)
    ELSE OfLatest(h, Last(SwingLows(h)))

\* Step 2: of the older ones the latest that had an FTD.  If that was undercut, an
\* attempt from the latest low is what counts.
Analysis(h) ==
    IF Len(h) < 10 \/ SwingLows(h) = {} THEN Verdict("NO_SIGNAL", 0, 0)
    ELSE LET s == Last(SwingLows(h))
             latest == OfLatest(h, s)
             older == {o \in SwingLows(h) \ {s} : HasFtd(h, o)}
             found == OfFtd(h, Last(older))
         IN  IF latest.ftd # 0 \/ older = {} THEN latest
             ELSE IF found.state = "FTD_CONFIRMED"
                     \/ latest.state \notin {"RALLY_ATTEMPT", "FTD_WINDOW"} THEN found
             ELSE latest

FollowInit ==
    /\ history \in Pasts
    /\ signal = Analysis(history)

\* A session ends and the detector is run.
Session(move) ==
    /\ Len(history) < MaxDays
    /\ LET close == history[Len(history)].close + move.change
       IN  /\ close - move.down > 0
           /\ history' = Append(history, [close |-> close, high |-> close + move.up,
                                          low |-> close - move.down, volume |-> move.volume])
    /\ signal' = Analysis(history')

FollowNext == \E move \in Moves : Session(move)

FollowSpec == FollowInit /\ [][FollowNext]_trendVars

-----------------------------------------------------------------------------
MarketStates == {"NO_SIGNAL", "CORRECTION", "RALLY_ATTEMPT", "FTD_WINDOW", "FTD_CONFIRMED",
                 "RALLY_FAILED", "FTD_INVALIDATED"}

FollowTypeOK ==
    /\ history \in Seq(Bars)
    /\ signal.state \in MarketStates
    /\ signal.low \in 0..Len(history) /\ signal.ftd \in 0..Len(history)

\* A confirmed FTD stays confirmed through every pullback that closes neither
\* below the FTD's low nor below the swing low it began from, whatever other lows
\* and attempts the pullback makes; only a later FTD takes its place.  (Not if its
\* swing low is no longer among the latest, or in the window.)
ConfirmedHolds ==
    [][LET c == Close(history', Len(history'))
       IN  (/\ signal.state = "FTD_CONFIRMED"
            /\ c >= history[signal.ftd].low
            /\ c >= Close(history, signal.low)
            /\ signal.low \in SwingLows(history')) =>
               signal'.state = "FTD_CONFIRMED" /\ signal'.ftd >= signal.ftd]_trendVars

\* An FTD that was undercut is the end of older ones: none of them is confirmed
\* again afterwards (the comment on the search for older swing lows).
NoFallback ==
    [][(signal.state = "FTD_INVALIDATED" /\ signal'.state = "FTD_CONFIRMED") =>
           signal'.ftd > signal.ftd]_trendVars
=============================================================================
