-------------------------- MODULE DistributionDays --------------------------
(***************************************************************************)
(* skills/ibd-distribution-day-monitor: every run fetches the last         *)
(* sessions of two index funds, finds their distribution days (a fall on   *)
(* rising volume), drops those that are too old or were recovered from,    *)
(* counts the rest, and derives a risk level and how much of a position in *)
(* a leveraged fund to keep.  Nothing is remembered from run to run.       *)
(*                                                                         *)
(* A session is known by its number in the whole history; the code knows   *)
(* it by its age, counted from the session the run is about, which here    *)
(* is the last.  A price or volume of 0 is one that is not positive, a     *)
(* high or volume of 0 also one that is missing.  (A missing close ends    *)
(* the run with an exception when it comes to the averages, before it has  *)
(* reported: nothing changes.)  Prices are integers, so the tolerance of   *)
(* 1e-12 at the boundary of a decline has nothing to do.                   *)
(***************************************************************************)
EXTENDS Integers, Sequences, FiniteSets

CONSTANTS
    DayRows,        \* what a session may bring to the two funds
    Averages,       \* what the moving averages may say of the funds that load
    MaxSessions,    \* bound: the length of the history
    Fetched,        \* how many sessions a run fetches (lookback_days + 5)
    Expiration,     \* expiration_sessions (25)
    DeclineMille,   \* min_decline_pct, in thousandths (2)
    GainPercent,    \* invalidation_gain_pct, in hundredths (5)
    TriggerSource,  \* invalidation_price_source
    Counts,         \* the three windows that are counted (5, 15, 25)
    Thresholds      \* risk_thresholds

Funds == {"QQQ", "SPY"}
Rows == [close : Nat, high : Nat, volume : Nat]
AverageReadings == UNION {[S -> {"yes", "no", "unknown"}] : S \in SUBSET Funds}
Windows == {"d5", "d15", "d25"}

ASSUME DistributionAssumption ==
    /\ DayRows \subseteq [Funds -> Rows]
    /\ Averages \subseteq AverageReadings
    /\ MaxSessions \in Nat /\ Expiration \in Nat
    /\ DeclineMille \in 0..1000 /\ GainPercent \in Nat
    /\ TriggerSource \in {"high", "close"}
    /\ Counts \in [Windows -> Nat]
    /\ Thresholds \in [{"caution_d25", "high_d25", "high_d15", "high_d5", "severe_d25",
                        "severe_d15", "severe_ma_d25"} -> Nat]

\* _required_min_sessions: a run with less carries the flag insufficient_lookback.
ASSUME LookbackAssumption == Fetched \in Nat /\ Fetched >= Expiration + 2

VARIABLES
    sessions,  \* per fund, one row per session, oldest first
    averages   \* per fund that the run could load, is its last close below both averages

monitorVars == <<sessions, averages>>

-----------------------------------------------------------------------------
\* fetch_ohlcv: the last rows, by age.
Recent(h) ==
    LET n == IF Len(h) < Fetched THEN Len(h) ELSE Fetched
    IN  [age \in 0..(n - 1) |-> h[Len(h) - age]]

\* detect_distribution_days: each row but the oldest is compared with the one before.
IsDistribution(row, before) ==
    /\ row.close > 0 /\ row.volume > 0 /\ before.close > 0 /\ before.volume > 0
    /\ 1000 * row.close <= (1000 - DeclineMille) * before.close
    /\ row.volume > before.volume

Detected(w) == {k \in DOMAIN w : k + 1 \in DOMAIN w /\ IsDistribution(w[k], w[k + 1])}

\* _find_invalidation_event: the sessions after the day, within its term, that rose
\* far enough above its close; the first of them is the oldest.
Recovers(row, close) ==
    row[TriggerSource] > 0 /\ 100 * row[TriggerSource] >= (100 + GainPercent) * close

\* MUTANT of Crossings: the high of the day itself counts.
CrossingsSameDay(w, k) ==
    {e \in 0..k : e >= k - Expiration /\ Recovers(w[e], w[k].close)}

\* MUTANT of Crossings: a rise after the term of the day counts.
CrossingsAfterTerm(w, k) == {e \in 0..(k - 1) : Recovers(w[e], w[k].close)}

Crossings(w, k) ==
    {e \in 0..(k - 1) : e >= k - Expiration /\ Recovers(w[e], w[k].close)}

FirstCrossing(w, k) == CHOOSE e \in Crossings(w, k) : \A f \in Crossings(w, k) : f <= e

\* enrich_records: invalidated before expired, and expired before active.
Status(w, k) ==
    IF Crossings(w, k) # {} THEN "invalidated"
    ELSE IF k > Expiration THEN "expired"
    ELSE "active"

ActiveAges(w) == {k \in Detected(w) : Status(w, k) = "active"}

CountActive(ages, window) == Cardinality({k \in ages : k <= Counts[window]})

-----------------------------------------------------------------------------
\* classify_risk and combine_index_risks, with the levels as 0 to 3.
NORMAL == 0
CAUTION == 1
HIGH == 2
SEVERE == 3

\* MUTANT of Classify: a count that calls for caution is never looked at again.
ClassifyCautionFirst(count, below) ==
    IF \/ count.d25 >= Thresholds.severe_d25
       \/ count.d15 >= Thresholds.severe_d15
       \/ below = "yes" /\ count.d25 >= Thresholds.severe_ma_d25 THEN SEVERE
    ELSE IF count.d25 >= Thresholds.caution_d25 THEN CAUTION
    ELSE IF \/ count.d25 >= Thresholds.high_d25
            \/ count.d15 >= Thresholds.high_d15
            \/ count.d5 >= Thresholds.high_d5 THEN HIGH
    ELSE NORMAL

Classify(count, below) ==
    IF \/ count.d25 >= Thresholds.severe_d25
       \/ count.d15 >= Thresholds.severe_d15
       \/ below = "yes" /\ count.d25 >= Thresholds.severe_ma_d25 THEN SEVERE
    ELSE IF \/ count.d25 >= Thresholds.high_d25
            \/ count.d15 >= Thresholds.high_d15
            \/ count.d5 >= Thresholds.high_d5 THEN HIGH
    ELSE IF count.d25 >= Thresholds.caution_d25 THEN CAUTION
    ELSE NORMAL

HighestLevel(risk) ==
    CHOOSE level \in {risk[i] : i \in DOMAIN risk} : \A i \in DOMAIN risk : risk[i] <= level

Combine(risk) ==
    IF \E i \in DOMAIN risk : risk[i] = SEVERE THEN SEVERE
    ELSE IF /\ "QQQ" \in DOMAIN risk
            /\ \/ risk["QQQ"] = HIGH
               \/ /\ "SPY" \in DOMAIN risk
                  /\ \/ risk["QQQ"] = NORMAL /\ risk["SPY"] = HIGH
                     \/ risk["QQQ"] = CAUTION /\ risk["SPY"] \in {CAUTION, HIGH} THEN HIGH
    ELSE HighestLevel(risk)

\* _TQQQ_POLICY: the share of the position to keep.
TargetExposure(level) ==
    CASE level = NORMAL -> 100 [] level = CAUTION -> 75 [] level = HIGH -> 50 [] OTHER -> 25

\* analyze_index, and the rest of a run: it leaves out a fund that did not load, and
\* says nothing when neither did.
Risk(h, below) ==
    LET active == ActiveAges(Recent(h))
    IN  Classify([window \in Windows |-> CountActive(active, window)], below)

Reports(below) == DOMAIN below # {}
Exposure(h, below) == TargetExposure(Combine([i \in DOMAIN below |-> Risk(h[i], below[i])]))

-----------------------------------------------------------------------------
MonitorInit ==
    /\ \E rows \in DayRows : sessions = [i \in Funds |-> <<rows[i]>>]
    /\ averages = [i \in Funds |-> "unknown"]

\* A session ends for both funds, and a run is made.
SessionEnds ==
    /\ Len(sessions["QQQ"]) < MaxSessions
    /\ \E rows \in DayRows :
        sessions' = [i \in Funds |-> Append(sessions[i], rows[i])]
    /\ averages' \in Averages

MonitorSpec == MonitorInit /\ [][SessionEnds]_monitorVars

-----------------------------------------------------------------------------
\* Both funds have a row for every session so far, those included of which a run
\* could not load the rows of one (fetch_ohlcv).
MonitorTypeOK ==
    /\ sessions \in [Funds -> Seq(Rows)]
    /\ \A i \in Funds : Len(sessions[i]) = Len(sessions["QQQ"]) /\ Len(sessions[i]) > 0
    /\ averages \in AverageReadings

Standing(h) ==
    LET w == Recent(h)
    IN  {[day |-> Len(h) - k, close |-> w[k].close] : k \in ActiveAges(w)}

Qqq == INSTANCE DistributionLedger WITH
    LedgerRows <- {rows["QQQ"] : rows \in DayRows},
    today <- Len(sessions["QQQ"]),
    last <- sessions["QQQ"][Len(sessions["QQQ"])],
    standing <- Standing(sessions["QQQ"])
Spy == INSTANCE DistributionLedger WITH
    LedgerRows <- {rows["SPY"] : rows \in DayRows},
    today <- Len(sessions["SPY"]),
    last <- sessions["SPY"][Len(sessions["SPY"])],
    standing <- Standing(sessions["SPY"])

\* A trader who keeps the list by hand has the days that a run finds active
\* (enrich_records, over a window whose every index moved by one since yesterday).
KeepsLedger == Qqq!LedgerSpec /\ Spy!LedgerSpec

\* What a run said of a removed day, a later run says again while it still sees the
\* day: the same reason and the same session of recovery (_find_invalidation_event).
RemovalStands ==
    [][\A i \in Funds :
        LET was == Recent(sessions[i])
            is  == Recent(sessions'[i])
        IN  \A k \in Detected(was) :
                Status(was, k) # "active" /\ k + 1 \in Detected(is) =>
                    /\ Status(is, k + 1) = Status(was, k)
                    /\ Status(was, k) = "invalidated" =>
                        FirstCrossing(is, k + 1) = FirstCrossing(was, k) + 1]_monitorVars

\* Of two runs that report, the later asks for a smaller position only if a fund had a
\* distribution day since, fell below its averages, or did not load before: days that
\* only age, and a fund that does not load, never raise the risk (combine_index_risks).
CutsOnlyOnDistribution ==
    [][(/\ sessions' # sessions /\ Reports(averages) /\ Reports(averages')
        /\ Exposure(sessions', averages') < Exposure(sessions, averages)) =>
        \E i \in DOMAIN averages' :
            \/ 0 \in Detected(Recent(sessions'[i]))
            \/ i \notin DOMAIN averages
            \/ averages'[i] = "yes" /\ averages[i] # "yes"]_monitorVars
=============================================================================
