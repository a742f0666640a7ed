---------------------------- MODULE CircuitBreaker ----------------------------
(***************************************************************************)
(* skills/drawdown-circuit-breaker/scripts/check_circuit_breaker.py over   *)
(* the thesis files: the realized losses of the day, the week and the      *)
(* month and the run of losing closes decide whether new risk may be       *)
(* taken, and until when not.  Every evaluation starts from the files; no  *)
(* halt is remembered, so that it lasts until the time it names is a       *)
(* matter of its windows and the calendar.                                 *)
(*                                                                         *)
(* A time is Slots * day + slot; slot 0 is midnight, where the code puts   *)
(* what was booked with a date only.                                       *)
(***************************************************************************)
EXTENDS Integers, Sequences, FiniteSets, FiniteSetsExt

CONSTANTS
    Theses,       \* 1, 2, and so on in the order of their tickers
    Amounts,      \* what a leg may realize
    LastDay,      \* bound: the days are 1..LastDay
    SessionDays,  \* those with a session
    Mondays, Firsts,        \* the first days of the weeks and of the months
    DailyLoss, WeeklyLoss, MonthlyLoss,  \* the limits, as amounts
    LosingStreak, Cooldown, \* losing_streak_n, and cooldown_hours in slots
    MaxLegs,                \* bound: legs booked in all
    Fragile                 \* bound: the theses whose file may be damaged

Slots == 3  \* midnight, before and after the session

ASSUME BreakerAssumption ==
    /\ IsFiniteSet(Theses) /\ Theses = 1..Cardinality(Theses)
    /\ Fragile \subseteq Theses
    /\ Amounts \subseteq Int /\ LastDay \in Nat /\ MaxLegs \in Nat
    /\ SessionDays \subseteq 1..LastDay /\ SessionDays # {}
    /\ Mondays \subseteq Int /\ Firsts \subseteq Int
    /\ \E m \in Mondays, f \in Firsts : m <= 1 /\ f <= 1
    /\ \A limit \in {DailyLoss, WeeklyLoss, MonthlyLoss, LosingStreak, Cooldown} :
           limit \in Nat \ {0}

VARIABLES
    thesis,   \* thesis -> its legs, when it was closed, and whether it can be read
    now,      \* as_of
    decision  \* rule -> its active_until, for the rules that hold

breakerVars == <<thesis, now, decision>>

Open     == -1  \* no exit date
Rejected == -2  \* invalidated without having been entered, hence without P&L
Closed(th) == th.exit >= 0

Day(t)      == t \div Slots
Midnight(d) == Slots * d
Latest(S)   == Max(S)
Earliest(S) == Min(S)

WeekStart(d)  == Latest({m \in Mondays : m <= d})
MonthStart(d) == Latest({m \in Firsts : m <= d})

\* The first session from d on, the first one of the next week (_next_monday) and
\* of the next month; past the last day they are the day after.
SessionFrom(d) == Earliest({s \in SessionDays : s >= d} \cup {LastDay + 1})
NextSession(d) == SessionFrom(d + 1)
NextWeek(d)    == SessionFrom(Earliest({m \in Mondays : m > d} \cup {LastDay + 1}))
NextMonth(d)   == SessionFrom(Earliest({m \in Firsts : m > d} \cup {LastDay + 1}))

-----------------------------------------------------------------------------
\* load_theses leaves out a file that cannot be read.
Readable(th) == {t \in Theses : th[t].readable}

\* _finite_sum
Total(s) ==
    LET sum[k \in 0..Len(s)] == IF k = 0 THEN 0 ELSE sum[k - 1] + s[k]
    IN  sum[Len(s)]

\* _sum_realized_between: the legs of the days from first to that of t, up to t.
InPeriod(leg, first, t) == leg.at <= t /\ Day(leg.at) \in first..Day(t)
RealizedOf(legs, first, t) ==
    Total([k \in 1..Len(legs) |-> IF InPeriod(legs[k], first, t) THEN legs[k].pnl ELSE 0])
Realized(th, first, t) ==
    Total([i \in 1..Cardinality(Theses) |->
              IF i \in Readable(th) THEN RealizedOf(th[i].legs, first, t) ELSE 0])

\* outcome.pnl_dollars
Pnl(th, i) == Total([k \in 1..Len(th[i].legs) |-> th[i].legs[k].pnl])

\* collect_terminal_results, as of t, in the order of exit and ticker.
Results(th, t) == {i \in Readable(th) : Closed(th[i]) /\ th[i].exit <= t}
After(th, i, j) == th[i].exit > th[j].exit \/ (th[i].exit = th[j].exit /\ i > j)

\* _consecutive_losses: the losing ones after the last that was not.
LosingRun(th, t) ==
    {i \in Results(th, t) : \A j \in Results(th, t) :
        (j = i \/ After(th, j, i)) => Pnl(th, j) < 0}

\* A terminal thesis without P&L is a warning that blocks, as is an unreadable file.
Incomplete(th) == \E i \in Theses : ~th[i].readable \/ th[i].exit = Rejected

Never == 0  \* active_until of a rule that does not hold
Halt(realized, limit, until) == IF realized <= -limit THEN Midnight(until) ELSE Never

\* MUTANT of WeeklyHalt: the week's losses are counted from the first of the month.
WeeklyFromFirst(th, t) ==
    Halt(Realized(th, MonthStart(Day(t)), t), WeeklyLoss, NextWeek(Day(t)))

\* weekly_drawdown_halt
WeeklyHalt(th, t) ==
    Halt(Realized(th, WeekStart(Day(t)), t), WeeklyLoss, NextWeek(Day(t)))

\* losing_streak_cooldown, from the last of the losing exits.
StreakCooldown(th, t) ==
    LET run == LosingRun(th, t)
        ends == Latest({th[i].exit : i \in run}) + Cooldown
    IN  IF Cardinality(run) >= LosingStreak /\ t < ends THEN ends ELSE Never

EvaluateCircuitBreaker(th, t) ==
    [daily   |-> Halt(Realized(th, Day(t), t), DailyLoss, NextSession(Day(t))),
     streak  |-> StreakCooldown(th, t),
     weekly  |-> WeeklyHalt(th, t),
     monthly |-> Halt(Realized(th, MonthStart(Day(t)), t), MonthlyLoss, NextMonth(Day(t))),
     incomplete |-> Incomplete(th)]

Until(dec)   == Latest({dec.daily, dec.streak, dec.weekly, dec.monthly})
Blocked(dec) == Until(dec) # Never \/ dec.incomplete  \* COOLDOWN or HALTED

-----------------------------------------------------------------------------
BreakerInit ==
    /\ thesis = [i \in Theses |-> [legs |-> << >>, exit |-> Open, readable |-> TRUE]]
    /\ now = Slots * Earliest(SessionDays) + 1
    /\ decision = EvaluateCircuitBreaker(thesis, now)

Reevaluate == decision' = EvaluateCircuitBreaker(thesis', now')

\* The next evaluation is before or after a session.
Advance ==
    LET times == {t \in now + 1..Slots * LastDay + 2 : Day(t) \in SessionDays /\ t % Slots # 0}
    IN  /\ times # {}
        /\ now' = Earliest(times)
        /\ UNCHANGED thesis
        /\ Reevaluate

\* The times an exit may be given: now, or the date of today or yesterday.  Of a leg
\* the day counts.
Stated == {now, Midnight(Day(now)), Midnight(Day(now) - 1)}
LegStated == {now, Midnight(Day(now) - 1)}
Booked == Total([i \in 1..Cardinality(Theses) |-> Len(thesis[i].legs)])
CanBook(i) == thesis[i].exit = Open /\ thesis[i].readable /\ Booked < MaxLegs
WithLeg(i, pnl, at) == Append(thesis[i].legs, [pnl |-> pnl, at |-> at])

\* trim dates its leg.
TrimThesis(i, pnl, at) ==
    /\ CanBook(i)
    /\ thesis' = [thesis EXCEPT ![i].legs = WithLeg(i, pnl, at)]
    /\ UNCHANGED now
    /\ Reevaluate

\* close, or a trim of the rest: the exit is dated, and so may its leg be (event_date).
CloseThesis(i, pnl, at, exit) ==
    /\ CanBook(i)
    /\ thesis' = [thesis EXCEPT ![i].legs = WithLeg(i, pnl, at), ![i].exit = exit]
    /\ UNCHANGED now
    /\ Reevaluate

\* An idea is invalidated.
Reject(i) ==
    /\ CanBook(i) /\ thesis[i].legs = << >>
    /\ thesis' = [thesis EXCEPT ![i].exit = Rejected]
    /\ UNCHANGED now
    /\ Reevaluate

\* A file is damaged, or repaired.
Damage(i) ==
    /\ thesis[i].readable
    /\ thesis' = [thesis EXCEPT ![i].readable = FALSE]
    /\ UNCHANGED now
    /\ Reevaluate

Repair(i) ==
    /\ ~thesis[i].readable
    /\ thesis' = [thesis EXCEPT ![i].readable = TRUE]
    /\ UNCHANGED now
    /\ Reevaluate

BreakerNext ==
    \/ Advance
    \/ \E i \in Theses :
          \/ \E pnl \in Amounts, at \in LegStated :
                \/ TrimThesis(i, pnl, at)
                \/ \E exit \in Stated : CloseThesis(i, pnl, at, exit)
          \/ Reject(i)
          \/ i \in Fragile /\ Damage(i)
          \/ Repair(i)

BreakerSpec == BreakerInit /\ [][BreakerNext]_breakerVars

-----------------------------------------------------------------------------
BreakerTypeOK ==
    /\ \A i \in Theses :
          /\ thesis[i].legs \in Seq([pnl : Amounts, at : Nat])
          /\ thesis[i].exit \in Int /\ thesis[i].readable \in BOOLEAN
    /\ Day(now) \in SessionDays
    /\ Until(decision) \in Nat /\ decision.incomplete \in BOOLEAN

\* What speaks for the trader again: a gain, a close that did not lose, or a file
\* repaired.
Relief ==
    \E i \in Theses :
       \/ /\ Len(thesis'[i].legs) > Len(thesis[i].legs)
          /\ \/ thesis'[i].legs[Len(thesis'[i].legs)].pnl > 0
             \/ Closed(thesis'[i]) /\ Pnl(thesis', i) >= 0
       \/ thesis'[i].readable /\ ~thesis[i].readable

\* A halt lasts as long as it says: whatever else is booked, dated back or damaged,
\* no evaluation at a session before the latest active_until of the one before allows
\* new risk, unless a gain, a close without loss or a repair came between.
HaltHolds ==
    [][(Blocked(decision) /\ now' < Until(decision) /\ ~Relief) =>
           Blocked(decision')]_breakerVars
=============================================================================
