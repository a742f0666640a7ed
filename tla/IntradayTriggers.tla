--------------------------- MODULE IntradayTriggers ---------------------------
(***************************************************************************)
(* Phase 3 of skills/parabolic-short-trade-planner: every few minutes      *)
(* monitor_intraday_trigger.py folds three state machines over the session *)
(* so far, one per entry plan of a ticker, and keeps the outcome in a file *)
(* per plan, which it reads again only when the feed returns no bars.      *)
(*                                                                         *)
(* Prices are in units of the entry offset (0.05).  A time is the number   *)
(* of a bar in the session, 0 where the code has None.                     *)
(***************************************************************************)
EXTENDS Integers, Sequences

CONSTANTS
    BarKinds,  \* what five minutes may bring
    MaxBars,   \* bound: the length of the session
    Cushion,   \* stop_buffer_atr * atr_14
    NoFile,    \* there is no state file
    Torn       \* the state file was cut off while it was written

FiveMinutes == [o : Nat, h : Nat, l : Nat, c : Nat, v : Nat]

Offset == 1  \* ENTRY_OFFSET_BELOW_...

TriggerStates == {"armed", "red_marked", "first_crack_seen", "vwap_retest_seen",
                  "rejection_confirmed", "triggered", "invalidated"}

\* What a state file holds of a plan.
Saved == [state : TriggerStates, marks : {<< >>}, triggered : 0..MaxBars,
          invalidated : 0..MaxBars, entry : Int, stop : Int]

\* The screener takes no stock below min_price_usd, which is a hundred offsets.
ASSUME IntradayAssumption ==
    /\ BarKinds \subseteq FiveMinutes
    /\ \A b \in BarKinds : b.l <= b.o /\ b.o <= b.h /\ b.l <= b.c /\ b.c <= b.h
    /\ \A b \in BarKinds : b.l > Offset
    /\ MaxBars \in Nat /\ Cushion \in Nat
    /\ NoFile # Torn /\ {NoFile, Torn} \cap Saved = {}

VARIABLES
    session,    \* the confirmed bars of the day
    anchored,   \* the daily ATR is known and the session begins with the 09:30 bar
    stateFile   \* plan -> what was last saved for it; a run's report repeats that

intradayVars == <<session, anchored, stateFile>>

\* One plan of each type, in the order in which a run goes through them.
Plans == <<"orl_5min_break", "first_red_5min", "vwap_fail">>

\* A state machine's outcome; marks are the bars it keeps beside it.
Armed == [state |-> "armed", marks |-> << >>, triggered |-> 0, invalidated |-> 0,
          entry |-> 0, stop |-> 0]
Marked(s, state, i) == [s EXCEPT !.state = state, !.marks = Append(@, i)]
Triggered(s, i, entry, stop) ==
    [s EXCEPT !.state = "triggered", !.triggered = i, !.entry = entry, !.stop = stop]
Invalidated(s, i) == [s EXCEPT !.state = "invalidated", !.invalidated = i]

-----------------------------------------------------------------------------
\* vwap_for_each_bar, through bar i, is Turnover / Traded; while nothing was traded
\* it echoes the close, which is then neither above nor below it.
Traded(b, i)   == LET v[j \in 0..i] == IF j = 0 THEN 0 ELSE v[j - 1] + b[j].v IN v[i]
Turnover(b, i) ==
    LET pv[j \in 0..i] == IF j = 0 THEN 0 ELSE pv[j - 1] + b[j].c * b[j].v IN pv[i]
AboveVwap(b, i) == b[i].c * Traded(b, i) > Turnover(b, i)
BelowVwap(b, i) == b[i].c * Traded(b, i) < Turnover(b, i)

SessionHigh(b, i) ==
    LET highs == {b[j].h : j \in 1..i}
    IN  CHOOSE h \in highs : \A g \in highs : g <= h

\* MUTANT of OrlStep: the stop follows the session's high after the trigger.
OrlTrailing(b, s, i) ==
    CASE s.state = "armed" /\ b[i].c < b[1].l /\ 10 * b[i].v >= 12 * b[1].v ->
             Triggered(s, i, b[i].c - Offset, SessionHigh(b, i) + Cushion)
      [] s.state = "triggered" /\ b[i].c > b[1].l /\ AboveVwap(b, i) -> Invalidated(s, i)
      [] s.state = "triggered" -> [s EXCEPT !.stop = SessionHigh(b, i) + Cushion]
      [] OTHER -> s

\* orl_evaluator: the first bar is the opening range.
OrlStep(b, s, i) ==
    CASE s.state = "armed" /\ b[i].c < b[1].l /\ 10 * b[i].v >= 12 * b[1].v ->
             Triggered(s, i, b[i].c - Offset, SessionHigh(b, i) + Cushion)
      [] s.state = "triggered" /\ b[i].c > b[1].l /\ AboveVwap(b, i) -> Invalidated(s, i)
      [] OTHER -> s

\* first_red_evaluator: if one bar takes out both ends of the red bar, the setup failed.
FirstRedStep(b, s, i) ==
    IF s.state = "armed" THEN IF b[i].c < b[i].o THEN Marked(s, "red_marked", i) ELSE s
    ELSE LET red == b[s.marks[1]]
         IN  CASE s.state # "invalidated" /\ b[i].h > red.h -> Invalidated(s, i)
               [] s.state = "red_marked" /\ b[i].h <= red.h /\ b[i].l < red.l ->
                      Triggered(s, i, red.l - Offset, red.h)
               [] OTHER -> s

\* vwap_fail_evaluator: a crack below the VWAP from the high of the day, a close
\* back at or above it, a lower high that closes below it, and a low under that bar.
VwapFailStep(b, s, i) ==
    CASE s.state = "armed" /\ BelowVwap(b, i) /\ SessionHigh(b, i - 1) > b[i].c ->
             [s EXCEPT !.state = "first_crack_seen"]
      [] s.state = "first_crack_seen" /\ ~BelowVwap(b, i) -> Marked(s, "vwap_retest_seen", i)
      [] s.state = "vwap_retest_seen" /\ b[i].h < b[s.marks[1]].h /\ BelowVwap(b, i) ->
             Marked(s, "rejection_confirmed", i)
      [] s.state = "rejection_confirmed" /\ b[i].l < b[s.marks[2]].l ->
             Triggered(s, i, b[s.marks[2]].l - Offset, b[s.marks[1]].h)
      [] s.state = "triggered" /\ AboveVwap(b, i) -> Invalidated(s, i)
      [] OTHER -> s

\* evaluate of each: from the session's first bar on, whatever an earlier run said.
\* For two of them the first bar only sets the scene.
Orl(b) ==
    LET s[i \in 1..Len(b)] == IF i = 1 THEN Armed ELSE OrlStep(b, s[i - 1], i) IN s[Len(b)]
FirstRed(b) ==
    LET s[i \in 0..Len(b)] == IF i = 0 THEN Armed ELSE FirstRedStep(b, s[i - 1], i)
    IN  s[Len(b)]
VwapFail(b) ==
    LET s[i \in 1..Len(b)] == IF i = 1 THEN Armed ELSE VwapFailStep(b, s[i - 1], i)
    IN  s[Len(b)]

\* step_one_plan: the opening range needs the ATR and the 09:30 bar.
StepOnePlan(plan, b) ==
    CASE plan = "orl_5min_break" -> IF anchored THEN Orl(b) ELSE Armed
      [] plan = "first_red_5min" -> FirstRed(b)
      [] plan = "vwap_fail"      -> VwapFail(b)

\* resolve_shares raises for anything else, which would end the run; SignalStands
\* says that it never has to.
Sizable(s) == s.entry > 0 /\ s.stop > s.entry

\* _no_bars_state: what was saved is carried forward.
NoBars(plan) == IF stateFile[plan] \in {NoFile, Torn} THEN Armed ELSE stateFile[plan]

-----------------------------------------------------------------------------
IntradayInit ==
    /\ session = << >>
    /\ anchored \in BOOLEAN
    /\ stateFile = [p \in 1..Len(Plans) |-> NoFile]

NewBar(bar) ==
    /\ Len(session) < MaxBars
    /\ session' = Append(session, bar)
    /\ UNCHANGED <<anchored, stateFile>>

\* main goes through the plans, with the session so far or, if the feed returned
\* nothing, without bars.  (The marks are saved as well, but never read.)
Outcome(p, bars) ==
    IF bars THEN [StepOnePlan(Plans[p], session) EXCEPT !.marks = << >>] ELSE NoBars(p)

Monitor(bars) ==
    /\ bars => session # << >>
    /\ stateFile' = [p \in 1..Len(Plans) |-> Outcome(p, bars)]
    /\ UNCHANGED <<session, anchored>>

\* main is killed while it saves plan k; write_text has emptied the file.
MonitorKilled(bars, k) ==
    /\ bars => session # << >>
    /\ stateFile' = [p \in 1..Len(Plans) |-> IF p < k THEN Outcome(p, bars)
                                            ELSE IF p = k THEN Torn ELSE stateFile[p]]
    /\ UNCHANGED <<session, anchored>>

IntradayNext ==
    \/ \E bar \in BarKinds : NewBar(bar)
    \/ \E bars \in BOOLEAN : Monitor(bars)
    \/ \E bars \in BOOLEAN, k \in 1..Len(Plans) : MonitorKilled(bars, k)

IntradaySpec == IntradayInit /\ [][IntradayNext]_intradayVars

-----------------------------------------------------------------------------
IntradayTypeOK ==
    /\ session \in Seq(FiveMinutes)
    /\ anchored \in BOOLEAN
    /\ \A p \in DOMAIN stateFile :
          \/ stateFile[p] \in {NoFile, Torn}
          \/ /\ stateFile[p].state \in TriggerStates
             /\ stateFile[p].triggered \in 0..Len(session)
             /\ stateFile[p].invalidated \in 0..Len(session)

Whole(file) == file \notin {NoFile, Torn}

\* A signal stands: once a plan is saved as triggered, no later run, with more bars
\* or with none, moves the time, the entry or the stop it gave, or saves it as
\* untriggered; an invalidated plan stays invalidated; and the shares of a triggered
\* plan can be computed, the stop being above the entry.  (Between two runs that left
\* its file whole: an outage after a torn save shows the plan as armed.)
SignalStands ==
    [][\A p \in DOMAIN stateFile :
          LET old == stateFile[p]
              new == stateFile'[p]
          IN  /\ (Whole(new) /\ new.state = "triggered") => Sizable(new)
              /\ (Whole(old) /\ Whole(new) /\ old.triggered # 0) =>
                     /\ new.triggered = old.triggered
                     /\ new.entry = old.entry
                     /\ new.stop = old.stop
              /\ (Whole(old) /\ Whole(new) /\ old.state = "invalidated") =>
                     /\ new.state = "invalidated"
                     /\ new.invalidated = old.invalidated]_intradayVars
=============================================================================
