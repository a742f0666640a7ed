----------------------------- MODULE HistoryProofs -----------------------------
(***************************************************************************)
(* What a decision made from the whole history says of the one made from a *)
(* shorter history.  For sessions of any length and bars of any kind, a    *)
(* trigger that was given stands; for histories of any length, a confirmed *)
(* follow-through day stays confirmed; for any legs and exits, a halt of   *)
(* the circuit breaker lasts as long as it says; for histories of any      *)
(* length, the active distribution days are those of a list kept by hand.  *)
(*                                                                         *)
(* The evaluators fold over the session, and the breaker adds up amounts.  *)
(* Facts about all values of such a function are proved by induction,      *)
(* which is stated here for sets, not for predicates, and obtained from    *)
(* the well-founded order of finite sets.                                  *)
(***************************************************************************)
EXTENDS IntradayTriggers, FollowThrough, CircuitBreaker, DistributionDays, FiniteSetTheorems,
        TLAPS

(***************************************************************************)
(* Induction, and functions defined by recursion on an interval.           *)
(***************************************************************************)

\* A set of numbers that has 0, and the successor of what it has, has them all.
LEMMA SetInduction ==
    ASSUME NEW T \in SUBSET Nat, 0 \in T, \A n \in T : n + 1 \in T
    PROVE  T = Nat
<1> DEFINE U == Nat \ T
           F == {0..k : k \in U}
<1> SUFFICES ASSUME U # {} PROVE FALSE
  OBVIOUS
<1>1. IsWellFoundedOn(StrictSubsetOrdering(Nat), FiniteSubsetsOf(Nat))
  BY FS_StrictSubsetOrderingWellFounded
<1>2. F \subseteq FiniteSubsetsOf(Nat)
  <2> SUFFICES ASSUME NEW k \in U PROVE 0..k \in FiniteSubsetsOf(Nat)
    OBVIOUS
  <2>1. IsFiniteSet(0..k)
    BY FS_Interval
  <2>2. 0..k \subseteq Nat
    OBVIOUS
  <2>3. QED BY <2>1, <2>2 DEF FiniteSubsetsOf
<1>3. F # {}
  OBVIOUS
<1>4. PICK x \in F : \A y \in F : ~ (<<y, x>> \in StrictSubsetOrdering(Nat))
  <2> HIDE DEF F
  <2>1. QED BY <1>1, <1>2, <1>3, WFMin
<1>5. PICK k \in U : x = 0..k
  OBVIOUS
<1>6. k # 0 /\ k \in Nat /\ k - 1 \in Nat
  OBVIOUS
<1>7. <<0..(k - 1), x>> \in StrictSubsetOrdering(Nat)
  <2>1. k \in x /\ k \notin 0..(k - 1)
    BY <1>5, <1>6
  <2>2. 0..(k - 1) \subseteq x /\ 0..(k - 1) # x
    BY <2>1, <1>5, <1>6
  <2>3. QED BY <2>2, <1>5, <1>6 DEF StrictSubsetOrdering
<1>8. k - 1 \in T
  BY <1>4, <1>6, <1>7
<1>9. QED BY <1>6, <1>8

\* The same on an interval.
LEMMA IntervalInduction ==
    ASSUME NEW lo \in Nat, NEW n \in Nat, NEW S,
           lo \in S, \A i \in lo..(n - 1) : i \in S => i + 1 \in S
    PROVE  lo..n \subseteq S
<1> DEFINE T == {k \in Nat : lo + k <= n => lo + k \in S}
<1>1. 0 \in T
  OBVIOUS
<1>2. ASSUME NEW k \in T PROVE k + 1 \in T
  <2> SUFFICES ASSUME lo + (k + 1) <= n PROVE lo + (k + 1) \in S
    OBVIOUS
  <2>1. lo + k \in lo..(n - 1) /\ lo + k \in S
    OBVIOUS
  <2>2. (lo + k) + 1 \in S
    BY <2>1
  <2>3. (lo + k) + 1 = lo + (k + 1)
    OBVIOUS
  <2>4. QED BY <2>2, <2>3
<1>3. T = Nat
  <2> HIDE DEF T
  <2>1. T \subseteq Nat
    BY DEF T
  <2>2. QED BY <1>1, <1>2, <2>1, SetInduction
<1>4. SUFFICES ASSUME NEW i \in lo..n PROVE i \in S
  OBVIOUS
<1>5. i - lo \in Nat /\ lo + (i - lo) = i
  OBVIOUS
<1>6. i - lo \in T
  BY <1>3, <1>5
<1>7. QED BY <1>5, <1>6

\* The step takes the value at i - 1, and i, to the value at i.
ClosedUnder(V, lo, n, step) == \A x \in V, i \in (lo + 1)..n : step[<<x, i>>] \in V
Follows(g, a, lo, n, step) ==
    \A i \in lo..n : g[i] = IF i = lo THEN a ELSE step[<<g[i - 1], i>>]

\* A step that keeps to a set of values has a function that follows it from lo to n.
LEMMA RecursionExists ==
    ASSUME NEW V, NEW a \in V, NEW lo \in Nat, NEW n \in Nat, lo <= n,
           NEW step, ClosedUnder(V, lo, n, step)
    PROVE  \E g \in [lo..n -> V] : Follows(g, a, lo, n, step)
<1> DEFINE Starts(g, m) == Follows(g, a, lo, m, step)
           S == {m \in lo..n : \E g \in [lo..m -> V] : Starts(g, m)}
<1>1. lo \in S
  <2> DEFINE f == [i \in lo..lo |-> a]
  <2>1. f \in [lo..lo -> V] /\ Starts(f, lo)
    BY DEF Follows
  <2> HIDE DEF f
  <2>2. lo \in lo..n /\ \E g \in [lo..lo -> V] : Starts(g, lo)
    BY <2>1
  <2> HIDE DEF Starts
  <2>3. QED BY <2>2
<1>2. ASSUME NEW m \in lo..(n - 1), m \in S PROVE m + 1 \in S
  <2>1. PICK g \in [lo..m -> V] : Starts(g, m)
    BY <1>2
  <2> DEFINE h == [i \in lo..(m + 1) |-> IF i = m + 1 THEN step[<<g[m], m + 1>>] ELSE g[i]]
  <2>2. h \in [lo..(m + 1) -> V]
    <3>1. step[<<g[m], m + 1>>] \in V
      BY <2>1 DEF ClosedUnder
    <3>2. QED BY <3>1
  <2>3. \A i \in lo..m : h[i] = g[i]
    OBVIOUS
  <2>4. h[m + 1] = step[<<h[m], m + 1>>]
    <3>1. m + 1 \in lo..(m + 1) /\ m \in lo..m
      OBVIOUS
    <3>2. h[m + 1] = step[<<g[m], m + 1>>]
      BY <3>1
    <3>3. QED BY <2>3, <3>1, <3>2
  <2>5. ASSUME NEW i \in lo..(m + 1)
        PROVE  h[i] = IF i = lo THEN a ELSE step[<<h[i - 1], i>>]
    <3> HIDE DEF h
    <3>1. CASE i = m + 1
      <4>1. i # lo /\ i - 1 = m
        BY <3>1
      <4>2. QED BY <2>4, <3>1, <4>1
    <3>2. CASE i \in lo..m /\ i = lo
      BY <2>1, <2>3, <3>2 DEF Follows
    <3>3. CASE i \in lo..m /\ i # lo
      <4>1. i - 1 \in lo..m
        BY <3>3
      <4>2. g[i] = step[<<g[i - 1], i>>]
        BY <2>1, <3>3 DEF Follows
      <4>3. QED BY <2>3, <3>3, <4>1, <4>2
    <3>4. QED BY <3>1, <3>2, <3>3
  <2>6. m + 1 \in lo..n
    BY <1>2
  <2> HIDE DEF h
  <2>7. Starts(h, m + 1)
    BY <2>5 DEF Follows
  <2>8. QED BY <2>2, <2>6, <2>7
<1>3. n \in S
  <2> HIDE DEF S
  <2>1. lo..n \subseteq S
    BY <1>1, <1>2, IntervalInduction
  <2>2. QED BY <2>1
<1>4. QED BY <1>3

-----------------------------------------------------------------------------
(***************************************************************************)
(* What the evaluators keep.                                               *)
(***************************************************************************)

\* b2 is b with more bars.
Continues(b2, b) == Len(b) <= Len(b2) /\ \A i \in 1..Len(b) : b2[i] = b[i]

\* What an evaluator says of n bars: a plan it triggers has a stop above its entry, and
\* no trigger is given in the states before.
OutcomeRecords(n) == [state : TriggerStates, marks : Seq(1..n), triggered : 0..n,
                      invalidated : 0..n, entry : Int, stop : Int]
Outcomes(n) ==
    {s \in OutcomeRecords(n) :
        /\ s.state = "triggered" => s.triggered # 0 /\ Sizable(s)
        /\ s.state \notin {"triggered", "invalidated"} => s.triggered = 0}

\* The red bar is known from the moment it is marked.
FirstRedOutcomes(b) == {s \in Outcomes(Len(b)) : s.state # "armed" => Len(s.marks) > 0}

\* The retest bar and then the lower high that was rejected.
VwapFailOutcomes(b) ==
    {s \in Outcomes(Len(b)) :
        /\ s.state \in {"armed", "first_crack_seen"} => s.marks = << >>
        /\ s.state = "vwap_retest_seen" => Len(s.marks) = 1
        /\ s.state = "rejection_confirmed" =>
              Len(s.marks) = 2 /\ b[s.marks[2]].h < b[s.marks[1]].h}

\* What may not be taken back: the trigger that was given, and the end of a plan.
Stands(old, new) ==
    /\ old.triggered # 0 =>
          new.triggered = old.triggered /\ new.entry = old.entry /\ new.stop = old.stop
    /\ old.state = "invalidated" =>
          new.state = "invalidated" /\ new.invalidated = old.invalidated

\* A bar of a session, as the screener lets it through.
LEMMA BarBounds ==
    ASSUME NEW b \in Seq(BarKinds), NEW i \in 1..Len(b)
    PROVE  /\ b[i] \in BarKinds
           /\ b[i].o \in Nat /\ b[i].h \in Nat /\ b[i].l \in Nat /\ b[i].c \in Nat
           /\ b[i].v \in Nat
           /\ b[i].l <= b[i].c /\ b[i].c <= b[i].h /\ b[i].l > Offset
<1>1. b[i] \in BarKinds
  OBVIOUS
<1>2. b[i] \in FiveMinutes
  BY <1>1, IntradayAssumption
<1>3. QED BY <1>1, <1>2, IntradayAssumption DEF FiveMinutes

\* The session's high is a high: no bar so far went above it.
LEMMA HighBounds ==
    ASSUME NEW b \in Seq(BarKinds), NEW i \in 1..Len(b)
    PROVE  SessionHigh(b, i) \in Nat /\ b[i].h <= SessionHigh(b, i)
<1> DEFINE Highs(k) == {b[j].h : j \in 1..k}
           S == {k \in 1..i : \E h \in Highs(k) : \A g \in Highs(k) : g <= h}
<1>1. 1 \in S
  <2>1. Highs(1) = {b[1].h} /\ b[1].h \in Nat
    BY BarBounds
  <2>2. QED BY <2>1
<1>2. ASSUME NEW k \in 1..(i - 1), k \in S PROVE k + 1 \in S
  <2>1. PICK h \in Highs(k) : \A g \in Highs(k) : g <= h
    BY <1>2
  <2>2. Highs(k + 1) = Highs(k) \cup {b[k + 1].h}
    OBVIOUS
  <2>3. k + 1 \in 1..Len(b) /\ b[k + 1].h \in Nat
    BY BarBounds
  <2>4. Highs(k) \subseteq Nat
    BY BarBounds
  <2> HIDE DEF Highs
  <2>5. CASE b[k + 1].h <= h
    BY <2>1, <2>2, <2>3, <2>4, <2>5
  <2>6. CASE ~ (b[k + 1].h <= h)
    <3>1. \A g \in Highs(k + 1) : g <= b[k + 1].h
      BY <2>1, <2>2, <2>3, <2>4, <2>6
    <3>2. b[k + 1].h \in Highs(k + 1)
      BY <2>2
    <3>3. k + 1 \in 1..i
      OBVIOUS
    <3>4. QED BY <3>1, <3>2, <3>3
  <2>7. QED BY <2>5, <2>6
<1>3. i \in S
  <2> HIDE DEF S
  <2>1. 1..i \subseteq S
    BY <1>1, <1>2, IntervalInduction
  <2>2. QED BY <2>1
<1>4. PICK h \in Highs(i) : \A g \in Highs(i) : g <= h
  BY <1>3
<1>5. SessionHigh(b, i) \in Highs(i) /\ \A g \in Highs(i) : g <= SessionHigh(b, i)
  BY <1>4 DEF SessionHigh
<1>6. b[i].h \in Highs(i)
  OBVIOUS
<1>7. Highs(i) \subseteq Nat
  BY BarBounds
<1> HIDE DEF Highs
<1>8. QED BY <1>5, <1>6, <1>7

\* The volume so far is a sum that follows its recursion (that there is a function that
\* does is what RecursionExists gives).
LEMMA TradedSum ==
    ASSUME NEW b \in Seq(BarKinds), NEW i \in 0..Len(b)
    PROVE  \E g : /\ \A j \in 0..i : g[j] = IF j = 0 THEN 0 ELSE g[j - 1] + b[j].v
                  /\ Traded(b, i) = g[i]
<1> DEFINE P(g) == g = [j \in 0..i |-> IF j = 0 THEN 0 ELSE g[j - 1] + b[j].v]
           step == [q \in Nat \X (1..i) |-> q[1] + b[q[2]].v]
<1>1. \A x \in Nat, j \in (0 + 1)..i : step[<<x, j>>] = x + b[j].v /\ step[<<x, j>>] \in Nat
  BY BarBounds
<1>2. PICK f \in [0..i -> Nat] : Follows(f, 0, 0, i, step)
  <2>1. ClosedUnder(Nat, 0, i, step)
    BY <1>1 DEF ClosedUnder
  <2>2. 0 \in Nat /\ i \in Nat /\ 0 <= i
    OBVIOUS
  <2> HIDE DEF step
  <2>3. QED BY <2>1, <2>2, RecursionExists, Zenon
<1>3. P(f)
  <2> HIDE DEF step
  <2>1. ASSUME NEW j \in 0..i PROVE f[j] = IF j = 0 THEN 0 ELSE f[j - 1] + b[j].v
    <3>1. CASE j = 0
      BY <1>2, <3>1 DEF Follows
    <3>2. CASE j # 0
      <4>1. j - 1 \in 0..i /\ j \in (0 + 1)..i
        BY <3>2
      <4>2. f[j - 1] \in Nat
        BY <4>1
      <4>3. QED BY <1>1, <1>2, <3>2, <4>1, <4>2 DEF Follows
    <3>3. QED BY <3>1, <3>2
  <2>2. QED BY <2>1
<1>4. P(CHOOSE g : P(g))
  <2> HIDE DEF P
  <2>1. QED BY <1>3
<1>5. Traded(b, i) = (CHOOSE g : P(g))[i]
  BY Zenon DEF Traded
<1>6. QED BY <1>4, <1>5

\* So is what was paid for it.
LEMMA TurnoverSum ==
    ASSUME NEW b \in Seq(BarKinds), NEW i \in 0..Len(b)
    PROVE  \E g : /\ \A j \in 0..i : g[j] = IF j = 0 THEN 0 ELSE g[j - 1] + b[j].c * b[j].v
                  /\ Turnover(b, i) = g[i]
<1> DEFINE P(g) == g = [j \in 0..i |-> IF j = 0 THEN 0 ELSE g[j - 1] + b[j].c * b[j].v]
           step == [q \in Nat \X (1..i) |-> q[1] + b[q[2]].c * b[q[2]].v]
<1>1. ASSUME NEW x \in Nat, NEW j \in (0 + 1)..i
      PROVE  step[<<x, j>>] = x + b[j].c * b[j].v /\ step[<<x, j>>] \in Nat
  <2>1. b[j].c \in Nat /\ b[j].v \in Nat
    BY BarBounds
  <2>2. b[j].c * b[j].v \in Nat
    BY <2>1
  <2>3. step[<<x, j>>] = x + b[j].c * b[j].v
    OBVIOUS
  <2>4. QED BY <2>2, <2>3
<1>2. PICK f \in [0..i -> Nat] : Follows(f, 0, 0, i, step)
  <2>1. ClosedUnder(Nat, 0, i, step)
    BY <1>1 DEF ClosedUnder
  <2>2. 0 \in Nat /\ i \in Nat /\ 0 <= i
    OBVIOUS
  <2> HIDE DEF step
  <2>3. QED BY <2>1, <2>2, RecursionExists, Zenon
<1>3. P(f)
  <2> HIDE DEF step
  <2>1. ASSUME NEW j \in 0..i
        PROVE  f[j] = IF j = 0 THEN 0 ELSE f[j - 1] + b[j].c * b[j].v
    <3>1. CASE j = 0
      BY <1>2, <3>1 DEF Follows
    <3>2. CASE j # 0
      <4>1. j - 1 \in 0..i /\ j \in (0 + 1)..i
        BY <3>2
      <4>2. f[j - 1] \in Nat
        BY <4>1
      <4>3. QED BY <1>1, <1>2, <3>2, <4>1, <4>2 DEF Follows
    <3>3. QED BY <3>1, <3>2
  <2>2. QED BY <2>1
<1>4. P(CHOOSE g : P(g))
  <2> HIDE DEF P
  <2>1. QED BY <1>3
<1>5. Turnover(b, i) = (CHOOSE g : P(g))[i]
  BY Zenon DEF Turnover
<1>6. QED BY <1>4, <1>5

\* What is read off the bars through bar i does not depend on the bars that follow.
LEMMA ReadingsStand ==
    ASSUME NEW b \in Seq(BarKinds), NEW b2 \in Seq(BarKinds), Continues(b2, b),
           NEW i \in 0..Len(b)
    PROVE  /\ Traded(b2, i) = Traded(b, i)
           /\ Turnover(b2, i) = Turnover(b, i)
           /\ SessionHigh(b2, i) = SessionHigh(b, i)
<1>1. Len(b) \in Nat /\ Len(b2) \in Nat /\ i \in 0..Len(b2) /\ i \in Nat
  BY DEF Continues
<1>2. \A j \in 1..i : b2[j] = b[j]
  BY <1>1 DEF Continues
<1>3. Traded(b2, i) = Traded(b, i)
  <2>1. PICK g : /\ \A j \in 0..i : g[j] = IF j = 0 THEN 0 ELSE g[j - 1] + b[j].v
                 /\ Traded(b, i) = g[i]
    BY TradedSum
  <2>2. PICK g2 : /\ \A j \in 0..i : g2[j] = IF j = 0 THEN 0 ELSE g2[j - 1] + b2[j].v
                  /\ Traded(b2, i) = g2[i]
    BY <1>1, TradedSum
  <2> DEFINE S == {j \in 0..i : g2[j] = g[j]}
  <2>3. 0 \in S
    BY <2>1, <2>2, <1>1
  <2>4. ASSUME NEW j \in 0..(i - 1), j \in S PROVE j + 1 \in S
    <3>1. j + 1 \in 0..i /\ j + 1 \in 1..i /\ j + 1 # 0 /\ (j + 1) - 1 = j
      BY <1>1
    <3>2. QED BY <1>2, <2>1, <2>2, <2>4, <3>1
  <2>5. 0..i \subseteq S
    <3> HIDE DEF S
    <3>1. QED BY <1>1, <2>3, <2>4, IntervalInduction
  <2>6. QED BY <1>1, <2>1, <2>2, <2>5
<1>4. Turnover(b2, i) = Turnover(b, i)
  <2>1. PICK g : /\ \A j \in 0..i : g[j] = IF j = 0 THEN 0 ELSE g[j - 1] + b[j].c * b[j].v
                 /\ Turnover(b, i) = g[i]
    BY TurnoverSum
  <2>2. PICK g2 : /\ \A j \in 0..i :
                        g2[j] = IF j = 0 THEN 0 ELSE g2[j - 1] + b2[j].c * b2[j].v
                  /\ Turnover(b2, i) = g2[i]
    BY <1>1, TurnoverSum
  <2> DEFINE S == {j \in 0..i : g2[j] = g[j]}
  <2>3. 0 \in S
    BY <2>1, <2>2, <1>1
  <2>4. ASSUME NEW j \in 0..(i - 1), j \in S PROVE j + 1 \in S
    <3>1. j + 1 \in 0..i /\ j + 1 \in 1..i /\ j + 1 # 0 /\ (j + 1) - 1 = j
      BY <1>1
    <3>2. b2[j + 1] = b[j + 1] /\ g2[j] = g[j]
      BY <1>2, <2>4, <3>1
    <3>3. /\ g[j + 1] = g[(j + 1) - 1] + b[j + 1].c * b[j + 1].v
          /\ g2[j + 1] = g2[(j + 1) - 1] + b2[j + 1].c * b2[j + 1].v
      BY <2>1, <2>2, <3>1, Zenon
    <3>4. g2[j + 1] = g[j + 1]
      BY <3>1, <3>2, <3>3, Zenon
    <3>5. QED BY <3>1, <3>4
  <2>5. 0..i \subseteq S
    <3> HIDE DEF S
    <3>1. QED BY <1>1, <2>3, <2>4, IntervalInduction
  <2>6. QED BY <1>1, <2>1, <2>2, <2>5
<1>5. SessionHigh(b2, i) = SessionHigh(b, i)
  <2> DEFINE H(T) == CHOOSE h \in T : \A g \in T : g <= h
             A == {b[j].h : j \in 1..i}
             A2 == {b2[j].h : j \in 1..i}
  <2>1. A = A2
    BY <1>2
  <2>2. SessionHigh(b, i) = H(A) /\ SessionHigh(b2, i) = H(A2)
    BY Zenon DEF SessionHigh
  <2> HIDE DEF H, A, A2
  <2>3. QED BY <2>1, <2>2
<1>6. QED BY <1>3, <1>4, <1>5

\* Two runs of an evaluator that take the same steps through bar n, of which the second
\* takes nothing back in a step, end with the second standing by the first.
LEMMA FoldStands ==
    ASSUME NEW lo \in Nat, NEW n \in Nat, NEW m \in Nat, lo <= n, n <= m,
           NEW g, NEW h, g[lo] = h[lo],
           \A i \in lo..(n - 1) : g[i] = h[i] => g[i + 1] = h[i + 1],
           \A i \in n..(m - 1) : Stands(h[i], h[i + 1])
    PROVE  Stands(g[n], h[m])
<1> DEFINE S == {i \in lo..n : g[i] = h[i]}
           T == {i \in n..m : Stands(h[n], h[i])}
<1>1. g[n] = h[n]
  <2>1. lo \in S
    OBVIOUS
  <2>2. ASSUME NEW i \in lo..(n - 1), i \in S PROVE i + 1 \in S
    <3>1. g[i + 1] = h[i + 1]
      BY <2>2
    <3>2. i + 1 \in lo..n
      OBVIOUS
    <3>3. QED BY <3>1, <3>2
  <2>3. lo..n \subseteq S
    <3> HIDE DEF S
    <3>1. QED BY <2>1, <2>2, IntervalInduction
  <2>4. QED BY <2>3
<1>2. Stands(h[n], h[m])
  <2>1. n \in T
    BY DEF Stands
  <2>2. ASSUME NEW i \in n..(m - 1), i \in T PROVE i + 1 \in T
    <3>1. Stands(h[n], h[i]) /\ Stands(h[i], h[i + 1])
      BY <2>2
    <3>2. Stands(h[n], h[i + 1])
      BY <3>1 DEF Stands
    <3>3. i + 1 \in n..m
      OBVIOUS
    <3>4. QED BY <3>2, <3>3
  <2>3. n..m \subseteq T
    <3> HIDE DEF T
    <3>1. QED BY <2>1, <2>2, IntervalInduction
  <2>4. QED BY <2>3
<1>3. QED BY <1>1, <1>2

\* Before the first bar every plan is armed.
LEMMA ArmedSound ==
    ASSUME NEW n \in Nat
    PROVE  Armed \in Outcomes(n) /\ Armed.state = "armed" /\ Armed.marks = << >>
BY DEF Armed, Outcomes, OutcomeRecords, TriggerStates

\* An outcome that triggers, or ends, a plan that was not triggered or ended before.
LEMMA TriggeredSound ==
    ASSUME NEW n \in Nat, NEW s \in Outcomes(n), s.triggered = 0, s.state # "invalidated",
           NEW i \in 1..n, NEW entry \in Int, NEW stop \in Int, entry > 0, stop > entry
    PROVE  /\ Triggered(s, i, entry, stop) \in Outcomes(n)
           /\ Triggered(s, i, entry, stop).state = "triggered"
           /\ Triggered(s, i, entry, stop).marks = s.marks
           /\ Stands(s, Triggered(s, i, entry, stop))
<1> DEFINE t == Triggered(s, i, entry, stop)
<1>1. s \in OutcomeRecords(n) /\ "triggered" \in TriggerStates
  BY DEF Outcomes, TriggerStates
<1>2. t \in OutcomeRecords(n)
  <2>1. i \in 0..n
    OBVIOUS
  <2>2. QED BY ONLY <1>1, <2>1, n \in Nat, entry \in Int, stop \in Int DEF Triggered, OutcomeRecords
<1>3. /\ t.state = "triggered" /\ t.triggered = i /\ t.marks = s.marks
      /\ t.entry = entry /\ t.stop = stop
  BY <1>1 DEF Triggered, OutcomeRecords
<1> HIDE DEF t
<1>4. t \in Outcomes(n) /\ Stands(s, t)
  BY <1>2, <1>3 DEF Outcomes, Stands, Sizable
<1>5. QED BY <1>3, <1>4 DEF t

LEMMA InvalidatedSound ==
    ASSUME NEW n \in Nat, NEW s \in Outcomes(n), s.state # "invalidated", NEW i \in 1..n
    PROVE  /\ Invalidated(s, i) \in Outcomes(n)
           /\ Invalidated(s, i).state = "invalidated"
           /\ Invalidated(s, i).marks = s.marks
           /\ Stands(s, Invalidated(s, i))
<1> DEFINE t == Invalidated(s, i)
<1>1. s \in OutcomeRecords(n) /\ "invalidated" \in TriggerStates
  BY DEF Outcomes, TriggerStates
<1>2. t \in OutcomeRecords(n)
  <2>1. i \in 0..n
    OBVIOUS
  <2>2. QED BY ONLY <1>1, <2>1, n \in Nat DEF Invalidated, OutcomeRecords
<1>3. /\ t.state = "invalidated" /\ t.triggered = s.triggered /\ t.marks = s.marks
      /\ t.entry = s.entry /\ t.stop = s.stop
  BY <1>1 DEF Invalidated, OutcomeRecords
<1> HIDE DEF t
<1>4. t \in Outcomes(n) /\ Stands(s, t)
  BY <1>2, <1>3 DEF Outcomes, Stands
<1>5. QED BY <1>3, <1>4 DEF t

LEMMA MarkedSound ==
    ASSUME NEW n \in Nat, NEW s \in Outcomes(n), NEW i \in 1..n,
           s.state \notin {"triggered", "invalidated"},
           NEW state \in TriggerStates \ {"triggered", "invalidated"}
    PROVE  /\ Marked(s, state, i) \in Outcomes(n)
           /\ Marked(s, state, i).state = state
           /\ Marked(s, state, i).marks = Append(s.marks, i)
           /\ Stands(s, Marked(s, state, i))
<1> DEFINE t == Marked(s, state, i)
<1>1. s \in OutcomeRecords(n) /\ s.triggered = 0
  BY DEF Outcomes
<1>2. t \in OutcomeRecords(n)
  <2>1. Append(s.marks, i) \in Seq(1..n)
    BY <1>1 DEF OutcomeRecords
  <2>2. state \in TriggerStates
    OBVIOUS
  <2>3. QED BY ONLY <1>1, <2>1, <2>2, n \in Nat DEF Marked, OutcomeRecords
<1>3. t.state = state /\ t.triggered = 0 /\ t.marks = Append(s.marks, i)
  BY <1>1 DEF Marked, OutcomeRecords
<1> HIDE DEF t
<1>4. t \in Outcomes(n) /\ Stands(s, t)
  BY <1>1, <1>2, <1>3 DEF Outcomes, Stands
<1>5. QED BY <1>3, <1>4 DEF t

-----------------------------------------------------------------------------
(***************************************************************************)
(* The opening range.                                                      *)
(***************************************************************************)

\* A step keeps to the outcomes and takes nothing back.
LEMMA OrlStepSound ==
    ASSUME NEW b \in Seq(BarKinds), NEW s \in Outcomes(Len(b)), NEW i \in 1..Len(b)
    PROVE  OrlStep(b, s, i) \in Outcomes(Len(b)) /\ Stands(s, OrlStep(b, s, i))
<1>1. CASE s.state = "armed" /\ b[i].c < b[1].l /\ 10 * b[i].v >= 12 * b[1].v
  <2>1. OrlStep(b, s, i) = Triggered(s, i, b[i].c - Offset, SessionHigh(b, i) + Cushion)
    BY <1>1 DEF OrlStep
  <2>2. /\ b[i].c - Offset \in Int /\ b[i].c - Offset > 0
        /\ SessionHigh(b, i) + Cushion \in Int
        /\ SessionHigh(b, i) + Cushion > b[i].c - Offset
    BY BarBounds, HighBounds, IntradayAssumption DEF Offset
  <2>3. s.triggered = 0 /\ s.state # "invalidated"
    BY <1>1 DEF Outcomes
  <2>4. QED BY <2>1, <2>2, <2>3, TriggeredSound
<1>2. CASE s.state = "triggered" /\ b[i].c > b[1].l /\ AboveVwap(b, i)
  <2>1. OrlStep(b, s, i) = Invalidated(s, i)
    BY <1>2 DEF OrlStep
  <2>2. QED BY <1>2, <2>1, InvalidatedSound
<1>3. CASE /\ ~ (s.state = "armed" /\ b[i].c < b[1].l /\ 10 * b[i].v >= 12 * b[1].v)
           /\ ~ (s.state = "triggered" /\ b[i].c > b[1].l /\ AboveVwap(b, i))
  <2>1. OrlStep(b, s, i) = s
    BY <1>3 DEF OrlStep
  <2>2. QED BY <2>1 DEF Stands
<1>4. QED BY <1>1, <1>2, <1>3

\* A step does not see the bars that follow.
LEMMA OrlStepLocal ==
    ASSUME NEW b \in Seq(BarKinds), NEW b2 \in Seq(BarKinds), Continues(b2, b), NEW s,
           NEW i \in 1..Len(b)
    PROVE  OrlStep(b2, s, i) = OrlStep(b, s, i)
<1>1. b2[i] = b[i] /\ b2[1] = b[1]
  BY DEF Continues
<1>2. /\ SessionHigh(b2, i) = SessionHigh(b, i)
      /\ Traded(b2, i) = Traded(b, i)
      /\ Turnover(b2, i) = Turnover(b, i)
  BY ReadingsStand
<1>3. AboveVwap(b2, i) = AboveVwap(b, i)
  BY <1>1, <1>2 DEF AboveVwap
<1>4. QED BY <1>1, <1>2, <1>3, Zenon DEF OrlStep

\* The evaluator goes through the session in these steps.
LEMMA OrlFold ==
    ASSUME NEW b \in Seq(BarKinds), Len(b) > 0
    PROVE  \E g \in [1..Len(b) -> Outcomes(Len(b))] :
              /\ g[1] = Armed
              /\ \A i \in 2..Len(b) : g[i] = OrlStep(b, g[i - 1], i)
              /\ Orl(b) = g[Len(b)]
<1> DEFINE n == Len(b)
           V == Outcomes(n)
           P(g) == g = [i \in 1..Len(b) |-> IF i = 1 THEN Armed ELSE OrlStep(b, g[i - 1], i)]
           step == [q \in V \X (1..n) |-> OrlStep(b, q[1], q[2])]
<1>1. n \in Nat /\ 1 <= n
  OBVIOUS
<1>2. ASSUME NEW x \in V, NEW i \in 1..n
      PROVE  step[<<x, i>>] = OrlStep(b, x, i) /\ step[<<x, i>>] \in V
  <2>1. step[<<x, i>>] = OrlStep(b, x, i)
    OBVIOUS
  <2> HIDE DEF step
  <2>2. QED BY <2>1, OrlStepSound
<1>3. PICK f \in [1..n -> V] : Follows(f, Armed, 1, n, step)
  <2> HIDE DEF step
  <2>1. ClosedUnder(V, 1, n, step)
    <3> HIDE DEF V, n
    <3>1. \A i \in (1 + 1)..n : i \in 1..n
      BY <1>1
    <3>2. QED BY <1>2, <3>1 DEF ClosedUnder
  <2>2. Armed \in V /\ 1 \in Nat
    BY <1>1, ArmedSound
  <2> HIDE DEF V, n
  <2>3. QED BY <1>1, <2>1, <2>2, RecursionExists, Zenon
<1>4. P(f)
  <2>1. ASSUME NEW i \in 1..n
        PROVE  f[i] = IF i = 1 THEN Armed ELSE OrlStep(b, f[i - 1], i)
    <3> HIDE DEF step, V, n
    <3>1. CASE i = 1
      BY <1>3, <3>1 DEF Follows
    <3>2. CASE i # 1
      <4>1. i - 1 \in 1..n
        BY <1>1, <3>2
      <4>2. f[i - 1] \in V
        BY <4>1
      <4>3. QED BY <1>2, <1>3, <3>2, <4>2 DEF Follows
    <3>3. QED BY <3>1, <3>2
  <2>2. f = [i \in 1..n |-> f[i]]
    OBVIOUS
  <2>3. QED BY <2>1, <2>2
<1>5. P(CHOOSE g : P(g))
  <2> HIDE DEF P
  <2>1. QED BY <1>4
<1>6. Orl(b) = (CHOOSE g : P(g))[n]
  BY Zenon DEF Orl
<1>7. ASSUME NEW g, P(g)
      PROVE  /\ g \in [1..n -> V] /\ g[1] = Armed
             /\ \A i \in 2..n : g[i] = OrlStep(b, g[i - 1], i)
  <2> DEFINE S == {i \in 1..n : g[i] \in V}
  <2>1. \A i \in 1..n : g[i] = IF i = 1 THEN Armed ELSE OrlStep(b, g[i - 1], i)
    BY <1>7
  <2>2. 1 \in S
    BY <1>1, <2>1, ArmedSound
  <2>3. ASSUME NEW i \in 1..(n - 1), i \in S PROVE i + 1 \in S
    <3>1. i + 1 \in 1..n /\ i + 1 # 1 /\ (i + 1) - 1 = i
      BY <1>1
    <3>2. g[i + 1] = OrlStep(b, g[i], i + 1) /\ g[i] \in V
      BY <2>1, <2>3, <3>1
    <3>3. QED BY <3>1, <3>2, OrlStepSound
  <2>4. 1..n \subseteq S
    <3> HIDE DEF S, V, n
    <3>1. QED BY <1>1, <2>2, <2>3, IntervalInduction
  <2>5. g \in [1..n -> V]
    <3> HIDE DEF V
    <3>1. QED BY <1>7, <2>4
  <2>6. QED BY <1>1, <2>1, <2>5
<1>8. QED BY <1>5, <1>6, <1>7

\* What was said of a session, more bars do not take back.
LEMMA OrlStands ==
    ASSUME NEW b \in Seq(BarKinds), NEW b2 \in Seq(BarKinds), Len(b) > 0, Continues(b2, b)
    PROVE  Orl(b) \in Outcomes(Len(b)) /\ Stands(Orl(b), Orl(b2))
<1>1. /\ Len(b) \in Nat /\ Len(b2) \in Nat /\ 1 <= Len(b) /\ Len(b) <= Len(b2)
      /\ Len(b2) > 0
  BY DEF Continues
<1>2. PICK g \in [1..Len(b) -> Outcomes(Len(b))] :
         /\ g[1] = Armed
         /\ \A i \in 2..Len(b) : g[i] = OrlStep(b, g[i - 1], i)
         /\ Orl(b) = g[Len(b)]
  BY OrlFold
<1>3. PICK h \in [1..Len(b2) -> Outcomes(Len(b2))] :
         /\ h[1] = Armed
         /\ \A i \in 2..Len(b2) : h[i] = OrlStep(b2, h[i - 1], i)
         /\ Orl(b2) = h[Len(b2)]
  BY <1>1, OrlFold
<1>4. ASSUME NEW i \in 1..(Len(b) - 1), g[i] = h[i] PROVE g[i + 1] = h[i + 1]
  <2>1. /\ i + 1 \in 2..Len(b) /\ i + 1 \in 2..Len(b2) /\ (i + 1) - 1 = i
        /\ i + 1 \in 1..Len(b) /\ i \in 1..Len(b)
    BY <1>1
  <2>2. g[i + 1] = OrlStep(b, g[i], i + 1) /\ h[i + 1] = OrlStep(b2, h[i], i + 1)
    BY <1>2, <1>3, <2>1
  <2>3. g[i] \in Outcomes(Len(b))
    BY <2>1
  <2>4. QED BY <1>4, <2>1, <2>2, <2>3, OrlStepLocal
<1>5. ASSUME NEW i \in Len(b)..(Len(b2) - 1) PROVE Stands(h[i], h[i + 1])
  <2>1. /\ i + 1 \in 2..Len(b2) /\ (i + 1) - 1 = i
        /\ i + 1 \in 1..Len(b2) /\ i \in 1..Len(b2)
    BY <1>1
  <2>2. h[i + 1] = OrlStep(b2, h[i], i + 1) /\ h[i] \in Outcomes(Len(b2))
    BY <1>3, <2>1
  <2>3. QED BY <2>1, <2>2, OrlStepSound
<1>6. Stands(g[Len(b)], h[Len(b2)])
  BY <1>1, <1>2, <1>3, <1>4, <1>5, FoldStands
<1>7. g[Len(b)] \in Outcomes(Len(b))
  BY <1>1
<1>8. QED BY <1>2, <1>3, <1>6, <1>7

-----------------------------------------------------------------------------
(***************************************************************************)
(* The first red bar.                                                      *)
(***************************************************************************)

\* A step keeps to the outcomes, in which the red bar is known, and takes nothing back.
LEMMA FirstRedStepSound ==
    ASSUME NEW b \in Seq(BarKinds), NEW s \in FirstRedOutcomes(b), NEW i \in 1..Len(b)
    PROVE  FirstRedStep(b, s, i) \in FirstRedOutcomes(b) /\ Stands(s, FirstRedStep(b, s, i))
<1> DEFINE t == FirstRedStep(b, s, i)
           red == b[s.marks[1]]
<1>1. /\ s \in Outcomes(Len(b)) /\ Len(b) \in Nat
      /\ s.state # "armed" => Len(s.marks) > 0
      /\ s.marks \in Seq(1..Len(b))
      /\ s.state \notin {"triggered", "invalidated"} => s.triggered = 0
  BY DEF FirstRedOutcomes, Outcomes, OutcomeRecords
<1>2. CASE t = s
  BY <1>2 DEF Stands
<1>3. CASE s.state = "armed" /\ t = Marked(s, "red_marked", i)
  <2>1. /\ t \in Outcomes(Len(b)) /\ t.marks = Append(s.marks, i) /\ Stands(s, t)
    BY <1>1, <1>3, MarkedSound DEF TriggerStates
  <2>2. Len(Append(s.marks, i)) > 0
    BY <1>1
  <2>3. QED BY <2>1, <2>2 DEF FirstRedOutcomes
<1>4. CASE /\ s.state \notin {"armed", "invalidated"}
           /\ t = Invalidated(s, i)
  <2>1. t \in Outcomes(Len(b)) /\ t.marks = s.marks /\ Stands(s, t)
    BY <1>1, <1>4, InvalidatedSound
  <2>2. QED BY <1>1, <1>4, <2>1 DEF FirstRedOutcomes
<1>5. CASE s.state = "red_marked" /\ t = Triggered(s, i, red.l - Offset, red.h)
  <2>1. s.marks[1] \in 1..Len(b)
    BY <1>1, <1>5
  <2>2. /\ red.l - Offset \in Int /\ red.l - Offset > 0
        /\ red.h \in Int /\ red.h > red.l - Offset
    BY <2>1, BarBounds DEF Offset
  <2>3. s.triggered = 0 /\ s.state # "invalidated"
    BY <1>1, <1>5
  <2>4. t \in Outcomes(Len(b)) /\ t.marks = s.marks /\ Stands(s, t)
    <3> DEFINE entry == red.l - Offset
               stop == red.h
    <3>1. t = Triggered(s, i, entry, stop)
      BY <1>5
    <3>2. entry \in Int /\ entry > 0 /\ stop \in Int /\ stop > entry
      BY <2>2
    <3> HIDE DEF red, t, entry, stop
    <3>3. QED BY <1>1, <2>3, <3>1, <3>2, TriggeredSound
  <2>5. QED BY <1>1, <1>5, <2>4 DEF FirstRedOutcomes
<1>6. \/ t = s
      \/ s.state = "armed" /\ t = Marked(s, "red_marked", i)
      \/ s.state \notin {"armed", "invalidated"} /\ t = Invalidated(s, i)
      \/ s.state = "red_marked" /\ t = Triggered(s, i, red.l - Offset, red.h)
  <2>1. CASE s.state = "armed"
    BY <2>1 DEF FirstRedStep
  <2>2. CASE s.state # "armed" /\ s.state # "invalidated" /\ b[i].h > red.h
    BY <2>2 DEF FirstRedStep
  <2>3. CASE /\ s.state # "armed" /\ ~ (s.state # "invalidated" /\ b[i].h > red.h)
             /\ s.state = "red_marked" /\ b[i].h <= red.h /\ b[i].l < red.l
    BY <2>3 DEF FirstRedStep
  <2>4. CASE /\ s.state # "armed" /\ ~ (s.state # "invalidated" /\ b[i].h > red.h)
             /\ ~ (s.state = "red_marked" /\ b[i].h <= red.h /\ b[i].l < red.l)
    BY <2>4 DEF FirstRedStep
  <2>5. QED BY <2>1, <2>2, <2>3, <2>4
<1>7. QED BY <1>2, <1>3, <1>4, <1>5, <1>6

\* A step does not see the bars that follow.
LEMMA FirstRedStepLocal ==
    ASSUME NEW b \in Seq(BarKinds), NEW b2 \in Seq(BarKinds), Continues(b2, b),
           NEW s \in FirstRedOutcomes(b), NEW i \in 1..Len(b)
    PROVE  FirstRedStep(b2, s, i) = FirstRedStep(b, s, i)
<1>1. b2[i] = b[i]
  BY DEF Continues
<1>2. s.state # "armed" => b2[s.marks[1]] = b[s.marks[1]]
  <2> SUFFICES ASSUME s.state # "armed" PROVE b2[s.marks[1]] = b[s.marks[1]]
    OBVIOUS
  <2>1. s.marks \in Seq(1..Len(b)) /\ Len(s.marks) > 0
    BY DEF FirstRedOutcomes, Outcomes, OutcomeRecords
  <2>2. s.marks[1] \in 1..Len(b)
    BY <2>1
  <2>3. QED BY <2>2 DEF Continues
<1>3. CASE s.state = "armed"
  BY <1>1, <1>3, Zenon DEF FirstRedStep
<1>4. CASE s.state # "armed"
  <2>1. b2[s.marks[1]] = b[s.marks[1]]
    BY <1>2, <1>4
  <2>2. QED BY <1>1, <1>4, <2>1 DEF FirstRedStep
<1>5. QED BY <1>3, <1>4

LEMMA FirstRedArmed ==
    ASSUME NEW b \in Seq(BarKinds)
    PROVE  Armed \in FirstRedOutcomes(b)
BY ArmedSound DEF FirstRedOutcomes

\* The evaluator goes through the session in these steps.
LEMMA FirstRedFold ==
    ASSUME NEW b \in Seq(BarKinds)
    PROVE  \E g \in [0..Len(b) -> FirstRedOutcomes(b)] :
              /\ g[0] = Armed
              /\ \A i \in 1..Len(b) : g[i] = FirstRedStep(b, g[i - 1], i)
              /\ FirstRed(b) = g[Len(b)]
<1> DEFINE n == Len(b)
           V == FirstRedOutcomes(b)
           P(g) == g = [i \in 0..Len(b) |-> IF i = 0 THEN Armed ELSE FirstRedStep(b, g[i - 1], i)]
           step == [q \in V \X (1..n) |-> FirstRedStep(b, q[1], q[2])]
<1>1. n \in Nat /\ 0 <= n
  OBVIOUS
<1>2. ASSUME NEW x \in V, NEW i \in 1..n
      PROVE  step[<<x, i>>] = FirstRedStep(b, x, i) /\ step[<<x, i>>] \in V
  <2>1. step[<<x, i>>] = FirstRedStep(b, x, i)
    OBVIOUS
  <2> HIDE DEF step
  <2>2. QED BY <2>1, FirstRedStepSound
<1>3. PICK f \in [0..n -> V] : Follows(f, Armed, 0, n, step)
  <2> HIDE DEF step
  <2>1. ClosedUnder(V, 0, n, step)
    <3> HIDE DEF V, n
    <3>1. \A i \in (0 + 1)..n : i \in 1..n
      BY <1>1
    <3>2. QED BY <1>2, <3>1 DEF ClosedUnder
  <2>2. Armed \in V /\ 0 \in Nat
    BY <1>1, FirstRedArmed
  <2> HIDE DEF V, n
  <2>3. QED BY <1>1, <2>1, <2>2, RecursionExists, Zenon
<1>4. P(f)
  <2>1. ASSUME NEW i \in 0..n
        PROVE  f[i] = IF i = 0 THEN Armed ELSE FirstRedStep(b, f[i - 1], i)
    <3> HIDE DEF step, V, n
    <3>1. CASE i = 0
      BY <1>3, <3>1 DEF Follows
    <3>2. CASE i # 0
      <4>1. i - 1 \in 0..n /\ i \in 1..n /\ i \in (0 + 1)..n
        BY <1>1, <3>2
      <4>2. f[i - 1] \in V
        BY <4>1
      <4>3. QED BY <1>2, <1>3, <3>2, <4>1, <4>2 DEF Follows
    <3>3. QED BY <3>1, <3>2
  <2>2. f = [i \in 0..n |-> f[i]]
    OBVIOUS
  <2>3. QED BY <2>1, <2>2
<1>5. P(CHOOSE g : P(g))
  <2> HIDE DEF P
  <2>1. QED BY <1>4
<1>6. FirstRed(b) = (CHOOSE g : P(g))[n]
  BY Zenon DEF FirstRed
<1>7. ASSUME NEW g, P(g)
      PROVE  /\ g \in [0..n -> V] /\ g[0] = Armed
             /\ \A i \in 1..n : g[i] = FirstRedStep(b, g[i - 1], i)
  <2> DEFINE S == {i \in 0..n : g[i] \in V}
  <2>1. \A i \in 0..n : g[i] = IF i = 0 THEN Armed ELSE FirstRedStep(b, g[i - 1], i)
    BY <1>7
  <2>2. 0 \in S
    BY <1>1, <2>1, FirstRedArmed
  <2>3. ASSUME NEW i \in 0..(n - 1), i \in S PROVE i + 1 \in S
    <3>1. i + 1 \in 0..n /\ i + 1 \in 1..n /\ i + 1 # 0 /\ (i + 1) - 1 = i
      BY <1>1
    <3>2. g[i + 1] = FirstRedStep(b, g[i], i + 1) /\ g[i] \in V
      BY <2>1, <2>3, <3>1
    <3>3. QED BY <3>1, <3>2, FirstRedStepSound
  <2>4. 0..n \subseteq S
    <3> HIDE DEF S, V, n
    <3>1. QED BY <1>1, <2>2, <2>3, IntervalInduction
  <2>5. g \in [0..n -> V]
    <3> HIDE DEF V
    <3>1. QED BY <1>7, <2>4
  <2>6. QED BY <1>1, <2>1, <2>5
<1>8. QED BY <1>5, <1>6, <1>7

\* What was said of a session, more bars do not take back.
LEMMA FirstRedStands ==
    ASSUME NEW b \in Seq(BarKinds), NEW b2 \in Seq(BarKinds), Continues(b2, b)
    PROVE  FirstRed(b) \in FirstRedOutcomes(b) /\ Stands(FirstRed(b), FirstRed(b2))
<1>1. /\ Len(b) \in Nat /\ Len(b2) \in Nat /\ 0 <= Len(b) /\ Len(b) <= Len(b2)
  BY DEF Continues
<1>2. PICK g \in [0..Len(b) -> FirstRedOutcomes(b)] :
         /\ g[0] = Armed
         /\ \A i \in 1..Len(b) : g[i] = FirstRedStep(b, g[i - 1], i)
         /\ FirstRed(b) = g[Len(b)]
  BY FirstRedFold
<1>3. PICK h \in [0..Len(b2) -> FirstRedOutcomes(b2)] :
         /\ h[0] = Armed
         /\ \A i \in 1..Len(b2) : h[i] = FirstRedStep(b2, h[i - 1], i)
         /\ FirstRed(b2) = h[Len(b2)]
  BY <1>1, FirstRedFold
<1>4. ASSUME NEW i \in 0..(Len(b) - 1), g[i] = h[i] PROVE g[i + 1] = h[i + 1]
  <2>1. /\ i + 1 \in 1..Len(b) /\ i + 1 \in 1..Len(b2) /\ (i + 1) - 1 = i
        /\ i \in 0..Len(b)
    BY <1>1
  <2>2. g[i + 1] = FirstRedStep(b, g[i], i + 1) /\ h[i + 1] = FirstRedStep(b2, h[i], i + 1)
    BY <1>2, <1>3, <2>1
  <2>3. g[i] \in FirstRedOutcomes(b)
    BY <2>1
  <2>4. QED BY <1>4, <2>1, <2>2, <2>3, FirstRedStepLocal
<1>5. ASSUME NEW i \in Len(b)..(Len(b2) - 1) PROVE Stands(h[i], h[i + 1])
  <2>1. /\ i + 1 \in 1..Len(b2) /\ (i + 1) - 1 = i
        /\ i \in 0..Len(b2)
    BY <1>1
  <2>2. h[i + 1] = FirstRedStep(b2, h[i], i + 1) /\ h[i] \in FirstRedOutcomes(b2)
    BY <1>3, <2>1
  <2>3. QED BY <2>1, <2>2, FirstRedStepSound
<1>6. Stands(g[Len(b)], h[Len(b2)])
  BY <1>1, <1>2, <1>3, <1>4, <1>5, FoldStands
<1>7. g[Len(b)] \in FirstRedOutcomes(b)
  BY <1>1
<1>8. QED BY <1>2, <1>3, <1>6, <1>7

-----------------------------------------------------------------------------
(***************************************************************************)
(* The failed VWAP.                                                        *)
(***************************************************************************)

\* A bar marked after another.
LEMMA SecondMark ==
    ASSUME NEW D, NEW marks \in Seq(D), Len(marks) = 1, NEW i \in D
    PROVE  /\ Len(Append(marks, i)) = 2
           /\ Append(marks, i)[2] = i
           /\ Append(marks, i)[1] = marks[1]
OBVIOUS

\* A crack below the VWAP changes the state and nothing else.
LEMMA CrackSound ==
    ASSUME NEW n \in Nat, NEW s \in Outcomes(n), s.state = "armed"
    PROVE  LET t == [s EXCEPT !.state = "first_crack_seen"]
           IN  t \in Outcomes(n) /\ t.state = "first_crack_seen" /\ t.marks = s.marks
               /\ Stands(s, t)
<1> DEFINE t == [s EXCEPT !.state = "first_crack_seen"]
<1>1. s \in OutcomeRecords(n) /\ s.triggered = 0 /\ "first_crack_seen" \in TriggerStates
  BY DEF Outcomes, TriggerStates
<1>2. t \in OutcomeRecords(n)
  BY ONLY <1>1, n \in Nat DEF OutcomeRecords
<1>3. t.state = "first_crack_seen" /\ t.triggered = 0 /\ t.marks = s.marks
  BY ONLY <1>1 DEF OutcomeRecords
<1> HIDE DEF t
<1>4. t \in Outcomes(n) /\ Stands(s, t)
  BY <1>1, <1>2, <1>3 DEF Outcomes, Stands
<1>5. QED BY <1>3, <1>4 DEF t

\* A step keeps to the outcomes, in which the retest and the lower high are known, and
\* takes nothing back.
LEMMA VwapFailStepSound ==
    ASSUME NEW b \in Seq(BarKinds), NEW s \in VwapFailOutcomes(b), NEW i \in 1..Len(b)
    PROVE  VwapFailStep(b, s, i) \in VwapFailOutcomes(b) /\ Stands(s, VwapFailStep(b, s, i))
<1> DEFINE t == VwapFailStep(b, s, i)
           Cracked == /\ s.state = "armed" /\ BelowVwap(b, i)
                      /\ SessionHigh(b, i - 1) > b[i].c
           Retested == s.state = "first_crack_seen" /\ ~BelowVwap(b, i)
           Refused == /\ s.state = "vwap_retest_seen" /\ b[i].h < b[s.marks[1]].h
                       /\ BelowVwap(b, i)
           Broken == s.state = "rejection_confirmed" /\ b[i].l < b[s.marks[2]].l
           Failed == s.state = "triggered" /\ AboveVwap(b, i)
<1>1. /\ s \in Outcomes(Len(b)) /\ Len(b) \in Nat
      /\ s.marks \in Seq(1..Len(b))
      /\ s.state \notin {"triggered", "invalidated"} => s.triggered = 0
  BY DEF VwapFailOutcomes, Outcomes, OutcomeRecords
<1>2. /\ s.state \in {"armed", "first_crack_seen"} => s.marks = << >>
      /\ s.state = "vwap_retest_seen" => Len(s.marks) = 1
      /\ s.state = "rejection_confirmed" =>
            Len(s.marks) = 2 /\ b[s.marks[2]].h < b[s.marks[1]].h
  BY DEF VwapFailOutcomes
<1>3. CASE Cracked
  <2>1. t = [s EXCEPT !.state = "first_crack_seen"]
    BY <1>3 DEF VwapFailStep
  <2>2. /\ t \in Outcomes(Len(b)) /\ t.state = "first_crack_seen" /\ t.marks = s.marks
        /\ Stands(s, t)
    BY <1>1, <1>3, <2>1, CrackSound
  <2> HIDE DEF t
  <2>3. t \in VwapFailOutcomes(b)
    BY <1>2, <1>3, <2>2 DEF VwapFailOutcomes
  <2>4. QED BY <2>2, <2>3 DEF t
<1>4. CASE Retested
  <2>1. t = Marked(s, "vwap_retest_seen", i)
    BY <1>4 DEF VwapFailStep
  <2>2. /\ t \in Outcomes(Len(b)) /\ t.state = "vwap_retest_seen"
        /\ t.marks = Append(s.marks, i) /\ Stands(s, t)
    <3>1. "vwap_retest_seen" \in TriggerStates \ {"triggered", "invalidated"}
      BY DEF TriggerStates
    <3>2. s.state \notin {"triggered", "invalidated"}
      BY <1>4
    <3> HIDE DEF t
    <3>3. QED BY <1>1, <2>1, <3>1, <3>2, MarkedSound
  <2>3. Len(Append(s.marks, i)) = 1
    BY <1>2, <1>4
  <2> HIDE DEF t
  <2>4. t \in VwapFailOutcomes(b)
    BY <2>2, <2>3 DEF VwapFailOutcomes
  <2>5. QED BY <2>2, <2>4 DEF t
<1>5. CASE Refused
  <2>1. t = Marked(s, "rejection_confirmed", i)
    BY <1>5 DEF VwapFailStep
  <2>2. /\ t \in Outcomes(Len(b)) /\ t.state = "rejection_confirmed"
        /\ t.marks = Append(s.marks, i) /\ Stands(s, t)
    <3>1. "rejection_confirmed" \in TriggerStates \ {"triggered", "invalidated"}
      BY DEF TriggerStates
    <3>2. s.state \notin {"triggered", "invalidated"}
      BY <1>5
    <3> HIDE DEF t
    <3>3. QED BY <1>1, <2>1, <3>1, <3>2, MarkedSound
  <2>3. /\ Len(Append(s.marks, i)) = 2 /\ Append(s.marks, i)[2] = i
        /\ Append(s.marks, i)[1] = s.marks[1]
    BY <1>1, <1>2, <1>5, SecondMark
  <2>4. b[i].h < b[s.marks[1]].h
    BY <1>5
  <2> HIDE DEF t
  <2>5. t \in VwapFailOutcomes(b)
    BY <2>2, <2>3, <2>4 DEF VwapFailOutcomes
  <2>6. QED BY <2>2, <2>5 DEF t
<1>6. CASE Broken
  <2>1. t = Triggered(s, i, b[s.marks[2]].l - Offset, b[s.marks[1]].h)
    BY <1>6 DEF VwapFailStep
  <2>2. s.marks[1] \in 1..Len(b) /\ s.marks[2] \in 1..Len(b)
    BY <1>1, <1>2, <1>6
  <2>3. /\ b[s.marks[2]].l \in Nat /\ b[s.marks[2]].l > Offset /\ b[s.marks[2]].h \in Nat
        /\ b[s.marks[2]].l <= b[s.marks[2]].h /\ b[s.marks[1]].h \in Nat
    <3> DEFINE j == s.marks[1]
               k == s.marks[2]
    <3> HIDE DEF j, k
    <3>1. j \in 1..Len(b) /\ k \in 1..Len(b)
      BY <2>2 DEF j, k
    <3>2. /\ b[k].l \in Nat /\ b[k].l > Offset /\ b[k].h \in Nat /\ b[k].c \in Nat
          /\ b[k].l <= b[k].c /\ b[k].c <= b[k].h /\ b[j].h \in Nat
      BY <3>1, BarBounds
    <3>3. b[k].l <= b[k].h
      BY <3>2
    <3>4. QED BY <3>2, <3>3 DEF j, k
  <2>4. /\ b[s.marks[2]].l - Offset \in Int /\ b[s.marks[2]].l - Offset > 0
        /\ b[s.marks[1]].h \in Int /\ b[s.marks[1]].h > b[s.marks[2]].l - Offset
    <3>1. b[s.marks[2]].h < b[s.marks[1]].h
      BY <1>2, <1>6
    <3> DEFINE low == b[s.marks[2]].l
               top == b[s.marks[1]].h
               high == b[s.marks[2]].h
    <3>2. low \in Nat /\ low > 1 /\ high \in Nat /\ top \in Nat /\ low <= high /\ high < top
      BY <2>3, <3>1 DEF Offset
    <3> HIDE DEF low, top, high
    <3>3. low - 1 \in Int /\ low - 1 > 0 /\ top \in Int /\ top > low - 1
      BY <3>2
    <3>4. QED BY <3>3 DEF low, top, Offset
  <2>5. s.triggered = 0 /\ s.state # "invalidated"
    BY <1>1, <1>6
  <2>6. t \in Outcomes(Len(b)) /\ t.state = "triggered" /\ Stands(s, t)
    <3> DEFINE entry == b[s.marks[2]].l - Offset
               stop == b[s.marks[1]].h
    <3>1. entry \in Int /\ entry > 0 /\ stop \in Int /\ stop > entry
      BY <2>4
    <3>2. t = Triggered(s, i, entry, stop)
      BY <2>1
    <3> HIDE DEF t, entry, stop
    <3>3. QED BY <1>1, <2>5, <3>1, <3>2, TriggeredSound
  <2> HIDE DEF t
  <2>7. t \in VwapFailOutcomes(b)
    BY <2>6 DEF VwapFailOutcomes
  <2>8. QED BY <2>6, <2>7 DEF t
<1>7. CASE Failed
  <2>1. t = Invalidated(s, i)
    BY <1>7 DEF VwapFailStep
  <2>2. t \in Outcomes(Len(b)) /\ t.state = "invalidated" /\ Stands(s, t)
    BY <1>1, <1>7, <2>1, InvalidatedSound
  <2> HIDE DEF t
  <2>3. t \in VwapFailOutcomes(b)
    BY <2>2 DEF VwapFailOutcomes
  <2>4. QED BY <2>2, <2>3 DEF t
<1>8. CASE ~Cracked /\ ~Retested /\ ~Refused /\ ~Broken /\ ~Failed
  <2>1. t = s
    BY <1>8 DEF VwapFailStep
  <2>2. QED BY <2>1 DEF Stands
<1>9. QED BY <1>3, <1>4, <1>5, <1>6, <1>7, <1>8

\* A step does not see the bars that follow.
LEMMA VwapFailStepLocal ==
    ASSUME NEW b \in Seq(BarKinds), NEW b2 \in Seq(BarKinds), Continues(b2, b),
           NEW s \in VwapFailOutcomes(b), NEW i \in 1..Len(b)
    PROVE  VwapFailStep(b2, s, i) = VwapFailStep(b, s, i)
<1>1. b2[i] = b[i]
  BY DEF Continues
<1>2. /\ SessionHigh(b2, i - 1) = SessionHigh(b, i - 1)
      /\ Traded(b2, i) = Traded(b, i)
      /\ Turnover(b2, i) = Turnover(b, i)
  BY ReadingsStand
<1>3. /\ AboveVwap(b2, i) = AboveVwap(b, i)
      /\ BelowVwap(b2, i) = BelowVwap(b, i)
  BY <1>1, <1>2 DEF AboveVwap, BelowVwap
<1>4. s.marks \in Seq(1..Len(b))
  BY DEF VwapFailOutcomes, Outcomes, OutcomeRecords
<1>5. s.state \in {"vwap_retest_seen", "rejection_confirmed"} =>
         b2[s.marks[1]] = b[s.marks[1]]
  <2>1. s.state \in {"vwap_retest_seen", "rejection_confirmed"} => s.marks[1] \in 1..Len(b)
    BY <1>4 DEF VwapFailOutcomes
  <2>2. QED BY <2>1 DEF Continues
<1>6. s.state = "rejection_confirmed" => b2[s.marks[2]] = b[s.marks[2]]
  <2>1. s.state = "rejection_confirmed" => s.marks[2] \in 1..Len(b)
    BY <1>4 DEF VwapFailOutcomes
  <2>2. QED BY <2>1 DEF Continues
<1>7. CASE s.state = "rejection_confirmed"
  BY <1>1, <1>2, <1>3, <1>5, <1>6, <1>7 DEF VwapFailStep
<1>8. CASE s.state = "vwap_retest_seen"
  BY <1>1, <1>2, <1>3, <1>5, <1>8 DEF VwapFailStep
<1>9. CASE s.state \notin {"vwap_retest_seen", "rejection_confirmed"}
  BY <1>1, <1>2, <1>3, <1>9 DEF VwapFailStep
<1>10. QED BY <1>7, <1>8, <1>9

LEMMA VwapFailArmed ==
    ASSUME NEW b \in Seq(BarKinds)
    PROVE  Armed \in VwapFailOutcomes(b)
BY ArmedSound DEF VwapFailOutcomes

\* The evaluator goes through the session in these steps.
LEMMA VwapFailFold ==
    ASSUME NEW b \in Seq(BarKinds), Len(b) > 0
    PROVE  \E g \in [1..Len(b) -> VwapFailOutcomes(b)] :
              /\ g[1] = Armed
              /\ \A i \in 2..Len(b) : g[i] = VwapFailStep(b, g[i - 1], i)
              /\ VwapFail(b) = g[Len(b)]
<1> DEFINE n == Len(b)
           V == VwapFailOutcomes(b)
           P(g) == g = [i \in 1..Len(b) |-> IF i = 1 THEN Armed ELSE VwapFailStep(b, g[i - 1], i)]
           step == [q \in V \X (1..n) |-> VwapFailStep(b, q[1], q[2])]
<1>1. n \in Nat /\ 1 <= n
  OBVIOUS
<1>2. ASSUME NEW x \in V, NEW i \in 1..n
      PROVE  step[<<x, i>>] = VwapFailStep(b, x, i) /\ step[<<x, i>>] \in V
  <2>1. step[<<x, i>>] = VwapFailStep(b, x, i)
    OBVIOUS
  <2> HIDE DEF step
  <2>2. QED BY <2>1, VwapFailStepSound
<1>3. PICK f \in [1..n -> V] : Follows(f, Armed, 1, n, step)
  <2> HIDE DEF step
  <2>1. ClosedUnder(V, 1, n, step)
    <3> HIDE DEF V, n
    <3>1. \A i \in (1 + 1)..n : i \in 1..n
      BY <1>1
    <3>2. QED BY <1>2, <3>1 DEF ClosedUnder
  <2>2. Armed \in V /\ 1 \in Nat
    BY <1>1, VwapFailArmed
  <2> HIDE DEF V, n
  <2>3. QED BY <1>1, <2>1, <2>2, RecursionExists, Zenon
<1>4. P(f)
  <2>1. ASSUME NEW i \in 1..n
        PROVE  f[i] = IF i = 1 THEN Armed ELSE VwapFailStep(b, f[i - 1], i)
    <3> HIDE DEF step, V, n
    <3>1. CASE i = 1
      BY <1>3, <3>1 DEF Follows
    <3>2. CASE i # 1
      <4>1. i - 1 \in 1..n
        BY <1>1, <3>2
      <4>2. f[i - 1] \in V
        BY <4>1
      <4>3. QED BY <1>2, <1>3, <3>2, <4>2 DEF Follows
    <3>3. QED BY <3>1, <3>2
  <2>2. f = [i \in 1..n |-> f[i]]
    OBVIOUS
  <2>3. QED BY <2>1, <2>2
<1>5. P(CHOOSE g : P(g))
  <2> HIDE DEF P
  <2>1. QED BY <1>4
<1>6. VwapFail(b) = (CHOOSE g : P(g))[n]
  BY Zenon DEF VwapFail
<1>7. ASSUME NEW g, P(g)
      PROVE  /\ g \in [1..n -> V] /\ g[1] = Armed
             /\ \A i \in 2..n : g[i] = VwapFailStep(b, g[i - 1], i)
  <2> DEFINE S == {i \in 1..n : g[i] \in V}
  <2>1. \A i \in 1..n : g[i] = IF i = 1 THEN Armed ELSE VwapFailStep(b, g[i - 1], i)
    BY <1>7
  <2>2. 1 \in S
    BY <1>1, <2>1, VwapFailArmed
  <2>3. ASSUME NEW i \in 1..(n - 1), i \in S PROVE i + 1 \in S
    <3>1. i + 1 \in 1..n /\ i + 1 # 1 /\ (i + 1) - 1 = i
      BY <1>1
    <3>2. g[i + 1] = VwapFailStep(b, g[i], i + 1) /\ g[i] \in V
      BY <2>1, <2>3, <3>1
    <3>3. QED BY <3>1, <3>2, VwapFailStepSound
  <2>4. 1..n \subseteq S
    <3> HIDE DEF S, V, n
    <3>1. QED BY <1>1, <2>2, <2>3, IntervalInduction
  <2>5. g \in [1..n -> V]
    <3> HIDE DEF V
    <3>1. QED BY <1>7, <2>4
  <2>6. QED BY <1>1, <2>1, <2>5
<1>8. QED BY <1>5, <1>6, <1>7

\* What was said of a session, more bars do not take back.
LEMMA VwapFailStands ==
    ASSUME NEW b \in Seq(BarKinds), NEW b2 \in Seq(BarKinds), Len(b) > 0, Continues(b2, b)
    PROVE  VwapFail(b) \in VwapFailOutcomes(b) /\ Stands(VwapFail(b), VwapFail(b2))
<1>1. /\ Len(b) \in Nat /\ Len(b2) \in Nat /\ 1 <= Len(b) /\ Len(b) <= Len(b2)
      /\ Len(b2) > 0
  BY DEF Continues
<1>2. PICK g \in [1..Len(b) -> VwapFailOutcomes(b)] :
         /\ g[1] = Armed
         /\ \A i \in 2..Len(b) : g[i] = VwapFailStep(b, g[i - 1], i)
         /\ VwapFail(b) = g[Len(b)]
  BY VwapFailFold
<1>3. PICK h \in [1..Len(b2) -> VwapFailOutcomes(b2)] :
         /\ h[1] = Armed
         /\ \A i \in 2..Len(b2) : h[i] = VwapFailStep(b2, h[i - 1], i)
         /\ VwapFail(b2) = h[Len(b2)]
  BY <1>1, VwapFailFold
<1>4. ASSUME NEW i \in 1..(Len(b) - 1), g[i] = h[i] PROVE g[i + 1] = h[i + 1]
  <2>1. /\ i + 1 \in 2..Len(b) /\ i + 1 \in 2..Len(b2) /\ (i + 1) - 1 = i
        /\ i + 1 \in 1..Len(b) /\ i \in 1..Len(b)
    BY <1>1
  <2>2. g[i + 1] = VwapFailStep(b, g[i], i + 1) /\ h[i + 1] = VwapFailStep(b2, h[i], i + 1)
    BY <1>2, <1>3, <2>1
  <2>3. g[i] \in VwapFailOutcomes(b)
    BY <2>1
  <2>4. QED BY <1>4, <2>1, <2>2, <2>3, VwapFailStepLocal
<1>5. ASSUME NEW i \in Len(b)..(Len(b2) - 1) PROVE Stands(h[i], h[i + 1])
  <2>1. /\ i + 1 \in 2..Len(b2) /\ (i + 1) - 1 = i
        /\ i + 1 \in 1..Len(b2) /\ i \in 1..Len(b2)
    BY <1>1
  <2>2. h[i + 1] = VwapFailStep(b2, h[i], i + 1) /\ h[i] \in VwapFailOutcomes(b2)
    BY <1>3, <2>1
  <2>3. QED BY <2>1, <2>2, VwapFailStepSound
<1>6. Stands(g[Len(b)], h[Len(b2)])
  BY <1>1, <1>2, <1>3, <1>4, <1>5, FoldStands
<1>7. g[Len(b)] \in VwapFailOutcomes(b)
  BY <1>1
<1>8. QED BY <1>2, <1>3, <1>6, <1>7

-----------------------------------------------------------------------------
(***************************************************************************)
(* The state files.                                                        *)
(***************************************************************************)

\* What a run with bars saves for a plan.
Said(p, b) == [StepOnePlan(Plans[p], b) EXCEPT !.marks = << >>]

\* A whole file holds the outcome of a session that has since only been continued, or of
\* no bars at all.
Kept(file, p) ==
    \/ file \in {NoFile, Torn, Armed}
    \/ \E k \in 1..Len(session) : file = Said(p, SubSeq(session, 1, k))

IntradayInv ==
    /\ session \in Seq(BarKinds)
    /\ Len(session) <= MaxBars
    /\ anchored \in BOOLEAN
    /\ stateFile \in [1..Len(Plans) -> Saved \cup {NoFile, Torn}]
    /\ \A p \in 1..Len(Plans) : Kept(stateFile[p], p)

\* A saved plan that is triggered has a time, and a stop above its entry.
Sound(s) == s.state = "triggered" => s.triggered # 0 /\ Sizable(s)

\* The shares of a plan saved as triggered can be computed.
FilesSound == \A p \in 1..Len(Plans) : Whole(stateFile[p]) => Sound(stateFile[p])

\* Each plan's evaluator, as step_one_plan calls it.
LEMMA PlanStands ==
    ASSUME NEW p \in 1..Len(Plans), NEW b \in Seq(BarKinds), NEW b2 \in Seq(BarKinds),
           Len(b) > 0, Continues(b2, b)
    PROVE  /\ StepOnePlan(Plans[p], b) \in Outcomes(Len(b))
           /\ Stands(StepOnePlan(Plans[p], b), StepOnePlan(Plans[p], b2))
<1>1. Len(b) \in Nat /\ Armed \in Outcomes(Len(b)) /\ Stands(Armed, Armed)
  BY ArmedSound DEF Stands
<1>2. p \in {1, 2, 3}
  BY DEF Plans
<1>3. CASE p = 1
  <2>1. \A c : StepOnePlan(Plans[p], c) = IF anchored THEN Orl(c) ELSE Armed
    BY <1>3 DEF StepOnePlan, Plans
  <2>2. QED BY <1>1, <2>1, OrlStands
<1>4. CASE p = 2
  <2>1. \A c : StepOnePlan(Plans[p], c) = FirstRed(c)
    BY <1>4 DEF StepOnePlan, Plans
  <2>2. QED BY <2>1, FirstRedStands DEF FirstRedOutcomes
<1>5. CASE p = 3
  <2>1. \A c : StepOnePlan(Plans[p], c) = VwapFail(c)
    BY <1>5 DEF StepOnePlan, Plans
  <2>2. QED BY <2>1, VwapFailStands DEF VwapFailOutcomes
<1>6. QED BY <1>2, <1>3, <1>4, <1>5

\* Saving drops the marks, of which none of this speaks.
LEMMA SaidStands ==
    ASSUME NEW p \in 1..Len(Plans), NEW b \in Seq(BarKinds), NEW b2 \in Seq(BarKinds),
           Len(b) > 0, Len(b2) <= MaxBars, Continues(b2, b)
    PROVE  /\ Said(p, b) \in Saved /\ Sound(Said(p, b))
           /\ Said(p, b).triggered \in 0..Len(b)
           /\ Said(p, b).invalidated \in 0..Len(b)
           /\ Stands(Said(p, b), Said(p, b2))
<1> DEFINE s == StepOnePlan(Plans[p], b)
           s2 == StepOnePlan(Plans[p], b2)
           t == Said(p, b)
           t2 == Said(p, b2)
<1>1. /\ Len(b) \in Nat /\ Len(b2) \in Nat /\ Len(b) <= MaxBars /\ MaxBars \in Nat
      /\ Len(b2) > 0 /\ Continues(b2, b2)
  BY IntradayAssumption DEF Continues
<1>2. s \in Outcomes(Len(b)) /\ s2 \in Outcomes(Len(b2)) /\ Stands(s, s2)
  BY <1>1, PlanStands
<1>3. t = [s EXCEPT !.marks = << >>] /\ t2 = [s2 EXCEPT !.marks = << >>]
  BY DEF Said
<1> HIDE DEF s, s2, t, t2
<1>4. s \in OutcomeRecords(Len(b)) /\ s2 \in OutcomeRecords(Len(b2)) /\ Sound(s)
  BY <1>2 DEF Outcomes, Sound
<1>5. /\ t.state = s.state /\ t.triggered = s.triggered /\ t.invalidated = s.invalidated
      /\ t.entry = s.entry /\ t.stop = s.stop
      /\ t2.state = s2.state /\ t2.triggered = s2.triggered
      /\ t2.invalidated = s2.invalidated /\ t2.entry = s2.entry /\ t2.stop = s2.stop
  BY <1>3, <1>4 DEF OutcomeRecords
<1>6. t \in Saved
  <2>1. t = [state |-> s.state, marks |-> << >>, triggered |-> s.triggered,
             invalidated |-> s.invalidated, entry |-> s.entry, stop |-> s.stop]
    BY <1>3, <1>4 DEF OutcomeRecords
  <2>2. /\ s.state \in TriggerStates /\ s.triggered \in 0..MaxBars
        /\ s.invalidated \in 0..MaxBars /\ s.entry \in Int /\ s.stop \in Int
    BY <1>1, <1>4 DEF OutcomeRecords
  <2>3. QED BY <2>1, <2>2 DEF Saved
<1>7. Sound(t) /\ Stands(t, t2)
  BY <1>2, <1>4, <1>5 DEF Sound, Stands, Sizable
<1>8. t.triggered \in 0..Len(b) /\ t.invalidated \in 0..Len(b)
  BY <1>4, <1>5 DEF OutcomeRecords
<1>9. QED BY <1>6, <1>7, <1>8 DEF t, t2

\* The session so far is a beginning of itself, and of what it becomes.
LEMMA Beginnings ==
    ASSUME NEW b \in Seq(BarKinds), NEW k \in 1..Len(b)
    PROVE  /\ SubSeq(b, 1, k) \in Seq(BarKinds) /\ Len(SubSeq(b, 1, k)) = k
           /\ Continues(b, SubSeq(b, 1, k))
           /\ SubSeq(b, 1, Len(b)) = b
           /\ \A bar \in BarKinds : SubSeq(Append(b, bar), 1, k) = SubSeq(b, 1, k)
<1>1. SubSeq(b, 1, k) \in Seq(BarKinds) /\ Len(SubSeq(b, 1, k)) = k
  OBVIOUS
<1>2. \A i \in 1..k : SubSeq(b, 1, k)[i] = b[i]
  OBVIOUS
<1>3. SubSeq(b, 1, Len(b)) = b
  OBVIOUS
<1>4. ASSUME NEW bar \in BarKinds PROVE SubSeq(Append(b, bar), 1, k) = SubSeq(b, 1, k)
  OBVIOUS
<1>5. QED BY <1>1, <1>2, <1>3, <1>4 DEF Continues

\* A run's outcome for a plan, with bars or without, stands by the file it replaces.
LEMMA OutcomeStands ==
    ASSUME IntradayInv, NEW p \in 1..Len(Plans), NEW bars \in BOOLEAN,
           bars => session # << >>
    PROVE  /\ Outcome(p, bars) \in Saved /\ Kept(Outcome(p, bars), p)
           /\ Whole(stateFile[p]) => Stands(stateFile[p], Outcome(p, bars))
<1>1. /\ session \in Seq(BarKinds) /\ Len(session) \in Nat /\ Len(session) <= MaxBars
      /\ stateFile[p] \in Saved \cup {NoFile, Torn} /\ Kept(stateFile[p], p)
  BY DEF IntradayInv
<1>2. Armed \in Saved /\ \A s : Stands(Armed, s)
  BY IntradayAssumption DEF Armed, Saved, TriggerStates, Stands
<1>3. CASE bars
  <2>1. Len(session) > 0 /\ Len(session) \in 1..Len(session)
    BY <1>1, <1>3
  <2>2. Outcome(p, bars) = Said(p, session)
    BY <1>3 DEF Outcome, Said
  <2>3. SubSeq(session, 1, Len(session)) = session
    BY <1>1, <2>1, Beginnings
  <2>4. Kept(Said(p, session), p)
    BY <2>1, <2>3 DEF Kept
  <2>5. Said(p, session) \in Saved
    BY <1>1, <2>1, SaidStands DEF Continues
  <2>6. ASSUME Whole(stateFile[p]) PROVE Stands(stateFile[p], Said(p, session))
    <3>1. CASE stateFile[p] = Armed
      BY <1>2, <3>1
    <3>2. CASE \E k \in 1..Len(session) : stateFile[p] = Said(p, SubSeq(session, 1, k))
      <4>1. PICK k \in 1..Len(session) : stateFile[p] = Said(p, SubSeq(session, 1, k))
        BY <3>2
      <4>2. /\ SubSeq(session, 1, k) \in Seq(BarKinds) /\ Len(SubSeq(session, 1, k)) > 0
            /\ Continues(session, SubSeq(session, 1, k))
        BY <1>1, Beginnings
      <4>3. Stands(Said(p, SubSeq(session, 1, k)), Said(p, session))
        BY <1>1, <4>2, SaidStands
      <4>4. QED BY <4>1, <4>3
    <3>3. QED BY <1>1, <2>6, <3>1, <3>2 DEF Kept, Whole
  <2>7. QED BY <2>2, <2>4, <2>5, <2>6
<1>4. CASE ~bars
  <2>1. Outcome(p, bars) = NoBars(p)
    BY <1>4 DEF Outcome
  <2>2. CASE stateFile[p] \in {NoFile, Torn}
    <3>1. NoBars(p) = Armed
      BY <2>2 DEF NoBars
    <3>2. QED BY <1>2, <2>1, <2>2, <3>1 DEF Kept, Whole
  <2>3. CASE stateFile[p] \notin {NoFile, Torn}
    <3>1. NoBars(p) = stateFile[p]
      BY <2>3 DEF NoBars
    <3>2. Stands(stateFile[p], stateFile[p])
      BY DEF Stands
    <3>3. QED BY <1>1, <2>1, <2>3, <3>1, <3>2
  <2>4. QED BY <2>2, <2>3
<1>5. QED BY <1>3, <1>4

\* What a whole file may be taken at.
LEMMA FileSound ==
    ASSUME IntradayInv, NEW p \in 1..Len(Plans), Whole(stateFile[p])
    PROVE  /\ stateFile[p] \in Saved /\ Sound(stateFile[p])
           /\ stateFile[p].triggered \in 0..Len(session)
           /\ stateFile[p].invalidated \in 0..Len(session)
<1>1. /\ session \in Seq(BarKinds) /\ Len(session) \in Nat /\ Len(session) <= MaxBars
      /\ stateFile[p] \in Saved
  BY DEF IntradayInv, Whole
<1>2. CASE stateFile[p] = Armed
  BY <1>1, <1>2 DEF Armed, Sound
<1>3. CASE \E k \in 1..Len(session) : stateFile[p] = Said(p, SubSeq(session, 1, k))
  <2>1. PICK k \in 1..Len(session) : stateFile[p] = Said(p, SubSeq(session, 1, k))
    BY <1>3
  <2> DEFINE b == SubSeq(session, 1, k)
  <2>2. b \in Seq(BarKinds) /\ Len(b) = k
    BY <1>1, Beginnings
  <2> HIDE DEF b
  <2>3. Continues(b, b) /\ Len(b) > 0 /\ Len(b) <= MaxBars
    BY <1>1, <2>2, IntradayAssumption DEF Continues
  <2>4. /\ Sound(Said(p, b))
        /\ Said(p, b).triggered \in 0..k /\ Said(p, b).invalidated \in 0..k
    BY <2>2, <2>3, SaidStands
  <2>5. QED BY <1>1, <2>1, <2>4 DEF b
<1>4. QED BY <1>2, <1>3 DEF IntradayInv, Kept, Whole

\* The invariant holds of the first state, and every step keeps it.
THEOREM IntradayInductive == IntradaySpec => []IntradayInv
<1>1. IntradayInit => IntradayInv
  BY IntradayAssumption DEF IntradayInit, IntradayInv, Kept
<1>2. IntradayInv /\ [IntradayNext]_intradayVars => IntradayInv'
  <2> SUFFICES ASSUME IntradayInv, [IntradayNext]_intradayVars PROVE IntradayInv'
    OBVIOUS
  <2>1. /\ session \in Seq(BarKinds) /\ Len(session) \in Nat
        /\ Len(session) <= MaxBars /\ anchored \in BOOLEAN
        /\ stateFile \in [1..Len(Plans) -> Saved \cup {NoFile, Torn}]
        /\ \A p \in 1..Len(Plans) : Kept(stateFile[p], p)
    BY DEF IntradayInv
  <2>2. ASSUME NEW bar \in BarKinds, NewBar(bar) PROVE IntradayInv'
    <3>1. /\ session' = Append(session, bar) /\ anchored' = anchored
          /\ stateFile' = stateFile /\ Len(session) < MaxBars
      BY <2>2 DEF NewBar
    <3>2. session' \in Seq(BarKinds) /\ Len(session') = Len(session) + 1
      BY <2>1, <3>1
    <3>3. ASSUME NEW p \in 1..Len(Plans) PROVE Kept(stateFile[p], p)'
      <4>1. CASE stateFile[p] \in {NoFile, Torn, Armed}
        BY <3>1, <4>1 DEF Kept
      <4>2. CASE \E k \in 1..Len(session) : stateFile[p] = Said(p, SubSeq(session, 1, k))
        <5>1. PICK k \in 1..Len(session) : stateFile[p] = Said(p, SubSeq(session, 1, k))
          BY <4>2
        <5>2. SubSeq(session', 1, k) = SubSeq(session, 1, k)
          BY <2>1, <3>1, Beginnings
        <5>3. Said(p, SubSeq(session, 1, k))' = Said(p, SubSeq(session, 1, k))
          BY <3>1, <5>2 DEF Said, StepOnePlan
        <5>4. stateFile'[p] = Said(p, SubSeq(session, 1, k))'
          BY <3>1, <5>1, <5>3
        <5>5. k \in 1..Len(session')
          BY <2>1, <3>2
        <5>6. QED BY <5>4, <5>5 DEF Kept
      <4>3. QED BY <2>1, <4>1, <4>2 DEF Kept
    <3>4. QED BY <2>1, <3>1, <3>2, <3>3, IntradayAssumption DEF IntradayInv
  <2>3. ASSUME session' = session, anchored' = anchored
        PROVE  \A p, file : Kept(file, p) => Kept(file, p)'
    BY <2>3 DEF Kept, Said, StepOnePlan
  <2>4. ASSUME NEW bars \in BOOLEAN, Monitor(bars) PROVE IntradayInv'
    <3>1. /\ session' = session /\ anchored' = anchored
          /\ bars => session # << >>
          /\ stateFile' = [p \in 1..Len(Plans) |-> Outcome(p, bars)]
      BY <2>4 DEF Monitor
    <3>2. \A p \in 1..Len(Plans) : Outcome(p, bars) \in Saved /\ Kept(Outcome(p, bars), p)
      BY <3>1, OutcomeStands
    <3>3. QED BY <2>1, <2>3, <3>1, <3>2 DEF IntradayInv
  <2>5. ASSUME NEW bars \in BOOLEAN, NEW k \in 1..Len(Plans), MonitorKilled(bars, k)
        PROVE  IntradayInv'
    <3>1. /\ session' = session /\ anchored' = anchored
          /\ bars => session # << >>
          /\ stateFile' = [p \in 1..Len(Plans) |->
                              IF p < k THEN Outcome(p, bars)
                              ELSE IF p = k THEN Torn ELSE stateFile[p]]
      BY <2>5 DEF MonitorKilled
    <3>2. \A p \in 1..Len(Plans) : Outcome(p, bars) \in Saved /\ Kept(Outcome(p, bars), p)
      BY <3>1, OutcomeStands
    <3>3. \A p : Kept(Torn, p)
      BY DEF Kept
    <3>4. \A p \in 1..Len(Plans) : /\ stateFile'[p] \in Saved \cup {NoFile, Torn}
                                   /\ Kept(stateFile'[p], p)
      BY <2>1, <3>1, <3>2, <3>3
    <3>5. stateFile' \in [1..Len(Plans) -> Saved \cup {NoFile, Torn}]
      BY <3>1, <3>4
    <3>6. QED BY <2>1, <2>3, <3>1, <3>4, <3>5 DEF IntradayInv
  <2>6. CASE UNCHANGED intradayVars
    <3>1. session' = session /\ anchored' = anchored /\ stateFile' = stateFile
      BY <2>6 DEF intradayVars
    <3>2. QED BY <2>1, <2>3, <3>1 DEF IntradayInv
  <2>7. QED BY <2>2, <2>4, <2>5, <2>6 DEF IntradayNext
<1>3. QED BY <1>1, <1>2, PTL DEF IntradaySpec

\* Every state file is one of the plan's: a torn one, or a state of the machine with times
\* within the session.
THEOREM IntradayTypeCorrect == IntradaySpec => []IntradayTypeOK
<1>1. IntradayInv => IntradayTypeOK
  <2> SUFFICES ASSUME IntradayInv PROVE IntradayTypeOK
    OBVIOUS
  <2>1. session \in Seq(FiveMinutes)
    BY IntradayAssumption DEF IntradayInv
  <2>2. DOMAIN stateFile = 1..Len(Plans) /\ anchored \in BOOLEAN
    BY DEF IntradayInv
  <2>3. ASSUME NEW p \in 1..Len(Plans), Whole(stateFile[p])
        PROVE  /\ stateFile[p].state \in TriggerStates
               /\ stateFile[p].triggered \in 0..Len(session)
               /\ stateFile[p].invalidated \in 0..Len(session)
    BY <2>3, FileSound DEF Saved
  <2>4. QED BY <2>1, <2>2, <2>3 DEF IntradayTypeOK, Whole
<1>2. QED BY <1>1, IntradayInductive, PTL

\* A signal stands, for sessions of any length and bars of any kind the screener lets
\* through: an evaluator's outcome for the session so far stands by its outcome for every
\* beginning of it (OrlStands, FirstRedStands, VwapFailStands), and a whole file holds the
\* outcome of a beginning.
THEOREM SignalsStand == IntradaySpec => SignalStands
<1>1. ASSUME IntradayInv, FilesSound', IntradayNext,
             NEW p \in DOMAIN stateFile
      PROVE  /\ (Whole(stateFile'[p]) /\ stateFile'[p].state = "triggered") =>
                   Sizable(stateFile'[p])
             /\ (Whole(stateFile[p]) /\ Whole(stateFile'[p])) =>
                   Stands(stateFile[p], stateFile'[p])
  <2>1. p \in 1..Len(Plans)
    BY <1>1 DEF IntradayInv
  <2>2. Whole(stateFile'[p]) /\ stateFile'[p].state = "triggered" => Sizable(stateFile'[p])
    BY <1>1, <2>1 DEF FilesSound, Sound
  <2>3. ASSUME Whole(stateFile[p]), Whole(stateFile'[p])
        PROVE  Stands(stateFile[p], stateFile'[p])
    <3>1. CASE stateFile'[p] = stateFile[p]
      BY <3>1 DEF Stands
    <3>2. ASSUME NEW bars \in BOOLEAN, bars => session # << >>,
                 stateFile'[p] = Outcome(p, bars)
          PROVE  Stands(stateFile[p], stateFile'[p])
      BY <1>1, <2>1, <2>3, <3>2, OutcomeStands
    <3>3. CASE \E bar \in BarKinds : NewBar(bar)
      BY <3>1, <3>3 DEF NewBar
    <3>4. CASE \E bars \in BOOLEAN : Monitor(bars)
      BY <2>1, <3>2, <3>4 DEF Monitor
    <3>5. CASE \E bars \in BOOLEAN, k \in 1..Len(Plans) : MonitorKilled(bars, k)
      <4>1. PICK bars \in BOOLEAN, k \in 1..Len(Plans) : MonitorKilled(bars, k)
        BY <3>5
      <4>2. /\ bars => session # << >>
            /\ \/ stateFile'[p] = Outcome(p, bars)
               \/ stateFile'[p] = Torn
               \/ stateFile'[p] = stateFile[p]
        BY <2>1, <4>1 DEF MonitorKilled
      <4>3. QED BY <2>3, <3>1, <3>2, <4>2 DEF Whole
    <3>6. QED BY <1>1, <3>3, <3>4, <3>5 DEF IntradayNext
  <2>4. QED BY <2>2, <2>3
<1>2. IntradayInv /\ FilesSound' /\ [IntradayNext]_intradayVars =>
         [\A p \in DOMAIN stateFile :
             LET old == stateFile[p]
                 new == stateFile'[p]
             IN  /\ (Whole(new) /\ new.state = "triggered") => Sizable(new)
                 /\ (Whole(old) /\ Whole(new) /\ old.triggered # 0) =>
                        /\ new.triggered = old.triggered
                        /\ new.entry = old.entry
                        /\ new.stop = old.stop
                 /\ (Whole(old) /\ Whole(new) /\ old.state = "invalidated") =>
                        /\ new.state = "invalidated"
                        /\ new.invalidated = old.invalidated]_intradayVars
  BY <1>1 DEF Stands
<1>3. IntradayInv => FilesSound
  BY FileSound DEF FilesSound
<1>4. QED BY <1>2, <1>3, IntradayInductive, PTL DEF IntradaySpec, SignalStands

-----------------------------------------------------------------------------
(***************************************************************************)
(* The follow-through day: a history and the one a session later.          *)
(***************************************************************************)

\* A set of numbers has a least one.
LEMMA LeastElement ==
    ASSUME NEW S \in SUBSET Nat, S # {}
    PROVE  Least(S) \in S /\ \A j \in S : Least(S) <= j
<1> DEFINE T == {n \in Nat : \A j \in S : n < j}
<1>1. \E i \in S : \A j \in S : i <= j
  <2> SUFFICES ASSUME \A i \in S : \E j \in S : j < i PROVE FALSE
    OBVIOUS
  <2>1. 0 \in T
    <3>1. \A i \in S : i # 0
      OBVIOUS
    <3>2. QED BY <3>1
  <2>2. ASSUME NEW n \in T PROVE n + 1 \in T
    <3>1. \A j \in S : j # n + 1
      <4> SUFFICES ASSUME n + 1 \in S PROVE FALSE
        OBVIOUS
      <4>1. PICK j \in S : j < n + 1
        OBVIOUS
      <4>2. n < j
        OBVIOUS
      <4>3. QED BY <4>1, <4>2
    <3>2. QED BY <3>1
  <2>3. T = Nat
    <3> HIDE DEF T
    <3>1. T \in SUBSET Nat
      BY DEF T
    <3>2. QED BY <2>1, <2>2, <3>1, SetInduction
  <2>4. PICK i \in S : TRUE
    OBVIOUS
  <2>5. i \in T
    BY <2>3
  <2>6. QED BY <2>5
<1>2. QED BY <1>1 DEF Least

\* And a last one, if it is bounded.
LEMMA LastElement ==
    ASSUME NEW n \in Nat, NEW S \in SUBSET (0..n), S # {}
    PROVE  Last(S) \in S /\ \A j \in S : j <= Last(S)
<1> DEFINE T == {n - j : j \in S}
<1>1. T \in SUBSET Nat /\ T # {}
  <2>1. \A j \in S : n - j \in Nat
    OBVIOUS
  <2>2. QED BY <2>1
<1>2. Least(T) \in T /\ \A k \in T : Least(T) <= k
  BY <1>1, LeastElement
<1>3. PICK i \in S : Least(T) = n - i
  BY <1>2
<1>4. \A j \in S : j <= i
  <2> TAKE j \in S
  <2>1. n - i <= n - j
    BY <1>2, <1>3
  <2>2. i \in 0..n /\ j \in 0..n
    OBVIOUS
  <2>3. QED BY <2>1, <2>2
<1>5. QED BY <1>4 DEF Last

\* The sessions that are looked at are the last ones.
LEMMA DaysInterval ==
    ASSUME NEW h \in Seq(Bars)
    PROVE  /\ Len(h) \in Nat
           /\ \E start \in Nat \ {0} : Days(h) = start..Len(h)
           /\ Days(h) \subseteq 1..Len(h)
<1>1. Len(h) \in Nat /\ Window \in Nat
  BY FollowThroughAssumption
<1>2. PICK start \in Nat \ {0} : Days(h) = start..Len(h)
  <2>1. CASE Len(h) > Window
    <3>1. Len(h) - Window + 1 \in Nat \ {0} /\ Days(h) = (Len(h) - Window + 1)..Len(h)
      BY <1>1, <2>1 DEF Days
    <3>2. QED BY <3>1
  <2>2. CASE ~ (Len(h) > Window)
    <3>1. 1 \in Nat \ {0} /\ Days(h) = 1..Len(h)
      BY <2>2 DEF Days
    <3>2. QED BY <3>1
  <2>3. QED BY <2>1, <2>2
<1>3. Days(h) \subseteq 1..Len(h)
  BY <1>1, <1>2
<1>4. QED BY <1>1, <1>2, <1>3

\* h2 is h and one more session.
Grown(h2, h) ==
    /\ h \in Seq(Bars) /\ h2 \in Seq(Bars)
    /\ Len(h2) = Len(h) + 1
    /\ \A i \in 1..Len(h) : h2[i] = h[i]

LEMMA BarTypes ==
    ASSUME NEW h \in Seq(Bars), NEW i \in 1..Len(h)
    PROVE  /\ h[i] \in Bars /\ Close(h, i) \in Nat /\ h[i].low \in Nat /\ h[i].high \in Nat
           /\ h[i].close \in Nat /\ h[i].volume \in Nat
<1>1. h[i] \in Bars
  OBVIOUS
<1>2. QED BY <1>1 DEF Close, Bars

\* The window loses a session at its beginning or none, and gains the new one.
LEMMA DaysGrow ==
    ASSUME NEW h, NEW h2, Grown(h2, h), NEW s \in Days(h2), s <= Len(h)
    PROVE  /\ s \in Days(h) /\ s \in 1..Len(h)
           /\ From(h, s) = (s + 1)..Len(h)
           /\ From(h2, s) = From(h, s) \cup {Len(h) + 1}
<1>1. Len(h) \in Nat /\ Window \in Nat /\ Len(h2) = Len(h) + 1
  BY FollowThroughAssumption, DaysInterval DEF Grown
<1>2. s \in Days(h) /\ s \in 1..Len(h)
  BY <1>1 DEF Days
<1>3. From(h, s) = (s + 1)..Len(h)
  BY <1>1, <1>2 DEF From, Days
<1>4. From(h2, s) = (s + 1)..(Len(h) + 1)
  BY <1>1 DEF From, Days
<1>5. (s + 1)..(Len(h) + 1) = (s + 1)..Len(h) \cup {Len(h) + 1}
  BY <1>1, <1>2
<1>6. QED BY <1>2, <1>3, <1>4, <1>5

\* Of the sessions that were there, the same are candidates for day 1.
LEMMA Day1Grows ==
    ASSUME NEW h, NEW h2, Grown(h2, h), NEW s \in Days(h2), s <= Len(h)
    PROVE  /\ FirstDays(h2, s) \subseteq FirstDays(h, s) \cup {Len(h) + 1}
           /\ FirstDays(h, s) \subseteq FirstDays(h2, s)
           /\ HasDay1(h, s) =>
                 /\ HasDay1(h2, s) /\ Day1(h2, s) = Day1(h, s)
                 /\ Day1(h, s) \in From(h, s)
           /\ HasDay1(h2, s) => \/ HasDay1(h, s) /\ Day1(h2, s) = Day1(h, s)
                                \/ ~HasDay1(h, s) /\ Day1(h2, s) = Len(h) + 1
<1> DEFINE n == Len(h)
           F == FirstDays(h, s)
           F2 == FirstDays(h2, s)
<1>1. /\ n \in Nat /\ s \in 1..n /\ From(h, s) = (s + 1)..n
      /\ From(h2, s) = From(h, s) \cup {n + 1}
      /\ \A i \in 1..n : h2[i] = h[i]
  BY DaysGrow, DaysInterval DEF Grown
<1>2. \A i \in From(h, s) : i \in F <=> i \in F2
  <2> SUFFICES ASSUME NEW i \in From(h, s) PROVE i \in F <=> i \in F2
    OBVIOUS
  <2>1. i \in 1..n /\ i - 1 \in 1..n /\ i \in From(h2, s)
    BY <1>1
  <2>2. h2[i] = h[i] /\ h2[i - 1] = h[i - 1]
    BY <1>1, <2>1
  <2>3. QED BY <2>1, <2>2 DEF FirstDays, Close
<1>3. F \subseteq From(h, s) /\ F2 \subseteq From(h2, s)
  BY DEF FirstDays
<1> HIDE DEF F, F2, n
<1>4. F2 \subseteq F \cup {n + 1} /\ F \subseteq F2
  BY <1>1, <1>2, <1>3
<1>5. F \in SUBSET (1..n) /\ F \in SUBSET Nat /\ F2 \in SUBSET Nat
  BY <1>1, <1>3, <1>4
<1> DEFINE a == Least(F)
           a2 == Least(F2)
<1>6. ASSUME F # {} PROVE a2 = a /\ a \in From(h, s)
  <2>1. a \in F /\ \A j \in F : a <= j
    BY <1>5, <1>6, LeastElement
  <2>2. a2 \in F2 /\ \A j \in F2 : a2 <= j
    BY <1>4, <1>5, <1>6, LeastElement
  <2> HIDE DEF a, a2
  <2>3. a2 <= a /\ a <= n
    <3>1. a \in F2 /\ a \in 1..n
      BY <1>4, <1>5, <2>1
    <3>2. QED BY <1>1, <2>2, <3>1
  <2>4. a2 \in F
    <3>1. a2 \in Nat /\ a \in Nat /\ a2 # n + 1
      BY <1>1, <1>5, <2>1, <2>2, <2>3
    <3>2. QED BY <1>4, <2>2, <3>1
  <2>5. a \in Nat /\ a2 \in Nat /\ a <= a2
    BY <1>5, <2>1, <2>2, <2>4
  <2>6. QED BY <1>3, <2>1, <2>3, <2>5
<1>7. ASSUME F = {}, F2 # {} PROVE Least(F2) = n + 1
  <2>1. Least(F2) \in F2
    BY <1>5, <1>7, LeastElement
  <2>2. QED BY <1>4, <1>7, <2>1
<1>8. QED BY <1>4, <1>6, <1>7 DEF HasDay1, Day1, F, F2, n

\* An attempt that failed stays failed.
LEMMA FailsGrows ==
    ASSUME NEW h, NEW h2, Grown(h2, h), NEW s \in Days(h2), s <= Len(h), Fails(h, s)
    PROVE  Fails(h2, s)
<1>1. /\ Len(h) \in Nat /\ s \in 1..Len(h) /\ From(h, s) = (s + 1)..Len(h)
      /\ From(h2, s) = From(h, s) \cup {Len(h) + 1}
      /\ \A i \in 1..Len(h) : h2[i] = h[i]
  BY DaysGrow, DaysInterval DEF Grown
<1>2. CASE \E i \in From(h, s) : Close(h, i) < Close(h, s)
  <2>1. PICK i \in From(h, s) : Close(h, i) < Close(h, s)
    BY <1>2
  <2>2. i \in From(h2, s) /\ h2[i] = h[i] /\ h2[s] = h[s]
    BY <1>1
  <2>3. QED BY <2>1, <2>2 DEF Fails, Close
<1>3. CASE /\ HasDay1(h, s)
           /\ \E i \in From(h, Day1(h, s)) : /\ i <= Day1(h, s) + 2
                                             /\ Close(h, i) < h[Day1(h, s)].low
  <2>1. /\ HasDay1(h2, s) /\ Day1(h2, s) = Day1(h, s) /\ Day1(h, s) \in From(h, s)
    BY <1>3, Day1Grows
  <2> DEFINE d == Day1(h, s)
  <2> HIDE DEF d
  <2>2. d \in From(h, s) /\ d \in 1..Len(h)
    BY <1>1, <2>1 DEF d
  <2>3. PICK i \in From(h, d) : i <= d + 2 /\ Close(h, i) < h[d].low
    BY <1>3 DEF d
  <2>4. d \in Days(h2) /\ d <= Len(h)
    BY <1>1, <2>2 DEF From
  <2>5. From(h, d) = (d + 1)..Len(h) /\ From(h2, d) = From(h, d) \cup {Len(h) + 1}
    BY <2>4, DaysGrow
  <2>6. i \in From(h2, d) /\ h2[i] = h[i] /\ h2[d] = h[d]
    BY <1>1, <2>2, <2>5
  <2>7. QED BY <2>1, <2>3, <2>6 DEF Fails, Close, d
<1>4. QED BY <1>2, <1>3 DEF Fails

\* An FTD is three sessions after day 1 or later, and the first such session.
LEMMA FtdIsFirst ==
    ASSUME NEW h \in Seq(Bars), NEW s \in Days(h), HasFtd(h, s)
    PROVE  /\ Ftd(h, s) \in FollowThroughs(h, s) /\ Ftd(h, s) \in From(h, s)
           /\ \A i \in FollowThroughs(h, s) : Ftd(h, s) <= i
           /\ HasDay1(h, s) /\ Day1(h, s) \in From(h, s)
           /\ Ftd(h, s) \in 1..Len(h) /\ Day1(h, s) + 3 <= Ftd(h, s)
<1>1. /\ Len(h) \in Nat /\ From(h, s) \subseteq 1..Len(h)
      /\ FirstDays(h, s) \subseteq From(h, s) /\ FollowThroughs(h, s) \subseteq From(h, s)
  BY DaysInterval DEF From, FirstDays, FollowThroughs
<1>2. HasDay1(h, s) /\ FollowThroughs(h, s) # {}
  BY DEF HasFtd
<1>3. Day1(h, s) \in FirstDays(h, s)
  <2>1. FirstDays(h, s) \in SUBSET Nat /\ FirstDays(h, s) # {}
    BY <1>1, <1>2 DEF HasDay1
  <2>2. QED BY <2>1, LeastElement DEF Day1
<1>4. /\ Ftd(h, s) \in FollowThroughs(h, s)
      /\ \A i \in FollowThroughs(h, s) : Ftd(h, s) <= i
  <2>1. FollowThroughs(h, s) \in SUBSET Nat
    BY <1>1
  <2>2. QED BY <1>2, <2>1, LeastElement DEF Ftd
<1>5. /\ Day1(h, s) \in From(h, s) /\ Ftd(h, s) \in From(h, s)
      /\ Day1(h, s) \in 1..Len(h) /\ Ftd(h, s) \in 1..Len(h)
  BY <1>1, <1>3, <1>4
<1>6. Ftd(h, s) - Day1(h, s) + 1 \in 4..10
  BY <1>4 DEF FollowThroughs, FTD_DAY_START, FTD_DAY_END
<1>7. Day1(h, s) + 3 <= Ftd(h, s)
  BY <1>5, <1>6
<1>8. QED BY <1>2, <1>4, <1>5, <1>7

\* Once there is a day 1, the sessions that were there are FTDs or not as before.
LEMMA FollowThroughsGrow ==
    ASSUME NEW h, NEW h2, Grown(h2, h), NEW s \in Days(h2), s <= Len(h), HasDay1(h, s)
    PROVE  /\ FollowThroughs(h2, s) \subseteq FollowThroughs(h, s) \cup {Len(h) + 1}
           /\ FollowThroughs(h, s) \subseteq FollowThroughs(h2, s)
<1>1. /\ Len(h) \in Nat /\ s \in 1..Len(h) /\ From(h, s) = (s + 1)..Len(h)
      /\ From(h2, s) = From(h, s) \cup {Len(h) + 1}
      /\ \A i \in 1..Len(h) : h2[i] = h[i]
  BY DaysGrow, DaysInterval DEF Grown
<1>2. Day1(h2, s) = Day1(h, s)
  BY Day1Grows
<1>3. ASSUME NEW i \in From(h, s)
      PROVE  i \in FollowThroughs(h, s) <=> i \in FollowThroughs(h2, s)
  <2>1. i \in 1..Len(h) /\ i - 1 \in 1..Len(h) /\ i \in From(h2, s)
    BY <1>1
  <2>2. h2[i] = h[i] /\ h2[i - 1] = h[i - 1]
    BY <1>1, <2>1
  <2>3. GainPct100(h2, i) = GainPct100(h, i)
    BY <2>2 DEF GainPct100, Close
  <2>4. QED BY <1>2, <2>1, <2>2, <2>3 DEF FollowThroughs
<1>4. /\ FollowThroughs(h, s) \subseteq From(h, s)
      /\ FollowThroughs(h2, s) \subseteq From(h2, s)
  BY DEF FollowThroughs
<1>5. QED BY <1>1, <1>3, <1>4

\* An attempt that has its FTD keeps it when the next close is not below the swing low:
\* days 2 and 3 are over.
LEMMA FtdHolds ==
    ASSUME NEW h, NEW h2, Grown(h2, h), NEW s \in Days(h2), s <= Len(h), HasFtd(h, s),
           Close(h2, Len(h) + 1) >= Close(h, s)
    PROVE  HasFtd(h2, s) /\ Ftd(h2, s) = Ftd(h, s)
<1> DEFINE n == Len(h)
           d == Day1(h, s)
<1>1. /\ n \in Nat /\ s \in Days(h) /\ s \in 1..n /\ From(h, s) = (s + 1)..n
      /\ From(h2, s) = From(h, s) \cup {n + 1} /\ h \in Seq(Bars) /\ h2 \in Seq(Bars)
      /\ Len(h2) = n + 1 /\ \A i \in 1..n : h2[i] = h[i]
  BY DaysGrow, DaysInterval DEF Grown
<1>2. /\ Ftd(h, s) \in FollowThroughs(h, s) /\ Ftd(h, s) \in 1..n
      /\ \A i \in FollowThroughs(h, s) : Ftd(h, s) <= i
      /\ HasDay1(h, s) /\ d \in From(h, s) /\ d + 3 <= Ftd(h, s)
  BY <1>1, FtdIsFirst
<1>3. HasDay1(h2, s) /\ Day1(h2, s) = d
  BY <1>2, Day1Grows
<1>4. ~ Fails(h, s)
  BY DEF HasFtd
<1>5. ~ \E i \in From(h2, s) : Close(h2, i) < Close(h2, s)
  <2> SUFFICES ASSUME NEW i \in From(h2, s) PROVE ~ (Close(h2, i) < Close(h2, s))
    OBVIOUS
  <2>1. Close(h2, s) = Close(h, s) /\ Close(h, s) \in Nat
    BY <1>1, BarTypes DEF Close
  <2>2. CASE i \in From(h, s)
    <3>1. Close(h2, i) = Close(h, i)
      BY <1>1, <2>2 DEF Close
    <3>2. QED BY <1>4, <2>1, <2>2, <3>1 DEF Fails
  <2>3. CASE i = n + 1
    <3>1. n + 1 \in 1..Len(h2)
      BY <1>1
    <3>2. Close(h2, n + 1) \in Nat
      BY <1>1, <3>1, BarTypes
    <3>3. QED BY <2>1, <2>3, <3>2
  <2>4. QED BY <1>1, <2>2, <2>3
<1>6. ~ \E i \in From(h2, d) : i <= d + 2 /\ Close(h2, i) < h2[d].low
  <2> HIDE DEF d
  <2> SUFFICES ASSUME NEW i \in From(h2, d), i <= d + 2, Close(h2, i) < h2[d].low
               PROVE  FALSE
    OBVIOUS
  <2>1. d \in Days(h2) /\ d <= n /\ d \in 1..n
    BY <1>1, <1>2 DEF From
  <2>2. From(h, d) = (d + 1)..n /\ From(h2, d) = From(h, d) \cup {n + 1}
    BY <2>1, DaysGrow
  <2>3. i # n + 1
    BY <1>1, <1>2, <2>1
  <2>4. i \in From(h, d) /\ h2[i] = h[i] /\ h2[d] = h[d]
    BY <1>1, <2>1, <2>2, <2>3
  <2>5. QED BY <1>2, <1>4, <2>4 DEF Fails, Close, d
<1>7. ~ Fails(h2, s)
  BY <1>3, <1>5, <1>6 DEF Fails
<1>8. /\ FollowThroughs(h2, s) \subseteq FollowThroughs(h, s) \cup {n + 1}
      /\ FollowThroughs(h, s) \subseteq FollowThroughs(h2, s)
  BY <1>2, FollowThroughsGrow
<1>9. HasFtd(h2, s)
  BY <1>2, <1>3, <1>7, <1>8 DEF HasFtd
<1>10. Ftd(h2, s) = Ftd(h, s)
  <2> DEFINE a == Ftd(h, s)
             a2 == Ftd(h2, s)
  <2>1. /\ a2 \in FollowThroughs(h2, s) /\ \A i \in FollowThroughs(h2, s) : a2 <= i
        /\ a2 \in 1..Len(h2)
    BY <1>1, <1>9, FtdIsFirst
  <2>2. a \in FollowThroughs(h, s) /\ a \in 1..n /\ \A i \in FollowThroughs(h, s) : a <= i
    BY <1>2
  <2> HIDE DEF a, a2
  <2>3. a2 <= a
    BY <1>8, <2>1, <2>2
  <2>4. a2 \in Int /\ a \in Int /\ a2 # n + 1
    BY <1>1, <2>1, <2>2, <2>3
  <2>5. a2 \in FollowThroughs(h, s)
    BY <1>8, <2>1, <2>4
  <2>6. a2 = a
    BY <2>2, <2>3, <2>4, <2>5
  <2>7. QED BY <2>6 DEF a, a2
<1>11. QED BY <1>9, <1>10

\* An attempt that has an FTD had it the session before, or has it of this one.
LEMMA FtdComes ==
    ASSUME NEW h, NEW h2, Grown(h2, h), NEW s \in Days(h2), HasFtd(h2, s)
    PROVE  /\ s <= Len(h) /\ s \in Days(h)
           /\ HasFtd(h, s) \/ Ftd(h2, s) = Len(h) + 1
<1> DEFINE n == Len(h)
           f == Ftd(h2, s)
<1>1. /\ n \in Nat /\ Len(h2) = n + 1 /\ h \in Seq(Bars) /\ h2 \in Seq(Bars)
  BY DaysInterval DEF Grown
<1>2. /\ f \in FollowThroughs(h2, s) /\ f \in From(h2, s) /\ f \in 1..(n + 1)
      /\ HasDay1(h2, s) /\ Day1(h2, s) + 3 <= f /\ Day1(h2, s) \in From(h2, s)
  BY <1>1, FtdIsFirst
<1>3. s \in 1..(n + 1) /\ s < f /\ Day1(h2, s) \in Int
  BY <1>1, <1>2, DaysInterval DEF From
<1>4. s <= n
  BY <1>1, <1>2, <1>3
<1>5. s \in Days(h)
  BY <1>4, DaysGrow
<1>6. ASSUME f # n + 1 PROVE HasFtd(h, s)
  <2>1. HasDay1(h, s)
    <3>1. Day1(h2, s) # n + 1
      BY <1>1, <1>2, <1>3
    <3>2. QED BY <1>2, <1>4, <3>1, Day1Grows
  <2>2. ~ Fails(h, s)
    BY <1>4, FailsGrows DEF HasFtd
  <2>3. f \in FollowThroughs(h, s)
    BY <1>2, <1>4, <1>6, <2>1, FollowThroughsGrow
  <2>4. QED BY <2>1, <2>2, <2>3 DEF HasFtd
<1>7. QED BY <1>4, <1>5, <1>6

\* There is a highest close between two sessions.
LEMMA HighestClose ==
    ASSUME NEW h \in Seq(Bars), NEW lo \in 1..Len(h), NEW hi \in lo..Len(h)
    PROVE  \E j \in lo..hi : \A k \in lo..hi : Close(h, k) <= Close(h, j)
<1> DEFINE Highest(m) == \E j \in lo..m : \A k \in lo..m : Close(h, k) <= Close(h, j)
           S == {m \in lo..hi : Highest(m)}
<1>1. lo \in Nat /\ hi \in Nat /\ Len(h) \in Nat /\ hi <= Len(h)
  BY DaysInterval
<1>2. lo \in S
  <2>1. Close(h, lo) \in Nat
    BY BarTypes
  <2>2. QED BY <1>1, <2>1
<1>3. ASSUME NEW m \in lo..(hi - 1), m \in S PROVE m + 1 \in S
  <2>1. PICK j \in lo..m : \A k \in lo..m : Close(h, k) <= Close(h, j)
    BY <1>3
  <2>2. /\ m + 1 \in lo..hi /\ m + 1 \in 1..Len(h) /\ j \in 1..Len(h)
        /\ \A k \in lo..m : k \in 1..Len(h)
    BY <1>1
  <2>3. /\ Close(h, m + 1) \in Nat /\ Close(h, j) \in Nat
        /\ \A k \in lo..m : Close(h, k) \in Nat
    BY <2>2, BarTypes
  <2>4. \A k \in lo..(m + 1) : k \in lo..m \/ k = m + 1
    BY <1>1
  <2>5. CASE Close(h, m + 1) <= Close(h, j)
    <3>1. j \in lo..(m + 1) /\ \A k \in lo..(m + 1) : Close(h, k) <= Close(h, j)
      BY <2>1, <2>4, <2>5
    <3>2. QED BY <2>2, <3>1
  <2>6. CASE ~ (Close(h, m + 1) <= Close(h, j))
    <3>1. \A k \in lo..m : Close(h, k) <= Close(h, m + 1)
      BY <2>1, <2>3, <2>6
    <3>2. m + 1 \in lo..(m + 1)
      BY <1>1
    <3>3. \A k \in lo..(m + 1) : Close(h, k) <= Close(h, m + 1)
      BY <2>3, <2>4, <3>1
    <3>4. QED BY <2>2, <3>2, <3>3
  <2>7. QED BY <2>5, <2>6
<1>4. lo..hi \subseteq S
  <2> HIDE DEF S
  <2>1. QED BY <1>1, <1>2, <1>3, IntervalInduction
<1>5. hi \in S
  <2> HIDE DEF S
  <2>1. hi \in lo..hi
    BY <1>1
  <2>2. QED BY <1>4, <2>1
<1>6. QED BY <1>5

\* The sessions before i among which its recent high is.
Before(h, i) == {j \in Days(h) : j < i /\ j >= i - 40}
Tops(h, i) == {j \in Before(h, i) : \A k \in Before(h, i) : Close(h, k) <= Close(h, j)}

LEMMA RecentHighExists ==
    ASSUME NEW h \in Seq(Bars), NEW i \in Days(h), i - 1 \in Days(h)
    PROVE  /\ RecentHigh(h, i) \in Tops(h, i) /\ RecentHigh(h, i) \in 1..(i - 1)
           /\ \A j \in Tops(h, i) : RecentHigh(h, i) <= j
<1>1. PICK start \in Nat \ {0} : Days(h) = start..Len(h) /\ Len(h) \in Nat
  BY DaysInterval
<1>2. PICK lo \in 1..(i - 1) : Before(h, i) = lo..(i - 1)
  <2>1. CASE start >= i - 40
    <3>1. start \in 1..(i - 1) /\ Before(h, i) = start..(i - 1)
      BY <1>1, <2>1 DEF Before
    <3>2. QED BY <3>1
  <2>2. CASE start < i - 40
    <3>1. i - 40 \in 1..(i - 1) /\ Before(h, i) = (i - 40)..(i - 1)
      BY <1>1, <2>2 DEF Before
    <3>2. QED BY <3>1
  <2>3. QED BY <1>1, <2>1, <2>2
<1>3. Tops(h, i) # {}
  <2>1. lo \in 1..Len(h) /\ i - 1 \in lo..Len(h)
    BY <1>1, <1>2
  <2>2. \E j \in lo..(i - 1) : \A k \in lo..(i - 1) : Close(h, k) <= Close(h, j)
    BY <2>1, HighestClose
  <2>3. QED BY <1>2, <2>2 DEF Tops
<1>4. Tops(h, i) \subseteq 1..(i - 1) /\ Tops(h, i) \in SUBSET Nat
  BY <1>1, <1>2 DEF Tops
<1>5. RecentHigh(h, i) = Least(Tops(h, i))
  BY Zenon DEF RecentHigh, Tops, Before
<1>6. QED BY <1>3, <1>4, <1>5, LeastElement

\* A swing low of the sessions that were there was one before: its recent high can only
\* have been higher and earlier, with more down days since.
LEMMA LowsGrow ==
    ASSUME NEW h, NEW h2, Grown(h2, h), NEW i \in AllLows(h2), i <= Len(h)
    PROVE  i \in AllLows(h)
<1> DEFINE n == Len(h)
<1>1. /\ n \in Nat /\ Len(h2) = n + 1 /\ h \in Seq(Bars) /\ h2 \in Seq(Bars)
      /\ \A k \in 1..n : h2[k] = h[k]
  BY DaysInterval DEF Grown
<1>2. i \in Days(h2) /\ i \in Days(h) /\ i \in 1..n
  BY DaysGrow DEF AllLows
<1>3. \A k \in Days(h2) : k <= n => k \in Days(h)
  BY DaysGrow
<1>4. /\ i >= Least(Days(h)) + 4 /\ i - 1 \in Days(h2) /\ i - 1 \in Days(h)
  <2>1. PICK a \in Nat \ {0} : Days(h) = a..n
    BY <1>1, DaysInterval
  <2>2. PICK a2 \in Nat \ {0} : Days(h2) = a2..(n + 1)
    BY <1>1, DaysInterval
  <2>3. Least(Days(h)) = a
    <3>1. Days(h) \in SUBSET Nat /\ a \in Days(h)
      BY <1>1, <1>2, <2>1
    <3>2. Least(Days(h)) \in Days(h) /\ Least(Days(h)) <= a
      BY <3>1, LeastElement
    <3>3. QED BY <1>1, <2>1, <3>2
  <2>4. Least(Days(h2)) = a2
    <3>1. Days(h2) \in SUBSET Nat /\ a2 \in Days(h2)
      BY <1>1, <1>2, <2>2
    <3>2. Least(Days(h2)) \in Days(h2) /\ Least(Days(h2)) <= a2
      BY <3>1, LeastElement
    <3>3. QED BY <1>1, <2>2, <3>2
  <2>5. i >= a2 + 4
    BY <2>4 DEF AllLows
  <2>6. a2 \in Days(h2) /\ a2 <= n
    BY <1>1, <1>2, <2>2
  <2>7. a <= a2
    BY <1>3, <2>1, <2>6
  <2>8. i \in Nat
    BY <1>2
  <2>9. QED BY <1>1, <1>2, <2>1, <2>2, <2>3, <2>5, <2>7, <2>8
<1> DEFINE r == RecentHigh(h, i)
           r2 == RecentHigh(h2, i)
<1>5. r \in Tops(h, i) /\ r \in 1..(i - 1) /\ \A j \in Tops(h, i) : r <= j
  BY <1>1, <1>2, <1>4, RecentHighExists
<1>6. r2 \in Tops(h2, i) /\ r2 \in 1..(i - 1) /\ \A j \in Tops(h2, i) : r2 <= j
  BY <1>1, <1>2, <1>4, RecentHighExists
<1>7. /\ 100 * (Close(h2, r2) - Close(h2, i)) >= 3 * Close(h2, r2)
      /\ Cardinality({j \in (r2 + 1)..i : IsDown(h2, j)}) >= 3
      /\ Close(h2, i - 1) >= Close(h2, i)
      /\ i < Len(h2) => Close(h2, i + 1) >= Close(h2, i)
  BY DEF AllLows, IsSwingLow
<1> HIDE DEF r, r2, n
<1>8. \A k \in 1..n : Close(h2, k) = Close(h, k) /\ Close(h, k) \in Nat
  BY <1>1, BarTypes DEF Close, n
<1>9. Before(h2, i) \subseteq Before(h, i) /\ Before(h, i) \subseteq 1..n
  <2>1. \A j \in Before(h2, i) : j \in Days(h2) /\ j \in Int /\ j < i /\ i <= n
    BY <1>1, <1>2, DaysInterval DEF Before, n
  <2>2. \A j \in Before(h2, i) : j <= n
    BY <1>1, <1>2, <2>1
  <2>3. Days(h) \subseteq 1..n
    BY <1>1, DaysInterval DEF n
  <2>4. QED BY <1>3, <2>1, <2>2, <2>3 DEF Before
<1>10. Close(h, r2) <= Close(h, r)
  BY <1>5, <1>6, <1>9 DEF Tops
<1>11. r <= r2
  <2> SUFFICES ASSUME ~ (r <= r2) PROVE FALSE
    OBVIOUS
  <2>1. r2 \in Before(h2, i) /\ r \in Before(h, i) /\ r2 \in 1..n /\ r \in 1..n
    BY <1>5, <1>6, <1>9 DEF Tops
  <2>2. r2 \in Days(h2) /\ r2 >= i - 40 /\ r < i
    BY <2>1 DEF Before
  <2>3. r \in Days(h2)
    <3>1. PICK a2 \in Nat \ {0} : Days(h2) = a2..(n + 1)
      BY <1>1, DaysInterval DEF n
    <3>2. QED BY <1>1, <2>1, <2>2, <3>1
  <2>4. r \in Before(h2, i)
    BY <1>2, <2>1, <2>2, <2>3 DEF Before
  <2>5. Close(h2, r) <= Close(h2, r2)
    BY <1>6, <2>4 DEF Tops
  <2>6. Close(h, r) = Close(h, r2)
    BY <1>8, <1>10, <2>1, <2>5
  <2>7. r2 \in Tops(h, i)
    BY <1>5, <1>9, <2>1, <2>6 DEF Tops
  <2>8. QED BY <1>5, <2>7
<1>12. 100 * (Close(h, r) - Close(h, i)) >= 3 * Close(h, r)
  <2>1. r \in 1..n /\ r2 \in 1..n /\ i \in 1..n
    BY <1>1, <1>2, <1>5, <1>6
  <2>2. Close(h2, r2) = Close(h, r2) /\ Close(h2, i) = Close(h, i)
    BY <1>8, <2>1
  <2>3. Close(h, r) \in Nat /\ Close(h, r2) \in Nat /\ Close(h, i) \in Nat
    BY <1>8, <2>1
  <2>4. QED BY <1>7, <1>10, <2>2, <2>3
<1>13. Cardinality({j \in (r + 1)..i : IsDown(h, j)}) >= 3
  <2> DEFINE D == {j \in (r + 1)..i : IsDown(h, j)}
             D2 == {j \in (r2 + 1)..i : IsDown(h2, j)}
  <2>1. D2 \subseteq D
    <3> SUFFICES ASSUME NEW j \in D2 PROVE j \in D
      OBVIOUS
    <3>1. j \in (r + 1)..i /\ j \in 1..n /\ j - 1 \in 1..n
      BY <1>1, <1>2, <1>5, <1>6, <1>11
    <3>2. QED BY <1>8, <3>1 DEF IsDown
  <2>2. IsFiniteSet(D) /\ Cardinality(D) \in Nat
    <3>1. IsFiniteSet((r + 1)..i)
      BY <1>2, <1>5, FS_Interval
    <3>2. D \subseteq (r + 1)..i
      OBVIOUS
    <3> HIDE DEF D
    <3>3. IsFiniteSet(D)
      BY <3>1, <3>2, FS_Subset
    <3>4. QED BY <3>3, FS_CardinalityType
  <2> HIDE DEF D, D2
  <2>3. Cardinality(D2) <= Cardinality(D) /\ Cardinality(D2) \in Nat
    BY <2>1, <2>2, FS_Subset, FS_CardinalityType
  <2>4. Cardinality(D2) >= 3
    BY <1>7 DEF D2
  <2>5. Cardinality(D) >= 3
    BY <2>2, <2>3, <2>4
  <2>6. QED BY <2>5 DEF D
<1>14. Close(h, i - 1) >= Close(h, i)
  <2>1. i \in 1..n /\ i - 1 \in 1..n
    BY <1>2, <1>4, DaysInterval, <1>1 DEF n
  <2>2. QED BY <1>7, <1>8, <2>1
<1>15. i < n => Close(h, i + 1) >= Close(h, i)
  <2> SUFFICES ASSUME i < n PROVE Close(h, i + 1) >= Close(h, i)
    OBVIOUS
  <2>1. i \in 1..n /\ i + 1 \in 1..n /\ i < Len(h2)
    BY <1>1, <1>2
  <2>2. QED BY <1>7, <1>8, <2>1
<1>16. IsSwingLow(h, i)
  BY <1>12, <1>13, <1>14, <1>15 DEF IsSwingLow, r, n
<1>17. QED BY <1>2, <1>4, <1>16 DEF AllLows

\* A low that is later than one among the latest is among them itself.
LEMMA SwingLowsGrow ==
    ASSUME NEW h, NEW h2, Grown(h2, h), NEW s \in SwingLows(h), NEW o \in SwingLows(h2),
           s < o, o <= Len(h)
    PROVE  o \in SwingLows(h)
<1> DEFINE A == {j \in AllLows(h) : j > s}
           B == {j \in AllLows(h) : j > o}
<1>1. o \in AllLows(h)
  BY LowsGrow DEF SwingLows
<1>2. AllLows(h) \subseteq 1..Len(h) /\ Len(h) \in Nat
  BY DaysInterval DEF AllLows, Grown
<1>3. s \in 1..Len(h) /\ o \in 1..Len(h) /\ Cardinality(A) < MaxLows
  BY <1>1, <1>2 DEF SwingLows
<1>4. B \subseteq A
  BY <1>2, <1>3
<1>5. IsFiniteSet(A)
  <2>1. IsFiniteSet(1..Len(h)) /\ A \subseteq 1..Len(h)
    BY <1>2, FS_Interval
  <2> HIDE DEF A
  <2>2. QED BY <2>1, FS_Subset
<1> HIDE DEF A, B
<1>6. Cardinality(B) <= Cardinality(A) /\ Cardinality(A) \in Nat /\ Cardinality(B) \in Nat
  BY <1>4, <1>5, FS_Subset, FS_CardinalityType
<1>7. Cardinality(B) < MaxLows
  BY <1>3, <1>6, FollowThroughAssumption
<1>8. QED BY <1>1, <1>7 DEF SwingLows, B

\* What the latest low gives: an FTD only if it has one.
LEMMA LatestFtd ==
    ASSUME NEW h \in Seq(Bars), NEW s \in Days(h)
    PROVE  /\ HasFtd(h, s) => OfLatest(h, s) = OfFtd(h, s) /\ OfFtd(h, s).ftd # 0
           /\ ~HasFtd(h, s) => OfLatest(h, s).ftd = 0
                               /\ OfLatest(h, s).state # "FTD_CONFIRMED"
<1>1. ASSUME HasFtd(h, s) PROVE OfLatest(h, s) = OfFtd(h, s) /\ OfFtd(h, s).ftd # 0
  <2>1. ~ Fails(h, s) /\ HasDay1(h, s)
    BY <1>1 DEF HasFtd
  <2>2. OfLatest(h, s) = OfFtd(h, s)
    BY <1>1, <2>1 DEF OfLatest
  <2>3. Ftd(h, s) \in 1..Len(h)
    BY <1>1, FtdIsFirst
  <2>4. OfFtd(h, s).ftd = Ftd(h, s)
    BY DEF OfFtd, Verdict
  <2>5. QED BY <2>2, <2>3, <2>4, DaysInterval
<1>2. ASSUME ~HasFtd(h, s)
      PROVE  OfLatest(h, s).ftd = 0 /\ OfLatest(h, s).state # "FTD_CONFIRMED"
  <2>1. CASE Fails(h, s)
    BY <1>2, <2>1 DEF OfLatest, Verdict
  <2>2. CASE ~Fails(h, s) /\ ~HasDay1(h, s)
    BY <1>2, <2>2 DEF OfLatest, Verdict
  <2>3. CASE ~Fails(h, s) /\ HasDay1(h, s)
    <3>1. OfLatest(h, s) =
             Verdict(IF DayCount(h, s) < FTD_DAY_START THEN "RALLY_ATTEMPT"
                     ELSE IF DayCount(h, s) <= FTD_DAY_END THEN "FTD_WINDOW"
                     ELSE "RALLY_FAILED", s, 0)
      BY <1>2, <2>3 DEF OfLatest
    <3>2. QED BY <3>1 DEF Verdict
  <2>4. QED BY <2>1, <2>2, <2>3
<1>3. QED BY <1>1, <1>2

\* The latest of the lows that have an FTD: the one the verdict is about.
Decides(h, s) ==
    /\ Len(h) >= 10
    /\ s \in SwingLows(h) /\ HasFtd(h, s)
    /\ \A o \in SwingLows(h) : o > s => ~HasFtd(h, o)

LEMMA LowsInWindow ==
    ASSUME NEW h \in Seq(Bars)
    PROVE  SwingLows(h) \subseteq Days(h) /\ SwingLows(h) \in SUBSET (0..Len(h))
BY DaysInterval DEF SwingLows, AllLows

\* A confirmed verdict is about it,
LEMMA ConfirmedDecides ==
    ASSUME NEW h \in Seq(Bars), Analysis(h).state = "FTD_CONFIRMED"
    PROVE  LET v == Analysis(h)
           IN  Decides(h, v.low) /\ v.ftd = Ftd(h, v.low) /\ ~Undercut(h, v.ftd)
<1> DEFINE s == Last(SwingLows(h))
           latest == OfLatest(h, s)
           older == {o \in SwingLows(h) \ {s} : HasFtd(h, o)}
           found == OfFtd(h, Last(older))
<1>1. Len(h) >= 10 /\ SwingLows(h) # {}
  BY DEF Analysis, Verdict
<1>2. Analysis(h) = IF latest.ftd # 0 \/ older = {} THEN latest
                    ELSE IF found.state = "FTD_CONFIRMED"
                            \/ latest.state \notin {"RALLY_ATTEMPT", "FTD_WINDOW"} THEN found
                    ELSE latest
  <2>1. ~ (Len(h) < 10 \/ SwingLows(h) = {})
    BY <1>1, DaysInterval
  <2>2. QED BY <2>1, Zenon DEF Analysis
<1>3. s \in SwingLows(h) /\ s \in Days(h) /\ \A o \in SwingLows(h) : o <= s
  BY <1>1, LastElement, LowsInWindow, DaysInterval
<1>4. \A o : /\ OfFtd(h, o).low = o /\ OfFtd(h, o).ftd = Ftd(h, o)
             /\ OfFtd(h, o).state = "FTD_CONFIRMED" => ~Undercut(h, Ftd(h, o))
  BY DEF OfFtd, Verdict
<1> HIDE DEF s
<1>5. CASE HasFtd(h, s)
  <2>1. latest = OfFtd(h, s) /\ latest.ftd # 0
    BY <1>3, <1>5, LatestFtd
  <2>2. Analysis(h) = OfFtd(h, s)
    BY <1>2, <2>1
  <2>3. \A o \in SwingLows(h) : ~ (o > s)
    BY <1>3, LowsInWindow, DaysInterval
  <2>4. QED BY <1>1, <1>3, <1>4, <1>5, <2>2, <2>3 DEF Decides
<1>6. CASE ~HasFtd(h, s)
  <2>1. latest.ftd = 0 /\ latest.state # "FTD_CONFIRMED"
    BY <1>3, <1>6, LatestFtd
  <2> HIDE DEF latest, older
  <2>2. older # {} /\ Analysis(h) = found
    BY <1>2, <2>1
  <2>3. older \in SUBSET (0..Len(h)) /\ Len(h) \in Nat
    BY LowsInWindow, DaysInterval DEF older
  <2>4. Last(older) \in older /\ \A j \in older : j <= Last(older)
    BY <2>2, <2>3, LastElement
  <2>5. Last(older) \in SwingLows(h) /\ HasFtd(h, Last(older))
    BY <2>4 DEF older
  <2>6. ASSUME NEW o \in SwingLows(h), o > Last(older), HasFtd(h, o) PROVE FALSE
    <3>1. o \in older
      BY <1>6, <2>6 DEF older
    <3>2. o <= Last(older)
      BY <2>4, <3>1
    <3>3. o \in 0..Len(h) /\ Last(older) \in 0..Len(h)
      BY <2>3, <2>4, <3>1, Zenon
    <3>4. QED BY <2>6, <3>2, <3>3
  <2>7. Analysis(h).low = Last(older) /\ Analysis(h).ftd = Ftd(h, Last(older))
        /\ ~Undercut(h, Ftd(h, Last(older)))
    BY <1>4, <2>2
  <2>8. Decides(h, Last(older))
    BY <1>1, <2>5, <2>6 DEF Decides
  <2>9. QED BY <2>7, <2>8
<1>7. QED BY <1>5, <1>6

\* and it is confirmed if its FTD is not undercut.
LEMMA DecidesConfirmed ==
    ASSUME NEW h \in Seq(Bars), NEW s, Decides(h, s), ~Undercut(h, Ftd(h, s))
    PROVE  Analysis(h) = Verdict("FTD_CONFIRMED", s, Ftd(h, s))
<1> DEFINE l == Last(SwingLows(h))
           latest == OfLatest(h, l)
           older == {o \in SwingLows(h) \ {l} : HasFtd(h, o)}
           found == OfFtd(h, Last(older))
<1>1. /\ Len(h) >= 10 /\ s \in SwingLows(h) /\ HasFtd(h, s) /\ Len(h) \in Nat
      /\ \A o \in SwingLows(h) : o > s => ~HasFtd(h, o)
  BY DaysInterval DEF Decides
<1>2. Analysis(h) = IF latest.ftd # 0 \/ older = {} THEN latest
                    ELSE IF found.state = "FTD_CONFIRMED"
                            \/ latest.state \notin {"RALLY_ATTEMPT", "FTD_WINDOW"} THEN found
                    ELSE latest
  <2>1. ~ (Len(h) < 10 \/ SwingLows(h) = {})
    BY <1>1
  <2>2. QED BY <2>1, Zenon DEF Analysis
<1>3. l \in SwingLows(h) /\ l \in Days(h) /\ \A o \in SwingLows(h) : o <= l
  BY <1>1, LastElement, LowsInWindow
<1>4. OfFtd(h, s) = Verdict("FTD_CONFIRMED", s, Ftd(h, s))
  BY DEF OfFtd
<1>5. SwingLows(h) \subseteq 0..Len(h)
  BY LowsInWindow
<1> HIDE DEF l
<1>6. CASE l = s
  <2>1. latest = OfFtd(h, s) /\ latest.ftd # 0
    BY <1>1, <1>3, <1>6, LatestFtd
  <2>2. QED BY <1>2, <1>4, <2>1
<1>7. CASE l # s
  <2>1. l > s
    BY <1>1, <1>3, <1>5, <1>7
  <2>2. latest.ftd = 0
    BY <1>1, <1>3, <2>1, LatestFtd
  <2>3. s \in older /\ older \in SUBSET (0..Len(h))
    BY <1>1, <1>5, <1>7
  <2>4. Last(older) \in older /\ s <= Last(older)
    <3> HIDE DEF older
    <3>1. QED BY <1>1, <2>3, LastElement
  <2>5. Last(older) = s
    <3>1. Last(older) \in SwingLows(h) /\ HasFtd(h, Last(older))
      BY <2>4
    <3>2. ~ (Last(older) > s)
      BY <1>1, <3>1
    <3> HIDE DEF older
    <3>3. Last(older) \in Int /\ s \in Int
      BY <1>1, <1>5, <3>1
    <3>4. QED BY <2>4, <3>2, <3>3
  <2>6. found = Verdict("FTD_CONFIRMED", s, Ftd(h, s)) /\ older # {}
    BY <1>4, <2>3, <2>5
  <2>7. found.state = "FTD_CONFIRMED"
    BY <2>6 DEF Verdict
  <2> HIDE DEF older, latest, found
  <2>8. QED BY <1>2, <2>2, <2>6, <2>7
<1>8. QED BY <1>6, <1>7

\* A session that undercuts neither the FTD nor its swing low leaves the verdict, or a later
\* FTD takes its place: a later attempt had none the day before, so that the one it may
\* have now is of this session, and nothing has undercut it.
LEMMA ConfirmedGrows ==
    ASSUME NEW h, NEW h2, Grown(h2, h), NEW s, Decides(h, s),
           ~Undercut(h, Ftd(h, s)), s \in SwingLows(h2),
           Close(h2, Len(h) + 1) >= h[Ftd(h, s)].low,
           Close(h2, Len(h) + 1) >= Close(h, s)
    PROVE  Analysis(h2).state = "FTD_CONFIRMED" /\ Analysis(h2).ftd >= Ftd(h, s)
<1> DEFINE n == Len(h)
           f == Ftd(h, s)
           Having == {o \in SwingLows(h2) : HasFtd(h2, o)}
           last == Last(Having)
<1>1. /\ n \in Nat /\ Len(h2) = n + 1 /\ h \in Seq(Bars) /\ h2 \in Seq(Bars)
      /\ \A i \in 1..n : h2[i] = h[i]
  BY DaysInterval DEF Grown
<1>2. /\ n >= 10 /\ s \in SwingLows(h) /\ HasFtd(h, s)
      /\ \A o \in SwingLows(h) : o > s => ~HasFtd(h, o)
  BY DEF Decides
<1>3. s \in Days(h2) /\ s \in Days(h) /\ s \in 1..n
  BY <1>1, <1>2, LowsInWindow, DaysInterval
<1>4. HasFtd(h2, s) /\ Ftd(h2, s) = f
  <2>1. s <= n
    BY <1>1, <1>3
  <2>2. QED BY <1>2, <1>3, <2>1, FtdHolds
<1>5. f \in From(h, s) /\ f \in 1..n
  BY <1>1, <1>2, <1>3, FtdIsFirst
<1> HIDE DEF f
<1>6. ~Undercut(h2, f)
  <2>1. f \in Days(h2) /\ f <= n
    <3>1. PICK a2 \in Nat \ {0} : Days(h2) = a2..(n + 1)
      BY <1>1, DaysInterval
    <3>2. QED BY <1>1, <1>3, <1>5, <3>1 DEF From
  <2>2. From(h2, f) = From(h, f) \cup {n + 1} /\ From(h, f) = (f + 1)..n
    BY <2>1, DaysGrow
  <2>3. ASSUME NEW i \in From(h2, f), Close(h2, i) < h2[f].low PROVE FALSE
    <3>1. h2[f] = h[f] /\ h[f].low \in Nat
      BY <1>1, <1>5, BarTypes
    <3>2. CASE i \in From(h, f)
      <4>1. Close(h2, i) = Close(h, i)
        BY <1>1, <1>5, <2>2, <3>2 DEF Close
      <4>2. QED BY <2>3, <3>1, <3>2, <4>1 DEF Undercut, f
    <3>3. CASE i = n + 1
      <4>1. n + 1 \in 1..Len(h2)
        BY <1>1
      <4>2. Close(h2, n + 1) \in Nat
        BY <1>1, <4>1, BarTypes
      <4>3. QED BY <2>3, <3>1, <3>3, <4>2 DEF f
    <3>4. QED BY <2>2, <3>2, <3>3
  <2>4. QED BY <2>3 DEF Undercut
<1>7. Having \in SUBSET (0..(n + 1)) /\ s \in Having
  BY <1>1, <1>4, LowsInWindow
<1>8. last \in Having /\ \A o \in Having : o <= last
  <2> HIDE DEF Having
  <2>1. n + 1 \in Nat /\ Having # {}
    BY <1>1, <1>7
  <2>2. QED BY <1>7, <2>1, LastElement
<1> HIDE DEF last
<1>9. last \in SwingLows(h2) /\ HasFtd(h2, last) /\ last \in 0..(n + 1) /\ s <= last
  BY <1>7, <1>8
<1>10. Decides(h2, last)
  <2>1. ASSUME NEW o \in SwingLows(h2), o > last, HasFtd(h2, o) PROVE FALSE
    <3>1. o \in Having
      BY <2>1
    <3>2. o <= last /\ o \in 0..(n + 1)
      BY <1>7, <1>8, <3>1
    <3>3. QED BY <1>9, <2>1, <3>2
  <2>2. Len(h2) >= 10
    BY <1>1, <1>2
  <2>3. QED BY <1>9, <2>1, <2>2 DEF Decides
<1>11. CASE last = s
  <2>1. Analysis(h2) = Verdict("FTD_CONFIRMED", s, f)
    BY <1>1, <1>4, <1>6, <1>10, <1>11, DecidesConfirmed
  <2>2. QED BY <1>5, <2>1 DEF Verdict, f
<1>12. CASE last # s
  <2>1. s < last /\ last \in Days(h2)
    BY <1>1, <1>3, <1>9, <1>12, LowsInWindow
  <2>2. /\ last <= n /\ last \in Days(h)
        /\ HasFtd(h, last) \/ Ftd(h2, last) = n + 1
    BY <1>9, <2>1, FtdComes
  <2>3. last \in SwingLows(h)
    BY <1>2, <1>9, <2>1, <2>2, SwingLowsGrow
  <2>4. ~HasFtd(h, last)
    BY <1>2, <1>3, <1>9, <2>1, <2>3
  <2>5. Ftd(h2, last) = n + 1
    BY <2>2, <2>4
  <2>6. ~Undercut(h2, n + 1)
    <3>1. From(h2, n + 1) = {}
      BY <1>1, DaysInterval DEF From
    <3>2. QED BY <3>1 DEF Undercut
  <2>7. Analysis(h2) = Verdict("FTD_CONFIRMED", last, n + 1)
    BY <1>1, <1>10, <2>5, <2>6, DecidesConfirmed
  <2>8. n + 1 >= f
    BY <1>1, <1>5
  <2>9. QED BY <2>7, <2>8 DEF Verdict, f
<1>13. QED BY <1>11, <1>12

-----------------------------------------------------------------------------
\* The verdict is always that of the history so far.
FollowInv ==
    /\ history \in Seq(Bars) /\ history # << >>
    /\ signal = Analysis(history)

\* A session appends a bar and leaves those before.
LEMMA SessionGrows ==
    ASSUME FollowInv, NEW move \in Moves, Session(move)
    PROVE  Grown(history', history) /\ history' # << >>
<1> DEFINE n == Len(history)
           close == history[n].close + move.change
           bar == [close |-> close, high |-> close + move.up, low |-> close - move.down,
                   volume |-> move.volume]
<1>1. /\ history \in Seq(Bars) /\ n \in Nat /\ n \in 1..n
      /\ move \in [change : Int, up : Nat, down : Nat, volume : Nat \ {0}]
  BY FollowThroughAssumption DEF FollowInv
<1>2. history' = Append(history, bar) /\ close - move.down > 0
  BY DEF Session
<1>3. history[n].close \in Nat
  BY <1>1, BarTypes
<1>4. close \in Int /\ move.up \in Nat /\ move.down \in Nat /\ move.volume \in Nat \ {0}
  BY <1>1, <1>3
<1> HIDE DEF close
<1>5. /\ close \in Nat \ {0} /\ close + move.up \in Nat /\ close - move.down \in Nat
  BY <1>2, <1>4
<1>6. bar \in Bars
  BY <1>4, <1>5 DEF Bars
<1> HIDE DEF bar
<1>7. history' \in Seq(Bars) /\ Len(history') = n + 1
  BY <1>1, <1>2, <1>6
<1>8. \A i \in 1..n : history'[i] = history[i]
  BY <1>1, <1>2, <1>6
<1>9. QED BY <1>1, <1>7, <1>8 DEF Grown

\* The invariant holds of the first state, and every session keeps it.
THEOREM FollowInductive == FollowSpec => []FollowInv
<1>1. FollowInit => FollowInv
  BY FollowThroughAssumption DEF FollowInit, FollowInv
<1>2. FollowInv /\ [FollowNext]_trendVars => FollowInv'
  <2> SUFFICES ASSUME FollowInv, [FollowNext]_trendVars PROVE FollowInv'
    OBVIOUS
  <2>1. ASSUME NEW move \in Moves, Session(move) PROVE FollowInv'
    <3>1. history' \in Seq(Bars) /\ history' # << >>
      BY <2>1, SessionGrows DEF Grown
    <3>2. signal' = Analysis(history')
      BY <2>1 DEF Session
    <3>3. signal' = Analysis(history)'
      BY <3>2
    <3>4. QED BY <3>1, <3>3 DEF FollowInv
  <2>2. CASE UNCHANGED trendVars
    <3>1. history' = history /\ signal' = signal
      BY <2>2 DEF trendVars
    <3>2. QED BY <3>1 DEF FollowInv
  <2>3. QED BY <2>1, <2>2 DEF FollowNext
<1>3. QED BY <1>1, <1>2, PTL DEF FollowSpec

\* A confirmed FTD stays confirmed through every pullback that undercuts neither its low nor
\* the swing low it began from, for histories of any length, any window and any number of
\* swing lows that are looked at.
THEOREM ConfirmedStays == FollowSpec => ConfirmedHolds
<1>1. ASSUME FollowInv, NEW move \in Moves, Session(move),
             signal.state = "FTD_CONFIRMED",
             Close(history', Len(history')) >= history[signal.ftd].low,
             Close(history', Len(history')) >= Close(history, signal.low),
             signal.low \in SwingLows(history')
      PROVE  signal'.state = "FTD_CONFIRMED" /\ signal'.ftd >= signal.ftd
  <2>1. /\ Grown(history', history) /\ signal' = Analysis(history')
        /\ signal = Analysis(history) /\ history \in Seq(Bars)
        /\ Len(history') = Len(history) + 1
    BY <1>1, SessionGrows DEF FollowInv, Session, Grown
  <2> DEFINE s == signal.low
  <2>2. /\ Decides(history, s) /\ signal.ftd = Ftd(history, s)
        /\ ~Undercut(history, Ftd(history, s))
    BY <1>1, <2>1, ConfirmedDecides
  <2>3. QED BY <1>1, <2>1, <2>2, ConfirmedGrows
<1>2. FollowInv /\ [FollowNext]_trendVars =>
         [LET c == Close(history', Len(history'))
          IN  (/\ signal.state = "FTD_CONFIRMED"
               /\ c >= history[signal.ftd].low
               /\ c >= Close(history, signal.low)
               /\ signal.low \in SwingLows(history')) =>
                  signal'.state = "FTD_CONFIRMED" /\ signal'.ftd >= signal.ftd]_trendVars
  BY <1>1 DEF FollowNext
<1>3. QED BY <1>2, FollowInductive, PTL DEF FollowSpec, ConfirmedHolds

\* The verdict is one of the market states, about sessions of the history.
THEOREM FollowTypeCorrect == FollowSpec => []FollowTypeOK
<1> DEFINE Verdicts(h) == [state : MarketStates, low : 0..Len(h), ftd : 0..Len(h)]
<1>1. ASSUME NEW h \in Seq(Bars), NEW o \in Days(h), HasFtd(h, o)
      PROVE  OfFtd(h, o) \in Verdicts(h)
  <2>1. Ftd(h, o) \in 0..Len(h) /\ o \in 0..Len(h)
    BY <1>1, FtdIsFirst, DaysInterval
  <2>2. QED BY <2>1 DEF OfFtd, Verdict, MarketStates
<1>2. ASSUME NEW h \in Seq(Bars), NEW s \in Days(h)
      PROVE  OfLatest(h, s) \in Verdicts(h)
  <2>1. s \in 0..Len(h) /\ 0 \in 0..Len(h)
    BY DaysInterval
  <2>2. CASE HasFtd(h, s)
    BY <1>1, <2>2, LatestFtd
  <2>3. CASE Fails(h, s) /\ ~HasFtd(h, s)
    BY <2>1, <2>3 DEF OfLatest, Verdict, MarketStates
  <2>4. CASE ~Fails(h, s) /\ ~HasDay1(h, s) /\ ~HasFtd(h, s)
    BY <2>1, <2>4 DEF OfLatest, Verdict, MarketStates
  <2>5. CASE ~Fails(h, s) /\ HasDay1(h, s) /\ ~HasFtd(h, s)
    <3>1. OfLatest(h, s) =
             Verdict(IF DayCount(h, s) < FTD_DAY_START THEN "RALLY_ATTEMPT"
                     ELSE IF DayCount(h, s) <= FTD_DAY_END THEN "FTD_WINDOW"
                     ELSE "RALLY_FAILED", s, 0)
      BY <2>5 DEF OfLatest
    <3>2. QED BY <2>1, <3>1 DEF Verdict, MarketStates
  <2>6. QED BY <2>2, <2>3, <2>4, <2>5
<1>3. ASSUME NEW h \in Seq(Bars) PROVE Analysis(h) \in Verdicts(h)
  <2> DEFINE s == Last(SwingLows(h))
             older == {o \in SwingLows(h) \ {s} : HasFtd(h, o)}
  <2>1. CASE Len(h) < 10 \/ SwingLows(h) = {}
    <3>1. Analysis(h) = Verdict("NO_SIGNAL", 0, 0)
      BY <2>1 DEF Analysis
    <3>2. 0 \in 0..Len(h)
      BY DaysInterval
    <3>3. QED BY <3>1, <3>2 DEF Verdict, MarketStates
  <2>2. CASE ~ (Len(h) < 10 \/ SwingLows(h) = {})
    <3>1. s \in Days(h)
      BY <2>2, LastElement, LowsInWindow, DaysInterval
    <3>2. \/ Analysis(h) = OfLatest(h, s)
          \/ older # {} /\ Analysis(h) = OfFtd(h, Last(older))
      BY <2>2 DEF Analysis
    <3>3. ASSUME older # {} PROVE OfFtd(h, Last(older)) \in Verdicts(h)
      <4>1. older \in SUBSET (0..Len(h)) /\ Len(h) \in Nat
        BY LowsInWindow, DaysInterval
      <4>2. Last(older) \in older
        <5> HIDE DEF older
        <5>1. QED BY <3>3, <4>1, LastElement
      <4>3. Last(older) \in Days(h) /\ HasFtd(h, Last(older))
        BY <4>2, LowsInWindow
      <4> HIDE DEF older
      <4>4. QED BY <1>1, <4>3
    <3>4. QED BY <1>2, <3>1, <3>2, <3>3
  <2>3. QED BY <2>1, <2>2
<1>4. FollowInv => FollowTypeOK
  <2> SUFFICES ASSUME FollowInv PROVE FollowTypeOK
    OBVIOUS
  <2>1. history \in Seq(Bars) /\ signal \in Verdicts(history)
    BY <1>3 DEF FollowInv
  <2>2. QED BY <2>1 DEF FollowTypeOK
<1>5. QED BY <1>4, FollowInductive, PTL

-----------------------------------------------------------------------------
(***************************************************************************)
(* The circuit breaker: sums, calendar, and a halt that holds.             *)
(***************************************************************************)

\* A total follows its recursion.
LEMMA TotalFollows ==
    ASSUME NEW s \in Seq(Int)
    PROVE  \E g \in [0..Len(s) -> Int] :
               /\ g[0] = 0 /\ \A k \in 1..Len(s) : g[k] = g[k - 1] + s[k]
               /\ Total(s) = g[Len(s)]
<1> DEFINE n == Len(s)
           P(g) == g = [k \in 0..n |-> IF k = 0 THEN 0 ELSE g[k - 1] + s[k]]
           step == [q \in Int \X (1..n) |-> q[1] + s[q[2]]]
<1>0. n \in Nat /\ \A k \in 1..n : s[k] \in Int
  OBVIOUS
<1>1. \A x \in Int, k \in (0 + 1)..n : step[<<x, k>>] = x + s[k] /\ step[<<x, k>>] \in Int
  BY <1>0
<1>2. PICK f \in [0..n -> Int] : Follows(f, 0, 0, n, step)
  <2>1. ClosedUnder(Int, 0, n, step)
    BY <1>1 DEF ClosedUnder
  <2>2. 0 \in Int /\ 0 \in Nat /\ n \in Nat /\ 0 <= n
    BY <1>0
  <2> HIDE DEF step, n
  <2>3. QED BY <2>1, <2>2, RecursionExists, Zenon
<1>3. ASSUME NEW k \in 0..n PROVE f[k] = IF k = 0 THEN 0 ELSE f[k - 1] + s[k]
  <2> HIDE DEF step
  <2>1. CASE k = 0
    BY <1>2, <2>1 DEF Follows
  <2>2. CASE k # 0
    <3>1. k - 1 \in 0..n /\ k \in (0 + 1)..n
      BY <2>2, <1>0
    <3>2. f[k - 1] \in Int
      BY <3>1
    <3>3. QED BY <1>1, <1>2, <2>2, <3>1, <3>2 DEF Follows
  <2>3. QED BY <2>1, <2>2
<1>4. P(f)
  BY <1>3
<1>5. \A g, h : P(g) /\ P(h) => g = h
  <2> SUFFICES ASSUME NEW g, NEW h, P(g), P(h) PROVE g = h
    OBVIOUS
  <2> DEFINE S == {k \in 0..n : g[k] = h[k]}
  <2>1. 0 \in S
    BY <1>0
  <2>2. ASSUME NEW k \in 0..(n - 1), k \in S PROVE k + 1 \in S
    <3>1. k + 1 \in 0..n /\ k + 1 # 0 /\ (k + 1) - 1 = k
      BY <1>0
    <3>2. g[k + 1] = g[k] + s[k + 1] /\ h[k + 1] = h[k] + s[k + 1]
      BY <3>1
    <3>3. QED BY <2>2, <3>1, <3>2
  <2>3. 0..n \subseteq S
    <3> HIDE DEF S, P
    <3>1. 0 \in Nat /\ n \in Nat
      BY <1>0
    <3> HIDE DEF n
    <3>2. QED BY <2>1, <2>2, <3>1, IntervalInduction
  <2>4. QED BY <2>3
<1>6. (CHOOSE g : P(g)) = f
  <2> HIDE DEF P
  <2>1. P(CHOOSE g : P(g))
    BY <1>4
  <2>2. QED BY <1>4, <1>5, <2>1
<1>7. Total(s) = (CHOOSE g : P(g))[n]
  BY Zenon DEF Total
<1>8. f[0] = 0 /\ \A k \in 1..n : f[k] = f[k - 1] + s[k]
  BY <1>0, <1>3
<1>9. QED BY <1>6, <1>7, <1>8

\* The totals of two sequences of a length, in one of which no amount is above that
\* of the other.
LEMMA TotalMonotone ==
    ASSUME NEW s \in Seq(Int), NEW u \in Seq(Int), Len(s) = Len(u),
           \A k \in 1..Len(s) : s[k] <= u[k]
    PROVE  Total(s) <= Total(u)
<1> DEFINE n == Len(s)
<1>0. n \in Nat /\ \A k \in 1..n : s[k] \in Int /\ u[k] \in Int
  OBVIOUS
<1>1. PICK g \in [0..n -> Int] :
         g[0] = 0 /\ (\A k \in 1..n : g[k] = g[k - 1] + s[k]) /\ Total(s) = g[n]
  BY TotalFollows
<1>2. PICK h \in [0..n -> Int] :
         h[0] = 0 /\ (\A k \in 1..n : h[k] = h[k - 1] + u[k]) /\ Total(u) = h[n]
  BY TotalFollows
<1> DEFINE S == {k \in 0..n : g[k] <= h[k]}
<1>3. 0 \in S
  BY <1>0, <1>1, <1>2
<1>4. ASSUME NEW k \in 0..(n - 1), k \in S PROVE k + 1 \in S
  <2>1. k + 1 \in 1..n /\ (k + 1) - 1 = k /\ k \in 0..n
    BY <1>0
  <2>2. g[k + 1] = g[k] + s[k + 1] /\ h[k + 1] = h[k] + u[k + 1]
    BY <1>1, <1>2, <2>1
  <2>3. s[k + 1] <= u[k + 1] /\ s[k + 1] \in Int /\ u[k + 1] \in Int
    BY <1>0, <2>1
  <2>4. g[k] \in Int /\ h[k] \in Int /\ g[k] <= h[k]
    BY <1>4, <2>1
  <2>5. QED BY <2>1, <2>2, <2>3, <2>4
<1>5. n \in S
  <2>1. 0..n \subseteq S
    <3>1. 0 \in Nat /\ n \in Nat
      BY <1>0
    <3> HIDE DEF S, n
    <3>2. QED BY <1>3, <1>4, <3>1, IntervalInduction
  <2>2. QED BY <1>0, <2>1
<1>6. QED BY <1>1, <1>2, <1>5

\* A total with one amount more.
LEMMA TotalAppend ==
    ASSUME NEW s \in Seq(Int), NEW u \in Seq(Int), Len(u) = Len(s) + 1,
           \A k \in 1..Len(s) : s[k] = u[k]
    PROVE  Total(u) = Total(s) + u[Len(u)]
<1> DEFINE n == Len(s)
<1>0. n \in Nat /\ Len(u) = n + 1 /\ (\A k \in 1..n : s[k] \in Int) /\ \A k \in 1..(n + 1) : u[k] \in Int
  OBVIOUS
<1>1. PICK g \in [0..n -> Int] :
         g[0] = 0 /\ (\A k \in 1..n : g[k] = g[k - 1] + s[k]) /\ Total(s) = g[n]
  BY TotalFollows
<1>2. PICK h \in [0..(n + 1) -> Int] :
         h[0] = 0 /\ (\A k \in 1..(n + 1) : h[k] = h[k - 1] + u[k]) /\ Total(u) = h[n + 1]
  BY <1>0, TotalFollows
<1> DEFINE S == {k \in 0..n : g[k] = h[k]}
<1>3. 0 \in S
  BY <1>0, <1>1, <1>2
<1>4. ASSUME NEW k \in 0..(n - 1), k \in S PROVE k + 1 \in S
  <2>1. k + 1 \in 1..n /\ k + 1 \in 1..(n + 1) /\ (k + 1) - 1 = k /\ k \in 0..n
    BY <1>0
  <2>2. g[k + 1] = g[k] + s[k + 1] /\ h[k + 1] = h[k] + u[k + 1]
    BY <1>1, <1>2, <2>1
  <2>3. QED BY <1>4, <2>1, <2>2
<1>5. n \in S
  <2>1. 0..n \subseteq S
    <3>1. 0 \in Nat /\ n \in Nat
      BY <1>0
    <3> HIDE DEF S, n
    <3>2. QED BY <1>3, <1>4, <3>1, IntervalInduction
  <2>2. QED BY <1>0, <2>1
<1>6. h[n + 1] = h[n] + u[n + 1]
  <2>1. n + 1 \in 1..(n + 1) /\ (n + 1) - 1 = n
    BY <1>0
  <2>2. QED BY <1>2, <2>1
<1>7. QED BY <1>0, <1>1, <1>2, <1>5, <1>6

\* A total is a number.
LEMMA TotalType == ASSUME NEW s \in Seq(Int) PROVE Total(s) \in Int
<1>1. PICK g \in [0..Len(s) -> Int] : Total(s) = g[Len(s)]
  BY TotalFollows
<1>2. Len(s) \in 0..Len(s)
  OBVIOUS
<1>3. QED BY <1>1, <1>2

-----------------------------------------------------------------------------
\* The least of numbers, and the greatest of bounded ones.
LEMMA EarliestIs ==
    ASSUME NEW S \in SUBSET Nat, S # {}
    PROVE  Earliest(S) \in S /\ \A j \in S : Earliest(S) <= j
<1>1. \E x \in S : \A y \in S : x =< y
  BY LeastElement
<1>2. QED BY <1>1 DEF Earliest, Min

LEMMA LatestIs ==
    ASSUME NEW S \in SUBSET Int, S # {}, NEW b \in Int, \A j \in S : j <= b
    PROVE  Latest(S) \in S /\ \A j \in S : j <= Latest(S)
<1> DEFINE T == {b - j : j \in S}
<1>1. T \in SUBSET Nat /\ T # {}
  <2>1. \A j \in S : b - j \in Nat
    OBVIOUS
  <2>2. QED BY <2>1
<1>2. Least(T) \in T /\ \A k \in T : Least(T) <= k
  <2> HIDE DEF T
  <2>1. QED BY <1>1, LeastElement
<1>3. PICK i \in S : Least(T) = b - i
  BY <1>2
<1>4. \A j \in S : i >= j
  <2> TAKE j \in S
  <2>1. b - i <= b - j
    BY <1>2, <1>3
  <2>2. QED BY <2>1
<1>5. Latest(S) \in S /\ \A j \in S : Latest(S) >= j
  BY <1>4 DEF Latest, Max
<1>6. Latest(S) \in Int
  BY <1>5
<1>7. QED BY <1>5, <1>6

-----------------------------------------------------------------------------
\* The theses are numbered.
LEMMA Numbered ==
    /\ Cardinality(Theses) \in Nat /\ Theses = 1..Cardinality(Theses)
    /\ IsFiniteSet(Theses)
BY BreakerAssumption, FS_CardinalityType

\* A time is of its day.
LEMMA DayIs ==
    ASSUME NEW t \in Nat
    PROVE  Day(t) \in Nat /\ Midnight(Day(t)) <= t /\ t < Midnight(Day(t) + 1)
BY DEF Day, Midnight, Slots

LEMMA DaysInOrder ==
    ASSUME NEW t \in Nat, NEW t2 \in Nat, t <= t2
    PROVE  Day(t) <= Day(t2)
<1>1. /\ Day(t) \in Nat /\ Midnight(Day(t)) <= t
      /\ Day(t2) \in Nat /\ t2 < Midnight(Day(t2) + 1)
  BY DayIs
<1>2. QED BY <1>1 DEF Midnight, Slots

\* A session that is awaited is the first one, or the day after the last day.
LEMMA SessionFromIs ==
    ASSUME NEW d \in Int
    PROVE  /\ SessionFrom(d) \in Nat \ {0}
           /\ \A s \in SessionDays : s >= d => SessionFrom(d) <= s
<1> DEFINE S == {s \in SessionDays : s >= d} \cup {LastDay + 1}
<1>1. S \in SUBSET Nat /\ S # {} /\ 0 \notin S
  <2>1. LastDay + 1 \in Nat \ {0} /\ \A s \in SessionDays : s \in Nat \ {0}
    BY BreakerAssumption
  <2>2. \A j \in S : j \in Nat \ {0}
    BY <2>1
  <2>3. LastDay + 1 \in S
    OBVIOUS
  <2>4. QED BY <2>2, <2>3
<1>2. Earliest(S) \in S /\ \A j \in S : Earliest(S) <= j
  BY <1>1, EarliestIs
<1>3. SessionFrom(d) = Earliest(S)
  BY DEF SessionFrom
<1> HIDE DEF S
<1>4. SessionFrom(d) \in Nat \ {0}
  BY <1>1, <1>2, <1>3
<1>5. \A s \in SessionDays : s >= d => s \in S
  BY DEF S
<1>6. QED BY <1>2, <1>3, <1>4, <1>5

\* A period of days begins with its first, and the next with the first that follows.
Begins(M, d) == Latest({m \in M : m <= d})
NextOf(M, d) == SessionFrom(Earliest({m \in M : m > d} \cup {LastDay + 1}))

LEMMA PeriodIs ==
    ASSUME NEW M \in SUBSET Int, \E m \in M : m <= 1, NEW d \in SessionDays
    PROVE  /\ Begins(M, d) \in Int /\ NextOf(M, d) \in Nat \ {0}
           /\ \A e \in SessionDays :
                 (d <= e /\ e < NextOf(M, d)) => Begins(M, e) = Begins(M, d)
<1>1. d \in Nat \ {0} /\ d <= LastDay /\ LastDay \in Nat
  BY BreakerAssumption
<1> DEFINE B == {m \in M : m <= d}
           A == {m \in M : m > d} \cup {LastDay + 1}
<1>2. Latest(B) \in B
  <2>1. B \in SUBSET Int /\ d \in Int /\ \A j \in B : j <= d
    <3>1. d \in Int /\ M \subseteq Int
      BY <1>1
    <3>2. \A j \in B : j \in M /\ j <= d
      OBVIOUS
    <3> HIDE DEF B
    <3>3. B \subseteq Int
      BY <3>1, <3>2
    <3>4. QED BY <3>1, <3>2, <3>3
  <2>2. PICK m \in M : m <= 1
    OBVIOUS
  <2>3. m \in B
    BY <1>1, <2>2
  <2> HIDE DEF B
  <2>4. QED BY <2>1, <2>3, LatestIs
<1>3. Earliest(A) \in A /\ (\A j \in A : Earliest(A) <= j) /\ A \subseteq Nat
  <2>1. \A j \in A : j \in Nat
    BY <1>1
  <2>2. LastDay + 1 \in A
    OBVIOUS
  <2> HIDE DEF A
  <2>3. QED BY <2>1, <2>2, EarliestIs
<1>4. NextOf(M, d) = SessionFrom(Earliest(A))
  BY DEF NextOf
<1>5. Earliest(A) \in Int
  BY <1>3
<1>6. /\ SessionFrom(Earliest(A)) \in Nat \ {0}
      /\ \A s \in SessionDays : s >= Earliest(A) => SessionFrom(Earliest(A)) <= s
  <2> HIDE DEF A
  <2>1. QED BY <1>5, SessionFromIs
<1>7. ASSUME NEW e \in SessionDays, d <= e, e < NextOf(M, d) PROVE Begins(M, e) = Begins(M, d)
  <2>1. e \in Nat
    BY BreakerAssumption
  <2>2. ~ (e >= Earliest(A))
    <3> HIDE DEF A
    <3>1. QED BY <1>4, <1>5, <1>6, <1>7, <2>1
  <2>3. \A m \in M : m > d => m > e
    <3> SUFFICES ASSUME NEW m \in M, m > d PROVE m > e
      OBVIOUS
    <3>1. m \in A
      OBVIOUS
    <3>2. Earliest(A) <= m
      BY <1>3, <3>1
    <3> HIDE DEF A
    <3>3. QED BY <1>5, <2>1, <2>2, <3>2
  <2>4. {m \in M : m <= e} = B
    <3>1. \A m \in M : m <= e <=> m <= d
      <4> TAKE m \in M
      <4>1. m \in Int /\ d \in Int /\ e \in Int
        BY <1>1, <2>1
      <4>2. m > d => m > e
        BY <2>3
      <4>3. QED BY <1>7, <4>1, <4>2
    <3>2. QED BY <3>1
  <2>5. QED BY <2>4 DEF Begins
<1>8. Begins(M, d) \in Int
  BY <1>2 DEF Begins
<1>9. QED BY <1>4, <1>6, <1>7, <1>8

\* The week and the month are such periods.
LEMMA WeekAndMonth ==
    ASSUME NEW d \in SessionDays
    PROVE  /\ WeekStart(d) = Begins(Mondays, d) /\ NextWeek(d) = NextOf(Mondays, d)
           /\ MonthStart(d) = Begins(Firsts, d) /\ NextMonth(d) = NextOf(Firsts, d)
           /\ Mondays \in SUBSET Int /\ \E m \in Mondays : m <= 1
           /\ Firsts \in SUBSET Int /\ \E m \in Firsts : m <= 1
BY BreakerAssumption DEF WeekStart, MonthStart, NextWeek, NextMonth, Begins, NextOf

-----------------------------------------------------------------------------
\* The thesis files as they may be at t: nothing is booked for later.
BookedLegs   == [pnl : Amounts, at : Nat]
ThesisFiles  == [legs : Seq(BookedLegs), exit : Int, readable : BOOLEAN]
BookedBy(th, t) ==
    /\ th \in [Theses -> ThesisFiles]
    /\ \A i \in Theses :
          /\ th[i].exit <= t
          /\ \A k \in 1..Len(th[i].legs) : th[i].legs[k].at <= t

LegAmount(legs, first, t, k) == IF InPeriod(legs[k], first, t) THEN legs[k].pnl ELSE 0
ThesisAmount(th, first, t, i) ==
    IF i \in Readable(th) THEN RealizedOf(th[i].legs, first, t) ELSE 0

\* What legs realize are numbers, and so are their times.
LEMMA AmountsAreNumbers ==
    ASSUME NEW legs \in Seq(BookedLegs)
    PROVE  /\ Len(legs) \in Nat
           /\ \A k \in 1..Len(legs) : legs[k].pnl \in Int /\ legs[k].at \in Nat
<1>1. Len(legs) \in Nat /\ \A k \in 1..Len(legs) : legs[k] \in BookedLegs
  OBVIOUS
<1>2. \A leg \in BookedLegs : leg.pnl \in Amounts /\ leg.at \in Nat
  BY DEF BookedLegs
<1>3. Amounts \subseteq Int
  BY BreakerAssumption
<1>4. QED BY <1>1, <1>2, <1>3

\* What was realized is a total of numbers.
LEMMA RealizedOfIs ==
    ASSUME NEW legs \in Seq(BookedLegs), NEW first, NEW t
    PROVE  /\ [k \in 1..Len(legs) |-> LegAmount(legs, first, t, k)] \in Seq(Int)
           /\ RealizedOf(legs, first, t)
                 = Total([k \in 1..Len(legs) |-> LegAmount(legs, first, t, k)])
           /\ RealizedOf(legs, first, t) \in Int
<1>1. Len(legs) \in Nat /\ \A k \in 1..Len(legs) : legs[k].pnl \in Int
  BY AmountsAreNumbers
<1>2. \A k \in 1..Len(legs) : LegAmount(legs, first, t, k) \in Int
  BY <1>1 DEF LegAmount
<1>3. [k \in 1..Len(legs) |-> LegAmount(legs, first, t, k)] \in Seq(Int)
  BY <1>1, <1>2
<1>4. RealizedOf(legs, first, t)
         = Total([k \in 1..Len(legs) |-> LegAmount(legs, first, t, k)])
  BY Zenon DEF RealizedOf, LegAmount
<1>5. QED BY <1>3, <1>4, TotalType

LEMMA RealizedIs ==
    ASSUME NEW th \in [Theses -> ThesisFiles], NEW first, NEW t
    PROVE  /\ [i \in 1..Cardinality(Theses) |-> ThesisAmount(th, first, t, i)] \in Seq(Int)
           /\ Realized(th, first, t)
                 = Total([i \in 1..Cardinality(Theses) |-> ThesisAmount(th, first, t, i)])
           /\ Realized(th, first, t) \in Int
<1> DEFINE n == Cardinality(Theses)
<1>1. n \in Nat /\ Theses = 1..n
  BY Numbered
<1>2. \A i \in 1..n : ThesisAmount(th, first, t, i) \in Int
  <2> TAKE i \in 1..n
  <2>1. th[i].legs \in Seq(BookedLegs)
    BY <1>1 DEF ThesisFiles
  <2>2. RealizedOf(th[i].legs, first, t) \in Int
    BY <2>1, RealizedOfIs
  <2>3. QED BY <2>2 DEF ThesisAmount
<1>3. [i \in 1..n |-> ThesisAmount(th, first, t, i)] \in Seq(Int)
  <2> HIDE DEF n
  <2>1. QED BY <1>1, <1>2
<1>4. Realized(th, first, t) = Total([i \in 1..n |-> ThesisAmount(th, first, t, i)])
  BY Zenon DEF Realized, ThesisAmount
<1>5. QED BY <1>3, <1>4, TotalType

LEMMA PnlIs ==
    ASSUME NEW th \in [Theses -> ThesisFiles], NEW i \in Theses
    PROVE  Pnl(th, i) \in Int
<1>1. th[i].legs \in Seq(BookedLegs)
  BY DEF ThesisFiles
<1>2. Len(th[i].legs) \in Nat /\ \A k \in 1..Len(th[i].legs) : th[i].legs[k].pnl \in Int
  BY <1>1, AmountsAreNumbers
<1>3. [k \in 1..Len(th[i].legs) |-> th[i].legs[k].pnl] \in Seq(Int)
  BY <1>2
<1>4. Pnl(th, i) = Total([k \in 1..Len(th[i].legs) |-> th[i].legs[k].pnl])
  BY Zenon DEF Pnl
<1>5. QED BY <1>3, <1>4, TotalType

\* The losing run is of theses that have been closed.
LEMMA LosingRunIs ==
    ASSUME NEW t \in Nat, NEW th, BookedBy(th, t)
    PROVE  /\ LosingRun(th, t) \subseteq Results(th, t) /\ Results(th, t) \subseteq Theses
           /\ IsFiniteSet(LosingRun(th, t))
           /\ \A i \in Results(th, t) : th[i].exit \in 0..t
<1>1. Results(th, t) \subseteq Theses
  BY DEF Results, Readable
<1>2. LosingRun(th, t) \subseteq Results(th, t)
  BY DEF LosingRun
<1>3. IsFiniteSet(LosingRun(th, t))
  BY <1>1, <1>2, Numbered, FS_Subset
<1>4. \A i \in Results(th, t) : th[i].exit \in 0..t
  <2> TAKE i \in Results(th, t)
  <2>1. th[i].exit \in Int /\ th[i].exit <= t /\ th[i].exit >= 0
    BY <1>1 DEF BookedBy, ThesisFiles, Results, Closed
  <2>2. QED BY <2>1
<1>5. QED BY <1>1, <1>2, <1>3, <1>4

\* When the cooldown after a streak ends.
StreakEnds(th, t) == Latest({th[i].exit : i \in LosingRun(th, t)}) + Cooldown

LEMMA StreakIs ==
    ASSUME NEW t \in Nat, NEW th, BookedBy(th, t)
    PROVE  /\ StreakCooldown(th, t) \in Nat
           /\ Cardinality(LosingRun(th, t)) \in Nat
           /\ StreakCooldown(th, t) # Never =>
                 /\ Cardinality(LosingRun(th, t)) >= LosingStreak
                 /\ t < StreakEnds(th, t) /\ StreakCooldown(th, t) = StreakEnds(th, t)
           /\ Cardinality(LosingRun(th, t)) >= LosingStreak =>
                 /\ StreakEnds(th, t) \in Nat \ {0}
                 /\ \A i \in LosingRun(th, t) : th[i].exit + Cooldown <= StreakEnds(th, t)
                 /\ \E i \in LosingRun(th, t) : StreakEnds(th, t) = th[i].exit + Cooldown
                 /\ t < StreakEnds(th, t) => StreakCooldown(th, t) = StreakEnds(th, t)
<1> DEFINE run == LosingRun(th, t)
           exits == {th[i].exit : i \in run}
<1>1. Cooldown \in Nat \ {0} /\ LosingStreak \in Nat \ {0}
  BY BreakerAssumption
<1>2. Cardinality(run) \in Nat
  BY LosingRunIs, FS_CardinalityType
<1>3. ASSUME Cardinality(run) >= LosingStreak
      PROVE  Latest(exits) \in exits /\ Latest(exits) \in Nat /\ \A j \in exits : j <= Latest(exits)
  <2>1. run # {}
    BY <1>1, <1>3, FS_EmptySet
  <2>2. exits # {} /\ exits \subseteq 0..t
    <3>1. \A i \in run : th[i].exit \in 0..t
      BY LosingRunIs
    <3> HIDE DEF run
    <3>2. QED BY <2>1, <3>1
  <2>3. exits \subseteq Int /\ t \in Int /\ \A j \in exits : j <= t
    <3> HIDE DEF exits
    <3>1. QED BY <2>2
  <2> HIDE DEF exits
  <2>4. Latest(exits) \in exits /\ \A j \in exits : j <= Latest(exits)
    BY <2>2, <2>3, LatestIs
  <2>5. \A j \in exits : j \in Nat
    BY <2>2
  <2>6. QED BY <2>4, <2>5
<1>4. StreakEnds(th, t) = Latest(exits) + Cooldown
  BY DEF StreakEnds
<1>5. StreakCooldown(th, t) =
         IF Cardinality(run) >= LosingStreak /\ t < Latest(exits) + Cooldown
         THEN Latest(exits) + Cooldown ELSE Never
  BY DEF StreakCooldown
<1>6. CASE Cardinality(run) >= LosingStreak
  <2>1. \A i \in run : th[i].exit \in exits
    OBVIOUS
  <2>2. PICK i \in run : Latest(exits) = th[i].exit
    BY <1>3, <1>6
  <2> HIDE DEF run, exits
  <2>3. \A j \in run : th[j].exit \in Int /\ th[j].exit <= Latest(exits)
    BY <1>3, <1>6, <2>1, LosingRunIs DEF run
  <2>4. QED BY <1>1, <1>2, <1>3, <1>4, <1>5, <1>6, <2>2, <2>3 DEF Never, run
<1>7. CASE ~ (Cardinality(run) >= LosingStreak)
  <2> HIDE DEF exits
  <2>1. StreakCooldown(th, t) = Never
    BY <1>5, <1>7
  <2>2. QED BY <1>2, <1>7, <2>1 DEF Never
<1>8. QED BY <1>6, <1>7

\* A window's halt.
LEMMA HaltIs ==
    ASSUME NEW realized \in Int, NEW limit \in Nat, NEW until \in Nat \ {0}
    PROVE  /\ Halt(realized, limit, until) \in Nat
           /\ Halt(realized, limit, until) # Never <=> realized <= -limit
           /\ Halt(realized, limit, until) # Never =>
                 Halt(realized, limit, until) = Midnight(until)
BY DEF Halt, Never, Midnight, Slots

\* The latest of the four, and which hold.
LEMMA UntilIs ==
    ASSUME NEW dec, dec.daily \in Nat, dec.streak \in Nat, dec.weekly \in Nat,
           dec.monthly \in Nat
    PROVE  /\ Until(dec) \in {dec.daily, dec.streak, dec.weekly, dec.monthly}
           /\ Until(dec) \in Nat
           /\ (dec.daily # Never \/ dec.streak # Never \/ dec.weekly # Never
                 \/ dec.monthly # Never) => Until(dec) # Never
<1> DEFINE S == {dec.daily, dec.streak, dec.weekly, dec.monthly}
           b == dec.daily + dec.streak + dec.weekly + dec.monthly
<1>1. S \subseteq Int /\ S # {} /\ b \in Int /\ \A j \in S : j <= b
  OBVIOUS
<1>2. Latest(S) \in S /\ \A j \in S : j <= Latest(S)
  <2> HIDE DEF S, b
  <2>1. QED BY <1>1, LatestIs
<1>3. Until(dec) = Latest(S)
  BY DEF Until
<1> HIDE DEF Until
<1>4. QED BY <1>2, <1>3 DEF Never

-----------------------------------------------------------------------------
\* Every rule's halt is a time, and what it takes for one to hold.
LEMMA DecisionIs ==
    ASSUME NEW t \in Nat, NEW th, BookedBy(th, t), Day(t) \in SessionDays,
           NEW dec, dec = EvaluateCircuitBreaker(th, t), NEW d, d = Day(t)
    PROVE  /\ dec.daily \in Nat /\ dec.streak \in Nat /\ dec.weekly \in Nat
           /\ dec.monthly \in Nat /\ dec.incomplete \in BOOLEAN
           /\ dec.streak = StreakCooldown(th, t)
           /\ dec.daily # Never <=> Realized(th, d, t) <= -DailyLoss
           /\ dec.daily # Never => dec.daily = Midnight(NextSession(d))
           /\ dec.weekly # Never <=> Realized(th, WeekStart(d), t) <= -WeeklyLoss
           /\ dec.weekly # Never => dec.weekly = Midnight(NextWeek(d))
           /\ dec.monthly # Never <=> Realized(th, MonthStart(d), t) <= -MonthlyLoss
           /\ dec.monthly # Never => dec.monthly = Midnight(NextMonth(d))
<1>1. /\ DailyLoss \in Nat /\ WeeklyLoss \in Nat /\ MonthlyLoss \in Nat
      /\ d \in Nat /\ d + 1 \in Int
  BY BreakerAssumption, DayIs
<1>2. /\ NextSession(d) \in Nat \ {0} /\ NextWeek(d) \in Nat \ {0}
      /\ NextMonth(d) \in Nat \ {0}
  <2>1. NextSession(d) \in Nat \ {0}
    BY <1>1, SessionFromIs DEF NextSession
  <2>2. d \in SessionDays
    OBVIOUS
  <2>3. NextOf(Mondays, d) \in Nat \ {0} /\ NextOf(Firsts, d) \in Nat \ {0}
    BY <2>2, WeekAndMonth, PeriodIs
  <2>4. QED BY <2>1, <2>2, <2>3, WeekAndMonth
<1>3. th \in [Theses -> ThesisFiles]
  BY DEF BookedBy
<1>4. \A first : Realized(th, first, t) \in Int
  BY <1>3, RealizedIs
<1>5. /\ dec.daily = Halt(Realized(th, d, t), DailyLoss, NextSession(d))
      /\ dec.streak = StreakCooldown(th, t)
      /\ dec.weekly = Halt(Realized(th, WeekStart(d), t), WeeklyLoss, NextWeek(d))
      /\ dec.monthly = Halt(Realized(th, MonthStart(d), t), MonthlyLoss, NextMonth(d))
      /\ dec.incomplete = Incomplete(th)
  BY DEF EvaluateCircuitBreaker, WeeklyHalt
<1>6. Incomplete(th) \in BOOLEAN
  BY DEF Incomplete
<1>7. /\ dec.daily \in Nat
      /\ dec.daily # Never <=> Realized(th, d, t) <= -DailyLoss
      /\ dec.daily # Never => dec.daily = Midnight(NextSession(d))
  <2> DEFINE r == Realized(th, d, t)
             h == Halt(r, DailyLoss, NextSession(d))
  <2>1. r \in Int
    BY <1>4
  <2>2. /\ h \in Nat
        /\ h # Never <=> r <= -DailyLoss
        /\ h # Never => h = Midnight(NextSession(d))
    <3> HIDE DEF r
    <3>1. QED BY <1>1, <1>2, <2>1, HaltIs
  <2>3. dec.daily = h
    BY <1>5
  <2> HIDE DEF h
  <2>4. QED BY <2>2, <2>3
<1>8. /\ dec.weekly \in Nat
      /\ dec.weekly # Never <=> Realized(th, WeekStart(d), t) <= -WeeklyLoss
      /\ dec.weekly # Never => dec.weekly = Midnight(NextWeek(d))
  <2> DEFINE r == Realized(th, WeekStart(d), t)
             h == Halt(r, WeeklyLoss, NextWeek(d))
  <2>1. r \in Int
    BY <1>4
  <2>2. /\ h \in Nat
        /\ h # Never <=> r <= -WeeklyLoss
        /\ h # Never => h = Midnight(NextWeek(d))
    <3> HIDE DEF r
    <3>1. QED BY <1>1, <1>2, <2>1, HaltIs
  <2>3. dec.weekly = h
    BY <1>5
  <2> HIDE DEF h
  <2>4. QED BY <2>2, <2>3
<1>9. /\ dec.monthly \in Nat
      /\ dec.monthly # Never <=> Realized(th, MonthStart(d), t) <= -MonthlyLoss
      /\ dec.monthly # Never => dec.monthly = Midnight(NextMonth(d))
  <2> DEFINE r == Realized(th, MonthStart(d), t)
             h == Halt(r, MonthlyLoss, NextMonth(d))
  <2>1. r \in Int
    BY <1>4
  <2>2. /\ h \in Nat
        /\ h # Never <=> r <= -MonthlyLoss
        /\ h # Never => h = Midnight(NextMonth(d))
    <3> HIDE DEF r
    <3>1. QED BY <1>1, <1>2, <2>1, HaltIs
  <2>3. dec.monthly = h
    BY <1>5
  <2> HIDE DEF h
  <2>4. QED BY <2>2, <2>3
<1>10. dec.streak \in Nat
  <2>1. StreakCooldown(th, t) \in Nat
    BY StreakIs, Zenon
  <2>2. QED BY <1>5, <2>1
<1>11. QED BY <1>5, <1>6, <1>7, <1>8, <1>9, <1>10

\* What was realized since a day does not change while nothing is booked.
LEMMA RealizedStands ==
    ASSUME NEW t \in Nat, NEW t2 \in Nat, t <= t2, NEW th, BookedBy(th, t), NEW first \in Int
    PROVE  Realized(th, first, t2) = Realized(th, first, t)
<1>1. th \in [Theses -> ThesisFiles]
  BY DEF BookedBy
<1>2. Theses = 1..Cardinality(Theses)
  BY Numbered
<1>3. ASSUME NEW i \in Theses PROVE ThesisAmount(th, first, t2, i) = ThesisAmount(th, first, t, i)
  <2> DEFINE legs == th[i].legs
  <2>1. legs \in Seq(BookedLegs)
    BY <1>1 DEF ThesisFiles
  <2>2. ASSUME NEW k \in 1..Len(legs)
        PROVE  LegAmount(legs, first, t2, k) = LegAmount(legs, first, t, k)
    <3>1. legs[k].at \in Nat
      BY <2>1, AmountsAreNumbers
    <3>2. legs[k].at <= t
      BY DEF BookedBy
    <3> DEFINE at == legs[k].at
    <3>3. at \in Nat /\ at <= t
      BY <3>1, <3>2
    <3> HIDE DEF at
    <3>4. at <= t2 /\ Day(at) \in Nat /\ Day(at) <= Day(t) /\ Day(at) <= Day(t2)
          /\ Day(t) \in Nat /\ Day(t2) \in Nat
      <4>1. at <= t2
        BY <3>3
      <4>2. Day(at) <= Day(t) /\ Day(at) <= Day(t2)
        BY <3>3, <4>1, DaysInOrder, Zenon
      <4>3. Day(at) \in Nat /\ Day(t) \in Nat /\ Day(t2) \in Nat
        BY <3>3, DayIs, Zenon
      <4>4. QED BY <4>1, <4>2, <4>3
    <3>5. Day(at) \in first..Day(t) <=> Day(at) \in first..Day(t2)
      BY <3>4
    <3>6. InPeriod(legs[k], first, t2) <=> InPeriod(legs[k], first, t)
      BY <3>3, <3>4, <3>5 DEF InPeriod, at
    <3>7. QED BY <3>6 DEF LegAmount
  <2> HIDE DEF legs
  <2>3. [k \in 1..Len(legs) |-> LegAmount(legs, first, t2, k)]
           = [k \in 1..Len(legs) |-> LegAmount(legs, first, t, k)]
    BY <2>2
  <2>4. RealizedOf(legs, first, t2) = RealizedOf(legs, first, t)
    <3>1. \A u : RealizedOf(legs, first, u)
                   = Total([k \in 1..Len(legs) |-> LegAmount(legs, first, u, k)])
      BY <2>1, RealizedOfIs, Zenon
    <3>2. QED BY <2>3, <3>1, Zenon
  <2>5. QED BY <2>4 DEF ThesisAmount, legs
<1>4. [i \in 1..Cardinality(Theses) |-> ThesisAmount(th, first, t2, i)]
         = [i \in 1..Cardinality(Theses) |-> ThesisAmount(th, first, t, i)]
  BY <1>2, <1>3
<1>5. \A u : Realized(th, first, u)
           = Total([i \in 1..Cardinality(Theses) |-> ThesisAmount(th, first, u, i)])
  BY <1>1, RealizedIs, Zenon
<1>6. QED BY <1>4, <1>5, Zenon

\* What was booked by a time was booked by every later one.
LEMMA BookedStays ==
    ASSUME NEW t \in Nat, NEW t2 \in Nat, t <= t2, NEW th, BookedBy(th, t)
    PROVE  BookedBy(th, t2)
<1> SUFFICES ASSUME NEW i \in Theses
             PROVE  th[i].exit <= t2 /\ \A k \in 1..Len(th[i].legs) : th[i].legs[k].at <= t2
  BY DEF BookedBy
<1>1. th[i].exit \in Int /\ th[i].legs \in Seq(BookedLegs) /\ th[i].exit <= t
  BY DEF BookedBy, ThesisFiles
<1>2. \A k \in 1..Len(th[i].legs) : th[i].legs[k].at \in Nat /\ th[i].legs[k].at <= t
  BY <1>1, AmountsAreNumbers DEF BookedBy
<1>3. QED BY <1>1, <1>2

\* An evaluation before a halt is over finds it again, if nothing was booked since.
LEMMA TimePasses ==
    ASSUME NEW t \in Nat, NEW t2 \in Nat, t <= t2, NEW th, BookedBy(th, t),
           Day(t) \in SessionDays, Day(t2) \in SessionDays,
           t2 < Until(EvaluateCircuitBreaker(th, t))
    PROVE  Until(EvaluateCircuitBreaker(th, t2)) # Never
<1> DEFINE dec == EvaluateCircuitBreaker(th, t)
           dec2 == EvaluateCircuitBreaker(th, t2)
           d == Day(t)
           d2 == Day(t2)
<1>1. BookedBy(th, t2)
  BY BookedStays
<1>2. d \in Nat /\ d2 \in Nat /\ d <= d2 /\ Midnight(d2) <= t2
  BY DayIs, DaysInOrder
<1>3. ASSUME NEW e \in Nat, t2 < Midnight(e) PROVE d2 < e
  BY <1>2, <1>3 DEF Midnight, Slots
<1>4. /\ dec.daily \in Nat /\ dec.streak \in Nat /\ dec.weekly \in Nat /\ dec.monthly \in Nat
      /\ dec.streak = StreakCooldown(th, t)
      /\ dec.daily # Never <=> Realized(th, d, t) <= -DailyLoss
      /\ dec.daily # Never => dec.daily = Midnight(NextSession(d))
      /\ dec.weekly # Never <=> Realized(th, WeekStart(d), t) <= -WeeklyLoss
      /\ dec.weekly # Never => dec.weekly = Midnight(NextWeek(d))
      /\ dec.monthly # Never <=> Realized(th, MonthStart(d), t) <= -MonthlyLoss
      /\ dec.monthly # Never => dec.monthly = Midnight(NextMonth(d))
  BY DecisionIs
<1>5. /\ dec2.daily \in Nat /\ dec2.streak \in Nat /\ dec2.weekly \in Nat /\ dec2.monthly \in Nat
      /\ dec2.streak = StreakCooldown(th, t2)
      /\ dec2.daily # Never <=> Realized(th, d2, t2) <= -DailyLoss
      /\ dec2.weekly # Never <=> Realized(th, WeekStart(d2), t2) <= -WeeklyLoss
      /\ dec2.monthly # Never <=> Realized(th, MonthStart(d2), t2) <= -MonthlyLoss
  BY <1>1, DecisionIs
<1> HIDE DEF dec, dec2
<1>6. t2 < Until(dec) /\ Until(dec) \in {dec.daily, dec.streak, dec.weekly, dec.monthly}
  BY <1>4, UntilIs DEF dec
<1>7. SUFFICES dec2.daily # Never \/ dec2.streak # Never \/ dec2.weekly # Never
                  \/ dec2.monthly # Never
  BY <1>5, UntilIs DEF dec2
<1>8. CASE t2 < dec.daily
  <2>1. dec.daily # Never
    BY <1>8 DEF Never
  <2>2. NextSession(d) \in Nat /\ \A s \in SessionDays : s >= d + 1 => NextSession(d) <= s
    BY <1>2, SessionFromIs DEF NextSession
  <2>3. d2 < NextSession(d)
    BY <1>3, <1>4, <1>8, <2>1, <2>2
  <2>4. d2 = d
    BY <1>2, <2>2, <2>3
  <2>5. Realized(th, d, t2) = Realized(th, d, t)
    BY <1>2, RealizedStands
  <2>6. QED BY <1>4, <1>5, <2>1, <2>4, <2>5
<1>9. CASE t2 < dec.weekly
  <2>1. dec.weekly # Never
    BY <1>9 DEF Never
  <2>2. /\ NextWeek(d) \in Nat /\ WeekStart(d) \in Int
        /\ d2 < NextWeek(d) => WeekStart(d2) = WeekStart(d)
    BY <1>2, WeekAndMonth, PeriodIs
  <2>3. d2 < NextWeek(d)
    BY <1>3, <1>4, <1>9, <2>1, <2>2
  <2>4. Realized(th, WeekStart(d), t2) = Realized(th, WeekStart(d), t)
    BY <2>2, RealizedStands
  <2>5. QED BY <1>4, <1>5, <2>1, <2>2, <2>3, <2>4
<1>10. CASE t2 < dec.monthly
  <2>1. dec.monthly # Never
    BY <1>10 DEF Never
  <2>2. /\ NextMonth(d) \in Nat /\ MonthStart(d) \in Int
        /\ d2 < NextMonth(d) => MonthStart(d2) = MonthStart(d)
    BY <1>2, WeekAndMonth, PeriodIs
  <2>3. d2 < NextMonth(d)
    BY <1>3, <1>4, <1>10, <2>1, <2>2
  <2>4. Realized(th, MonthStart(d), t2) = Realized(th, MonthStart(d), t)
    BY <2>2, RealizedStands
  <2>5. QED BY <1>4, <1>5, <2>1, <2>2, <2>3, <2>4
<1>11. CASE t2 < dec.streak
  <2>1. dec.streak # Never
    BY <1>11 DEF Never
  <2>2. Results(th, t2) = Results(th, t)
    <3>1. \A i \in Readable(th) : th[i].exit \in Int /\ th[i].exit <= t
      BY DEF BookedBy, ThesisFiles, Readable
    <3>2. QED BY <3>1 DEF Results
  <2>3. LosingRun(th, t2) = LosingRun(th, t)
    BY <2>2 DEF LosingRun
  <2>4. StreakEnds(th, t2) = StreakEnds(th, t)
    BY <2>3 DEF StreakEnds
  <2>5. /\ Cardinality(LosingRun(th, t)) >= LosingStreak
        /\ dec.streak = StreakEnds(th, t)
    BY <1>4, <2>1, StreakIs
  <2>6. t2 < StreakEnds(th, t2) /\ Cardinality(LosingRun(th, t2)) >= LosingStreak
    BY <1>11, <2>3, <2>4, <2>5
  <2>7. StreakCooldown(th, t2) = StreakEnds(th, t2) /\ StreakEnds(th, t2) \in Nat \ {0}
    BY <1>1, <2>6, StreakIs
  <2>8. QED BY <1>5, <2>7 DEF Never
<1>12. QED BY <1>6, <1>8, <1>9, <1>10, <1>11

-----------------------------------------------------------------------------
\* A leg is added to thesis i, which is still open before.
LegAdded(th, th2, i, leg) ==
    /\ i \in Theses /\ leg \in BookedLegs
    /\ th[i].exit = Open /\ th[i].readable /\ th2[i].readable
    /\ th2[i].legs = Append(th[i].legs, leg)
    /\ \A j \in Theses : j # i => th2[j] = th[j]

\* A leg that is no gain adds nothing to what was realized.
LEMMA LossesAdd ==
    ASSUME NEW t \in Nat, NEW th, BookedBy(th, t), NEW th2, BookedBy(th2, t),
           NEW i, NEW leg, LegAdded(th, th2, i, leg), leg.pnl <= 0, NEW first
    PROVE  Realized(th2, first, t) <= Realized(th, first, t)
<1> DEFINE n == Cardinality(Theses)
           A(h, j) == ThesisAmount(h, first, t, j)
           s1 == [j \in 1..n |-> A(th, j)]
           s2 == [j \in 1..n |-> A(th2, j)]
           l1 == th[i].legs
           l2 == th2[i].legs
           L(legs, k) == LegAmount(legs, first, t, k)
           a1 == [k \in 1..Len(l1) |-> L(l1, k)]
           a2 == [k \in 1..Len(l2) |-> L(l2, k)]
<1>1. th \in [Theses -> ThesisFiles] /\ th2 \in [Theses -> ThesisFiles] /\ i \in Theses
  BY DEF BookedBy, LegAdded
<1>2. n \in Nat /\ Theses = 1..n
  BY Numbered
<1>3. l1 \in Seq(BookedLegs) /\ l2 \in Seq(BookedLegs) /\ l2 = Append(l1, leg)
  BY <1>1 DEF ThesisFiles, LegAdded
<1>4. RealizedOf(l2, first, t) <= RealizedOf(l1, first, t)
  <2>1. /\ a1 \in Seq(Int) /\ RealizedOf(l1, first, t) = Total(a1)
        /\ a2 \in Seq(Int) /\ RealizedOf(l2, first, t) = Total(a2)
        /\ RealizedOf(l1, first, t) \in Int
    BY <1>3, RealizedOfIs, Zenon
  <2>2. /\ Len(l1) \in Nat /\ Len(l2) = Len(l1) + 1 /\ l2[Len(l2)] = leg
        /\ \A k \in 1..Len(l1) : l2[k] = l1[k]
    <3> HIDE DEF l1, l2
    <3>1. leg \in BookedLegs
      BY DEF LegAdded
    <3>2. QED BY <1>3, <3>1
  <2> HIDE DEF l1, l2
  <2>3. /\ Len(a1) = Len(l1) /\ Len(a2) = Len(l2)
        /\ \A k \in 1..Len(a1) : a1[k] = a2[k]
    BY <2>2 DEF LegAmount
  <2>4. a2[Len(a2)] \in Int /\ a2[Len(a2)] <= 0
    <3>1. a2[Len(a2)] = IF InPeriod(leg, first, t) THEN leg.pnl ELSE 0
      BY <2>2, <2>3 DEF LegAmount
    <3>2. leg.pnl \in Int
      BY BreakerAssumption DEF LegAdded, BookedLegs
    <3>3. QED BY <3>1, <3>2
  <2> HIDE DEF a1, a2
  <2>5. Total(a2) = Total(a1) + a2[Len(a2)]
    BY <2>1, <2>2, <2>3, TotalAppend
  <2>6. QED BY <2>1, <2>4, <2>5
<1>5. \A j \in 1..n : A(th2, j) <= A(th, j)
  <2> TAKE j \in 1..n
  <2>1. th[j].legs \in Seq(BookedLegs)
    BY <1>1, <1>2 DEF ThesisFiles
  <2>2. RealizedOf(th[j].legs, first, t) \in Int
    BY <2>1, RealizedOfIs
  <2>3. CASE j = i
    BY <1>1, <1>4, <2>3 DEF ThesisAmount, Readable, LegAdded
  <2>4. CASE j # i
    <3>1. th2[j] = th[j]
      BY <1>2, <2>4 DEF LegAdded
    <3>2. A(th2, j) = A(th, j) /\ A(th, j) \in Int
      BY <2>2, <3>1 DEF ThesisAmount, Readable
    <3>3. QED BY <3>2
  <2>5. QED BY <2>3, <2>4
<1>6. /\ s1 \in Seq(Int) /\ Realized(th, first, t) = Total(s1)
      /\ s2 \in Seq(Int) /\ Realized(th2, first, t) = Total(s2)
  BY <1>1, RealizedIs, Zenon
<1>7. Len(s1) = n /\ Len(s2) = n /\ \A j \in 1..Len(s2) : s2[j] <= s1[j]
  <2> HIDE DEF n, A
  <2>1. QED BY <1>2, <1>5
<1> HIDE DEF s1, s2
<1>8. QED BY <1>6, <1>7, TotalMonotone

\* Nor does it, or a close that lost, end a losing run.
LEMMA LossesLengthen ==
    ASSUME NEW t \in Nat, NEW th, BookedBy(th, t), NEW th2, BookedBy(th2, t),
           NEW i, NEW leg, LegAdded(th, th2, i, leg), Closed(th2[i]) => Pnl(th2, i) < 0
    PROVE  /\ LosingRun(th, t) \subseteq LosingRun(th2, t)
           /\ \A j \in LosingRun(th, t) : th2[j].exit = th[j].exit
<1>1. \A j \in Results(th, t) : j # i /\ j \in Theses /\ th2[j] = th[j]
  BY DEF Results, Readable, Closed, Open, LegAdded
<1>2. Results(th, t) \subseteq Results(th2, t)
  BY <1>1 DEF Results, Readable
<1>3. \A j \in Results(th2, t) : j \in Results(th, t) \/ (j = i /\ Pnl(th2, j) < 0)
  BY DEF Results, Readable, LegAdded
<1>4. ASSUME NEW j \in LosingRun(th, t), NEW m \in Results(th2, t), m = j \/ After(th2, m, j)
      PROVE  Pnl(th2, m) < 0
  <2>1. j \in Results(th, t)
    BY DEF LosingRun
  <2>2. CASE m \in Results(th, t)
    <3>1. m = j \/ After(th, m, j)
      BY <1>1, <1>4, <2>1, <2>2 DEF After
    <3>2. Pnl(th, m) < 0
      BY <2>2, <3>1 DEF LosingRun
    <3>3. Pnl(th2, m) = Pnl(th, m)
      <4>1. th2[m].legs = th[m].legs
        BY <1>1, <2>2
      <4>2. QED BY <4>1, Zenon DEF Pnl
    <3>4. QED BY <3>2, <3>3
  <2>3. CASE m \notin Results(th, t)
    BY <1>3, <2>3
  <2>4. QED BY <2>2, <2>3
<1>5. LosingRun(th, t) \subseteq LosingRun(th2, t)
  <2> SUFFICES ASSUME NEW j \in LosingRun(th, t) PROVE j \in LosingRun(th2, t)
    OBVIOUS
  <2>1. j \in Results(th2, t)
    BY <1>2 DEF LosingRun
  <2>2. QED BY <1>4, <2>1 DEF LosingRun
<1>6. \A j \in LosingRun(th, t) : th2[j].exit = th[j].exit
  BY <1>1 DEF LosingRun
<1>7. QED BY <1>5, <1>6

\* A loss lifts no halt.
LEMMA LossesHalt ==
    ASSUME NEW t \in Nat, NEW th, BookedBy(th, t), NEW th2, BookedBy(th2, t),
           Day(t) \in SessionDays,
           NEW i, NEW leg, LegAdded(th, th2, i, leg), leg.pnl <= 0,
           Closed(th2[i]) => Pnl(th2, i) < 0,
           Until(EvaluateCircuitBreaker(th, t)) # Never
    PROVE  Until(EvaluateCircuitBreaker(th2, t)) # Never
<1> DEFINE dec == EvaluateCircuitBreaker(th, t)
           dec2 == EvaluateCircuitBreaker(th2, t)
           d == Day(t)
<1>1. /\ dec.daily \in Nat /\ dec.streak \in Nat /\ dec.weekly \in Nat /\ dec.monthly \in Nat
      /\ dec.streak = StreakCooldown(th, t)
      /\ dec.daily # Never <=> Realized(th, d, t) <= -DailyLoss
      /\ dec.weekly # Never <=> Realized(th, WeekStart(d), t) <= -WeeklyLoss
      /\ dec.monthly # Never <=> Realized(th, MonthStart(d), t) <= -MonthlyLoss
  BY DecisionIs
<1>2. /\ dec2.daily \in Nat /\ dec2.streak \in Nat /\ dec2.weekly \in Nat /\ dec2.monthly \in Nat
      /\ dec2.streak = StreakCooldown(th2, t)
      /\ dec2.daily # Never <=> Realized(th2, d, t) <= -DailyLoss
      /\ dec2.weekly # Never <=> Realized(th2, WeekStart(d), t) <= -WeeklyLoss
      /\ dec2.monthly # Never <=> Realized(th2, MonthStart(d), t) <= -MonthlyLoss
  BY DecisionIs
<1> HIDE DEF dec, dec2
<1>3. Until(dec) \in {dec.daily, dec.streak, dec.weekly, dec.monthly} /\ Until(dec) # Never
  BY <1>1, UntilIs DEF dec
<1>4. SUFFICES dec2.daily # Never \/ dec2.streak # Never \/ dec2.weekly # Never
                  \/ dec2.monthly # Never
  BY <1>2, UntilIs DEF dec2
<1>5. ASSUME NEW first, NEW limit \in {DailyLoss, WeeklyLoss, MonthlyLoss},
             Realized(th, first, t) <= -limit
      PROVE  Realized(th2, first, t) <= -limit
  <2>1. Realized(th, first, t) \in Int /\ Realized(th2, first, t) \in Int
    BY RealizedIs DEF BookedBy
  <2>2. Realized(th2, first, t) <= Realized(th, first, t)
    BY LossesAdd
  <2>3. limit \in Int
    BY BreakerAssumption
  <2>4. QED BY <1>5, <2>1, <2>2, <2>3
<1>6. CASE dec.streak # Never
  <2>1. /\ Cardinality(LosingRun(th, t)) >= LosingStreak
        /\ t < StreakEnds(th, t) /\ Cardinality(LosingRun(th, t)) \in Nat
    BY <1>1, <1>6, StreakIs
  <2>2. PICK j \in LosingRun(th, t) : StreakEnds(th, t) = th[j].exit + Cooldown
    BY <2>1, StreakIs
  <2>3. /\ LosingRun(th, t) \subseteq LosingRun(th2, t) /\ th2[j].exit = th[j].exit
        /\ j \in LosingRun(th2, t)
    BY LossesLengthen
  <2>4. Cardinality(LosingRun(th2, t)) >= LosingStreak
    <3>1. IsFiniteSet(LosingRun(th2, t)) /\ Cardinality(LosingRun(th2, t)) \in Nat
      BY LosingRunIs, FS_CardinalityType
    <3>2. Cardinality(LosingRun(th, t)) <= Cardinality(LosingRun(th2, t))
      BY <2>3, <3>1, FS_Subset
    <3>3. LosingStreak \in Nat
      BY BreakerAssumption
    <3>4. QED BY <2>1, <3>1, <3>2, <3>3
  <2>5. /\ StreakEnds(th2, t) \in Nat \ {0} /\ th2[j].exit + Cooldown <= StreakEnds(th2, t)
        /\ t < StreakEnds(th2, t) => StreakCooldown(th2, t) = StreakEnds(th2, t)
    BY <2>3, <2>4, StreakIs
  <2>6. th[j].exit + Cooldown \in Int
    <3>1. th[j].exit \in 0..t
      BY LosingRunIs
    <3>2. Cooldown \in Nat
      BY BreakerAssumption
    <3>3. QED BY <3>1, <3>2
  <2>7. t < StreakEnds(th2, t)
    BY <2>1, <2>2, <2>3, <2>5, <2>6
  <2>8. QED BY <1>2, <2>5, <2>7 DEF Never
<1>7. CASE dec.daily # Never
  BY <1>1, <1>2, <1>5, <1>7
<1>8. CASE dec.weekly # Never
  BY <1>1, <1>2, <1>5, <1>8
<1>9. CASE dec.monthly # Never
  BY <1>1, <1>2, <1>5, <1>9
<1>10. QED BY <1>3, <1>6, <1>7, <1>8, <1>9

-----------------------------------------------------------------------------
\* Nothing is booked for later than now, now is at a session, and the decision is that of
\* the files as they are: no halt is remembered.
BreakerInv ==
    /\ now \in Nat /\ Day(now) \in SessionDays
    /\ BookedBy(thesis, now)
    /\ decision = EvaluateCircuitBreaker(thesis, now)

\* The times a leg or an exit may be given are not later than now.
LEMMA StatedIs ==
    ASSUME BreakerInv, NEW at \in Stated
    PROVE  at \in Nat /\ at <= now
<1>1. now \in Nat /\ Day(now) \in Nat \ {0} /\ Midnight(Day(now)) <= now
  BY BreakerAssumption, DayIs DEF BreakerInv
<1>2. at \in {now, Midnight(Day(now)), Midnight(Day(now) - 1)}
  BY DEF Stated
<1> DEFINE d == Day(now)
<1> HIDE DEF d
<1>3. d \in Nat \ {0} /\ Midnight(d) <= now /\ at \in {now, Midnight(d), Midnight(d - 1)}
  BY <1>1, <1>2 DEF d
<1>4. QED BY <1>1, <1>3 DEF Midnight, Slots

\* A file with another leg, or another exit that is not later than t.
LEMMA FileBooked ==
    ASSUME NEW t \in Nat, NEW th, BookedBy(th, t), NEW th2, NEW i \in Theses,
           NEW f \in ThesisFiles, th2 = [th EXCEPT ![i] = f], f.exit <= t,
           \A k \in 1..Len(f.legs) : f.legs[k].at <= t
    PROVE  BookedBy(th2, t)
<1>1. th \in [Theses -> ThesisFiles]
  BY DEF BookedBy
<1>2. th2 \in [Theses -> ThesisFiles] /\ th2[i] = f /\ \A j \in Theses : j # i => th2[j] = th[j]
  BY <1>1
<1>3. QED BY <1>2 DEF BookedBy

\* A trim or a close books a leg.
LEMMA LegBooked ==
    ASSUME BreakerInv, NEW i \in Theses, CanBook(i), NEW pnl \in Amounts,
           NEW at \in Nat, at <= now, NEW exit \in Int, exit <= now,
           NEW th2, th2 = [thesis EXCEPT ![i].legs = WithLeg(i, pnl, at), ![i].exit = exit]
    PROVE  /\ BookedBy(th2, now)
           /\ LegAdded(thesis, th2, i, [pnl |-> pnl, at |-> at])
           /\ th2[i].exit = exit
<1> DEFINE leg == [pnl |-> pnl, at |-> at]
           f == [thesis[i] EXCEPT !.legs = Append(thesis[i].legs, leg), !.exit = exit]
<1>1. thesis \in [Theses -> ThesisFiles] /\ now \in Nat /\ BookedBy(thesis, now)
  BY DEF BreakerInv, BookedBy
<1>2. thesis[i] \in ThesisFiles
  BY <1>1
<1>3. thesis[i].legs \in Seq(BookedLegs) /\ leg \in BookedLegs
  BY <1>2 DEF ThesisFiles, BookedLegs
<1>4. /\ f \in ThesisFiles /\ f.legs = Append(thesis[i].legs, leg) /\ f.exit = exit
      /\ f.readable = thesis[i].readable
  <2>1. Append(thesis[i].legs, leg) \in Seq(BookedLegs)
    <3> HIDE DEF leg
    <3>1. QED BY <1>3
  <2> HIDE DEF leg
  <2>2. QED BY <1>2, <2>1 DEF ThesisFiles
<1>5. th2 = [thesis EXCEPT ![i] = f]
  BY <1>1, <1>2 DEF WithLeg, ThesisFiles
<1>6. \A k \in 1..Len(f.legs) : f.legs[k].at <= now
  <2> HIDE DEF f
  <2>1. \A k \in 1..Len(thesis[i].legs) : thesis[i].legs[k].at <= now
    BY <1>1 DEF BookedBy
  <2>2. leg.at <= now
    OBVIOUS
  <2> DEFINE legs == thesis[i].legs
  <2> HIDE DEF leg, legs
  <2>3. QED BY <1>3, <1>4, <2>1, <2>2 DEF legs
<1> HIDE DEF f, leg
<1>7. BookedBy(th2, now)
  BY <1>1, <1>4, <1>5, <1>6, FileBooked
<1>8. th2[i] = f /\ \A j \in Theses : j # i => th2[j] = thesis[j]
  BY <1>1, <1>5
<1>9. thesis[i].exit = Open /\ thesis[i].readable
  BY DEF CanBook
<1>10. LegAdded(thesis, th2, i, leg)
  BY <1>3, <1>4, <1>8, <1>9 DEF LegAdded
<1>11. QED BY <1>4, <1>7, <1>8, <1>10 DEF leg

\* The clock moves on to a session.
LEMMA Advances ==
    ASSUME BreakerInv, Advance
    PROVE  now' \in Nat /\ now <= now' /\ Day(now') \in SessionDays
<1> DEFINE times == {t \in now + 1..Slots * LastDay + 2 :
                        Day(t) \in SessionDays /\ t % Slots # 0}
<1>1. times # {} /\ now' = Earliest(times)
  BY DEF Advance
<1>2. now \in Nat /\ Slots * LastDay + 2 \in Int
  BY BreakerAssumption DEF BreakerInv, Slots
<1>3. \A t \in times : t \in Nat /\ now <= t /\ Day(t) \in SessionDays
  BY <1>2
<1> HIDE DEF times
<1>4. times \in SUBSET Nat
  BY <1>3
<1>5. now' \in times
  BY <1>1, <1>4, EarliestIs
<1>6. QED BY <1>3, <1>5

\* The first decision is that of no files booked, and every step evaluates anew.
THEOREM BreakerInductive == BreakerSpec => []BreakerInv
<1>1. BreakerInit => BreakerInv
  <2> SUFFICES ASSUME BreakerInit PROVE BreakerInv
    OBVIOUS
  <2>1. Earliest(SessionDays) \in SessionDays /\ Earliest(SessionDays) \in Nat
    <3>1. SessionDays \in SUBSET Nat /\ SessionDays # {}
      BY BreakerAssumption
    <3>2. QED BY <3>1, EarliestIs
  <2> DEFINE d == Earliest(SessionDays)
  <2>2. now = 3 * d + 1 /\ d \in Nat /\ d \in SessionDays
    BY <2>1 DEF BreakerInit, Slots
  <2> HIDE DEF d
  <2>3. now \in Nat /\ Day(now) = d
    BY <2>2 DEF Day, Slots
  <2>4. BookedBy(thesis, now)
    <3>1. thesis = [i \in Theses |-> [legs |-> << >>, exit |-> Open, readable |-> TRUE]]
      BY DEF BreakerInit
    <3>2. [legs |-> << >>, exit |-> Open, readable |-> TRUE] \in ThesisFiles
      BY DEF ThesisFiles, Open
    <3>3. \A i \in Theses : thesis[i].legs = << >> /\ thesis[i].exit = -1
      BY <3>1 DEF Open
    <3>4. \A i \in Theses : thesis[i].exit <= now /\ \A k \in 1..Len(thesis[i].legs) : FALSE
      BY <2>3, <3>3
    <3>5. QED BY <3>1, <3>2, <3>4 DEF BookedBy
  <2>5. QED BY <2>2, <2>3, <2>4 DEF BreakerInit, BreakerInv
<1>2. BreakerInv /\ [BreakerNext]_breakerVars => BreakerInv'
  <2> SUFFICES ASSUME BreakerInv, [BreakerNext]_breakerVars PROVE BreakerInv'
    OBVIOUS
  <2>1. CASE UNCHANGED breakerVars
    BY <2>1 DEF breakerVars, BreakerInv
  <2>2. CASE Advance
    <3>1. now' \in Nat /\ now <= now' /\ Day(now') \in SessionDays /\ thesis' = thesis
      BY <2>2, Advances DEF Advance
    <3>2. BookedBy(thesis, now')
      BY <3>1, BookedStays DEF BreakerInv
    <3>3. decision' = EvaluateCircuitBreaker(thesis', now')
      BY <2>2 DEF Advance, Reevaluate
    <3>4. QED BY <3>1, <3>2, <3>3 DEF BreakerInv
  <2>3. ASSUME NEW i \in Theses, NEW pnl \in Amounts, NEW at \in Stated, TrimThesis(i, pnl, at)
        PROVE  BreakerInv'
    <3>1. thesis[i].exit \in Int /\ thesis[i].exit <= now /\ thesis \in [Theses -> ThesisFiles]
      BY DEF BreakerInv, BookedBy, ThesisFiles
    <3>2. thesis' = [thesis EXCEPT ![i].legs = WithLeg(i, pnl, at), ![i].exit = thesis[i].exit]
      BY <2>3, <3>1 DEF TrimThesis, ThesisFiles
    <3>3. at \in Nat /\ at <= now /\ CanBook(i)
      BY <2>3, StatedIs DEF TrimThesis
    <3>4. BookedBy(thesis', now)
      BY <3>1, <3>2, <3>3, LegBooked
    <3>5. QED BY <2>3, <3>4 DEF TrimThesis, Reevaluate, BreakerInv
  <2>4. ASSUME NEW i \in Theses, NEW pnl \in Amounts, NEW at \in Stated, NEW exit \in Stated,
               CloseThesis(i, pnl, at, exit)
        PROVE  BreakerInv'
    <3>1. exit \in Int /\ exit <= now /\ CanBook(i) /\ at \in Nat /\ at <= now
      BY <2>4, StatedIs DEF CloseThesis, BreakerInv
    <3>2. thesis' = [thesis EXCEPT ![i].legs = WithLeg(i, pnl, at), ![i].exit = exit]
      BY <2>4 DEF CloseThesis
    <3>3. BookedBy(thesis', now)
      BY <3>1, <3>2, LegBooked
    <3>4. QED BY <2>4, <3>3 DEF CloseThesis, Reevaluate, BreakerInv
  <2>5. ASSUME NEW i \in Theses, Reject(i) \/ Damage(i) \/ Repair(i)
        PROVE  BreakerInv'
    <3>1. /\ thesis \in [Theses -> ThesisFiles] /\ now \in Nat /\ BookedBy(thesis, now)
          /\ thesis[i].exit <= now /\ \A k \in 1..Len(thesis[i].legs) : thesis[i].legs[k].at <= now
      BY DEF BreakerInv, BookedBy
    <3>2. PICK f \in ThesisFiles :
             /\ thesis' = [thesis EXCEPT ![i] = f]
             /\ f.legs = thesis[i].legs /\ f.exit <= now
      <4>1. thesis[i] \in ThesisFiles
        BY <3>1
      <4>2. CASE Reject(i)
        <5> DEFINE f == [thesis[i] EXCEPT !.exit = Rejected]
        <5>1. f \in ThesisFiles /\ f.legs = thesis[i].legs /\ f.exit = -2
          BY <4>1 DEF ThesisFiles, Rejected
        <5>2. thesis' = [thesis EXCEPT ![i] = f]
          BY <4>2, <3>1 DEF Reject
        <5>3. f.exit <= now
          BY <3>1, <5>1
        <5> HIDE DEF f
        <5>4. QED BY <5>1, <5>2, <5>3
      <4>3. ASSUME NEW r \in BOOLEAN, thesis' = [thesis EXCEPT ![i].readable = r]
            PROVE  \E f \in ThesisFiles :
                      /\ thesis' = [thesis EXCEPT ![i] = f]
                      /\ f.legs = thesis[i].legs /\ f.exit <= now
        <5> DEFINE f == [thesis[i] EXCEPT !.readable = r]
        <5>1. f \in ThesisFiles /\ f.legs = thesis[i].legs /\ f.exit = thesis[i].exit
          BY <4>1 DEF ThesisFiles
        <5>2. thesis' = [thesis EXCEPT ![i] = f]
          BY <4>3, <3>1
        <5>3. QED BY <3>1, <5>1, <5>2
      <4>4. QED BY <2>5, <4>2, <4>3 DEF Damage, Repair
    <3>3. BookedBy(thesis', now)
      BY <3>1, <3>2, FileBooked
    <3>4. QED BY <2>5, <3>3 DEF Reject, Damage, Repair, Reevaluate, BreakerInv
  <2>6. LegStated \subseteq Stated
    BY DEF LegStated, Stated
  <2>7. QED BY <2>1, <2>2, <2>3, <2>4, <2>5, <2>6 DEF BreakerNext
<1>3. QED BY <1>1, <1>2, PTL DEF BreakerSpec

\* Files, clock and decision are of their types.
THEOREM BreakerTypeCorrect == BreakerSpec => []BreakerTypeOK
<1>1. BreakerInv => BreakerTypeOK
  <2> SUFFICES ASSUME BreakerInv PROVE BreakerTypeOK
    OBVIOUS
  <2>1. /\ decision.daily \in Nat /\ decision.streak \in Nat /\ decision.weekly \in Nat
        /\ decision.monthly \in Nat /\ decision.incomplete \in BOOLEAN
    BY DecisionIs DEF BreakerInv
  <2>2. Until(decision) \in Nat
    BY <2>1, UntilIs
  <2>3. \A i \in Theses :
           /\ thesis[i].legs \in Seq([pnl : Amounts, at : Nat])
           /\ thesis[i].exit \in Int /\ thesis[i].readable \in BOOLEAN
    BY DEF BreakerInv, BookedBy, ThesisFiles, BookedLegs
  <2>4. QED BY <2>1, <2>2, <2>3 DEF BreakerTypeOK, BreakerInv
<1>2. QED BY <1>1, BreakerInductive, PTL

\* A halt lasts as long as it says, for any theses, amounts, limits and calendar: while
\* time passes its window has not ended (TimePasses), a loss adds to it (LossesAdd) and to the
\* losing run (LossesLengthen), and a rejected idea or a damaged file blocks by itself.
THEOREM HaltStands == BreakerSpec => HaltHolds
<1>1. ASSUME BreakerInv, BreakerInv', BreakerNext,
             Blocked(decision), now' < Until(decision), ~Relief
      PROVE  Blocked(decision')
  <2>1. /\ now \in Nat /\ now' \in Nat /\ BookedBy(thesis, now) /\ BookedBy(thesis', now')
        /\ Day(now) \in SessionDays /\ Day(now') \in SessionDays
        /\ decision = EvaluateCircuitBreaker(thesis, now)
        /\ decision' = EvaluateCircuitBreaker(thesis', now')
    BY <1>1 DEF BreakerInv
  <2>2. Until(decision) # Never
    BY <1>1, <2>1 DEF Never
  <2>3. SUFFICES Until(decision') # Never \/ decision'.incomplete
    BY DEF Blocked
  <2>4. CASE Advance
    <3>1. now <= now' /\ thesis' = thesis
      BY <1>1, <2>4, Advances DEF Advance
    <3>2. QED BY <1>1, <2>1, <3>1, TimePasses
  <2>5. ASSUME NEW i \in Theses, NEW leg, LegAdded(thesis, thesis', i, leg), now' = now
        PROVE  Until(decision') # Never
    <3>1. /\ Len(thesis'[i].legs) > Len(thesis[i].legs)
          /\ thesis'[i].legs[Len(thesis'[i].legs)] = leg
      <4> DEFINE legs == thesis[i].legs
      <4>1. legs \in Seq(BookedLegs) /\ leg \in BookedLegs /\ thesis'[i].legs = Append(legs, leg)
        BY <2>1, <2>5 DEF BookedBy, ThesisFiles, LegAdded
      <4> HIDE DEF legs
      <4>2. QED BY <4>1 DEF legs
    <3>2. ~(leg.pnl > 0) /\ ~(Closed(thesis'[i]) /\ Pnl(thesis', i) >= 0)
      BY <1>1, <3>1 DEF Relief
    <3>3. leg.pnl \in Int
      BY <2>5, BreakerAssumption DEF LegAdded, BookedLegs
    <3>4. Pnl(thesis', i) \in Int
      BY <2>1, PnlIs DEF BookedBy
    <3>5. leg.pnl <= 0 /\ (Closed(thesis'[i]) => Pnl(thesis', i) < 0)
      BY <3>2, <3>3, <3>4
    <3>6. QED BY <2>1, <2>2, <2>5, <3>5, LossesHalt
  <2>6. ASSUME NEW i \in Theses, NEW pnl \in Amounts, NEW at \in Stated, TrimThesis(i, pnl, at)
        PROVE  Until(decision') # Never
    <3>1. thesis[i].exit \in Int /\ thesis[i].exit <= now /\ thesis \in [Theses -> ThesisFiles]
      BY <2>1 DEF BookedBy, ThesisFiles
    <3>2. thesis' = [thesis EXCEPT ![i].legs = WithLeg(i, pnl, at), ![i].exit = thesis[i].exit]
      BY <2>6, <3>1 DEF TrimThesis, ThesisFiles
    <3>3. at \in Nat /\ at <= now /\ CanBook(i) /\ now' = now
      BY <1>1, <2>6, StatedIs DEF TrimThesis
    <3>4. LegAdded(thesis, thesis', i, [pnl |-> pnl, at |-> at])
      BY <1>1, <3>1, <3>2, <3>3, LegBooked
    <3>5. QED BY <2>5, <3>3, <3>4
  <2>7. ASSUME NEW i \in Theses, NEW pnl \in Amounts, NEW at \in Stated, NEW exit \in Stated,
               CloseThesis(i, pnl, at, exit)
        PROVE  Until(decision') # Never
    <3>1. exit \in Int /\ exit <= now /\ CanBook(i) /\ now' = now /\ at \in Nat /\ at <= now
      BY <1>1, <2>1, <2>7, StatedIs DEF CloseThesis
    <3>2. thesis' = [thesis EXCEPT ![i].legs = WithLeg(i, pnl, at), ![i].exit = exit]
      BY <2>7 DEF CloseThesis
    <3>3. LegAdded(thesis, thesis', i, [pnl |-> pnl, at |-> at])
      BY <1>1, <2>1, <3>1, <3>2, LegBooked
    <3>4. QED BY <2>5, <3>1, <3>3
  <2>8. ASSUME NEW i \in Theses, Reject(i) \/ Damage(i)
        PROVE  decision'.incomplete
    <3>1. thesis \in [Theses -> ThesisFiles]
      BY <2>1 DEF BookedBy
    <3>2. ~ thesis'[i].readable \/ thesis'[i].exit = Rejected
      BY <2>8, <3>1 DEF Reject, Damage, ThesisFiles
    <3>3. Incomplete(thesis')
      BY <3>2 DEF Incomplete
    <3>4. QED BY <2>1, <3>3 DEF EvaluateCircuitBreaker
  <2>9. ASSUME NEW i \in Theses, Repair(i)
        PROVE  FALSE
    <3>1. thesis \in [Theses -> ThesisFiles]
      BY <2>1 DEF BookedBy
    <3>2. thesis'[i].readable /\ ~thesis[i].readable
      BY <2>9, <3>1 DEF Repair, ThesisFiles
    <3>3. QED BY <1>1, <3>2 DEF Relief
  <2>10. LegStated \subseteq Stated
    BY DEF LegStated, Stated
  <2>11. QED BY <1>1, <2>4, <2>6, <2>7, <2>8, <2>9, <2>10 DEF BreakerNext
<1>2. BreakerInv /\ BreakerInv' /\ [BreakerNext]_breakerVars =>
         [(Blocked(decision) /\ now' < Until(decision) /\ ~Relief) =>
             Blocked(decision')]_breakerVars
  BY <1>1
<1>3. QED BY <1>2, BreakerInductive, PTL DEF BreakerSpec, HaltHolds

-----------------------------------------------------------------------------
(***************************************************************************)
(* Distribution days: the window of one session and that of the next.      *)
(***************************************************************************)

\* How many sessions are seen, and which row has which age.
LEMMA RecentRows ==
    ASSUME NEW h \in Seq(Rows), Len(h) > 0
    PROVE  \E n \in Nat \ {0} :
               /\ n <= Fetched /\ n <= Len(h) /\ (n < Fetched => n = Len(h))
               /\ DOMAIN Recent(h) = 0..(n - 1)
               /\ \A k \in 0..(n - 1) : Recent(h)[k] = h[Len(h) - k] /\ Recent(h)[k] \in Rows
<1> DEFINE n == IF Len(h) < Fetched THEN Len(h) ELSE Fetched
<1>1. n \in Nat \ {0} /\ n <= Fetched /\ n <= Len(h) /\ (n < Fetched => n = Len(h))
  BY LookbackAssumption, DistributionAssumption
<1>2. Recent(h) = [age \in 0..(n - 1) |-> h[Len(h) - age]]
  BY DEF Recent
<1>3. \A k \in 0..(n - 1) : h[Len(h) - k] \in Rows
  <2> SUFFICES ASSUME NEW k \in 0..(n - 1) PROVE h[Len(h) - k] \in Rows
    OBVIOUS
  <2> HIDE DEF n
  <2>1. Len(h) - k \in 1..Len(h)
    BY <1>1
  <2>2. QED BY <2>1
<1> HIDE DEF n
<1>4. QED BY <1>1, <1>2, <1>3

\* A session later every row is one older, and the oldest may be out of sight.
LEMMA RecentAppend ==
    ASSUME NEW h \in Seq(Rows), Len(h) > 0, NEW row \in Rows
    PROVE  LET w == Recent(h)
               v == Recent(Append(h, row))
           IN  /\ \A k \in DOMAIN w : k \in Nat /\ w[k] \in Rows /\ k < Fetched
               /\ \A k \in DOMAIN v : k \in Nat /\ v[k] \in Rows /\ k < Fetched
               /\ \A k \in DOMAIN w : 0..k \subseteq DOMAIN w
               /\ 0 \in DOMAIN w /\ w[0] = h[Len(h)]
               /\ 0 \in DOMAIN v /\ v[0] = row
               /\ \A k \in Nat : k + 1 \in DOMAIN v <=> k \in DOMAIN w /\ k + 1 < Fetched
               /\ \A k \in DOMAIN w : k + 1 \in DOMAIN v => v[k + 1] = w[k]
<1> DEFINE w == Recent(h)
           g == Append(h, row)
           v == Recent(g)
<1>1. g \in Seq(Rows) /\ Len(g) = Len(h) + 1 /\ Len(g) > 0 /\ g[Len(g)] = row
  OBVIOUS
<1>2. \A i \in 1..Len(h) : g[i] = h[i]
  OBVIOUS
<1> HIDE DEF g
<1>3. PICK n \in Nat \ {0} :
         /\ n <= Fetched /\ n <= Len(h) /\ (n < Fetched => n = Len(h))
         /\ DOMAIN w = 0..(n - 1)
         /\ \A k \in 0..(n - 1) : w[k] = h[Len(h) - k] /\ w[k] \in Rows
  BY RecentRows
<1>4. PICK m \in Nat \ {0} :
         /\ m <= Fetched /\ m <= Len(g) /\ (m < Fetched => m = Len(g))
         /\ DOMAIN v = 0..(m - 1)
         /\ \A k \in 0..(m - 1) : v[k] = g[Len(g) - k] /\ v[k] \in Rows
  BY <1>1, RecentRows
<1> HIDE DEF w, v
<1>5. Fetched \in Nat /\ Fetched >= 2 /\ Len(h) \in Nat
  BY LookbackAssumption, DistributionAssumption
<1>6. \A k \in DOMAIN w : k \in Nat /\ w[k] \in Rows /\ k < Fetched
  BY <1>3, <1>5
<1>7. \A k \in DOMAIN v : k \in Nat /\ v[k] \in Rows /\ k < Fetched
  BY <1>4, <1>5
<1>8. \A k \in DOMAIN w : 0..k \subseteq DOMAIN w
  BY <1>3
<1>9. 0 \in DOMAIN w /\ w[0] = h[Len(h)]
  BY <1>3, <1>5
<1>10. 0 \in DOMAIN v /\ v[0] = row
  BY <1>1, <1>4, <1>5
<1>11. ASSUME NEW k \in Nat
       PROVE  k + 1 \in DOMAIN v <=> k \in DOMAIN w /\ k + 1 < Fetched
  BY <1>1, <1>3, <1>4, <1>5
<1>12. ASSUME NEW k \in DOMAIN w, k + 1 \in DOMAIN v
       PROVE  v[k + 1] = w[k]
  <2>1. k \in 0..(n - 1) /\ k + 1 \in 0..(m - 1) /\ Len(h) - k \in 1..Len(h)
    BY <1>3, <1>4, <1>5, <1>12
  <2>2. v[k + 1] = g[Len(g) - (k + 1)]
    BY <1>4, <2>1
  <2>3. Len(g) - (k + 1) = Len(h) - k
    BY <1>1, <1>5, <2>1
  <2>4. QED BY <1>2, <1>3, <2>1, <2>2, <2>3
<1>13. QED
  BY <1>6, <1>7, <1>8, <1>9, <1>10, <1>11, <1>12 DEF g, w, v

\* The days found, a session later: those that are still in sight, and perhaps a new one.
LEMMA DetectedShift ==
    ASSUME NEW h \in Seq(Rows), Len(h) > 0, NEW row \in Rows, NEW k \in Nat
    PROVE  LET w == Recent(h)
               v == Recent(Append(h, row))
           IN  /\ k + 1 \in Detected(v) <=> k \in Detected(w) /\ k + 2 < Fetched
               /\ 0 \in Detected(v) <=> IsDistribution(row, h[Len(h)])
<1> DEFINE w == Recent(h)
           v == Recent(Append(h, row))
<1>1. /\ \A j \in DOMAIN w : j \in Nat /\ w[j] \in Rows /\ j < Fetched
      /\ \A j \in DOMAIN w : 0..j \subseteq DOMAIN w
      /\ 0 \in DOMAIN w /\ w[0] = h[Len(h)]
      /\ 0 \in DOMAIN v /\ v[0] = row
      /\ \A j \in Nat : j + 1 \in DOMAIN v <=> j \in DOMAIN w /\ j + 1 < Fetched
      /\ \A j \in DOMAIN w : j + 1 \in DOMAIN v => v[j + 1] = w[j]
  BY RecentAppend
<1>2. Fetched \in Nat /\ Fetched >= 2
  BY LookbackAssumption, DistributionAssumption
<1> HIDE DEF w, v
<1>3. k + 1 \in DOMAIN v /\ (k + 1) + 1 \in DOMAIN v
        <=> k \in DOMAIN w /\ k + 1 \in DOMAIN w /\ k + 2 < Fetched
  <2>1. k + 1 \in Nat /\ (k + 1) + 1 = k + 2
    OBVIOUS
  <2>2. (k + 1) + 1 \in DOMAIN v <=> k + 1 \in DOMAIN w /\ k + 2 < Fetched
    BY <1>1, <2>1
  <2>3. k + 1 \in DOMAIN v <=> k \in DOMAIN w /\ k + 1 < Fetched
    BY <1>1
  <2>4. QED BY <2>1, <2>2, <2>3, <1>2
<1>4. k \in DOMAIN w /\ k + 1 \in DOMAIN w /\ k + 2 < Fetched
        => v[k + 1] = w[k] /\ v[(k + 1) + 1] = w[k + 1]
  BY <1>1, <1>3
<1>5. k + 1 \in Detected(v) <=> k \in Detected(w) /\ k + 2 < Fetched
  BY <1>3, <1>4 DEF Detected
<1>6. 1 \in DOMAIN v /\ v[1] = w[0]
  <2>1. 0 + 1 \in DOMAIN v
    BY <1>1, <1>2
  <2>2. v[0 + 1] = w[0]
    BY <2>1, <1>1
  <2>3. QED BY <2>1, <2>2
<1>7. 0 \in Detected(v) <=> IsDistribution(row, h[Len(h)])
  BY <1>1, <1>6 DEF Detected
<1>8. QED BY <1>5, <1>7 DEF w, v

\* The sessions that recovered a day: those of before, and perhaps the last.
LEMMA CrossingsShift ==
    ASSUME NEW h \in Seq(Rows), Len(h) > 0, NEW row \in Rows,
           NEW k \in DOMAIN Recent(h), k + 1 \in DOMAIN Recent(Append(h, row))
    PROVE  LET w == Recent(h)
               v == Recent(Append(h, row))
           IN  /\ \A e \in Nat : e + 1 \in Crossings(v, k + 1) <=> e \in Crossings(w, k)
               /\ 0 \in Crossings(v, k + 1) <=>
                      k + 1 <= Expiration /\ Recovers(row, w[k].close)
               /\ Crossings(v, k + 1) \subseteq Nat /\ Crossings(w, k) \subseteq Nat
<1> DEFINE w == Recent(h)
           v == Recent(Append(h, row))
<1>1. /\ \A j \in DOMAIN w : j \in Nat /\ w[j] \in Rows /\ j < Fetched
      /\ \A j \in DOMAIN w : 0..j \subseteq DOMAIN w
      /\ 0 \in DOMAIN v /\ v[0] = row
      /\ \A j \in Nat : j + 1 \in DOMAIN v <=> j \in DOMAIN w /\ j + 1 < Fetched
      /\ \A j \in DOMAIN w : j + 1 \in DOMAIN v => v[j + 1] = w[j]
  BY RecentAppend
<1>2. Expiration \in Nat
  BY DistributionAssumption
<1>3. k \in DOMAIN w /\ k \in Nat /\ v[k + 1] = w[k]
  BY <1>1
<1> HIDE DEF w, v
<1>4. ASSUME NEW e \in Nat
      PROVE  e + 1 \in Crossings(v, k + 1) <=> e \in Crossings(w, k)
  <2>1. e + 1 \in 0..((k + 1) - 1) <=> e \in 0..(k - 1)
    BY <1>3
  <2>2. e + 1 >= (k + 1) - Expiration <=> e >= k - Expiration
    BY <1>2, <1>3
  <2>3. ASSUME e \in 0..(k - 1) PROVE v[e + 1] = w[e]
    <3>1. e \in 0..k
      BY <2>3, <1>3
    <3>2. e \in DOMAIN w
      BY <3>1, <1>1, <1>3
    <3>3. k + 1 < Fetched
      BY <1>1, <1>3 DEF v
    <3>4. e + 1 < Fetched
      BY <3>3, <2>3, <1>3, LookbackAssumption
    <3>5. QED BY <1>1, <3>2, <3>4
  <2>4. QED BY <2>1, <2>2, <2>3, <1>3 DEF Crossings
<1>5. 0 \in Crossings(v, k + 1) <=> k + 1 <= Expiration /\ Recovers(row, w[k].close)
  <2>1. 0 \in 0..((k + 1) - 1)
    BY <1>3
  <2>2. 0 >= (k + 1) - Expiration <=> k + 1 <= Expiration
    BY <1>2, <1>3
  <2>3. v[0] = row /\ v[k + 1] = w[k]
    BY <1>1, <1>3
  <2>4. QED BY <2>1, <2>2, <2>3 DEF Crossings
<1>6. Crossings(v, k + 1) \subseteq Nat /\ Crossings(w, k) \subseteq Nat
  BY DEF Crossings
<1>7. QED BY <1>4, <1>5, <1>6 DEF w, v

\* What is active, a session later: what was, is not too old and is not recovered
\* from; and perhaps the last session.
LEMMA ActiveShift ==
    ASSUME NEW h \in Seq(Rows), Len(h) > 0, NEW row \in Rows, NEW k \in Nat
    PROVE  LET w == Recent(h)
               v == Recent(Append(h, row))
           IN  /\ k + 1 \in ActiveAges(v) <=>
                      /\ k \in ActiveAges(w) /\ k + 1 <= Expiration
                      /\ ~ Recovers(row, w[k].close)
               /\ 0 \in ActiveAges(v) <=> IsDistribution(row, h[Len(h)])
<1> DEFINE w == Recent(h)
           v == Recent(Append(h, row))
<1>1. /\ k + 1 \in Detected(v) <=> k \in Detected(w) /\ k + 2 < Fetched
      /\ 0 \in Detected(v) <=> IsDistribution(row, h[Len(h)])
  BY DetectedShift
<1>2. Expiration \in Nat /\ Fetched \in Nat /\ Fetched >= Expiration + 2
  BY DistributionAssumption, LookbackAssumption
<1>3. ASSUME k \in Detected(w), k + 1 \in Detected(v)
      PROVE  /\ \A e \in Nat : e + 1 \in Crossings(v, k + 1) <=> e \in Crossings(w, k)
             /\ 0 \in Crossings(v, k + 1) <=>
                    k + 1 <= Expiration /\ Recovers(row, w[k].close)
             /\ Crossings(v, k + 1) \subseteq Nat /\ Crossings(w, k) \subseteq Nat
  <2>1. k \in DOMAIN Recent(h) /\ k + 1 \in DOMAIN Recent(Append(h, row))
    BY <1>3 DEF Detected
  <2>2. QED BY <2>1, CrossingsShift
<1> HIDE DEF w, v
<1>4. Crossings(v, 0) = {}
  BY DEF Crossings
<1>5. 0 \in ActiveAges(v) <=> IsDistribution(row, h[Len(h)])
  BY <1>1, <1>2, <1>4 DEF ActiveAges, Status
<1>6. ASSUME k + 1 \in ActiveAges(v)
      PROVE  k \in ActiveAges(w) /\ k + 1 <= Expiration /\ ~ Recovers(row, w[k].close)
  <2>1. /\ k + 1 \in Detected(v) /\ Crossings(v, k + 1) = {} /\ ~ (k + 1 > Expiration)
    BY <1>6 DEF ActiveAges, Status
  <2>2. k \in Detected(w)
    BY <1>1, <2>1
  <2>3. Crossings(w, k) = {}
    BY <1>3, <2>1, <2>2
  <2>4. ~ Recovers(row, w[k].close) /\ k + 1 <= Expiration
    BY <1>2, <1>3, <2>1, <2>2
  <2>5. ~ (k > Expiration)
    BY <1>2, <2>4
  <2>6. QED BY <2>2, <2>3, <2>4, <2>5 DEF ActiveAges, Status
<1>7. ASSUME k \in ActiveAges(w), k + 1 <= Expiration, ~ Recovers(row, w[k].close)
      PROVE  k + 1 \in ActiveAges(v)
  <2>1. k \in Detected(w) /\ Crossings(w, k) = {}
    BY <1>7 DEF ActiveAges, Status
  <2>2. k + 1 \in Detected(v)
    BY <1>1, <1>2, <1>7, <2>1
  <2>3. ASSUME NEW e \in Crossings(v, k + 1) PROVE FALSE
    <3>1. e \in Nat
      BY <1>3, <2>1, <2>2
    <3>2. CASE e = 0
      BY <1>3, <1>7, <2>1, <2>2, <3>2
    <3>3. CASE e # 0
      <4>1. e - 1 \in Nat /\ (e - 1) + 1 = e
        BY <3>1, <3>3
      <4>2. e - 1 \in Crossings(w, k)
        BY <1>3, <2>1, <2>2, <4>1
      <4>3. QED BY <2>1, <4>2
    <3>4. QED BY <3>2, <3>3
  <2>4. ~ (k + 1 > Expiration)
    BY <1>2, <1>7
  <2>5. QED BY <2>2, <2>3, <2>4 DEF ActiveAges, Status
<1>8. QED BY <1>5, <1>6, <1>7 DEF w, v

-----------------------------------------------------------------------------
(***************************************************************************)
(* The theorems.                                                           *)
(***************************************************************************)

LEMMA MonitorTypeStep ==
    ASSUME MonitorTypeOK, [SessionEnds]_monitorVars
    PROVE  MonitorTypeOK'
<1>1. CASE UNCHANGED monitorVars
  BY <1>1 DEF MonitorTypeOK, monitorVars
<1>2. CASE SessionEnds
  <2>1. PICK rows \in DayRows : sessions' = [i \in Funds |-> Append(sessions[i], rows[i])]
    BY <1>2 DEF SessionEnds
  <2>2. rows \in [Funds -> Rows]
    BY DistributionAssumption
  <2>3. \A i \in Funds :
           /\ sessions[i] \in Seq(Rows) /\ rows[i] \in Rows
           /\ sessions'[i] = Append(sessions[i], rows[i])
    BY <2>1, <2>2 DEF MonitorTypeOK
  <2>4. \A i \in Funds :
           sessions'[i] \in Seq(Rows) /\ Len(sessions'[i]) = Len(sessions[i]) + 1
    BY <2>3
  <2>5. sessions' \in [Funds -> Seq(Rows)]
    BY <2>1, <2>3
  <2>6. \A i \in Funds : Len(sessions'[i]) = Len(sessions'["QQQ"]) /\ Len(sessions'[i]) > 0
    BY <2>3, <2>4 DEF MonitorTypeOK, Funds
  <2>7. averages' \in AverageReadings
    BY <1>2, DistributionAssumption DEF SessionEnds
  <2>8. QED BY <2>5, <2>6, <2>7 DEF MonitorTypeOK
<1>3. QED BY <1>1, <1>2

LEMMA MonitorTypeInit == MonitorInit => MonitorTypeOK
<1> SUFFICES ASSUME MonitorInit PROVE MonitorTypeOK
  OBVIOUS
<1>1. PICK rows \in DayRows : sessions = [i \in Funds |-> <<rows[i]>>]
  BY DEF MonitorInit
<1>2. rows \in [Funds -> Rows]
  BY DistributionAssumption
<1>3. \A i \in Funds : sessions[i] \in Seq(Rows) /\ Len(sessions[i]) = 1
  BY <1>1, <1>2
<1>4. averages \in [Funds -> {"yes", "no", "unknown"}]
  BY DEF MonitorInit
<1>5. averages \in AverageReadings
  BY <1>4 DEF AverageReadings
<1>6. QED BY <1>1, <1>3, <1>5 DEF MonitorTypeOK, Funds

\* Both funds have a row for every session, for any rows and any parameters of the rule.
THEOREM MonitorTypeCorrect == MonitorSpec => []MonitorTypeOK
<1>1. QED BY MonitorTypeInit, MonitorTypeStep, PTL DEF MonitorSpec

\* A session, as it is for one fund.
LEMMA SessionOf ==
    ASSUME MonitorTypeOK, SessionEnds, NEW i \in Funds
    PROVE  /\ sessions[i] \in Seq(Rows) /\ Len(sessions[i]) > 0
           /\ \E rows \in DayRows : /\ rows[i] \in Rows
                                    /\ sessions'[i] = Append(sessions[i], rows[i])
<1>1. PICK rows \in DayRows : sessions' = [j \in Funds |-> Append(sessions[j], rows[j])]
  BY DEF SessionEnds
<1>2. rows[i] \in Rows
  BY DistributionAssumption
<1>3. QED BY <1>1, <1>2 DEF MonitorTypeOK

\* The active days a session later are those a trader would have on the list.
LEMMA StandingShift ==
    ASSUME NEW h \in Seq(Rows), Len(h) > 0, NEW row \in Rows
    PROVE  Standing(Append(h, row)) =
             {d \in Standing(h) : /\ d.day + Expiration >= Len(h) + 1
                                  /\ ~ Recovers(row, d.close)}
             \cup {d \in {[day |-> Len(h) + 1, close |-> row.close]} :
                     IsDistribution(row, h[Len(h)])}
<1> DEFINE w == Recent(h)
           g == Append(h, row)
           v == Recent(g)
           kept == {d \in Standing(h) : /\ d.day + Expiration >= Len(h) + 1
                                        /\ ~ Recovers(row, d.close)}
           new == {d \in {[day |-> Len(h) + 1, close |-> row.close]} :
                     IsDistribution(row, h[Len(h)])}
<1>1. /\ \A j \in DOMAIN w : j \in Nat /\ w[j] \in Rows /\ j < Fetched
      /\ 0 \in DOMAIN v /\ v[0] = row
      /\ \A j \in DOMAIN v : j \in Nat /\ v[j] \in Rows /\ j < Fetched
      /\ \A j \in Nat : j + 1 \in DOMAIN v <=> j \in DOMAIN w /\ j + 1 < Fetched
      /\ \A j \in DOMAIN w : j + 1 \in DOMAIN v => v[j + 1] = w[j]
  BY RecentAppend
<1>2. \A k \in Nat :
         /\ k + 1 \in ActiveAges(v) <=>
                /\ k \in ActiveAges(w) /\ k + 1 <= Expiration
                /\ ~ Recovers(row, w[k].close)
         /\ 0 \in ActiveAges(v) <=> IsDistribution(row, h[Len(h)])
  BY ActiveShift
<1>3. Len(g) = Len(h) + 1 /\ Len(h) \in Nat /\ Expiration \in Nat
  BY DistributionAssumption
<1>4. ActiveAges(v) \subseteq DOMAIN v /\ ActiveAges(w) \subseteq DOMAIN w
  BY DEF ActiveAges, Detected
<1>5. Standing(h) = {[day |-> Len(h) - k, close |-> w[k].close] : k \in ActiveAges(w)}
  BY DEF Standing
<1>6. Standing(g) = {[day |-> Len(g) - k, close |-> v[k].close] : k \in ActiveAges(v)}
  BY DEF Standing
<1>7. row.close \in Nat
  BY DEF Rows
<1> HIDE DEF w, v, g
<1>8. ASSUME NEW d \in Standing(g) PROVE d \in kept \cup new
  <2>1. PICK k \in ActiveAges(v) : d = [day |-> Len(g) - k, close |-> v[k].close]
    BY <1>6, <1>8
  <2>2. k \in Nat /\ k \in DOMAIN v
    BY <1>1, <1>4, <2>1
  <2>3. CASE k = 0
    <3>1. IsDistribution(row, h[Len(h)])
      BY <1>2, <2>1, <2>3
    <3>2. d = [day |-> Len(h) + 1, close |-> row.close]
      BY <1>1, <1>3, <2>1, <2>3
    <3>3. QED BY <3>1, <3>2
  <2>4. CASE k # 0
    <3> DEFINE j == k - 1
    <3>1. j \in Nat /\ k = j + 1
      BY <2>2, <2>4
    <3> HIDE DEF j
    <3>2. j \in ActiveAges(w) /\ j + 1 <= Expiration /\ ~ Recovers(row, w[j].close)
      BY <1>2, <2>1, <3>1
    <3>3. v[k] = w[j]
      BY <1>1, <1>4, <2>2, <3>1, <3>2
    <3>4. Len(g) - k = Len(h) - j
      BY <1>3, <3>1
    <3>5. d = [day |-> Len(h) - j, close |-> w[j].close]
      BY <2>1, <3>3, <3>4
    <3>6. d \in Standing(h)
      BY <1>5, <3>2, <3>5
    <3>7. d.day = Len(h) - j /\ d.close = w[j].close
      BY <3>5
    <3>8. d.day + Expiration >= Len(h) + 1
      BY <1>3, <3>1, <3>2, <3>7
    <3>9. QED BY <3>2, <3>6, <3>7, <3>8
  <2>5. QED BY <2>3, <2>4
<1>9. ASSUME NEW d \in kept PROVE d \in Standing(g)
  <2>1. PICK j \in ActiveAges(w) : d = [day |-> Len(h) - j, close |-> w[j].close]
    BY <1>5, <1>9
  <2>2. j \in Nat /\ j \in DOMAIN w
    BY <1>1, <1>4, <2>1
  <2>3. d.day = Len(h) - j /\ d.close = w[j].close
    BY <2>1
  <2>4. d.day + Expiration >= Len(h) + 1 /\ ~ Recovers(row, d.close)
    BY <1>9
  <2>5. j + 1 <= Expiration
    BY <1>3, <2>2, <2>3, <2>4
  <2>6. j + 1 \in ActiveAges(v)
    BY <1>2, <2>1, <2>2, <2>3, <2>4, <2>5
  <2>7. v[j + 1] = w[j]
    BY <1>1, <1>4, <2>2, <2>6
  <2>8. Len(g) - (j + 1) = Len(h) - j
    BY <1>3, <2>2
  <2>9. d = [day |-> Len(g) - (j + 1), close |-> v[j + 1].close]
    BY <2>1, <2>7, <2>8
  <2>10. QED BY <1>6, <2>6, <2>9
<1>10. ASSUME NEW d \in new PROVE d \in Standing(g)
  <2>1. 0 \in ActiveAges(v)
    BY <1>2, <1>10
  <2>2. d = [day |-> Len(g) - 0, close |-> v[0].close]
    BY <1>1, <1>3, <1>10
  <2>3. QED BY <1>6, <2>1, <2>2
<1>11. Standing(g) = kept \cup new
  BY <1>8, <1>9, <1>10
<1>12. QED BY <1>11 DEF g

\* The list of a fund starts empty, and a session changes it as a trader would.
LEMMA StandingInit ==
    ASSUME NEW row \in Rows
    PROVE  Standing(<<row>>) = {}
<1> DEFINE h == <<row>>
           w == Recent(h)
<1>1. h \in Seq(Rows) /\ Len(h) = 1 /\ Len(h) > 0
  OBVIOUS
<1> HIDE DEF h
<1>2. PICK n \in Nat \ {0} : n <= Len(h) /\ DOMAIN w = 0..(n - 1)
  BY <1>1, RecentRows
<1>3. \A k \in DOMAIN w : k = 0
  BY <1>1, <1>2
<1> HIDE DEF w
<1>4. Detected(w) = {}
  BY <1>3 DEF Detected
<1>5. ActiveAges(w) = {}
  BY <1>4 DEF ActiveAges
<1>6. QED BY <1>5 DEF Standing, h, w

LEMMA LedgerSession ==
    ASSUME NEW h \in Seq(Rows), Len(h) > 0, NEW row \in Rows
    PROVE  Standing(Append(h, row)) =
              {d \in Standing(h) :
                  ~ (\/ Len(h) + 1 > d.day + Expiration
                     \/ /\ row[TriggerSource] # 0
                        /\ 100 * row[TriggerSource] >= (100 + GainPercent) * d.close)}
              \cup {d \in {[day |-> Len(h) + 1, close |-> row.close]} :
                  /\ {row.close, row.volume, h[Len(h)].close, h[Len(h)].volume} \cap {0} = {}
                  /\ 1000 * row.close <= (1000 - DeclineMille) * h[Len(h)].close
                  /\ row.volume > h[Len(h)].volume}
<1> DEFINE w == Recent(h)
           before == h[Len(h)]
<1>1. before \in Rows /\ Len(h) \in Nat /\ Expiration \in Nat
  BY DistributionAssumption
<1>2. /\ before.close \in Nat /\ before.volume \in Nat
      /\ row.close \in Nat /\ row.volume \in Nat /\ row[TriggerSource] \in Nat
  BY <1>1, DistributionAssumption DEF Rows
<1>3. \A k \in DOMAIN w : k \in Nat
  BY RecentAppend
<1>4. Standing(h) = {[day |-> Len(h) - k, close |-> w[k].close] : k \in ActiveAges(w)}
  BY DEF Standing
<1>5. ActiveAges(w) \subseteq DOMAIN w
  BY DEF ActiveAges, Detected
<1> HIDE DEF w, before
<1>6. \A d \in Standing(h) : d.day \in Int
  <2> SUFFICES ASSUME NEW d \in Standing(h) PROVE d.day \in Int
    OBVIOUS
  <2>1. PICK k \in ActiveAges(w) : d = [day |-> Len(h) - k, close |-> w[k].close]
    BY <1>4
  <2>2. d.day = Len(h) - k /\ k \in Nat
    BY <2>1, <1>3, <1>5
  <2>3. QED BY <2>2, <1>1
<1>7. \A d \in Standing(h) :
         d.day + Expiration >= Len(h) + 1 <=> ~ (Len(h) + 1 > d.day + Expiration)
  BY <1>1, <1>6
<1>8. row[TriggerSource] > 0 <=> row[TriggerSource] # 0
  BY <1>2
<1>9. IsDistribution(row, before) <=>
         /\ {row.close, row.volume, before.close, before.volume} \cap {0} = {}
         /\ 1000 * row.close <= (1000 - DeclineMille) * before.close
         /\ row.volume > before.volume
  <2>1. {row.close, row.volume, before.close, before.volume} \cap {0} = {} <=>
          /\ row.close # 0 /\ row.volume # 0 /\ before.close # 0 /\ before.volume # 0
    OBVIOUS
  <2>2. \A n \in Nat : n > 0 <=> n # 0
    OBVIOUS
  <2>3. QED BY <1>2, <2>1, <2>2 DEF IsDistribution
<1>10. Standing(Append(h, row)) =
         {d \in Standing(h) : /\ d.day + Expiration >= Len(h) + 1
                              /\ ~ Recovers(row, d.close)}
         \cup {d \in {[day |-> Len(h) + 1, close |-> row.close]} : IsDistribution(row, before)}
  BY StandingShift DEF before
<1>11. \A d \in Standing(h) :
         d.day + Expiration >= Len(h) + 1 /\ ~ Recovers(row, d.close) <=>
         ~ (\/ Len(h) + 1 > d.day + Expiration
            \/ /\ row[TriggerSource] # 0
               /\ 100 * row[TriggerSource] >= (100 + GainPercent) * d.close)
  BY <1>7, <1>8 DEF Recovers
<1> HIDE DEF before
<1>12. QED BY <1>9, <1>10, <1>11 DEF before

LEMMA LedgerInits == MonitorInit => Qqq!LedgerInit /\ Spy!LedgerInit
<1> SUFFICES ASSUME MonitorInit PROVE Qqq!LedgerInit /\ Spy!LedgerInit
  OBVIOUS
<1>1. PICK rows \in DayRows : sessions = [i \in Funds |-> <<rows[i]>>]
  BY DEF MonitorInit
<1>2. ASSUME NEW i \in Funds
      PROVE  /\ Len(sessions[i]) = 1 /\ sessions[i][Len(sessions[i])] = rows[i]
             /\ Standing(sessions[i]) = {}
  <2>1. rows[i] \in Rows
    BY DistributionAssumption
  <2>2. Standing(<<rows[i]>>) = {}
    BY <2>1, StandingInit
  <2>3. sessions[i] = <<rows[i]>>
    BY <1>1
  <2>4. QED BY <2>2, <2>3
<1>3. "QQQ" \in Funds /\ "SPY" \in Funds
  BY DEF Funds
<1>4. QED BY <1>2, <1>3 DEF Qqq!LedgerInit, Spy!LedgerInit

LEMMA LedgerSteps ==
    ASSUME MonitorTypeOK, [SessionEnds]_monitorVars
    PROVE  /\ [\E row \in {rows["QQQ"] : rows \in DayRows} : Qqq!Session(row)]_Qqq!ledgerVars
           /\ [\E row \in {rows["SPY"] : rows \in DayRows} : Spy!Session(row)]_Spy!ledgerVars
<1>1. CASE UNCHANGED monitorVars
  <2>1. UNCHANGED Qqq!ledgerVars /\ UNCHANGED Spy!ledgerVars
    BY <1>1 DEF monitorVars, Qqq!ledgerVars, Spy!ledgerVars, Standing
  <2>2. QED BY <2>1
<1>2. CASE SessionEnds
  <2>1. "QQQ" \in Funds /\ "SPY" \in Funds
    BY DEF Funds
  <2>2. ASSUME NEW i \in Funds
        PROVE  /\ sessions[i] \in Seq(Rows) /\ Len(sessions[i]) > 0
               /\ \E rows \in DayRows :
                     /\ rows[i] \in Rows
                     /\ sessions'[i] = Append(sessions[i], rows[i])
                     /\ Len(sessions'[i]) = Len(sessions[i]) + 1
                     /\ sessions'[i][Len(sessions'[i])] = rows[i]
    <3>1. PICK rows \in DayRows :
             rows[i] \in Rows /\ sessions'[i] = Append(sessions[i], rows[i])
      BY <1>2, SessionOf
    <3>2. sessions[i] \in Seq(Rows) /\ Len(sessions[i]) > 0
      BY <1>2, SessionOf
    <3>3. QED BY <3>1, <3>2
  <2>3. \E row \in {rows["QQQ"] : rows \in DayRows} : Qqq!Session(row)
    <3>1. PICK rows \in DayRows :
             /\ rows["QQQ"] \in Rows
             /\ sessions'["QQQ"] = Append(sessions["QQQ"], rows["QQQ"])
             /\ Len(sessions'["QQQ"]) = Len(sessions["QQQ"]) + 1
             /\ sessions'["QQQ"][Len(sessions'["QQQ"])] = rows["QQQ"]
      BY <2>1, <2>2
    <3> DEFINE h == sessions["QQQ"]
               row == rows["QQQ"]
    <3>2. Standing(h)' = Standing(Append(h, row))
      BY <3>1
    <3>3. h \in Seq(Rows) /\ Len(h) > 0
      BY <2>1, <2>2
    <3>4. Standing(Append(h, row)) =
             {d \in Standing(h) :
                 ~ (\/ Len(h) + 1 > d.day + Expiration
                    \/ /\ row[TriggerSource] # 0
                       /\ 100 * row[TriggerSource] >= (100 + GainPercent) * d.close)}
             \cup {d \in {[day |-> Len(h) + 1, close |-> row.close]} :
                 /\ {row.close, row.volume, h[Len(h)].close, h[Len(h)].volume} \cap {0} = {}
                 /\ 1000 * row.close <= (1000 - DeclineMille) * h[Len(h)].close
                 /\ row.volume > h[Len(h)].volume}
      BY <3>1, <3>3, LedgerSession
    <3>5. Qqq!Session(row)
      BY <3>1, <3>2, <3>4 DEF Qqq!Session, Qqq!Dropped, Qqq!Distributed
    <3>6. QED BY <3>5
  <2>4. \E row \in {rows["SPY"] : rows \in DayRows} : Spy!Session(row)
    <3>1. PICK rows \in DayRows :
             /\ rows["SPY"] \in Rows
             /\ sessions'["SPY"] = Append(sessions["SPY"], rows["SPY"])
             /\ Len(sessions'["SPY"]) = Len(sessions["SPY"]) + 1
             /\ sessions'["SPY"][Len(sessions'["SPY"])] = rows["SPY"]
      BY <2>1, <2>2
    <3> DEFINE h == sessions["SPY"]
               row == rows["SPY"]
    <3>2. Standing(h)' = Standing(Append(h, row))
      BY <3>1
    <3>3. h \in Seq(Rows) /\ Len(h) > 0
      BY <2>1, <2>2
    <3>4. Standing(Append(h, row)) =
             {d \in Standing(h) :
                 ~ (\/ Len(h) + 1 > d.day + Expiration
                    \/ /\ row[TriggerSource] # 0
                       /\ 100 * row[TriggerSource] >= (100 + GainPercent) * d.close)}
             \cup {d \in {[day |-> Len(h) + 1, close |-> row.close]} :
                 /\ {row.close, row.volume, h[Len(h)].close, h[Len(h)].volume} \cap {0} = {}
                 /\ 1000 * row.close <= (1000 - DeclineMille) * h[Len(h)].close
                 /\ row.volume > h[Len(h)].volume}
      BY <3>1, <3>3, LedgerSession
    <3>5. Spy!Session(row)
      BY <3>1, <3>2, <3>4 DEF Spy!Session, Spy!Dropped, Spy!Distributed
    <3>6. QED BY <3>5
  <2>5. QED BY <2>3, <2>4
<1>3. QED BY <1>1, <1>2

\* The days a run finds active are the list a trader keeps by hand, for any rows, any
\* history and any parameters of the rule, as long as the window is wide enough.
THEOREM LedgerKept == MonitorSpec => KeepsLedger
<1>1. QED
  BY MonitorTypeCorrect, LedgerInits, LedgerSteps, PTL
  DEF MonitorSpec, KeepsLedger, Qqq!LedgerSpec, Spy!LedgerSpec

\* A crossing that is found is the oldest of them.
LEMMA FirstCrossingIs ==
    ASSUME NEW w, NEW k \in Nat, Crossings(w, k) # {}
    PROVE  /\ FirstCrossing(w, k) \in Crossings(w, k)
           /\ \A e \in Crossings(w, k) : e <= FirstCrossing(w, k)
<1>1. k # 0
  BY DEF Crossings
<1>2. k - 1 \in Nat /\ Crossings(w, k) \in SUBSET (0..(k - 1))
  BY <1>1 DEF Crossings
<1>3. \E e \in Crossings(w, k) : \A f \in Crossings(w, k) : f <= e
  BY <1>2, LastElement
<1>4. QED BY <1>3 DEF FirstCrossing

\* A session later the oldest crossing is one older: the new one, if any, is younger.
LEMMA FirstCrossingShift ==
    ASSUME NEW h \in Seq(Rows), Len(h) > 0, NEW row \in Rows,
           NEW k \in DOMAIN Recent(h), k + 1 \in DOMAIN Recent(Append(h, row)),
           Crossings(Recent(h), k) # {}
    PROVE  LET w == Recent(h)
               v == Recent(Append(h, row))
           IN  /\ Crossings(v, k + 1) # {}
               /\ FirstCrossing(v, k + 1) = FirstCrossing(w, k) + 1
<1> DEFINE w == Recent(h)
           v == Recent(Append(h, row))
           a == FirstCrossing(w, k)
           b == FirstCrossing(v, k + 1)
<1>1. /\ \A e \in Nat : e + 1 \in Crossings(v, k + 1) <=> e \in Crossings(w, k)
      /\ Crossings(v, k + 1) \subseteq Nat /\ Crossings(w, k) \subseteq Nat
  BY CrossingsShift
<1>2. k \in Nat /\ k + 1 \in Nat
  BY RecentAppend
<1>3. Crossings(w, k) # {}
  OBVIOUS
<1> HIDE DEF w, v
<1>4. a \in Crossings(w, k) /\ \A e \in Crossings(w, k) : e <= a
  BY <1>2, <1>3, FirstCrossingIs
<1>5. a \in Nat /\ a + 1 \in Crossings(v, k + 1)
  BY <1>1, <1>4
<1>6. b \in Crossings(v, k + 1) /\ \A e \in Crossings(v, k + 1) : e <= b
  BY <1>2, <1>5, FirstCrossingIs
<1>7. b \in Nat /\ a + 1 <= b
  BY <1>1, <1>5, <1>6
<1> HIDE DEF a, b
<1>8. b - 1 \in Nat /\ (b - 1) + 1 = b
  BY <1>5, <1>7
<1>9. b - 1 \in Crossings(w, k)
  BY <1>1, <1>6, <1>8
<1>10. b - 1 <= a
  BY <1>4, <1>9
<1>11. b = a + 1
  BY <1>5, <1>7, <1>10
<1>12. QED BY <1>5, <1>11 DEF a, b, w, v

\* A day that is not active keeps its status.
LEMMA RemovalShift ==
    ASSUME NEW h \in Seq(Rows), Len(h) > 0, NEW row \in Rows,
           NEW k \in Detected(Recent(h)), k + 1 \in Detected(Recent(Append(h, row))),
           Status(Recent(h), k) # "active"
    PROVE  LET w == Recent(h)
               v == Recent(Append(h, row))
           IN  /\ Status(v, k + 1) = Status(w, k)
               /\ Status(w, k) = "invalidated" =>
                     FirstCrossing(v, k + 1) = FirstCrossing(w, k) + 1
<1> DEFINE w == Recent(h)
           v == Recent(Append(h, row))
<1>1. k \in DOMAIN Recent(h) /\ k + 1 \in DOMAIN Recent(Append(h, row))
  BY DEF Detected
<1>2. /\ \A e \in Nat : e + 1 \in Crossings(v, k + 1) <=> e \in Crossings(w, k)
      /\ 0 \in Crossings(v, k + 1) <=> k + 1 <= Expiration /\ Recovers(row, w[k].close)
      /\ Crossings(v, k + 1) \subseteq Nat /\ Crossings(w, k) \subseteq Nat
  BY <1>1, CrossingsShift
<1>3. k \in Nat
  BY <1>1, RecentAppend
<1>4. Expiration \in Nat
  BY DistributionAssumption
<1>5. CASE Crossings(w, k) # {}
  <2>1. /\ Crossings(v, k + 1) # {}
        /\ FirstCrossing(v, k + 1) = FirstCrossing(w, k) + 1
    BY <1>1, <1>5, FirstCrossingShift
  <2> HIDE DEF w, v
  <2>2. Status(v, k + 1) = "invalidated" /\ Status(w, k) = "invalidated"
    BY <1>5, <2>1 DEF Status
  <2>3. QED BY <2>1, <2>2 DEF w, v
<1>6. CASE Crossings(w, k) = {}
  <2>1. Status(w, k) # "active"
    OBVIOUS
  <2> HIDE DEF w, v
  <2>2. k > Expiration /\ Status(w, k) = "expired"
    BY <1>6, <2>1 DEF Status
  <2>3. ASSUME NEW e \in Crossings(v, k + 1) PROVE FALSE
    <3>1. e \in Nat
      BY <1>2
    <3>2. CASE e = 0
      BY <1>2, <1>3, <1>4, <2>2, <3>2
    <3>3. CASE e # 0
      <4>1. e - 1 \in Nat /\ (e - 1) + 1 = e
        BY <3>1, <3>3
      <4>2. e - 1 \in Crossings(w, k)
        BY <1>2, <4>1
      <4>3. QED BY <1>6, <4>2
    <3>4. QED BY <3>2, <3>3
  <2>4. k + 1 > Expiration
    BY <1>3, <1>4, <2>2
  <2>5. Status(v, k + 1) = "expired"
    BY <2>3, <2>4 DEF Status
  <2>6. QED BY <2>2, <2>5 DEF w, v
<1>7. QED BY <1>5, <1>6

\* What is said of a removed day stands, for any rows, any history and any parameters.
THEOREM RemovalsStand == MonitorSpec => RemovalStands
<1> DEFINE Repeats(i) ==
      LET was == Recent(sessions[i])
          is  == Recent(sessions'[i])
      IN  \A k \in Detected(was) :
              Status(was, k) # "active" /\ k + 1 \in Detected(is) =>
                  /\ Status(is, k + 1) = Status(was, k)
                  /\ Status(was, k) = "invalidated" =>
                      FirstCrossing(is, k + 1) = FirstCrossing(was, k) + 1
<1>1. ASSUME MonitorTypeOK, SessionEnds, NEW i \in Funds
      PROVE  Repeats(i)
  <2>1. PICK rows \in DayRows :
           rows[i] \in Rows /\ sessions'[i] = Append(sessions[i], rows[i])
    BY <1>1, SessionOf
  <2>2. sessions[i] \in Seq(Rows) /\ Len(sessions[i]) > 0
    BY <1>1, SessionOf
  <2>3. Recent(sessions'[i]) = Recent(Append(sessions[i], rows[i]))
    BY <2>1
  <2> SUFFICES ASSUME NEW k \in Detected(Recent(sessions[i])),
                      Status(Recent(sessions[i]), k) # "active",
                      k + 1 \in Detected(Recent(Append(sessions[i], rows[i])))
               PROVE  LET w == Recent(sessions[i])
                          v == Recent(Append(sessions[i], rows[i]))
                      IN  /\ Status(v, k + 1) = Status(w, k)
                          /\ Status(w, k) = "invalidated" =>
                                FirstCrossing(v, k + 1) = FirstCrossing(w, k) + 1
    BY <2>3
  <2>4. QED BY <2>1, <2>2, RemovalShift
<1>2. MonitorTypeOK /\ [SessionEnds]_monitorVars => [\A i \in Funds : Repeats(i)]_monitorVars
  BY <1>1
<1>3. QED BY <1>2, MonitorTypeCorrect, PTL DEF MonitorSpec, RemovalStands

\* A window has finitely many active days.
LEMMA CountIsNumber ==
    ASSUME NEW h \in Seq(Rows), Len(h) > 0, NEW window \in Windows
    PROVE  /\ IsFiniteSet({k \in ActiveAges(Recent(h)) : k <= Counts[window]})
           /\ CountActive(ActiveAges(Recent(h)), window) \in Nat
<1> DEFINE w == Recent(h)
           T == {k \in ActiveAges(w) : k <= Counts[window]}
<1>1. \A k \in DOMAIN w : k \in 0..Fetched
  <2>1. PICK n \in Nat \ {0} : n <= Fetched /\ DOMAIN w = 0..(n - 1)
    BY RecentRows
  <2>2. QED BY <2>1, LookbackAssumption
<1>2. CountActive(ActiveAges(w), window) = Cardinality(T)
  BY DEF CountActive
<1> HIDE DEF w
<1>3. T \in SUBSET (0..Fetched)
  BY <1>1 DEF ActiveAges, Detected
<1> HIDE DEF T
<1>4. IsFiniteSet(0..Fetched)
  BY LookbackAssumption, FS_Interval
<1>5. IsFiniteSet(T)
  BY <1>3, <1>4, FS_Subset
<1>6. QED BY <1>2, <1>5, FS_CardinalityType DEF T, w

\* Without a new distribution day no count rises.
LEMMA CountsFall ==
    ASSUME NEW h \in Seq(Rows), Len(h) > 0, NEW row \in Rows,
           0 \notin Detected(Recent(Append(h, row))), NEW window \in Windows
    PROVE  /\ CountActive(ActiveAges(Recent(h)), window) \in Nat
           /\ CountActive(ActiveAges(Recent(Append(h, row))), window) \in Nat
           /\ CountActive(ActiveAges(Recent(Append(h, row))), window) <= CountActive(ActiveAges(Recent(h)), window)
<1> DEFINE w == Recent(h)
           v == Recent(Append(h, row))
           T == {k \in ActiveAges(w) : k <= Counts[window]}
           S == {k \in ActiveAges(v) : k <= Counts[window]}
           f == [k \in S |-> k - 1]
<1>1. /\ \A k \in DOMAIN w : k \in Nat /\ w[k] \in Rows /\ k < Fetched
      /\ \A k \in DOMAIN v : k \in Nat /\ v[k] \in Rows /\ k < Fetched
  BY RecentAppend
<1>2. \A k \in Nat :
         k + 1 \in ActiveAges(v) <=>
            /\ k \in ActiveAges(w) /\ k + 1 <= Expiration /\ ~ Recovers(row, w[k].close)
  BY ActiveShift
<1>3. 0 \notin Detected(v)
  OBVIOUS
<1>4. CountActive(ActiveAges(w), window) = Cardinality(T) /\ CountActive(ActiveAges(v), window) = Cardinality(S)
  BY DEF CountActive
<1>5. Counts[window] \in Nat /\ Fetched \in Nat
  BY DistributionAssumption, LookbackAssumption
<1> HIDE DEF w, v
<1>6. ActiveAges(w) \subseteq DOMAIN w /\ ActiveAges(v) \subseteq DOMAIN v \ {0}
  BY <1>3 DEF ActiveAges, Detected
<1>7. IsFiniteSet(T) /\ Cardinality(T) \in Nat
  <2>1. IsFiniteSet(T)
    BY CountIsNumber DEF w
  <2>2. QED BY <2>1, FS_CardinalityType
<1>8. f \in Injection(S, T)
  <2>1. ASSUME NEW k \in S PROVE k \in Nat /\ k - 1 \in T
    <3>1. k \in Nat /\ k # 0 /\ k \in ActiveAges(v) /\ k <= Counts[window]
      BY <1>1, <1>6
    <3>2. k - 1 \in Nat /\ (k - 1) + 1 = k
      BY <3>1
    <3>3. k - 1 \in ActiveAges(w)
      BY <1>2, <3>1, <3>2
    <3>4. k - 1 <= Counts[window]
      BY <1>5, <3>1
    <3>5. QED BY <3>1, <3>3, <3>4
  <2> HIDE DEF S, T
  <2>2. f \in [S -> T]
    BY <2>1
  <2>3. \A j, k \in S : f[j] = f[k] => j = k
    <3> SUFFICES ASSUME NEW j \in S, NEW k \in S, f[j] = f[k] PROVE j = k
      OBVIOUS
    <3>1. j - 1 = k - 1
      OBVIOUS
    <3>2. QED BY <2>1, <3>1
  <2> HIDE DEF f
  <2>4. QED BY <2>2, <2>3 DEF Injection, IsInjective
<1> HIDE DEF S, T, f
<1>9. IsFiniteSet(S) /\ Cardinality(S) <= Cardinality(T)
  BY <1>7, <1>8, FS_Injection
<1>10. Cardinality(S) \in Nat
  BY <1>9, FS_CardinalityType
<1>11. QED BY <1>4, <1>7, <1>9, <1>10 DEF w, v

\* Smaller counts, and averages that do not turn against the fund, give no higher level.
LEMMA ClassifyMonotone ==
    ASSUME NEW c \in [Windows -> Nat], NEW d \in [Windows -> Nat],
           \A window \in Windows : d[window] <= c[window],
           NEW below, NEW below2, below2 = "yes" => below = "yes"
    PROVE  /\ Classify(c, below) \in 0..3 /\ Classify(d, below2) \in 0..3
           /\ Classify(d, below2) <= Classify(c, below)
<1>1. /\ c.d5 \in Nat /\ c.d15 \in Nat /\ c.d25 \in Nat
      /\ d.d5 \in Nat /\ d.d15 \in Nat /\ d.d25 \in Nat
      /\ d.d5 <= c.d5 /\ d.d15 <= c.d15 /\ d.d25 <= c.d25
  BY DEF Windows
<1>2. /\ Thresholds.severe_d25 \in Nat /\ Thresholds.severe_d15 \in Nat
      /\ Thresholds.severe_ma_d25 \in Nat /\ Thresholds.high_d25 \in Nat
      /\ Thresholds.high_d15 \in Nat /\ Thresholds.high_d5 \in Nat
      /\ Thresholds.caution_d25 \in Nat
  BY DistributionAssumption
<1> DEFINE Severe(e, b) ==
             \/ e.d25 >= Thresholds.severe_d25
             \/ e.d15 >= Thresholds.severe_d15
             \/ b = "yes" /\ e.d25 >= Thresholds.severe_ma_d25
           High(e) ==
             \/ e.d25 >= Thresholds.high_d25
             \/ e.d15 >= Thresholds.high_d15
             \/ e.d5 >= Thresholds.high_d5
           Caution(e) == e.d25 >= Thresholds.caution_d25
           Level(e, b) ==
             IF Severe(e, b) THEN 3 ELSE IF High(e) THEN 2 ELSE IF Caution(e) THEN 1 ELSE 0
<1>3. Severe(d, below2) => Severe(c, below)
  BY <1>1, <1>2
<1>4. High(d) => High(c)
  BY <1>1, <1>2
<1>5. Caution(d) => Caution(c)
  BY <1>1, <1>2
<1>6. Classify(c, below) = Level(c, below) /\ Classify(d, below2) = Level(d, below2)
  BY DEF Classify, SEVERE, HIGH, CAUTION, NORMAL
<1> HIDE DEF Severe, High, Caution
<1>7. QED BY <1>3, <1>4, <1>5, <1>6

\* The highest of some levels is one of them.
LEMMA HighestIs ==
    ASSUME NEW S \in SUBSET Funds, S # {}, NEW r \in [S -> 0..3]
    PROVE  /\ HighestLevel(r) \in 0..3
           /\ \E i \in S : HighestLevel(r) = r[i]
           /\ \A i \in S : r[i] <= HighestLevel(r)
<1>1. \E i \in S : \A j \in S : r[j] <= r[i]
  <2>1. CASE "QQQ" \in S /\ "SPY" \in S
    <3>1. r["QQQ"] \in 0..3 /\ r["SPY"] \in 0..3
      BY <2>1
    <3>2. CASE r["QQQ"] >= r["SPY"]
      BY <2>1, <3>1, <3>2 DEF Funds
    <3>3. CASE r["QQQ"] < r["SPY"]
      BY <2>1, <3>1, <3>3 DEF Funds
    <3>4. QED BY <3>1, <3>2, <3>3
  <2>2. CASE "QQQ" \notin S \/ "SPY" \notin S
    <3>1. PICK i \in S : S = {i}
      <4>1. PICK i \in S : TRUE
        OBVIOUS
      <4>2. i \in Funds /\ \A j \in S : j \in Funds
        OBVIOUS
      <4>3. \A j \in S : j = i
        BY <2>2, <4>2 DEF Funds
      <4>4. QED BY <4>3
    <3>2. r[i] \in 0..3
      BY <3>1
    <3>3. QED BY <3>1, <3>2
  <2>3. QED BY <2>1, <2>2
<1>2. \E level \in {r[i] : i \in DOMAIN r} : \A i \in DOMAIN r : r[i] <= level
  BY <1>1
<1>3. HighestLevel(r) \in {r[i] : i \in DOMAIN r} /\ \A i \in DOMAIN r : r[i] <= HighestLevel(r)
  BY <1>2 DEF HighestLevel
<1>4. QED BY <1>3

\* The level of some funds is no lower than that of fewer of them, none at a higher level.
LEMMA CombineMonotone ==
    ASSUME NEW S \in SUBSET Funds, NEW T \in SUBSET S, T # {},
           NEW r \in [S -> 0..3], NEW s \in [T -> 0..3], \A i \in T : s[i] <= r[i]
    PROVE  /\ Combine(r) \in 0..3 /\ Combine(s) \in 0..3
           /\ Combine(s) <= Combine(r)
<1> DEFINE Raised(x) ==
             /\ "QQQ" \in DOMAIN x
             /\ \/ x["QQQ"] = 2
                \/ /\ "SPY" \in DOMAIN x
                   /\ \/ x["QQQ"] = 0 /\ x["SPY"] = 2
                      \/ x["QQQ"] = 1 /\ x["SPY"] \in {1, 2}
           Severe(x) == \E i \in DOMAIN x : x[i] = 3
<1>1. /\ Combine(r) = IF Severe(r) THEN 3 ELSE IF Raised(r) THEN 2 ELSE HighestLevel(r)
      /\ Combine(s) = IF Severe(s) THEN 3 ELSE IF Raised(s) THEN 2 ELSE HighestLevel(s)
  BY DEF Combine, SEVERE, HIGH, CAUTION, NORMAL
<1>2. /\ HighestLevel(r) \in 0..3 /\ \E i \in S : HighestLevel(r) = r[i]
      /\ \A i \in S : r[i] <= HighestLevel(r)
  BY HighestIs
<1>3. /\ HighestLevel(s) \in 0..3 /\ \E i \in T : HighestLevel(s) = s[i]
      /\ \A i \in T : s[i] <= HighestLevel(s)
  BY HighestIs
<1>4. (\A i \in S : r[i] \in 0..3) /\ (\A i \in T : s[i] \in 0..3)
  OBVIOUS
<1>5. Severe(s) => Severe(r)
  <2> SUFFICES ASSUME NEW i \in T, s[i] = 3 PROVE r[i] = 3
    OBVIOUS
  <2>1. QED BY <1>4
<1>6. HighestLevel(s) <= HighestLevel(r)
  <2>1. PICK i \in T : HighestLevel(s) = s[i]
    BY <1>3
  <2>2. s[i] <= r[i] /\ r[i] <= HighestLevel(r)
    BY <1>2
  <2>3. QED BY <1>2, <1>4, <2>1, <2>2
<1>7. ~ Severe(r) => HighestLevel(r) \in 0..2
  BY <1>2
<1>8. ASSUME Raised(s), ~ Severe(r), ~ Raised(r)
      PROVE  HighestLevel(r) >= 2
  <2>1. "QQQ" \in T /\ "QQQ" \in S /\ r["QQQ"] \in 0..2 /\ s["QQQ"] \in 0..3
    BY <1>4, <1>8
  <2>2. s["QQQ"] <= r["QQQ"] /\ r["QQQ"] # 2
    BY <1>8, <2>1
  <2>3. s["QQQ"] # 2
    BY <2>1, <2>2
  <2>4. "SPY" \in T /\ "SPY" \in S /\ r["SPY"] \in 0..2 /\ s["SPY"] \in 0..3
    BY <1>4, <1>8, <2>3
  <2>5. s["SPY"] <= r["SPY"]
    BY <2>4
  <2>6. ~ (r["QQQ"] = 0 /\ r["SPY"] = 2) /\ ~ (r["QQQ"] = 1 /\ r["SPY"] \in {1, 2})
    BY <1>8, <2>1, <2>4
  <2>7. \/ s["QQQ"] = 0 /\ s["SPY"] = 2
        \/ s["QQQ"] = 1 /\ s["SPY"] \in {1, 2}
    BY <1>8, <2>3
  <2>8. FALSE
    BY <2>1, <2>2, <2>4, <2>5, <2>6, <2>7
  <2>9. QED BY <2>8
<1>9. ASSUME Raised(r), ~ Severe(s)
      PROVE  HighestLevel(s) <= 2
  BY <1>3, <1>4, <1>9
<1> HIDE DEF Raised, Severe
<1>10. QED BY <1>1, <1>2, <1>3, <1>5, <1>6, <1>7, <1>8, <1>9

\* A lower level asks for no smaller a position.
LEMMA TargetMonotone ==
    ASSUME NEW a \in 0..3, NEW b \in 0..3, b <= a
    PROVE  /\ TargetExposure(a) \in Nat /\ TargetExposure(b) \in Nat
           /\ TargetExposure(a) <= TargetExposure(b)
<1>1. a \in {0, 1, 2, 3} /\ b \in {0, 1, 2, 3}
  OBVIOUS
<1>2. \A l \in {0, 1, 2, 3} :
         TargetExposure(l) = IF l = 0 THEN 100 ELSE IF l = 1 THEN 75
                             ELSE IF l = 2 THEN 50 ELSE 25
  BY DEF TargetExposure, HIGH, CAUTION, NORMAL
<1>3. QED BY <1>1, <1>2

\* The position is cut only on a distribution day, when a fund falls below its averages,
\* or when one loads again, for any rows, any history, any windows and any thresholds.
THEOREM CutsNeedDistribution == MonitorSpec => CutsOnlyOnDistribution
<1> DEFINE Bad(i) == \/ 0 \in Detected(Recent(sessions'[i]))
                     \/ i \notin DOMAIN averages
                     \/ averages'[i] = "yes" /\ averages[i] # "yes"
<1>1. ASSUME MonitorTypeOK, MonitorTypeOK', SessionEnds, Reports(averages), Reports(averages'),
             \A i \in DOMAIN averages' : ~ Bad(i)
      PROVE  ~ (Exposure(sessions', averages') < Exposure(sessions, averages))
  <2> DEFINE S == DOMAIN averages
             T == DOMAIN averages'
             r == [i \in S |-> Risk(sessions[i], averages[i])]
             s == [i \in T |-> Risk(sessions'[i], averages'[i])]
  <2>1. S \in SUBSET Funds /\ T \in SUBSET Funds /\ T # {}
    <3>1. averages \in AverageReadings /\ averages' \in AverageReadings
      BY <1>1 DEF MonitorTypeOK
    <3>2. QED BY <1>1, <3>1 DEF AverageReadings, Reports
  <2>2. T \in SUBSET S
    BY <1>1
  <2>3. ASSUME NEW i \in Funds
        PROVE  /\ Risk(sessions[i], averages[i]) \in 0..3
               /\ i \in T => /\ Risk(sessions'[i], averages'[i]) \in 0..3
                             /\ Risk(sessions'[i], averages'[i]) <=
                                  Risk(sessions[i], averages[i])
    <3>1. PICK rows \in DayRows :
             rows[i] \in Rows /\ sessions'[i] = Append(sessions[i], rows[i])
      BY <1>1, SessionOf
    <3> DEFINE h == sessions[i]
               g == Append(h, rows[i])
               c == [window \in Windows |-> CountActive(ActiveAges(Recent(h)), window)]
               d == [window \in Windows |-> CountActive(ActiveAges(Recent(g)), window)]
    <3>2. h \in Seq(Rows) /\ Len(h) > 0
      BY <1>1, SessionOf
    <3>3. \A window \in Windows : CountActive(ActiveAges(Recent(h)), window) \in Nat
      <4> HIDE DEF h
      <4>1. QED BY <3>2, CountIsNumber
    <3>4. /\ Risk(sessions[i], averages[i]) = Classify(c, averages[i])
          /\ Risk(sessions'[i], averages'[i]) = Classify(d, averages'[i])
      BY <3>1 DEF Risk
    <3>5. c \in [Windows -> Nat]
      BY <3>3
    <3>6. Risk(sessions[i], averages[i]) \in 0..3
      <4> HIDE DEF c
      <4>1. \A window \in Windows : c[window] <= c[window]
        BY <3>5
      <4>2. QED BY <3>4, <3>5, <4>1, ClassifyMonotone
    <3>7. ASSUME i \in T
          PROVE  /\ Risk(sessions'[i], averages'[i]) \in 0..3
                 /\ Risk(sessions'[i], averages'[i]) <= Risk(sessions[i], averages[i])
      <4>1. 0 \notin Detected(Recent(g))
        BY <1>1, <3>1, <3>7
      <4>2. averages'[i] = "yes" => averages[i] = "yes"
        BY <1>1, <3>7
      <4>3. \A window \in Windows :
               /\ CountActive(ActiveAges(Recent(g)), window) \in Nat
               /\ CountActive(ActiveAges(Recent(g)), window) <= CountActive(ActiveAges(Recent(h)), window)
        <5> HIDE DEF h
        <5>1. QED BY <3>1, <3>2, <4>1, CountsFall
      <4> HIDE DEF h, g
      <4>4. d \in [Windows -> Nat] /\ \A window \in Windows : d[window] <= c[window]
        BY <4>3
      <4> HIDE DEF c, d
      <4>5. QED BY <3>4, <3>5, <4>2, <4>4, ClassifyMonotone
    <3>8. QED BY <3>6, <3>7
  <2>4. /\ Exposure(sessions, averages) = TargetExposure(Combine(r))
        /\ Exposure(sessions', averages') = TargetExposure(Combine(s))
    BY DEF Exposure
  <2>5. /\ r \in [S -> 0..3] /\ s \in [T -> 0..3]
        /\ \A i \in T : s[i] <= r[i]
    BY <2>1, <2>2, <2>3
  <2> HIDE DEF r, s, S, T
  <2>6. Combine(r) \in 0..3 /\ Combine(s) \in 0..3 /\ Combine(s) <= Combine(r)
    BY <2>1, <2>2, <2>5, CombineMonotone
  <2>7. /\ TargetExposure(Combine(r)) \in Nat /\ TargetExposure(Combine(s)) \in Nat
        /\ TargetExposure(Combine(r)) <= TargetExposure(Combine(s))
    BY <2>6, TargetMonotone
  <2>8. QED BY <2>4, <2>7
<1>2. MonitorTypeOK /\ MonitorTypeOK' /\ [SessionEnds]_monitorVars =>
         [(/\ sessions' # sessions /\ Reports(averages) /\ Reports(averages')
           /\ Exposure(sessions', averages') < Exposure(sessions, averages)) =>
             \E i \in DOMAIN averages' : Bad(i)]_monitorVars
  BY <1>1
<1>3. QED BY <1>2, MonitorTypeCorrect, PTL DEF MonitorSpec, CutsOnlyOnDistribution
=============================================================================
