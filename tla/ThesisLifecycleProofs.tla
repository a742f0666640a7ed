------------------------ MODULE ThesisLifecycleProofs ------------------------
(***************************************************************************)
(* Theorems about ThesisLifecycle, for every set of prices, sizes,         *)
(* multipliers and timestamps: type correctness, conservation of units,    *)
(* exactness of the outcome of a settled position and of a futures one,    *)
(* and finality of a terminal thesis.                                      *)
(***************************************************************************)
EXTENDS ThesisLifecycle, TLAPS

(* Before the first sale nothing is sold, and what is held is all there is.  *)
Unsold ==
    status \in {"IDEA", "ENTRY_READY", "ACTIVE"} => ledger.sold = 0 /\ Left = Size

(* Only the operation that ends a thesis writes its outcome.                 *)
OutcomeAtEnd == status \notin Terminal => pnl = NoVal

(* The part of SettledPnlIsRealized that a step to a terminal status must     *)
(* establish; that a CLOSED thesis is settled follows from Valid.            *)
SettledExact == Settled => pnl = ledger.realized /\ ledger.sold = Size

(* The inductive invariant.  Valid and Unsold say that a thesis about to be  *)
(* sold or ended still holds something, OutcomeAtEnd that it has no outcome  *)
(* yet; without them a step to a terminal status could not be shown to leave *)
(* SettledExact and FuturesPnlIsLedger true.                         *)
IInv ==
    /\ TypeOK
    /\ Valid
    /\ Unsold
    /\ OutcomeAtEnd
    /\ QuantityConserved
    /\ SettledExact
    /\ FuturesPnlIsLedger

(* The assumption on the constants, element by element. *)
LEMMA ConstantTypes ==
    /\ \A x \in Prices : x \in Int
    /\ \A x \in Sizes : x \in Nat /\ x \in Int /\ x > 0
    /\ \A x \in Multipliers : x \in Nat /\ x \in Int /\ x > 0
    /\ \A x \in Times : x \in Nat /\ x \in Int
    /\ \A x \in Nat : x \in Int
    /\ NoVal \notin Int /\ NaN \notin Int /\ NoVal # NaN
    /\ NoVal # "futures" /\ NoVal # "LONG" /\ NoVal # "SHORT"
  BY LifecycleAssumption

USE ConstantTypes

\* A thesis that register saves, without position or ledger, is in the invariant.
THEOREM InitInv == Init => IInv
  BY DEF IsFutures, Init, IInv, TypeOK, Unsold, OutcomeAtEnd, QuantityConserved,
         SettledExact, FuturesPnlIsLedger, Settled, Size, Left,
         NoPosition, Statuses, Terminal

LEMMA TransitionInv ==
  ASSUME IInv, NEW t \in Times, Transition(t)
  PROVE  IInv'
  BY DEF IsFutures, IInv, TypeOK, Unsold, OutcomeAtEnd, QuantityConserved,
         SettledExact, FuturesPnlIsLedger, Settled, Size, Left,
         Statuses, Terminal, Transition, Append

LEMMA AttachPositionInv ==
  ASSUME IInv, NEW n \in Sizes, AttachPosition(n)
  PROVE  IInv'
  BY DEF IsFutures, IInv, TypeOK, Unsold, OutcomeAtEnd, QuantityConserved,
         SettledExact, FuturesPnlIsLedger, Settled, Size, Left,
         Statuses, Terminal, AttachPosition, SharesPosition, AttachAllowed

LEMMA AttachFuturesPositionInv ==
  ASSUME IInv, NEW n \in Sizes, NEW m \in Multipliers, NEW d \in Directions,
         AttachFuturesPosition(n, m, d)
  PROVE  IInv'
  BY DEF IsFutures, IInv, TypeOK, Unsold, OutcomeAtEnd, QuantityConserved,
         SettledExact, FuturesPnlIsLedger, Settled, Size, Left,
         Statuses, Terminal, AttachFuturesPosition, NoPosition, WithContracts,
         AttachFuturesAllowed

LEMMA UpdateInv ==
  ASSUME IInv, NEW e \in Entries, NEW x \in Exits, Update(e, x)
  PROVE  IInv'
  BY DEF IsFutures, IInv, TypeOK, Unsold, OutcomeAtEnd, QuantityConserved,
         SettledExact, FuturesPnlIsLedger, Settled, Size, Left,
         Statuses, Terminal, Update

LEMMA OpenEquityInv ==
  ASSUME IInv, NEW price \in Prices, NEW date \in Times, NEW t \in Times,
         NEW n \in Sizes \cup {NoVal}, OpenEquity(price, date, n, t)
  PROVE  IInv'
  <1> DEFINE size == IF n = NoVal THEN pos.shares ELSE n
             rem  == IF pos.sharesRem = NoVal THEN size ELSE pos.sharesRem
  <1>1. /\ ~IsFutures
        /\ status = "ENTRY_READY"
        /\ entry' = [price |-> price, date |-> date]
        /\ pos' = [pos EXCEPT !.shares = size, !.sharesRem = rem]
        /\ status' = "ACTIVE" /\ at' = t
        /\ UNCHANGED <<exit, ledger, pnl>>
        /\ Valid'
    BY DEF IsFutures, OpenEquity, Append
  <1>2. /\ size \in Sizes \cup {NoVal}
        /\ rem \in Nat \cup {NoVal}
        /\ size = NoVal <=> rem = NoVal
    BY DEF IsFutures, IInv, TypeOK
  <1>3. /\ pos'.shares = size /\ pos'.sharesRem = rem /\ pos'.asset = NoVal
        /\ pos' \in [shares : Sizes \cup {NoVal}, sharesRem : Nat \cup {NoVal},
                     asset : {NoVal, "futures"}, qty : Sizes \cup {NoVal},
                     qtyRem : Nat \cup {NoVal}, mult : Multipliers \cup {NoVal},
                     dir : Directions \cup {NoVal}]
    <2> HIDE DEF size, rem
    <2> QED
      BY <1>1, <1>2 DEF IsFutures, IInv, TypeOK
  <1> HIDE DEF size, rem
  <1>4. TypeOK'
    BY <1>1, <1>2, <1>3 DEF IsFutures, IInv, TypeOK, Entries, MaybeTimes, Statuses
  <1>5. Left' = Size'
    BY <1>1, <1>2, <1>3, <1>4 DEF IsFutures, Left, Size, Valid, ActiveValid, TypeOK
  <1>6. ledger.sold = 0 /\ ledger' = ledger /\ pnl' = NoVal
    BY <1>1 DEF IsFutures, IInv, Unsold, OutcomeAtEnd, Terminal
  <1>7. Size' \in Int
    BY <1>3, <1>4 DEF IsFutures, Size, TypeOK
  <1>8. Unsold' /\ QuantityConserved'
    BY <1>5, <1>6, <1>7 DEF IsFutures, Unsold, QuantityConserved
  <1>9. OutcomeAtEnd' /\ SettledExact' /\ FuturesPnlIsLedger'
    BY <1>1, <1>6 DEF IsFutures, OutcomeAtEnd, SettledExact, FuturesPnlIsLedger,
                      Settled, Terminal
  <1> QED
    BY <1>1, <1>4, <1>8, <1>9 DEF IsFutures, IInv

LEMMA OpenAttachedFuturesInv ==
  ASSUME IInv, NEW price \in Prices, NEW date \in Times, NEW t \in Times,
         OpenAttachedFutures(price, date, t)
  PROVE  IInv'
  BY DEF IsFutures, IInv, TypeOK, Unsold, OutcomeAtEnd, QuantityConserved,
         SettledExact, FuturesPnlIsLedger, Settled, Size, Left,
         Statuses, Terminal, OpenAttachedFutures, OpenFutures, Append, Valid, ActiveValid, Entries, MaybeTimes

LEMMA OpenDirectFuturesInv ==
  ASSUME IInv, NEW price \in Prices, NEW date \in Times, NEW t \in Times,
         NEW n \in Sizes, NEW m \in Multipliers, NEW d \in Directions,
         OpenDirectFutures(price, date, n, m, d, t)
  PROVE  IInv'
  BY DEF IsFutures, IInv, TypeOK, Unsold, OutcomeAtEnd, QuantityConserved,
         SettledExact, FuturesPnlIsLedger, Settled, Size, Left,
         Statuses, Terminal, OpenDirectFutures, OpenFutures, Append, Valid, ActiveValid, Entries, MaybeTimes,
         WithContracts, Directions

LEMMA EquityLegInt ==
  ASSUME entry.price \in Int, NEW n \in Int, NEW price \in Int
  PROVE  EquityLeg(n, price) \in Int
  BY DEF IsFutures, EquityLeg

LEMMA FuturesLegInt ==
  ASSUME entry.price \in Int, pos.mult \in Int, NEW n \in Int, NEW price \in Int
  PROVE  FuturesLeg(n, price) \in Int
  <1>1. Sign(pos.dir) \in Int
    BY DEF IsFutures, Sign
  <1> QED
    BY <1>1 DEF IsFutures, FuturesLeg

LEMMA OpenEntry ==
  ASSUME IInv, status \in Open, entry.price # NaN
  PROVE  entry.price \in Int
  BY DEF IsFutures, IInv, TypeOK, Open, Valid, ActiveValid, PartiallyClosedValid, EntryRecorded, Entries

LEMMA TrimEquityInv ==
  ASSUME IInv, NEW n \in Sizes, NEW price \in Prices, NEW date \in Times,
         NEW t \in Times, NEW reason \in ExitReasons,
         TrimEquity(n, price, date, reason, t)
  PROVE  IInv'
  <1>1. EquityLeg(n, price) \in Int
    BY OpenEntry, EquityLegInt DEF IsFutures, TrimEquity, EquityPricesFinite
  <1> QED
    BY <1>1 DEF IsFutures, IInv, TypeOK, Unsold, OutcomeAtEnd, QuantityConserved,
         SettledExact, FuturesPnlIsLedger, Settled, Size, Left,
         Statuses, Terminal, TrimEquity, Settle, Book, Append, Exits, MaybeTimes, Open

LEMMA TrimFuturesInv ==
  ASSUME IInv, NEW n \in Sizes, NEW price \in Prices, NEW date \in Times,
         NEW t \in Times, NEW reason \in ExitReasons,
         TrimFutures(n, price, date, reason, t)
  PROVE  IInv'
  <1>1. FuturesLeg(n, price) \in Int
    BY OpenEntry, FuturesLegInt DEF IsFutures, TrimFutures, IInv, TypeOK
  <1> QED
    BY <1>1 DEF IsFutures, IInv, TypeOK, Unsold, OutcomeAtEnd, QuantityConserved,
         SettledExact, FuturesPnlIsLedger, Settled, Size, Left,
         Statuses, Terminal, TrimFutures, Settle, Book, Append, Exits, MaybeTimes, Open

LEMMA CloseEquityInv ==
  ASSUME IInv, NEW price \in Prices, NEW date \in Times,
         NEW t \in Times, NEW reason \in ExitReasons,
         CloseEquity(price, date, reason, t)
  PROVE  IInv'
  <1>1. entry.price \in Int
    BY OpenEntry DEF IsFutures, CloseEquity, EquityPricesFinite
  <1>2. pos.shares # NoVal => EquityLeg(pos.sharesRem, price) \in Int
    BY <1>1, EquityLegInt DEF IsFutures, IInv, TypeOK
  <1> QED
    BY <1>1, <1>2 DEF IsFutures, IInv, TypeOK, Unsold, OutcomeAtEnd, QuantityConserved,
         SettledExact, FuturesPnlIsLedger, Settled, Size, Left,
         Statuses, Terminal, CloseEquity, FinalizeEquity, Book, Append, Exits, MaybeTimes, Open

LEMMA CloseFuturesInv ==
  ASSUME IInv, NEW price \in Prices, NEW date \in Times,
         NEW t \in Times, NEW reason \in ExitReasons,
         CloseFutures(price, date, reason, t)
  PROVE  IInv'
  <1>1. FuturesLeg(pos.qtyRem, price) \in Int
    BY OpenEntry, FuturesLegInt DEF IsFutures, CloseFutures, FinalizeFutures, IInv, TypeOK
  <1> QED
    BY <1>1 DEF IsFutures, IInv, TypeOK, Unsold, OutcomeAtEnd, QuantityConserved,
         SettledExact, FuturesPnlIsLedger, Settled, Size, Left,
         Statuses, Terminal, CloseFutures, FinalizeFutures, Book, Append, Exits, MaybeTimes, Open

LEMMA InvalidateEquityInv ==
  ASSUME IInv, NEW price \in MaybePrices, NEW date \in MaybeTimes,
         NEW t \in Times, InvalidateEquity(price, date, t)
  PROVE  IInv'
  <1> DEFINE held == IF pos.shares = NoVal THEN 1 ELSE pos.shares
  <1>1. Priced(entry.price) => entry.price \in Int
    BY DEF IsFutures, InvalidateEquity, EquityPricesFinite, Priced, IInv, TypeOK, Entries
  <1>2. Priced(entry.price) /\ price # NoVal =>
            /\ pos.shares # NoVal => EquityLeg(pos.sharesRem, price) \in Int
            /\ EquityLeg(held, price) \in Int
    <2>1. held \in Int /\ (pos.shares # NoVal => pos.sharesRem \in Int)
      BY DEF IsFutures, IInv, TypeOK
    <2>2. price # NoVal => price \in Int
      BY DEF IsFutures, MaybePrices
    <2> HIDE DEF held
    <2> QED
      BY <1>1, <2>1, <2>2, EquityLegInt
  <1>3. Size > 0 => Left > 0
    BY DEF IsFutures, InvalidateEquity, IInv, TypeOK, Unsold, Valid, PartiallyClosedValid,
           Terminal, Statuses, Size, Left
  <1>4. pnl' \in Int \cup {NoVal}
    BY <1>2 DEF IsFutures, InvalidateEquity, FinalizeEquity, Book, IInv, TypeOK, Priced
  <1> QED
    BY <1>2, <1>3, <1>4 DEF IsFutures, IInv, TypeOK, Unsold, OutcomeAtEnd, QuantityConserved,
         SettledExact, FuturesPnlIsLedger, Settled, Size, Left,
         Statuses, Terminal, InvalidateEquity, InvalidatedExit, FinalizeEquity, Book, Append, Exits, MaybeTimes, MaybePrices, ExitReasons

LEMMA InvalidateFuturesInv ==
  ASSUME IInv, NEW price \in MaybePrices, NEW date \in MaybeTimes,
         NEW t \in Times, InvalidateFutures(price, date, t)
  PROVE  IInv'
  <1>1. price # NoVal /\ Priced(entry.price) /\ entry.price # NaN
            => FuturesLeg(pos.qtyRem, price) \in Int
    <2>1. price # NoVal => price \in Int
      BY DEF IsFutures, MaybePrices
    <2>2. Priced(entry.price) /\ entry.price # NaN => entry.price \in Int
      BY DEF IsFutures, Priced, IInv, TypeOK, Entries
    <2>3. pos.mult \in Int /\ pos.qtyRem \in Int
      BY DEF IsFutures, InvalidateFutures, IInv, TypeOK
    <2> QED
      BY <2>1, <2>2, <2>3, FuturesLegInt
  <1>2. Left > 0
    BY DEF IsFutures, InvalidateFutures, IInv, TypeOK, Unsold, Valid, PartiallyClosedValid,
           Terminal, Statuses, Size, Left
  <1> QED
    BY <1>1, <1>2 DEF IsFutures, IInv, TypeOK, Unsold, OutcomeAtEnd, QuantityConserved,
         SettledExact, FuturesPnlIsLedger, Settled, Size, Left, NoFuturesOutcome,
         Statuses, Terminal, InvalidateFutures, InvalidatedExit, FinalizeFutures, Book, Append, Exits, MaybeTimes, MaybePrices, ExitReasons

LEMMA StutterInv ==
  ASSUME IInv, UNCHANGED vars
  PROVE  IInv'
  BY DEF vars, IInv, TypeOK, Unsold, OutcomeAtEnd, QuantityConserved,
         SettledExact, FuturesPnlIsLedger, Settled, Size, Left, IsFutures,
         Valid, EquityFieldsValid, EquityPricesFinite, FuturesFieldsValid,
         ActiveValid, PartiallyClosedValid, ClosedValid, InvalidatedValid,
         EntryRecorded, DatesOrdered

\* Every operation whose save is accepted keeps the invariant.
THEOREM StepInv == IInv /\ [Next]_vars => IInv'
  <1> SUFFICES ASSUME IInv, [Next]_vars PROVE IInv'
    OBVIOUS
  <1>1. CASE \E t \in Times : Transition(t)
    BY <1>1, TransitionInv
  <1>2. CASE Attaching
    BY <1>2, AttachPositionInv, AttachFuturesPositionInv DEF Attaching
  <1>3. CASE Opening
    BY <1>3, OpenEquityInv, OpenAttachedFuturesInv, OpenDirectFuturesInv DEF Opening
  <1>4. CASE Trimming
    BY <1>4, TrimEquityInv, TrimFuturesInv DEF Trimming
  <1>5. CASE Closing
    BY <1>5, CloseEquityInv, CloseFuturesInv DEF Closing
  <1>6. CASE Invalidating
    BY <1>6, InvalidateEquityInv, InvalidateFuturesInv DEF Invalidating
  <1>7. CASE Updating
    <2>1. entry \in Entries /\ exit \in Exits
      BY DEF IInv, TypeOK
    <2> QED
      BY <1>7, <2>1, UpdateInv DEF Updating
  <1>8. CASE UNCHANGED vars
    BY <1>8, StutterInv
  <1> QED
    BY <1>1, <1>2, <1>3, <1>4, <1>5, <1>6, <1>7, <1>8 DEF Next

\* So it holds after any sequence of operations.
THEOREM Inductive == Spec => []IInv
  BY InitInv, StepInv, PTL DEF Spec

-----------------------------------------------------------------------------
(* Every thesis record the operations can write has the declared shape.      *)
THEOREM TypeCorrect == Spec => []TypeOK
  <1>1. IInv => TypeOK
    BY DEF IInv
  <1> QED
    BY <1>1, Inductive, PTL

(* Attached or opened units are the units sold plus the units still held.    *)
THEOREM UnitsConserved == Spec => []QuantityConserved
  <1>1. IInv => QuantityConserved
    BY DEF IInv
  <1> QED
    BY <1>1, Inductive, PTL

(* A CLOSED position, or one sold to the last unit, holds nothing and has    *)
(* exactly the sum of its legs as outcome.                                   *)
THEOREM SettledExactly == Spec => []SettledPnlIsRealized
  <1>1. ASSUME IInv, Size > 0, status = "CLOSED"
        PROVE  Settled
    BY <1>1 DEF IInv, TypeOK, Valid, ClosedValid, Settled, Size, Left, Terminal,
                IsFutures
  <1>2. IInv => SettledPnlIsRealized
    BY <1>1 DEF IInv, SettledExact, SettledPnlIsRealized, Settled
  <1> QED
    BY <1>2, Inductive, PTL

(* No futures thesis ever carries a per-unit outcome.                        *)
THEOREM FuturesMoneySafe == Spec => []FuturesPnlIsLedger
  <1>1. IInv => FuturesPnlIsLedger
    BY DEF IInv
  <1> QED
    BY <1>1, Inductive, PTL

-----------------------------------------------------------------------------
(* A terminal thesis is final: no operation changes its position, ledger,    *)
(* history or outcome again.                                                 *)
THEOREM TerminalIsFinal == Spec => [][KeepsFinal]_vars
  <1>1. ASSUME [Next]_vars, status \in Terminal
        PROVE  /\ status' = status /\ at' = at
               /\ pos' = pos /\ ledger' = ledger /\ pnl' = pnl
    <2> USE <1>1 DEF Terminal, Open
    <2>1. CASE \E t \in Times : Transition(t)
      BY <2>1 DEF Transition
    <2>2. CASE Attaching
      BY <2>2 DEF Attaching, AttachPosition, AttachFuturesPosition, AttachAllowed,
                  AttachFuturesAllowed
    <2>3. CASE Opening
      BY <2>3 DEF Opening, OpenEquity, OpenAttachedFutures, OpenDirectFutures,
                  OpenFutures
    <2>4. CASE Trimming
      BY <2>4 DEF Trimming, TrimEquity, TrimFutures
    <2>5. CASE Closing
      BY <2>5 DEF Closing, CloseEquity, CloseFutures
    <2>6. CASE Invalidating
      BY <2>6 DEF Invalidating, InvalidateEquity, InvalidateFutures
    <2>7. CASE Updating
      BY <2>7 DEF Updating, Update
    <2>8. CASE UNCHANGED vars
      BY <2>8 DEF vars
    <2> QED
      BY <2>1, <2>2, <2>3, <2>4, <2>5, <2>6, <2>7, <2>8 DEF Next
  <1> QED
    BY <1>1, PTL DEF Spec, KeepsFinal

(* An open futures position keeps its direction, multiplier and size.        *)
THEOREM ContractIsFixed == Spec => [][KeepsContract]_vars
  <1>1. ASSUME [Next]_vars, IInv, status \in Open /\ IsFutures
        PROVE  /\ pos'.asset = pos.asset /\ pos'.dir = pos.dir
               /\ pos'.mult = pos.mult /\ pos'.qty = pos.qty
    <2> USE <1>1 DEF Open
    <2>1. CASE \E t \in Times : Transition(t)
      BY <2>1 DEF Transition
    <2>2. CASE Attaching
      BY <2>2 DEF Attaching, AttachPosition, AttachFuturesPosition, AttachAllowed,
                  AttachFuturesAllowed
    <2>3. CASE Opening
      BY <2>3 DEF Opening, OpenEquity, OpenAttachedFutures, OpenDirectFutures,
                  OpenFutures
    <2>4. CASE Trimming
      BY <2>4 DEF Trimming, TrimEquity, TrimFutures, IInv, TypeOK
    <2>5. CASE Closing
      BY <2>5 DEF Closing, CloseEquity, CloseFutures, FinalizeFutures, IInv, TypeOK
    <2>6. CASE Invalidating
      BY <2>6 DEF Invalidating, InvalidateEquity, InvalidateFutures,
                  FinalizeFutures, IInv, TypeOK
    <2>7. CASE Updating
      BY <2>7 DEF Updating, Update
    <2>8. CASE UNCHANGED vars
      BY <2>8 DEF vars
    <2> QED
      BY <2>1, <2>2, <2>3, <2>4, <2>5, <2>6, <2>7, <2>8 DEF Next
  <1> QED
    BY <1>1, Inductive, PTL DEF Spec, KeepsContract

(* Neither is rewritten: what TLC checks as one property.                    *)
THEOREM TermsAreFixed == Spec => TermsFixed
  <1> QED
    BY TerminalIsFinal, ContractIsFixed, PTL DEF TermsFixed

(* Why an equity thesis can be closed (EquityCloseable, which is stated with  *)
(* ENABLED): what close computes from an open one, at any price and for any   *)
(* reason, with the day it was entered and the time of its last event, passes *)
(* every guard and the validation of the save.                                *)
THEOREM EquityCloseAccepted ==
  ASSUME IInv, status \in Open, ~IsFutures,
         NEW price \in Prices, NEW reason \in ExitReasons,
         status' = "CLOSED", at' = at, entry' = entry,
         exit' = [price |-> price, date |-> entry.date, reason |-> reason],
         \/ pos.shares # NoVal /\ FinalizeEquity(price)
         \/ pos.shares = NoVal /\ pnl' = price - entry.price /\ UNCHANGED <<pos, ledger>>
  PROVE  /\ entry.date \in Times /\ at \in Times
         /\ CloseEquity(price, entry.date, reason, at)
  <1>1. entry.date \in Times /\ at \in Times /\ at >= at
    BY LifecycleAssumption, OpenEntry
       DEF IInv, TypeOK, Entries, MaybeTimes, Valid, ActiveValid, PartiallyClosedValid,
           EntryRecorded, Open
  <1>2. EquityPricesFinite
    BY DEF IInv, Valid, EquityFieldsValid
  <1>3. EquityPricesFinite'
    BY <1>2, ConstantTypes, LifecycleAssumption DEF EquityPricesFinite
  <1>4. ~IsFutures' /\ (pos.shares # NoVal => pos'.shares = pos.shares /\ pos'.sharesRem = 0)
    BY DEF IsFutures, IInv, TypeOK, FinalizeEquity
  <1>5. pos.shares = NoVal => pos'.shares = NoVal /\ pos'.sharesRem = NoVal
    BY DEF IInv, TypeOK
  <1>6. EquityFieldsValid'
    <2>1. CASE pos.shares # NoVal
      <3>1. pos.shares \in Nat /\ pos'.shares = pos.shares /\ pos'.sharesRem = 0
        BY <2>1, <1>4, LifecycleAssumption DEF IInv, TypeOK
      <3> QED
        BY <1>3, <3>1 DEF EquityFieldsValid
    <2>2. CASE pos.shares = NoVal
      BY <2>2, <1>3, <1>5 DEF EquityFieldsValid
    <2> QED
      BY <2>1, <2>2
  <1>7. ClosedValid'
    <2>1. entry.date \in Nat /\ price # NoVal /\ entry.date # NoVal
      BY <1>1, ConstantTypes, LifecycleAssumption
    <2>2. exit'.price = price /\ exit'.date = entry.date /\ exit'.reason = reason
      OBVIOUS
    <2>3. DatesOrdered'
      BY <2>1, <2>2 DEF DatesOrdered
    <2> QED
      BY <2>1, <2>2, <2>3, <1>4, <1>5 DEF ClosedValid
  <1>8. Valid'
    BY <1>4, <1>6, <1>7 DEF Valid
  <1> QED
    BY <1>1, <1>2, <1>8 DEF CloseEquity, Append

-----------------------------------------------------------------------------
(* The thesis implements the position account.  Each lemma maps the steps of *)
(* a group of operations to one action of the account, or to a stutter.      *)

AccountStep == Account!Next \/ UNCHANGED Account!vars

(* What the account's variables are in a state of the invariant.             *)
LEMMA AccountState ==
  ASSUME IInv
  PROVE  /\ Size \in Nat /\ (Size > 0 => Size \in Sizes) /\ Left \in Nat
         /\ ledger.realized \in Int /\ pnl \in Int \cup {NoVal}
         /\ status \notin Terminal => (Size > 0 <=> Left > 0)
         /\ status \in Open => Phase = "held"
         /\ status \in {"IDEA", "ENTRY_READY"} => Phase = "planned"
         /\ status \in Terminal /\ Size > 0 /\ Left = 0 => Phase = "settled"
         /\ status \in Terminal /\ ~(Size > 0 /\ Left = 0) => Phase = "abandoned"
  <1>1. /\ Size \in Nat /\ (Size > 0 => Size \in Sizes) /\ Left \in Nat
    BY DEF IInv, TypeOK, Size, Left, IsFutures
  <1>2. ledger.realized \in Int /\ pnl \in Int \cup {NoVal}
    BY DEF IInv, TypeOK
  <1>3. status \notin Terminal => (Size > 0 <=> Left > 0)
    BY DEF IInv, TypeOK, Unsold, Valid, PartiallyClosedValid,
           Terminal, Statuses, Size, Left, IsFutures
  <1> QED
    BY <1>1, <1>2, <1>3 DEF Phase, Settled, Open, Terminal

LEMMA AttachingMaps ==
  ASSUME IInv, IInv', Attaching
  PROVE  AccountStep
  <1>1. /\ status' = status /\ status \in AttachAllowed
        /\ ledger' = ledger /\ pnl' = pnl
    BY DEF Attaching, AttachPosition, AttachFuturesPosition, AttachAllowed,
           AttachFuturesAllowed
  <1>2. Left = Size /\ Left' = Size'
    BY <1>1 DEF IInv, Unsold, AttachAllowed
  <1>3. Phase' = Phase /\ Phase \in {"planned", "held"}
    BY <1>1, AccountState DEF AttachAllowed, Phase, Open, Terminal
  <1>4. Size' \in Sizes \cup {0}
    BY DEF IInv, TypeOK, Size, IsFutures
  <1>5. Account!Plan(Size')
    BY <1>1, <1>2, <1>3 DEF Account!Plan
  <1> QED
    BY <1>4, <1>5 DEF AccountStep, Account!Next

LEMMA OpeningMaps ==
  ASSUME IInv, IInv', Opening
  PROVE  AccountStep
  <1>1. /\ status = "ENTRY_READY" /\ status' = "ACTIVE"
        /\ ledger' = ledger /\ pnl' = pnl
    BY DEF Opening, OpenEquity, OpenAttachedFutures, OpenDirectFutures,
           OpenFutures, Append
  <1>2. Left' = Size'
    BY <1>1 DEF IInv, Unsold
  <1>3. Phase = "planned" /\ Phase' = "held"
    BY <1>1 DEF Phase, Open
  <1>4. Size' \in Sizes \cup {0}
    BY DEF IInv, TypeOK, Size, IsFutures
  <1>5. Account!Hold(Size')
    BY <1>1, <1>2, <1>3 DEF Account!Hold
  <1> QED
    BY <1>4, <1>5 DEF AccountStep, Account!Next

LEMMA TrimmingMaps ==
  ASSUME IInv, IInv', Trimming
  PROVE  AccountStep
  <1>1. /\ status \in Open /\ Size' = Size /\ Left' < Left
        /\ \/ Left' > 0 /\ status' = "PARTIALLY_CLOSED" /\ pnl' = pnl
           \/ Left' = 0 /\ status' = "CLOSED" /\ pnl' = ledger'.realized
    BY DEF Trimming, TrimEquity, TrimFutures, Settle, Append, IInv, TypeOK,
           Size, Left, IsFutures, Open
  <1>2. Left' \in Nat /\ Left \in Nat /\ ledger'.realized \in Int /\ Size > 0
    BY <1>1, AccountState DEF IInv, TypeOK, Size, Left, IsFutures, Open, Terminal
  <1>3. Phase = "held" /\ (Left' > 0 => Phase' = "held") /\ (Left' = 0 => Phase' = "settled")
    BY <1>1, <1>2 DEF Phase, Open, Settled, Terminal
  <1>4. Account!Sell
    BY <1>1, <1>2, <1>3 DEF Account!Sell
  <1> QED
    BY <1>4 DEF AccountStep, Account!Next

(* A sized position is closed by a last sale, an unsized one is written off. *)
LEMMA ClosingMaps ==
  ASSUME IInv, IInv', Closing
  PROVE  AccountStep
  <1>1. /\ status \in Open /\ status' = "CLOSED" /\ Size' = Size
        /\ IF Size > 0 THEN Left' = 0 /\ pnl' = ledger'.realized
                       ELSE Left' = Left /\ ledger' = ledger
    BY DEF Closing, CloseEquity, CloseFutures, FinalizeEquity, FinalizeFutures,
           Append, IInv, TypeOK, Size, Left, IsFutures
  <1>2. /\ Left \in Nat /\ ledger'.realized \in Int /\ pnl' \in Int \cup {NoVal}
        /\ Phase = "held" /\ (Size > 0 => Left > 0)
    BY <1>1, AccountState DEF IInv, TypeOK, Open, Terminal
  <1>3. Phase' = IF Size > 0 THEN "settled" ELSE "abandoned"
    BY <1>1 DEF Phase, Settled, Open, Terminal
  <1>4. CASE Size > 0
    <2>1. Account!Sell
      BY <1>1, <1>2, <1>3, <1>4 DEF Account!Sell
    <2> QED
      BY <2>1 DEF AccountStep, Account!Next
  <1>5. CASE ~(Size > 0)
    <2>1. Account!Abandon
      BY <1>1, <1>2, <1>3, <1>5 DEF Account!Abandon
    <2> QED
      BY <2>1 DEF AccountStep, Account!Next
  <1> QED
    BY <1>4, <1>5

LEMMA InvalidatingMaps ==
  ASSUME IInv, IInv', Invalidating
  PROVE  AccountStep
  <1>1. /\ status \notin Terminal /\ status' = "INVALIDATED" /\ Size' = Size
        /\ \/ Size > 0 /\ Left' = 0 /\ pnl' = ledger'.realized
           \/ Left' = Left /\ ledger' = ledger
    BY DEF Invalidating, InvalidateEquity, InvalidateFutures, FinalizeEquity,
           FinalizeFutures, Append, IInv, TypeOK, Size, Left, IsFutures
  <1>2. /\ Left \in Nat /\ ledger'.realized \in Int /\ pnl' \in Int \cup {NoVal}
        /\ Phase \in {"planned", "held"} /\ (Size > 0 => Left > 0)
    BY <1>1, AccountState DEF IInv, TypeOK, Open, Terminal, Statuses
  <1>3. Phase' = IF Size > 0 /\ Left' = 0 THEN "settled" ELSE "abandoned"
    BY <1>1 DEF Phase, Settled, Open, Terminal
  <1>4. Account!Abandon
    BY <1>1, <1>2, <1>3 DEF Account!Abandon
  <1> QED
    BY <1>4 DEF AccountStep, Account!Next

LEMMA OtherStepsStutter ==
  ASSUME IInv, (\E t \in Times : Transition(t)) \/ Updating \/ UNCHANGED vars
  PROVE  UNCHANGED Account!vars
  <1>1. /\ pos' = pos /\ ledger' = ledger /\ pnl' = pnl
        /\ \/ status' = status
           \/ status = "IDEA" /\ status' = "ENTRY_READY"
    BY DEF Transition, Updating, Update, Append, vars
  <1>2. Size' = Size /\ Left' = Left /\ Phase' = Phase
    BY <1>1 DEF Size, Left, Phase, Settled, Open, Terminal, IsFutures
  <1> QED
    BY <1>1, <1>2 DEF Account!vars

(* The operations of the store implement the position account: a quantity is *)
(* only replanned before its first sale, every sale shrinks what is held,    *)
(* and a position sold out is settled at exactly the sum of its sales.       *)
THEOREM ImplementsAccount == Spec => AccountSpec
  <1>1. Init => Account!Init
    BY DEF Init, Account!Init, Phase, Size, Left, NoPosition, IsFutures
  <1>2. IInv /\ IInv' /\ [Next]_vars => [Account!Next]_Account!vars
    <2> SUFFICES ASSUME IInv, IInv', [Next]_vars PROVE AccountStep
      BY DEF AccountStep
    <2> QED
      BY AttachingMaps, OpeningMaps, TrimmingMaps, ClosingMaps, InvalidatingMaps,
         OtherStepsStutter DEF Next, AccountStep
  <1> QED
    BY <1>1, <1>2, Inductive, PTL DEF Spec, AccountSpec, Account!Spec
=============================================================================
