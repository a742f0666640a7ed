--------------------------- MODULE ThesisLifecycle ---------------------------
(***************************************************************************)
(* The life of one trading thesis in trader-memory-core's thesis_store.py: *)
(* the status it moves through, the equity or futures position attached to *)
(* it, the ledger of sold legs kept in status_history, and the outcome.    *)
(*                                                                         *)
(* Every operation of the source loads the YAML record, checks its guards, *)
(* mutates the record in memory and calls _save_thesis, which validates    *)
(* the whole record and refuses to write an invalid one.  An operation is  *)
(* therefore one action here, and its last conjunct is Valid'.             *)
(*                                                                         *)
(* Data: prices are whole cents, quantities whole units, timestamps are    *)
(* numbers.  status_history is kept as what the code reads back from it:   *)
(* its last timestamp (at) and the sums of its ledger entries (ledger).    *)
(***************************************************************************)
EXTENDS Integers

CONSTANTS
    Prices,       \* finite prices a caller may pass
    Sizes,        \* share or contract counts a sizing report may recommend
    Multipliers,  \* futures contract multipliers
    Times,        \* timestamps a caller may pass
    NoVal,        \* a field that is null or absent
    NaN           \* a non-finite number

ASSUME LifecycleAssumption ==
    /\ Prices \subseteq Int
    /\ Sizes \subseteq Nat \ {0}
    /\ Multipliers \subseteq Nat \ {0}
    /\ Times \subseteq Nat
    /\ NoVal \notin Int /\ NaN \notin Int /\ NoVal # NaN
    /\ NoVal \notin {"futures", "LONG", "SHORT"}

VARIABLES
    status,  \* thesis["status"]
    at,      \* status_history[-1]["at"]
    entry,   \* entry.actual_price and entry.actual_date
    exit,    \* exit.actual_price, exit.actual_date and exit.exit_reason
    pos,     \* position: its equity fields and its futures fields
    ledger,  \* over the sale entries of status_history: units sold, realized_pnl
    pnl      \* outcome.pnl_dollars

vars == <<status, at, entry, exit, pos, ledger, pnl>>

Statuses == {"IDEA", "ENTRY_READY", "ACTIVE", "PARTIALLY_CLOSED", "CLOSED",
             "INVALIDATED"}
Terminal == {"CLOSED", "INVALIDATED"}
Open     == {"ACTIVE", "PARTIALLY_CLOSED"}
(* Mutant: the set of statuses one step too wide.                             *)
AttachFuturesTooLate == {"IDEA", "ENTRY_READY", "ACTIVE"}

AttachAllowed        == {"IDEA", "ENTRY_READY", "ACTIVE"}
AttachFuturesAllowed == {"IDEA", "ENTRY_READY"}

(* The five exit reasons fall in two classes for validation: "invalidated",  *)
(* the one an INVALIDATED thesis may carry, and the others.                  *)
ExitReasons == {"manual", "invalidated"}
Directions  == {"LONG", "SHORT"}

MaybePrices == Prices \cup {NoVal}
MaybeTimes  == Times \cup {NoVal}

Entries == [price : Prices \cup {NoVal, NaN}, date : MaybeTimes]
Exits   == [price : Prices \cup {NoVal, NaN}, date : MaybeTimes,
            reason : ExitReasons \cup {NoVal}]

NoPosition ==
    [shares |-> NoVal, sharesRem |-> NoVal, asset |-> NoVal,
     qty |-> NoVal, qtyRem |-> NoVal, mult |-> NoVal, dir |-> NoVal]

(* The position dict that attach_position builds, and the futures fields     *)
(* laid over a position by attach_futures_position and open_position.        *)
SharesPosition(n) ==
    [shares |-> n, sharesRem |-> n, asset |-> NoVal,
     qty |-> NoVal, qtyRem |-> NoVal, mult |-> NoVal, dir |-> NoVal]

WithContracts(p, n, m, d) ==
    [shares |-> p.shares, sharesRem |-> p.sharesRem, asset |-> "futures",
     qty |-> n, qtyRem |-> n, mult |-> m, dir |-> d]

Sign(d) == IF d = "LONG" THEN 1 ELSE -1

(* _is_futures, the key every lifecycle operation dispatches on.             *)
IsFutures == pos.asset = "futures"

-----------------------------------------------------------------------------
(* _validate_thesis, the chokepoint of every save                            *)

DatesOrdered == entry.date # NoVal /\ exit.date # NoVal => exit.date >= entry.date

EntryRecorded == entry.price # NoVal /\ entry.date # NoVal

FuturesFieldsValid ==
    /\ NoVal \notin {pos.mult, pos.qty, pos.qtyRem, pos.dir}
    /\ pos.qtyRem <= pos.qty

(* _validate_equity_actual_prices: also rerun first thing by every equity      *)
(* operation that is about to do arithmetic.                                 *)
EquityPricesFinite == entry.price # NaN /\ exit.price # NaN

(* Mutant: the finiteness of the stored prices is left to the operations.     *)
EquityFieldsUnpriced ==
    pos.shares # NoVal /\ pos.sharesRem # NoVal => pos.sharesRem <= pos.shares

EquityFieldsValid ==
    /\ EquityPricesFinite
    /\ pos.shares # NoVal /\ pos.sharesRem # NoVal => pos.sharesRem <= pos.shares

ActiveValid ==
    /\ EntryRecorded
    /\ IF IsFutures
       THEN pos.qtyRem = pos.qty
       ELSE NoVal \in {pos.shares, pos.sharesRem} \/ pos.sharesRem = pos.shares

PartiallyClosedValid ==
    /\ EntryRecorded
    /\ IF IsFutures
       THEN 0 < pos.qtyRem /\ pos.qtyRem < pos.qty
       ELSE /\ NoVal \notin {pos.shares, pos.sharesRem}
            /\ 0 < pos.sharesRem /\ pos.sharesRem < pos.shares

ClosedValid ==
    /\ exit.price # NoVal /\ exit.date # NoVal /\ exit.reason \in ExitReasons
    /\ DatesOrdered
    /\ (IF IsFutures THEN pos.qtyRem ELSE pos.sharesRem) \in {NoVal, 0}

InvalidatedValid == exit.reason \in {NoVal, "invalidated"} /\ DatesOrdered

Valid ==
    /\ IF IsFutures THEN FuturesFieldsValid ELSE EquityFieldsValid
    /\ status = "ACTIVE" => ActiveValid
    /\ status = "PARTIALLY_CLOSED" => PartiallyClosedValid
    /\ status = "CLOSED" => ClosedValid
    /\ status = "INVALIDATED" => InvalidatedValid

(* Appending to status_history: validation refuses a timestamp earlier than  *)
(* the one before it.                                                        *)
Append(s, t) == status' = s /\ at' = t /\ t >= at

-----------------------------------------------------------------------------
(* register() copies entry and exit fields of its input into the template.   *)
Init ==
    /\ status = "IDEA"
    /\ at \in Times
    /\ entry \in Entries
    /\ exit \in Exits
    /\ pos = NoPosition
    /\ ledger = [sold |-> 0, realized |-> 0]
    /\ pnl = NoVal
    /\ Valid

Transition(t) ==
    /\ status = "IDEA"
    /\ Append("ENTRY_READY", t)
    /\ UNCHANGED <<entry, exit, pos, ledger, pnl>>
    /\ Valid'

(* Mutant: shares_remaining is left for a later operation to default.         *)
AttachWithoutRemaining(n) ==
    /\ ~IsFutures
    /\ status \in AttachAllowed
    /\ pos' = [SharesPosition(n) EXCEPT !.sharesRem = NoVal]
    /\ UNCHANGED <<status, at, entry, exit, ledger, pnl>>
    /\ Valid'

AttachPosition(n) ==
    /\ ~IsFutures
    /\ status \in AttachAllowed
    /\ pos' = SharesPosition(n)
    /\ UNCHANGED <<status, at, entry, exit, ledger, pnl>>
    /\ Valid'

AttachFuturesPosition(n, m, d) ==
    /\ pos.shares = NoVal
    /\ status \in AttachFuturesAllowed
    /\ pos' = WithContracts(NoPosition, n, m, d)
    /\ UNCHANGED <<status, at, entry, exit, ledger, pnl>>
    /\ Valid'

(* n is the optional shares argument: shares_remaining is filled in only when *)
(* it is still absent, so a count that differs from an attached one leaves    *)
(* the record invalid and the save refuses it.                               *)
OpenEquity(price, date, n, t) ==
    /\ ~IsFutures
    /\ status = "ENTRY_READY"
    /\ EquityPricesFinite
    /\ entry' = [price |-> price, date |-> date]
    /\ LET size == IF n = NoVal THEN pos.shares ELSE n
       IN  pos' = [pos EXCEPT !.shares = size,
                              !.sharesRem = IF @ = NoVal THEN size ELSE @]
    /\ Append("ACTIVE", t)
    /\ UNCHANGED <<exit, ledger, pnl>>
    /\ Valid'

(* The futures half of open_position: over an attached futures position, or  *)
(* directly from contracts=, which overlays a copy of whatever position the  *)
(* thesis has.                                                               *)
OpenFutures(price, date, opened, t) ==
    /\ status = "ENTRY_READY"
    /\ price > 0
    /\ entry' = [price |-> price, date |-> date]
    /\ pos' = opened
    /\ Append("ACTIVE", t)
    /\ UNCHANGED <<exit, ledger, pnl>>
    /\ Valid'

OpenAttachedFutures(price, date, t) ==
    /\ IsFutures
    /\ OpenFutures(price, date, [pos EXCEPT !.qtyRem = pos.qty], t)

OpenDirectFutures(price, date, n, m, d, t) ==
    OpenFutures(price, date, WithContracts(pos, n, m, d), t)

-----------------------------------------------------------------------------
(* Selling.  A sale books one ledger entry; a NaN entry price makes the      *)
(* computed amount non-finite, which every path refuses before mutating.     *)

EquityLeg(n, price) == (price - entry.price) * n

FuturesLeg(n, price) == (price - entry.price) * pos.mult * n * Sign(pos.dir)

(* Mutant: the units of earlier sales are forgotten.                          *)
BookLastLeg(n, amount) ==
    ledger' = [sold |-> n, realized |-> ledger.realized + amount]

Book(n, amount) ==
    ledger' = [sold |-> ledger.sold + n, realized |-> ledger.realized + amount]

(* Mutant: the outcome of a full close-out is its own leg only.               *)
SettleLastLeg(left, price, date, reason, t) ==
    \/ /\ left > 0
       /\ Append("PARTIALLY_CLOSED", t)
       /\ UNCHANGED <<exit, pnl>>
    \/ /\ left = 0
       /\ Append("CLOSED", t)
       /\ exit' = [price |-> price, date |-> date, reason |-> reason]
       /\ pnl' = ledger'.realized - ledger.realized

(* The part trim and _trim_futures share: what is left decides the status.   *)
Settle(left, price, date, reason, t) ==
    \/ /\ left > 0
       /\ Append("PARTIALLY_CLOSED", t)
       /\ UNCHANGED <<exit, pnl>>
    \/ /\ left = 0
       /\ Append("CLOSED", t)
       /\ exit' = [price |-> price, date |-> date, reason |-> reason]
       /\ pnl' = ledger'.realized

TrimEquity(n, price, date, reason, t) ==
    /\ ~IsFutures
    /\ status \in Open
    /\ EquityPricesFinite
    /\ pos.shares # NoVal
    /\ n <= pos.sharesRem
    /\ pos' = [pos EXCEPT !.sharesRem = @ - n]
    /\ Book(n, EquityLeg(n, price))
    /\ Settle(pos.sharesRem - n, price, date, reason, t)
    /\ UNCHANGED entry
    /\ Valid'

TrimFutures(n, price, date, reason, t) ==
    /\ IsFutures
    /\ status \in Open
    /\ price > 0 /\ entry.price # NaN
    /\ n <= pos.qtyRem
    /\ pos' = [pos EXCEPT !.qtyRem = @ - n]
    /\ Book(n, FuturesLeg(n, price))
    /\ Settle(pos.qtyRem - n, price, date, reason, t)
    /\ UNCHANGED entry
    /\ Valid'

(* Mutant: the outcome is summed before the final leg is appended.            *)
FinalizeBeforeLeg(price) ==
    /\ pos' = [pos EXCEPT !.sharesRem = 0]
    /\ Book(pos.sharesRem, EquityLeg(pos.sharesRem, price))
    /\ pnl' = ledger.realized

(* _finalize_outcome and _finalize_futures_outcome with append_entry=True:   *)
(* sell all that remains and roll the ledger up into the outcome.            *)
FinalizeEquity(price) ==
    /\ pos' = [pos EXCEPT !.sharesRem = 0]
    /\ Book(pos.sharesRem, EquityLeg(pos.sharesRem, price))
    /\ pnl' = ledger'.realized

FinalizeFutures(price) ==
    /\ entry.price # NaN
    /\ pos' = [pos EXCEPT !.qtyRem = 0]
    /\ Book(pos.qtyRem, FuturesLeg(pos.qtyRem, price))
    /\ pnl' = ledger'.realized

CloseEquity(price, date, reason, t) ==
    /\ ~IsFutures
    /\ status \in Open
    /\ EquityPricesFinite
    /\ exit' = [price |-> price, date |-> date, reason |-> reason]
    /\ \/ pos.shares # NoVal /\ FinalizeEquity(price)
       \/ /\ pos.shares = NoVal
          /\ pnl' = price - entry.price
          /\ UNCHANGED <<pos, ledger>>
    /\ Append("CLOSED", t)
    /\ UNCHANGED entry
    /\ Valid'

CloseFutures(price, date, reason, t) ==
    /\ IsFutures
    /\ status \in Open
    /\ price > 0
    /\ exit' = [price |-> price, date |-> date, reason |-> reason]
    /\ FinalizeFutures(price)
    /\ Append("CLOSED", t)
    /\ UNCHANGED entry
    /\ Valid'

-----------------------------------------------------------------------------
(* terminate(INVALIDATED): price and date are optional, a zero price is      *)
(* falsy, and only a complete pair of prices and a date reaches _finalize.   *)

InvalidatedExit(price, date) ==
    exit' = [price  |-> IF price = NoVal THEN exit.price ELSE price,
             date   |-> IF date = NoVal THEN exit.date ELSE date,
             reason |-> "invalidated"]

Priced(price) == price \notin {NoVal, 0}

InvalidateEquity(price, date, t) ==
    /\ ~IsFutures
    /\ status \notin Terminal
    /\ EquityPricesFinite
    /\ InvalidatedExit(price, date)
    /\ LET rollUp == /\ pos.shares # NoVal
                     /\ NoVal \notin {price, date}
                     /\ Priced(entry.price)
       IN  \/ rollUp /\ FinalizeEquity(price)
           \/ /\ ~rollUp
              /\ pnl' = IF Priced(entry.price) /\ Priced(price)
                        THEN EquityLeg(IF pos.shares = NoVal THEN 1 ELSE pos.shares,
                                       price)
                        ELSE pnl
              /\ UNCHANGED <<pos, ledger>>
    /\ Append("INVALIDATED", t)
    /\ UNCHANGED entry
    /\ Valid'

(* Mutant: a futures thesis falls back to the per-unit amount.                *)
PerUnitOutcome(price) ==
    pnl' = IF entry.price # NaN /\ Priced(entry.price) /\ Priced(price)
           THEN price - entry.price ELSE pnl

(* Without a complete pair of prices a futures thesis gets no amount at all. *)
NoFuturesOutcome(price) == UNCHANGED pnl

InvalidateFutures(price, date, t) ==
    /\ IsFutures
    /\ status \notin Terminal
    /\ price # NoVal => price > 0
    /\ InvalidatedExit(price, date)
    /\ LET rollUp == NoVal \notin {price, date} /\ Priced(entry.price)
       IN  \/ rollUp /\ FinalizeFutures(price)
           \/ ~rollUp /\ NoFuturesOutcome(price) /\ UNCHANGED <<pos, ledger>>
    /\ Append("INVALIDATED", t)
    /\ UNCHANGED entry
    /\ Valid'

(* update() may rewrite entry and exit in any status; position, status, the  *)
(* history and the lifecycle's outcome fields are refused.                   *)
Update(e, x) ==
    /\ entry' = e
    /\ exit' = x
    /\ UNCHANGED <<status, at, pos, ledger, pnl>>
    /\ Valid'

-----------------------------------------------------------------------------
Opening ==
    \E price \in Prices, date, t \in Times :
        \/ \E n \in Sizes \cup {NoVal} : OpenEquity(price, date, n, t)
        \/ OpenAttachedFutures(price, date, t)
        \/ \E n \in Sizes, m \in Multipliers, d \in Directions :
               OpenDirectFutures(price, date, n, m, d, t)

Attaching ==
    \E n \in Sizes :
        \/ AttachPosition(n)
        \/ \E m \in Multipliers, d \in Directions : AttachFuturesPosition(n, m, d)

Trimming ==
    \E n \in Sizes, price \in Prices, date, t \in Times, reason \in ExitReasons :
        \/ TrimEquity(n, price, date, reason, t)
        \/ TrimFutures(n, price, date, reason, t)

Closing ==
    \E price \in Prices, date, t \in Times, reason \in ExitReasons :
        \/ CloseEquity(price, date, reason, t)
        \/ CloseFutures(price, date, reason, t)

Invalidating ==
    \E price \in MaybePrices, date \in MaybeTimes, t \in Times :
        \/ InvalidateEquity(price, date, t)
        \/ InvalidateFutures(price, date, t)

(* One call may rewrite both sections; two calls in a row have the effect.   *)
Updating == \/ \E e \in Entries : Update(e, exit)
            \/ \E x \in Exits : Update(entry, x)

Next ==
    \/ \E t \in Times : Transition(t)
    \/ Attaching
    \/ Opening
    \/ Trimming
    \/ Closing
    \/ Invalidating
    \/ Updating

Spec == Init /\ [][Next]_vars

-----------------------------------------------------------------------------
(* What the accounting sees of a position: its size, what is still held and  *)
(* whether it was sold to the last unit.                                     *)
Size == IF IsFutures THEN pos.qty
        ELSE IF pos.shares = NoVal THEN 0 ELSE pos.shares
Left == IF IsFutures THEN pos.qtyRem
        ELSE IF pos.shares = NoVal THEN 0 ELSE pos.sharesRem
Settled == status \in Terminal /\ Size > 0 /\ Left = 0

(* Type invariant: quantities are set in pairs, and a futures position has   *)
(* its multiplier and direction.                                             *)
TypeOK ==
    /\ status \in Statuses
    /\ at \in Times
    /\ entry \in Entries
    /\ exit \in Exits
    /\ pos \in [shares : Sizes \cup {NoVal}, sharesRem : Nat \cup {NoVal},
                asset : {NoVal, "futures"}, qty : Sizes \cup {NoVal},
                qtyRem : Nat \cup {NoVal}, mult : Multipliers \cup {NoVal},
                dir : Directions \cup {NoVal}]
    /\ pos.shares = NoVal <=> pos.sharesRem = NoVal
    /\ IsFutures => NoVal \notin {pos.qty, pos.qtyRem, pos.mult, pos.dir}
    /\ ledger \in [sold : Nat, realized : Int]
    /\ pnl \in Int \cup {NoVal}

(* Units are conserved: what was attached or opened is what the ledger says  *)
(* was sold plus what is still held, whatever mix of attaches, trims, closes *)
(* and terminations led here (the ledger is written by trim and _finalize,   *)
(* the remainder by seven operations).                                       *)
QuantityConserved == Size = Left + ledger.sold

(* A CLOSED thesis with a position, and an INVALIDATED one that was sold to   *)
(* the last unit, hold nothing, have every unit in the ledger, and have the  *)
(* sum of the ledger as outcome, whichever operation ended them.             *)
SettledPnlIsRealized ==
    Size > 0 /\ (status = "CLOSED" \/ Settled) =>
        Left = 0 /\ pnl = ledger.realized /\ ledger.sold = Size

(* Money safety of futures (the dispatch rule of _is_futures): an outcome is *)
(* never the per-unit difference that ignores multiplier and direction.      *)
FuturesPnlIsLedger == IsFutures /\ pnl # NoVal => pnl = ledger.realized

(* A thesis with a position, or none, that is open for an equity can be      *)
(* closed now: no accepted call leaves it stuck (issue #257).                *)
EquityCloseable ==
    status \in Open /\ ~IsFutures =>
        ENABLED \E price \in Prices, date, t \in Times, reason \in ExitReasons :
                    CloseEquity(price, date, reason, t)

(* Once a thesis is terminal its position, ledger and outcome are final:     *)
(* neither update nor the attach operations touch them.                      *)
KeepsFinal ==
    status \in Terminal =>
        /\ status' = status /\ at' = at
        /\ pos' = pos /\ ledger' = ledger /\ pnl' = pnl

(* An open futures position keeps its direction, multiplier and size: a      *)
(* re-attach would flip the sign of every later amount.                      *)
KeepsContract ==
    status \in Open /\ IsFutures =>
        /\ pos'.asset = pos.asset /\ pos'.dir = pos.dir
        /\ pos'.mult = pos.mult /\ pos'.qty = pos.qty

(* What money was already counted with is not rewritten: terminal theses and *)
(* the contract of open futures, by any of the eight operations that write.  *)
TermsFixed == [][KeepsFinal /\ KeepsContract]_vars

-----------------------------------------------------------------------------
(* What the documentation and comments say of the code, and the code does    *)
(* not do: each is the property of a run that finds a counterexample.        *)

(* thesis_lifecycle.md: outcome.pnl_dollars is the sum of realized_pnl.      *)
PnlIsSumOfLedger ==
    status \in Terminal /\ ledger.sold > 0 /\ pnl # NoVal => pnl = ledger.realized

(* The comment on the save chokepoint: no save path can persist a thesis     *)
(* that later becomes uncloseable.                                           *)
FuturesCloseable ==
    status \in Open /\ IsFutures =>
        ENABLED \E price \in Prices, date, t \in Times, reason \in ExitReasons :
                    CloseFutures(price, date, reason, t)

-----------------------------------------------------------------------------
(* The thesis implements the position account: a planned quantity is held,   *)
(* sold in legs and settled at the sum of the legs, or written off.          *)
Phase ==
    IF status \in {"IDEA", "ENTRY_READY"} THEN "planned"
    ELSE IF status \in Open THEN "held"
    ELSE IF Settled THEN "settled" ELSE "abandoned"

Account == INSTANCE PositionAccount WITH
    phase    <- Phase,
    size     <- Size,
    left     <- Left,
    realized <- ledger.realized,
    outcome  <- pnl

AccountSpec == Account!Spec
=============================================================================
