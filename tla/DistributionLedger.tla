------------------------- MODULE DistributionLedger -------------------------
(***************************************************************************)
(* The distribution days of one fund as a trader keeps them by hand: a     *)
(* list that gets an entry on a session that fell on rising volume, and    *)
(* loses an entry on the session that is too late for it or has risen far  *)
(* enough above it.  Only the last session is looked at.                   *)
(***************************************************************************)
EXTENDS Integers

CONSTANTS
    LedgerRows,     \* what a session may bring; 0 is no price or volume
    Expiration,     \* an entry is dropped when it is older than this
    DeclineMille,   \* the fall that counts, in thousandths
    GainPercent,    \* the rise above an entry that drops it, in hundredths
    TriggerSource   \* the price the rise is measured by

VARIABLES
    today,      \* the number of the session
    last,       \* its row
    standing    \* the listed days: session number and close

ledgerVars == <<today, last, standing>>

Distributed(row) ==
    /\ {row.close, row.volume, last.close, last.volume} \cap {0} = {}
    /\ 1000 * row.close <= (1000 - DeclineMille) * last.close
    /\ row.volume > last.volume

Dropped(d, row) ==
    \/ today + 1 > d.day + Expiration
    \/ /\ row[TriggerSource] # 0
       /\ 100 * row[TriggerSource] >= (100 + GainPercent) * d.close

LedgerInit == today = 1 /\ last \in LedgerRows /\ standing = {}

Session(row) ==
    /\ today' = today + 1
    /\ last' = row
    /\ standing' = {d \in standing : ~ Dropped(d, row)}
                   \cup {d \in {[day |-> today + 1, close |-> row.close]} : Distributed(row)}

LedgerSpec == LedgerInit /\ [][\E row \in LedgerRows : Session(row)]_ledgerVars
=============================================================================
