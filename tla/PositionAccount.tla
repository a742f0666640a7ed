--------------------------- MODULE PositionAccount ---------------------------
(***************************************************************************)
(* What trader-memory-core promises about the money of one position: a     *)
(* quantity is planned, held, sold in legs that each realize an amount,    *)
(* and settled at the sum of the legs.  A position may also be abandoned   *)
(* with units left, and then its outcome is whatever was written.          *)
(***************************************************************************)
EXTENDS Integers

CONSTANTS NoVal, Sizes

VARIABLES phase, size, left, realized, outcome

vars == <<phase, size, left, realized, outcome>>

Init ==
    /\ phase = "planned"
    /\ size = 0 /\ left = 0
    /\ realized = 0
    /\ outcome = NoVal

(* The quantity may be replanned until the first unit is sold. *)
Plan(n) ==
    /\ phase \in {"planned", "held"}
    /\ left = size
    /\ size' = n /\ left' = n
    /\ UNCHANGED <<phase, realized, outcome>>

Hold(n) ==
    /\ phase = "planned"
    /\ phase' = "held"
    /\ size' = n /\ left' = n
    /\ UNCHANGED <<realized, outcome>>

(* A leg sells some of the units left and realizes any amount. *)
Sell ==
    /\ phase = "held"
    /\ left' \in 0..(left - 1)
    /\ realized' \in Int
    /\ \/ left' > 0 /\ UNCHANGED <<phase, outcome>>
       \/ left' = 0 /\ phase' = "settled" /\ outcome' = realized'
    /\ UNCHANGED size

(* The last units of a planned or held position are sold at the moment it    *)
(* is given up, or it is given up with units left and any outcome.           *)
Abandon ==
    /\ phase \in {"planned", "held"}
    /\ \/ phase' = "abandoned" /\ outcome' \in Int \cup {NoVal}
          /\ UNCHANGED <<left, realized>>
       \/ size > 0 /\ left' = 0 /\ realized' \in Int
          /\ phase' = "settled" /\ outcome' = realized'
    /\ UNCHANGED size

Next ==
    \/ \E n \in Sizes \cup {0} : Plan(n) \/ Hold(n)
    \/ Sell
    \/ Abandon

Spec == Init /\ [][Next]_vars
=============================================================================
