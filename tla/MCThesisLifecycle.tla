-------------------------- MODULE MCThesisLifecycle --------------------------
(***************************************************************************)
(* The instance of ThesisLifecycle that TLC checks: a size that can be     *)
(* sold in one, two or three legs or left over in part, and a smaller one  *)
(* to trim by or replan to; a falsy zero price and two prices, for a gain  *)
(* and a loss; a multiplier; and two timestamps, one before the other.     *)
(***************************************************************************)
EXTENDS ThesisLifecycle

MCPrices      == {0, 2, 3}
MCSizes       == {1, 3}
MCMultipliers == {2}
MCTimes       == 1..2
=============================================================================
