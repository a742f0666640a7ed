------------------------- MODULE MCSkillGeneration -------------------------
(***************************************************************************)
(* The module TLC runs for SkillGeneration: two ideas, the first with the  *)
(* higher score, a daily and a weekly process that are launched again and  *)
(* again, and at most MaxCuts attempts killed or raised out of.            *)
(***************************************************************************)
EXTENDS SkillGeneration

CONSTANTS i1, i2

MCComposite == [i \in Ideas |-> IF i = i1 THEN 2 ELSE 1]
=============================================================================
