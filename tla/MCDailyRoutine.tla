--------------------------- MODULE MCDailyRoutine ---------------------------
(***************************************************************************)
(* The module TLC runs for DailyRoutine, with two instances.               *)
(*                                                                         *)
(*   MCDailyRoutineAlone.cfg   one invocation with two required inputs, an *)
(*                             optional one, a required screener and two   *)
(*                             optional ones: every mix of skill endings.  *)
(*   MCDailyRoutineShared.cfg  two invocations with one required input and *)
(*                             one screener each: every interleaving of    *)
(*                             the runs, their writes, locks and deaths.   *)
(***************************************************************************)
EXTENDS DailyRoutine
=============================================================================
