------------------------------ MODULE MCPidLock ------------------------------
(***************************************************************************)
(* The module TLC runs for PidLock alone: two invocations that start       *)
(* together.                                                               *)
(***************************************************************************)
EXTENDS PidLock
=============================================================================
