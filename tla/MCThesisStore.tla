---------------------------- MODULE MCThesisStore ----------------------------
(***************************************************************************)
(* The module TLC runs for ThesisStore.  The configurations choose how     *)
(* many processes there are and whether ids may collide.  Everything TLC   *)
(* needs to bound is a finite set already: reports are a set and statuses  *)
(* only go up, so no counter needs a cap.                                  *)
(***************************************************************************)
EXTENDS ThesisStore
=============================================================================
