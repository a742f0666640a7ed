--------------------------- MODULE MCFollowThrough ---------------------------
(***************************************************************************)
(* Two corrections: the first with an FTD (102, with a low of 101), then a *)
(* rise to 112 and a second correction to 106.  What follows is open.      *)
(***************************************************************************)
EXTENDS FollowThrough

Bar(close, volume) == [close |-> close, high |-> close + 1, low |-> close - 1, volume |-> volume]
Closes == <<101, 102, 100, 98, 96, 97, 98, 99, 102, 103, 106, 109, 112, 110, 108, 106>>
MCPasts == {[i \in 1..Len(Closes) |-> Bar(Closes[i], IF i = 9 THEN 2 ELSE 1)]}
Move(change, volume) == [change |-> change, up |-> 1, down |-> 1, volume |-> volume]
MCMoves == {Move(0 - 2, 1), Move(1, 1), Move(3, 2)}
=============================================================================
