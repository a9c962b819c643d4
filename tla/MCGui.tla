------------------------------- MODULE MCGui -------------------------------
(* Two games for TLC: the second has the same players as the first, others,  *)
(* or one more than the table of the GUI holds.                              *)
EXTENDS Gui

Opens(players) == [line |-> "NEW_GAME", players |-> players]
Eats(p, f)     == [line |-> "PIXEL", player |-> p, field |-> f]
Loses(p)       == [line |-> "PLAYER_ELIMINATED", player |-> p]

First == <<Opens(<<"a", "b">>), Eats("a", 1), Loses("b")>>

Scripts ==
  {First \o <<Opens(<<"a", "b">>), Eats("b", 2), Loses("a")>>,
   First \o <<Opens(<<"b", "c">>), Eats("c", 2), Loses("c")>>,
   First \o <<Opens(<<"a", "b", "c">>), Eats("c", 1), Loses("c")>>}
=============================================================================
