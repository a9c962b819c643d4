--------------------------- MODULE MCEventStream ---------------------------
(* Two games with different rosters for TLC; the identifier of the first is  *)
(* the one a client starts with.                                             *)
EXTENDS EventStream, TLC

NewGame(players)    == [type |-> "NEW_GAME", players |-> players]
Pixel(n, f)         == [type |-> "PIXEL", player |-> n, field |-> f]
PlayerEliminated(n) == [type |-> "PLAYER_ELIMINATED", player |-> n]
GameOver            == [type |-> "GAME_OVER"]

TwoLogs ==
  1 :> <<NewGame(<<1, 2>>), Pixel(0, 1), Pixel(1, 2), PlayerEliminated(1),
         GameOver>>
  @@
  2 :> <<NewGame(<<1, 3, 4>>), Pixel(0, 2), Pixel(1, 3), Pixel(2, 1),
         PlayerEliminated(2), PlayerEliminated(1), GameOver>>

Identifiers == 1 :> NoGame @@ 2 :> 7
=============================================================================
