----------------------------- MODULE MCSession -----------------------------
(* Two games of two players, with different rosters, for TLC.                *)
EXTENDS Session

NewGame(players)    == [type |-> "NEW_GAME", players |-> players]
Pixel(n, f)         == [type |-> "PIXEL", player |-> n, field |-> f]
PlayerEliminated(n) == [type |-> "PLAYER_ELIMINATED", player |-> n]
GameOver            == [type |-> "GAME_OVER"]

TwoLogs ==
  <<<<NewGame(<<1, 2>>), Pixel(0, 1), Pixel(1, 2), Pixel(0, 3),
      PlayerEliminated(0), GameOver>>,
    <<NewGame(<<1, 3>>), Pixel(0, 2), Pixel(1, 1), PlayerEliminated(1), GameOver>>>>

Identifiers == <<7, 8>>
=============================================================================
