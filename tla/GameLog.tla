------------------------------ MODULE GameLog ------------------------------
(***************************************************************************)
(* What the server promises its clients about the log of a game, whatever  *)
(* connections, timeouts and takeovers happen meanwhile.  The log opens    *)
(* with the roster and one event for each of its players, in their order;  *)
(* afterwards it tells of moves and eliminations of worms that are still   *)
(* in, of no field twice, and announces GAME_OVER at once when only one is *)
(* left.  It is dropped as a whole, and only when it has ended.            *)
(*                                                                         *)
(* A worm that the opening calls eliminated, because it was placed on a    *)
(* taken field, is still in: startGame does not erase it.  A player        *)
(* without a worm who is heard of in a running game, a newcomer or one who *)
(* has lost, gets a worm with number 0, of which the log says nothing.     *)
(***************************************************************************)
EXTENDS Naturals, FiniteSets, Sequences

CONSTANTS
  Name, Field,
  Lags  \* whether one read of the game timer may return several expirations

VARIABLES
  log,
  worms  \* the worms in the game: name -> number

NewGame(players)    == [type |-> "NEW_GAME", players |-> players]
Pixel(n, f)         == [type |-> "PIXEL", player |-> n, field |-> f]
PlayerEliminated(n) == [type |-> "PLAYER_ELIMINATED", player |-> n]
GameOver            == [type |-> "GAME_OVER"]

Logged(type) == {i \in DOMAIN log : log[i].type = type}
Eaten        == {log[i].field : i \in Logged("PIXEL")}
Roster       == log[1].players

Over    == Logged("GAME_OVER") # {}
Opening == log # << >> /\ Len(log) <= Cardinality(Roster)
Running == log # << >> /\ ~Opening /\ ~Over

Init == log = << >> /\ worms = [n \in {} |-> 0]

\* A game needs two players.
Start ==
  /\ log = << >>
  /\ \E players \in SUBSET Name :
       /\ Cardinality(players) >= 2
       /\ log' = <<NewGame(players)>>
  /\ UNCHANGED worms

\* The next player's worm is placed and numbered.
Place ==
  /\ Opening
  /\ LET number == Len(log) - 1
         rest   == Roster \ DOMAIN worms
     IN  /\ \E n \in rest :
              /\ \A m \in rest : n <= m
              /\ worms' = [m \in DOMAIN worms \cup {n} |->
                             IF m = n THEN number ELSE worms[m]]
         /\ \/ \E f \in Field \ Eaten : log' = Append(log, Pixel(number, f))
            \/ log' = Append(log, PlayerEliminated(number))

Join ==
  /\ Running
  /\ \E n \in Name \ DOMAIN worms :
       worms' = [m \in DOMAIN worms \cup {n} |-> IF m = n THEN 0 ELSE worms[m]]
  /\ UNCHANGED log

Eats(n) ==
  /\ \E f \in Field \ Eaten : log' = Append(log, Pixel(worms[n], f))
  /\ UNCHANGED worms

Leaves(n) == worms' = [m \in DOMAIN worms \ {n} |-> worms[m]]

\* The last elimination ends the game in the same breath.
Eliminated(n) ==
  /\ IF Cardinality(DOMAIN worms) = 2
     THEN log' = log \o <<PlayerEliminated(worms[n]), GameOver>>
     ELSE log' = Append(log, PlayerEliminated(worms[n]))
  /\ Leaves(n)

Move == Running /\ \E n \in DOMAIN worms : Eats(n) \/ Eliminated(n)

\* A frame simulated after the last: the survivor moves on, or loses too.
Trail ==
  /\ Lags /\ Over
  /\ \E n \in DOMAIN worms : Eats(n) \/ Eliminated(n)

Close ==
  /\ Over
  /\ log' = << >> /\ worms' = [n \in {} |-> 0]

Next == Start \/ Place \/ Join \/ Move \/ Trail \/ Close

Spec == Init /\ [][Next]_<<log, worms>>
=============================================================================
