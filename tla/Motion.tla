------------------------------- MODULE Motion -------------------------------
(***************************************************************************)
(* The numbers of a game: the generator that names it and places its       *)
(* worms, and the heading of each worm as it turns left and right with the *)
(* remainder of C, which is negative for a negative number.                *)
(*                                                                         *)
(* A worm is made when its player first turns, in the lobby or while a     *)
(* game runs; startGame draws for one worm after the other, in the order   *)
(* of the names; every frame turns all of them, and some leave.            *)
(*                                                                         *)
(* Abstracted: which worms leave (the Server module has that), and where   *)
(* they are after the first frame: the sine and cosine of a heading are    *)
(* taken for what they are.                                                *)
(***************************************************************************)
EXTENDS Integers, FiniteSets, Functions

CONSTANTS
  Name,           \* player names; < is the order of cmpInfo
  Modulus,        \* 4294967291
  Multiplier,     \* 279410273
  Seed,           \* the seeds -s or the clock may set
  Speed,          \* the turning speeds -t may set
  width, height   \* of the board

ASSUME NameAssumption == Name \subseteq Nat
ASSUME SpeedAssumption == Speed \subseteq 1..90
ASSUME BoardAssumption == width \in Nat \ {0} /\ height \in Nat \ {0}
ASSUME GeneratorAssumption ==
  /\ Modulus \in Nat \ {0} /\ Multiplier \in Nat
  /\ Seed \subseteq Nat
\* The modulus is prime and does not divide the multiplier.
ASSUME MultiplierAssumption ==
  \A v \in Seed \cup 0..(Modulus - 1) :
    v % Modulus # 0 => (v * Multiplier) % Modulus # 0

VARIABLES
  seed,          \* what -s or the clock set
  turningSpeed,  \* params.turningSpeed
  rng,           \* params.rng
  loop,          \* "lobby", "place" or "game"
  gameId,        \* game.gameId of the last game, 0 before the first
  todo,          \* worms startGame has not placed yet
  playerPos,     \* name -> [direction, turnDirection, x, y], x and y the field
                 \* it was placed on
  heading        \* the angle each worm should have, from 0 to 359

params == <<seed, turningSpeed>>
vars   == <<params, rng, loop, gameId, todo, playerPos, heading>>

Init ==
  /\ seed \in Seed /\ turningSpeed \in Speed
  /\ rng = seed
  /\ loop = "lobby" /\ gameId = 0 /\ todo = {}
  /\ playerPos = [n \in {} |-> 0] /\ heading = [n \in {} |-> 0]

-----------------------------------------------------------------------------
(* getNextRand returns the state of the generator and moves it on.         *)

\* Slips: the state is squared instead; the modulus is one less.
NextRand_Square(r) == (r * r) % Modulus
NextRand_Less(r)   == (r * Multiplier) % (Modulus - 1)

NextRand(r) == (r * Multiplier) % Modulus

-----------------------------------------------------------------------------
\* The remainder of C takes the sign of the dividend.
Rem(a, b) == IF a >= 0 THEN a % b ELSE -((-a) % b)

Right(d) == Rem(d + turningSpeed, 360)

\* Slips: the correction is left out; the turn stops at 0.
Left_Negative(d) == Rem(d - turningSpeed, 360)
Left_Stops(d)    == IF d < turningSpeed THEN 0 ELSE d - turningSpeed

Left(d) ==
  LET r == Rem(d - turningSpeed, 360) IN IF r < 360 THEN r + 360 ELSE r

Turned(worm) ==
  CASE worm.turnDirection = 0 -> worm
    [] worm.turnDirection = 1 -> [worm EXCEPT !.direction = Right(@)]
    [] worm.turnDirection = 2 -> [worm EXCEPT !.direction = Left(@)]

\* Where a turn should lead.
TurnedHeading(h, turn) ==
  CASE turn = 0 -> h
    [] turn = 1 -> (h + turningSpeed) % 360
    [] turn = 2 -> (h - turningSpeed) % 360

-----------------------------------------------------------------------------
\* PlayerPos{}
NewWorm == [direction |-> 0, turnDirection |-> 0, x |-> 0, y |-> 0]

\* updatePlayerState, between two frames or in the lobby
UpdatePlayerState(n, turn) ==
  /\ loop # "place"
  /\ LET new  == n \notin DOMAIN playerPos
         worm == IF new THEN NewWorm ELSE playerPos[n]
         all  == DOMAIN playerPos \cup {n}
     IN  /\ playerPos' = [m \in all |->
              IF m = n THEN [worm EXCEPT !.turnDirection = turn] ELSE playerPos[m]]
         /\ heading' = [m \in all |-> IF m = n /\ new THEN 0 ELSE heading[m]]
  /\ UNCHANGED <<params, rng, loop, gameId, todo>>

\* startGame: the identifier first
StartGame ==
  /\ loop = "lobby" /\ Cardinality(DOMAIN playerPos) >= 2
  /\ gameId' = rng /\ rng' = NextRand(rng)
  /\ todo' = DOMAIN playerPos
  /\ loop' = "place"
  /\ UNCHANGED <<params, playerPos, heading>>

\* then three numbers for each worm.
PlaceWorm(n) ==
  /\ loop = "place" /\ n \in todo /\ \A m \in todo : n <= m
  /\ LET second == NextRand(rng)
         third  == NextRand(second)
     IN  /\ playerPos' = [playerPos EXCEPT
              ![n] = [@ EXCEPT !.x = rng % width, !.y = second % height,
                               !.direction = third % 360]]
         /\ heading' = [heading EXCEPT ![n] = third % 360]
         /\ rng' = NextRand(third)
  /\ todo' = todo \ {n}
  /\ loop' = IF todo' = {} THEN "game" ELSE "place"
  /\ UNCHANGED <<params, gameId>>

\* updateGame: the worms turn, and those in out are eliminated.  With fewer
\* than two left main goes on to the next lobby.
UpdateGame(out) ==
  /\ loop = "game" /\ out # DOMAIN playerPos
  /\ LET left == IF Cardinality(DOMAIN playerPos \ out) < 2 THEN {}
                 ELSE DOMAIN playerPos \ out
     IN  /\ playerPos' = [n \in left |-> Turned(playerPos[n])]
         /\ heading' = [n \in left |->
              TurnedHeading(heading[n], playerPos[n].turnDirection)]
         /\ loop' = IF left = {} THEN "lobby" ELSE "game"
  /\ UNCHANGED <<params, rng, gameId, todo>>

Next ==
  \/ \E n \in Name, turn \in 0..2 : UpdatePlayerState(n, turn)
  \/ StartGame
  \/ \E n \in Name : PlaceWorm(n)
  \/ \E out \in SUBSET DOMAIN playerPos : UpdateGame(out)

Spec == Init /\ [][Next]_vars

-----------------------------------------------------------------------------
(* Properties *)

Worm == [direction : 0..719, turnDirection : 0..2,
         x : 0..(width - 1), y : 0..(height - 1)]

\* In particular a heading stays below two turns and never gets negative.
TypeOK ==
  /\ seed \in Seed /\ turningSpeed \in Speed
  /\ rng \in Seed \cup 0..(Modulus - 1)
  /\ gameId \in {0} \cup Seed \cup 0..(Modulus - 1)
  /\ loop \in {"lobby", "place", "game"}
  /\ DOMAIN playerPos \subseteq Name /\ todo \subseteq DOMAIN playerPos
  /\ loop # "place" => todo = {}
  /\ playerPos \in [DOMAIN playerPos -> Worm]
  /\ heading \in [DOMAIN playerPos -> 0..359]

(***************************************************************************)
(* HeadingTrue: whatever turns a worm makes, to the right within one turn  *)
(* and to the left within the next, its direction is the angle it should   *)
(* have, also if it was made in the middle of a game.                      *)
(* (server.cpp:408-417, 323, 513)                                          *)
(***************************************************************************)
HeadingTrue == \A n \in DOMAIN playerPos : playerPos[n].direction % 360 = heading[n]

(***************************************************************************)
(* GamesNamed: a game has another identifier than the 0 a client starts    *)
(* with, unless the server was given a seed that the modulus divides: then *)
(* the generator stays at 0. (server.cpp:117-122, 501; client.cpp:478)     *)
(***************************************************************************)
GamesNamed == seed % Modulus # 0 /\ loop # "lobby" => gameId # 0

(***************************************************************************)
(* NewGameNewName: a game never has the identifier of the game before, on  *)
(* which its clients rely to forget that, but for such a seed.             *)
(* (server.cpp:117-122, 501; client.cpp:477-488)                           *)
(***************************************************************************)
NewGameNewName ==
  [][seed % Modulus # 0 /\ loop = "lobby" /\ loop' = "place" => gameId' # gameId]_vars
=============================================================================
