---------------------------- MODULE MotionProofs ----------------------------
(***************************************************************************)
(* Headings and identifiers for any players, turning speed from 1 to 90,   *)
(* board, seeds and generator whose multiplier never leads to a multiple   *)
(* of the modulus; and that the generator of the server is such a one.     *)
(***************************************************************************)
EXTENDS Motion, Sequences, FiniteSetTheorems, WellFoundedInduction, TLAPS

LEMMA Turning ==
  ASSUME turningSpeed \in 1..90, NEW d \in 0..719
  PROVE  /\ Right(d) \in 0..359 /\ Right(d) % 360 = ((d % 360) + turningSpeed) % 360
         /\ Left(d) \in 270..719 /\ Left(d) % 360 = ((d % 360) - turningSpeed) % 360
<1> DEFINE LeftTrue == /\ Left(d) \in 270..719
                       /\ Left(d) % 360 = ((d % 360) - turningSpeed) % 360
<1>1. Right(d) \in 0..359 /\ Right(d) % 360 = ((d % 360) + turningSpeed) % 360
  BY DEF Right, Rem
<1>2. CASE d >= turningSpeed
  <2>1. Left(d) = ((d - turningSpeed) % 360) + 360
    BY <1>2 DEF Left, Rem
  <2>2. LeftTrue
    BY <1>2, <2>1
  <2> QED BY <1>1, <2>2
<1>3. CASE d < turningSpeed
  <2>1. Left(d) = d - turningSpeed + 360
    BY <1>3 DEF Left, Rem
  <2>2. LeftTrue
    BY <1>3, <2>1
  <2> QED BY <1>1, <2>2
<1> QED BY <1>2, <1>3

LEMMA Angle ==
  \A h \in 0..359, t \in 1..90 : /\ (h + t) % 360 \in 0..359
                                 /\ (h - t) % 360 \in 0..359
OBVIOUS

\* A state of the generator, and one it reaches from a good seed.
State == Seed \cup 0..(Modulus - 1)
Good(r) == seed % Modulus # 0 => r % Modulus # 0

LEMMA NextState ==
  ASSUME NEW r \in State
  PROVE  NextRand(r) \in State /\ NextRand(r) \in Nat /\ (Good(r) => Good(NextRand(r)))
<1> DEFINE s == r * Multiplier
<1>1. Modulus \in Nat \ {0} /\ r \in Nat /\ Multiplier \in Nat
  BY GeneratorAssumption DEF State
<1>2. s \in Nat
  BY <1>1
<1>3. r % Modulus # 0 => s % Modulus # 0
  BY MultiplierAssumption DEF State
<1> HIDE DEF s
<1>4. s % Modulus \in 0..(Modulus - 1)
  BY <1>1, <1>2
<1>5. \A t \in 0..(Modulus - 1) : t % Modulus = t
  BY <1>1
<1>6. NextRand(r) = s % Modulus
  BY DEF NextRand, s
<1> QED BY <1>3, <1>4, <1>5, <1>6 DEF State, Good

-----------------------------------------------------------------------------
(* The invariant *)

MotionInv == TypeOK /\ HeadingTrue /\ GamesNamed /\ Good(rng)

LEMMA MotionInit == Init => MotionInv
<1> SUFFICES ASSUME Init PROVE MotionInv
  OBVIOUS
<1>1. TypeOK
  BY DEF Init, TypeOK
<1>2. HeadingTrue /\ GamesNamed /\ Good(rng)
  BY DEF Init, HeadingTrue, GamesNamed, Good
<1> QED BY <1>1, <1>2 DEF MotionInv

\* A step that leaves the generator alone.
LEMMA SameNumbers ==
  ASSUME MotionInv, UNCHANGED <<params, rng, gameId>>, loop' # "lobby" => loop # "lobby"
  PROVE  GamesNamed' /\ Good(rng)'
BY DEF MotionInv, GamesNamed, Good, params

LEMMA UpdatePlayerStep ==
  ASSUME MotionInv, NEW n \in Name, NEW turn \in 0..2, UpdatePlayerState(n, turn)
  PROVE  MotionInv'
<1> DEFINE all == DOMAIN playerPos \cup {n}
           worm == IF n \notin DOMAIN playerPos THEN NewWorm ELSE playerPos[n]
<1>1. /\ playerPos' = [m \in all |->
             IF m = n THEN [worm EXCEPT !.turnDirection = turn] ELSE playerPos[m]]
      /\ heading' = [m \in all |->
             IF m = n /\ n \notin DOMAIN playerPos THEN 0 ELSE heading[m]]
      /\ UNCHANGED <<params, rng, loop, gameId, todo>>
  BY DEF UpdatePlayerState
<1>2. worm \in Worm
  BY BoardAssumption DEF MotionInv, TypeOK, NewWorm, Worm
<1>3. [worm EXCEPT !.turnDirection = turn] \in Worm
  BY <1>2 DEF Worm
<1>4. worm.direction % 360 = IF n \notin DOMAIN playerPos THEN 0 ELSE heading[n]
  BY DEF MotionInv, HeadingTrue, NewWorm
<1>5. [worm EXCEPT !.turnDirection = turn].direction = worm.direction
  BY <1>2 DEF Worm
<1> HIDE DEF worm
<1>6. TypeOK'
  <2>1. DOMAIN playerPos' = all /\ all \subseteq Name /\ todo' \subseteq all
    BY <1>1 DEF MotionInv, TypeOK
  <2>2. playerPos' \in [all -> Worm]
    BY <1>1, <1>3 DEF MotionInv, TypeOK
  <2>3. heading' \in [all -> 0..359]
    BY <1>1 DEF MotionInv, TypeOK
  <2> QED BY <1>1, <2>1, <2>2, <2>3 DEF MotionInv, TypeOK, params, Worm
<1>7. HeadingTrue'
  BY <1>1, <1>4, <1>5 DEF MotionInv, HeadingTrue
<1> QED BY <1>1, <1>6, <1>7, SameNumbers DEF MotionInv

LEMMA StartStep ==
  ASSUME MotionInv, StartGame
  PROVE  MotionInv'
<1>1. /\ gameId' = rng /\ rng' = NextRand(rng) /\ todo' = DOMAIN playerPos
      /\ loop' = "place" /\ UNCHANGED <<params, playerPos, heading>>
  BY DEF StartGame
<1>2. rng \in State /\ Good(rng)
  BY DEF MotionInv, TypeOK, State
<1>3. rng' \in State /\ Good(rng)'
  BY <1>1, <1>2, NextState DEF Good, params
<1>4. TypeOK'
  BY <1>1, <1>2, <1>3 DEF MotionInv, TypeOK, State, params, Worm
<1>5. HeadingTrue'
  BY <1>1 DEF MotionInv, HeadingTrue
<1>6. GamesNamed'
  <2>1. 0 % Modulus = 0
    BY GeneratorAssumption
  <2> QED BY <1>1, <1>2, <2>1 DEF GamesNamed, Good, params
<1> QED BY <1>3, <1>4, <1>5, <1>6 DEF MotionInv

LEMMA PlaceStep ==
  ASSUME MotionInv, NEW n \in Name, PlaceWorm(n)
  PROVE  MotionInv'
<1> DEFINE second == NextRand(rng)
           third  == NextRand(second)
<1>1. /\ n \in todo /\ todo' = todo \ {n} /\ rng' = NextRand(third)
      /\ playerPos' = [playerPos EXCEPT
            ![n] = [@ EXCEPT !.x = rng % width, !.y = second % height,
                             !.direction = third % 360]]
      /\ heading' = [heading EXCEPT ![n] = third % 360]
      /\ loop = "place" /\ loop' \in {"game", "place"} /\ UNCHANGED <<params, gameId>>
  BY DEF PlaceWorm
<1>2. rng \in State /\ Good(rng) /\ rng \in Nat
  BY GeneratorAssumption DEF MotionInv, TypeOK, State
<1>3. second \in State /\ Good(second) /\ second \in Nat
  BY <1>2, NextState
<1>4. third \in State /\ Good(third) /\ third \in Nat
  BY <1>3, NextState
<1> HIDE DEF second, third
<1>5. rng' \in State /\ Good(rng)'
  BY <1>1, <1>4, NextState DEF Good, params
<1>6. rng % width \in 0..(width - 1)
  BY <1>2, BoardAssumption
<1>7. second % height \in 0..(height - 1)
  BY <1>3, BoardAssumption
<1>8. third % 360 \in 0..359 /\ (third % 360) % 360 = third % 360
  BY <1>4
<1>0. /\ playerPos' \in [DOMAIN playerPos -> Worm]
      /\ \A m \in DOMAIN playerPos :
            playerPos'[m].direction = IF m = n THEN third % 360 ELSE playerPos[m].direction
  <2> DEFINE x == rng % width
             y == second % height
             d == third % 360
  <2>1. playerPos \in [DOMAIN playerPos -> Worm] /\ n \in DOMAIN playerPos
    BY <1>1 DEF MotionInv, TypeOK
  <2>2. x \in 0..(width - 1) /\ y \in 0..(height - 1) /\ d \in 0..719
    BY <1>6, <1>7, <1>8
  <2> DEFINE worm == [playerPos[n] EXCEPT !.x = x, !.y = y, !.direction = d]
  <2>3. playerPos' = [playerPos EXCEPT ![n] = worm]
    BY <1>1
  <2> HIDE DEF x, y, d
  <2>4. worm \in Worm /\ worm.direction = d
    <3>1. playerPos[n] \in Worm
      BY <2>1
    <3> QED BY <2>2, <3>1, ZenonT(60) DEF Worm
  <2> HIDE DEF worm
  <2>5. playerPos' \in [DOMAIN playerPos -> Worm]
    BY <2>1, <2>3, <2>4
  <2>6. \A m \in DOMAIN playerPos :
          playerPos'[m] = IF m = n THEN worm ELSE playerPos[m]
    BY <2>1, <2>3
  <2> QED BY <2>4, <2>5, <2>6 DEF d
<1>9. TypeOK'
  <2>3. playerPos' \in [DOMAIN playerPos -> Worm] /\ DOMAIN playerPos' = DOMAIN playerPos
    BY <1>0
  <2>4. heading' \in [DOMAIN playerPos -> 0..359]
    BY <1>1, <1>8 DEF MotionInv, TypeOK
  <2>5. todo' \subseteq DOMAIN playerPos /\ (loop' # "place" => todo' = {})
    <3>1. loop' = IF todo' = {} THEN "game" ELSE "place"
      BY DEF PlaceWorm
    <3> QED BY <1>1, <3>1 DEF MotionInv, TypeOK
  <2> QED BY <1>1, <1>5, <2>3, <2>4, <2>5, ZenonT(30) DEF MotionInv, TypeOK, State, params, Worm
<1>10. HeadingTrue'
  <2>1. playerPos \in [DOMAIN playerPos -> Worm] /\ n \in DOMAIN playerPos
        /\ heading \in [DOMAIN playerPos -> 0..359]
    BY <1>1 DEF MotionInv, TypeOK
  <2> QED BY <1>0, <1>1, <1>8, <2>1 DEF MotionInv, HeadingTrue
<1>11. GamesNamed'
  BY <1>1 DEF MotionInv, GamesNamed, params
<1> QED BY <1>5, <1>9, <1>10, <1>11 DEF MotionInv

LEMMA UpdateStep ==
  ASSUME MotionInv, NEW out \in SUBSET DOMAIN playerPos, UpdateGame(out)
  PROVE  MotionInv'
<1> DEFINE left == IF Cardinality(DOMAIN playerPos \ out) < 2 THEN {}
                   ELSE DOMAIN playerPos \ out
<1>1. /\ playerPos' = [n \in left |-> Turned(playerPos[n])]
      /\ heading' = [n \in left |->
                       TurnedHeading(heading[n], playerPos[n].turnDirection)]
      /\ loop = "game" /\ loop' \in {"lobby", "game"}
      /\ UNCHANGED <<params, rng, gameId, todo>>
  BY DEF UpdateGame
<1>2. left \subseteq DOMAIN playerPos
  OBVIOUS
<1> HIDE DEF left
<1>3. turningSpeed \in 1..90
  BY SpeedAssumption DEF MotionInv, TypeOK
<1>4. ASSUME NEW n \in left
      PROVE  /\ Turned(playerPos[n]) \in Worm
             /\ TurnedHeading(heading[n], playerPos[n].turnDirection) \in 0..359
             /\ Turned(playerPos[n]).direction % 360
                  = TurnedHeading(heading[n], playerPos[n].turnDirection)
  <2>1. playerPos[n] \in Worm /\ heading[n] \in 0..359
        /\ playerPos[n].direction % 360 = heading[n]
    BY <1>2 DEF MotionInv, TypeOK, HeadingTrue
  <2>1a. /\ (heading[n] + turningSpeed) % 360 \in 0..359
        /\ (heading[n] - turningSpeed) % 360 \in 0..359
    BY <1>3, <2>1, Angle, ZenonT(30)
  <2> DEFINE d == playerPos[n].direction
  <2>2. d \in 0..719 /\ playerPos[n].turnDirection \in 0..2
    BY <2>1 DEF Worm
  <2>3. /\ Right(d) \in 0..359 /\ Right(d) % 360 = (heading[n] + turningSpeed) % 360
        /\ Left(d) \in 270..719 /\ Left(d) % 360 = (heading[n] - turningSpeed) % 360
    <3>1. d % 360 = heading[n]
      BY <2>1
    <3>2. d \in 0..719
      BY <2>2
    <3> HIDE DEF d
    <3>3. /\ Right(d) \in 0..359 /\ Right(d) % 360 = ((d % 360) + turningSpeed) % 360
          /\ Left(d) \in 270..719 /\ Left(d) % 360 = ((d % 360) - turningSpeed) % 360
      BY <1>3, <3>2, Turning, ZenonT(60)
    <3>4. /\ ((d % 360) + turningSpeed) % 360 = (heading[n] + turningSpeed) % 360
          /\ ((d % 360) - turningSpeed) % 360 = (heading[n] - turningSpeed) % 360
      BY <3>1, Zenon
    <3>5. Right(d) % 360 = (heading[n] + turningSpeed) % 360
      BY <3>3, <3>4, Zenon
    <3>6. Left(d) % 360 = (heading[n] - turningSpeed) % 360
      BY <3>3, <3>4, Zenon
    <3> QED BY <3>3, <3>5, <3>6, Zenon
  <2>4. CASE playerPos[n].turnDirection = 0
    <3>1. Turned(playerPos[n]) = playerPos[n]
      BY <2>4 DEF Turned
    <3>2. TurnedHeading(heading[n], playerPos[n].turnDirection) = heading[n]
      BY <2>4 DEF TurnedHeading
    <3> QED BY <2>1, <3>1, <3>2
  <2>5. CASE playerPos[n].turnDirection = 1
    <3>1. Turned(playerPos[n]) = [playerPos[n] EXCEPT !.direction = Right(d)]
      BY <2>5 DEF Turned
    <3>2. Right(d) \in 0..719
      BY <2>3
    <3>3. Turned(playerPos[n]) \in Worm /\ Turned(playerPos[n]).direction = Right(d)
      BY <2>1, <3>1, <3>2 DEF Worm
    <3>4. (heading[n] + turningSpeed) % 360 \in 0..359
      BY <2>1a, Zenon
    <3>5. TurnedHeading(heading[n], playerPos[n].turnDirection)
            = (heading[n] + turningSpeed) % 360
      BY <2>5 DEF TurnedHeading
    <3> QED BY <2>3, <3>3, <3>4, <3>5
  <2>6. CASE playerPos[n].turnDirection = 2
    <3>1. Turned(playerPos[n]) = [playerPos[n] EXCEPT !.direction = Left(d)]
      BY <2>6 DEF Turned
    <3>2. Left(d) \in 0..719
      BY <2>3
    <3>3. Turned(playerPos[n]) \in Worm /\ Turned(playerPos[n]).direction = Left(d)
      BY <2>1, <3>1, <3>2 DEF Worm
    <3>4. (heading[n] - turningSpeed) % 360 \in 0..359
      BY <2>1a, Zenon
    <3>5. TurnedHeading(heading[n], playerPos[n].turnDirection)
            = (heading[n] - turningSpeed) % 360
      BY <2>6 DEF TurnedHeading
    <3> QED BY <2>3, <3>3, <3>4, <3>5
  <2> QED BY <2>2, <2>4, <2>5, <2>6
<1>5. HeadingTrue'
  BY <1>1, <1>4 DEF HeadingTrue
<1>6. TypeOK'
  <2>1. todo = {}
    BY <1>1 DEF MotionInv, TypeOK
  <2>2. DOMAIN playerPos' = left /\ left \subseteq Name
    BY <1>1, <1>2 DEF MotionInv, TypeOK
  <2>3. playerPos' \in [left -> Worm] /\ heading' \in [left -> 0..359]
    BY <1>1, <1>4
  <2> QED BY <1>1, <2>1, <2>2, <2>3 DEF MotionInv, TypeOK, params, Worm
<1> QED BY <1>1, <1>5, <1>6, SameNumbers DEF MotionInv

LEMMA MotionStep == MotionInv /\ [Next]_vars => MotionInv'
<1> SUFFICES ASSUME MotionInv, [Next]_vars PROVE MotionInv'
  OBVIOUS
<1>1. ASSUME NEW n \in Name, NEW turn \in 0..2, UpdatePlayerState(n, turn)
      PROVE  MotionInv'
  BY <1>1, UpdatePlayerStep
<1>2. CASE StartGame
  BY <1>2, StartStep
<1>3. ASSUME NEW n \in Name, PlaceWorm(n) PROVE MotionInv'
  BY <1>3, PlaceStep
<1>4. ASSUME NEW out \in SUBSET DOMAIN playerPos, UpdateGame(out)
      PROVE  MotionInv'
  BY <1>4, UpdateStep
<1>5. CASE UNCHANGED vars
  BY <1>5 DEF MotionInv, TypeOK, HeadingTrue, GamesNamed, Good, vars, params, Worm
<1> QED BY <1>1, <1>2, <1>3, <1>4, <1>5 DEF Next

(***************************************************************************)
(* For every turning speed from 1 to 90 the direction of a worm is the     *)
(* angle its turns should lead to, for as long as it lives.                *)
(* (server.cpp:408-417)                                                    *)
(***************************************************************************)
THEOREM HeadingsAreTrue == Spec => []HeadingTrue
<1>1. MotionInv => HeadingTrue
  BY DEF MotionInv
<1> QED BY <1>1, MotionInit, MotionStep, PTL DEF Spec

(***************************************************************************)
(* Every variable keeps its type: a direction stays from 0 to 719, and a   *)
(* worm is placed on the board. (server.cpp:408-417, 501-513)              *)
(***************************************************************************)
THEOREM MotionTypes == Spec => []TypeOK
<1>1. MotionInv => TypeOK
  BY DEF MotionInv
<1> QED BY <1>1, MotionInit, MotionStep, PTL DEF Spec

(***************************************************************************)
(* No game is called 0 unless the seed is a multiple of the modulus, for   *)
(* any players and number of games. (server.cpp:117-122, 501)              *)
(***************************************************************************)
THEOREM GamesAreNamed == Spec => []GamesNamed
<1>1. MotionInv => GamesNamed
  BY DEF MotionInv
<1> QED BY <1>1, MotionInit, MotionStep, PTL DEF Spec

-----------------------------------------------------------------------------
(* The name of the next game                                               *)

\* after[v][k] is the state of the generator k numbers after v.
Iterates(after) ==
  \A v \in Nat : /\ after[v][0] = v
                 /\ \A k \in Nat : after[v][k + 1] = NextRand(after[v][k])

\* It does not come back to v with the numbers one game takes.
NoReturn(after) ==
  \A v \in 1..(Modulus - 1), m \in 2..Cardinality(Name) : after[v][1 + 3 * m] # v

\* No game has begun; the worms of one are being placed; they are.
Nameless == loop = "lobby" /\ gameId = 0

Placing(after) ==
  /\ loop = "place" /\ Cardinality(DOMAIN playerPos) >= 2
  /\ rng = after[gameId][1 + 3 * (Cardinality(DOMAIN playerPos) - Cardinality(todo))]

Placed(after) ==
  /\ loop \in {"game", "lobby"} /\ rng \in 0..(Modulus - 1)
  /\ \E m \in 2..Cardinality(Name) : rng = after[gameId][1 + 3 * m]

Distance(after) ==
  seed % Modulus # 0 =>
    \/ Nameless
    \/ gameId \in Nat /\ gameId % Modulus # 0 /\ (Placing(after) \/ Placed(after))

LEMMA NextRandBelow == \A r \in State : NextRand(r) \in 0..(Modulus - 1)
<1> SUFFICES ASSUME NEW r \in State PROVE NextRand(r) \in 0..(Modulus - 1)
  OBVIOUS
<1> DEFINE s == r * Multiplier
<1>1. s \in Nat /\ Modulus \in Nat \ {0}
  BY GeneratorAssumption DEF State
<1> HIDE DEF s
<1>2. s % Modulus \in 0..(Modulus - 1)
  BY <1>1
<1> QED BY <1>2 DEF NextRand, s

LEMMA StartDistance ==
  ASSUME NEW after, Iterates(after), NoReturn(after), IsFiniteSet(Name),
         MotionInv, Distance(after), StartGame
  PROVE  /\ Distance(after)'
         /\ seed % Modulus # 0 => gameId' # gameId
<1>1. /\ gameId' = rng /\ rng' = NextRand(rng) /\ todo' = DOMAIN playerPos
      /\ loop = "lobby" /\ loop' = "place" /\ playerPos' = playerPos /\ seed' = seed
      /\ Cardinality(DOMAIN playerPos) >= 2
  BY DEF StartGame, params
<1> SUFFICES ASSUME seed % Modulus # 0
             PROVE  Distance(after)' /\ gameId' # gameId
  BY <1>1 DEF Distance
<1>2. rng \in Nat /\ rng % Modulus # 0
  BY GeneratorAssumption DEF MotionInv, TypeOK, Good
<1>3. after[rng][1] = NextRand(rng)
  BY <1>2 DEF Iterates
<1>4. DOMAIN playerPos \subseteq Name
  BY DEF MotionInv, TypeOK
<1> DEFINE c == Cardinality(DOMAIN playerPos)
<1>5. c \in Nat
  BY <1>4, FS_Subset, FS_CardinalityType
<1>6. Distance(after)'
  <2>1. c' = c /\ Cardinality(todo)' = c
    BY <1>1
  <2> HIDE DEF c
  <2>2. 1 + 3 * (c - c) = 1
    BY <1>5
  <2>3. Placing(after)'
    <3>1. Cardinality(DOMAIN playerPos)' = c /\ c >= 2
      BY <1>1, <2>1 DEF c
    <3> QED BY <1>1, <1>3, <2>1, <2>2, <3>1 DEF Placing
  <2> QED BY <1>1, <1>2, <2>3 DEF Distance
<1>7. gameId' # gameId
  <2>1. Modulus \in Nat \ {0} /\ 0 % Modulus = 0
    BY GeneratorAssumption
  <2>2. CASE Nameless
    BY <1>1, <1>2, <2>1, <2>2 DEF Nameless
  <2>3. CASE ~Nameless
    <3>1. gameId \in Nat /\ gameId % Modulus # 0 /\ Placed(after)
      BY <1>1, <2>3 DEF Distance, Placing
    <3>2. PICK m \in 2..Cardinality(Name) : rng = after[gameId][1 + 3 * m]
      BY <3>1 DEF Placed
    <3>3. CASE gameId < Modulus
      <4>1. gameId \in 1..(Modulus - 1)
        BY <2>1, <3>1, <3>3
      <4> QED BY <1>1, <3>2, <4>1 DEF NoReturn
    <3>4. CASE gameId >= Modulus
      BY <1>1, <2>1, <3>1, <3>4 DEF Placed
    <3> QED BY <2>1, <3>1, <3>3, <3>4
  <2> QED BY <2>2, <2>3
<1> QED BY <1>6, <1>7

LEMMA PlaceDistance ==
  ASSUME NEW after, Iterates(after), IsFiniteSet(Name),
         MotionInv, Distance(after), NEW n \in Name, PlaceWorm(n)
  PROVE  Distance(after)'
<1> DEFINE second == NextRand(rng)
           third  == NextRand(second)
<1>1. /\ n \in todo /\ todo' = todo \ {n} /\ rng' = NextRand(third)
      /\ loop = "place" /\ loop' = (IF todo' = {} THEN "game" ELSE "place")
      /\ gameId' = gameId /\ seed' = seed
  BY DEF PlaceWorm, params
<1>2. DOMAIN playerPos' = DOMAIN playerPos
  BY DEF PlaceWorm
<1> SUFFICES ASSUME seed % Modulus # 0 PROVE Distance(after)'
  BY <1>1 DEF Distance
<1>3. gameId \in Nat /\ gameId % Modulus # 0 /\ Placing(after)
  BY <1>1 DEF Distance, Placed, Nameless
<1> DEFINE c == Cardinality(DOMAIN playerPos)
           t == Cardinality(todo)
<1>4. /\ c \in Nat /\ c <= Cardinality(Name) /\ Cardinality(Name) \in Nat
      /\ t \in Nat /\ t <= c /\ Cardinality(todo)' = t - 1
      /\ t - 1 \in Nat /\ (todo' = {} => t - 1 = 0)
  <2>1. DOMAIN playerPos \subseteq Name /\ todo \subseteq DOMAIN playerPos
    BY DEF MotionInv, TypeOK
  <2>2. /\ IsFiniteSet(DOMAIN playerPos) /\ c <= Cardinality(Name)
        /\ c \in Nat /\ Cardinality(Name) \in Nat
    BY <2>1, FS_Subset, FS_CardinalityType
  <2>3. IsFiniteSet(todo) /\ t <= c /\ t \in Nat
    BY <2>1, <2>2, FS_Subset, FS_CardinalityType
  <2>4. IsFiniteSet(todo') /\ Cardinality(todo') = t - 1 /\ Cardinality(todo') \in Nat
    BY <1>1, <2>3, FS_RemoveElement, FS_CardinalityType
  <2>5. todo' = {} => Cardinality(todo') = 0
    BY FS_EmptySet
  <2> QED BY <2>2, <2>3, <2>4, <2>5
<1>5. Cardinality(DOMAIN playerPos)' = c
  BY <1>2
<1>6. c >= 2 /\ rng = after[gameId][1 + 3 * (c - t)]
  BY <1>3 DEF Placing
<1> HIDE DEF c, t, second, third
<1>7. rng' = after[gameId][1 + 3 * (c - (t - 1))]
  <2> DEFINE k == 1 + 3 * (c - t)
  <2>1. k \in Nat /\ (k + 1) + 1 \in Nat /\ 1 + 3 * (c - (t - 1)) = ((k + 1) + 1) + 1
    BY <1>4
  <2> HIDE DEF k
  <2>2. second = after[gameId][k + 1]
    BY <1>3, <1>6, <2>1 DEF Iterates, second, k
  <2>3. third = after[gameId][(k + 1) + 1]
    BY <1>3, <2>1, <2>2 DEF Iterates, third
  <2>4. rng' = after[gameId][((k + 1) + 1) + 1]
    BY <1>1, <1>3, <2>1, <2>3 DEF Iterates
  <2> QED BY <2>1, <2>4
<1>8. CASE todo' # {}
  <2>1. Placing(after)'
    BY <1>1, <1>4, <1>5, <1>6, <1>7, <1>8 DEF Placing
  <2> QED BY <1>1, <1>3, <2>1 DEF Distance
<1>9. CASE todo' = {}
  <2>1. rng' = after[gameId'][1 + 3 * c] /\ c \in 2..Cardinality(Name)
    BY <1>1, <1>4, <1>6, <1>7, <1>9
  <2>2. rng' \in 0..(Modulus - 1)
    <3>1. rng \in State
      BY DEF MotionInv, TypeOK, State
    <3>2. second \in State
      BY <3>1, NextState DEF second
    <3>3. third \in State
      BY <3>2, NextState DEF third
    <3> QED BY <1>1, <3>3, NextRandBelow
  <2>3. Placed(after)'
    BY <1>1, <1>9, <2>1, <2>2 DEF Placed
  <2> QED BY <1>1, <1>3, <2>3 DEF Distance
<1> QED BY <1>8, <1>9

LEMMA OtherDistance ==
  ASSUME NEW after, Distance(after),
         \/ \E n \in Name, turn \in 0..2 : UpdatePlayerState(n, turn)
         \/ \E out \in SUBSET DOMAIN playerPos : UpdateGame(out)
         \/ UNCHANGED vars
  PROVE  /\ Distance(after)'
         /\ ~ (loop = "lobby" /\ loop' = "place")
<1>1. CASE UNCHANGED vars
  BY <1>1 DEF Distance, Nameless, Placing, Placed, vars, params
<1>2. CASE \E n \in Name, turn \in 0..2 : UpdatePlayerState(n, turn)
  BY <1>2 DEF UpdatePlayerState, Distance, Nameless, Placing, Placed, params
<1>3. CASE \E out \in SUBSET DOMAIN playerPos : UpdateGame(out)
  BY <1>3 DEF UpdateGame, Distance, Nameless, Placing, Placed, params
<1> QED BY <1>1, <1>2, <1>3

(***************************************************************************)
(* A game never has the identifier of the game before it, for any players  *)
(* and number of games, if the generator does not come back to a number    *)
(* after as many more as a game takes: one for its identifier and three    *)
(* for each worm. (server.cpp:117-122, 501-513; client.cpp:477-488)        *)
(***************************************************************************)
THEOREM GamesAreRenamed ==
  ASSUME NEW after, Iterates(after), NoReturn(after), IsFiniteSet(Name)
  PROVE  Spec => NewGameNewName
<1> DEFINE Renamed ==
      seed % Modulus # 0 /\ loop = "lobby" /\ loop' = "place" => gameId' # gameId
<1>1. Init => Distance(after)
  BY DEF Init, Distance, Nameless
<1>2. ASSUME MotionInv, Distance(after), [Next]_vars
      PROVE  Distance(after)' /\ Renamed
  <2>1. CASE StartGame
    BY <1>2, <2>1, StartDistance
  <2>2. ASSUME NEW n \in Name, PlaceWorm(n)
        PROVE  Distance(after)' /\ Renamed
    <3>1. loop = "place"
      BY <2>2 DEF PlaceWorm
    <3> QED BY <1>2, <2>2, <3>1, PlaceDistance
  <2>3. CASE \/ \E n \in Name, turn \in 0..2 : UpdatePlayerState(n, turn)
             \/ \E out \in SUBSET DOMAIN playerPos : UpdateGame(out)
             \/ UNCHANGED vars
    BY <1>2, <2>3, OtherDistance
  <2> QED BY <1>2, <2>1, <2>2, <2>3 DEF Next
<1> QED BY <1>1, <1>2, MotionInit, MotionStep, PTL DEF Spec, NewGameNewName

-----------------------------------------------------------------------------
(***************************************************************************)
(* The multiplier of getNextRand has an inverse modulo its modulus: the    *)
(* generator of the server is one MultiplierAssumption asks for, for every *)
(* seed. (server.cpp:120)                                                  *)
(***************************************************************************)
THEOREM SourceGenerator ==
  ASSUME NEW v \in Nat, v % 4294967291 # 0
  PROVE  (v * 279410273) % 4294967291 # 0
<1> SUFFICES ASSUME (v * 279410273) % 4294967291 = 0 PROVE FALSE
  OBVIOUS
<1> DEFINE q == (v * 279410273) \div 4294967291
<1>1. q \in Int /\ v * 279410273 = q * 4294967291
  OBVIOUS
<1> HIDE DEF q
<1>2. v = (3236736190 * q - 210566759 * v) * 4294967291
  BY <1>1
<1>3. \A k \in Int : (k * 4294967291) % 4294967291 = 0
  OBVIOUS
<1> QED BY <1>1, <1>2, <1>3

(***************************************************************************)
(* That it does not return within a game of up to 25 worms, the most a     *)
(* server has, is a matter of numbers: what the state is multiplied by     *)
(* after 1 + 3 * m numbers, and the inverse of that less 1.                *)
(***************************************************************************)
ServerModulus    == 4294967291
ServerMultiplier == 279410273

Power ==
  <<1650159168, 2621526963, 593058523, 4057082436, 3631192383, 100827587,
    525098219, 2949312434, 715247990, 1749240231, 1210268673, 2690747456,
    2443060867, 3674213594, 4218235640, 935065527, 153555871, 447587602,
    667686008, 984830244, 1774367735, 2256063773, 3745564170, 2703322549,
    1635975486>>

Inverted ==
  <<0, 4056321881, 3273777641, 3485603745, 1352323658, 672606064,
    2574605221, 1504237738, 3129993935, 1441447883, 3111240390, 550254593,
    127825360, 3068713652, 1349741237, 2797472114, 1717687385, 1373110101,
    1838680022, 211902861, 4072123806, 2782352042, 3460238645, 3973934554,
    1044474064>>

LEMMA PowersOfGames == \A m \in 1..25 : Power[m] \in Nat
BY SMTT(60) DEF Power

LEMMA FirstRow ==
  (((((279410273 * 279410273) % 4294967291) * 279410273) % 4294967291)
     * 279410273) % 4294967291 = Power[1]
BY SMTT(60) DEF Power

LEMMA PowerRows ==
  \A m \in 1..24 :
    (((((Power[m] * 279410273) % 4294967291) * 279410273) % 4294967291)
       * 279410273) % 4294967291 = Power[m + 1]
BY SMTT(60) DEF Power

LEMMA InvertedRows ==
  \A m \in 2..25 : /\ Power[m] - 1 \in Nat /\ Inverted[m] \in Nat
                   /\ ((Power[m] - 1) * Inverted[m]) % 4294967291 = 1
BY SMTT(60) DEF Power, Inverted

LEMMA Remainders ==
  /\ \A x, z \in Int : (x + z * 4294967291) % 4294967291 = x % 4294967291
  /\ \A x \in Int : /\ x \div 4294967291 \in Int /\ x % 4294967291 \in Nat
                    /\ x = (x \div 4294967291) * 4294967291 + (x % 4294967291)
BY SMT

\* The remainder may be taken at every step, or at the end.
LEMMA ProductOfRemainder ==
  ASSUME NEW v \in Nat, NEW c \in Nat
  PROVE  (((v * c) % 4294967291) * 279410273) % 4294967291
           = (v * ((c * 279410273) % 4294967291)) % 4294967291
<1> DEFINE a == v * c
           q == a \div 4294967291
           r == a % 4294967291
           b == c * 279410273
           t == b \div 4294967291
           d == b % 4294967291
<1>1. a \in Nat /\ b \in Nat /\ a * 279410273 = v * b
  BY SMT
<1>2. q \in Int /\ r \in Nat /\ a = q * 4294967291 + r
  BY <1>1, Remainders, SMT
<1>3. t \in Int /\ d \in Nat /\ b = t * 4294967291 + d
  BY <1>1, Remainders, SMT
<1> HIDE DEF a, b, q, r, t, d
<1>4. r * 279410273 = v * b - q * 4294967291 * 279410273
  BY <1>1, <1>2, SMT
<1>5. v * b = v * t * 4294967291 + v * d
  <2>1. v * (t * 4294967291 + d) = v * t * 4294967291 + v * d
    BY <1>3, SMT
  <2> QED BY <1>3, <2>1, SMT
<1> DEFINE x == v * d
           z == v * t - q * 279410273
<1>6. x \in Int /\ z \in Int /\ v * t \in Int
  BY <1>2, <1>3, SMT
<1>7. r * 279410273 = x + z * 4294967291
  BY <1>2, <1>3, <1>4, <1>5, <1>6, SMT
<1> HIDE DEF x, z
<1>8. (r * 279410273) % 4294967291 = x % 4294967291
  BY <1>6, <1>7, Remainders, SMT
<1> QED BY <1>8, SMT DEF a, b, r, d, x

\* Only 0 is the same after a multiplication by c where c - 1 has an inverse.
LEMMA NoFixedRow ==
  ASSUME NEW v \in Nat, 0 < v, v < 4294967291, NEW m \in 2..25
  PROVE  (v * Power[m]) % 4294967291 # v
<1> DEFINE c == Power[m]
           i == Inverted[m]
<1>1. c - 1 \in Nat /\ i \in Nat /\ ((c - 1) * i) % 4294967291 = 1
  BY InvertedRows, SMT
<1>2. c \in Nat
  BY PowersOfGames, SMT
<1> HIDE DEF c, i
<1>3. SUFFICES ASSUME (v * c) % 4294967291 = v PROVE FALSE
  BY SMT DEF c
<1> DEFINE e == c - 1
           a == v * c
           q == a \div 4294967291
           f == e * i
           t == f \div 4294967291
<1>4. a \in Nat /\ f \in Nat /\ e \in Nat /\ a = v * e + v
  BY <1>1, <1>2, SMT
<1>5. a % 4294967291 = v /\ f % 4294967291 = 1 /\ v * f = (v * e) * i
  BY <1>1, <1>3, <1>4, SMT
<1> HIDE DEF a, e, f
<1>6. /\ q \in Int /\ a = q * 4294967291 + v
      /\ t \in Int /\ f = t * 4294967291 + 1
  BY <1>4, <1>5, Remainders, SMT
<1> HIDE DEF q, t
<1>7. v * e = q * 4294967291
  BY <1>4, <1>6, SMT
<1>8. v * f = (q * i) * 4294967291
  BY <1>1, <1>5, <1>6, <1>7, SMT
<1>9. v * f = (v * t) * 4294967291 + v
  BY <1>6, SMT
<1> DEFINE z == q * i - v * t
<1>10. z \in Int /\ v = z * 4294967291
  <2>1. q * i \in Int /\ v * t \in Int
    BY <1>1, <1>6, SMT
  <2> QED BY <1>8, <1>9, <2>1, SMT
<1> HIDE DEF z
<1>11. z <= 0 \/ z >= 1
  BY <1>10, SMT
<1>12. CASE z <= 0
  BY <1>10, <1>12, SMT
<1>13. CASE z >= 1
  BY <1>10, <1>13, SMT
<1> QED BY <1>11, <1>12, <1>13, SMT

\* The first row that is wrong would follow one that is right.
LEMMA UpTo25 ==
  ASSUME NEW right \in SUBSET (1..25), 1 \in right,
         \A j \in 1..24 : j \in right => j + 1 \in right
  PROVE  \A m \in 1..25 : m \in right
<1> DEFINE wrong == {j \in 1..25 : j \notin right}
<1> SUFFICES ASSUME wrong # {} PROVE FALSE
  OBVIOUS
<1>1. wrong \in SUBSET Nat
  OBVIOUS
<1>2. \E j \in wrong : \A h \in wrong : <<h, j>> \notin OpToRel(<, Nat)
  BY <1>1, NatLessThanWellFounded, WFMin, Zenon
<1>3. \A h, j \in Nat : h < j => <<h, j>> \in OpToRel(<, Nat)
  BY Zenon DEF OpToRel
<1>4. PICK j \in wrong : \A h \in wrong : ~ (h < j)
  BY <1>1, <1>2, <1>3, Zenon
<1>5. j \in 1..25 /\ j \notin right /\ j # 1
  BY <1>4
<1>6. j - 1 \in 1..24 /\ (j - 1) + 1 = j
  BY <1>5
<1>7. j - 1 \in right
  BY <1>4, <1>6
<1> QED BY <1>5, <1>6, <1>7

\* The numbers of getNextRand from v, at the end of a game with m worms.
LEMMA SourceNumbers ==
  ASSUME NEW v \in Nat, 0 < v, v < 4294967291, NEW m \in 2..25, NEW f, f[0] = v,
         \A k \in Nat : f[k + 1] = (f[k] * 279410273) % 4294967291
  PROVE  f[1 + 3 * m] # v
\* Three numbers on.
<1>1. ASSUME NEW k \in Nat, NEW c \in Nat, f[k] = (v * c) % 4294967291
      PROVE  f[k + 3] =
               (v * ((((((c * 279410273) % 4294967291) * 279410273) % 4294967291)
                       * 279410273) % 4294967291)) % 4294967291
  <2> DEFINE c1 == (c * 279410273) % 4294967291
             c2 == (c1 * 279410273) % 4294967291
             c3 == (c2 * 279410273) % 4294967291
  <2>1. c1 \in Nat
    BY SMT
  <2>2. f[k + 1] = (v * c1) % 4294967291
    BY <1>1, ProductOfRemainder, SMT
  <2> HIDE DEF c1
  <2>3. c2 \in Nat
    BY <2>1, SMT
  <2>4. f[(k + 1) + 1] = (v * c2) % 4294967291
    <3>1. k + 1 \in Nat
      BY SMT
    <3> QED BY <2>1, <2>2, <3>1, ProductOfRemainder, SMT
  <2> HIDE DEF c2
  <2>5. f[((k + 1) + 1) + 1] = (v * c3) % 4294967291
    <3>1. (k + 1) + 1 \in Nat
      BY SMT
    <3> QED BY <2>3, <2>4, <3>1, ProductOfRemainder, SMT
  <2>6. ((k + 1) + 1) + 1 = k + 3
    BY SMT
  <2> HIDE DEF c3
  <2> QED BY <2>5, <2>6, SMT DEF c1, c2, c3
<1> DEFINE Row(j) == f[1 + 3 * j] = (v * Power[j]) % 4294967291
<1>2. Row(1)
  <2>1. f[1] = (v * 279410273) % 4294967291
    <3>1. f[0 + 1] = (f[0] * 279410273) % 4294967291
      BY SMT
    <3> QED BY <3>1, SMT
  <2>2. 1 \in Nat /\ 279410273 \in Nat /\ 1 + 3 = 1 + 3 * 1
    BY SMT
  <2>3. f[1 + 3] =
          (v * ((((((279410273 * 279410273) % 4294967291) * 279410273) % 4294967291)
                  * 279410273) % 4294967291)) % 4294967291
    BY <1>1, <2>1, <2>2, SMT
  <2> QED BY <2>2, <2>3, FirstRow, SMT
<1>3. ASSUME NEW j \in 1..24, Row(j) PROVE Row(j + 1)
  <2> DEFINE k == 1 + 3 * j
             c == Power[j]
  <2>1. k \in Nat /\ c \in Nat /\ k + 3 = 1 + 3 * (j + 1)
    BY PowersOfGames, SMT
  <2>2. (((((c * 279410273) % 4294967291) * 279410273) % 4294967291)
          * 279410273) % 4294967291 = Power[j + 1]
    BY PowerRows, SMT
  <2>3. f[k] = (v * c) % 4294967291
    BY <1>3, SMT
  <2> HIDE DEF k, c
  <2>4. f[k + 3] = (v * Power[j + 1]) % 4294967291
    BY <1>1, <2>1, <2>2, <2>3, SMT
  <2> QED BY <2>1, <2>4, SMT
<1>4. Row(m)
  <2> DEFINE right == {j \in 1..25 : Row(j)}
  <2>1. right \in SUBSET (1..25) /\ 1 \in right
    BY <1>2, SMT
  <2>2. \A j \in 1..24 : j \in right => j + 1 \in right
    BY <1>3, SMT
  <2>3. m \in right
    <3> HIDE DEF right
    <3> QED BY <2>1, <2>2, UpTo25, SMT
  <2> QED BY <2>3, SMT
<1>5. (v * Power[m]) % 4294967291 # v
  BY NoFixedRow, SMT
<1>6. f[1 + 3 * m] = (v * Power[m]) % 4294967291
  BY <1>4, SMT
<1> HIDE DEF Row
<1> QED BY <1>5, <1>6, SMT

LEMMA SourceNumbersOf ==
  ASSUME Modulus = ServerModulus, Multiplier = ServerMultiplier,
         NEW v \in Nat, 0 < v, v < ServerModulus, NEW m \in 2..25, NEW f, f[0] = v,
         \A k \in Nat : f[k + 1] = NextRand(f[k])
  PROVE  f[1 + 3 * m] # v
BY SourceNumbers, SMT DEF NextRand, ServerModulus, ServerMultiplier

(***************************************************************************)
(* The generator of the server does not come back to a number within a     *)
(* game of up to 25 worms: what GamesAreRenamed asks for.                  *)
(* (server.cpp:117-122, 501-513)                                           *)
(***************************************************************************)
THEOREM SourceDoesNotReturn ==
  ASSUME Modulus = ServerModulus, Multiplier = ServerMultiplier,
         Cardinality(Name) \in 0..25, NEW after, Iterates(after)
  PROVE  NoReturn(after)
<1>1. ServerModulus \in Nat
  BY SMT DEF ServerModulus
<1> SUFFICES ASSUME NEW v \in 1..(ServerModulus - 1), NEW m \in 2..25
             PROVE  after[v][1 + 3 * m] # v
  BY <1>1 DEF NoReturn
<1>2. v \in Nat /\ 0 < v /\ v < ServerModulus
  BY <1>1
<1>3. after[v][0] = v /\ \A k \in Nat : after[v][k + 1] = NextRand(after[v][k])
  BY <1>2 DEF Iterates
<1> HIDE DEF NoReturn, Iterates
<1>4. ASSUME NEW f, f[0] = v, \A k \in Nat : f[k + 1] = NextRand(f[k])
      PROVE  f[1 + 3 * m] # v
  BY <1>2, <1>4, SourceNumbersOf
<1> QED BY <1>3, <1>4
=============================================================================
