-------------------------- MODULE ServerGameProofs --------------------------
(***************************************************************************)
(* The log of a running game: its pixels are the eaten fields, its numbers *)
(* are places in the roster, it ends with the game and not before, and the *)
(* server makes it as GameLog says.                                        *)
(***************************************************************************)
EXTENDS ServerProofs

LoggedIn(log, type) == {i \in DOMAIN log : log[i].type = type}
Fields(log) == {log[i].field : i \in LoggedIn(log, "PIXEL")}

LEMMA LoggedFinite ==
  ASSUME NEW log \in Seq(Event), NEW type
  PROVE  /\ IsFiniteSet(LoggedIn(log, type))
         /\ Cardinality(LoggedIn(log, type)) \in Nat
         /\ Len(log) \in Nat /\ LoggedIn(log, type) \subseteq 1..Len(log)
<1>1. Len(log) \in Nat /\ DOMAIN log = 1..Len(log)
  OBVIOUS
<1>2. LoggedIn(log, type) \subseteq 1..Len(log)
  BY <1>1 DEF LoggedIn
<1>3. IsFiniteSet(1..Len(log))
  BY <1>1, FS_Interval
<1> QED BY <1>1, <1>2, <1>3, FS_Subset, FS_CardinalityType

\* What a log has of a type when one more event is appended.
LEMMA LoggedAppend ==
  ASSUME NEW log \in Seq(Event), NEW e \in Event, NEW type
  PROVE  /\ LoggedIn(Append(log, e), type)
              = LoggedIn(log, type) \cup (IF e.type = type THEN {Len(log) + 1} ELSE {})
         /\ Append(log, e) \in Seq(Event) /\ Append(log, e)[Len(log) + 1] = e
         /\ \A i \in 1..Len(log) : Append(log, e)[i] = log[i]
<1>1. /\ Len(log) \in Nat /\ DOMAIN log = 1..Len(log)
      /\ DOMAIN Append(log, e) = 1..(Len(log) + 1)
      /\ Append(log, e) \in Seq(Event) /\ Append(log, e)[Len(log) + 1] = e
      /\ \A i \in 1..Len(log) : Append(log, e)[i] = log[i]
  OBVIOUS
<1> DEFINE more == Append(log, e)
<1> HIDE DEF more
<1>2. \A i : i \in DOMAIN more <=> i \in DOMAIN log \/ i = Len(log) + 1
  BY <1>1 DEF more
<1>3. \A i : i \in LoggedIn(more, type) <=>
               i \in LoggedIn(log, type) \/ (i = Len(log) + 1 /\ e.type = type)
  BY <1>1, <1>2 DEF LoggedIn, more
<1>4. LoggedIn(more, type)
        = LoggedIn(log, type) \cup (IF e.type = type THEN {Len(log) + 1} ELSE {})
  BY <1>3
<1> QED BY <1>1, <1>4 DEF more

LEMMA TwoEvents ==
  ASSUME NEW log \in Seq(Event), NEW d \in Event, NEW e \in Event
  PROVE  log \o <<d, e>> = Append(Append(log, d), e)
OBVIOUS

-----------------------------------------------------------------------------
(* What a step of the server does to the log                               *)

Announces(k) == events' = Append(events, PlayerEliminated(k))
Ends(k)      == events' = Append(Append(events, PlayerEliminated(k)), GameOver)
Draws(k, f)  == events' = Append(events, Pixel(k, f))

DrawsNew(k)  == \E f \in Field \ eatenFields : Draws(k, f)

GoesOn(k)    == UNCHANGED events \/ Announces(k) \/ \E f \in Field : Draws(k, f)

\* The worm with the number k moves: what becomes of the log and the trails,
Logs(k) ==
  \/ UNCHANGED <<events, eatenFields>>
  \/ (Announces(k) \/ Ends(k)) /\ UNCHANGED eatenFields
  \/ \E f \in Field \ eatenFields :
       Draws(k, f) /\ eatenFields' = eatenFields \cup {f}
\* and of the traversal, when it is n's turn.
Moves(n, k) ==
  \/ /\ UNCHANGED events \/ DrawsNew(k)
     /\ UNCHANGED toErase /\ todo' = todo \ {n}
  \/ /\ Announces(k) /\ ~OneLeft(toErase \cup {n})
     /\ toErase' = toErase \cup {n} /\ todo' = todo \ {n}
  \/ /\ Ends(k) /\ OneLeft(toErase \cup {n})
     /\ toErase' = toErase \cup {n} /\ todo' = {}

LEMMA UpdateMoves ==
  ASSUME TimerInv, NEW f \in Field \cup {Outside}, UpdateWorm(f)
  PROVE  LET n == Least(todo)
         IN  /\ n \in todo /\ n \in DOMAIN playerPos
             /\ playerPos[n].order \in Nat
             /\ Logs(playerPos[n].order) /\ Moves(n, playerPos[n].order)
<1> DEFINE n == Least(todo)
           k == playerPos[n].order
<1>1. n \in todo /\ n \in DOMAIN playerPos
  BY NextWorm DEF UpdateWorm, TimerInv
<1>2. k \in Nat
  BY <1>1 DEF TimerInv, TypeOK, PlayerPos
<1>3. events \in Seq(Event) /\ PlayerEliminated(k) \in Event /\ GameOver \in Event
  BY <1>2, EventTypes, FieldAssumption DEF TimerInv, TypeOK
<1>4. CASE f = playerPos[n].pos
  BY <1>1, <1>2, <1>4 DEF UpdateWorm, Logs, Moves
<1>5. CASE f # playerPos[n].pos /\ Blocked(f)
  <2>1. Eliminate(n)
    BY <1>5 DEF UpdateWorm
  <2>2. CASE OneLeft(toErase \cup {n})
    <3>1. events' = events \o <<PlayerEliminated(k), GameOver>>
      BY <2>1, <2>2 DEF Eliminate
    <3>2. Ends(k)
      BY <1>3, <3>1, TwoEvents DEF Ends
    <3> QED BY <1>1, <1>2, <2>1, <2>2, <3>2 DEF Eliminate, Logs, Moves
  <2>3. CASE ~OneLeft(toErase \cup {n})
    BY <1>1, <1>2, <2>1, <2>3 DEF Eliminate, Logs, Moves, Announces
  <2> QED BY <2>2, <2>3
<1>6. CASE f # playerPos[n].pos /\ ~Blocked(f)
  <2>1. Eat(n, k, f) /\ f \in Field \ eatenFields
    BY <1>6 DEF UpdateWorm, Blocked
  <2> QED BY <1>1, <1>2, <2>1 DEF Eat, Logs, Moves, DrawsNew, Draws
<1> QED BY <1>1, <1>2, <1>4, <1>5, <1>6

LEMMA PlaceMoves ==
  ASSUME TimerInv, NEW f \in Field, PlaceWorm(f)
  PROVE  LET n == Least(todo)
         IN  /\ n \in todo /\ n \in DOMAIN playerPos
             /\ NextOrder \in Nat /\ NextOrder < Cardinality(DOMAIN playerPos)
             /\ IsFiniteSet(DOMAIN playerPos)
             /\ Logs(NextOrder)
             /\ ~OneLeft(toErase) =>
                  /\ Announces(NextOrder) \/ DrawsNew(NextOrder)
                  /\ UNCHANGED toErase /\ todo' = todo \ {n}
<1> DEFINE n == Least(todo)
<1>1. n \in todo /\ n \in DOMAIN playerPos
  BY NextWorm DEF PlaceWorm, TimerInv
<1>2. IsFiniteSet(DOMAIN playerPos)
  BY NameAssumption, FS_Subset DEF TimerInv, TypeOK
<1>3. NextOrder \in Nat /\ NextOrder < Cardinality(DOMAIN playerPos)
  <2>1. /\ DOMAIN playerPos \ todo \subseteq DOMAIN playerPos
        /\ DOMAIN playerPos \ todo # DOMAIN playerPos
    BY <1>1
  <2>2. /\ IsFiniteSet(DOMAIN playerPos \ todo)
        /\ Cardinality(DOMAIN playerPos \ todo) < Cardinality(DOMAIN playerPos)
    <3>1. /\ IsFiniteSet(DOMAIN playerPos \ todo)
          /\ Cardinality(DOMAIN playerPos \ todo) <= Cardinality(DOMAIN playerPos)
          /\ Cardinality(DOMAIN playerPos \ todo) # Cardinality(DOMAIN playerPos)
      BY <1>2, <2>1, FS_Subset
    <3>2. /\ Cardinality(DOMAIN playerPos \ todo) \in Nat
          /\ Cardinality(DOMAIN playerPos) \in Nat
      BY <1>2, <3>1, FS_CardinalityType
    <3> QED BY <3>1, <3>2
  <2> QED BY <2>2, FS_CardinalityType DEF NextOrder
<1>4. events \in Seq(Event) /\ PlayerEliminated(NextOrder) \in Event /\ GameOver \in Event
  BY <1>3, EventTypes, FieldAssumption DEF TimerInv, TypeOK
<1> DEFINE gone == PlayerEliminated(NextOrder)
<1>5. CASE f \notin eatenFields
  <2>1. Eat(n, NextOrder, f)
    BY <1>5 DEF PlaceWorm
  <2>2. Logs(NextOrder) /\ DrawsNew(NextOrder)
    BY <1>5, <2>1 DEF Eat, Draws, Logs, DrawsNew
  <2> QED BY <1>1, <1>2, <1>3, <2>1, <2>2 DEF Eat
<1>6. CASE f \in eatenFields /\ OneLeft(toErase)
  <2>1. /\ events' = events \o <<gone, GameOver>>
        /\ toErase' = toErase \cup {n} /\ todo' = {} /\ UNCHANGED eatenFields
    BY <1>6 DEF PlaceWorm
  <2>2. Ends(NextOrder)
    BY <1>4, <2>1, TwoEvents DEF Ends
  <2> QED BY <1>1, <1>2, <1>3, <1>6, <2>1, <2>2 DEF Logs
<1>7. CASE f \in eatenFields /\ ~OneLeft(toErase)
  <2>1. /\ events' = Append(events, gone)
        /\ todo' = todo \ {n} /\ UNCHANGED <<toErase, eatenFields>>
    BY <1>7 DEF PlaceWorm
  <2> QED BY <1>1, <1>2, <1>3, <2>1 DEF Announces, Logs
<1> QED BY <1>5, <1>6, <1>7

\* The other steps log nothing but the roster, and main forgets the log.
LEMMA QuietSteps ==
  ASSUME [Next]_vars,
         ~ \E f \in Field \cup {Outside} : UpdateWorm(f),
         ~ \E f \in Field : PlaceWorm(f)
  PROVE  \/ UNCHANGED <<events, eatenFields>>
         \/ StartGame
         \/ FinishGame
BY DEF Next, Handle, Connect, Expire, Poll, HandleTimeouts, HandleConnection,
       NoConnection, HandleGameFrame, EndUpdate, EndPoll, EndStart, vars, game

-----------------------------------------------------------------------------
(* Pixels                                                                  *)

\* An event that is no pixel changes no field.
LEMMA NoPixel ==
  ASSUME NEW log \in Seq(Event), NEW e \in Event, e.type # "PIXEL"
  PROVE  /\ LoggedIn(Append(log, e), "PIXEL") = LoggedIn(log, "PIXEL")
         /\ Fields(Append(log, e)) = Fields(log)
<1> DEFINE more == Append(log, e)
<1>1. LoggedIn(more, "PIXEL") = LoggedIn(log, "PIXEL")
  <2>1. LoggedIn(more, "PIXEL")
          = LoggedIn(log, "PIXEL") \cup (IF e.type = "PIXEL" THEN {Len(log) + 1} ELSE {})
    BY LoggedAppend
  <2> HIDE DEF more
  <2> QED BY <2>1
<1>2. \A i \in LoggedIn(log, "PIXEL") : more[i] = log[i]
  BY LoggedAppend, LoggedFinite
<1> QED BY <1>1, <1>2 DEF Fields

LEMMA OnePixel ==
  ASSUME NEW log \in Seq(Event), NEW k \in Nat, NEW f \in Field, f \notin Fields(log),
         IsFiniteSet(Fields(log)),
         Cardinality(LoggedIn(log, "PIXEL")) = Cardinality(Fields(log))
  PROVE  LET more == Append(log, Pixel(k, f))
         IN  /\ Fields(more) = Fields(log) \cup {f}
             /\ Cardinality(LoggedIn(more, "PIXEL")) = Cardinality(Fields(more))
<1> DEFINE e    == Pixel(k, f)
           more == Append(log, e)
           at   == Len(log) + 1
           old  == LoggedIn(log, "PIXEL")
<1>1. e \in Event /\ e.type = "PIXEL" /\ e.field = f
  BY EventTypes DEF Pixel
<1>2. /\ LoggedIn(more, "PIXEL") = old \cup {at} /\ more[at] = e
      /\ \A i \in 1..Len(log) : more[i] = log[i]
  BY <1>1, LoggedAppend
<1>3. IsFiniteSet(old) /\ old \subseteq 1..Len(log) /\ Len(log) \in Nat
  BY LoggedFinite
<1>4. at \notin old
  BY <1>3
<1> HIDE DEF e, more, at, old
<1>5. Fields(more) = Fields(log) \cup {f}
  <2>1. Fields(more) = {more[i].field : i \in old \cup {at}}
    BY <1>2 DEF Fields
  <2>2. Fields(log) = {log[i].field : i \in old}
    BY DEF Fields, old
  <2>3. \A i \in old : more[i].field = log[i].field
    BY <1>2, <1>3
  <2>4. more[at].field = f
    BY <1>1, <1>2
  <2> QED BY <2>1, <2>2, <2>3, <2>4
<1>7. Cardinality(old \cup {at}) = Cardinality(old) + 1
  BY <1>3, <1>4, FS_AddElement
<1>8. Cardinality(Fields(log) \cup {f}) = Cardinality(Fields(log)) + 1
  BY FS_AddElement
<1> QED BY <1>2, <1>5, <1>7, <1>8 DEF more, e, old

PixelInv ==
  /\ IsFiniteSet(eatenFields) /\ Fields(events) = eatenFields
  /\ Cardinality(LoggedIn(events, "PIXEL")) = Cardinality(eatenFields)

LEMMA PixelsOfLogs ==
  ASSUME TimerInv, PixelInv, NEW k \in Nat, Logs(k)
  PROVE  PixelInv'
<1>1. events \in Seq(Event)
  BY DEF TimerInv, TypeOK
<1>2. PlayerEliminated(k) \in Event /\ GameOver \in Event
  BY EventTypes, FieldAssumption
<1>3. PlayerEliminated(k).type # "PIXEL" /\ GameOver.type # "PIXEL"
  BY DEF PlayerEliminated, GameOver
<1>4. CASE UNCHANGED <<events, eatenFields>>
  BY <1>4 DEF PixelInv
<1>5. CASE Announces(k) /\ UNCHANGED eatenFields
  BY <1>1, <1>2, <1>3, <1>5, NoPixel DEF Announces, PixelInv
<1>6. CASE Ends(k) /\ UNCHANGED eatenFields
  <2> DEFINE one == Append(events, PlayerEliminated(k))
  <2>1. one \in Seq(Event)
    BY <1>1, <1>2
  <2>2. /\ LoggedIn(one, "PIXEL") = LoggedIn(events, "PIXEL")
        /\ Fields(one) = Fields(events)
    BY <1>1, <1>2, <1>3, NoPixel
  <2> HIDE DEF one
  <2>3. /\ LoggedIn(Append(one, GameOver), "PIXEL") = LoggedIn(one, "PIXEL")
        /\ Fields(Append(one, GameOver)) = Fields(one)
    BY <1>2, <1>3, <2>1, NoPixel
  <2>4. events' = Append(one, GameOver)
    BY <1>6 DEF Ends, one
  <2> QED BY <1>6, <2>2, <2>3, <2>4 DEF PixelInv
<1>7. CASE \E f \in Field \ eatenFields :
             Draws(k, f) /\ eatenFields' = eatenFields \cup {f}
  <2>1. PICK f \in Field \ eatenFields :
          Draws(k, f) /\ eatenFields' = eatenFields \cup {f}
    BY <1>7
  <2>2. /\ Fields(events') = Fields(events) \cup {f}
        /\ Cardinality(LoggedIn(events', "PIXEL")) = Cardinality(Fields(events'))
    BY <1>1, <2>1, OnePixel DEF Draws, PixelInv
  <2>3. IsFiniteSet(eatenFields')
    BY <2>1, FS_AddElement DEF PixelInv
  <2> QED BY <2>1, <2>2, <2>3 DEF PixelInv
<1> QED BY <1>4, <1>5, <1>6, <1>7 DEF Logs

LEMMA EmptyLog ==
  /\ Fields(<< >>) = {} /\ \A type : LoggedIn(<< >>, type) = {}
  /\ IsFiniteSet({}) /\ Cardinality({}) = 0
BY FS_EmptySet DEF Fields, LoggedIn

LEMMA NoneLogged ==
  ASSUME NEW log, NEW type, LoggedIn(log, type) = {} \/ log = << >>
  PROVE  LoggedIn(log, type) = {} /\ Cardinality(LoggedIn(log, type)) <= 1
<1>1. LoggedIn(log, type) = {}
  BY EmptyLog
<1> QED BY <1>1, FS_EmptySet

LEMMA NextKeepsPixels == TimerInv /\ PixelInv /\ [Next]_vars => PixelInv'
<1> SUFFICES ASSUME TimerInv, PixelInv, [Next]_vars PROVE PixelInv'
  OBVIOUS
<1>1. CASE \E f \in Field \cup {Outside} : UpdateWorm(f)
  BY <1>1, UpdateMoves, PixelsOfLogs
<1>2. CASE \E f \in Field : PlaceWorm(f)
  BY <1>2, PlaceMoves, PixelsOfLogs
<1>3. CASE UNCHANGED <<events, eatenFields>>
  BY <1>3 DEF PixelInv
<1>4. CASE StartGame
  <2>1. /\ NewGame(readyPlayers) \in Event /\ NewGame(readyPlayers).type # "PIXEL"
        /\ events \in Seq(Event)
    BY DEF Event, NewGame, TimerInv, TypeOK
  <2> QED BY <1>4, <2>1, NoPixel DEF StartGame, PixelInv
<1>5. CASE FinishGame
  BY <1>5, EmptyLog DEF FinishGame, PixelInv
<1> QED BY <1>1, <1>2, <1>3, <1>4, <1>5, QuietSteps

(***************************************************************************)
(* The pixels in the log are the eaten fields, each once, for any board,   *)
(* players and frames; also after two processes of an address have played  *)
(* under two names. (server.cpp:428-438, 516-526)                          *)
(***************************************************************************)
THEOREM PixelSafety == Spec => []PixelsAreEaten
<1>1. Init => TimerInv /\ PixelInv
  BY InitTimerInv, EmptyLog DEF Init, PixelInv
<1>2. TimerInv /\ PixelInv /\ [Next]_vars => (TimerInv /\ PixelInv)'
  BY NextKeepsTimerInv, NextKeepsPixels
<1>3. PixelInv => PixelsAreEaten
  BY DEF PixelInv, PixelsAreEaten, Fields, LoggedIn, Logged
<1> QED BY <1>1, <1>2, <1>3, PTL DEF Spec

-----------------------------------------------------------------------------
(* Numbers                                                                 *)

Roster(log) == log[1].players
InRoster(log) ==
  \A i \in LoggedIn(log, "PIXEL") \cup LoggedIn(log, "PLAYER_ELIMINATED") :
    log[i].player < Cardinality(Roster(log))

LEMMA RosterAppend ==
  ASSUME NEW log \in Seq(Event), log # << >>, InRoster(log), NEW e \in Event,
         e.type \in {"PIXEL", "PLAYER_ELIMINATED"} =>
           e.player < Cardinality(Roster(log))
  PROVE  /\ InRoster(Append(log, e)) /\ Append(log, e) # << >>
         /\ Append(log, e)[1] = log[1]
<1> DEFINE more == Append(log, e)
           at   == Len(log) + 1
<1>1. /\ \A type : LoggedIn(more, type)
                     = LoggedIn(log, type) \cup (IF e.type = type THEN {at} ELSE {})
      /\ more[at] = e /\ \A i \in 1..Len(log) : more[i] = log[i]
  BY LoggedAppend
<1>2. Len(log) \in Nat \ {0} /\ more # << >> /\ 1 \in 1..Len(log)
  OBVIOUS
<1>3. \A type : LoggedIn(log, type) \subseteq 1..Len(log)
  BY LoggedFinite
<1> HIDE DEF more, at
<1>4. more[1] = log[1] /\ Roster(more) = Roster(log)
  BY <1>1, <1>2 DEF Roster
<1>5. ASSUME NEW type \in {"PIXEL", "PLAYER_ELIMINATED"}, NEW i \in LoggedIn(more, type)
      PROVE  more[i].player < Cardinality(Roster(log))
  <2>1. CASE i \in LoggedIn(log, type)
    <3>1. more[i] = log[i]
      BY <1>1, <1>3, <2>1
    <3>2. log[i].player < Cardinality(Roster(log))
      BY <1>5, <2>1 DEF InRoster
    <3> QED BY <3>1, <3>2
  <2>2. CASE i \notin LoggedIn(log, type)
    <3>1. i = at /\ e.type = type
      BY <1>1, <1>5, <2>2
    <3> QED BY <1>1, <1>5, <3>1
  <2> QED BY <2>1, <2>2
<1>6. InRoster(more)
  BY <1>4, <1>5 DEF InRoster
<1> QED BY <1>2, <1>4, <1>6 DEF more

LEMMA RosterOfLogs ==
  ASSUME TimerInv, events # << >>, InRoster(events),
         NEW k \in Nat, k < Cardinality(Roster(events)), Logs(k)
  PROVE  InRoster(events') /\ events' # << >> /\ events'[1] = events[1]
<1>1. events \in Seq(Event)
  BY DEF TimerInv, TypeOK
<1>2. PlayerEliminated(k) \in Event /\ GameOver \in Event
  BY EventTypes, FieldAssumption
<1>3. /\ PlayerEliminated(k).player = k
      /\ GameOver.type \notin {"PIXEL", "PLAYER_ELIMINATED"}
  BY DEF PlayerEliminated, GameOver
<1>4. CASE UNCHANGED <<events, eatenFields>>
  BY <1>4
<1>5. CASE Announces(k)
  BY <1>1, <1>2, <1>3, <1>5, RosterAppend DEF Announces
<1>6. CASE Ends(k)
  <2> DEFINE one == Append(events, PlayerEliminated(k))
  <2>1. one \in Seq(Event)
    BY <1>1, <1>2
  <2>2. InRoster(one) /\ one # << >> /\ one[1] = events[1]
    BY <1>1, <1>2, <1>3, RosterAppend
  <2> HIDE DEF one
  <2>3. /\ InRoster(Append(one, GameOver)) /\ Append(one, GameOver) # << >>
        /\ Append(one, GameOver)[1] = one[1]
    BY <1>2, <1>3, <2>1, <2>2, RosterAppend
  <2>4. events' = Append(one, GameOver)
    BY <1>6 DEF Ends, one
  <2> QED BY <2>2, <2>3, <2>4
<1>7. CASE \E f \in Field \ eatenFields : Draws(k, f)
  <2>1. PICK f \in Field : events' = Append(events, Pixel(k, f))
    BY <1>7 DEF Draws
  <2>2. Pixel(k, f) \in Event /\ Pixel(k, f).player = k
    BY EventTypes DEF Pixel
  <2> QED BY <1>1, <2>1, <2>2, RosterAppend
<1> QED BY <1>4, <1>5, <1>6, <1>7 DEF Logs

-----------------------------------------------------------------------------
(* The end                                                                 *)

Ended(log) == LoggedIn(log, "GAME_OVER") # {}
Alive == DOMAIN playerPos \ toErase

LEMMA NotOver ==
  ASSUME NEW log \in Seq(Event), NEW e \in Event, e.type # "GAME_OVER"
  PROVE  LoggedIn(Append(log, e), "GAME_OVER") = LoggedIn(log, "GAME_OVER")
<1>1. LoggedIn(Append(log, e), "GAME_OVER")
        = LoggedIn(log, "GAME_OVER")
            \cup (IF e.type = "GAME_OVER" THEN {Len(log) + 1} ELSE {})
  BY LoggedAppend
<1> DEFINE more == Append(log, e)
<1> HIDE DEF more
<1> QED BY <1>1

LEMMA GoesOnOver ==
  ASSUME TimerInv, NEW k \in Nat, GoesOn(k)
  PROVE  LoggedIn(events', "GAME_OVER") = LoggedIn(events, "GAME_OVER")
<1>1. events \in Seq(Event)
  BY DEF TimerInv, TypeOK
<1>2. CASE UNCHANGED events
  BY <1>2
<1>3. CASE Announces(k)
  <2>1. PlayerEliminated(k) \in Event /\ PlayerEliminated(k).type # "GAME_OVER"
    BY EventTypes, FieldAssumption DEF PlayerEliminated
  <2> QED BY <1>1, <1>3, <2>1, NotOver DEF Announces
<1>4. CASE \E f \in Field : Draws(k, f)
  <2>1. PICK f \in Field : events' = Append(events, Pixel(k, f))
    BY <1>4 DEF Draws
  <2>2. Pixel(k, f) \in Event /\ Pixel(k, f).type # "GAME_OVER"
    BY EventTypes DEF Pixel
  <2> QED BY <1>1, <2>1, <2>2, NotOver
<1> QED BY <1>2, <1>3, <1>4 DEF GoesOn

LEMMA EndsOver ==
  ASSUME TimerInv, NEW k \in Nat, Ends(k), ~Ended(events)
  PROVE  Ended(events') /\ Cardinality(LoggedIn(events', "GAME_OVER")) = 1
<1> DEFINE one == Append(events, PlayerEliminated(k))
<1>1. events \in Seq(Event)
  BY DEF TimerInv, TypeOK
<1>2. /\ PlayerEliminated(k) \in Event /\ PlayerEliminated(k).type # "GAME_OVER"
      /\ GameOver \in Event /\ GameOver.type = "GAME_OVER"
  BY EventTypes, FieldAssumption DEF PlayerEliminated, GameOver
<1>3. one \in Seq(Event) /\ LoggedIn(one, "GAME_OVER") = {}
  BY <1>1, <1>2, NotOver DEF Ended
<1>4. events' = Append(one, GameOver)
  BY DEF Ends
<1> HIDE DEF one
<1>5. LoggedIn(events', "GAME_OVER") = {Len(one) + 1}
  <2>1. LoggedIn(Append(one, GameOver), "GAME_OVER")
          = LoggedIn(one, "GAME_OVER")
              \cup (IF GameOver.type = "GAME_OVER" THEN {Len(one) + 1} ELSE {})
    BY <1>2, <1>3, LoggedAppend
  <2> QED BY <1>2, <1>3, <1>4, <2>1
<1> QED BY <1>5, FS_Singleton DEF Ended

\* The worms left when the erased ones are gone.
LEMMA LeftOver ==
  ASSUME TimerInv, NEW erased \in SUBSET DOMAIN playerPos
  PROVE  /\ OneLeft(erased) <=> Cardinality(DOMAIN playerPos \ erased) = 1
         /\ IsFiniteSet(DOMAIN playerPos)
         /\ IsFiniteSet(DOMAIN playerPos \ erased)
         /\ Cardinality(DOMAIN playerPos \ erased) \in Nat
<1>1. IsFiniteSet(DOMAIN playerPos)
  BY NameAssumption, FS_Subset DEF TimerInv, TypeOK
<1>2. DOMAIN playerPos \cap erased = erased
  OBVIOUS
<1>3. /\ IsFiniteSet(DOMAIN playerPos \ erased)
      /\ Cardinality(DOMAIN playerPos \ erased)
           = Cardinality(DOMAIN playerPos) - Cardinality(erased)
  BY <1>1, <1>2, FS_Difference
<1> QED BY <1>1, <1>3, FS_CardinalityType DEF OneLeft

\* While the frame is simulated the eliminated worms are on the board still.
EndInv ==
  /\ Cardinality(LoggedIn(events, "GAME_OVER")) <= 1
  /\ pc = "place" =>
       /\ active /\ ~Ended(events) /\ toErase = {}
       /\ Cardinality(DOMAIN playerPos) >= 2
  /\ loop = "game" =>
       /\ pc # "while" => active
       /\ pc \in {"timeouts", "connection", "frame"} =>
            ~Ended(events) /\ Cardinality(DOMAIN playerPos) >= 2
       /\ pc \in {"update", "check"} =>
            IF Ended(events) THEN Cardinality(Alive) <= 1 ELSE Cardinality(Alive) >= 2
       /\ pc = "while" =>
            IF active THEN ~Ended(events) /\ Cardinality(DOMAIN playerPos) >= 2
            ELSE Ended(events)
  /\ pc = "update" => todo \cap toErase = {}

LEMMA EndUpdateWorm ==
  ASSUME NamesInv, EndInv, NEW f \in Field \cup {Outside}, UpdateWorm(f)
  PROVE  EndInv'
<1> DEFINE n == Least(todo)
           k == playerPos[n].order
<1>1. /\ pc = "update" /\ UNCHANGED <<pc, loop, active>> /\ loop = "game"
      /\ DOMAIN playerPos' = DOMAIN playerPos
  BY DEF UpdateWorm, control, NamesInv, ModeInv
<1>2. /\ n \in todo /\ n \in DOMAIN playerPos /\ k \in Nat
      /\ Moves(n, k)
  BY UpdateMoves DEF NamesInv
<1>3. /\ active /\ todo \cap toErase = {} /\ toErase \subseteq DOMAIN playerPos
      /\ IF Ended(events) THEN Cardinality(Alive) <= 1 ELSE Cardinality(Alive) >= 2
  BY <1>1 DEF EndInv, NamesInv, TimerInv, TypeOK
<1>4. TimerInv
  BY DEF NamesInv
<1> DEFINE erased == toErase \cup {n}
           rest   == DOMAIN playerPos \ erased
<1>5. /\ OneLeft(erased) <=> Cardinality(rest) = 1
      /\ IsFiniteSet(Alive) /\ Cardinality(Alive) \in Nat /\ Cardinality(rest) \in Nat
  BY <1>2, <1>3, <1>4, LeftOver DEF Alive
<1>6. n \in Alive /\ rest = Alive \ {n}
  BY <1>2, <1>3 DEF Alive
<1>7. Cardinality(rest) = Cardinality(Alive) - 1
  BY <1>5, <1>6, FS_RemoveElement
<1> HIDE DEF n, k, erased, rest
<1>8. CASE /\ UNCHANGED events \/ DrawsNew(k)
           /\ UNCHANGED toErase /\ todo' = todo \ {n}
  <2>1. LoggedIn(events', "GAME_OVER") = LoggedIn(events, "GAME_OVER")
    BY <1>2, <1>4, <1>8, GoesOnOver DEF GoesOn, DrawsNew
  <2>2. Alive' = Alive
    BY <1>1, <1>8 DEF Alive
  <2> QED BY <1>1, <1>3, <1>8, <2>1, <2>2 DEF EndInv, Ended
<1>9. CASE /\ Announces(k) /\ ~OneLeft(toErase \cup {n})
           /\ toErase' = toErase \cup {n} /\ todo' = todo \ {n}
  <2>1. LoggedIn(events', "GAME_OVER") = LoggedIn(events, "GAME_OVER")
    BY <1>2, <1>4, <1>9, GoesOnOver DEF GoesOn
  <2>2. Alive' = rest
    BY <1>1, <1>9 DEF Alive, rest, erased
  <2>3. IF Ended(events) THEN Cardinality(rest) <= 1 ELSE Cardinality(rest) >= 2
    BY <1>3, <1>5, <1>7, <1>9 DEF erased
  <2>4. todo' \cap toErase' = {}
    BY <1>3, <1>9
  <2> QED BY <1>1, <1>3, <2>1, <2>2, <2>3, <2>4 DEF EndInv, Ended
<1>10. CASE /\ Ends(k) /\ OneLeft(toErase \cup {n})
            /\ toErase' = toErase \cup {n} /\ todo' = {}
  <2>1. Cardinality(rest) = 1 /\ ~Ended(events)
    BY <1>3, <1>5, <1>7, <1>10 DEF erased
  <2>2. Ended(events') /\ Cardinality(LoggedIn(events', "GAME_OVER")) = 1
    BY <1>2, <1>4, <1>10, <2>1, EndsOver
  <2>3. Alive' = rest
    BY <1>1, <1>10 DEF Alive, rest, erased
  <2> QED BY <1>1, <1>3, <1>10, <2>1, <2>2, <2>3 DEF EndInv
<1> QED BY <1>2, <1>8, <1>9, <1>10 DEF Moves

LEMMA EndPlaceWorm ==
  ASSUME NamesInv, EndInv, NEW f \in Field, PlaceWorm(f)
  PROVE  EndInv' /\ todo' = todo \ {Least(todo)}
<1> DEFINE n == Least(todo)
<1>1. /\ pc = "place" /\ UNCHANGED <<pc, loop, active>> /\ loop = "lobby"
      /\ DOMAIN playerPos' = DOMAIN playerPos
  BY DEF PlaceWorm, control, NamesInv, ModeInv
<1>2. /\ active /\ ~Ended(events) /\ toErase = {} /\ Cardinality(DOMAIN playerPos) >= 2
      /\ Cardinality(LoggedIn(events, "GAME_OVER")) <= 1
  BY <1>1 DEF EndInv
<1>3. ~OneLeft(toErase)
  BY <1>2, FS_EmptySet, LeftOver DEF OneLeft, NamesInv
<1>4. /\ NextOrder \in Nat /\ GoesOn(NextOrder)
      /\ UNCHANGED toErase /\ todo' = todo \ {n}
  BY <1>3, PlaceMoves DEF NamesInv, GoesOn, DrawsNew
<1>5. LoggedIn(events', "GAME_OVER") = LoggedIn(events, "GAME_OVER")
  BY <1>4, GoesOnOver DEF NamesInv
<1> HIDE DEF n
<1>6. EndInv'
  BY <1>1, <1>2, <1>4, <1>5 DEF EndInv, Ended
<1> QED BY <1>4, <1>6 DEF n

LEMMA EndConnection ==
  ASSUME NamesInv, EndInv, Connect, TypeOK'
  PROVE  EndInv'
<1>1. /\ pc = "connection" /\ pc' = "frame"
      /\ UNCHANGED <<loop, sweep, active, events>>
      /\ DOMAIN playerPos \subseteq DOMAIN playerPos'
  BY DEF Connect, HandleConnection, UpdatePlayerState, Put
<1>2. IsFiniteSet(DOMAIN playerPos')
  BY NameAssumption, FS_Subset DEF TypeOK
<1>3. /\ Cardinality(DOMAIN playerPos) <= Cardinality(DOMAIN playerPos')
      /\ Cardinality(DOMAIN playerPos) \in Nat /\ Cardinality(DOMAIN playerPos') \in Nat
  BY <1>1, <1>2, FS_Subset, FS_CardinalityType
<1> QED BY <1>1, <1>3 DEF EndInv, Ended

LEMMA EndQuiet ==
  ASSUME NamesInv, EndInv,
         \/ \E i \in TimerId : Expire(i)
         \/ Poll \/ HandleTimeouts \/ NoConnection \/ HandleGameFrame \/ EndPoll
         \/ FinishGame \/ UNCHANGED vars
  PROVE  EndInv'
<1>1. CASE (\E i \in TimerId : Expire(i)) \/ UNCHANGED vars
  <2>1. UNCHANGED <<control, sweep, game>>
    BY <1>1 DEF Expire, vars
  <2> QED BY <2>1 DEF EndInv, Alive, control, sweep, game
<1>2. CASE Poll
  BY <1>2 DEF Poll, game, sweep, EndInv
<1>3. CASE HandleTimeouts
  <2>1. /\ pc = "timeouts" /\ pc' = "connection"
        /\ UNCHANGED <<loop, sweep, active, events>>
    BY <1>3 DEF HandleTimeouts
  <2>2. active => DOMAIN playerPos' = DOMAIN playerPos
    BY <1>3 DEF HandleTimeouts, KeptWorms, Restrict
  <2> QED BY <2>1, <2>2 DEF EndInv
<1>4. CASE NoConnection
  BY <1>4 DEF NoConnection, game, sweep, EndInv
<1>5. CASE HandleGameFrame
  <2>1. /\ pc = "frame" /\ pc' \in {"update", "check"} /\ (pc' = "update" => active)
        /\ UNCHANGED <<loop, toErase, game>>
    BY <1>5 DEF HandleGameFrame
  <2>2. toErase = {}
    BY <2>1 DEF NamesInv, TimerInv, SweepInv
  <2>3. Alive' = DOMAIN playerPos
    BY <2>1, <2>2 DEF Alive, game
  <2>4. UNCHANGED <<active, events, playerPos>> /\ (todo \cap toErase)' = {}
    BY <2>1, <2>2 DEF game
  <2>5. loop = "game" =>
          active /\ ~Ended(events) /\ Cardinality(DOMAIN playerPos) >= 2
    BY <2>1 DEF EndInv
  <2>6. ~Ended(events') <=> ~Ended(events)
    BY <2>4
  <2> QED BY <2>1, <2>3, <2>4, <2>5, <2>6 DEF EndInv
<1>6. CASE EndPoll
  <2>1. /\ pc = "check" /\ pc' = "while" /\ UNCHANGED <<loop, sweep, events, playerPos>>
        /\ active' = (active /\ Cardinality(DOMAIN playerPos) >= 2)
    BY <1>6 DEF EndPoll
  <2>2. Alive = DOMAIN playerPos
    <3>1. toErase = {}
      BY <2>1 DEF NamesInv, TimerInv, SweepInv
    <3> QED BY <3>1 DEF Alive
  <2>3. Cardinality(DOMAIN playerPos) \in Nat
    BY LeftOver DEF NamesInv
  <2>4. active' <=> active /\ Cardinality(Alive) >= 2
    BY <2>1, <2>2
  <2>5. loop = "game" =>
          /\ active
          /\ IF Ended(events) THEN Cardinality(Alive) <= 1 ELSE Cardinality(Alive) >= 2
    BY <2>1 DEF EndInv
  <2>6. loop = "game" => (active' <=> ~Ended(events))
    BY <2>2, <2>3, <2>4, <2>5
  <2>7. active' => Cardinality(DOMAIN playerPos) >= 2
    BY <2>2, <2>4
  <2>8. /\ loop' = loop /\ pc' = "while" /\ events' = events /\ DOMAIN playerPos' = DOMAIN playerPos
        /\ Cardinality(LoggedIn(events, "GAME_OVER")) <= 1
    BY <2>1 DEF EndInv
  <2> QED BY <2>6, <2>7, <2>8 DEF EndInv
<1>7. CASE FinishGame
  <2>1. /\ pc' = "while" /\ loop' = "lobby" /\ events' = << >>
    BY <1>7 DEF FinishGame
  <2>2. Cardinality(LoggedIn(events', "GAME_OVER")) <= 1
    BY <2>1, NoneLogged
  <2> QED BY <2>1, <2>2 DEF EndInv
<1> QED BY <1>1, <1>2, <1>3, <1>4, <1>5, <1>6, <1>7

LEMMA EndEnds ==
  ASSUME NamesInv, EndInv, EndUpdate \/ EndStart
  PROVE  EndInv'
<1>1. DOMAIN playerPos' = Alive /\ toErase' = {}
  BY DEF EndUpdate, EndStart, Restrict, Alive
<1>2. Alive' = Alive
  BY <1>1 DEF Alive
<1>3. CASE EndUpdate
  <2>1. /\ pc = "update" /\ pc' \in {"update", "check"} /\ loop = "game"
        /\ UNCHANGED <<loop, active, events>>
    BY <1>3 DEF EndUpdate, NamesInv, ModeInv
  <2> QED BY <1>1, <1>2, <2>1 DEF EndInv
<1>4. CASE EndStart
  <2>1. /\ pc = "place" /\ pc' = "while" /\ loop' = "game" /\ UNCHANGED events
        /\ active' = (active /\ Cardinality(DOMAIN playerPos \ toErase) >= 2)
    BY <1>4 DEF EndStart
  <2>2. /\ active /\ ~Ended(events) /\ toErase = {}
        /\ Cardinality(DOMAIN playerPos) >= 2
        /\ Cardinality(LoggedIn(events, "GAME_OVER")) <= 1
    BY <2>1 DEF EndInv
  <2>3. Alive = DOMAIN playerPos
    BY <2>2 DEF Alive
  <2> QED BY <1>1, <2>1, <2>2, <2>3 DEF EndInv, Alive
<1> QED BY <1>3, <1>4

LEMMA EndStartGame ==
  ASSUME NamesInv, StartGame
  PROVE  EndInv'
<1>1. /\ pc = "while" /\ pc' = "place" /\ loop = "lobby" /\ loop' = "lobby" /\ active'
      /\ events' = Append(events, NewGame(readyPlayers))
      /\ UNCHANGED <<playerPos, toErase>> /\ ~LobbyWaits
  BY DEF StartGame
<1>2. events = << >> /\ toErase = {}
  BY <1>1 DEF NamesInv, ModeInv, TimerInv, SweepInv
<1>3. /\ NewGame(readyPlayers) \in Event /\ NewGame(readyPlayers).type # "GAME_OVER"
      /\ << >> \in Seq(Event)
  BY DEF NewGame, Event, NamesInv, TimerInv, TypeOK
<1>4. LoggedIn(events', "GAME_OVER") = {}
  BY <1>1, <1>2, <1>3, NotOver, EmptyLog
<1>5. Cardinality(DOMAIN playerPos) \in Nat /\ Cardinality(DOMAIN playerPos) >= 2
  <2>1. DOMAIN playerPos = usedNames
    BY <1>1, AllAreReady
  <2>2. Cardinality(DOMAIN playerPos) \in Nat
    BY LeftOver DEF NamesInv
  <2> QED BY <1>1, <2>1, <2>2 DEF LobbyWaits
<1>6. Cardinality(LoggedIn(events', "GAME_OVER")) <= 1
  BY <1>4, NoneLogged
<1> QED BY <1>1, <1>2, <1>4, <1>5, <1>6 DEF EndInv, Ended

LEMMA NextKeepsEnd ==
  ASSUME OneNameEach
  PROVE  NamesInv /\ EndInv /\ [Next]_vars => EndInv'
<1> SUFFICES ASSUME NamesInv, EndInv, [Next]_vars PROVE EndInv'
  OBVIOUS
<1>1. TypeOK'
  BY NextKeepsTimerInv DEF NamesInv, TimerInv
<1>2. CASE Connect
  BY <1>1, <1>2, EndConnection
<1>3. CASE \E f \in Field \cup {Outside} : UpdateWorm(f)
  BY <1>3, EndUpdateWorm
<1>4. CASE \E f \in Field : PlaceWorm(f)
  BY <1>4, EndPlaceWorm
<1>5. CASE EndUpdate \/ EndStart
  BY <1>5, EndEnds
<1>6. CASE StartGame
  BY <1>6, EndStartGame
<1>7. CASE \/ \E i \in TimerId : Expire(i)
           \/ Poll \/ HandleTimeouts \/ NoConnection \/ HandleGameFrame \/ EndPoll
           \/ FinishGame \/ UNCHANGED vars
  BY <1>7, EndQuiet
<1> QED BY <1>2, <1>3, <1>4, <1>5, <1>6, <1>7 DEF Next, Handle

LEMMA EndInit == Init => NamesInv /\ EndInv
<1> SUFFICES ASSUME Init PROVE NamesInv /\ EndInv
  OBVIOUS
<1>1. events = << >> /\ pc = "while" /\ loop = "lobby"
  BY DEF Init
<1>2. Cardinality(LoggedIn(events, "GAME_OVER")) <= 1
  BY <1>1, NoneLogged
<1> QED BY <1>1, <1>2, InitNamesInv DEF EndInv

(***************************************************************************)
(* While every address keeps to one player name, GAME_OVER is in the log   *)
(* exactly when the game is not active any more, and only once, for any    *)
(* number of players, frames and expirations of the game timer in one      *)
(* read. (server.cpp:431-434, 490-492, 559-564)                            *)
(***************************************************************************)
THEOREM EndSafety ==
  ASSUME OneNameEach
  PROVE  Spec => []GameEndsOnce
<1>1. NamesInv /\ EndInv /\ [Next]_vars => (NamesInv /\ EndInv)'
  BY NextKeepsNamesInv, NextKeepsEnd
<1>2. EndInv => GameEndsOnce
  BY DEF EndInv, GameEndsOnce, Ended, LoggedIn, Logged
<1> QED BY <1>1, <1>2, EndInit, PTL DEF Spec

-----------------------------------------------------------------------------
(* The worms' numbers                                                      *)

\* While a game runs, or starts, every worm that has been placed has a number
\* below the length of the roster.
Playing == pc = "place" \/ loop = "game"
Placed  == DOMAIN playerPos \ (IF pc = "place" THEN todo ELSE {})
NumbersInv ==
  Playing =>
    /\ events # << >> /\ Cardinality(Roster(events)) \in Nat \ {0}
    /\ \A n \in Placed : playerPos[n].order < Cardinality(Roster(events))
    /\ InRoster(events)

LEMMA NumbersUpdate ==
  ASSUME NamesInv, NumbersInv, NEW f \in Field \cup {Outside}, UpdateWorm(f)
  PROVE  NumbersInv'
<1> DEFINE n == Least(todo)
<1>1. /\ pc = "update" /\ UNCHANGED <<pc, loop>> /\ loop = "game"
      /\ playerPos' = [playerPos EXCEPT ![n].pos = f]
  BY DEF UpdateWorm, control, NamesInv, ModeInv
<1>2. /\ n \in DOMAIN playerPos /\ playerPos[n].order \in Nat
      /\ Logs(playerPos[n].order)
  BY UpdateMoves DEF NamesInv
<1>3. /\ events # << >> /\ Cardinality(Roster(events)) \in Nat \ {0} /\ InRoster(events)
      /\ \A m \in DOMAIN playerPos : playerPos[m].order < Cardinality(Roster(events))
  BY <1>1 DEF NumbersInv, Playing, Placed
<1>4. InRoster(events') /\ events' # << >> /\ events'[1] = events[1]
  BY <1>2, <1>3, RosterOfLogs DEF NamesInv
<1>5. /\ DOMAIN playerPos' = DOMAIN playerPos
      /\ \A m \in DOMAIN playerPos : playerPos'[m].order = playerPos[m].order
  BY <1>1 DEF NamesInv, TimerInv, TypeOK, PlayerPos
<1> QED BY <1>1, <1>3, <1>4, <1>5 DEF NumbersInv, Playing, Placed, Roster

LEMMA NumbersPlace ==
  ASSUME NamesInv, EndInv, NumbersInv, NEW f \in Field, PlaceWorm(f)
  PROVE  NumbersInv'
<1> DEFINE n == Least(todo)
<1>1. /\ pc = "place" /\ UNCHANGED <<pc, loop>>
      /\ playerPos' = [playerPos EXCEPT ![n] = [pos |-> f, order |-> NextOrder]]
  BY DEF PlaceWorm, control
<1>2. /\ n \in todo /\ n \in DOMAIN playerPos
      /\ NextOrder \in Nat /\ NextOrder < Cardinality(DOMAIN playerPos)
      /\ Logs(NextOrder)
  BY PlaceMoves DEF NamesInv
<1>3. Roster(events) = DOMAIN playerPos
  BY <1>1 DEF NamesInv, RosterIsEveryone, Roster
<1>4. /\ events # << >> /\ Cardinality(Roster(events)) \in Nat \ {0} /\ InRoster(events)
      /\ \A m \in DOMAIN playerPos \ todo :
           playerPos[m].order < Cardinality(Roster(events))
  BY <1>1 DEF NumbersInv, Playing, Placed
<1>5. InRoster(events') /\ events' # << >> /\ events'[1] = events[1]
  BY <1>2, <1>3, <1>4, RosterOfLogs DEF NamesInv
<1>6. todo' = todo \ {n}
  BY EndPlaceWorm
<1>7. /\ DOMAIN playerPos' = DOMAIN playerPos
      /\ \A m \in DOMAIN playerPos :
           playerPos'[m] = IF m = n THEN [pos |-> f, order |-> NextOrder] ELSE playerPos[m]
  BY <1>1
<1>8. Placed' \subseteq Placed \cup {n} /\ Placed = DOMAIN playerPos \ todo
  BY <1>1, <1>6, <1>7 DEF Placed
<1> HIDE DEF n
<1>9. ASSUME NEW m \in Placed'
      PROVE  playerPos'[m].order < Cardinality(Roster(events))
  <2>1. CASE m = n
    BY <1>2, <1>3, <1>7, <2>1
  <2>2. CASE m # n
    BY <1>4, <1>7, <1>8, <1>9, <2>2
  <2> QED BY <2>1, <2>2
<1>10. Roster(events') = Roster(events)
  BY <1>5 DEF Roster
<1> QED BY <1>4, <1>5, <1>9, <1>10 DEF NumbersInv

LEMMA NumbersStart ==
  ASSUME NamesInv, StartGame
  PROVE  NumbersInv'
<1>1. /\ pc' = "place" /\ loop = "lobby" /\ ~LobbyWaits
      /\ events' = Append(events, NewGame(readyPlayers))
      /\ todo' = DOMAIN playerPos /\ UNCHANGED playerPos /\ pc # "place"
  BY DEF StartGame
<1>2. events = << >>
  BY <1>1 DEF NamesInv, ModeInv
<1>3. events' = <<NewGame(readyPlayers)>> /\ Roster(events') = readyPlayers
  BY <1>1, <1>2 DEF Roster, NewGame
<1>4. Cardinality(readyPlayers) \in Nat \ {0}
  <2>1. readyPlayers = DOMAIN playerPos /\ readyPlayers = usedNames
    BY <1>1, AllAreReady
  <2>2. Cardinality(readyPlayers) \in Nat
    BY <2>1, LeftOver DEF NamesInv
  <2> QED BY <1>1, <2>1, <2>2 DEF LobbyWaits
<1>5. /\ NewGame(readyPlayers) \in Event /\ NewGame(readyPlayers).type = "NEW_GAME"
      /\ << >> \in Seq(Event)
  BY DEF NewGame, Event, NamesInv, TimerInv, TypeOK
<1>6. InRoster(events')
  <2>1. ASSUME NEW type \in {"PIXEL", "PLAYER_ELIMINATED"}
        PROVE  LoggedIn(events', type) = {}
    <3> DEFINE none == << >>
               e    == NewGame(readyPlayers)
    <3>1. none \in Seq(Event) /\ e \in Event /\ e.type # type
      BY <1>5, <2>1
    <3>2. events' = Append(none, e) /\ LoggedIn(none, type) = {}
      BY <1>1, <1>2, EmptyLog
    <3> HIDE DEF none, e
    <3>3. LoggedIn(Append(none, e), type)
            = LoggedIn(none, type) \cup (IF e.type = type THEN {Len(none) + 1} ELSE {})
      BY <3>1, LoggedAppend
    <3> QED BY <3>1, <3>2, <3>3
  <2> QED BY <2>1 DEF InRoster
<1>7. Placed' = {}
  BY <1>1 DEF Placed
<1> QED BY <1>3, <1>4, <1>6, <1>7 DEF NumbersInv

\* A worm that is placed already keeps its number; a late one has number 0.
LEMMA NumbersKeep ==
  ASSUME NumbersInv, UNCHANGED events, Playing' => Playing,
         \A n \in Placed' :
           \/ n \in Placed /\ playerPos'[n].order = playerPos[n].order
           \/ playerPos'[n].order = 0
  PROVE  NumbersInv'
<1> SUFFICES ASSUME Playing'
             PROVE  /\ events # << >> /\ Cardinality(Roster(events)) \in Nat \ {0}
                    /\ \A n \in Placed' : playerPos'[n].order < Cardinality(Roster(events))
                    /\ InRoster(events)
  BY DEF NumbersInv
<1>1. /\ events # << >> /\ Cardinality(Roster(events)) \in Nat \ {0}
      /\ \A n \in Placed : playerPos[n].order < Cardinality(Roster(events))
      /\ InRoster(events)
  BY DEF NumbersInv
<1>2. 0 < Cardinality(Roster(events))
  BY <1>1
<1> QED BY <1>1, <1>2

LEMMA NumbersOther ==
  ASSUME NamesInv, NumbersInv,
         \/ \E i \in TimerId : Expire(i)
         \/ Poll \/ HandleTimeouts \/ Connect \/ NoConnection \/ HandleGameFrame
         \/ EndUpdate \/ EndPoll \/ EndStart \/ FinishGame \/ UNCHANGED vars
  PROVE  NumbersInv'
<1>1. CASE (\E i \in TimerId : Expire(i)) \/ UNCHANGED vars
  <2>1. UNCHANGED <<pc, loop, todo, events, playerPos>>
    BY <1>1 DEF Expire, vars, control, sweep, game
  <2> QED BY <2>1, NumbersKeep DEF Placed, Playing
<1>2. CASE Poll \/ NoConnection \/ HandleGameFrame \/ EndPoll
  <2>1. /\ UNCHANGED <<loop, events, playerPos>> /\ pc # "place" /\ pc' # "place"
    BY <1>2 DEF Poll, NoConnection, HandleGameFrame, EndPoll, game
  <2> QED BY <2>1, NumbersKeep DEF Placed, Playing
<1>3. CASE HandleTimeouts
  <2>1. /\ UNCHANGED <<loop, events>> /\ pc # "place" /\ pc' # "place"
        /\ \A n \in DOMAIN playerPos' :
             n \in DOMAIN playerPos /\ playerPos'[n] = playerPos[n]
    BY <1>3 DEF HandleTimeouts, Restrict, KeptWorms
  <2> QED BY <2>1, NumbersKeep DEF Placed, Playing
<1>4. CASE Connect
  <2>1. /\ UNCHANGED <<loop, events>> /\ pc # "place" /\ pc' # "place"
        /\ \/ UNCHANGED playerPos
           \/ \E n : playerPos' = Put(playerPos, n, DefaultPos)
    BY <1>4 DEF Connect, HandleConnection, UpdatePlayerState
  <2>2. ASSUME NEW n, playerPos' = Put(playerPos, n, DefaultPos), NEW m \in DOMAIN playerPos'
        PROVE  \/ m \in DOMAIN playerPos /\ playerPos'[m].order = playerPos[m].order
               \/ playerPos'[m].order = 0
    BY <2>2 DEF Put, DefaultPos
  <2>3. \A m \in DOMAIN playerPos' :
          \/ m \in DOMAIN playerPos /\ playerPos'[m].order = playerPos[m].order
          \/ playerPos'[m].order = 0
    BY <2>1, <2>2
  <2> QED BY <2>1, <2>3, NumbersKeep DEF Placed, Playing
<1>5. CASE EndUpdate \/ EndStart
  <2>1. /\ UNCHANGED events /\ pc' # "place"
        /\ pc = "place" \/ loop = "game"
        /\ pc = "place" => todo = {}
        /\ \A n \in DOMAIN playerPos' :
             n \in DOMAIN playerPos /\ playerPos'[n] = playerPos[n]
    BY <1>5 DEF EndUpdate, EndStart, Restrict, NamesInv, ModeInv
  <2> QED BY <2>1, NumbersKeep DEF Placed, Playing
<1>6. CASE FinishGame
  BY <1>6 DEF FinishGame, NumbersInv, Playing
<1> QED BY <1>1, <1>2, <1>3, <1>4, <1>5, <1>6

(* The state of a running game: its players, its end and its numbers. *)
GameInv == NamesInv /\ EndInv /\ NumbersInv

LEMMA InitGameInv == Init => GameInv
  BY EndInit DEF Init, GameInv, NumbersInv, Playing

LEMMA NextKeepsGameInv ==
  ASSUME OneNameEach
  PROVE  GameInv /\ [Next]_vars => GameInv'
<1> SUFFICES ASSUME GameInv, [Next]_vars PROVE GameInv'
  OBVIOUS
<1>1. NamesInv /\ EndInv /\ NumbersInv /\ NamesInv' /\ EndInv'
  BY NextKeepsNamesInv, NextKeepsEnd DEF GameInv
<1>2. CASE \E f \in Field \cup {Outside} : UpdateWorm(f)
  BY <1>1, <1>2, NumbersUpdate DEF GameInv
<1>3. CASE \E f \in Field : PlaceWorm(f)
  BY <1>1, <1>3, NumbersPlace DEF GameInv
<1>4. CASE StartGame
  BY <1>1, <1>4, NumbersStart DEF GameInv
<1>5. CASE \/ \E i \in TimerId : Expire(i)
           \/ Poll \/ HandleTimeouts \/ Connect \/ NoConnection \/ HandleGameFrame
           \/ EndUpdate \/ EndPoll \/ EndStart \/ FinishGame \/ UNCHANGED vars
  BY <1>1, <1>5, NumbersOther DEF GameInv
<1> QED BY <1>2, <1>3, <1>4, <1>5 DEF Next, Handle

(***************************************************************************)
(* While every address keeps to one player name, every number in the log   *)
(* is a place in its NEW_GAME, for any number of players, also of those    *)
(* who join a running game. (server.cpp:250-253, 323, 507-509)             *)
(***************************************************************************)
THEOREM NumberSafety ==
  ASSUME OneNameEach
  PROVE  Spec => []NumbersInRoster
<1>1. GameInv => NumbersInRoster
  <2> SUFFICES ASSUME GameInv PROVE NumbersInRoster
    OBVIOUS
  <2>1. CASE Playing
    BY <2>1 DEF GameInv, NumbersInv, InRoster, NumbersInRoster, LoggedIn, Logged, Roster
  <2>2. CASE ~Playing
    <3>1. events = << >>
      BY <2>2 DEF Playing, GameInv, NamesInv, ModeInv, TimerInv, TypeOK
    <3> QED BY <3>1, EmptyLog DEF NumbersInRoster, Logged, LoggedIn
  <2> QED BY <2>1, <2>2
<1> QED BY <1>1, InitGameInv, NextKeepsGameInv, PTL DEF Spec

-----------------------------------------------------------------------------
(***************************************************************************)
(* The server implements GameLog.  The opening is over when every worm is  *)
(* placed, since each of them is logged once; and a frame is simulated     *)
(* after the end only if the read of the game timer returned more than it. *)
(***************************************************************************)
LogInv ==
  /\ pc = "place" => Len(events) = 1 + Cardinality(DOMAIN playerPos \ todo)
  /\ loop = "game" => Len(events) > Cardinality(Roster(events))
  /\ pc = "update" =>
       reps <= MaxReps /\ (Ended(events) /\ todo # {} => reps < MaxReps)

RefInv == GameInv /\ PixelInv /\ LogInv

\* What the parts of the invariant say of the types and of the place.
LEMMA GameTypes ==
  ASSUME GameInv
  PROVE  /\ TypeOK /\ SweepInv /\ TimerInv /\ NamesInv /\ EndInv /\ NumbersInv
         /\ events \in Seq(Event) /\ Len(events) \in Nat
         /\ DOMAIN playerPos \subseteq Name /\ IsFiniteSet(DOMAIN playerPos)
         /\ pc = "place" => Roster(events) = DOMAIN playerPos /\ toErase = {}
         /\ Playing => events # << >> /\ Cardinality(Roster(events)) \in Nat \ {0}
         /\ ~Playing => events = << >>
<1>1. TypeOK /\ SweepInv /\ TimerInv /\ NamesInv /\ EndInv /\ NumbersInv
  BY DEF GameInv, NamesInv, TimerInv
<1>2. /\ events \in Seq(Event) /\ Len(events) \in Nat
      /\ DOMAIN playerPos \subseteq Name /\ IsFiniteSet(DOMAIN playerPos)
  BY <1>1, NameAssumption, FS_Subset DEF TypeOK
<1>3. pc = "place" => Roster(events) = DOMAIN playerPos /\ toErase = {}
  BY <1>1 DEF NamesInv, RosterIsEveryone, Roster, EndInv
<1>4. /\ Playing => events # << >> /\ Cardinality(Roster(events)) \in Nat \ {0}
      /\ ~Playing => events = << >>
  BY <1>1 DEF NumbersInv, Playing, NamesInv, ModeInv, TypeOK
<1> QED BY <1>1, <1>2, <1>3, <1>4

\* One event makes the log longer by one and keeps the roster.
LEMMA OneLonger ==
  ASSUME GameInv, Playing, NEW k \in Nat, Announces(k) \/ DrawsNew(k)
  PROVE  Len(events') = Len(events) + 1 /\ Roster(events') = Roster(events)
<1>1. events \in Seq(Event) /\ events # << >>
  BY GameTypes
<1>2. PICK e \in Event : events' = Append(events, e)
  BY EventTypes, FieldAssumption DEF Announces, DrawsNew, Draws
<1> QED BY <1>1, <1>2 DEF Roster

LEMMA TwoLonger ==
  ASSUME GameInv, Playing, NEW k \in Nat, Ends(k)
  PROVE  Len(events') = Len(events) + 2 /\ Roster(events') = Roster(events)
<1>1. events \in Seq(Event) /\ events # << >>
  BY GameTypes
<1>2. PlayerEliminated(k) \in Event /\ GameOver \in Event
  BY EventTypes, FieldAssumption
<1> QED BY <1>1, <1>2 DEF Ends, Roster

LEMMA LogUpdate ==
  ASSUME GameInv, LogInv, NEW f \in Field \cup {Outside}, UpdateWorm(f)
  PROVE  LogInv'
<1> DEFINE n == Least(todo)
           k == playerPos[n].order
<1>1. /\ pc = "update" /\ loop = "game" /\ UNCHANGED <<pc, loop, reps>> /\ Playing
  BY GameTypes DEF UpdateWorm, control, NamesInv, ModeInv, Playing
<1>2. n \in todo /\ k \in Nat /\ Moves(n, k)
  BY UpdateMoves, GameTypes
<1> HIDE DEF n, k
<1>3. /\ Len(events) \in Nat /\ Cardinality(Roster(events)) \in Nat
      /\ Len(events) > Cardinality(Roster(events))
      /\ reps <= MaxReps /\ (Ended(events) => reps < MaxReps)
  BY <1>1, <1>2, GameTypes DEF LogInv
<1>4. CASE /\ UNCHANGED events \/ DrawsNew(k) \/ Announces(k)
           /\ todo' = todo \ {n}
  <2>1. LoggedIn(events', "GAME_OVER") = LoggedIn(events, "GAME_OVER")
    BY <1>2, <1>4, GoesOnOver, GameTypes DEF GoesOn, DrawsNew
  <2>2. Len(events') >= Len(events) /\ Roster(events') = Roster(events)
    BY <1>1, <1>2, <1>3, <1>4, OneLonger
  <2>3. Len(events') \in Nat
    BY <1>1, <1>2, <1>3, <1>4, OneLonger
  <2> QED BY <1>1, <1>3, <1>4, <2>1, <2>2, <2>3 DEF LogInv, Ended
<1>5. CASE Ends(k) /\ todo' = {}
  <2>1. Len(events') = Len(events) + 2 /\ Roster(events') = Roster(events)
    BY <1>1, <1>2, <1>5, TwoLonger
  <2> QED BY <1>1, <1>3, <1>5, <2>1 DEF LogInv
<1> QED BY <1>2, <1>4, <1>5 DEF Moves

LEMMA LogPlace ==
  ASSUME GameInv, LogInv, NEW f \in Field, PlaceWorm(f)
  PROVE  LogInv'
<1> DEFINE n    == Least(todo)
           done == DOMAIN playerPos \ todo
           more == DOMAIN playerPos' \ todo'
<1>1. /\ pc = "place" /\ loop = "lobby" /\ UNCHANGED <<pc, loop>> /\ Playing
      /\ DOMAIN playerPos' = DOMAIN playerPos
  BY GameTypes DEF PlaceWorm, control, NamesInv, ModeInv, Playing
<1>2. /\ n \in todo /\ n \in DOMAIN playerPos /\ NextOrder \in Nat
      /\ ~OneLeft(toErase) => Announces(NextOrder) \/ DrawsNew(NextOrder)
  BY PlaceMoves, GameTypes
<1>3. ~OneLeft(toErase)
  BY <1>1, FS_EmptySet, LeftOver, GameTypes DEF OneLeft, EndInv
<1>4. Len(events') = Len(events) + 1
  BY <1>1, <1>2, <1>3, OneLonger
<1>5. todo' = todo \ {n}
  BY EndPlaceWorm, GameTypes
<1>6. more = done \cup {n} /\ n \notin done
  BY <1>1, <1>2, <1>5
<1>7. IsFiniteSet(done)
  BY FS_Difference, GameTypes
<1> HIDE DEF n, done, more
<1>8. Cardinality(done \cup {n}) = Cardinality(done) + 1 /\ Cardinality(done) \in Nat
  BY <1>6, <1>7, FS_AddElement, FS_CardinalityType
<1>9. Len(events) = 1 + Cardinality(done)
  BY <1>1 DEF LogInv, done
<1>10. Len(events') = 1 + Cardinality(more)
  BY <1>4, <1>6, <1>8, <1>9
<1> QED BY <1>1, <1>10 DEF LogInv, more

LEMMA LogOther ==
  ASSUME GameInv, LogInv,
         \/ \E i \in TimerId : Expire(i)
         \/ Poll \/ HandleTimeouts \/ Connect \/ NoConnection \/ HandleGameFrame
         \/ EndUpdate \/ EndPoll \/ StartGame \/ EndStart \/ FinishGame
         \/ UNCHANGED vars
  PROVE  LogInv'
<1>1. CASE (\E i \in TimerId : Expire(i)) \/ UNCHANGED vars
  <2>1. UNCHANGED <<pc, loop, reps, todo, events, playerPos>>
    BY <1>1 DEF Expire, vars, control, sweep, game
  <2> QED BY <2>1 DEF LogInv, Ended
<1>2. CASE Poll \/ HandleTimeouts \/ Connect \/ NoConnection \/ EndPoll
  <2>1. UNCHANGED <<loop, events>> /\ pc' \notin {"place", "update"}
    BY <1>2 DEF Poll, HandleTimeouts, Connect, HandleConnection, NoConnection, EndPoll, game
  <2> QED BY <2>1 DEF LogInv
<1>3. CASE HandleGameFrame
  <2>1. /\ UNCHANGED <<loop, events, active>> /\ pc = "frame" /\ pc' \in {"update", "check"}
        /\ pc' = "update" => active /\ reps' \in 0..MaxReps
    BY <1>3 DEF HandleGameFrame, game
  <2>2. active => ~Ended(events)
    BY <2>1, GameTypes DEF EndInv, NamesInv, ModeInv, TypeOK
  <2>3. pc' = "update" => reps' <= MaxReps /\ ~Ended(events')
    BY <2>1, <2>2, BoundAssumption
  <2> QED BY <2>1, <2>3 DEF LogInv
<1>4. CASE EndUpdate
  <2>1. /\ UNCHANGED <<loop, events>> /\ pc = "update" /\ pc' \in {"update", "check"}
        /\ reps' = reps - 1
    BY <1>4 DEF EndUpdate
  <2>2. reps \in Nat /\ reps <= MaxReps
    BY <2>1, GameTypes DEF LogInv, TypeOK
  <2>3. reps' <= MaxReps /\ reps' < MaxReps
    BY <2>1, <2>2, BoundAssumption
  <2> QED BY <2>1, <2>3 DEF LogInv
<1>5. CASE StartGame
  <2>1. /\ pc' = "place" /\ loop' = "lobby" /\ ~Playing
        /\ events' = Append(events, NewGame(readyPlayers))
        /\ todo' = DOMAIN playerPos /\ UNCHANGED playerPos
    BY <1>5 DEF StartGame, Playing
  <2>2. Len(events') = 1
    BY <2>1, GameTypes
  <2>3. Cardinality(DOMAIN playerPos' \ todo') = 0
    BY <2>1, FS_EmptySet
  <2> QED BY <2>1, <2>2, <2>3 DEF LogInv
<1>6. CASE EndStart
  <2>1. pc = "place" /\ pc' = "while" /\ todo = {} /\ UNCHANGED events
    BY <1>6 DEF EndStart
  <2>2. DOMAIN playerPos \ todo = Roster(events)
    BY <2>1, GameTypes
  <2>3. Cardinality(Roster(events)) \in Nat /\ Len(events) = 1 + Cardinality(Roster(events))
    BY <2>1, <2>2, GameTypes DEF LogInv, Playing
  <2>4. Len(events) > Cardinality(Roster(events))
    BY <2>3
  <2> QED BY <2>1, <2>4 DEF LogInv
<1>7. CASE FinishGame
  BY <1>7 DEF FinishGame, LogInv
<1> QED BY <1>1, <1>2, <1>3, <1>4, <1>5, <1>6, <1>7

LEMMA InitRefInv == Init => RefInv
<1>1. Init => PixelInv
  BY EmptyLog DEF Init, PixelInv
<1> QED BY <1>1, InitGameInv DEF Init, RefInv, LogInv

LEMMA NextKeepsRefInv ==
  ASSUME OneNameEach
  PROVE  RefInv /\ [Next]_vars => RefInv'
<1> SUFFICES ASSUME RefInv, [Next]_vars PROVE RefInv'
  OBVIOUS
<1>1. GameInv /\ PixelInv /\ LogInv /\ TimerInv
  BY GameTypes DEF RefInv
<1>2. GameInv' /\ PixelInv'
  BY <1>1, NextKeepsGameInv, NextKeepsPixels
<1>3. CASE \E f \in Field \cup {Outside} : UpdateWorm(f)
  BY <1>1, <1>2, <1>3, LogUpdate DEF RefInv
<1>4. CASE \E f \in Field : PlaceWorm(f)
  BY <1>1, <1>2, <1>4, LogPlace DEF RefInv
<1>5. CASE \/ \E i \in TimerId : Expire(i)
           \/ Poll \/ HandleTimeouts \/ Connect \/ NoConnection \/ HandleGameFrame
           \/ EndUpdate \/ EndPoll \/ StartGame \/ EndStart \/ FinishGame
           \/ UNCHANGED vars
  BY <1>1, <1>2, <1>5, LogOther DEF RefInv
<1> QED BY <1>3, <1>4, <1>5 DEF Next, Handle

\* The worms GameLog speaks of, and what it takes for the state of the log.
Numbers == [n \in InGame |-> playerPos[n].order]

LEMMA SameNumbers ==
  ASSUME InGame' = InGame, \A n \in InGame : playerPos'[n].order = playerPos[n].order
  PROVE  Numbers' = Numbers
BY DEF Numbers

LEMMA InGameIs ==
  ASSUME GameInv
  PROVE  /\ InGame \subseteq DOMAIN playerPos /\ IsFiniteSet(InGame)
         /\ ~Playing => InGame = {}
         /\ pc = "place" => InGame = DOMAIN playerPos \ todo
         /\ Playing /\ pc # "place" => InGame = Alive
         /\ pc \notin {"place", "update"} /\ Playing => InGame = DOMAIN playerPos
<1>1. InGame \subseteq DOMAIN playerPos /\ (~Playing => InGame = {})
  BY GameTypes DEF InGame
<1>2. IsFiniteSet(InGame)
  BY <1>1, GameTypes, FS_Subset
<1>3. Playing => InGame = DOMAIN playerPos \ (toErase \cup ToPlace)
  BY GameTypes DEF InGame
<1>4. /\ pc = "place" => InGame = DOMAIN playerPos \ todo
      /\ Playing /\ pc # "place" => InGame = Alive
  BY <1>3, GameTypes DEF ToPlace, Alive, Playing
<1>5. pc \notin {"place", "update"} => toErase = {}
  BY GameTypes DEF SweepInv
<1> QED BY <1>1, <1>2, <1>4, <1>5 DEF Alive

\* GameLog counts as the server does.
LEMMA SameCardinality ==
  ASSUME NEW S
  PROVE  Promise!Cardinality(S) = Cardinality(S)
BY DEF Promise!Cardinality, Cardinality

LEMMA LogStates ==
  ASSUME GameInv, LogInv
  PROVE  /\ Promise!Over <=> Ended(events)
         /\ Promise!Eaten = Fields(events)
         /\ Promise!Roster = Roster(events)
         /\ loop = "game" /\ ~Ended(events) => Promise!Running
         /\ pc = "place" /\ todo # {} => Promise!Opening
<1>1. Promise!Over <=> Ended(events)
  BY DEF Promise!Over, Promise!Logged, Ended, LoggedIn
<1>2. Promise!Eaten = Fields(events) /\ Promise!Roster = Roster(events)
  BY DEF Promise!Eaten, Promise!Logged, Fields, LoggedIn, Promise!Roster, Roster
<1>3. loop = "game" => events # << >> /\ ~Promise!Opening
  <2> SUFFICES ASSUME loop = "game"
               PROVE  events # << >> /\ ~Promise!Opening
    OBVIOUS
  <2>1. /\ events # << >> /\ Len(events) \in Nat /\ Cardinality(Roster(events)) \in Nat
        /\ Len(events) > Cardinality(Roster(events))
    BY GameTypes DEF LogInv, Playing
  <2>2. Promise!Cardinality(Promise!Roster) = Cardinality(Roster(events))
    BY <1>2, SameCardinality
  <2> QED BY <2>1, <2>2 DEF Promise!Opening
<1>4. pc = "place" /\ todo # {} => Promise!Opening
  <2> SUFFICES ASSUME pc = "place", todo # {} PROVE Promise!Opening
    OBVIOUS
  <2> DEFINE D    == DOMAIN playerPos
             done == D \ todo
  <2>1. /\ events # << >> /\ Len(events) = 1 + Cardinality(done)
        /\ Roster(events) = D /\ IsFiniteSet(D) /\ todo \subseteq D
    BY GameTypes DEF LogInv, Playing, TypeOK
  <2>2. done \subseteq D /\ done # D
    BY <2>1
  <2> HIDE DEF D, done
  <2>3. /\ Cardinality(done) \in Nat /\ Cardinality(D) \in Nat
        /\ Cardinality(done) <= Cardinality(D) /\ Cardinality(done) # Cardinality(D)
    BY <2>1, <2>2, FS_Subset, FS_CardinalityType
  <2>4. Len(events) <= Cardinality(D)
    BY <2>1, <2>3
  <2>5. Promise!Cardinality(Promise!Roster) = Cardinality(D)
    BY <1>2, <2>1, SameCardinality
  <2> QED BY <2>1, <2>4, <2>5 DEF Promise!Opening
<1> QED BY <1>1, <1>2, <1>3, <1>4 DEF Promise!Running

LEMMA StartRefines ==
  ASSUME RefInv, RefInv', StartGame
  PROVE  Promise!Start
<1>1. /\ pc = "while" /\ pc' = "place" /\ loop = "lobby" /\ ~LobbyWaits
      /\ events' = Append(events, NewGame(readyPlayers))
      /\ todo' = DOMAIN playerPos /\ UNCHANGED playerPos
  BY DEF StartGame
<1>2. events = << >> /\ GameInv /\ GameInv' /\ NamesInv
  BY <1>1, GameTypes DEF Playing, RefInv
<1>3. readyPlayers \in SUBSET Name /\ Cardinality(readyPlayers) >= 2
  <2>1. readyPlayers = DOMAIN playerPos /\ readyPlayers = usedNames
    BY <1>1, <1>2, AllAreReady
  <2>2. Cardinality(readyPlayers) \in Nat
    BY <1>2, <2>1, LeftOver DEF NamesInv
  <2> QED BY <1>1, <1>2, <2>1, <2>2, GameTypes DEF LobbyWaits, TypeOK
<1>4. Promise!Cardinality(readyPlayers) >= 2
  BY <1>3, SameCardinality
<1>5. events' = <<Promise!NewGame(readyPlayers)>>
  BY <1>1, <1>2 DEF NewGame, Promise!NewGame
<1>6. InGame = {} /\ InGame' = {}
  BY <1>1, <1>2 DEF InGame, ToPlace
<1>7. Numbers' = Numbers
  BY <1>6, SameNumbers
<1> QED BY <1>2, <1>3, <1>4, <1>5, <1>7 DEF Promise!Start, Numbers

LEMMA PlaceRefines ==
  ASSUME RefInv, RefInv', NEW f \in Field, PlaceWorm(f)
  PROVE  Promise!Place
<1> DEFINE n    == Least(todo)
           rest == Roster(events) \ InGame
<1>1. /\ pc = "place" /\ todo # {} /\ UNCHANGED <<pc, loop>> /\ Playing
      /\ playerPos' = [playerPos EXCEPT ![n] = [pos |-> f, order |-> NextOrder]]
  BY DEF PlaceWorm, control, Playing
<1>2. /\ GameInv /\ GameInv' /\ LogInv /\ NamesInv /\ EndInv /\ TimerInv /\ TypeOK
      /\ Fields(events) = eatenFields
  BY GameTypes DEF RefInv, PixelInv
<1>3. /\ n \in todo /\ n \in DOMAIN playerPos /\ NextOrder \in Nat
      /\ \A m \in todo : n <= m
  <2>1. todo \in SUBSET Nat
    BY <1>2, NameAssumption DEF TypeOK
  <2> QED BY <1>1, <1>2, <2>1, LeastIsMember, PlaceMoves
<1>4. /\ Announces(NextOrder) \/ DrawsNew(NextOrder)
      /\ UNCHANGED toErase
  <2>1. ~OneLeft(toErase)
    BY <1>1, <1>2, FS_EmptySet, LeftOver DEF OneLeft, EndInv
  <2> QED BY <1>2, <2>1, PlaceMoves
<1>5. todo' = todo \ {n}
  BY <1>2, EndPlaceWorm
<1> HIDE DEF n
<1>6. /\ DOMAIN playerPos' = DOMAIN playerPos
      /\ \A m \in DOMAIN playerPos :
           playerPos'[m] = IF m = n THEN [pos |-> f, order |-> NextOrder] ELSE playerPos[m]
  BY <1>1
<1>7. InGame = DOMAIN playerPos \ todo /\ InGame' = DOMAIN playerPos' \ todo'
  <2>1. InGame = DOMAIN playerPos \ todo
    BY <1>1, <1>2, InGameIs
  <2>2. events' # << >> /\ toErase' = {} /\ ToPlace' = todo'
    BY <1>1, <1>2, <1>4 DEF ToPlace, EndInv, GameInv, NumbersInv, Playing
  <2> QED BY <2>1, <2>2 DEF InGame
<1>8. todo \subseteq DOMAIN playerPos /\ rest = todo /\ InGame' = InGame \cup {n}
  <2>1. todo \subseteq DOMAIN playerPos /\ Roster(events) = DOMAIN playerPos
    BY <1>1, <1>2, GameTypes DEF TypeOK
  <2> QED BY <1>3, <1>5, <1>6, <1>7, <2>1
<1>9. Len(events) - 1 = NextOrder
  <2>1. Len(events) = 1 + Cardinality(DOMAIN playerPos \ todo)
    BY <1>1, <1>2 DEF LogInv
  <2> QED BY <1>3, <2>1 DEF NextOrder
<1>10. Numbers' = [m \in DOMAIN Numbers \cup {n} |->
                     IF m = n THEN NextOrder ELSE Numbers[m]]
  <2>1. DOMAIN Numbers = InGame
    BY DEF Numbers
  <2>2. \A m \in InGame \cup {n} :
          playerPos'[m].order = IF m = n THEN NextOrder ELSE playerPos[m].order
    BY <1>3, <1>6, <1>7
  <2> QED BY <1>8, <2>1, <2>2 DEF Numbers
<1>11. /\ Promise!Opening /\ Promise!Eaten = eatenFields
       /\ Promise!Roster = Roster(events)
  BY <1>1, <1>2, LogStates
<1>12. \/ \E g \in Field \ eatenFields : events' = Append(events, Promise!Pixel(NextOrder, g))
       \/ events' = Append(events, Promise!PlayerEliminated(NextOrder))
  BY <1>4 DEF Announces, DrawsNew, Draws, Pixel, PlayerEliminated, Promise!Pixel,
              Promise!PlayerEliminated
<1>13. n \in rest /\ \A m \in rest : n <= m
  BY <1>3, <1>8
<1>14. DOMAIN Numbers = InGame
  BY DEF Numbers
<1> DEFINE number == Len(events) - 1
<1>15. /\ Numbers' = [m \in DOMAIN Numbers \cup {n} |->
                        IF m = n THEN number ELSE Numbers[m]]
       /\ \/ \E g \in Field \ Promise!Eaten : events' = Append(events, Promise!Pixel(number, g))
          \/ events' = Append(events, Promise!PlayerEliminated(number))
  BY <1>9, <1>10, <1>11, <1>12
<1>16. n \in Promise!Roster \ DOMAIN Numbers
       /\ \A m \in Promise!Roster \ DOMAIN Numbers : n <= m
  BY <1>11, <1>13, <1>14
<1> QED BY <1>11, <1>15, <1>16 DEF Promise!Place, Numbers

LEMMA CloseRefines ==
  ASSUME RefInv, FinishGame
  PROVE  Promise!Close
<1>1. /\ pc = "while" /\ loop = "game" /\ ~active /\ events' = << >>
  BY DEF FinishGame
<1>2. GameInv /\ LogInv /\ EndInv
  BY GameTypes DEF RefInv
<1>3. Promise!Over
  BY <1>1, <1>2, LogStates DEF EndInv
<1>4. InGame' = {}
  BY <1>1 DEF InGame
<1> QED BY <1>1, <1>3, <1>4 DEF Promise!Close

\* A worm that moves in a frame moves, or is eliminated, for GameLog too.
LEMMA WormRefines ==
  ASSUME RefInv, RefInv', NEW f \in Field \cup {Outside}, UpdateWorm(f)
  PROVE  \/ UNCHANGED <<events, Numbers>>
         \/ \E n \in DOMAIN Numbers : Promise!Eats(n) \/ Promise!Eliminated(n)
<1> DEFINE n == Least(todo)
           k == playerPos[n].order
<1>1. /\ pc = "update" /\ loop = "game" /\ UNCHANGED <<pc, loop>> /\ Playing
      /\ playerPos' = [playerPos EXCEPT ![n].pos = f]
  BY GameTypes DEF UpdateWorm, control, NamesInv, ModeInv, Playing, RefInv
<1>2. /\ GameInv /\ GameInv' /\ LogInv /\ EndInv /\ TimerInv /\ TypeOK
      /\ Fields(events) = eatenFields /\ events \in Seq(Event)
  BY GameTypes DEF RefInv, PixelInv
<1>3. n \in todo /\ n \in DOMAIN playerPos /\ k \in Nat /\ Moves(n, k)
  BY <1>2, UpdateMoves
<1>4. /\ DOMAIN playerPos' = DOMAIN playerPos
      /\ \A m \in DOMAIN playerPos : playerPos'[m].order = playerPos[m].order
  BY <1>1, <1>2 DEF TypeOK, PlayerPos
<1>5. InGame = Alive /\ InGame' = DOMAIN playerPos' \ toErase'
  <2>1. InGame = Alive
    BY <1>1, <1>2, InGameIs
  <2>2. events' # << >> /\ ToPlace' = {}
    BY <1>1, <1>2 DEF ToPlace, GameInv, NumbersInv, Playing
  <2> QED BY <2>1, <2>2 DEF InGame
<1>6. n \in Alive /\ DOMAIN Numbers = Alive /\ Numbers[n] = k
  BY <1>1, <1>2, <1>3, <1>5 DEF Alive, EndInv, Numbers
<1>7. Promise!Eaten = eatenFields
  BY <1>2, LogStates
<1> HIDE DEF n, k
<1>8. CASE /\ UNCHANGED events \/ DrawsNew(k)
           /\ UNCHANGED toErase
  <2>1. Numbers' = Numbers
    BY <1>4, <1>5, <1>8, SameNumbers DEF Alive
  <2>2. CASE UNCHANGED events
    BY <2>1, <2>2
  <2>3. CASE DrawsNew(k)
    <3>1. \E g \in Field \ Promise!Eaten : events' = Append(events, Promise!Pixel(Numbers[n], g))
      BY <1>6, <1>7, <2>3 DEF DrawsNew, Draws, Pixel, Promise!Pixel
    <3>2. Promise!Eats(n)
      BY <2>1, <3>1 DEF Promise!Eats, Numbers
    <3> QED BY <1>6, <3>2
  <2> QED BY <1>8, <2>2, <2>3
<1>9. CASE /\ \/ Announces(k) /\ ~OneLeft(toErase \cup {n})
              \/ Ends(k) /\ OneLeft(toErase \cup {n})
           /\ toErase' = toErase \cup {n}
  <2>1. InGame' = Alive \ {n}
    BY <1>4, <1>5, <1>9 DEF Alive
  <2>2. Numbers' = [m \in DOMAIN Numbers \ {n} |-> Numbers[m]]
    BY <1>4, <1>5, <1>6, <2>1 DEF Numbers, Alive
  <2>3. OneLeft(toErase \cup {n}) <=> Cardinality(Alive) = 2
    <3> DEFINE erased == toErase \cup {n}
               rest   == DOMAIN playerPos \ erased
    <3>1. erased \subseteq DOMAIN playerPos
      BY <1>2, <1>3 DEF TypeOK
    <3>2. /\ OneLeft(erased) <=> Cardinality(rest) = 1
          /\ Cardinality(rest) \in Nat
      BY <1>2, <3>1, LeftOver
    <3>3. IsFiniteSet(Alive) /\ Cardinality(Alive) \in Nat
      BY <1>2, LeftOver DEF Alive, TypeOK
    <3>4. rest = Alive \ {n}
      BY DEF Alive
    <3> HIDE DEF rest, erased
    <3>5. Cardinality(rest) = Cardinality(Alive) - 1
      BY <1>6, <3>3, <3>4, FS_RemoveElement
    <3> QED BY <3>2, <3>3, <3>5 DEF erased
  <2>4. Promise!Cardinality(DOMAIN Numbers) = Cardinality(Alive)
    BY <1>6, SameCardinality
  <2>5. PlayerEliminated(k) \in Event /\ GameOver \in Event
    BY <1>2, <1>3, EventTypes, FieldAssumption DEF k
  <2>6. Ends(k) => events' = events \o <<PlayerEliminated(k), GameOver>>
    BY <1>2, <2>5, TwoEvents DEF Ends
  <2> DEFINE gone == Promise!PlayerEliminated(Numbers[n])
  <2>7. gone = PlayerEliminated(k) /\ Promise!GameOver = GameOver
    BY <1>6 DEF PlayerEliminated, Promise!PlayerEliminated, GameOver, Promise!GameOver
  <2>8. IF Promise!Cardinality(DOMAIN Numbers) = 2
        THEN events' = events \o <<gone, Promise!GameOver>>
        ELSE events' = Append(events, gone)
    BY <1>9, <2>3, <2>4, <2>6, <2>7 DEF Announces
  <2>9. PICK m \in DOMAIN Numbers : m = n
    BY <1>6
  <2>10. Promise!Eliminated(m)
    BY <2>2, <2>8, <2>9 DEF Promise!Eliminated, Promise!Leaves, Numbers
  <2> QED BY <2>10
<1> QED BY <1>3, <1>8, <1>9 DEF Moves

LEMMA UpdateRefines ==
  ASSUME RefInv, RefInv', NEW f \in Field \cup {Outside}, UpdateWorm(f)
  PROVE  Promise!Move \/ Promise!Trail \/ UNCHANGED <<events, Numbers>>
<1>1. /\ GameInv /\ LogInv /\ pc = "update" /\ loop = "game" /\ todo # {}
      /\ reps \in Nat /\ reps > 0
  BY GameTypes DEF RefInv, UpdateWorm, NamesInv, ModeInv, TypeOK, SweepInv
<1>2. CASE UNCHANGED <<events, Numbers>>
  BY <1>2
<1>3. CASE \E n \in DOMAIN Numbers : Promise!Eats(n) \/ Promise!Eliminated(n)
  <2>1. CASE Ended(events)
    <3>1. reps < MaxReps
      BY <1>1, <2>1 DEF LogInv
    <3>2. MaxReps > 1
      BY <1>1, <3>1, BoundAssumption
    <3>3. Promise!Over
      BY <1>1, <2>1, LogStates
    <3> QED BY <1>3, <3>2, <3>3 DEF Promise!Trail, Numbers
  <2>2. CASE ~Ended(events)
    <3>1. Promise!Running
      BY <1>1, <2>2, LogStates
    <3> QED BY <1>3, <3>1 DEF Promise!Move, Numbers
  <2> QED BY <2>1, <2>2
<1> QED BY <1>2, <1>3, WormRefines

\* A datagram of a player without a worm, in a running game, adds one.
LEMMA ConnectRefines ==
  ASSUME RefInv, RefInv', Connect
  PROVE  Promise!Join \/ UNCHANGED <<events, Numbers>>
<1>1. /\ pc = "connection" /\ pc' = "frame" /\ UNCHANGED <<loop, toErase, active, events>>
      /\ \/ UNCHANGED playerPos
         \/ \E n \in Name \ DOMAIN playerPos : playerPos' = Put(playerPos, n, DefaultPos)
  <2>1. PICK a \in Addr, s \in Session, turning \in BOOLEAN :
          HandleConnection(a, s, turning)
    BY DEF Connect
  <2>2. NameOf[a][s] \in Name \cup {NoName}
    BY NameOfAssumption
  <2>3. \/ UNCHANGED playerPos
        \/ /\ NameOf[a][s] \in Name \ DOMAIN playerPos
           /\ playerPos' = Put(playerPos, NameOf[a][s], DefaultPos)
    BY <2>1, <2>2 DEF HandleConnection, UpdatePlayerState
  <2> QED BY <2>1, <2>3 DEF HandleConnection, sweep
<1>2. GameInv /\ GameInv' /\ LogInv /\ EndInv /\ NamesInv
  BY GameTypes DEF RefInv
<1>3. CASE ~Playing
  <2>1. events = << >> /\ events' = << >>
    BY <1>1, <1>2, <1>3, GameTypes
  <2>2. InGame = {} /\ InGame' = {}
    BY <2>1 DEF InGame
  <2> QED BY <2>1, <2>2, SameNumbers
<1>4. CASE Playing /\ UNCHANGED playerPos
  <2>1. toErase' = toErase /\ ToPlace = {} /\ ToPlace' = {}
    BY <1>1 DEF ToPlace
  <2>2. InGame' = InGame
    BY <1>1, <1>4, <2>1 DEF InGame
  <2> QED BY <1>1, <1>4, <2>2, SameNumbers
<1>5. ASSUME Playing, NEW n \in Name \ DOMAIN playerPos,
             playerPos' = Put(playerPos, n, DefaultPos)
      PROVE  Promise!Join
  <2>1. loop = "game" /\ ~Ended(events) /\ events # << >>
    BY <1>1, <1>2, <1>5, GameTypes DEF Playing, EndInv
  <2>2. Promise!Running
    BY <1>2, <2>1, LogStates
  <2>3. InGame = DOMAIN playerPos /\ toErase = {}
    BY <1>1, <1>2, <1>5, InGameIs, GameTypes DEF SweepInv
  <2>4. /\ DOMAIN playerPos' = DOMAIN playerPos \cup {n}
        /\ \A m \in DOMAIN playerPos \cup {n} :
             playerPos'[m].order = IF m = n THEN 0 ELSE playerPos[m].order
    BY <1>5 DEF Put, DefaultPos
  <2>5. InGame' = InGame \cup {n}
    BY <1>1, <2>1, <2>3, <2>4 DEF InGame, ToPlace
  <2>6. Numbers' = [m \in DOMAIN Numbers \cup {n} |-> IF m = n THEN 0 ELSE Numbers[m]]
    BY <2>3, <2>4, <2>5 DEF Numbers
  <2>7. n \in Name \ DOMAIN Numbers
    BY <1>5, <2>3 DEF Numbers
  <2> QED BY <1>1, <2>2, <2>6, <2>7 DEF Promise!Join, Numbers
<1> QED BY <1>1, <1>3, <1>4, <1>5

LEMMA QuietRefines ==
  ASSUME RefInv, RefInv',
         \/ \E i \in TimerId : Expire(i)
         \/ Poll \/ HandleTimeouts \/ NoConnection \/ HandleGameFrame
         \/ EndUpdate \/ EndPoll \/ EndStart \/ UNCHANGED vars
  PROVE  UNCHANGED <<events, Numbers>>
<1>1. /\ GameInv /\ EndInv /\ SweepInv /\ NamesInv
      /\ toErase \subseteq DOMAIN playerPos
  BY GameTypes DEF RefInv, TypeOK
<1>2. CASE (\E i \in TimerId : Expire(i)) \/ UNCHANGED vars
  <2>1. UNCHANGED <<pc, todo, toErase, events, playerPos>>
    BY <1>2 DEF Expire, vars, control, sweep, game
  <2>2. InGame' = InGame
    BY <2>1 DEF InGame, ToPlace
  <2> QED BY <2>1, <2>2, SameNumbers
<1>3. CASE Poll \/ NoConnection \/ HandleGameFrame \/ EndPoll
  <2>1. /\ pc # "place" /\ pc' # "place" /\ UNCHANGED <<toErase, events, playerPos>>
    BY <1>3 DEF Poll, NoConnection, HandleGameFrame, EndPoll, sweep, game
  <2>2. InGame' = InGame
    BY <2>1 DEF InGame, ToPlace
  <2> QED BY <2>1, <2>2, SameNumbers
<1>4. CASE HandleTimeouts
  <2>1. /\ pc = "timeouts" /\ pc' = "connection" /\ UNCHANGED <<loop, toErase, events>>
        /\ active => /\ DOMAIN playerPos' = DOMAIN playerPos
                     /\ \A n \in DOMAIN playerPos : playerPos'[n] = playerPos[n]
    BY <1>4 DEF HandleTimeouts, KeptWorms, Restrict, sweep
  <2>2. CASE active
    <3>1. InGame' = InGame /\ InGame \subseteq DOMAIN playerPos
      BY <2>1, <2>2 DEF InGame, ToPlace
    <3> QED BY <2>1, <2>2, <3>1, SameNumbers
  <2>3. CASE ~active
    <3>1. ~Playing
      BY <1>1, <2>1, <2>3, GameTypes DEF Playing, EndInv, TypeOK
    <3>2. events = << >> /\ events' = << >>
      BY <1>1, <2>1, <3>1, GameTypes
    <3>3. InGame = {} /\ InGame' = {}
      BY <3>2 DEF InGame
    <3> QED BY <3>2, <3>3, SameNumbers
  <2> QED BY <2>2, <2>3
<1>5. CASE EndUpdate \/ EndStart
  <2>1. /\ pc' # "place" /\ todo = {} /\ toErase' = {} /\ UNCHANGED events
        /\ DOMAIN playerPos' = DOMAIN playerPos \ toErase
        /\ \A n \in DOMAIN playerPos \ toErase : playerPos'[n] = playerPos[n]
    BY <1>5 DEF EndUpdate, EndStart, Restrict
  <2>2. InGame' = InGame /\ InGame \subseteq DOMAIN playerPos \ toErase
    BY <2>1 DEF InGame, ToPlace
  <2> QED BY <2>1, <2>2, SameNumbers
<1> QED BY <1>2, <1>3, <1>4, <1>5

(***************************************************************************)
(* LogRefinement: the log of the server behaves as GameLog promises, for   *)
(* any number of players, any board and any number of expirations of the   *)
(* game timer in one read, with players that come, go and come back, while *)
(* every address keeps to one player name.                                 *)
(* (server.cpp:243-295, 323, 407-444, 464-468, 501-532, 550, 569)          *)
(***************************************************************************)
THEOREM LogRefinement ==
  ASSUME OneNameEach
  PROVE  Spec => LogPromise
<1>1. Init => Promise!Init
  <2> SUFFICES ASSUME Init PROVE Promise!Init
    OBVIOUS
  <2>1. events = << >> /\ InGame = {}
    BY DEF Init, InGame
  <2> QED BY <2>1 DEF Promise!Init
<1>2. RefInv /\ RefInv' /\ [Next]_vars
        => [Promise!Next]_<<events, [n \in InGame |-> playerPos[n].order]>>
  <2> SUFFICES ASSUME RefInv, RefInv', [Next]_vars
               PROVE  Promise!Next \/ UNCHANGED <<events, Numbers>>
    BY DEF Numbers
  <2>1. CASE StartGame
    BY <2>1, StartRefines DEF Promise!Next
  <2>2. CASE \E f \in Field : PlaceWorm(f)
    BY <2>2, PlaceRefines DEF Promise!Next
  <2>3. CASE Connect
    BY <2>3, ConnectRefines DEF Promise!Next
  <2>4. CASE \E f \in Field \cup {Outside} : UpdateWorm(f)
    BY <2>4, UpdateRefines DEF Promise!Next
  <2>5. CASE FinishGame
    BY <2>5, CloseRefines DEF Promise!Next
  <2>6. CASE \/ \E i \in TimerId : Expire(i)
             \/ Poll \/ HandleTimeouts \/ NoConnection \/ HandleGameFrame
             \/ EndUpdate \/ EndPoll \/ EndStart \/ UNCHANGED vars
    BY <2>6, QuietRefines
  <2> QED BY <2>1, <2>2, <2>3, <2>4, <2>5, <2>6 DEF Next, Handle
<1>3. RefInv /\ [Next]_vars => RefInv'
  BY NextKeepsRefInv
<1> QED BY <1>1, <1>2, <1>3, InitRefInv, PTL DEF Spec, LogPromise, Promise!Spec

-----------------------------------------------------------------------------
(* Worms leave the board when the log has said so *)

Told(n)  == PlayerEliminated(playerPos[n].order) \in Range(events)
EraseInv == todo \cap toErase = {} /\ \A n \in toErase : Told(n)

\* What is logged stays logged while the log grows.
LEMMA RangeAppend ==
  ASSUME NEW log \in Seq(Event), NEW e \in Event
  PROVE  Range(Append(log, e)) = Range(log) \cup {e}
<1> DEFINE more == Append(log, e)
<1>1. /\ DOMAIN log = 1..Len(log) /\ DOMAIN more = 1..(Len(log) + 1) /\ Len(log) \in Nat
      /\ more[Len(log) + 1] = e /\ \A i \in 1..Len(log) : more[i] = log[i]
  BY SMTT(30)
<1> HIDE DEF more
<1>2. DOMAIN more = DOMAIN log \cup {Len(log) + 1}
  BY <1>1
<1>3. \A i \in DOMAIN log : more[i] = log[i]
  BY <1>1
<1>4. Range(log) \subseteq Range(more)
  BY <1>2, <1>3, ZenonT(30) DEF Range
<1>5. e \in Range(more)
  BY <1>1, <1>2, ZenonT(30) DEF Range
<1>6. Range(more) \subseteq Range(log) \cup {e}
  <2> SUFFICES ASSUME NEW i \in DOMAIN more PROVE more[i] \in Range(log) \cup {e}
    BY Zenon DEF Range
  <2>1. CASE i \in DOMAIN log
    BY <1>3, <2>1, Zenon DEF Range
  <2>2. CASE i = Len(log) + 1
    BY <1>1, <2>2, Zenon
  <2> QED BY <1>2, <2>1, <2>2, Zenon
<1>7. Range(more) = Range(log) \cup {e}
  BY <1>4, <1>5, <1>6, Zenon
<1> QED BY <1>7 DEF more

LEMMA RangeOfLogs ==
  ASSUME TimerInv, NEW k \in Nat, Logs(k)
  PROVE  /\ Range(events) \subseteq Range(events')
         /\ Announces(k) \/ Ends(k) => PlayerEliminated(k) \in Range(events')
<1>1. events \in Seq(Event)
  BY DEF TimerInv, TypeOK
<1>2. PlayerEliminated(k) \in Event /\ GameOver \in Event
  BY EventTypes, FieldAssumption
<1>3. CASE Announces(k)
  BY <1>1, <1>2, <1>3, RangeAppend DEF Announces
<1>4. CASE Ends(k)
  <2> DEFINE one == Append(events, PlayerEliminated(k))
  <2>1. one \in Seq(Event) /\ Range(one) = Range(events) \cup {PlayerEliminated(k)}
    BY <1>1, <1>2, RangeAppend
  <2> HIDE DEF one
  <2>2. Range(Append(one, GameOver)) = Range(one) \cup {GameOver}
    BY <1>2, <2>1, RangeAppend
  <2>3. events' = Append(one, GameOver)
    BY <1>4 DEF Ends, one
  <2> QED BY <2>1, <2>2, <2>3
<1>5. CASE ~Announces(k) /\ ~Ends(k)
  <2>1. UNCHANGED events \/ \E f \in Field : events' = Append(events, Pixel(k, f))
    BY <1>5 DEF Logs, Draws
  <2>2. \A f \in Field : Pixel(k, f) \in Event
    BY EventTypes
  <2>3. Range(events) \subseteq Range(events')
    BY <1>1, <2>1, <2>2, RangeAppend
  <2> QED BY <1>5, <2>3
<1> QED BY <1>3, <1>4, <1>5

LEMMA EraseUpdate ==
  ASSUME TimerInv, EraseInv, NEW f \in Field \cup {Outside}, UpdateWorm(f)
  PROVE  EraseInv'
<1> DEFINE n == Least(todo)
           k == playerPos[n].order
<1>1. playerPos' = [playerPos EXCEPT ![n].pos = f]
  BY DEF UpdateWorm
<1>2. n \in todo /\ n \in DOMAIN playerPos /\ k \in Nat /\ Logs(k) /\ Moves(n, k)
  BY UpdateMoves
<1>3. \A m \in DOMAIN playerPos : playerPos'[m].order = playerPos[m].order
  BY <1>1 DEF TimerInv, TypeOK, PlayerPos
<1>4. toErase \subseteq DOMAIN playerPos
  BY DEF TimerInv, TypeOK
<1>5. /\ Range(events) \subseteq Range(events')
      /\ Announces(k) \/ Ends(k) => PlayerEliminated(k) \in Range(events')
  BY <1>2, RangeOfLogs
<1> HIDE DEF n
<1>6. \A m \in toErase : PlayerEliminated(playerPos'[m].order) \in Range(events')
  BY <1>3, <1>4, <1>5 DEF EraseInv, Told
<1>7. Announces(k) \/ Ends(k) => PlayerEliminated(playerPos'[n].order) \in Range(events')
  BY <1>2, <1>3, <1>5
<1>8. \/ toErase' = toErase /\ todo' = todo \ {n}
      \/ /\ Announces(k) \/ Ends(k)
         /\ toErase' = toErase \cup {n} /\ todo' \subseteq todo \ {n}
  BY <1>2 DEF Moves
<1> QED BY <1>6, <1>7, <1>8 DEF EraseInv, Told

LEMMA ErasePlace ==
  ASSUME TimerInv, EraseInv, NEW f \in Field, PlaceWorm(f)
  PROVE  EraseInv'
<1> DEFINE n == Least(todo)
           k == NextOrder
<1>1. playerPos' = [playerPos EXCEPT ![n] = [pos |-> f, order |-> k]]
  BY DEF PlaceWorm
<1>2. n \in todo /\ n \in DOMAIN playerPos /\ k \in Nat /\ Logs(k)
  BY PlaceMoves
<1>3. \A m \in DOMAIN playerPos :
        playerPos'[m] = IF m = n THEN [pos |-> f, order |-> k] ELSE playerPos[m]
  BY <1>1
<1>4. toErase \subseteq DOMAIN playerPos /\ n \notin toErase
  BY <1>2 DEF TimerInv, TypeOK, EraseInv
<1>5. /\ Range(events) \subseteq Range(events')
      /\ Announces(k) \/ Ends(k) => PlayerEliminated(k) \in Range(events')
  BY <1>2, RangeOfLogs
<1>6. \/ toErase' = toErase /\ todo' = todo \ {n}
      \/ Ends(k) /\ toErase' = toErase \cup {n} /\ todo' = {}
  <2>1. events \in Seq(Event) /\ PlayerEliminated(k) \in Event /\ GameOver \in Event
    BY <1>2, EventTypes, FieldAssumption DEF TimerInv, TypeOK
  <2>2. events \o <<PlayerEliminated(k), GameOver>>
          = Append(Append(events, PlayerEliminated(k)), GameOver)
    BY <2>1, TwoEvents
  <2> QED BY <2>2 DEF PlaceWorm, Eat, Ends
<1> HIDE DEF n, k
<1>7. \A m \in toErase : PlayerEliminated(playerPos'[m].order) \in Range(events')
  <2>1. \A m \in toErase : playerPos'[m] = playerPos[m]
    BY <1>3, <1>4
  <2> QED BY <1>5, <2>1 DEF EraseInv, Told
<1>8. playerPos'[n].order = k
  BY <1>2, <1>3
<1> QED BY <1>5, <1>6, <1>7, <1>8 DEF EraseInv, Told

LEMMA NextKeepsErase == TimerInv /\ TimerInv' /\ EraseInv /\ [Next]_vars => EraseInv'
<1> SUFFICES ASSUME TimerInv, TimerInv', EraseInv, [Next]_vars PROVE EraseInv'
  OBVIOUS
<1>1. CASE \E f \in Field \cup {Outside} : UpdateWorm(f)
  BY <1>1, EraseUpdate
<1>2. CASE \E f \in Field : PlaceWorm(f)
  BY <1>2, ErasePlace
<1>3. CASE (\E i \in TimerId : Expire(i)) \/ UNCHANGED vars
  <2>1. UNCHANGED <<todo, toErase, events, playerPos>>
    BY <1>3 DEF Expire, vars, sweep, game
  <2> QED BY <2>1 DEF EraseInv, Told
<1>4. CASE \/ Poll \/ HandleTimeouts \/ Connect \/ NoConnection \/ HandleGameFrame
           \/ EndUpdate \/ EndPoll \/ StartGame \/ EndStart \/ FinishGame
  <2>1. toErase' = {}
    BY <1>4 DEF TimerInv, SweepInv, Poll, HandleTimeouts, Connect, HandleConnection,
         NoConnection, HandleGameFrame, EndUpdate, EndPoll, StartGame, EndStart,
         FinishGame, sweep
  <2> QED BY <2>1 DEF EraseInv
<1> QED BY <1>1, <1>2, <1>3, <1>4 DEF Next, Handle

(***************************************************************************)
(* WormsAreTold: during a game no worm leaves the board, for any number of *)
(* players, kicked or not, and of frames, before the log has told its      *)
(* elimination. (server.cpp:196-198, 441-443, 529-531)                     *)
(***************************************************************************)
THEOREM WormsAreTold == Spec => WormsOutliveClients
<1>1. Init => TimerInv /\ EraseInv
  BY InitTimerInv DEF Init, EraseInv
<1>2. TimerInv /\ EraseInv /\ [Next]_vars => (TimerInv /\ EraseInv)'
  BY NextKeepsTimerInv, NextKeepsErase
<1>3. TimerInv /\ EraseInv /\ [Next]_vars
        => [active => \A n \in DOMAIN playerPos \ DOMAIN playerPos' :
                        PlayerEliminated(playerPos[n].order) \in Range(events)]_vars
  <2> SUFFICES ASSUME TimerInv, EraseInv, Next, active,
                      NEW n \in DOMAIN playerPos \ DOMAIN playerPos'
               PROVE  PlayerEliminated(playerPos[n].order) \in Range(events)
    OBVIOUS
  <2>1. CASE EndUpdate \/ EndStart
    <3>1. n \in toErase
      BY <2>1 DEF EndUpdate, EndStart, Restrict
    <3> QED BY <3>1 DEF EraseInv, Told
  <2>2. CASE UNCHANGED playerPos
    BY <2>2
  <2>3. CASE HandleTimeouts \/ FinishGame
    BY <2>3 DEF HandleTimeouts, KeptWorms, Restrict, FinishGame
  <2>4. CASE Connect
    BY <2>4 DEF Connect, HandleConnection, UpdatePlayerState, Put
  <2>5. CASE \/ \E f \in Field \cup {Outside} : UpdateWorm(f)
             \/ \E f \in Field : PlaceWorm(f)
    BY <2>5 DEF UpdateWorm, PlaceWorm
  <2>6. CASE \/ \E i \in TimerId : Expire(i)
             \/ Poll \/ NoConnection \/ HandleGameFrame \/ EndPoll \/ StartGame
    BY <2>6 DEF Expire, Poll, NoConnection, HandleGameFrame, EndPoll, StartGame, game
  <2> QED BY <2>1, <2>2, <2>3, <2>4, <2>5, <2>6 DEF Next, Handle
<1> QED BY <1>1, <1>2, <1>3, PTL DEF Spec, WormsOutliveClients

-----------------------------------------------------------------------------
(* The form of a log, which is what clients are told of a game             *)

OpensOnce == events # << >> => LoggedIn(events, "NEW_GAME") = {1}
EndLast   == \A i \in LoggedIn(events, "GAME_OVER") : i = Len(events)
RepsLeft  == pc = "update" => reps >= 1

LEMMA NewGameStays ==
  ASSUME TimerInv, NEW k \in Nat, Logs(k)
  PROVE  LoggedIn(events', "NEW_GAME") = LoggedIn(events, "NEW_GAME")
<1> DEFINE type == "NEW_GAME"
<1>1. events \in Seq(Event)
  BY DEF TimerInv, TypeOK
<1>2. /\ PlayerEliminated(k) \in Event /\ PlayerEliminated(k).type # type
      /\ GameOver \in Event /\ GameOver.type # type
      /\ \A f \in Field : Pixel(k, f) \in Event /\ Pixel(k, f).type # type
  BY EventTypes, FieldAssumption DEF PlayerEliminated, GameOver, Pixel
<1>3. \A log \in Seq(Event), e \in Event :
        e.type # type => /\ LoggedIn(Append(log, e), type) = LoggedIn(log, type)
                         /\ Append(log, e) \in Seq(Event)
  <2> SUFFICES ASSUME NEW log \in Seq(Event), NEW e \in Event, e.type # type
               PROVE  /\ LoggedIn(Append(log, e), type) = LoggedIn(log, type)
                      /\ Append(log, e) \in Seq(Event)
    OBVIOUS
  <2> DEFINE more == Append(log, e)
  <2>1. /\ LoggedIn(more, type)
              = LoggedIn(log, type) \cup (IF e.type = type THEN {Len(log) + 1} ELSE {})
        /\ more \in Seq(Event)
    BY LoggedAppend
  <2> HIDE DEF more
  <2>2. LoggedIn(more, type) = LoggedIn(log, type) /\ more \in Seq(Event)
    BY <2>1
  <2> QED BY <2>2 DEF more
<1> HIDE DEF type
<1>4. CASE UNCHANGED <<events, eatenFields>>
  BY <1>4 DEF type
<1>5. CASE Announces(k)
  BY <1>1, <1>2, <1>3, <1>5, Zenon DEF Announces, type
<1>6. CASE Ends(k)
  BY <1>1, <1>2, <1>3, <1>6, Zenon DEF Ends, type
<1>7. CASE \E f \in Field \ eatenFields : Draws(k, f)
  BY <1>1, <1>2, <1>3, <1>7, Zenon DEF Draws, type
<1> QED BY <1>4, <1>5, <1>6, <1>7, Zenon DEF Logs

LEMMA StartOpens ==
  ASSUME TimerInv, events = << >>, StartGame
  PROVE  LoggedIn(events', "NEW_GAME") = {1} /\ LoggedIn(events', "GAME_OVER") = {}
<1> DEFINE e == NewGame(readyPlayers)
<1>1. e \in Event /\ e.type = "NEW_GAME"
  BY DEF Event, NewGame, TimerInv, TypeOK
<1>2. events' = <<e>>
  BY DEF StartGame
<1> HIDE DEF e
<1>3. DOMAIN events' = {1} /\ events'[1] = e
  BY <1>2
<1> QED BY <1>1, <1>3 DEF LoggedIn

\* A worm that moves finds that the game has not ended.
LEMMA EndStays ==
  ASSUME TimerInv, ~Ended(events), NEW k \in Nat, Logs(k)
  PROVE  EndLast'
<1>1. events \in Seq(Event)
  BY DEF TimerInv, TypeOK
<1>2. CASE GoesOn(k)
  <2>1. LoggedIn(events', "GAME_OVER") = {}
    BY <1>2, GoesOnOver DEF Ended
  <2> QED BY <2>1 DEF EndLast
<1>3. CASE Ends(k)
  <2> DEFINE one == Append(events, PlayerEliminated(k))
  <2>1. /\ PlayerEliminated(k) \in Event /\ PlayerEliminated(k).type # "GAME_OVER"
        /\ GameOver \in Event
    BY EventTypes, FieldAssumption DEF PlayerEliminated
  <2>2. one \in Seq(Event) /\ LoggedIn(one, "GAME_OVER") = {}
    BY <1>1, <2>1, NotOver DEF Ended
  <2>3. events' = Append(one, GameOver)
    BY <1>3 DEF Ends
  <2> HIDE DEF one
  <2>4. LoggedIn(events', "GAME_OVER") \subseteq {Len(one) + 1}
    <3>1. LoggedIn(Append(one, GameOver), "GAME_OVER")
            = LoggedIn(one, "GAME_OVER")
                \cup (IF GameOver.type = "GAME_OVER" THEN {Len(one) + 1} ELSE {})
      BY <2>1, <2>2, LoggedAppend
    <3> QED BY <2>2, <2>3, <3>1
  <2>5. Len(events') = Len(one) + 1
    BY <2>1, <2>2, <2>3
  <2> QED BY <2>4, <2>5 DEF EndLast
<1> QED BY <1>2, <1>3 DEF Logs, GoesOn

FormInv == OpensOnce /\ RepsLeft /\ (MaxReps = 1 => EndLast)

LEMMA NextKeepsForm ==
  ASSUME RefInv, RefInv', FormInv, [Next]_vars
  PROVE  FormInv'
<1>1. /\ GameInv /\ LogInv /\ TimerInv /\ TypeOK /\ EndInv
      /\ ~Playing => events = << >>
      /\ Playing => events # << >>
  BY GameTypes DEF RefInv
<1>2. CASE \E f \in Field \cup {Outside} : UpdateWorm(f)
  <2>1. PICK f \in Field \cup {Outside} : UpdateWorm(f)
    BY <1>2
  <2>2. pc = "update" /\ UNCHANGED <<pc, reps>> /\ todo # {} /\ Playing
    BY <1>1, <2>1 DEF UpdateWorm, control, GameInv, NamesInv, ModeInv, Playing
  <2>3. PICK k \in Nat : Logs(k)
    BY <1>1, <2>1, UpdateMoves
  <2>4. OpensOnce'
    BY <1>1, <2>2, <2>3, NewGameStays DEF FormInv, OpensOnce
  <2>5. MaxReps = 1 => ~Ended(events)
    BY <1>1, <2>2 DEF LogInv, FormInv, RepsLeft, TypeOK
  <2>6. MaxReps = 1 => EndLast'
    BY <1>1, <2>3, <2>5, EndStays
  <2> QED BY <2>2, <2>4, <2>6 DEF FormInv, RepsLeft
<1>3. CASE \E f \in Field : PlaceWorm(f)
  <2>1. PICK f \in Field : PlaceWorm(f)
    BY <1>3
  <2>2. pc = "place" /\ UNCHANGED pc /\ Playing
    BY <2>1 DEF PlaceWorm, control, Playing
  <2>3. Logs(NextOrder) /\ NextOrder \in Nat
    BY <1>1, <2>1, PlaceMoves
  <2>4. OpensOnce'
    BY <1>1, <2>2, <2>3, NewGameStays DEF FormInv, OpensOnce
  <2>5. EndLast'
    BY <1>1, <2>2, <2>3, EndStays DEF EndInv
  <2> QED BY <2>2, <2>4, <2>5 DEF FormInv, RepsLeft
<1>4. CASE /\ UNCHANGED <<events, eatenFields>>
           /\ ~ \E f \in Field \cup {Outside} : UpdateWorm(f)
           /\ ~ \E f \in Field : PlaceWorm(f)
  <2>1. RepsLeft'
    <3>1. CASE HandleGameFrame
      BY <3>1, BoundAssumption DEF HandleGameFrame, RepsLeft
    <3>2. CASE EndUpdate
      BY <1>1, <3>2 DEF EndUpdate, RepsLeft, TypeOK
    <3>3. CASE UNCHANGED <<pc, reps>>
      BY <3>3 DEF FormInv, RepsLeft
    <3>4. CASE pc' # "update"
      BY <3>4 DEF RepsLeft
    <3> QED BY <1>4, <3>1, <3>2, <3>3, <3>4 DEF Next, Handle, Connect, Expire, Poll,
              HandleTimeouts, HandleConnection, NoConnection, EndPoll, EndStart,
              StartGame, FinishGame, vars, control, sweep
  <2>2. (OpensOnce /\ (MaxReps = 1 => EndLast))'
    BY <1>4 DEF FormInv, OpensOnce, EndLast
  <2> QED BY <2>1, <2>2 DEF FormInv
<1>5. CASE StartGame
  <2>1. events = << >> /\ pc' = "place"
    BY <1>1, <1>5 DEF StartGame, Playing
  <2> QED BY <1>1, <1>5, <2>1, StartOpens DEF FormInv, OpensOnce, RepsLeft, EndLast
<1>6. CASE FinishGame
  <2>1. events' = << >> /\ pc' = "while" /\ LoggedIn(events', "GAME_OVER") = {}
    BY <1>6, EmptyLog DEF FinishGame
  <2> QED BY <2>1 DEF FormInv, OpensOnce, RepsLeft, EndLast
<1> QED BY <1>2, <1>3, <1>4, <1>5, <1>6, QuietSteps

LEMMA FormInvariant ==
  ASSUME OneNameEach
  PROVE  Spec => [](RefInv /\ FormInv)
<1>1. Init => RefInv /\ FormInv
  <2>1. Init => OpensOnce /\ RepsLeft /\ EndLast
    BY EmptyLog DEF Init, OpensOnce, RepsLeft, EndLast
  <2> QED BY <2>1, InitRefInv DEF FormInv
<1>2. RefInv /\ FormInv /\ [Next]_vars => (RefInv /\ FormInv)'
  BY NextKeepsRefInv, NextKeepsForm
<1> QED BY <1>1, <1>2, PTL DEF Spec

(***************************************************************************)
(* Every log opens with NEW_GAME and has no other: the first datagram of a *)
(* game tells a client its players, and no later one resets it, for any    *)
(* players and number of games.  (server.cpp:243-247, 507, 559-569)        *)
(***************************************************************************)
THEOREM LogsOpenOnce ==
  ASSUME OneNameEach
  PROVE  Spec => [](\A i \in DOMAIN events : events[i].type = "NEW_GAME" <=> i = 1)
<1>1. RefInv /\ FormInv =>
        \A i \in DOMAIN events : events[i].type = "NEW_GAME" <=> i = 1
  BY DEF FormInv, OpensOnce, LoggedIn
<1> QED BY <1>1, FormInvariant, PTL

(***************************************************************************)
(* While the game timer is read in time, nothing is logged after           *)
(* GAME_OVER, and the log a game leaves to oldGame ends with it, for any   *)
(* players, board and order of what happens between two frames.            *)
(* (server.cpp:428-434, 464-468, 559-566)                                  *)
(***************************************************************************)
THEOREM LogsEndOnce ==
  ASSUME OneNameEach, MaxReps = 1
  PROVE  Spec => [](/\ \A i \in Logged("GAME_OVER") : i = Len(events)
                    /\ pc = "while" /\ loop = "game" /\ ~active =>
                         \A i \in DOMAIN events :
                           events[i].type = "GAME_OVER" <=> i = Len(events))
<1>1. RefInv /\ FormInv => \A i \in Logged("GAME_OVER") : i = Len(events)
  BY DEF FormInv, EndLast, LoggedIn, Logged
<1>2. ASSUME RefInv, FormInv, pc = "while", loop = "game", ~active
      PROVE  \A i \in DOMAIN events : events[i].type = "GAME_OVER" <=> i = Len(events)
  <2>1. Ended(events)
    BY <1>2, GameTypes DEF RefInv, EndInv
  <2>2. PICK j \in LoggedIn(events, "GAME_OVER") : TRUE
    BY <2>1 DEF Ended
  <2>3. j = Len(events) /\ j \in DOMAIN events /\ events[j].type = "GAME_OVER"
    BY <1>2, <2>2 DEF FormInv, EndLast, LoggedIn
  <2>4. \A i \in DOMAIN events : events[i].type = "GAME_OVER" => i = Len(events)
    BY <1>2 DEF FormInv, EndLast, LoggedIn
  <2> QED BY <2>3, <2>4, Zenon
<1> QED BY <1>1, <1>2, FormInvariant, PTL
=============================================================================
