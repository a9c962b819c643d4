---------------------------- MODULE ServerProofs ----------------------------
(***************************************************************************)
(* Proofs about Server, for any number of addresses, names, seats, fields  *)
(* and game timer expirations.                                             *)
(***************************************************************************)
EXTENDS Server, TLAPS, FiniteSetTheorems, WellFoundedInduction

\* The traversals leave nothing behind, and a frame is left to simulate while
\* the thread is in updateGame.
SweepInv ==
  /\ pc \notin {"update", "place"} => todo = {} /\ toErase = {}
  /\ pc = "update" => reps > 0

\* The inductive invariant for types and timers: the type of a new client's
\* timer rests on the partition, and that of the worms on the traversals.
TimerInv == TypeOK /\ SweepInv /\ TimerPartition

-----------------------------------------------------------------------------
(* Lemmas about the operators *)

\* A non-empty set of natural numbers has its least element.
LEMMA LeastIsMember ==
  ASSUME NEW S \in SUBSET Nat, S # {}
  PROVE  Least(S) \in S /\ \A m \in S : Least(S) <= m
<1>1. \E n \in S : \A m \in S : <<m, n>> \notin OpToRel(<, Nat)
  BY NatLessThanWellFounded, WFMin, Zenon
<1>2. \A m, n \in Nat : m < n => <<m, n>> \in OpToRel(<, Nat)
  BY Zenon DEF OpToRel
<1>3. \E n \in S : \A m \in S : n <= m
  <2>1. \E n \in S : \A m \in S : ~ (m < n)
    BY <1>1, <1>2, Zenon
  <2> QED BY <2>1
<1> QED BY <1>3 DEF Least

\* Put yields a function on the extended domain.
LEMMA PutType ==
  ASSUME NEW f, NEW x, NEW v, NEW T, f \in [DOMAIN f -> T], v \in T
  PROVE  /\ Put(f, x, v) \in [DOMAIN f \cup {x} -> T]
         /\ DOMAIN Put(f, x, v) = DOMAIN f \cup {x}
  BY DEF Put

\* Restrict to part of the domain keeps the values.
LEMMA RestrictType ==
  ASSUME NEW f, NEW S, NEW T, f \in [DOMAIN f -> T], S \subseteq DOMAIN f
  PROVE  /\ Restrict(f, S) \in [S -> T]
         /\ DOMAIN Restrict(f, S) = S
         /\ \A x \in S : Restrict(f, S)[x] = f[x]
  BY DEF Restrict

\* As long as there are fewer clients than timers, a timer is free: begin() in
\* acceptPlayer is not the end of the set.
LEMMA FreeTimerExists ==
  ASSUME TypeOK, TimerPartition, Cardinality(DOMAIN clientId) < MaxPlayers
  PROVE  Least(freeTimerIds) \in freeTimerIds
<1> DEFINE D == DOMAIN clientId
           held == [a \in D |-> clientId[a].timerId]
<1>1. IsFiniteSet(TimerId) /\ Cardinality(TimerId) = MaxPlayers
  BY MaxPlayersAssumption, FS_Interval DEF TimerId
<1>2. held \in Injection(D, TimerId)
  <2>1. held \in [D -> TimerId]
    BY DEF TypeOK, ClientInfo
  <2> QED BY <2>1 DEF TimerPartition, Injection, IsInjective
<1>3. /\ IsFiniteSet(D)
      /\ Cardinality(D) = MaxPlayers <=> held \in Surjection(D, TimerId)
  BY <1>1, <1>2, FS_Injection
<1>4. Cardinality(D) # MaxPlayers
  BY <1>3, MaxPlayersAssumption, FS_CardinalityType
<1>5. freeTimerIds # {}
  <2>1. SUFFICES ASSUME freeTimerIds = {} PROVE FALSE
    OBVIOUS
  <2>2. HeldTimers = TimerId
    BY <2>1 DEF TimerPartition
  <2>3. held \in Surjection(D, TimerId)
    BY <1>2, <2>2 DEF HeldTimers, Injection, Surjection
  <2> QED BY <2>3, <1>3, <1>4
<1>6. freeTimerIds \subseteq Nat
  BY MaxPlayersAssumption DEF TypeOK, TimerId
<1> QED BY <1>5, <1>6, LeastIsMember

-----------------------------------------------------------------------------
(* Types and timers *)

LEMMA InitTimerInv == Init => TimerInv
<1> SUFFICES ASSUME Init PROVE TimerInv
  OBVIOUS
<1>1. /\ DOMAIN clientId = {} /\ clientId \in [DOMAIN clientId -> ClientInfo]
      /\ DOMAIN playerPos = {} /\ playerPos \in [DOMAIN playerPos -> PlayerPos]
  BY DEF Init
<1>2. TypeOK
  <2>1. events \in Seq(Event) /\ timer \in [TimerId -> {"off", "armed", "expired"}]
    BY DEF Init
  <2> QED BY <1>1, <2>1 DEF Init, TypeOK
<1>3. SweepInv
  BY DEF Init, SweepInv
<1>4. TimerPartition
  BY <1>1 DEF Init, TimerPartition, HeldTimers
<1> QED BY <1>2, <1>3, <1>4 DEF TimerInv

\* The steps that touch neither clients nor timers keep the partition.
LEMMA SameTimers ==
  ASSUME TimerPartition, UNCHANGED <<clientId, freeTimerIds, timer>>
  PROVE  TimerPartition'
  BY DEF TimerPartition, HeldTimers

LEMMA TimeoutsKeepTimerInv == TimerInv /\ HandleTimeouts => TimerInv'
<1> SUFFICES ASSUME TimerInv, HandleTimeouts PROVE TimerInv'
  OBVIOUS
<1> USE DEF TimerInv
<1> DEFINE left == DOMAIN clientId \ Kicked
           names == {clientId[a].playerName : a \in Kicked}
<1>1. /\ clientId' \in [left -> ClientInfo]
      /\ DOMAIN clientId' = left
      /\ \A a \in left : clientId'[a] = clientId[a]
  <2>1. left \subseteq DOMAIN clientId /\ clientId' = Restrict(clientId, left)
    BY DEF HandleTimeouts
  <2>2. clientId \in [DOMAIN clientId -> ClientInfo]
    BY DEF TypeOK
  <2> QED BY <2>1, <2>2, RestrictType
<1>2. /\ playerPos' \in [KeptWorms(names) -> PlayerPos]
      /\ DOMAIN playerPos' = KeptWorms(names)
      /\ KeptWorms(names) \subseteq DOMAIN playerPos
  <2>1. KeptWorms(names) \subseteq DOMAIN playerPos
    BY DEF KeptWorms
  <2> QED BY <2>1, RestrictType DEF HandleTimeouts, TypeOK
<1>3. TypeOK'
  BY <1>1, <1>2 DEF HandleTimeouts, TypeOK, SweepInv, Freed, TimerId,
                    control, sweep
<1>4. SweepInv'
  BY DEF HandleTimeouts, SweepInv, sweep
<1>5. TimerPartition'
  <2>1. freeTimerIds' = freeTimerIds \cup Freed /\ timer' = timer
    BY DEF HandleTimeouts
  <2>2. \A a \in DOMAIN clientId :
          a \in Kicked <=> clientId[a].timerId \in Freed
    BY DEF Kicked, Freed, TypeOK, ClientInfo
  <2>3. HeldTimers' = HeldTimers \ Freed
    BY <1>1, <2>2 DEF HeldTimers
  <2> QED BY <1>1, <2>1, <2>3 DEF TimerPartition, Freed, HeldTimers
<1> QED BY <1>3, <1>4, <1>5

LEMMA ConnectionKeepsTimerInv ==
  ASSUME NEW a \in Addr, NEW s \in Session, NEW turning \in BOOLEAN,
         TimerInv, HandleConnection(a, s, turning)
  PROVE  TimerInv'
<1> USE DEF TimerInv
<1> DEFINE n == NameOf[a][s]
<1>1. n \in Name \cup {NoName}
  BY NameOfAssumption
<1>2. /\ readyPlayers' \subseteq Name
      /\ DOMAIN playerPos' \subseteq Name
      /\ playerPos' \in [DOMAIN playerPos' -> PlayerPos]
      /\ DOMAIN playerPos \subseteq DOMAIN playerPos'
  <2>1. UpdatePlayerState(n, turning)
    BY DEF HandleConnection
  <2>2. CASE n = NoName
    BY <2>1, <2>2 DEF UpdatePlayerState, TypeOK
  <2>3. CASE n # NoName /\ n \in DOMAIN playerPos
    BY <1>1, <2>1, <2>3 DEF UpdatePlayerState, TypeOK
  <2>4. CASE n # NoName /\ n \notin DOMAIN playerPos
    <3>1. DefaultPos \in PlayerPos
      BY FieldAssumption DEF DefaultPos, PlayerPos
    <3>2. playerPos' = Put(playerPos, n, DefaultPos)
      BY <2>1, <2>4 DEF UpdatePlayerState
    <3>3. /\ playerPos' \in [DOMAIN playerPos \cup {n} -> PlayerPos]
          /\ DOMAIN playerPos' = DOMAIN playerPos \cup {n}
      BY <3>1, <3>2, PutType DEF TypeOK
    <3> QED BY <1>1, <2>1, <2>4, <3>3 DEF UpdatePlayerState, TypeOK
  <2> QED BY <2>2, <2>3, <2>4
<1>3. SweepInv'
  BY DEF HandleConnection, SweepInv, sweep
<1>4. CASE AcceptPlayer(a, s)
  <2> DEFINE t == Least(freeTimerIds)
             info == [timerId |-> t, sessionId |-> s, playerName |-> n]
  <2>1. t \in freeTimerIds /\ t \in TimerId
    BY <1>4, FreeTimerExists DEF AcceptPlayer, TypeOK
  <2>2. info \in ClientInfo /\ clientId' = Put(clientId, a, info)
    BY <1>1, <1>4, <2>1 DEF AcceptPlayer, ClientInfo
  <2>3. /\ clientId' \in [DOMAIN clientId \cup {a} -> ClientInfo]
        /\ DOMAIN clientId' = DOMAIN clientId \cup {a}
    BY <2>2, PutType DEF TypeOK
  <2>4. /\ clientId'[a].timerId = t /\ a \notin DOMAIN clientId
        /\ \A b \in DOMAIN clientId : clientId'[b] = clientId[b]
    BY <1>4, <2>2 DEF AcceptPlayer, Put
  <2>5. /\ freeTimerIds' = freeTimerIds \ {t}
        /\ timer' = [timer EXCEPT ![t] = "armed"]
        /\ usedNames' \subseteq Name
    BY <1>1, <1>4 DEF AcceptPlayer, TypeOK
  <2>6. TypeOK'
    BY <1>2, <2>1, <2>3, <2>5 DEF TypeOK, HandleConnection, sweep
  <2>7. TimerPartition'
    <3>1. HeldTimers' = HeldTimers \cup {t}
      BY <2>3, <2>4 DEF HeldTimers
    <3> QED BY <2>1, <2>3, <2>4, <2>5, <3>1 DEF TimerPartition, HeldTimers, TypeOK
  <2> QED BY <1>3, <2>6, <2>7
<1>5. CASE RenewPlayer(a, s)
  <2> DEFINE t == clientId[a].timerId
             info == [timerId |-> t, sessionId |-> s, playerName |-> n]
  <2>1. a \in DOMAIN clientId /\ t \in TimerId
    BY <1>5 DEF RenewPlayer, TypeOK, ClientInfo
  <2>2. info \in ClientInfo
    BY <1>1, <2>1 DEF ClientInfo
  <2>3. /\ clientId' \in [DOMAIN clientId -> ClientInfo]
        /\ DOMAIN clientId' = DOMAIN clientId
        /\ \A b \in DOMAIN clientId : clientId'[b].timerId = clientId[b].timerId
    <3>1. CASE clientId' = clientId
      BY <3>1 DEF TypeOK
    <3>2. CASE clientId' = Put(clientId, a, info)
      <4>1. /\ clientId' \in [DOMAIN clientId \cup {a} -> ClientInfo]
            /\ DOMAIN clientId' = DOMAIN clientId \cup {a}
        BY <2>2, <3>2, PutType DEF TypeOK
      <4>2. \A b \in DOMAIN clientId :
              clientId'[b] = IF b = a THEN info ELSE clientId[b]
        BY <3>2 DEF Put
      <4> QED BY <2>1, <4>1, <4>2
    <3> QED BY <1>5, <3>1, <3>2 DEF RenewPlayer
  <2>4. /\ timer' = [timer EXCEPT ![t] = "armed"]
        /\ UNCHANGED <<freeTimerIds, usedNames>>
    BY <1>5 DEF RenewPlayer
  <2>5. TypeOK'
    BY <1>2, <2>1, <2>3, <2>4 DEF TypeOK, HandleConnection, sweep
  <2>6. TimerPartition'
    BY <2>1, <2>3, <2>4 DEF TimerPartition, HeldTimers, TypeOK
  <2> QED BY <1>3, <2>5, <2>6
<1> QED BY <1>4, <1>5 DEF HandleConnection

\* The pixels and eliminations a traversal logs are events.
LEMMA EventTypes ==
  ASSUME NEW n \in Nat, NEW f \in Field
  PROVE  /\ Pixel(n, f) \in Event
         /\ PlayerEliminated(n) \in Event
         /\ GameOver \in Event
  BY DEF Event, Pixel, PlayerEliminated, GameOver

LEMMA LogGrows ==
  ASSUME NEW log \in Seq(Event), NEW e \in Event, NEW over \in Event
  PROVE  Append(log, e) \in Seq(Event) /\ log \o <<e, over>> \in Seq(Event)
  OBVIOUS

\* The worm a traversal reaches next is on the board.
LEMMA NextWorm ==
  ASSUME TypeOK, todo # {}
  PROVE  Least(todo) \in todo /\ Least(todo) \in DOMAIN playerPos
<1>1. todo \subseteq Nat
  BY NameAssumption DEF TypeOK
<1> QED BY <1>1, LeastIsMember DEF TypeOK

\* One step of either traversal, by the worm n with number k, keeps the types.
LEMMA EatType ==
  ASSUME TypeOK, NEW n \in todo, NEW k \in Nat, NEW f \in Field, Eat(n, k, f)
  PROVE  /\ events' \in Seq(Event) /\ eatenFields' \subseteq Field
         /\ todo' \subseteq todo /\ toErase' = toErase
  BY EventTypes DEF Eat, TypeOK

LEMMA EliminateType ==
  ASSUME TypeOK, NEW n \in todo, Eliminate(n)
  PROVE  /\ events' \in Seq(Event) /\ eatenFields' \subseteq Field
         /\ todo' \subseteq todo /\ toErase' \subseteq toErase \cup {n}
<1>1. playerPos[n].order \in Nat
  BY DEF TypeOK, PlayerPos
<1>2. Field # {}
  BY FieldAssumption
<1>3. PlayerEliminated(playerPos[n].order) \in Event /\ GameOver \in Event
  BY <1>1, <1>2, EventTypes
<1>4. /\ \/ events' = events \o <<PlayerEliminated(playerPos[n].order), GameOver>>
         \/ events' = Append(events, PlayerEliminated(playerPos[n].order))
      /\ toErase' \subseteq toErase \cup {n} /\ todo' \subseteq todo
      /\ UNCHANGED eatenFields
  BY DEF Eliminate
<1>5. events' \in Seq(Event)
  <2>1. events \in Seq(Event)
    BY DEF TypeOK
  <2> QED BY <1>3, <1>4, <2>1, LogGrows
<1> QED BY <1>4, <1>5 DEF TypeOK

LEMMA UpdateKeepsTimerInv ==
  ASSUME NEW f \in Field \cup {Outside}, TimerInv, UpdateWorm(f)
  PROVE  TimerInv'
<1> USE DEF TimerInv
<1> DEFINE n == Least(todo)
<1>1. n \in todo /\ n \in DOMAIN playerPos
  BY NextWorm DEF UpdateWorm
<1>2. /\ playerPos' \in [DOMAIN playerPos -> PlayerPos]
      /\ DOMAIN playerPos' = DOMAIN playerPos
  BY <1>1 DEF UpdateWorm, TypeOK, PlayerPos
<1>3. /\ events' \in Seq(Event) /\ eatenFields' \subseteq Field
      /\ todo' \subseteq todo /\ toErase' \subseteq toErase \cup {n}
  <2>1. CASE f = playerPos[n].pos
    <3>1. todo' = todo \ {n} /\ UNCHANGED <<toErase, events, eatenFields>>
      BY <2>1 DEF UpdateWorm
    <3> QED BY <3>1 DEF TypeOK
  <2>2. CASE f # playerPos[n].pos /\ Blocked(f)
    BY <1>1, <2>2, EliminateType DEF UpdateWorm
  <2>3. CASE f # playerPos[n].pos /\ ~Blocked(f)
    <3>1. f \in Field /\ playerPos[n].order \in Nat
      BY <1>1, <2>3 DEF Blocked, TypeOK, PlayerPos
    <3>2. Eat(n, playerPos[n].order, f)
      BY <2>3 DEF UpdateWorm
    <3> QED BY <1>1, <3>1, <3>2, EatType
  <2> QED BY <2>1, <2>2, <2>3
<1>4. TypeOK'
  BY <1>1, <1>2, <1>3 DEF UpdateWorm, TypeOK, control, sessions
<1>5. SweepInv' /\ TimerPartition'
  BY SameTimers DEF UpdateWorm, SweepInv, control, sessions
<1> QED BY <1>4, <1>5

LEMMA PlaceKeepsTimerInv ==
  ASSUME NEW f \in Field, TimerInv, PlaceWorm(f)
  PROVE  TimerInv'
<1> USE DEF TimerInv
<1> DEFINE n == Least(todo)
<1>1. n \in todo /\ n \in DOMAIN playerPos
  BY NextWorm DEF PlaceWorm
<1>2. NextOrder \in Nat
  <2>1. IsFiniteSet(DOMAIN playerPos \ todo)
    BY NameAssumption, FS_Subset DEF TypeOK
  <2> QED BY <2>1, FS_CardinalityType DEF NextOrder
<1>3. /\ playerPos' \in [DOMAIN playerPos -> PlayerPos]
      /\ DOMAIN playerPos' = DOMAIN playerPos
  <2>1. [pos |-> f, order |-> NextOrder] \in PlayerPos
    BY <1>2 DEF PlayerPos
  <2>2. playerPos' = [playerPos EXCEPT ![n] = [pos |-> f, order |-> NextOrder]]
    BY DEF PlaceWorm
  <2> QED BY <1>1, <2>1, <2>2 DEF TypeOK
<1>4. /\ events' \in Seq(Event) /\ eatenFields' \subseteq Field
      /\ todo' \subseteq todo /\ toErase' \subseteq toErase \cup {n}
  <2>1. CASE f \notin eatenFields
    <3>1. Eat(n, NextOrder, f)
      BY <2>1 DEF PlaceWorm
    <3> QED BY <1>1, <1>2, <3>1, EatType
  <2>2. CASE f \in eatenFields
    <3>1. PlayerEliminated(NextOrder) \in Event /\ GameOver \in Event
      BY <1>2, EventTypes
    <3>2. /\ \/ events' = events \o <<PlayerEliminated(NextOrder), GameOver>>
             \/ events' = Append(events, PlayerEliminated(NextOrder))
          /\ toErase' \subseteq toErase \cup {n} /\ todo' \subseteq todo
          /\ UNCHANGED eatenFields
      BY <2>2 DEF PlaceWorm
    <3>3. events' \in Seq(Event)
      <4>1. events \in Seq(Event)
        BY DEF TypeOK
      <4> QED BY <3>1, <3>2, <4>1, LogGrows
    <3> QED BY <3>2, <3>3 DEF TypeOK
  <2> QED BY <2>1, <2>2
<1>5. TypeOK'
  BY <1>1, <1>3, <1>4 DEF PlaceWorm, TypeOK, control, sessions
<1>6. SweepInv' /\ TimerPartition'
  BY SameTimers DEF PlaceWorm, SweepInv, control, sessions
<1> QED BY <1>5, <1>6

\* The steps that leave clients, timers and the log alone or only append the
\* roster, and the ends of the traversals.
LEMMA OtherStepsKeepTimerInv ==
  ASSUME TimerInv,
         \/ \E i \in TimerId : Expire(i)
         \/ Poll \/ NoConnection \/ HandleGameFrame \/ EndPoll
         \/ StartGame \/ FinishGame
  PROVE  TimerInv'
<1> USE DEF TimerInv
<1>1. CASE \E i \in TimerId : Expire(i)
  BY <1>1 DEF Expire, TypeOK, SweepInv, TimerPartition, HeldTimers, control,
              sweep, game
<1>2. CASE Poll
  <2>1. TypeOK'
    BY <1>2 DEF Poll, TypeOK, Expired, sweep, sessions, game
  <2>2. SweepInv' /\ TimerPartition'
    BY <1>2, SameTimers DEF Poll, SweepInv, sweep, sessions
  <2> QED BY <2>1, <2>2
<1>3. CASE NoConnection
  <2>1. TypeOK'
    BY <1>3 DEF NoConnection, TypeOK, sweep, sessions, game
  <2>2. SweepInv' /\ TimerPartition'
    BY <1>3, SameTimers DEF NoConnection, SweepInv, sweep, sessions
  <2> QED BY <2>1, <2>2
<1>4. CASE HandleGameFrame
  <2>1. TypeOK'
    BY <1>4, BoundAssumption DEF HandleGameFrame, TypeOK, sessions, game
  <2>2. SweepInv' /\ TimerPartition'
    BY <1>4, SameTimers, BoundAssumption DEF HandleGameFrame, SweepInv, sessions
  <2> QED BY <2>1, <2>2
<1>5. CASE EndPoll
  <2>1. TypeOK'
    BY <1>5 DEF EndPoll, TypeOK, sweep, sessions
  <2>2. SweepInv' /\ TimerPartition'
    BY <1>5, SameTimers DEF EndPoll, SweepInv, sweep, sessions
  <2> QED BY <2>1, <2>2
<1>6. CASE StartGame
  <2>1. NewGame(readyPlayers) \in Event
    BY DEF NewGame, Event, TypeOK
  <2>2. events' \in Seq(Event)
    BY <1>6, <2>1 DEF StartGame, TypeOK
  <2>3. TypeOK'
    BY <1>6, <2>2 DEF StartGame, TypeOK, sessions
  <2>4. SweepInv' /\ TimerPartition'
    BY <1>6, SameTimers DEF StartGame, SweepInv, sessions
  <2> QED BY <2>3, <2>4
<1>7. CASE FinishGame
  <2>1. /\ DOMAIN playerPos' = {}
        /\ playerPos' \in [DOMAIN playerPos' -> PlayerPos]
        /\ events' \in Seq(Event)
    BY <1>7 DEF FinishGame
  <2>2. TypeOK'
    BY <1>7, <2>1 DEF FinishGame, TypeOK, SweepInv, sweep, sessions
  <2>3. SweepInv' /\ TimerPartition'
    BY <1>7, SameTimers DEF FinishGame, SweepInv, sweep, sessions
  <2> QED BY <2>2, <2>3
<1> QED BY <1>1, <1>2, <1>3, <1>4, <1>5, <1>6, <1>7

LEMMA EndsKeepTimerInv == TimerInv /\ (EndUpdate \/ EndStart) => TimerInv'
<1> SUFFICES ASSUME TimerInv, EndUpdate \/ EndStart PROVE TimerInv'
  OBVIOUS
<1> USE DEF TimerInv
<1> DEFINE left == DOMAIN playerPos \ toErase
<1>1. playerPos' \in [left -> PlayerPos] /\ DOMAIN playerPos' = left
  <2>1. left \subseteq DOMAIN playerPos /\ playerPos' = Restrict(playerPos, left)
    BY DEF EndUpdate, EndStart
  <2>2. playerPos \in [DOMAIN playerPos -> PlayerPos]
    BY DEF TypeOK
  <2> QED BY <2>1, <2>2, RestrictType
<1>2. CASE EndUpdate
  <2>1. reps' \in Nat /\ (reps > 1 => reps' > 0)
    BY <1>2 DEF EndUpdate, TypeOK, SweepInv
  <2>2. TypeOK'
    BY <1>1, <1>2, <2>1 DEF EndUpdate, TypeOK, sessions
  <2>3. SweepInv' /\ TimerPartition'
    BY <1>2, <2>1, SameTimers DEF EndUpdate, SweepInv, sessions
  <2> QED BY <2>2, <2>3
<1>3. CASE EndStart
  <2>1. TypeOK'
    BY <1>1, <1>3 DEF EndStart, TypeOK, sessions
  <2>2. SweepInv' /\ TimerPartition'
    BY <1>3, SameTimers DEF EndStart, SweepInv, sessions
  <2> QED BY <2>1, <2>2
<1> QED BY <1>2, <1>3

LEMMA NextKeepsTimerInv == TimerInv /\ [Next]_vars => TimerInv'
<1> SUFFICES ASSUME TimerInv, [Next]_vars PROVE TimerInv'
  OBVIOUS
<1>1. CASE HandleTimeouts
  BY <1>1, TimeoutsKeepTimerInv
<1>2. CASE Connect
  BY <1>2, ConnectionKeepsTimerInv DEF Connect
<1>3. CASE \E f \in Field \cup {Outside} : UpdateWorm(f)
  BY <1>3, UpdateKeepsTimerInv
<1>4. CASE \E f \in Field : PlaceWorm(f)
  BY <1>4, PlaceKeepsTimerInv
<1>5. CASE EndUpdate \/ EndStart
  BY <1>5, EndsKeepTimerInv
<1>6. CASE \/ \E i \in TimerId : Expire(i)
           \/ Poll \/ NoConnection \/ HandleGameFrame \/ EndPoll
           \/ StartGame \/ FinishGame
  BY <1>6, OtherStepsKeepTimerInv
<1>7. CASE UNCHANGED vars
  BY <1>7, SameTimers DEF vars, control, sweep, sessions, game, TimerInv, TypeOK,
                          SweepInv
<1> QED BY <1>1, <1>2, <1>3, <1>4, <1>5, <1>6, <1>7 DEF Next, Handle

(***************************************************************************)
(* ServerTypes: every variable of the server holds a value of its type, in *)
(* every reachable state of a server of any size. (server.cpp:171-571)     *)
(***************************************************************************)
THEOREM ServerTypes == Spec => []TypeOK
<1>1. TimerInv => TypeOK
  BY DEF TimerInv
<1> QED BY <1>1, InitTimerInv, NextKeepsTimerInv, PTL DEF Spec

(***************************************************************************)
(* TimerSafety: every idle timer is free or belongs to one client and      *)
(* runs, in every reachable state of a server of any size.  It is what     *)
(* makes *freeTimerIds.begin() in acceptPlayer defined and a kick in       *)
(* handleTimeouts hit the silent client. (server.cpp:188-228, 299-312)     *)
(***************************************************************************)
THEOREM TimerSafety == Spec => []TimerPartition
<1>1. TimerInv => TimerPartition
  BY DEF TimerInv
<1> QED BY <1>1, InitTimerInv, NextKeepsTimerInv, PTL DEF Spec

-----------------------------------------------------------------------------
\* From poll to the kick nothing but the kernel acts on the timers, and what
\* it does is to let more of them run out.
KickInv == pc = "timeouts" => revents \cap TimerId \subseteq Expired

LEMMA NextKeepsKick == TypeOK /\ KickInv /\ [Next]_vars => KickInv'
<1> SUFFICES ASSUME TypeOK, KickInv, [Next]_vars, pc' = "timeouts"
             PROVE  (revents \cap TimerId \subseteq Expired)'
  BY DEF KickInv
<1>1. CASE Poll
  <2>1. PICK other \in SUBSET {Socket, GameTimer} : revents' = Expired \cup other
    BY <1>1 DEF Poll
  <2>2. Socket \notin TimerId /\ GameTimer \notin TimerId
    BY MaxPlayersAssumption DEF Socket, GameTimer, TimerId
  <2>3. Expired' = Expired
    BY <1>1 DEF Poll, sessions, Expired
  <2> QED BY <2>1, <2>2, <2>3
<1>2. CASE \E i \in TimerId : Expire(i)
  <2>1. PICK i \in TimerId : Expire(i)
    BY <1>2
  <2>2. UNCHANGED <<pc, revents>> /\ timer' = [timer EXCEPT ![i] = "expired"]
    BY <2>1 DEF Expire, control
  <2>3. Expired \subseteq Expired'
    BY <2>2 DEF Expired, TypeOK
  <2> QED BY <2>2, <2>3 DEF KickInv
<1>3. CASE UNCHANGED vars
  BY <1>3 DEF vars, control, sessions, KickInv, Expired
<1>4. CASE Handle
  <2>1. pc' # "timeouts"
    BY <1>4 DEF Handle, Connect, HandleTimeouts, HandleConnection, NoConnection,
                HandleGameFrame, UpdateWorm, EndUpdate, EndPoll, StartGame,
                PlaceWorm, EndStart, FinishGame, control
  <2> QED BY <2>1
<1> QED BY <1>1, <1>2, <1>3, <1>4 DEF Next

(***************************************************************************)
(* OnlyTheIdle: no client is forgotten whose own idle timer has not run    *)
(* out, on a server of any size, whatever runs out and whoever sends       *)
(* between the poll and the kick. (server.cpp:188-208, 299-312, 494-496)   *)
(***************************************************************************)
THEOREM OnlyTheIdle == Spec => OnlyIdleKicked
<1>1. Init => TimerInv /\ KickInv
  BY InitTimerInv DEF Init, KickInv
<1>2. TimerInv /\ KickInv /\ [Next]_vars => (TimerInv /\ KickInv)'
  BY NextKeepsTimerInv, NextKeepsKick DEF TimerInv
<1>3. TimerInv /\ KickInv /\ [Next]_vars
        => [\A a \in DOMAIN clientId \ DOMAIN clientId' :
              timer[clientId[a].timerId] = "expired"]_vars
  <2> SUFFICES ASSUME TimerInv, KickInv, Next,
                      NEW a \in DOMAIN clientId \ DOMAIN clientId'
               PROVE  timer[clientId[a].timerId] = "expired"
    OBVIOUS
  <2>1. CASE HandleTimeouts
    <3>1. pc = "timeouts" /\ a \in Kicked
      BY <2>1 DEF HandleTimeouts, Restrict
    <3>2. clientId[a].timerId \in revents \cap TimerId
      BY <3>1 DEF Kicked, TimerInv, TypeOK, ClientInfo
    <3> QED BY <3>1, <3>2 DEF KickInv, Expired
  <2>2. CASE Connect
    BY <2>2 DEF Connect, HandleConnection, AcceptPlayer, RenewPlayer, Put
  <2>3. CASE UNCHANGED clientId
    BY <2>3
  <2>4. CASE ~HandleTimeouts /\ ~Connect
    BY <2>3, <2>4 DEF Next, Handle, Expire, Poll, NoConnection, HandleGameFrame,
                UpdateWorm, EndUpdate, EndPoll, StartGame, PlaceWorm, EndStart,
                FinishGame, sessions
  <2> QED BY <2>1, <2>2, <2>4
<1> QED BY <1>1, <1>2, <1>3, PTL DEF Spec, OnlyIdleKicked

-----------------------------------------------------------------------------
(***************************************************************************)
(* Names: while every address keeps to one player name, the names in use   *)
(* are the names of the connected players, and a game that starts, because *)
(* two sizes agree, starts with exactly these players.                     *)
(***************************************************************************)

\* The processes behind an address play under one name.
OneNameEach == \A a \in Addr : \A s, t \in Session : NameOf[a][s] = NameOf[a][t]

\* The name of a client is the one its address plays under.
KeptNames ==
  \A a \in DOMAIN clientId : \E s \in Session : NameOfClient(a) = NameOf[a][s]

\* Where the thread is tells whether a game is active and its log has begun.
ModeInv ==
  /\ loop = "lobby" /\ pc # "place" => ~active /\ events = << >>
  /\ pc = "update" => loop = "game"
  /\ pc = "place" => loop = "lobby" /\ events # << >>

NamesInv == TimerInv /\ ModeInv /\ KeptNames /\ NamesInStep /\ RosterIsEveryone

-----------------------------------------------------------------------------
LEMMA InitNamesInv == Init => NamesInv
<1> SUFFICES ASSUME Init PROVE NamesInv
  OBVIOUS
<1>1. TimerInv
  BY InitTimerInv
<1>2. ModeInv
  BY DEF Init, ModeInv
<1>3. DOMAIN clientId = {} /\ DOMAIN playerPos = {}
  BY DEF Init
<1>4. KeptNames /\ NamesInStep
  BY <1>3 DEF Init, KeptNames, NamesInStep
<1>5. RosterIsEveryone
  BY DEF Init, RosterIsEveryone
<1> QED BY <1>1, <1>2, <1>4, <1>5 DEF NamesInv

\* Steps that change neither clients nor names, and no worm in the lobby.
LEMMA SameNames ==
  ASSUME NamesInStep, KeptNames, UNCHANGED <<clientId, usedNames>>,
         loop' = "lobby" => /\ loop = "lobby"
                            /\ readyPlayers' = readyPlayers
                            /\ DOMAIN playerPos' = DOMAIN playerPos
  PROVE  NamesInStep' /\ KeptNames'
BY DEF NamesInStep, KeptNames, NameOfClient

LEMMA TimeoutsKeepNames == NamesInv /\ HandleTimeouts => NamesInv'
<1> SUFFICES ASSUME NamesInv, HandleTimeouts PROVE NamesInv'
  OBVIOUS
<1> DEFINE left == DOMAIN clientId \ Kicked
           names == {clientId[a].playerName : a \in Kicked}
<1>1. TimerInv'
  BY TimeoutsKeepTimerInv DEF NamesInv
<1>2. /\ DOMAIN clientId' = left
      /\ \A a \in left : clientId'[a] = clientId[a]
  BY DEF HandleTimeouts, Restrict
<1>3. DOMAIN playerPos' = KeptWorms(names)
  BY DEF HandleTimeouts, Restrict, KeptWorms
<1>4. ModeInv' /\ RosterIsEveryone'
  BY DEF HandleTimeouts, NamesInv, ModeInv, RosterIsEveryone
<1>5. KeptNames'
  BY <1>2 DEF NamesInv, KeptNames, NameOfClient
<1>6. usedNames' = usedNames \ names /\ readyPlayers' = readyPlayers \ names
      /\ loop' = loop
  BY DEF HandleTimeouts
<1>7. usedNames' = {NameOfClient(a) : a \in DOMAIN clientId}' \ {NoName}
  <2>1. /\ usedNames = {NameOfClient(a) : a \in DOMAIN clientId} \ {NoName}
        /\ \A a, b \in DOMAIN clientId :
             NameOfClient(a) = NameOfClient(b) => a = b \/ NameOfClient(a) = NoName
    BY DEF NamesInv, NamesInStep
  <2>2. Kicked \subseteq DOMAIN clientId
    BY DEF Kicked
  <2> QED BY <1>2, <1>6, <2>1, <2>2 DEF NameOfClient
<1>8. loop' = "lobby" => /\ readyPlayers' \subseteq DOMAIN playerPos'
                         /\ DOMAIN playerPos' \subseteq usedNames'
  <2> SUFFICES ASSUME loop = "lobby"
               PROVE  /\ readyPlayers' \subseteq DOMAIN playerPos'
                      /\ DOMAIN playerPos' \subseteq usedNames'
    BY <1>6
  <2>1. ~active
    BY DEF HandleTimeouts, NamesInv, ModeInv
  <2> QED BY <1>3, <1>6, <2>1 DEF KeptWorms, NamesInv, NamesInStep
<1>9. NamesInStep'
  BY <1>2, <1>7, <1>8 DEF NamesInv, NamesInStep, NameOfClient
<1> QED BY <1>1, <1>4, <1>5, <1>9 DEF NamesInv

LEMMA ConnectionKeepsNames ==
  ASSUME OneNameEach, NEW a \in Addr, NEW s \in Session, NEW turning \in BOOLEAN,
         NamesInv, HandleConnection(a, s, turning)
  PROVE  NamesInv'
<1> DEFINE n == NameOf[a][s]
<1>1. TimerInv'
  BY ConnectionKeepsTimerInv DEF NamesInv
<1>2. ModeInv' /\ RosterIsEveryone'
  BY DEF HandleConnection, NamesInv, ModeInv, RosterIsEveryone
<1>3. /\ DOMAIN clientId' = DOMAIN clientId \cup {a}
      /\ NameOfClient(a)' = n
      /\ \A b \in DOMAIN clientId : NameOfClient(b)' = NameOfClient(b)
      /\ usedNames' = usedNames \cup ({n} \ {NoName})
      /\ a \notin DOMAIN clientId => ~NameTaken(n)
  <2>1. CASE AcceptPlayer(a, s)
    BY <2>1 DEF AcceptPlayer, Put, NameOfClient
  <2>2. CASE RenewPlayer(a, s)
    <3>1. a \in DOMAIN clientId /\ usedNames' = usedNames
      BY <2>2 DEF RenewPlayer
    <3>2. NameOfClient(a) = n
      BY <3>1 DEF NamesInv, KeptNames, OneNameEach
    <3>3. n \in usedNames \cup {NoName}
      BY <3>1, <3>2 DEF NamesInv, NamesInStep
    <3>4. /\ DOMAIN clientId' = DOMAIN clientId
          /\ \A b \in DOMAIN clientId : NameOfClient(b)' = NameOfClient(b)
      BY <2>2, <3>1, <3>2 DEF RenewPlayer, Put, NameOfClient
    <3> QED BY <3>1, <3>2, <3>3, <3>4
  <2> QED BY <2>1, <2>2 DEF HandleConnection
<1>4. KeptNames'
  <2> SUFFICES ASSUME NEW b \in DOMAIN clientId'
               PROVE  \E t \in Session : NameOfClient(b)' = NameOf[b][t]
    BY DEF KeptNames, NameOfClient
  <2> QED BY <1>3 DEF NamesInv, KeptNames
<1>5. usedNames' = {NameOfClient(b) : b \in DOMAIN clientId}' \ {NoName}
  <2>1. usedNames = {NameOfClient(b) : b \in DOMAIN clientId} \ {NoName}
    BY DEF NamesInv, NamesInStep
  <2> QED BY <1>3, <2>1
<1>6. \A b, c \in DOMAIN clientId' :
        NameOfClient(b)' = NameOfClient(c)' => b = c \/ NameOfClient(b)' = NoName
  <2>1. /\ usedNames = {NameOfClient(b) : b \in DOMAIN clientId} \ {NoName}
        /\ \A b, c \in DOMAIN clientId :
             NameOfClient(b) = NameOfClient(c) => b = c \/ NameOfClient(b) = NoName
    BY DEF NamesInv, NamesInStep
  <2>2. CASE a \in DOMAIN clientId
    BY <1>3, <2>1, <2>2
  <2>3. CASE a \notin DOMAIN clientId
    BY <1>3, <2>1, <2>3 DEF NameTaken
  <2> QED BY <2>2, <2>3
<1>7. loop' = "lobby" => /\ readyPlayers' \subseteq DOMAIN playerPos'
                         /\ DOMAIN playerPos' \subseteq usedNames'
  <2>1. /\ readyPlayers' \subseteq readyPlayers \cup ({n} \ {NoName})
        /\ DOMAIN playerPos' = DOMAIN playerPos \cup ({n} \ {NoName})
        /\ loop' = loop
    <3>1. UpdatePlayerState(n, turning) /\ loop' = loop
      BY DEF HandleConnection
    <3>2. CASE n = NoName
      BY <3>1, <3>2 DEF UpdatePlayerState
    <3>3. CASE n # NoName
      <4>1. readyPlayers' \subseteq readyPlayers \cup {n}
        BY <3>1, <3>3 DEF UpdatePlayerState
      <4>2. DOMAIN playerPos' = DOMAIN playerPos \cup {n}
        <5>1. CASE n \in DOMAIN playerPos
          BY <3>1, <3>3, <5>1 DEF UpdatePlayerState
        <5>2. CASE n \notin DOMAIN playerPos
          <6>1. playerPos' = Put(playerPos, n, DefaultPos)
            BY <3>1, <3>3, <5>2 DEF UpdatePlayerState
          <6> QED BY <6>1 DEF Put
        <5> QED BY <5>1, <5>2
      <4> QED BY <3>1, <3>3, <4>1, <4>2
    <3> QED BY <3>2, <3>3
  <2> QED BY <1>3, <2>1 DEF NamesInv, NamesInStep
<1>8. NamesInStep'
  BY <1>5, <1>6, <1>7 DEF NamesInStep, NameOfClient
<1> QED BY <1>1, <1>2, <1>4, <1>8 DEF NamesInv

\* The sizes agree and the ready players are among the names in use: they are
\* the names in use.
LEMMA AllAreReady ==
  ASSUME NamesInv, loop = "lobby", ~LobbyWaits
  PROVE  readyPlayers = DOMAIN playerPos /\ readyPlayers = usedNames
<1>1. /\ readyPlayers \subseteq DOMAIN playerPos
      /\ DOMAIN playerPos \subseteq usedNames
  BY DEF NamesInv, NamesInStep
<1>2. IsFiniteSet(usedNames)
  BY NameAssumption, FS_Subset DEF NamesInv, TimerInv, TypeOK
<1>3. /\ Cardinality(readyPlayers) \in Nat /\ Cardinality(usedNames) \in Nat
      /\ Cardinality(readyPlayers) <= Cardinality(usedNames)
      /\ Cardinality(readyPlayers) = Cardinality(usedNames) =>
           readyPlayers = usedNames
  <2>1. readyPlayers \subseteq usedNames
    BY <1>1
  <2> QED BY <1>2, <2>1, FS_Subset, FS_CardinalityType
<1>4. Cardinality(readyPlayers) >= Cardinality(usedNames)
  BY <1>3 DEF LobbyWaits
<1> QED BY <1>1, <1>3, <1>4

LEMMA StartKeepsNames == NamesInv /\ StartGame => NamesInv'
<1> SUFFICES ASSUME NamesInv, StartGame PROVE NamesInv'
  OBVIOUS
<1>1. TimerInv'
  BY OtherStepsKeepTimerInv DEF NamesInv
<1>2. /\ loop = "lobby" /\ loop' = "lobby" /\ pc' = "place"
      /\ events' = Append(events, NewGame(readyPlayers))
      /\ UNCHANGED <<clientId, usedNames, playerPos, readyPlayers>>
  BY DEF StartGame, sessions
<1>3. events' = <<NewGame(readyPlayers)>>
  <2>1. events = << >>
    BY DEF StartGame, NamesInv, ModeInv
  <2> QED BY <1>2, <2>1
<1>4. ModeInv'
  BY <1>2, <1>3 DEF ModeInv
<1>5. NamesInStep' /\ KeptNames'
  BY <1>2, SameNames DEF NamesInv
<1>6. RosterIsEveryone'
  <2>1. readyPlayers = DOMAIN playerPos /\ readyPlayers = usedNames
    BY <1>2, AllAreReady DEF StartGame
  <2>2. usedNames = {NameOfClient(a) : a \in DOMAIN clientId} \ {NoName}
    BY DEF NamesInv, NamesInStep
  <2>3. events'[1].players = readyPlayers
    BY <1>3 DEF NewGame
  <2> QED BY <1>2, <2>1, <2>2, <2>3 DEF RosterIsEveryone, NameOfClient
<1> QED BY <1>1, <1>4, <1>5, <1>6 DEF NamesInv

LEMMA PlaceKeepsNames ==
  ASSUME NamesInv, NEW f \in Field, PlaceWorm(f)
  PROVE  NamesInv'
<1>1. TimerInv'
  BY PlaceKeepsTimerInv DEF NamesInv
<1>2. /\ pc = "place" /\ UNCHANGED <<pc, loop, clientId, usedNames, readyPlayers>>
      /\ DOMAIN playerPos' = DOMAIN playerPos
  BY DEF PlaceWorm, control, sessions
<1>3. events' # << >> /\ events'[1] = events[1]
  <2>1. events \in Seq(Event) /\ events # << >>
    BY <1>2 DEF NamesInv, TimerInv, TypeOK, ModeInv
  <2>2. \/ \E e : events' = Append(events, e)
        \/ \E e, over : events' = events \o <<e, over>>
    BY DEF PlaceWorm, Eat
  <2>3. CASE \E e : events' = Append(events, e)
    BY <2>1, <2>3
  <2>4. CASE \E e, over : events' = events \o <<e, over>>
    BY <2>1, <2>4
  <2> QED BY <2>2, <2>3, <2>4
<1>4. ModeInv'
  BY <1>2, <1>3 DEF NamesInv, ModeInv
<1>5. NamesInStep' /\ KeptNames'
  BY <1>2, SameNames DEF NamesInv
<1>6. RosterIsEveryone'
  BY <1>2, <1>3 DEF NamesInv, RosterIsEveryone, NameOfClient
<1> QED BY <1>1, <1>4, <1>5, <1>6 DEF NamesInv

\* In a game, and where nothing of the lobby changes.
LEMMA OtherStepsKeepNames ==
  ASSUME NamesInv,
         \/ \E i \in TimerId : Expire(i)
         \/ Poll \/ NoConnection \/ HandleGameFrame
         \/ \E f \in Field \cup {Outside} : UpdateWorm(f)
         \/ EndUpdate \/ EndPoll \/ EndStart \/ FinishGame
  PROVE  NamesInv'
<1>1. CASE \E i \in TimerId : Expire(i)
  <2>1. TimerInv' /\ UNCHANGED <<control, game, clientId, usedNames>>
    BY <1>1, OtherStepsKeepTimerInv DEF NamesInv, Expire
  <2>2. NamesInStep' /\ KeptNames'
    BY <2>1, SameNames DEF NamesInv, control, game
  <2> QED BY <2>1, <2>2
      DEF NamesInv, ModeInv, RosterIsEveryone, NameOfClient, control, game
<1>2. CASE Poll \/ NoConnection
  <2>1. /\ TimerInv' /\ UNCHANGED <<loop, game, clientId, usedNames>>
        /\ pc # "place" /\ pc' \in {"timeouts", "frame"}
    BY <1>2, OtherStepsKeepTimerInv DEF NamesInv, Poll, NoConnection, sessions
  <2>2. NamesInStep' /\ KeptNames'
    BY <2>1, SameNames DEF NamesInv, game
  <2> QED BY <2>1, <2>2 DEF NamesInv, ModeInv, RosterIsEveryone, game
<1>3. CASE HandleGameFrame
  <2>1. /\ TimerInv' /\ UNCHANGED <<loop, game, clientId, usedNames>>
        /\ pc = "frame" /\ pc' \in {"update", "check"} /\ (pc' = "update" => active)
    BY <1>3, OtherStepsKeepTimerInv DEF NamesInv, HandleGameFrame, sessions
  <2>2. NamesInStep' /\ KeptNames'
    BY <2>1, SameNames DEF NamesInv, game
  <2>3. loop \in {"lobby", "game"}
    BY DEF NamesInv, TimerInv, TypeOK
  <2> QED BY <2>1, <2>2, <2>3 DEF NamesInv, ModeInv, RosterIsEveryone, game
<1>4. CASE (\E f \in Field \cup {Outside} : UpdateWorm(f)) \/ EndUpdate
  <2>1. TimerInv'
    BY <1>4, UpdateKeepsTimerInv, EndsKeepTimerInv DEF NamesInv
  <2>2. /\ UNCHANGED <<loop, clientId, usedNames>>
        /\ pc = "update" /\ pc' \in {"update", "check"}
    BY <1>4 DEF UpdateWorm, EndUpdate, control, sessions
  <2>3. loop' = "game"
    BY <2>2 DEF NamesInv, ModeInv
  <2>4. NamesInStep' /\ KeptNames'
    BY <2>2, <2>3, SameNames DEF NamesInv
  <2> QED BY <2>1, <2>2, <2>3, <2>4 DEF NamesInv, ModeInv, RosterIsEveryone
<1>5. CASE EndPoll
  <2>1. /\ TimerInv' /\ pc = "check" /\ pc' = "while" /\ (active' => active)
        /\ UNCHANGED <<loop, events, playerPos, readyPlayers, clientId, usedNames>>
    BY <1>5, OtherStepsKeepTimerInv DEF NamesInv, EndPoll, sessions
  <2>2. NamesInStep' /\ KeptNames'
    BY <2>1, SameNames DEF NamesInv
  <2> QED BY <2>1, <2>2 DEF NamesInv, ModeInv, RosterIsEveryone
<1>6. CASE EndStart
  <2>1. /\ TimerInv' /\ pc' = "while" /\ loop' = "game"
        /\ UNCHANGED <<clientId, usedNames>>
    BY <1>6, EndsKeepTimerInv DEF NamesInv, EndStart, sessions
  <2>2. NamesInStep' /\ KeptNames'
    BY <2>1, SameNames DEF NamesInv
  <2> QED BY <2>1, <2>2 DEF NamesInv, ModeInv, RosterIsEveryone
<1>7. CASE FinishGame
  <2>1. TimerInv' /\ pc' = "while" /\ ~active' /\ events' = << >>
    BY <1>7, OtherStepsKeepTimerInv DEF NamesInv, FinishGame
  <2>2. /\ UNCHANGED <<clientId, usedNames>>
        /\ readyPlayers' = {} /\ DOMAIN playerPos' = {}
    BY <1>7 DEF FinishGame, sessions
  <2>3. NamesInStep' /\ KeptNames'
    BY <2>2 DEF NamesInv, NamesInStep, KeptNames, NameOfClient
  <2> QED BY <2>1, <2>3 DEF NamesInv, ModeInv, RosterIsEveryone
<1> QED BY <1>1, <1>2, <1>3, <1>4, <1>5, <1>6, <1>7

LEMMA NextKeepsNamesInv ==
  ASSUME OneNameEach
  PROVE  NamesInv /\ [Next]_vars => NamesInv'
<1> SUFFICES ASSUME NamesInv, [Next]_vars PROVE NamesInv'
  OBVIOUS
<1>1. CASE HandleTimeouts
  BY <1>1, TimeoutsKeepNames
<1>2. CASE Connect
  BY <1>2, ConnectionKeepsNames DEF Connect
<1>3. CASE StartGame
  BY <1>3, StartKeepsNames
<1>4. CASE \E f \in Field : PlaceWorm(f)
  BY <1>4, PlaceKeepsNames
<1>5. CASE \/ \E i \in TimerId : Expire(i)
           \/ Poll \/ NoConnection \/ HandleGameFrame
           \/ \E f \in Field \cup {Outside} : UpdateWorm(f)
           \/ EndUpdate \/ EndPoll \/ EndStart \/ FinishGame
  BY <1>5, OtherStepsKeepNames
<1>6. CASE UNCHANGED vars
  <2>1. TimerInv' /\ NamesInStep' /\ KeptNames'
    BY <1>6, NextKeepsTimerInv, SameNames
    DEF NamesInv, vars, control, sessions, game
  <2> QED BY <1>6, <2>1
      DEF NamesInv, ModeInv, RosterIsEveryone, NameOfClient, vars, control,
          sessions, game
<1> QED BY <1>1, <1>2, <1>3, <1>4, <1>5, <1>6 DEF Next, Handle

(***************************************************************************)
(* While every address keeps to one player name, usedNames holds exactly   *)
(* the names of the connected players and the worms of the lobby are       *)
(* theirs, for any number of addresses, names and seats.                   *)
(* (server.cpp:194-200, 217-219, 315-324, 552)                             *)
(***************************************************************************)
THEOREM NamesSafety ==
  ASSUME OneNameEach
  PROVE  Spec => []NamesInStep
<1>1. Init => NamesInv
  BY InitNamesInv
<1>2. NamesInv /\ [Next]_vars => NamesInv'
  BY NextKeepsNamesInv
<1>3. NamesInv => NamesInStep
  BY DEF NamesInv
<1> QED BY <1>1, <1>2, <1>3, PTL DEF Spec

(***************************************************************************)
(* While every address keeps to one player name, a game starts with the    *)
(* connected players, no one more or less, though main compares only sizes.*)
(* (server.cpp:552, 250-253, 508)                                          *)
(***************************************************************************)
THEOREM RosterSafety ==
  ASSUME OneNameEach
  PROVE  Spec => []RosterIsEveryone
<1>1. Init => NamesInv
  BY InitNamesInv
<1>2. NamesInv /\ [Next]_vars => NamesInv'
  BY NextKeepsNamesInv
<1>3. NamesInv => RosterIsEveryone
  BY DEF NamesInv
<1> QED BY <1>1, <1>2, <1>3, PTL DEF Spec
=============================================================================
