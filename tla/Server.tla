------------------------------- MODULE Server -------------------------------
(***************************************************************************)
(* The game server: one thread that polls the UDP socket, one idle timer   *)
(* per client and the game timer, and alternates between a lobby and a     *)
(* game.                                                                   *)
(*                                                                         *)
(* pc names the place the thread has reached in main/handlePollEvent; the  *)
(* handlers between two polls run in the order of the code, and only the   *)
(* kernel (Expire) acts between them.  The loops over a std::map           *)
(* (updateGame, startGame) take one step per worm, in the order of the     *)
(* player names, with "todo" the worms the loop has not reached yet.       *)
(*                                                                         *)
(* Abstracted: a worm's coordinates and heading are the field it stands    *)
(* on, and a move may end on any field or outside the board; a turn        *)
(* direction is "straight or not"; what sendEvents transmits is left to    *)
(* the Datagrams and EventStream modules, and the game identifier with it. *)
(***************************************************************************)
EXTENDS Integers, FiniteSets, Sequences, Functions

CONSTANTS
  Addr,        \* client socket addresses
  Name,        \* non-empty player names; < is the order of cmpInfo
  Session,     \* session identifiers: start times of client processes
  NameOf,      \* NameOf[a][s]: the name the client process s at a plays under
  MaxPlayers,  \* MAX_PLAYERS
  Field,       \* the fields of the board
  Origin,      \* the field (0, 0)
  Outside,     \* any coordinates off the board
  MaxReps,     \* bound: game timer expirations that one read can return
  MaxLog       \* bound: no worm joins a running game once the log is longer

NoName     == 0                \* the empty name of a spectator
TimerId    == 1..MaxPlayers
Socket     == 0                \* index of the UDP socket in client[]
GameTimer  == MaxPlayers + 1   \* GAME_TIMER_ID

ASSUME NameAssumption ==
  /\ Name \subseteq Nat \ {NoName}
  /\ IsFiniteSet(Name)
ASSUME SessionAssumption == Session \subseteq Nat
ASSUME NameOfAssumption == NameOf \in [Addr -> [Session -> Name \cup {NoName}]]
ASSUME MaxPlayersAssumption == MaxPlayers \in Nat \ {0}
ASSUME FieldAssumption == Origin \in Field /\ Outside \notin Field
ASSUME BoundAssumption == MaxReps \in Nat \ {0} /\ MaxLog \in Nat

VARIABLES
  pc,            \* where the thread is
  loop,          \* which loop of main it is in: "lobby" or "game"
  revents,       \* descriptors the last poll reported as readable
  reps,          \* game frames left to simulate in this handleGameFrame
  todo,          \* worms the current map traversal has not reached
  toErase,       \* worms to erase when the traversal ends
  clientId,      \* address -> [timerId, sessionId, playerName]
  freeTimerIds,  \* timers no client holds
  usedNames,     \* names in use
  timer,         \* idle timers: "off", "armed" or "expired" (readable)
  active,        \* game.active
  events,        \* game.events
  eatenFields,   \* game.eatenFields
  playerPos,     \* game.playerPos: name -> [pos, order]
  readyPlayers   \* game.readyPlayers, as names

control  == <<pc, loop, revents>>
sweep    == <<reps, todo, toErase>>
sessions == <<clientId, freeTimerIds, usedNames, timer>>
game     == <<active, events, eatenFields, playerPos, readyPlayers>>
vars     == <<control, sweep, sessions, game>>

-----------------------------------------------------------------------------
(* Events and small helpers *)

NewGame(players)   == [type |-> "NEW_GAME", players |-> players]
Pixel(n, f)        == [type |-> "PIXEL", player |-> n, field |-> f]
PlayerEliminated(n) == [type |-> "PLAYER_ELIMINATED", player |-> n]
GameOver           == [type |-> "GAME_OVER"]

\* A value-initialised PlayerPos: coordinates and order are zero.
DefaultPos == [pos |-> Origin, order |-> 0]

\* std::map::operator[] followed by an assignment.
Put(f, x, v) == [y \in DOMAIN f \cup {x} |-> IF y = x THEN v ELSE f[y]]

\* The first key of a map or set ordered by <.
Least(S) == CHOOSE n \in S : \A m \in S : n <= m

Expired  == {i \in TimerId : timer[i] = "expired"}

\* Slips: two ready players are enough; two players are too few.
LobbyWaits_TwoReady == Cardinality(usedNames) < 2 \/ Cardinality(readyPlayers) < 2
LobbyWaits_ThreeUsed ==
  \/ Cardinality(usedNames) <= 2
  \/ Cardinality(readyPlayers) < Cardinality(usedNames)

\* main's condition for staying in the lobby
LobbyWaits ==
  \/ Cardinality(usedNames) < 2
  \/ Cardinality(readyPlayers) < Cardinality(usedNames)

-----------------------------------------------------------------------------
Init ==
  /\ pc = "while" /\ loop = "lobby" /\ revents = {}
  /\ reps = 0 /\ todo = {} /\ toErase = {}
  /\ clientId = [a \in {} |-> 0]
  /\ freeTimerIds = TimerId
  /\ usedNames = {}
  /\ timer = [i \in TimerId |-> "off"]
  /\ active = FALSE
  /\ events = << >>
  /\ eatenFields = {}
  /\ playerPos = [n \in {} |-> 0]
  /\ readyPlayers = {}

(***************************************************************************)
(* The kernel: an armed idle timer runs out, and stays readable until it   *)
(* is set again or read.                                                   *)
(***************************************************************************)
Expire(i) ==
  /\ timer[i] = "armed"
  /\ timer' = [timer EXCEPT ![i] = "expired"]
  /\ UNCHANGED <<control, sweep, clientId, freeTimerIds, usedNames, game>>

(***************************************************************************)
(* poll: every expired timer is reported, the socket and the game timer    *)
(* when they happen to be readable.  It blocks while nothing is.           *)
(***************************************************************************)
Poll ==
  /\ pc = "while"
  /\ IF loop = "lobby" THEN LobbyWaits ELSE active
  /\ \E other \in SUBSET {Socket, GameTimer} :
        /\ revents' = Expired \cup other
        /\ revents' # {}
  /\ pc' = "timeouts"
  /\ UNCHANGED <<loop, sweep, sessions, game>>

(***************************************************************************)
(* handleTimeouts: the clients whose timer poll reported are forgotten and *)
(* their timers freed.  A worm leaves the map only in the lobby.           *)
(***************************************************************************)
\* Slips: an index that is off by one; nobody is kicked during a game.
Kicked_NextIndex == {a \in DOMAIN clientId : clientId[a].timerId + 1 \in revents}
Kicked_InLobby ==
  {a \in DOMAIN clientId : ~active /\ clientId[a].timerId \in revents}
Kicked == {a \in DOMAIN clientId : clientId[a].timerId \in revents}

\* Slip: the timers are looked at again instead of what poll reported.
Freed_Now == Expired
Freed == revents \cap TimerId

\* Slip: the worm of a kicked player goes with it.
KeptWorms_None(names) == DOMAIN playerPos \ names
KeptWorms(names) == IF active THEN DOMAIN playerPos ELSE DOMAIN playerPos \ names

HandleTimeouts ==
  /\ pc = "timeouts"
  /\ LET names == {clientId[a].playerName : a \in Kicked}
     IN  /\ usedNames' = usedNames \ names
         /\ readyPlayers' = readyPlayers \ names
         /\ playerPos' = Restrict(playerPos, KeptWorms(names))
  /\ clientId' = Restrict(clientId, DOMAIN clientId \ Kicked)
  /\ freeTimerIds' = freeTimerIds \cup Freed
  /\ pc' = "connection"
  /\ UNCHANGED <<loop, revents, sweep, timer, active, events, eatenFields>>

-----------------------------------------------------------------------------
(* handleConnection *)

\* Slip: names are not compared.
NameTaken_Never(n) == FALSE
NameTaken(n) == n # NoName /\ n \in usedNames

\* acceptPlayer: a new client takes the first free timer and its name.
AcceptPlayer(a, s) ==
  /\ a \notin DOMAIN clientId
  /\ Cardinality(DOMAIN clientId) < MaxPlayers
  /\ ~NameTaken(NameOf[a][s])
  /\ LET t == Least(freeTimerIds)
     IN  /\ clientId' = Put(clientId, a, [timerId |-> t, sessionId |-> s,
                                          playerName |-> NameOf[a][s]])
         /\ freeTimerIds' = freeTimerIds \ {t}
         /\ timer' = [timer EXCEPT ![t] = "armed"]
  /\ usedNames' = usedNames \cup ({NameOf[a][s]} \ {NoName})

\* A known client: a datagram of an older process is ignored, one of a newer
\* process takes the entry over; either way renewPlayer sets the timer again.
RenewPlayer(a, s) ==
  /\ a \in DOMAIN clientId
  /\ s >= clientId[a].sessionId
  /\ clientId' = IF s > clientId[a].sessionId
                 THEN Put(clientId, a, [timerId |-> clientId[a].timerId,
                                        sessionId |-> s,
                                        playerName |-> NameOf[a][s]])
                 ELSE clientId
  /\ timer' = [timer EXCEPT ![clientId[a].timerId] = "armed"]
  /\ UNCHANGED <<freeTimerIds, usedNames>>

\* updatePlayerState: playerPos[info] creates the entry when there is none.
UpdatePlayerState(n, turning) ==
  IF n = NoName
  THEN UNCHANGED <<readyPlayers, playerPos>>
  ELSE /\ readyPlayers' = IF ~active /\ turning THEN readyPlayers \cup {n}
                          ELSE readyPlayers
       /\ playerPos' = IF n \in DOMAIN playerPos THEN playerPos
                       ELSE Put(playerPos, n, DefaultPos)
       /\ active /\ n \notin DOMAIN playerPos => Len(events) <= MaxLog

HandleConnection(a, s, turning) ==
  /\ pc = "connection"
  /\ Socket \in revents
  /\ AcceptPlayer(a, s) \/ RenewPlayer(a, s)
  /\ UpdatePlayerState(NameOf[a][s], turning)
  /\ pc' = "frame"
  /\ UNCHANGED <<loop, revents, sweep, active, events, eatenFields>>

\* No datagram, or one that handleConnection returns from early: malformed,
\* of an older process, for a full server, or with a name in use.
NoConnection ==
  /\ pc = "connection"
  /\ pc' = "frame"
  /\ UNCHANGED <<loop, revents, sweep, sessions, game>>

-----------------------------------------------------------------------------
(* handleGameFrame and updateGame *)

\* The game timer is read whether poll reported it or not; outside a game the
\* expirations read are dropped.
HandleGameFrame ==
  /\ pc = "frame"
  /\ \E ret \in 0..MaxReps :
       /\ GameTimer \in revents => ret > 0
       /\ IF active /\ ret > 0
          THEN pc' = "update" /\ reps' = ret /\ todo' = DOMAIN playerPos
          ELSE pc' = "check" /\ UNCHANGED <<reps, todo>>
  /\ UNCHANGED <<loop, revents, toErase, sessions, game>>

\* Slip: the edges of the board are forgotten.
Blocked_Trails(f) == f \in eatenFields
Blocked(f) == f \in eatenFields \cup {Outside}

\* Slip: the last worm alive is counted as one of the eliminated.
OneLeft_None(erased) == Cardinality(DOMAIN playerPos) - Cardinality(erased) = 0
OneLeft(erased) == Cardinality(DOMAIN playerPos) - Cardinality(erased) = 1

\* A worm moves to a field it must not be on.  The last but one worm to go
\* ends the game and leaves the traversal.
Eliminate(n) ==
  LET gone   == PlayerEliminated(playerPos[n].order)
      erased == toErase \cup {n}
  IN  /\ toErase' = erased
      /\ IF OneLeft(erased)
         THEN events' = events \o <<gone, GameOver>> /\ todo' = {}
         ELSE events' = Append(events, gone) /\ todo' = todo \ {n}
      /\ UNCHANGED eatenFields

\* Slip: the pixel is announced but not marked as eaten.
Eat_Unmarked(n, order, f) ==
  /\ events' = Append(events, Pixel(order, f))
  /\ todo' = todo \ {n}
  /\ UNCHANGED <<toErase, eatenFields>>

Eat(n, order, f) ==
  /\ events' = Append(events, Pixel(order, f))
  /\ eatenFields' = eatenFields \cup {f}
  /\ todo' = todo \ {n}
  /\ UNCHANGED toErase

\* updateGame's loop body for the next worm: f is where the move ends.
UpdateWorm(f) ==
  /\ pc = "update" /\ todo # {}
  /\ LET n == Least(todo)
     IN  /\ playerPos' = [playerPos EXCEPT ![n].pos = f]
         /\ IF f = playerPos[n].pos
            THEN /\ todo' = todo \ {n}
                 /\ UNCHANGED <<toErase, events, eatenFields>>
            ELSE IF Blocked(f)
                 THEN Eliminate(n)
                 ELSE Eat(n, playerPos[n].order, f)
  /\ UNCHANGED <<control, reps, sessions, active, readyPlayers>>

\* The end of updateGame; handleGameFrame repeats it for every expiration.
EndUpdate ==
  /\ pc = "update" /\ todo = {}
  /\ playerPos' = Restrict(playerPos, DOMAIN playerPos \ toErase)
  /\ toErase' = {}
  /\ reps' = reps - 1
  /\ IF reps > 1
     THEN todo' = DOMAIN playerPos \ toErase /\ UNCHANGED pc
     ELSE pc' = "check" /\ UNCHANGED todo
  /\ UNCHANGED <<loop, revents, sessions, active, events, eatenFields,
                 readyPlayers>>

\* The end of handlePollEvent.
EndPoll ==
  /\ pc = "check"
  /\ active' = (active /\ Cardinality(DOMAIN playerPos) >= 2)
  /\ revents' = {}
  /\ pc' = "while"
  /\ UNCHANGED <<loop, sweep, sessions, events, eatenFields, playerPos,
                 readyPlayers>>

-----------------------------------------------------------------------------
(* main's transitions between the lobby and a game *)

StartGame ==
  /\ pc = "while" /\ loop = "lobby" /\ ~LobbyWaits
  /\ active' = TRUE
  /\ events' = Append(events, NewGame(readyPlayers))
  /\ todo' = DOMAIN playerPos
  /\ pc' = "place"
  /\ UNCHANGED <<loop, revents, reps, toErase, sessions, eatenFields,
                 playerPos, readyPlayers>>

\* Slip: numbers start at one.
NextOrder_One == Cardinality(DOMAIN playerPos \ todo) + 1
NextOrder == Cardinality(DOMAIN playerPos \ todo)

\* startGame's loop body: the next worm gets its number and a field.  One that
\* lands on a taken field is eliminated, but erased only if it is the last.
PlaceWorm(f) ==
  /\ pc = "place" /\ todo # {}
  /\ LET n    == Least(todo)
         gone == PlayerEliminated(NextOrder)
     IN  /\ playerPos' = [playerPos EXCEPT ![n] = [pos |-> f, order |-> NextOrder]]
         /\ IF f \notin eatenFields
            THEN Eat(n, NextOrder, f)
            ELSE /\ IF OneLeft(toErase)
                    THEN /\ events' = events \o <<gone, GameOver>>
                         /\ toErase' = toErase \cup {n} /\ todo' = {}
                    ELSE /\ events' = Append(events, gone)
                         /\ todo' = todo \ {n} /\ UNCHANGED toErase
                 /\ UNCHANGED eatenFields
  /\ UNCHANGED <<control, reps, sessions, active, readyPlayers>>

EndStart ==
  /\ pc = "place" /\ todo = {}
  /\ playerPos' = Restrict(playerPos, DOMAIN playerPos \ toErase)
  /\ toErase' = {}
  /\ active' = (active /\ Cardinality(DOMAIN playerPos \ toErase) >= 2)
  /\ loop' = "game"
  /\ pc' = "while"
  /\ UNCHANGED <<revents, reps, todo, sessions, events, eatenFields,
                 readyPlayers>>

\* The game loop ends and main enters the next lobby with a fresh GameState.
FinishGame ==
  /\ pc = "while" /\ loop = "game" /\ ~active
  /\ loop' = "lobby"
  /\ events' = << >>
  /\ eatenFields' = {}
  /\ playerPos' = [n \in {} |-> 0]
  /\ readyPlayers' = {}
  /\ UNCHANGED <<pc, revents, sweep, sessions, active>>

-----------------------------------------------------------------------------
Connect == \E a \in Addr, s \in Session, turning \in BOOLEAN :
             HandleConnection(a, s, turning)

\* Every step of the thread but poll, none of which can block.
Handle ==
  \/ HandleTimeouts
  \/ Connect \/ NoConnection
  \/ HandleGameFrame
  \/ \E f \in Field \cup {Outside} : UpdateWorm(f)
  \/ EndUpdate \/ EndPoll
  \/ StartGame
  \/ \E f \in Field : PlaceWorm(f)
  \/ EndStart \/ FinishGame

Next == Poll \/ Handle \/ \E i \in TimerId : Expire(i)

Spec == Init /\ [][Next]_vars

\* A datagram of a client sets its idle timer i again.
Restart(i) ==
  \E a \in Addr, s \in Session, turning \in BOOLEAN :
    HandleConnection(a, s, turning) /\ clientId'[a].timerId = i

\* The thread keeps running between two polls, poll returns once a timer is
\* readable, and an idle timer runs out unless it is set again and again.
\* Nothing is assumed of the clients, of the network, or of what poll finds.
FairSpec ==
  /\ Spec
  /\ WF_vars(Handle)
  /\ WF_vars(Expired # {} /\ Poll)
  /\ \A i \in TimerId : []<><<Restart(i)>>_vars \/ WF_vars(Expire(i))

-----------------------------------------------------------------------------
(* Types *)

ClientInfo == [timerId : TimerId, sessionId : Session,
               playerName : Name \cup {NoName}]
PlayerPos  == [pos : Field \cup {Outside}, order : Nat]
Event ==
  [type : {"NEW_GAME"}, players : SUBSET Name]
    \cup [type : {"PIXEL"}, player : Nat, field : Field]
    \cup [type : {"PLAYER_ELIMINATED"}, player : Nat]
    \cup [type : {"GAME_OVER"}]

\* Every variable holds a value of its type in the code; in particular the
\* index order++ of startGame and every field of a pixel stay in range.
TypeOK ==
  /\ pc \in {"while", "timeouts", "connection", "frame", "update", "check",
            "place"}
  /\ loop \in {"lobby", "game"}
  /\ revents \subseteq {Socket, GameTimer} \cup TimerId
  /\ reps \in Nat
  /\ todo \subseteq DOMAIN playerPos /\ toErase \subseteq DOMAIN playerPos
  /\ DOMAIN clientId \subseteq Addr
  /\ clientId \in [DOMAIN clientId -> ClientInfo]
  /\ freeTimerIds \subseteq TimerId
  /\ usedNames \subseteq Name
  /\ timer \in [TimerId -> {"off", "armed", "expired"}]
  /\ active \in BOOLEAN
  /\ events \in Seq(Event)
  /\ eatenFields \subseteq Field
  /\ DOMAIN playerPos \subseteq Name
  /\ playerPos \in [DOMAIN playerPos -> PlayerPos]
  /\ readyPlayers \subseteq Name

-----------------------------------------------------------------------------
(* Properties *)

Logged(type) == {i \in DOMAIN events : events[i].type = type}
NameOfClient(a) == clientId[a].playerName
HeldTimers == {clientId[a].timerId : a \in DOMAIN clientId}

(***************************************************************************)
(* TimerPartition: every idle timer is free or belongs to one client, so   *)
(* acceptPlayer never dereferences begin() of an empty set and handle-     *)
(* Timeouts never kicks one client for the silence of another; and the     *)
(* timer of a client is running or has run out, so a silent client cannot  *)
(* stay for ever.  (server.cpp:188-228, 299-312)                           *)
(***************************************************************************)
TimerPartition ==
  /\ \A a, b \in DOMAIN clientId :
       clientId[a].timerId = clientId[b].timerId => a = b
  /\ HeldTimers \cap freeTimerIds = {}
  /\ HeldTimers \cup freeTimerIds = TimerId
  /\ \A i \in HeldTimers : timer[i] # "off"

(***************************************************************************)
(* NamesInStep: usedNames holds exactly the names of the connected         *)
(* players, no two of which share one, and in the lobby only they have     *)
(* worms and only those with worms are ready: what main compares sizes of  *)
(* is what it means to count.  It holds as long as the processes behind an *)
(* address keep to one name. (server.cpp:194-200, 217-219, 315-324, 552)   *)
(***************************************************************************)
NamesInStep ==
  /\ usedNames = {NameOfClient(a) : a \in DOMAIN clientId} \ {NoName}
  /\ \A a, b \in DOMAIN clientId :
       NameOfClient(a) = NameOfClient(b) => a = b \/ NameOfClient(a) = NoName
  /\ loop = "lobby" => /\ readyPlayers \subseteq DOMAIN playerPos
                       /\ DOMAIN playerPos \subseteq usedNames

(***************************************************************************)
(* RosterIsEveryone: when main leaves the lobby, having only compared      *)
(* sizes, the players announced in NEW_GAME are the connected ones, all of *)
(* them declared ready in this lobby, and each has a worm.                 *)
(* (server.cpp:552, 250-253, 508)                                          *)
(***************************************************************************)
RosterIsEveryone ==
  pc = "place" => /\ readyPlayers = DOMAIN playerPos
                  /\ readyPlayers = {NameOfClient(a) : a \in DOMAIN clientId}
                                       \ {NoName}
                  /\ events[1].players = readyPlayers

(***************************************************************************)
(* NumbersInRoster: the worms are numbered in the order NEW_GAME lists the *)
(* players in, so every number a client reads is the index of a name.      *)
(* (server.cpp:250-253, 507-509)                                           *)
(***************************************************************************)
NumbersInRoster ==
  \A i \in Logged("PIXEL") \cup Logged("PLAYER_ELIMINATED") :
    events[i].player < Cardinality(events[1].players)

(***************************************************************************)
(* GameEndsOnce: between two polls of a running game at least two worms    *)
(* live and GAME_OVER is not logged; when main leaves the game loop it is  *)
(* logged, once: no game ends unannounced, none is announced and goes on.  *)
(* (server.cpp:431-434, 490-492, 559-564)                                  *)
(***************************************************************************)
GameEndsOnce ==
  /\ Cardinality(Logged("GAME_OVER")) <= 1
  /\ pc = "while" /\ loop = "game" =>
       IF active
       THEN Logged("GAME_OVER") = {} /\ Cardinality(DOMAIN playerPos) >= 2
       ELSE Logged("GAME_OVER") # {}

(***************************************************************************)
(* PixelsAreEaten: the pixels the log tells the clients of are the eaten   *)
(* fields, each once, in every state of every game.                        *)
(* (server.cpp:428-438, 516-526)                                           *)
(***************************************************************************)
PixelsAreEaten ==
  /\ {events[i].field : i \in Logged("PIXEL")} = eatenFields
  /\ Cardinality(Logged("PIXEL")) = Cardinality(eatenFields)

(***************************************************************************)
(* OnlyIdleKicked: a client is forgotten only while its own idle timer has *)
(* run out, whatever datagrams arrive between the poll that reported it    *)
(* and the kick. (server.cpp:188-208, 299-312, 494-496)                    *)
(***************************************************************************)
OnlyIdleKicked ==
  [][\A a \in DOMAIN clientId \ DOMAIN clientId' :
       timer[clientId[a].timerId] = "expired"]_vars

(***************************************************************************)
(* WormsOutliveClients: during a game a worm leaves the board only after   *)
(* the log has told the clients so, even when its player is kicked or      *)
(* replaced. (server.cpp:196-198, 441-443, 529-531)                        *)
(***************************************************************************)
WormsOutliveClients ==
  [][active =>
       \A n \in DOMAIN playerPos \ DOMAIN playerPos' :
         PlayerEliminated(playerPos[n].order) \in Range(events)]_vars

(***************************************************************************)
(* SilentClientsLeave: a client that sends nothing any more is forgotten   *)
(* in the end, in the lobby and in a game. (server.cpp:188-208)            *)
(***************************************************************************)
Heard(a) == \E s \in Session, turning \in BOOLEAN :
              HandleConnection(a, s, turning)
SilentClientsLeave ==
  \A a \in Addr :
    <>[][~Heard(a)]_vars => <>[](a \notin DOMAIN clientId)

(***************************************************************************)
(* ReadyLobbyStarts: when at least two players are connected and all of    *)
(* them have declared themselves ready, a game starts unless one of them   *)
(* leaves or a new one comes. (server.cpp:548-557)                         *)
(***************************************************************************)
EveryoneReady ==
  LET players == {a \in DOMAIN clientId : NameOfClient(a) # NoName}
  IN  /\ loop = "lobby"
      /\ Cardinality(players) >= 2
      /\ \A a \in players : NameOfClient(a) \in readyPlayers
ReadyLobbyStarts == EveryoneReady ~> ~EveryoneReady

(***************************************************************************)
(* LogPromise: the log behaves as GameLog says.  Its worms are those of    *)
(* playerPos, but for the ones startGame has still to place and those      *)
(* eliminated in this traversal; and a frame simulated after the end of    *)
(* the game, which one read of several expirations brings about, lets no   *)
(* more than the survivor move.                                            *)
(* (server.cpp:243-295, 323, 407-444, 464-468, 501-532, 550, 569)          *)
(***************************************************************************)
ToPlace == IF pc = "place" THEN todo ELSE {}
InGame ==
  IF events = << >> THEN {} ELSE DOMAIN playerPos \ (toErase \cup ToPlace)
Promise == INSTANCE GameLog WITH
             log   <- events,
             worms <- [n \in InGame |-> playerPos[n].order],
             Lags  <- MaxReps > 1
LogPromise == Promise!Spec

=============================================================================
