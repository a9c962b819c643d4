------------------------------ MODULE Session ------------------------------
(***************************************************************************)
(* One client and the server that plays game after game: what the server   *)
(* sends the client, from main, handleConnection and broadcastEvents, and  *)
(* what the client makes of it, from EventStream.                          *)
(*                                                                         *)
(* The server's part is where main stands, the running game and oldGame,   *)
(* the copy that answers a client between two games.  The log of each game *)
(* is given, and games log more and more of it; who plays, and how a game  *)
(* goes, is in the Server module.  A request of the client is answered     *)
(* from the number it asks for, any number at any time: requests are lost, *)
(* late, and repeated.                                                     *)
(*                                                                         *)
(* Datagrams wait, in order, in a socket of bounded size, unless they are  *)
(* lost.  Abstracted: a datagram holds PerDatagram events, whatever their  *)
(* sizes (the Datagrams module has those).                                 *)
(***************************************************************************)
EXTENDS Integers, Sequences, FiniteSetsExt, Functions

CONSTANTS
  Games,        \* the number of games
  Log,          \* Log[g]: the events of the game g, once it is over
  GameId,       \* GameId[g]: its identifier
  MaxEvents,    \* bound: events a client keeps
  PerDatagram,  \* events in a datagram
  Capacity      \* datagrams the client's socket holds

Game == 1..Games

ASSUME SessionAssumption ==
  /\ Games \in Nat \ {0} /\ PerDatagram \in Nat \ {0} /\ Capacity \in Nat \ {0}
\* The roster, one event for each player, and in the end GAME_OVER.
ASSUME EveryGameEnds ==
  \A g \in Game :
    /\ Log[g] \in Seq(Range(Log[g])) /\ Len(Log[g][1].players) \in Nat
    /\ 1 + Len(Log[g][1].players) < Len(Log[g])
    /\ Log[g][Len(Log[g])].type = "GAME_OVER"

VARIABLES
  loop,      \* which loop of main the server is in: "lobby" or "game"
  played,    \* the number of games that have begun
  game,      \* [gameId, events]: game of main, in the lobby the next one
  oldGame,   \* [gameId, events]: oldGame of main
  known,     \* the client has an entry in socks.clientId
  channel,   \* datagrams on their way: [gameId, first, events]
  \* the variables of EventStream
  pc, dgram, no, gameId, playerNames, events, nextExpectedEventNo, finished,
  nextEventNo, shown, opened, repeated

Client == INSTANCE EventStream

server == <<loop, played, game, oldGame, known>>
client == <<pc, dgram, no, gameId, playerNames, events, nextExpectedEventNo,
            finished, nextEventNo, shown, opened, repeated>>
vars   == <<server, channel, client>>

\* GameState{}
NoGameState == [gameId |-> 0, events |-> << >>]

Init ==
  /\ loop = "lobby" /\ played = 0
  /\ game = NoGameState /\ oldGame = NoGameState
  /\ known = FALSE
  /\ channel = << >>
  /\ Client!Init

-----------------------------------------------------------------------------
(* The server *)

\* Slip: the events left over at the end of the log are not sent.
Count_Full(rest) == rest \div PerDatagram

\* The number of datagrams rest events take.
Count(rest) == IF rest <= 0 THEN 0 ELSE ((rest - 1) \div PerDatagram) + 1

\* The datagrams sendEvents makes of the events of a game, numbered from on.
Datagrams(g, from) ==
  [i \in 1..Count(Len(g.events) - from) |->
     LET first == from + (i - 1) * PerDatagram
     IN  [gameId |-> g.gameId, first |-> first,
          events |-> SubSeq(g.events, first + 1,
                            IF first + PerDatagram <= Len(g.events)
                            THEN first + PerDatagram ELSE Len(g.events))]]

\* Which of n datagrams arrive, in their order.
Arrivals(n) ==
  {f \in UNION {[1..k -> 1..n] : k \in 0..n} :
     \A i, j \in DOMAIN f : i < j => f[i] < f[j]}

\* The others are lost, also because the client's socket is full.
Send(datagrams) ==
  \E f \in Arrivals(Len(datagrams)) :
    /\ Len(channel) + Len(f) <= Capacity
    /\ channel' = channel \o [i \in 1..Len(f) |-> datagrams[f[i]]]

Broadcast(g, from) ==
  IF known THEN Send(Datagrams(g, from)) ELSE UNCHANGED channel

\* handleConnection lets the client in, or has it already, and answers; there
\* may be no seat for it.
Request(from, g) ==
  /\ known' = TRUE
  /\ Send(Datagrams(g, from))
  /\ UNCHANGED <<loop, played, game, oldGame, client>>

\* Slips: the lobby answers from its own empty game; with the identifier of
\* that.
AnswerFrom_Game  == game
AnswerFrom_Mixed ==
  IF loop = "game" THEN game ELSE [game EXCEPT !.events = oldGame.events]

\* game.active tells the running game from that of the lobby, which has no
\* events yet.
AnswerFrom == IF loop = "game" THEN game ELSE oldGame

Answer(from) == Request(from, AnswerFrom)

\* The idle timer of the client runs out.
Kick ==
  /\ known
  /\ known' = FALSE
  /\ UNCHANGED <<loop, played, game, oldGame, channel, client>>

\* startGame logs the roster and one event for each player; after it has been
\* broadcast main forgets the events of the game before.
StartGame ==
  /\ loop = "lobby" /\ played < Games
  /\ LET g == played + 1
         new == [gameId |-> GameId[g],
                 events |-> SubSeq(Log[g], 1, 1 + Len(Log[g][1].players))]
     IN  /\ played' = g
         /\ game' = new
         /\ Broadcast(new, 0)
  /\ loop' = "game"
  /\ oldGame' = [oldGame EXCEPT !.events = << >>]
  /\ UNCHANGED <<known, client>>

\* Slips: oldGame keeps its identifier; it is one game late.
OldGame_SameId(g) == [oldGame EXCEPT !.events = g.events]
OldGame_Late(g) ==
  IF played = 1 THEN NoGameState
  ELSE [gameId |-> GameId[played - 1], events |-> Log[played - 1]]

\* What main keeps of a game that is over.
OldGame(g) == g

\* A frame that logs something.  The elimination that leaves one worm and
\* GAME_OVER come together, and the same round of main ends the game and begins
\* the next lobby.
Frame ==
  /\ loop = "game"
  /\ \E n \in (Len(game.events) + 1)..Len(Log[played]) :
       LET next == [game EXCEPT !.events = SubSeq(Log[played], 1, n)]
           over == n = Len(Log[played])
       IN  /\ n <= Len(game.events) + Len(Log[played][1].players) + 1
           /\ n # Len(Log[played]) - 1
           /\ game' = IF over THEN NoGameState ELSE next
           /\ Broadcast(next, Len(game.events))
           /\ loop' = IF over THEN "lobby" ELSE "game"
           /\ oldGame' = IF over THEN OldGame(next) ELSE oldGame
  /\ UNCHANGED <<played, known, client>>

-----------------------------------------------------------------------------
(* The client *)

Readable == channel # << >>

StartReceiving ==
  /\ Readable
  /\ Client!StartReceiving
  /\ UNCHANGED <<server, channel>>

Receive ==
  /\ Readable
  /\ LET d == Head(channel) IN Client!Receive(d.gameId, d.first, d.events)
  /\ channel' = Tail(channel)
  /\ UNCHANGED server

Parse ==
  /\ \/ Client!ParseNewGame \/ Client!ParsePixel
     \/ Client!ParsePlayerEliminated \/ Client!ParseGameOver
     \/ Client!EndDatagram
  /\ UNCHANGED <<server, channel>>

ShowEvents ==
  /\ ~Readable
  /\ Client!ShowEvents
  /\ UNCHANGED <<server, channel>>

WriteFails ==
  /\ ~Readable
  /\ Client!WriteFails
  /\ UNCHANGED <<server, channel>>

-----------------------------------------------------------------------------
\* A number past the end of every log asks for nothing.
Number == 0..Max({Len(Log[g]) : g \in Game})

ClientStep == StartReceiving \/ Receive \/ Parse \/ ShowEvents

Next ==
  \/ \E n \in Number : Answer(n)
  \/ Kick \/ StartGame \/ Frame
  \/ ClientStep \/ WriteFails

Spec == Init /\ [][Next]_vars

\* tryGetEvents returns: the client reads faster than the server sends.
Pace == []<>(pc \notin {"recv", "parse"})

\* While nothing is on its way, the client's request with its current number
\* gets through and the first datagram of the answer does.
Answered ==
  /\ pc = "poll" /\ ~Readable
  /\ Answer(nextExpectedEventNo)
  /\ LET datagrams == Datagrams(AnswerFrom, nextExpectedEventNo)
     IN  datagrams # << >> /\ channel' # << >> /\ channel'[1] = datagrams[1]

\* The client's loop goes on, and what it asks for again and again is heard and
\* answered some time.  Nothing is assumed of games, broadcasts, late requests
\* and kicks.
FairSpec ==
  /\ Spec
  /\ WF_vars(ClientStep)
  /\ Pace
  /\ SF_vars(Answered)

-----------------------------------------------------------------------------
(* Properties *)

Exited == pc \in {"syserr", "write"}

LastGameOver == loop = "lobby" /\ played = Games

CopyOf(copy, g, n) ==
  copy.gameId = GameId[g] /\ copy.events = SubSeq(Log[g], 1, n)

(***************************************************************************)
(* TypeOK: what the server keeps of a game is a part of its log under its  *)
(* identifier, oldGame's the whole of it or nothing.                       *)
(* (server.cpp:546-570)                                                    *)
(***************************************************************************)
TypeOK ==
  /\ loop \in {"lobby", "game"} /\ played \in 0..Games /\ known \in BOOLEAN
  /\ IF loop = "game" THEN \E n \in 1..Len(Log[played]) : CopyOf(game, played, n)
     ELSE game = NoGameState
  /\ oldGame.events # << >> =>
       \E g \in 1..played : CopyOf(oldGame, g, Len(Log[g]))
  /\ Len(channel) <= Capacity
  /\ Client!TypeOK

(***************************************************************************)
(* StreamPromise: whatever the server broadcasts and answers, in the lobby *)
(* and in a game, the client is in an EventStream: it gets consecutive     *)
(* events of one game under that game's identifier, so that all that is    *)
(* shown for EventStream holds here. (server.cpp:327-357, 396-402,         *)
(* 447-451, 559-569)                                                       *)
(***************************************************************************)
StreamPromise == Client!Spec

(***************************************************************************)
(* NeverBack: a client whose socket keeps the order is never taken back to *)
(* an earlier game by an answer of the lobby. (server.cpp:396-402,         *)
(* 562-569; client.cpp:478)                                                *)
(***************************************************************************)
Since(g) == gameId = GameId[g]
NeverBack ==
  [][\A g, h \in Game : Since(g) /\ Since(h)' => g <= h]_vars

(***************************************************************************)
(* FollowersFinish: a client that knows the players of the last game when  *)
(* that is over gets to show all of it, however many of its broadcasts and *)
(* answers were lost, unless its GUI fails or its NEW_GAME was repeated.   *)
(* (server.cpp:396-402, 568-569; client.cpp:457-496)                       *)
(***************************************************************************)
Following == Since(played) /\ playerNames # << >>
Complete ==
  /\ Since(Games) /\ finished
  /\ shown = Client!Lines(Games, Len(Log[Games]) - 1)
FollowersFinish ==
  LastGameOver /\ Following ~> Complete \/ pc = "write" \/ repeated

(***************************************************************************)
(* LastGameReaches: when the last game is over every client gets to hear   *)
(* of it, unless it has exited, or still asks for a number past its log,   *)
(* which is answered with nothing. (server.cpp:345, 396-402; client.cpp:   *)
(* 193, 293-294, 478-488)                                                  *)
(***************************************************************************)
LastGameReaches ==
  LastGameOver ~>
    Since(Games) \/ Exited \/ nextExpectedEventNo >= Len(Log[Games])
=============================================================================
