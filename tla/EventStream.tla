---------------------------- MODULE EventStream ----------------------------
(***************************************************************************)
(* What a client makes of the datagrams it receives: tryGetEvents reads    *)
(* the socket until it is empty, parses every event of every datagram into *)
(* params, and then passes the new events on to the GUI.                   *)
(*                                                                         *)
(* The network delivers any part of the log of any game, in any order, as  *)
(* often as it likes, or never: what the server broadcasts, what it        *)
(* answers, what is lost, repeated and overtaken.                          *)
(*                                                                         *)
(* Abstracted: the board has one size, so that width and height are known  *)
(* when the roster is; a datagram that is damaged counts as the part       *)
(* before the damage, where parseEvents stops.                             *)
(***************************************************************************)
EXTENDS Integers, Sequences, FiniteSetsExt, Functions

CONSTANTS
  Game,         \* the games of the server
  Log,          \* Log[g]: the events of the game g
  GameId,       \* GameId[g]: its identifier
  MaxEvents     \* bound: events a client keeps

NoGame == 0     \* params.gameId before the first datagram

ASSUME GameIdAssumption ==
  /\ GameId \in [Game -> Nat]
  /\ \A g, h \in Game : GameId[g] = GameId[h] => g = h
\* What startGame and updateGame log: NEW_GAME with the names first, and players
\* by number.
ASSUME LogAssumption ==
  \A g \in Game :
    /\ Log[g] # << >> /\ Log[g] \in Seq(Range(Log[g]))
    /\ Log[g][1].players \in Seq(Range(Log[g][1].players))
    /\ \A i \in DOMAIN Log[g] :
         /\ Log[g][i].type = "NEW_GAME" <=> i = 1
         /\ Log[g][i].type \in {"PIXEL", "PLAYER_ELIMINATED"} =>
              Log[g][i].player \in Nat
ASSUME BoundAssumption == MaxEvents \in Nat

VARIABLES
  pc,                   \* "poll", "recv", "parse", or why the process ended:
                        \* "syserr" on an event, "write" to a GUI that is gone
  dgram,                \* events of the current datagram not parsed yet
  no,                   \* number of the first of them
  gameId,               \* params.gameId
  playerNames,          \* params.playerNames; the board is known with them
  events,               \* params.events, as lines for the GUI
  nextExpectedEventNo,  \* params.nextExpectedEventNo
  finished,             \* params.finished
  nextEventNo,          \* tryGetEvents' index of the first new event
  shown,                \* the lines the GUI got since it last cleared the board
  opened,               \* the NEW_GAME of this game has come since the reset
  repeated              \* and has come again

params  == <<gameId, playerNames, events, nextExpectedEventNo, finished>>
network == <<opened, repeated>>
vars    == <<pc, dgram, no, params, nextEventNo, shown, network>>

\* The lines the GUI reads name the players.
NewGameLine(roster)  == [line |-> "NEW_GAME", players |-> roster]
PixelLine(name, f)   == [line |-> "PIXEL", player |-> name, field |-> f]
EliminatedLine(name) == [line |-> "PLAYER_ELIMINATED", player |-> name]

Init ==
  /\ pc = "poll" /\ dgram = << >> /\ no = 0
  /\ gameId = NoGame /\ playerNames = << >> /\ events = << >>
  /\ nextExpectedEventNo = 0 /\ finished = FALSE
  /\ nextEventNo = 0 /\ shown = << >>
  /\ opened = FALSE /\ repeated = FALSE

\* The socket is readable.
StartReceiving ==
  /\ pc = "poll"
  /\ nextEventNo' = nextExpectedEventNo
  /\ pc' = "recv"
  /\ UNCHANGED <<dgram, no, params, shown, network>>

\* Slips: the lines of the old game are kept, or taken for shown; its players
\* are kept.
Reset_KeepEvents ==
  /\ playerNames' = << >>
  /\ nextExpectedEventNo' = 0 /\ nextEventNo' = 0
  /\ finished' = FALSE
  /\ UNCHANGED events
Reset_KeepIndex ==
  /\ playerNames' = << >> /\ events' = << >>
  /\ nextExpectedEventNo' = 0
  /\ finished' = FALSE
  /\ UNCHANGED nextEventNo
Reset_KeepNames ==
  /\ events' = << >>
  /\ nextExpectedEventNo' = 0 /\ nextEventNo' = 0
  /\ finished' = FALSE
  /\ UNCHANGED playerNames

Reset ==
  /\ playerNames' = << >> /\ events' = << >>
  /\ nextExpectedEventNo' = 0 /\ nextEventNo' = 0
  /\ finished' = FALSE

\* recvfrom returns a datagram: consecutive events of the game id, numbered from
\* first on; those of another game than the client's reset params.
Receive(id, first, part) ==
  /\ pc = "recv"
  /\ Len(events) <= MaxEvents
  /\ LET same == gameId = id
     IN  /\ opened' = (first = 0 \/ (same /\ opened))
         /\ repeated' = (same /\ (repeated \/ (first = 0 /\ opened)))
  /\ dgram' = part
  /\ no' = first
  /\ gameId' = id
  /\ IF gameId = id
     THEN UNCHANGED <<playerNames, events, nextExpectedEventNo, finished, nextEventNo>>
     ELSE Reset
  /\ pc' = "parse"
  /\ UNCHANGED shown

-----------------------------------------------------------------------------
(* parseEvent, one action per type of event *)

\* Slips: an event is accepted out of order; later ones are, too.
Expected_Any     == ~finished
Expected_AtLeast == no >= nextExpectedEventNo /\ ~finished
Expected == no = nextExpectedEventNo /\ ~finished

NextIs(type) == pc = "parse" /\ dgram # << >> /\ Head(dgram).type = type

Skip == dgram' = Tail(dgram) /\ no' = no + 1 /\ UNCHANGED pc

Push(line) ==
  /\ events' = Append(events, line)
  /\ nextExpectedEventNo' = nextExpectedEventNo + 1

\* NEW_GAME is taken whatever number is expected.
ParseNewGame ==
  /\ NextIs("NEW_GAME")
  /\ Push(NewGameLine(Head(dgram).players))
  /\ playerNames' = Head(dgram).players
  /\ Skip
  /\ UNCHANGED <<gameId, finished, nextEventNo, shown, network>>

\* The line of a pixel or an elimination is made, and the player number (of a
\* pixel the field, too) checked, before the event number is.
PlayerLine(e, name) ==
  IF e.type = "PIXEL" THEN PixelLine(name, e.field) ELSE EliminatedLine(name)

ParseOfPlayer(type) ==
  /\ NextIs(type)
  /\ LET e == Head(dgram)
     IN  IF e.player >= Len(playerNames)
         THEN /\ pc' = "syserr"
              /\ UNCHANGED <<dgram, no, events, nextExpectedEventNo>>
         ELSE /\ IF Expected THEN Push(PlayerLine(e, playerNames[e.player + 1]))
                 ELSE UNCHANGED <<events, nextExpectedEventNo>>
              /\ Skip
  /\ UNCHANGED <<gameId, playerNames, finished, nextEventNo, shown, network>>

ParsePixel            == ParseOfPlayer("PIXEL")
ParsePlayerEliminated == ParseOfPlayer("PLAYER_ELIMINATED")

\* GAME_OVER makes no line and does not move nextExpectedEventNo.
ParseGameOver ==
  /\ NextIs("GAME_OVER")
  /\ finished' = (finished \/ Expected)
  /\ Skip
  /\ UNCHANGED <<gameId, playerNames, events, nextExpectedEventNo, nextEventNo,
                 shown, network>>

EndDatagram ==
  /\ pc = "parse" /\ dgram = << >>
  /\ pc' = "recv"
  /\ UNCHANGED <<dgram, no, params, nextEventNo, shown, network>>

-----------------------------------------------------------------------------
\* What the GUI displays: a NEW_GAME line clears the board.
SinceNewGame(lines) ==
  LET opening == {i \in DOMAIN lines : lines[i].line = "NEW_GAME"}
  IN  IF opening = {} THEN lines ELSE SubSeq(lines, Max(opening), Len(lines))

NewLines == SubSeq(events, nextEventNo + 1, Len(events))

\* The socket is empty: the new lines go to the GUI.
ShowEvents ==
  /\ pc = "recv"
  /\ shown' = SinceNewGame(shown \o NewLines)
  /\ pc' = "poll"
  /\ UNCHANGED <<dgram, no, params, nextEventNo, network>>

\* The GUI is gone or does not read, and its socket takes no more.
WriteFails ==
  /\ pc = "recv"
  /\ NewLines # << >>
  /\ pc' = "write"
  /\ UNCHANGED <<dgram, no, params, nextEventNo, shown, network>>

Next ==
  \/ StartReceiving
  \/ \E g \in Game : \E first, end \in 0..(Len(Log[g]) - 1) :
       first <= end /\ Receive(GameId[g], first, SubSeq(Log[g], first + 1, end + 1))
  \/ ParseNewGame \/ ParsePixel \/ ParsePlayerEliminated \/ ParseGameOver
  \/ EndDatagram \/ ShowEvents \/ WriteFails

Spec == Init /\ [][Next]_vars

-----------------------------------------------------------------------------
(* Properties *)

\* The lines of the first n events of a game.
LineOf(g, e) ==
  IF e.type = "NEW_GAME" THEN NewGameLine(e.players)
  ELSE PlayerLine(e, Log[g][1].players[e.player + 1])
Lines(g, n) == [i \in 1..n |-> LineOf(g, Log[g][i])]

GuiLine == UNION {Range(Lines(g, Len(Log[g]) - 1)) : g \in Game}

TypeOK ==
  /\ pc \in {"poll", "recv", "parse", "syserr", "write"}
  /\ dgram # << >> => \E g \in Game : Range(dgram) \subseteq Range(Log[g])
  /\ no \in Nat
  /\ gameId \in {NoGame} \cup Range(GameId)
  /\ playerNames = << >> \/ \E g \in Game : playerNames = Log[g][1].players
  /\ events \in Seq(GuiLine) /\ shown \in Seq(GuiLine)
  /\ nextEventNo \in 0..Len(events) /\ nextExpectedEventNo \in Nat
  /\ finished \in BOOLEAN
  /\ opened \in BOOLEAN /\ repeated \in BOOLEAN

(***************************************************************************)
(* EventsCounted: the number the client asks the server to go on with is   *)
(* the number of lines it has, in whatever game it takes part.             *)
(* (client.cpp:293-294, 313-314, 325-326, 484-485)                         *)
(***************************************************************************)
EventsCounted == Len(events) = nextExpectedEventNo

(***************************************************************************)
(* InOrder: what a client has of a game is the beginning of its log, with  *)
(* the names of that game, whatever the network lost, repeated or mixed    *)
(* with datagrams of other games, unless it repeats the game's NEW_GAME.   *)
(* (client.cpp:212-355, 478-488)                                           *)
(***************************************************************************)
InOrder ==
  ~repeated =>
    \A g \in Game : gameId = GameId[g] => events = Lines(g, Len(events))

(***************************************************************************)
(* GuiInStep: after every batch of datagrams the GUI displays what the     *)
(* client has of its game, each line once, also when the game changed in   *)
(* the middle of the batch. (client.cpp:465, 479, 493-495)                 *)
(***************************************************************************)
GuiInStep == pc = "poll" /\ events # << >> => shown = SinceNewGame(events)

(***************************************************************************)
(* FinishedComplete: a client that takes a game for finished has displayed *)
(* all of it; CompleteUnrepeated: it has if no NEW_GAME was repeated.      *)
(* (client.cpp:330-336, 457-496)                                           *)
(***************************************************************************)
FinishedComplete ==
  \A g \in Game :
    gameId = GameId[g] /\ finished /\ pc = "poll" =>
      shown = Lines(g, Len(Log[g]) - 1)
CompleteUnrepeated == ~repeated => FinishedComplete

(***************************************************************************)
(* RosterAccepts: a client exits on an event only while it does not know   *)
(* the players of the game; once it does, whatever it missed before, every *)
(* event of the server is of one of them.                                  *)
(* (client.cpp:192-195, 204-206, 477-488)                                  *)
(***************************************************************************)
RosterAccepts == pc = "syserr" => playerNames = << >>
=============================================================================
