# Screen worms in TLA+

A verification project for the server, the client and, where they depend on it,
the GUI of Screen worms. The modules follow the code; line numbers refer to
`src/`. `PROJECT.json` maps every definition to the lines it models and lists
the runs, the mutants of the code each property is tested against, the hazards
and the theorems.

## The system

| Part | State | Operations | Talks to |
|---|---|---|---|
| Server: sessions | `clientId`, `freeTimerIds`, `usedNames`, 25 idle timers | `acceptPlayer`, `renewPlayer`, `handleTimeouts` | clients by UDP, kernel timers |
| Server: lobby and games | `game.active`, `events`, `eatenFields`, `playerPos`, `readyPlayers` | `main`'s loops, `startGame`, `updateGame`, `handleGameFrame`, `updatePlayerState` | shares `usedNames` and the maps with the sessions |
| Server: sending | the datagram being filled | `sendEvents`, `broadcastEvents` | clients; reads `events` |
| Client: event stream | `ClientParameters` (`gameId`, `playerNames`, `events`, `nextExpectedEventNo`, `finished`) | `tryGetEvents`, `parseEvents`, `parseEvent`, `sendEventToGui` | server by UDP, GUI by TCP |
| Client: main loop | `timer[3].revents`, `turnDirection`, a local line buffer | `tryGetMove`, `trySendMove`, `poll` | timer, server, GUI |
| Old games | `oldGame`, `game` and `game.active` of `main`, the client's number | broadcasts, answers in a game and in the lobby | joins server and event stream |
| GUI | `kolgracz` (20 players), labels, the copy of the board, `started` | `init_net`, `idle_callback`, `readLine`, `process_command`, keys, `configure_event` | client by TCP |
| Random numbers, motion | `params.rng`, first coordinates, headings | `getNextRand`, the draws of `startGame`, the turns of `updateGame` | server |

Server and client are single threads around `poll`, so that nothing of theirs
runs in parallel; what is hard is everything between two polls: timers that
expire after they were reported, datagrams of processes that are gone or took
an address over, `revents` one handler clears and another reads, several timer
expirations in one read, maps that grow by being looked at, and a network that
loses, repeats and reorders.

What makes each part correct: timers and clients match one to one, names in use
are the names of the connected players, a lobby of ready players starts a game
with exactly them, a game's log opens with the roster, announces its end once
and says nothing afterwards, datagrams carry each event once and fit, a client
shows a beginning of the log and in the end all of it, a worm turns only while
a key is held, and a client ends exactly when its GUI is gone.

## Modules

`Server` (with `MCServer`) is the server's thread. `pc` is the place it has
reached: the poll (`while`), then `handleTimeouts`, `handleConnection`,
`handleGameFrame` (`timeouts`, `connection`, `frame`), the loop of `updateGame`
(`update`), the end of `handlePollEvent` (`check`), and the loop of `startGame`
(`place`). A loop over a `std::map` takes a step per worm in the order of names
(`todo` is what it has not reached, `toErase` the vector of the code). Only the
kernel acts in between: `Expire` makes an idle timer readable at any time.
`MaxReps` bounds the expirations one read of the game timer returns, `MaxLog` the
length of a log beyond which no worm joins, which bounds the log; a field is
eaten once, so there is no other bound.
Abstracted: positions and headings are the field a worm stands on, and a move
ends on any field or off the board; a turn is "straight or not"; what is sent
is `Datagrams`' and `EventStream`'s subject.

`GameLog` is the abstract specification of a game's log: the roster, one event
for each of its players, then pixels and eliminations of worms that are in, of no
field twice, the end in the same step as the elimination that leaves one worm, and
a fresh log only when the old one has ended. Who is in, under which number, is its
variable `worms`; players may join a running game (`Join`), and where reads of the
game timer may return several expirations (`Lags`) the survivor may go on after
the end (`Trail`). `Server` implements it (`LogPromise`): an `INSTANCE` with
`log <- events`, `Lags <- MaxReps > 1`, and for `worms` the entries of `playerPos`
that are neither still to be placed nor in `toErase`.

`Datagrams` (with `MCDatagrams`) is one call of `sendEvents`. An event is its
size: 8 bytes of length and checksum, 5 of number and type, and its data. The log
is chosen along the order the server produces events in: the opening, moves until
one worm is left, `GAME_OVER`, and the moves of the survivor in frames simulated
after it (464). `Join` adds a worm to the running game (323), so that eliminations
need not bring it nearer to its end. A call starts at any number, at which the
game may be in any state that number allows (`Reachable`), and the log may end
after any event that can be the last of a frame. `joined` and `over` are that
state, `before` the type of the event before in the datagram. The roster is taken
to name no more players than there are worms, which a takeover under another name
can break (`stuck_lobby`).

`EventStream` (with `MCEventStream`) is what a client makes of datagrams. The
network may deliver any part of the log of any game at any time. `Receive` is
one `recvfrom` with the reset for another game, the `Parse` actions are the
cases of `parseEvent`, `ShowEvents` is the loop that writes to the GUI. `shown`
are the lines since the GUI last cleared its board.

`Session` (with `MCSession`) composes the two ends: the server plays game after
game, broadcasts what each frame logs, and answers requests from the running
game or, in the lobby, from `oldGame`; the client is an `INSTANCE` of
`EventStream` with the same variables. Between them is a socket that holds
`Capacity` datagrams in order; any datagram may be lost. A request asks for any
number at any time, which stands for requests that were lost, late or repeated.
Each game's log is given (who plays it, and how, is `Server`'s subject), and
each frame logs some more of it. `StreamPromise` says that `Session` implements
`EventStream`: what the network may do there covers what this server does.

`ClientLoop` is the loop of the client with `revents` as `poll` left them and as
the handlers change them, and its environment: timer, datagrams, a player with
two keys, the GUI, TCP segments. Datagrams may come before the client has sent
anything; this is more than happens, since the socket has no port until then,
and lets the runs check the loop beyond its first tick (see `loop_tick`).

`Gui` (with `MCGui`) is gui2 at the other end of the TCP connection. What has
arrived is a number of lines and a piece of the next one, since `readLine` on a
non-blocking socket treats a line without its rest, one without its newline and
an empty socket differently. The idle callback reads at most one line; the
commands keep the table of players, the crossed labels and the copy of the board,
which `Configure` empties whenever the drawing area changes its size. A client
that leaves keys unread resets the connection (`ReadFails`). What C leaves undefined ends the GUI in the state `undefined`.

`Motion` has the numbers `Server` abstracts: the generator, the identifier of
each game, the draws that place the worms, and headings with the remainder of C.
`heading` is the angle a worm should have, kept beside what the code keeps.

`ServerProofs`, `ServerGameProofs`, `DatagramsProofs`, `EventStreamProofs`,
`SessionProofs`, `ClientLoopProofs`, `GuiProofs` and `MotionProofs` hold the
theorems.

## Runs

Passing runs:

- `contested_seats`: three addresses, two seats, two sessions per address, two
  addresses that want the same name, two expirations per read. Timers, names and
  worms stay in step; only idle clients are kicked; worms outlive their clients;
  `GAME_OVER` is logged once and only then; pixels are the eaten fields. The run
  also checks that `Server` implements `GameLog`, with frames after the end. (Of
  two names nobody can join a running game; `three_players` has that.)
- `three_players`: a third player makes the difference where a lobby waits for
  one of three, or a game goes on after an elimination: the roster is the
  connected players, numbers are in the roster, and `Server` implements `GameLog`
  with newcomers and losers that join a running game and with eliminations that do
  not end it. The board is one field, so that every move is fatal and games of three
  stay short; `contested_seats` has the moves that are not.
- `fair_server`: two players and a spectator; a client that falls silent is
  forgotten and a lobby of ready players starts a game.
- `datagrams`: calls of `sendEvents` with 2 and with 25 worms, with the shortest,
  the longest and middling names, one worm more than started, frames after the
  end. 44 events fill a datagram of pixels nearly twice, and one of eliminations.
  Each event is sent once; a datagram that is too long is so by nine bytes at most,
  by an event after an elimination or `GAME_OVER` (`OversizeCases`), and in a game
  of two only once a worm has joined or the game is over: the assertion of line 348
  holds in a game of two that nobody joins, until its end.
- `stream`: two games with different rosters, one of them with the identifier a
  client starts with. A client counts its lines and the GUI shows each once; as
  long as `NEW_GAME` was not repeated the lines are a beginning of the log, and
  all of it when the client takes the game as finished; no event of a game
  whose roster the client knows ends it.
- `session`: two games whose logs take two datagrams each, a socket of two
  datagrams. The server feeds its client an `EventStream`; no answer of the lobby
  takes it back to an earlier game; a client that knows the players of the last
  game shows all of it in the end; no client misses the last game, but one that
  has exited or that asks past its log.
- `client_loop`: two keys, polls, resets, ticks and TCP segments in every order;
  a worm does not turn to the side of a released key, and a client whose GUI is
  gone ends.
- `gui`: the lines of two games, the second with the same players, with others
  or with one more than the table holds, in all divisions into segments, with
  keys, resizing, closing, and a client that exits in the middle of a line. The
  GUI shows the game it reads until a line is cut, and again from the next
  `NEW_GAME` on; its undefined accesses need a cut line or too many players; it
  takes the end of the stream for the end and nothing else; it reads everything.
- `motion`: three worms, right angles, a small prime modulus with seeds below and
  above it, and the modulus itself: directions are the angles they should be,
  and no game is called 0 or like the one before.

Runs that find what the source says and the code does not do (`findings`):

- `stuck_lobby`: a process that takes an address over under another name leaves
  the old name in `usedNames` for good; no game starts again.
- `datagrams_three`: the room left is judged by the size of the last event; a
  pixel after an elimination overflows the datagram and the assertion fails. The
  run has three worms; with two a pixel does the same after `GAME_OVER` (23 pixels,
  an elimination, the end and one more make 559 bytes), or after an elimination in
  a game that somebody joined.
- `loop_tick`: `trySendMove` reads the server socket where it means the timer,
  and the client ends at its first tick.

The models also show limits of the code that contradict no statement of the
source; the properties are stated within them:

- A worm placed on a taken field is announced as eliminated and plays on
  (server.cpp:508-520). `GameLog` says so in its opening.
- When one read of the game timer returns two expirations, `updateGame` runs twice
  and the survivor may move after `GAME_OVER` (464). `GameLog` has it as `Trail`.
- A player that joins a running game gets a worm with number 0, so that a number
  may move after it was eliminated (323). `GameLog` has it as `Join`.
- A client that takes a repeated `NEW_GAME` resets and misses an event
  (client.cpp:289-300). `InOrder`, `CompleteUnrepeated` and `FollowersFinish`
  except this case (`repeated`).
- A client whose number is from an older game is answered with nothing, when the
  new log is shorter, or with events of players it does not know, on which it
  exits; so does one that loses the first datagram of a game. `RosterAccepts` and
  `LastGameReaches` say that these are the only cases.
- A line whose parts arrive in two rounds of the client's loop is lost; `TurnIsHeld`
  asks that there was none (`cut`). The GUI's reader does the same.
- A resize empties the GUI's board for the rest of the game (gui2.c:218).

Names are in step, and numbers in the roster, for players whose later processes
keep their name (the instances' `NameOf`); `stuck_lobby` is what happens
otherwise. `opened`, `repeated`, `cut`, `cleared`, `joined` and `before` are
history variables: no action reads them to decide what to do.

The bounds are small because the code treats all players, fields, games and
keys alike: two or three of each meet every guard, and the order of names, the
only order the code uses, is total on them. `Session` needs logs longer than a
datagram, so that an answer can be cut, a second game, so that there is an old
one, shorter than the first, so that a client can ask past its log, and a socket smaller than an answer and a broadcast together. `Gui` needs
one player more than its table holds and a socket that the lines of a game fill.
The modulus of `Motion` is small; that the real one meets the assumptions is
proved (`SourceGenerator`, `SourceDoesNotReturn`).

## Fairness

`Server!FairSpec`: the thread goes on between polls, where nothing blocks
(`WF(Handle)`); `poll` returns when an idle timer is readable, since a timer that
is not read stays readable (`WF` of `Poll` with an expired timer); a timer that
is not set again runs out. Nothing is assumed of clients or the network.

`Session!FairSpec`: the client's loop goes on (`WF(ClientStep)`); `tryGetEvents`
returns, that is, the server does not send faster than the client reads (`Pace`:
its loop ends when the socket is empty, and a server sends what a frame logs and
one answer per request); and a request that is made again and again with
the client's current number while nothing is on its way is heard and the first
datagram of its answer arrives some time (`SF(Answered)`, the usual assumption on
a lossy network). The last is about the client's environment and its sending: at
this commit `trySendMove` ends the client instead (`loop_tick`), so that it says
what the protocol gives a client that does send. Broadcasts, kicks, the start
and the frames of games have no fairness.

`ClientLoop!FairSpec`: the client runs, since its `poll` returns at once, and TCP
delivers what was written. Nothing is assumed of the timer, the server, the
player and the GUI.

`Gui!FairSpec`: TCP delivers what was written, and Gtk calls an idle callback that
returned true again. Nothing is assumed of the client and the user.

## Proofs

Every theorem is for all values of the constants that meet the named `ASSUME`s of
its model, unless a hypothesis is named.

`ServerProofs`: `ServerTypes` and `TimerSafety` prove `TypeOK` and `TimerPartition`
for any number of addresses, names, seats, fields and expirations. The invariant
is `TimerInv`: types, the partition of timers, and `SweepInv`, which says that the
traversals leave nothing behind when they end. Types need the partition: a new
client takes the least free timer, and one exists (`FreeTimerExists`) because
fewer clients than seats hold different timers. The partition needs `SweepInv`
only through the types. Of the `ASSUME`s the proof uses that names are natural
numbers and that there is a seat.

In the same module, `OnlyTheIdle` (`OnlyIdleKicked`) needs that until the kick what
`poll` reported has still run out (`KickInv`): timers are set again only later in
the iteration. `NamesSafety` (`NamesInStep`) and `RosterSafety`
(`RosterIsEveryone`) are under the hypothesis `OneNameEach`: the processes behind an
address play under one name. `stuck_lobby` is what happens without it. The
invariant `NamesInv` adds to `TimerInv` where the thread may be while a game is
active (`ModeInv`: without it a kick in the lobby could leave a worm behind) and
that a client's name is its address's (`KeptNames`: without it a takeover could
rename). `AllAreReady` is why comparing sizes is enough: the ready players have
worms, and those are of names in use, so that as many ready players as names are
all of them.

`ServerGameProofs`: `PixelSafety` (`PixelsAreEaten`) without a hypothesis: every
place that logs a pixel has found the field free and takes it. `EndSafety`
(`GameEndsOnce`) and `NumberSafety` (`NumbersInRoster`) under `OneNameEach`. What
makes the end inductive is `EndInv`, which relates the worms to the log in the
middle of `updateGame`: worms in `toErase` are out but still in the map, so that
what counts is the others (`Alive`), and `GAME_OVER` is in the log exactly when
fewer than two of them are left; it holds for any number of expirations in one
read. `NumbersInv` says that the number of every worm that has been placed is one
of the roster; a player that joins a running game gets a worm with the number 0,
which is one too.

`LogRefinement` proves `Spec => LogPromise` under `OneNameEach`, for any board and
any number of expirations in one read. Its invariant `RefInv` adds `LogInv`: while
worms are placed the log is the roster and an event for each placed one, in a
game it is longer than its opening, and `updateGame` is called again after the
end only where `Lags` allows it. Then there is a lemma for each place of the thread:
the worm that the loop of `updateGame` reaches moves or is eliminated, with the
end when one other is left (`WormRefines`); a player heard of in a game keeps its
worm or joins (`ConnectRefines`); what happens between them are stutters
(`QuietRefines`). `WormsAreTold` (`WormsOutliveClients`) needs no hypothesis: the
log has told of the worms in `toErase`, which the traversal does not reach again
(`EraseInv`), and a kick leaves `playerPos` alone while a game is active.

`LogsOpenOnce` and `LogsEndOnce` say what the clients' theorems assume of logs:
under `OneNameEach`, `NEW_GAME` is the first event and no other, and with `MaxReps
= 1` `GAME_OVER` is the last one of a game that is over and no other. The
invariant `FormInv` adds to `RefInv` that `updateGame` is called only while
expirations are left (`RepsLeft`), so that with one expiration the game is not
over when a worm moves.

`DatagramsProofs`: `CallTypes`, `CallSendsEachOnce` for every log, number of worms
and size of names; its invariant `OnceInv` counts what was handled: `from` is the
start plus the lengths of what was sent and what is packed. `OversizeOnlyThen`
(`OversizeCases`) is the positive side of `datagrams_three`. Its invariant
`RoomInv` says how much room each type of event leaves: another of its size, which
after a pixel or the roster is enough for any event, after an elimination lacks
eight bytes for a pixel, after `GAME_OVER` nine. `TwoWormsInv` says of a game of
two that nobody has joined and that is not over that an elimination leaves one
worm, so that `GAME_OVER` follows, unless it was in the opening, when the datagram
is far from full.

`EventStreamProofs`, for any number of games, any logs with the roster first
(`LogAssumption`) and any network: `LinesAreCounted` and `LinesAreInOrder` from
`StreamInv`, which says that the datagram being parsed is a part of the log of the
client's game (`SourceInv`), and that nothing of a game is taken before its
roster, which finds no lines the first time (`OpeningInv`); a line accepted is
then the one the log has at that number. `GuiKeepsUp` (`GuiInStep`) adds with
`GuiInv` and `ShownInv` what the GUI displays while lines of two games are in one
batch. `KnownPlayersAccepted` (`RosterAccepts`) needs that players are numbered
below the length of the roster (hypothesis `Numbered`, the server's
`NumbersInRoster`), with `RosterInv`: the players the client knows are the
roster's. `FinishedIsComplete` (`CompleteUnrepeated`) and `StreamTypes` need that
logs end with `GAME_OVER` and have no other (hypothesis `GamesEnd`, the server's
`GameEndsOnce`).

`SessionProofs`: `ServerFeedsStream` proves the refinement `StreamPromise`: initial
states are `EventStream`'s, each `Receive` takes a part of a log from the socket,
every other step is one of `EventStream` or leaves its variables. It rests on
`ServerInv` (games and `oldGame` are beginnings of logs under their identifiers)
and on what `Datagrams` makes of them: consecutive parts, none of them empty.
`GamesInOrder` (`NeverBack`) has the invariant `OrderInv`: the games of what is in
the socket are in order, none before the client's and none after the last one
played; an answer of the lobby is of the last. Its hypothesis `Identified` is that
each game has an identifier of its own, and none 0 (`Motion`'s `GamesNamed` and
`NewGameNewName` say it of one game and the next).

`SessionIsShown` carries the theorems of `EventStreamProofs` over that refinement:
a client of this server has the beginning of its game's log, its GUI shows it, and
no event of a roster it knows ends it. The hypothesis `Rostered` holds what the
instance needs: identifiers differ, the roster is first and only there, and
players are below its length. `SessionIsComplete` (a game taken as finished is
displayed to its end) and `SessionTypes` have the hypothesis `Logged`, by which
`GAME_OVER` is also last: that is what the server logs in games in which no
expiration of its timer is missed (see `Trail`). `LogsOpenOnce`, `NumberSafety`
and `LogsEndOnce` prove of `Server` what the two say of logs; that identifiers
differ is `Motion`'s for one game and the next. `SessionTypes` adds `ChannelInv`,
the types of the server's side and of what is in the socket, to the types of the
stream.

`ClientLoopProofs`: `LoopTyped` (`TypeOK`) and `TurnSafety` (`TurnIsHeld`). The
invariant is about all that is on its way from the GUI, arrived or not: of a key
that is up, the last word is its release, or nothing on its way and not the
client's direction turns to its side (`Keys`); and a tail that is on its way
comes after its head, or the head is what the client has read (`Tails`).

`GuiProofs`: `TypeCorrect` (`TypeOK`), `GameIsDisplayed` (`DisplaysGame`),
`NeverUndefined` (`DefinedWhileWhole`) and `NoEarlyEnd` (`EndsAtEnd`), for any
table, any sockets and any lines with `ScriptAssumption`: each line is of a player
of the last `NEW_GAME`, which is what a client checks before it writes. The
invariant `GuiInv` adds `PieceInv`, that only a client that is gone leaves a piece
of a line, before it has written everything, and that the reader has dropped one
only by cutting a line; and `ShowsGame`, which says what is displayed before a
client has connected, too. `PlayerOnRoster` is why the commands find their
players: a line that is whole names one of the last `NEW_GAME` that was read, and
the table is the beginning of that roster.

`MotionProofs`: `HeadingsAreTrue`, `MotionTypes` and `GamesAreNamed`. The code's
remainders leave headings up to 719 (a left turn adds a turn to a heading that
needs none), so that the invariant is about 0..719 and about the angle; `Turning`
splits a left turn by the sign of what C takes the remainder of. That the
generator never reaches 0 is the assumption
`MultiplierAssumption` on multiplier and modulus; `SourceGenerator` proves it of
those in the code, with a multiplicative inverse.

`GamesAreRenamed` (`NewGameNewName`) has two hypotheses: `Iterates(after)`, that
`after[v]` are the numbers of the generator from `v` on, since what a recursive
definition computes cannot be proved; and `NoReturn(after)`, that none of those a
game begins with is the one it began with. The invariant `Distance` counts how
many numbers lie between the identifier and the generator: one, and three for each
worm placed. `SourceDoesNotReturn` proves `NoReturn` of the modulus and the
multiplier in the code, for up to 25 names: with m worms the generator has
multiplied by a power p of the multiplier (`Power`), and since p - 1 has an
inverse (`Inverted`), only 0 would be the same again.

Only model-checked: the liveness properties under fairness, which need `ENABLED`
(`ReadyLobbyStarts`, `SilentClientsLeave`, `FollowersFinish`, `LastGameReaches`,
`LinesAreRead`, `ClosesWithGui`). Every other property of the passing runs is the
statement of a theorem.

## Not modelled

- Byte encodings and checksums (conversions without state, best tested); a
  damaged datagram is, to the client, the part before the damage.
- Options, addresses and sockets set up at start, which run once and in sequence;
  of them the GUI's `init_net` is in `Gui`.
- Error exits except as the end of the process, and build files.
- Where a worm is after its first frame: sines and cosines of doubles. `Server`
  lets a move end on any field or off the board instead.
- Colours, labels and fonts of the GUI, and its keys beyond what they do to the
  client (`ClientLoop`).

## Plan

Done, in this order: `Server`, `GameLog`, `ServerProofs`, `Datagrams`,
`DatagramsProofs`, `EventStream`, `ClientLoop`, `EventStreamProofs`, `Motion`,
`Gui`, `Session`, `MotionProofs`, `SessionProofs`, `ServerGameProofs`,
`ClientLoopProofs`, `GuiProofs`.

Left, for whoever goes on:

1. `Session` with the lines of a client as the script of `Gui`, so that
   `ScriptAssumption` is a theorem about `EventStream`.
2. `Session` with the logs of `Server` itself, whose form is proved
   (`LogsOpenOnce`, `LogsEndOnce`) and assumed in `Session` (`Logged`).
3. `Session` with two clients, where a kick of one makes room for the other.
