----------------------------- MODULE ClientLoop -----------------------------
(***************************************************************************)
(* The main loop of a client: poll on the cyclic timer, the server socket  *)
(* and the GUI socket, then tryGetEvents, tryGetMove and trySendMove.      *)
(*                                                                         *)
(* The environment is the timer, the server's datagrams, and a player who  *)
(* presses and releases keys in a GUI that writes a line for each; the     *)
(* lines arrive over TCP, whole or in two segments.  What the datagrams    *)
(* contain is EventStream's subject: here they are counted, and one of     *)
(* another game resets the turn direction.  They may come before the       *)
(* client has sent anything, which is more than a server does, so that the *)
(* loop is checked beyond its first tick.                                  *)
(***************************************************************************)
EXTENDS Naturals, Sequences

CONSTANTS
  MaxInbox,   \* bound: datagrams waiting in the server socket
  MaxWire     \* bound: pieces of lines the GUI wrote and nobody has read

Straight == 0
Key      == {1, 2}   \* TURN_RIGHT, TURN_LEFT: the keys and the directions

Nothing == [part |-> "none"]

ASSUME BoundAssumption ==
  /\ MaxInbox \in Nat /\ MaxWire \in Nat

VARIABLES
  pc,             \* "poll", "events", "move", "read", "send", or why it ended
  revents,        \* what poll reported of timer[CYCLIC], [SERVER_SOCK], [GUI_SOCK]
  was,            \* tryGetMove: read returned something
  msg,            \* tryGetMove: the line read so far
  turnDirection,  \* params.turnDirection
  ticked,         \* the cyclic timer is readable
  inbox,          \* datagrams in the server socket
  gui,            \* "connecting", "open" or "closed"
  held,           \* keys the player holds down
  wire,           \* pieces of lines the GUI wrote, not arrived yet
  arrived,        \* pieces that can be read
  cut             \* the client has read a line in two calls of tryGetMove

client  == <<pc, revents, was, msg, turnDirection, cut>>
sockets == <<inbox, arrived>>
player  == <<gui, held, wire>>
vars    == <<client, ticked, sockets, player>>

Quiet == [cyclic |-> {}, server |-> {}, gui |-> {}]

Init ==
  /\ pc = "poll" /\ revents = Quiet /\ was = FALSE /\ msg = Nothing
  /\ turnDirection = Straight
  /\ ticked = FALSE /\ inbox = 0 /\ arrived = << >>
  /\ gui = "connecting" /\ held = {} /\ wire = << >>
  /\ cut = FALSE

-----------------------------------------------------------------------------
(* The environment *)

Tick ==
  /\ ticked' = TRUE
  /\ UNCHANGED <<client, sockets, player>>

Datagram ==
  /\ inbox < MaxInbox
  /\ inbox' = inbox + 1
  /\ UNCHANGED <<client, ticked, arrived, player>>

\* connect succeeds or fails in the end.
Connect ==
  /\ gui = "connecting"
  /\ gui' \in {"open", "closed"}
  /\ UNCHANGED <<client, ticked, sockets, held, wire>>

\* The player presses a key, which repeats while it is held, or releases it,
\* and the GUI writes a line.
UseKey(key, down) ==
  /\ gui = "open" /\ Len(wire) + Len(arrived) < MaxWire
  /\ ~down => key \in held
  /\ held' = IF down THEN held \cup {key} ELSE held \ {key}
  /\ LET piece(part) == [part |-> part, key |-> key, down |-> down]
     IN  \/ wire' = Append(wire, piece("line"))
         \/ wire' = wire \o <<piece("head"), piece("tail")>>
  /\ UNCHANGED <<client, ticked, sockets, gui>>

Arrive ==
  /\ wire # << >>
  /\ arrived' = Append(arrived, Head(wire)) /\ wire' = Tail(wire)
  /\ UNCHANGED <<client, ticked, inbox, gui, held>>

CloseGui ==
  /\ gui = "open"
  /\ gui' = "closed"
  /\ UNCHANGED <<client, ticked, sockets, held, wire>>

-----------------------------------------------------------------------------
(* The client *)

\* The end of the stream can be read once all that was written has been.
AtEnd == gui = "closed" /\ wire = << >>

GuiEvents(stuck, reset) ==
  {e \in {"IN", "OUT", "HUP"} :
     /\ gui # "connecting"
     /\ e = "IN"  => arrived # << >> \/ AtEnd
     /\ e = "OUT" => ~stuck
     /\ e = "HUP" => gui = "closed" /\ reset}

\* The server socket takes output at any time, so that poll never blocks; the
\* GUI's does while the GUI keeps up, and is hung up when it reset it.
Poll ==
  /\ pc = "poll"
  /\ \E stuck, reset \in BOOLEAN :
       revents' = [cyclic |-> IF ticked THEN {"IN"} ELSE {},
                   server |-> {"OUT"} \cup IF inbox > 0 THEN {"IN"} ELSE {},
                   gui    |-> GuiEvents(stuck, reset)]
  /\ pc' = "events"
  /\ UNCHANGED <<cut, was, msg, turnDirection, ticked, sockets, player>>

\* tryGetEvents empties the socket, and forgets what poll said of it.  A line
\* the GUI's socket does not take ends the client.
TryGetEvents ==
  /\ pc = "events"
  /\ \/ pc' = "move"
     \/ "IN" \in revents.server /\ pc' = "write"
  /\ IF "IN" \in revents.server
     THEN /\ revents' = [revents EXCEPT !.server = {}]
          /\ inbox' = 0
          /\ turnDirection' \in {turnDirection, Straight}
     ELSE UNCHANGED <<revents, inbox, turnDirection>>
  /\ UNCHANGED <<cut, was, msg, ticked, arrived, player>>

\* tryGetMove: with nothing reported it returns; with something to read, it
\* reads; without, it clears its revents.
TryGetMove ==
  /\ pc = "move"
  /\ \/ /\ revents.gui # {}
        /\ "OUT" \notin revents.gui \/ "HUP" \in revents.gui
        /\ pc' = "gui sock fail"
        /\ UNCHANGED <<revents, was, msg>>
     \/ /\ revents.gui = {"IN", "OUT"}
        /\ pc' = "read" /\ was' = FALSE /\ msg' = Nothing
        /\ UNCHANGED revents
     \/ /\ revents.gui \in {{}, {"OUT"}}
        /\ pc' = "send" /\ revents' = [revents EXCEPT !.gui = {}]
        /\ UNCHANGED <<was, msg>>
  /\ UNCHANGED <<cut, turnDirection, ticked, sockets, player>>

\* Slips: a released key stops the turn to the other side; the directions are
\* joined like bits, and both together make 3.
Turn_Other(line) ==
  IF line.down THEN line.key
  ELSE IF turnDirection # line.key THEN Straight ELSE turnDirection
Turn_Bits(line) ==
  IF line.down
  THEN IF turnDirection \in {Straight, line.key} THEN line.key ELSE 1 + 2
  ELSE IF turnDirection = line.key THEN Straight ELSE turnDirection

Turn(line) ==
  IF line.down THEN line.key
  ELSE IF turnDirection = line.key THEN Straight ELSE turnDirection

\* The bytes read end a line or not; a tail without its head is no message.
ReadPiece ==
  /\ pc = "read" /\ arrived # << >>
  /\ LET piece == Head(arrived)
     IN  /\ turnDirection' =
              IF piece.part = "line" \/ (piece.part = "tail" /\ msg # Nothing)
              THEN Turn(piece) ELSE turnDirection
         /\ msg' = IF piece.part = "head" THEN piece ELSE Nothing
  /\ arrived' = Tail(arrived)
  /\ was' = TRUE
  /\ UNCHANGED <<cut, pc, revents, ticked, inbox, player>>

\* Slip: the end of the stream is not told from an empty socket.
Lost_Never == FALSE
Lost == AtEnd /\ ~was

\* read returns 0 or -1: at the end of the stream, seen first, the client is
\* done; else what msg holds of a line is gone with it.
EndRead ==
  /\ pc = "read" /\ arrived = << >>
  /\ IF Lost THEN pc' = "gui connection" /\ UNCHANGED <<revents, msg>>
     ELSE /\ pc' = "send" /\ revents' = [revents EXCEPT !.gui = {}]
          /\ msg' = Nothing
  /\ cut' = (cut \/ msg # Nothing)
  /\ UNCHANGED <<was, turnDirection, ticked, sockets, player>>

\* trySendMove: the read meant for the timer is of the server socket.  It fails
\* on an empty one, and else takes a datagram and sends the move.
TrySendMove ==
  /\ pc = "send"
  /\ \/ /\ revents.cyclic = {}
        /\ pc' = "poll"
        /\ UNCHANGED <<revents, inbox>>
     \/ /\ revents.cyclic # {} /\ "OUT" \notin revents.server
        /\ pc' = "server socket fail"
        /\ UNCHANGED <<revents, inbox>>
     \/ /\ revents.cyclic # {} /\ "OUT" \in revents.server
        /\ revents' = [revents EXCEPT !.server = {}]
        /\ IF inbox = 0 THEN pc' = "timerfd broke" /\ UNCHANGED inbox
           ELSE pc' = "poll" /\ inbox' = inbox - 1
  /\ UNCHANGED <<cut, was, msg, turnDirection, ticked, arrived, player>>

Client == Poll \/ TryGetEvents \/ TryGetMove \/ ReadPiece \/ EndRead \/ TrySendMove

Environment ==
  \/ Tick \/ Datagram \/ Connect \/ Arrive \/ CloseGui
  \/ \E key \in Key, down \in BOOLEAN : UseKey(key, down)

Next == Client \/ Environment

Spec == Init /\ [][Next]_vars

\* The process runs, and TCP delivers what was written.  Nothing is assumed of
\* the timer, the server, the player and the GUI.
FairSpec == Spec /\ WF_vars(Client) /\ WF_vars(Arrive)

-----------------------------------------------------------------------------
(* Properties *)

LostGui == pc \in {"gui connection", "gui sock fail", "write"}
Ended   == LostGui \/ pc \in {"server socket fail", "timerfd broke"}

Piece == [part : {"line", "head", "tail"}, key : Key, down : BOOLEAN]

TypeOK ==
  /\ Ended \/ pc \in {"poll", "events", "move", "read", "send"}
  /\ revents \in [cyclic : SUBSET {"IN"}, server : SUBSET {"IN", "OUT"},
                  gui : SUBSET {"IN", "OUT", "HUP"}]
  /\ was \in BOOLEAN /\ msg \in Piece \cup {Nothing}
  /\ turnDirection \in Key \cup {Straight}
  /\ cut \in BOOLEAN /\ ticked \in BOOLEAN /\ inbox \in 0..MaxInbox 
  /\ gui \in {"connecting", "open", "closed"}
  /\ held \subseteq Key
  /\ wire \in Seq(Piece) /\ arrived \in Seq(Piece)

(***************************************************************************)
(* TurnIsHeld: once the client has read all the GUI wrote, the worm turns  *)
(* only to the side of a key that is held down, for every sequence of      *)
(* presses and releases of the two keys and of resets by a new game, as    *)
(* long as no line was read in two calls, which loses it.                  *)
(* (client.cpp:387-428, 486)                                               *)
(***************************************************************************)
TurnIsHeld ==
  wire = << >> /\ arrived = << >> /\ ~cut /\ turnDirection # Straight =>
    turnDirection \in held

(***************************************************************************)
(* ClosesWithGui: a client whose GUI is gone, or never came, ends, even if *)
(* it receives and sends nothing any more. (client.cpp:391-433)            *)
(***************************************************************************)
ClosesWithGui == gui = "closed" ~> Ended

(***************************************************************************)
(* EndsForGuiOnly: the client is closed by nothing but the loss of its     *)
(* connection with the GUI. (client.cpp:357-385, 543)                      *)
(***************************************************************************)
EndsForGuiOnly == Ended => LostGui
=============================================================================
