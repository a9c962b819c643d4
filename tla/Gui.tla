-------------------------------- MODULE Gui --------------------------------
(***************************************************************************)
(* The GUI gui2 at the other end of a client's TCP connection: it accepts  *)
(* one client, reads nothing before the first key, then one line per idle  *)
(* callback, and draws what the line says.                                 *)
(*                                                                         *)
(* TCP delivers the bytes in any pieces.  Of a line that has not arrived   *)
(* completely a part is there, or all of it but the newline: readLine on a *)
(* non-blocking socket consumes that and forgets it.                       *)
(*                                                                         *)
(* Abstracted: a line is a record, its bytes are none, a part (1), all but *)
(* the newline (2); no player is called like a command, and no name begins *)
(* another.  Behaviour the C standard leaves undefined ends the GUI in the *)
(* state "undefined", of which nothing more is said.                       *)
(***************************************************************************)
EXTENDS Integers, Sequences, FiniteSetsExt, Functions

CONSTANTS
  Script,      \* the sequences of lines a client may write
  MaxPlayer,   \* MAX_PLAYER
  Capacity     \* lines the sockets between the two hold

ASSUME BoundAssumption == MaxPlayer \in Nat \ {0} /\ Capacity \in Nat \ {0}

\* A client checks that a game has two players or more, and takes the player of
\* a line from the list of the last NEW_GAME.
ASSUME ScriptAssumption ==
  \A s \in Script :
    /\ s \in Seq(Range(s))
    /\ \A i \in DOMAIN s :
         IF s[i].line = "NEW_GAME"
         THEN /\ s[i] \in [line : {"NEW_GAME"}, players : Seq(Range(s[i].players))]
              /\ Len(s[i].players) >= 2
         ELSE /\ s[i].line \in {"PIXEL", "PLAYER_ELIMINATED"}
              /\ \E j \in 1..(i - 1) :
                   /\ s[j].line = "NEW_GAME" /\ s[i].player \in Range(s[j].players)
                   /\ \A k \in (j + 1)..i : s[k].line # "NEW_GAME"

Piece == 0..2

VARIABLES
  script,     \* what the client has to write
  client,     \* "up" or "gone"
  written,    \* lines it has written
  tail,       \* the piece of the next line it wrote before it exited
  arrived,    \* lines that have arrived at the GUI
  part,       \* the piece of the next one that has
  consumed,   \* lines the GUI has read to their end
  dropped,    \* the piece of the next one it has read and forgotten
  gui,        \* "accept", "up", or why it ended: "eof", "reset", "closed",
              \* "write", "undefined"
  started,    \* started
  kolgracz,   \* the names in kolgracz[0..ilgracz-1]
  marked,     \* the players whose label has an X
  board,      \* the fields drawn, each with its player
  cut,        \* a line has been cut since the last NEW_GAME that was not
  cleared     \* the lines read when the drawing area was last reconfigured

sender  == <<script, client, written, tail>>
socket  == <<arrived, part>>
display == <<kolgracz, marked, board>>
history == <<cut, cleared>>
vars    == <<sender, socket, consumed, dropped, gui, started, display, history>>

Init ==
  /\ script \in Script
  /\ client = "up" /\ written = 0 /\ tail = 0
  /\ arrived = 0 /\ part = 0
  /\ consumed = 0 /\ dropped = 0
  /\ gui = "accept" /\ started = FALSE
  /\ kolgracz = << >> /\ marked = {} /\ board = {}
  /\ cut = FALSE /\ cleared = 0

-----------------------------------------------------------------------------
(* The client *)

Room == written - consumed < Capacity

\* sendEventToGui
Write ==
  /\ client = "up" /\ written < Len(script) /\ Room
  /\ written' = written + 1
  /\ UNCHANGED <<script, client, tail, socket, consumed, dropped, gui, started,
                 display, history>>

\* The socket takes a piece of the line, or nothing, and then no more: EAGAIN
\* ends the client like a lost connection.
WriteFails ==
  /\ client = "up" /\ written < Len(script) /\ (Room => gui \notin {"accept", "up"})
  /\ client' = "gone"
  /\ tail' \in Piece
  /\ UNCHANGED <<script, written, socket, consumed, dropped, gui, started,
                 display, history>>

\* It exits between two lines, for a reason of its own.
ClientExits ==
  /\ client = "up"
  /\ client' = "gone"
  /\ UNCHANGED <<script, written, tail, socket, consumed, dropped, gui, started,
                 display, history>>

\* More bytes arrive.
Arrive ==
  /\ \E a \in arrived..written, p \in Piece :
       /\ a = written => p <= tail
       /\ a = arrived => p > part
       /\ arrived' = a /\ part' = p
  /\ UNCHANGED <<sender, consumed, dropped, gui, started, display, history>>

-----------------------------------------------------------------------------
(* The GUI *)

\* init_net
Accept ==
  /\ gui = "accept"
  /\ gui' = "up"
  /\ UNCHANGED <<sender, socket, consumed, dropped, started, display, history>>

\* Any key of the keyboard, or an arrow of the window: the arrows write a line
\* to the client, which fails when that is gone.
Key ==
  /\ gui = "up"
  /\ \/ started' = TRUE /\ UNCHANGED gui
     \/ client = "gone" /\ gui' = "write" /\ UNCHANGED started
  /\ UNCHANGED <<sender, socket, consumed, dropped, display, history>>

\* destroy_window
CloseWindow ==
  /\ gui = "up"
  /\ gui' = "closed"
  /\ UNCHANGED <<sender, socket, consumed, dropped, started, display, history>>

\* configure_event: whenever the window, or a longer label beside it, resizes
\* the drawing area, an empty copy of the board replaces the old one.
Configure ==
  /\ gui = "up"
  /\ board' = {} /\ cleared' = consumed
  /\ UNCHANGED <<sender, socket, consumed, dropped, gui, started, kolgracz,
                 marked, cut>>

Known(player) == player \in Range(kolgracz)

\* Slips: every player of the line; one fewer.
Table_All(players)   == players
Table_Fewer(players) == SubSeq(players, 1, Len(players) - 1)

Table(players) ==
  IF Len(players) <= MaxPlayer THEN players ELSE SubSeq(players, 1, MaxPlayer)

\* Slip: the labels of the players before are kept.
NewGame_Marked(l) ==
  /\ kolgracz' = Table(l.players) /\ board' = {}
  /\ UNCHANGED <<gui, marked>>

\* New labels, and the resized drawing area is configured before the next idle
\* callback.  numtok > 4 asks for two players.
NewGame(l) ==
  /\ IF Len(l.players) >= 2
     THEN kolgracz' = Table(l.players) /\ marked' = {} /\ board' = {}
     ELSE UNCHANGED display
  /\ UNCHANGED gui

\* draw_brush does nothing for a player it does not find.
Pixel(l) ==
  /\ board' = IF Known(l.player) THEN board \cup {<<l.player, l.field>>} ELSE board
  /\ UNCHANGED <<gui, kolgracz, marked>>

\* The label of kolgracz[-1] is set for a player it does not find.
PlayerEliminated(l) ==
  /\ IF Known(l.player) THEN marked' = marked \cup {l.player} /\ UNCHANGED gui
     ELSE gui' = "undefined" /\ UNCHANGED marked
  /\ UNCHANGED <<kolgracz, board>>

ProcessCommand(l) ==
  \/ l.line = "NEW_GAME" /\ NewGame(l)
  \/ l.line = "PIXEL" /\ Pixel(l)
  \/ l.line = "PLAYER_ELIMINATED" /\ PlayerEliminated(l)

NextLine == script[consumed + 1]

Reads == gui = "up" /\ started

\* Slip: a line is read when the next one is there.
Available_Two == consumed + 1 < arrived

Available == consumed < arrived

\* readLine returns a line from its beginning to its newline.
ReadLine ==
  /\ Reads /\ Available /\ dropped = 0
  /\ ProcessCommand(NextLine)
  /\ consumed' = consumed + 1
  /\ cut' = (cut /\ NextLine.line # "NEW_GAME")
  /\ UNCHANGED <<sender, socket, dropped, started, cleared>>

\* It returns the rest of a line.  That is an unknown command, unless it is
\* empty: then process_command compares a null pointer.
ReadRest ==
  /\ Reads /\ Available /\ dropped # 0
  /\ gui' = IF dropped = 2 THEN "undefined" ELSE gui
  /\ consumed' = consumed + 1 /\ dropped' = 0
  /\ UNCHANGED <<sender, socket, started, display, history>>

\* It returns -1 in the middle of a line, and what it has read is lost.
ReadPart ==
  /\ Reads /\ ~Available /\ part > dropped
  /\ dropped' = part
  /\ cut' = TRUE
  /\ UNCHANGED <<sender, socket, consumed, gui, started, display, cleared>>

\* Slip: an empty socket is taken for the end.
Eof_Empty == arrived = written /\ part = tail

\* The client has closed, and nothing more will arrive.
Eof == client = "gone" /\ arrived = written /\ part = tail

\* At the end it returns a line without its newline.  A part of one is nothing,
\* a shorter NEW_GAME, or the elimination of an unknown player.
ReadLast ==
  /\ Reads /\ ~Available /\ Eof /\ part > dropped
  /\ IF dropped # 0 THEN UNCHANGED <<gui, display>>
     ELSE IF part = 2 THEN ProcessCommand(NextLine)
     ELSE \/ UNCHANGED <<gui, display>>
          \/ /\ NextLine.line = "NEW_GAME"
             /\ \E n \in 2..Len(NextLine.players) :
                  NewGame([NextLine EXCEPT !.players = SubSeq(@, 1, n)])
          \/ /\ NextLine.line = "PLAYER_ELIMINATED"
             /\ gui' = "undefined" /\ UNCHANGED display
  /\ dropped' = part
  /\ cut' = TRUE
  /\ UNCHANGED <<sender, socket, consumed, started, cleared>>

\* read returns 0 at once.
ReadNothing ==
  /\ Reads /\ ~Available /\ Eof /\ part = dropped
  /\ gui' = "eof"
  /\ UNCHANGED <<sender, socket, consumed, dropped, started, display, history>>

\* A client that leaves keys unread resets the connection: what has arrived is
\* read, the rest is lost, and then read fails.  (That a key was pressed stands
\* for the GUI having written one.)
ReadFails ==
  /\ Reads /\ ~Available /\ client = "gone" /\ part = dropped
  /\ gui' = "reset"
  /\ UNCHANGED <<sender, socket, consumed, dropped, started, display, history>>

IdleCallback ==
  ReadLine \/ ReadRest \/ ReadPart \/ ReadLast \/ ReadNothing \/ ReadFails

-----------------------------------------------------------------------------
Next ==
  \/ Write \/ WriteFails \/ ClientExits \/ Arrive
  \/ Accept \/ Key \/ Configure \/ CloseWindow
  \/ IdleCallback

Spec == Init /\ [][Next]_vars

\* TCP delivers what was written, and Gtk calls the idle callback again and
\* again.  Nothing is assumed of the client and of the user.
FairSpec == Spec /\ WF_vars(Arrive) /\ WF_vars(IdleCallback)

-----------------------------------------------------------------------------
(* Properties *)

Names == UNION {Range(l.players) : l \in
           UNION {{s[i] : i \in {j \in DOMAIN s : s[j].line = "NEW_GAME"}} : s \in Script}}

TypeOK ==
  /\ script \in Script /\ client \in {"up", "gone"}
  /\ written \in 0..Len(script) /\ arrived \in 0..written
  /\ tail \in Piece /\ part \in Piece /\ dropped \in Piece
  /\ consumed \in 0..arrived
  /\ arrived = written => part <= tail
  /\ consumed = arrived => dropped <= part
  /\ gui \in {"accept", "up", "eof", "reset", "closed", "write", "undefined"}
  /\ started \in BOOLEAN /\ cut \in BOOLEAN /\ cleared \in 0..consumed
  /\ kolgracz \in Seq(Names) /\ Len(kolgracz) <= MaxPlayer
  /\ marked \subseteq Range(kolgracz)
  /\ {p[1] : p \in board} \subseteq Range(kolgracz)

\* The lines of the current game among those read, and their roster.
Opening == Max({0} \cup {i \in 1..consumed : script[i].line = "NEW_GAME"})
Said(line, from) ==
  {script[i] : i \in {j \in (from + 1)..consumed : script[j].line = line}}
Roster == IF Opening = 0 THEN << >> ELSE script[Opening].players
Fits   == Len(Roster) <= MaxPlayer

(***************************************************************************)
(* DisplaysGame: the GUI shows the players of the last NEW_GAME it has     *)
(* read, who is out since, and the fields they have eaten since, or since  *)
(* the drawing area last changed its size, as long as no line was cut;     *)
(* after one was it does so again from the next NEW_GAME on.  A player the *)
(* table has no room for has no fields.                                    *)
(* (gui2.c:75-83, 218-275; cmd.c:14-87; read_line.c:43-68)                 *)
(***************************************************************************)
DisplaysGame ==
  gui \in {"up", "eof", "reset", "closed", "write"} /\ ~cut =>
    /\ kolgracz = Table(Roster)
    /\ marked = {l.player : l \in Said("PLAYER_ELIMINATED", Opening)}
    /\ board = {<<l.player, l.field>> :
                  l \in {m \in Said("PIXEL", Max({Opening, cleared})) :
                           Known(m.player)}}

(***************************************************************************)
(* DefinedWhileWhole: the GUI never looks at kolgracz[-1], nor at the      *)
(* missing first word of a line, unless a line of the game was cut or the  *)
(* game has more players than its table. (cmd.c:15, 66-74; read_line.c:50) *)
(***************************************************************************)
DefinedWhileWhole == gui = "undefined" => cut \/ ~Fits

(***************************************************************************)
(* EndsAtEnd: the GUI takes the end of the stream for the end only when    *)
(* the client is gone and every line it wrote has been read, even though a *)
(* line it cannot read, an empty socket and a reset look alike to readLine.*)
(* (gui2.c:111-124; read_line.c:46-56)                                     *)
(***************************************************************************)
EndsAtEnd == gui = "eof" => client = "gone" /\ consumed = written

(***************************************************************************)
(* LinesAreRead: once a key was pressed, the GUI reads all its client      *)
(* writes, also when that has exited, unless it ends.                      *)
(* (gui2.c:105-140)                                                        *)
(***************************************************************************)
LinesAreRead == started ~> (gui # "up" \/ consumed = written)
=============================================================================
