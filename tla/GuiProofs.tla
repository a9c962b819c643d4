----------------------------- MODULE GuiProofs -----------------------------
(***************************************************************************)
(* Proofs about Gui, for any lines a client may write, any size of the     *)
(* player table and of the sockets.                                        *)
(***************************************************************************)
EXTENDS Gui, TLAPS, WellFoundedInduction

\* A piece of a line is left behind only by a client that could not write the
\* rest, and read only when it is cut.
PieceInv ==
  /\ client = "up" => tail = 0
  /\ tail # 0 => written < Len(script)
  /\ dropped # 0 => cut

\* What the GUI shows, also before its client has connected.
Shows ==
  /\ kolgracz = Table(Roster)
  /\ marked = {l.player : l \in Said("PLAYER_ELIMINATED", Opening)}
  /\ board = {<<l.player, l.field>> :
                l \in {m \in Said("PIXEL", Max({Opening, cleared})) : Known(m.player)}}

ShowsGame == gui # "undefined" /\ ~cut => Shows

GuiInv == TypeOK /\ PieceInv /\ ShowsGame /\ DefinedWhileWhole /\ EndsAtEnd

-----------------------------------------------------------------------------
(* Lemmas about the operators *)

\* A non-empty bounded set of natural numbers has its greatest element.
LEMMA MaxIsMember ==
  ASSUME NEW b \in Nat, NEW S \in SUBSET (0..b), S # {}
  PROVE  Max(S) \in S /\ \A m \in S : m <= Max(S)
<1> DEFINE below == {b - m : m \in S}
<1>1. below \in SUBSET Nat /\ below # {}
  <2>1. \A m \in S : b - m \in Nat
    OBVIOUS
  <2>2. below \in SUBSET Nat
    BY <2>1
  <2> QED BY <2>2
<1>2. \E n \in below : \A m \in below : <<m, n>> \notin OpToRel(<, Nat)
  BY <1>1, NatLessThanWellFounded, WFMin, Zenon
<1>3. \A m, n \in Nat : m < n => <<m, n>> \in OpToRel(<, Nat)
  BY Zenon DEF OpToRel
<1>4. \E n \in below : \A m \in below : ~ (m < n)
  BY <1>1, <1>2, <1>3, Zenon
<1>5. \E n \in S : \A m \in S : ~ (b - m < b - n)
  BY <1>4
<1>6. \E n \in S : \A m \in S : n >= m
  BY <1>5
<1> QED BY <1>6 DEF Max

LEMMA MaxIs ==
  ASSUME NEW b \in Nat, NEW S \in SUBSET (0..b), NEW n \in S, \A m \in S : m <= n
  PROVE  Max(S) = n
<1> DEFINE most == Max(S)
<1>1. most \in S /\ n <= most
  BY MaxIsMember
<1> HIDE DEF most
<1>2. most \in Nat /\ n \in Nat /\ most <= n
  BY <1>1
<1>3. most = n
  BY <1>1, <1>2
<1> QED BY <1>3 DEF most

\* The lines of a script.
LEMMA ScriptLines ==
  ASSUME TypeOK
  PROVE  /\ Len(script) \in Nat /\ DOMAIN script = 1..Len(script)
         /\ \A i \in DOMAIN script :
              IF script[i].line = "NEW_GAME"
              THEN /\ script[i] \in [line : {"NEW_GAME"}, players : Seq(Names)]
                   /\ Len(script[i].players) >= 2
              ELSE script[i].line \in {"PIXEL", "PLAYER_ELIMINATED"}
<1>1. script \in Script /\ script \in Seq(Range(script))
  BY ScriptAssumption DEF TypeOK
<1>2. Len(script) \in Nat /\ DOMAIN script = 1..Len(script)
  BY <1>1
<1>3. ASSUME NEW i \in DOMAIN script, script[i].line = "NEW_GAME"
      PROVE  /\ script[i] \in [line : {"NEW_GAME"}, players : Seq(Names)]
             /\ Len(script[i].players) >= 2
  <2> DEFINE players == script[i].players
  <2>1. /\ script[i] \in [line : {"NEW_GAME"}, players : Seq(Range(players))]
        /\ Len(players) >= 2
    BY <1>1, <1>3, ScriptAssumption
  <2>2. Range(players) \subseteq Names
    BY <1>1, <1>3 DEF Names
  <2>3. players \in Seq(Range(players))
    BY <2>1
  <2>4. players \in Seq(Names)
    <3> HIDE DEF players
    <3> QED BY <2>2, <2>3
  <2> QED BY <2>1, <2>4
<1>4. ASSUME NEW i \in DOMAIN script, script[i].line # "NEW_GAME"
      PROVE  script[i].line \in {"PIXEL", "PLAYER_ELIMINATED"}
  BY <1>1, <1>4, ScriptAssumption
<1> QED BY <1>2, <1>3, <1>4

\* The line of the last NEW_GAME that has been read, or 0.
Openings == {0} \cup {i \in 1..consumed : script[i].line = "NEW_GAME"}

LEMMA OpeningIs ==
  ASSUME TypeOK
  PROVE  /\ consumed \in Nat /\ Openings \in SUBSET (0..consumed)
         /\ Opening \in Openings /\ Opening \in 0..consumed
         /\ \A i \in Openings : i <= Opening
         /\ cleared \in 0..consumed
         /\ Max({Opening, cleared}) \in 0..consumed
         /\ Max({Opening, cleared}) \in {Opening, cleared}
<1>1. consumed \in Nat /\ Openings \in SUBSET (0..consumed) /\ Openings # {}
  BY DEF TypeOK, Openings
<1>2. Opening = Max(Openings)
  BY DEF Opening, Openings
<1>3. Opening \in Openings /\ \A i \in Openings : i <= Opening
  BY <1>1, <1>2, MaxIsMember
<1>4. Opening \in 0..consumed /\ cleared \in 0..consumed
  BY <1>1, <1>3 DEF TypeOK
<1>5. {Opening, cleared} \in SUBSET (0..consumed) /\ {Opening, cleared} # {}
  BY <1>4
<1>6. Max({Opening, cleared}) \in {Opening, cleared}
  BY <1>1, <1>5, MaxIsMember
<1> QED BY <1>1, <1>3, <1>4, <1>6

\* The player table is at most as long as the table of the GUI.
LEMMA TableType ==
  ASSUME NEW S, NEW players \in Seq(S)
  PROVE  /\ Table(players) \in Seq(S) /\ Len(Table(players)) <= MaxPlayer
         /\ Range(Table(players)) \subseteq S
<1>1. MaxPlayer \in Nat /\ Len(players) \in Nat
  BY BoundAssumption
<1>2. CASE Len(players) <= MaxPlayer
  BY <1>2 DEF Table, Range
<1>3. CASE Len(players) > MaxPlayer
  <2> DEFINE t == SubSeq(players, 1, MaxPlayer)
  <2>1. t \in Seq(S) /\ Len(t) = MaxPlayer
    BY <1>1, <1>3
  <2>2. Table(players) = t
    BY <1>1, <1>3 DEF Table
  <2> HIDE DEF t
  <2> QED BY <1>1, <2>1, <2>2 DEF Range
<1> QED BY <1>1, <1>2, <1>3

-----------------------------------------------------------------------------
(* What a line does to the display and to what should be displayed *)

DisplayOK ==
  /\ kolgracz \in Seq(Names) /\ Len(kolgracz) <= MaxPlayer
  /\ marked \subseteq Range(kolgracz)
  /\ {p[1] : p \in board} \subseteq Range(kolgracz)

LEMMA CommandTypes ==
  ASSUME DisplayOK, NEW l,
         (l.players \in Seq(Names) /\ NewGame(l)) \/ Pixel(l) \/ PlayerEliminated(l)
  PROVE  DisplayOK' /\ gui' \in {gui, "undefined"}
<1>1. CASE l.players \in Seq(Names) /\ NewGame(l)
  <2>1. Table(l.players) \in Seq(Names) /\ Len(Table(l.players)) <= MaxPlayer
    BY <1>1, TableType
  <2>2. UNCHANGED display \/ (kolgracz' = Table(l.players) /\ marked' = {} /\ board' = {})
    BY <1>1 DEF NewGame
  <2>3. DisplayOK'
    BY <2>1, <2>2 DEF DisplayOK, display
  <2> QED BY <1>1, <2>3 DEF NewGame
<1>2. CASE Pixel(l)
  <2>1. /\ UNCHANGED <<gui, kolgracz, marked>>
        /\ board' = board \/ (Known(l.player) /\ board' = board \cup {<<l.player, l.field>>})
    BY <1>2 DEF Pixel
  <2> QED BY <2>1 DEF DisplayOK, Known
<1>3. CASE PlayerEliminated(l)
  <2>1. /\ UNCHANGED <<kolgracz, board>> /\ gui' \in {gui, "undefined"}
        /\ marked' = marked \/ (Known(l.player) /\ marked' = marked \cup {l.player})
    BY <1>3 DEF PlayerEliminated
  <2> QED BY <2>1 DEF DisplayOK, Known
<1> QED BY <1>1, <1>2, <1>3

\* The next line is read: what has been said since a line before.
LEMMA SaidMore ==
  ASSUME TypeOK, NEW from \in 0..consumed, NEW line
  PROVE  {script[i] : i \in {j \in (from + 1)..(consumed + 1) : script[j].line = line}}
           = Said(line, from) \cup (IF NextLine.line = line THEN {NextLine} ELSE {})
<1> DEFINE at    == consumed + 1
           old   == {j \in (from + 1)..consumed : script[j].line = line}
           young == {j \in (from + 1)..at : script[j].line = line}
<1>1. consumed \in Nat /\ from \in Nat /\ from <= consumed
  BY DEF TypeOK
<1>2. (from + 1)..at = ((from + 1)..consumed) \cup {at}
  BY <1>1
<1>3. young = old \cup (IF script[at].line = line THEN {at} ELSE {})
  BY <1>2
<1>4. Said(line, from) = {script[i] : i \in old} /\ NextLine = script[at]
  BY DEF Said, NextLine
<1>5. {script[i] : i \in young} = Said(line, from) \cup
        (IF NextLine.line = line THEN {NextLine} ELSE {})
  <2> HIDE DEF young, old
  <2> QED BY <1>3, <1>4
<1> QED BY <1>5

LEMMA NewOpening ==
  ASSUME TypeOK, consumed' = consumed + 1, UNCHANGED <<script, cleared>>,
         NextLine.line = "NEW_GAME"
  PROVE  /\ Opening' = consumed + 1 /\ Roster' = NextLine.players
         /\ Said("PLAYER_ELIMINATED", Opening)' = {}
         /\ Said("PIXEL", Max({Opening, cleared}))' = {}
<1> DEFINE at == consumed + 1
           S  == {0} \cup {i \in 1..at : script[i].line = "NEW_GAME"}
<1>1. consumed \in Nat /\ cleared \in 0..consumed /\ at \in Nat
  BY DEF TypeOK
<1>2. S \in SUBSET (0..at) /\ at \in S /\ \A m \in S : m <= at
  BY <1>1 DEF NextLine
<1>3. Max(S) = at
  BY <1>1, <1>2, MaxIs
<1>4. Opening' = at
  BY <1>3 DEF Opening
<1>5. Roster' = NextLine.players
  BY <1>1, <1>4 DEF Roster, NextLine
<1>6. Max({at, cleared}) = at
  <2>1. {at, cleared} \in SUBSET (0..at) /\ \A m \in {at, cleared} : m <= at
    BY <1>1
  <2> QED BY <1>1, <2>1, MaxIs
<1>7. (at + 1)..at = {}
  BY <1>1
<1>8. \A line : {script[i] : i \in {j \in (at + 1)..at : script[j].line = line}} = {}
  BY <1>7
<1>9. Said("PLAYER_ELIMINATED", Opening)' = {}
  BY <1>4, <1>8 DEF Said
<1>10. Max({Opening, cleared})' = at
  BY <1>4, <1>6
<1>11. Said("PIXEL", Max({Opening, cleared}))' = {}
  BY <1>8, <1>10 DEF Said
<1> QED BY <1>4, <1>5, <1>9, <1>11

LEMMA SameOpening ==
  ASSUME TypeOK, consumed' = consumed + 1, UNCHANGED <<script, cleared>>,
         NextLine.line # "NEW_GAME"
  PROVE  /\ Opening' = Opening /\ Roster' = Roster
         /\ Max({Opening, cleared})' = Max({Opening, cleared})
<1> DEFINE at == consumed + 1
<1>1. consumed \in Nat
  BY DEF TypeOK
<1>2. {i \in 1..at : script[i].line = "NEW_GAME"}
        = {i \in 1..consumed : script[i].line = "NEW_GAME"}
  <2>1. 1..at = (1..consumed) \cup {at}
    BY <1>1
  <2> QED BY <2>1 DEF NextLine
<1>3. Opening' = Opening
  BY <1>2 DEF Opening
<1> QED BY <1>3 DEF Roster

\* The player of a line is one of the last NEW_GAME before it.
LEMMA PlayerOnRoster ==
  ASSUME TypeOK, consumed < Len(script), NextLine.line # "NEW_GAME"
  PROVE  NextLine.player \in Range(Roster)
<1> DEFINE at == consumed + 1
<1>1. consumed \in Nat /\ script \in Script /\ at \in DOMAIN script
  BY ScriptLines DEF TypeOK
<1>2. PICK j \in 1..(at - 1) :
        /\ script[j].line = "NEW_GAME" /\ script[at].player \in Range(script[j].players)
        /\ \A k \in (j + 1)..at : script[k].line # "NEW_GAME"
  BY <1>1, ScriptAssumption DEF NextLine
<1>3. j \in 1..consumed
  BY <1>1, <1>2
<1>4. Openings \in SUBSET (0..consumed) /\ j \in Openings /\ \A m \in Openings : m <= j
  BY <1>1, <1>2, <1>3 DEF Openings
<1>5. Opening = j
  BY <1>1, <1>4, MaxIs DEF Opening, Openings
<1> QED BY <1>2, <1>3, <1>5 DEF Roster, NextLine

-----------------------------------------------------------------------------
(* The steps *)

LEMMA InitKeeps == Init => GuiInv
<1> SUFFICES ASSUME Init PROVE GuiInv
  OBVIOUS
<1>1. script \in Script /\ Len(script) \in Nat
  BY ScriptAssumption DEF Init
<1>2. TypeOK
  <2>1. /\ kolgracz = << >> /\ marked = {} /\ board = {}
        /\ MaxPlayer \in Nat
    BY BoundAssumption DEF Init
  <2>2. kolgracz \in Seq(Names)
    BY <2>1
  <2>3. DisplayOK
    <3>1. Len(kolgracz) <= MaxPlayer
      BY <2>1
    <3>2. marked \subseteq Range(kolgracz)
      BY <2>1, Zenon
    <3>3. {p[1] : p \in board} \subseteq Range(kolgracz)
      BY <2>1, Zenon
    <3> QED BY <2>2, <3>1, <3>2, <3>3, Zenon DEF DisplayOK
  <2>4. /\ written \in 0..Len(script) /\ arrived \in 0..written
        /\ consumed \in 0..arrived /\ cleared \in 0..consumed
        /\ part <= tail /\ dropped <= part
    BY <1>1, SMTT(30) DEF Init
  <2>5. /\ client = "up" /\ gui = "accept" /\ started = FALSE /\ cut = FALSE
        /\ tail \in Piece /\ part \in Piece /\ dropped \in Piece
    BY DEF Init, Piece
  <2> QED BY <1>1, <2>3, <2>4, <2>5 DEF TypeOK, DisplayOK
<1>3. PieceInv /\ DefinedWhileWhole /\ EndsAtEnd
  BY DEF Init, PieceInv, DefinedWhileWhole, EndsAtEnd
<1>4. consumed = 0 /\ Opening = 0
  <2>1. Opening \in 0..consumed /\ consumed = 0
    BY <1>2, OpeningIs DEF Init
  <2> QED BY <2>1
<1>5. Table(Roster) = << >>
  BY <1>4, BoundAssumption DEF Roster, Table
<1>6. \A line : \A from \in Nat : Said(line, from) = {}
  <2>1. \A from \in Nat : (from + 1)..0 = {}
    OBVIOUS
  <2> QED BY <1>4, <2>1 DEF Said
<1>7. Max({Opening, cleared}) \in Nat
  BY <1>2, <1>4, OpeningIs
<1>8. Shows
  BY <1>4, <1>5, <1>6, <1>7 DEF Init, Shows
<1> QED BY <1>2, <1>3, <1>8 DEF GuiInv, ShowsGame

\* What is shown, and should be, is the same when no line is read.
LEMMA SameShown ==
  ASSUME UNCHANGED <<script, consumed, cleared>>
  PROVE  /\ Roster' = Roster /\ Fits' = Fits
         /\ UNCHANGED display => (Shows' <=> Shows)
<1>1. Opening' = Opening
  BY DEF Opening
<1>2. Roster' = Roster /\ Fits' = Fits
  BY <1>1 DEF Roster, Fits
<1>3. ASSUME UNCHANGED display PROVE Shows' <=> Shows
  <2>1. Max({Opening, cleared})' = Max({Opening, cleared})
    BY <1>1
  <2>2. \A line, from : {script[i] : i \in {j \in (from + 1)..consumed : script[j].line = line}}'
                       = {script[i] : i \in {j \in (from + 1)..consumed : script[j].line = line}}
    OBVIOUS
  <2>3. /\ Said("PLAYER_ELIMINATED", Opening)' = Said("PLAYER_ELIMINATED", Opening)
        /\ Said("PIXEL", Max({Opening, cleared}))' = Said("PIXEL", Max({Opening, cleared}))
    BY <1>1, <2>1 DEF Said
  <2> QED BY <1>2, <1>3, <2>3 DEF Shows, display, Known
<1> QED BY <1>2, <1>3

\* Steps that read no line and draw nothing.
Quiet ==
  /\ UNCHANGED <<script, consumed, cleared, display, cut>>
  /\ gui' = gui \/ (gui # "undefined" /\ gui' # "undefined")

LEMMA QuietShows ==
  ASSUME ShowsGame, DefinedWhileWhole, Quiet
  PROVE  (ShowsGame /\ DefinedWhileWhole)'
<1>1. Fits' = Fits /\ (Shows' <=> Shows) /\ cut' = cut
  BY SameShown DEF Quiet
<1> QED BY <1>1 DEF Quiet, ShowsGame, DefinedWhileWhole

LEMMA SenderKeeps ==
  ASSUME GuiInv, Write \/ WriteFails \/ ClientExits
  PROVE  GuiInv'
<1> USE DEF GuiInv
<1>1. Len(script) \in Nat
  BY ScriptLines
<1>2. Quiet /\ UNCHANGED <<socket, dropped, gui, started, history>>
  BY DEF Write, WriteFails, ClientExits, Quiet, history
<1>3. (ShowsGame /\ DefinedWhileWhole)'
  BY <1>2, QuietShows
<1>4. PieceInv' /\ EndsAtEnd'
  BY <1>1, <1>2 DEF Write, WriteFails, ClientExits, Quiet, PieceInv, EndsAtEnd, TypeOK, history
<1>5. TypeOK'
  BY <1>1, <1>2 DEF Write, WriteFails, ClientExits, Quiet, PieceInv, TypeOK, Piece,
                    socket, display, history
<1> QED BY <1>3, <1>4, <1>5

LEMMA ArriveKeeps ==
  ASSUME GuiInv, Arrive
  PROVE  GuiInv'
<1> USE DEF GuiInv
<1>1. PICK a \in arrived..written, p \in Piece :
        /\ a = written => p <= tail
        /\ a = arrived => p > part
        /\ arrived' = a /\ part' = p
  BY DEF Arrive
<1>2. Quiet /\ UNCHANGED <<sender, consumed, dropped, gui, started, display, history>>
  BY DEF Arrive, Quiet, sender, history
<1>3. (ShowsGame /\ DefinedWhileWhole)'
  BY <1>2, QuietShows
<1>4. PieceInv' /\ EndsAtEnd'
  BY <1>2 DEF Quiet, PieceInv, EndsAtEnd, sender, history
<1>5. TypeOK'
  BY <1>1, <1>2, ScriptLines DEF TypeOK, Piece, sender, display, history
<1> QED BY <1>3, <1>4, <1>5

LEMMA UserKeeps ==
  ASSUME GuiInv, Accept \/ Key \/ CloseWindow
  PROVE  GuiInv'
<1> USE DEF GuiInv
<1>1. /\ Quiet /\ UNCHANGED <<sender, socket, consumed, dropped, display, history>>
      /\ started' \in BOOLEAN /\ gui' \in {gui, "up", "write", "closed"}
  BY DEF Accept, Key, CloseWindow, Quiet, sender, history, TypeOK
<1>2. (ShowsGame /\ DefinedWhileWhole)'
  BY <1>1, QuietShows
<1>3. PieceInv' /\ EndsAtEnd'
  BY <1>1 DEF PieceInv, EndsAtEnd, sender, history
<1>4. TypeOK'
  BY <1>1 DEF TypeOK, sender, socket, display, history
<1> QED BY <1>2, <1>3, <1>4

\* Nothing is drawn since the last line that was read.
LEMMA ConfigureKeeps ==
  ASSUME GuiInv, Configure
  PROVE  GuiInv'
<1> USE DEF GuiInv
<1>1. /\ UNCHANGED <<sender, socket, consumed, dropped, gui, started, kolgracz, marked, cut>>
      /\ board' = {} /\ cleared' = consumed
  BY DEF Configure
<1>2. consumed \in Nat /\ Opening \in 0..consumed
  BY OpeningIs
<1>3. Opening' = Opening
  BY <1>1 DEF Opening, sender
<1>4. Fits' = Fits /\ Roster' = Roster
  BY <1>1, <1>3 DEF Fits, Roster, sender
<1>5. Max({Opening, cleared})' = consumed
  <2>1. {Opening, consumed} \in SUBSET (0..consumed) /\ \A m \in {Opening, consumed} : m <= consumed
    BY <1>2
  <2>2. Max({Opening, consumed}) = consumed
    BY <1>2, <2>1, MaxIs
  <2> QED BY <1>1, <1>3, <2>2
<1>6. Said("PIXEL", Max({Opening, cleared}))' = {}
  <2>1. (consumed + 1)..consumed = {}
    BY <1>2
  <2> QED BY <1>1, <1>5, <2>1 DEF Said
<1>7. Said("PLAYER_ELIMINATED", Opening)' = Said("PLAYER_ELIMINATED", Opening)
  BY <1>1, <1>3 DEF Said, sender
<1>8. Shows => Shows'
  BY <1>1, <1>4, <1>6, <1>7 DEF Shows
<1>9. (ShowsGame /\ DefinedWhileWhole)'
  BY <1>1, <1>4, <1>8 DEF ShowsGame, DefinedWhileWhole
<1>10. PieceInv' /\ EndsAtEnd'
  BY <1>1 DEF PieceInv, EndsAtEnd, sender
<1>11. TypeOK'
  <2>1. {p[1] : p \in {}} = {}
    OBVIOUS
  <2> QED BY <1>1, <1>2, <2>1 DEF TypeOK, sender, socket
<1> QED BY <1>9, <1>10, <1>11

\* A line is read from its beginning to its newline.
LEMMA ReadLineKeeps ==
  ASSUME GuiInv, ReadLine
  PROVE  GuiInv'
<1> USE DEF GuiInv
<1> DEFINE l == NextLine
<1>1. /\ gui = "up" /\ consumed < arrived /\ dropped = 0
      /\ consumed' = consumed + 1 /\ cut' = (cut /\ NextLine.line # "NEW_GAME")
      /\ UNCHANGED <<sender, socket, dropped, started, cleared>>
  BY DEF ReadLine, Reads, Available
<1>2. /\ consumed \in Nat /\ consumed < Len(script) /\ cleared \in 0..consumed
      /\ script' = script /\ cleared' = cleared
  BY <1>1, ScriptLines DEF TypeOK, sender
<1>3. /\ NextLine.line = "NEW_GAME" =>
           /\ NextLine.players \in Seq(Names) /\ Len(NextLine.players) >= 2
      /\ NextLine.line \in {"NEW_GAME", "PIXEL", "PLAYER_ELIMINATED"}
  <2>1. consumed + 1 \in DOMAIN script
    BY <1>2, ScriptLines
  <2> QED BY <2>1, ScriptLines DEF NextLine
<1>4. \/ NextLine.line = "NEW_GAME" /\ NewGame(NextLine)
      \/ NextLine.line = "PIXEL" /\ Pixel(NextLine)
      \/ NextLine.line = "PLAYER_ELIMINATED" /\ PlayerEliminated(NextLine)
  BY DEF ReadLine, ProcessCommand
<1>5. DisplayOK' /\ gui' \in {"up", "undefined"}
  <2>1. DisplayOK
    BY DEF TypeOK, DisplayOK
  <2> QED BY <1>1, <1>3, <1>4, <2>1, CommandTypes
<1>6. TypeOK'
  <2>1. /\ script' \in Script /\ written' \in 0..Len(script') /\ arrived' \in 0..written'
        /\ consumed' \in 0..arrived' /\ cleared' \in 0..consumed'
        /\ (arrived = written => part <= tail)' /\ (consumed = arrived => dropped <= part)'
        /\ client' \in {"up", "gone"} /\ started' \in BOOLEAN /\ cut' \in BOOLEAN
        /\ tail' \in Piece /\ part' \in Piece /\ dropped' \in Piece
    BY <1>1 DEF TypeOK, Piece, sender, socket
  <2> QED BY <1>5, <2>1 DEF TypeOK, DisplayOK
<1>7. PieceInv' /\ EndsAtEnd'
  BY <1>1, <1>5 DEF PieceInv, EndsAtEnd, sender
<1>8. CASE NextLine.line = "NEW_GAME"
  <2>1. /\ kolgracz' = Table(NextLine.players) /\ marked' = {} /\ board' = {}
        /\ gui' = gui
    BY <1>3, <1>4, <1>8 DEF NewGame
  <2>2. /\ Roster' = NextLine.players
        /\ Said("PLAYER_ELIMINATED", Opening)' = {}
        /\ Said("PIXEL", Max({Opening, cleared}))' = {}
    BY <1>1, <1>2, <1>8, NewOpening
  <2>3. Table(Roster)' = Table(NextLine.players)
    BY <2>2 DEF Table
  <2>4. Shows'
    BY <2>1, <2>2, <2>3 DEF Shows
  <2> QED BY <1>1, <1>6, <1>7, <2>1, <2>4 DEF ShowsGame, DefinedWhileWhole
<1>9. CASE NextLine.line # "NEW_GAME"
  <2>1. /\ Opening' = Opening /\ Roster' = Roster /\ cut' = cut
        /\ Max({Opening, cleared})' = Max({Opening, cleared})
    <3>1. cut' = cut
      BY <1>1, <1>9 DEF TypeOK
    <3> QED BY <1>1, <1>2, <1>9, <3>1, SameOpening
  <2>2. /\ Opening \in 0..consumed /\ Max({Opening, cleared}) \in 0..consumed
    BY OpeningIs
  <2> DEFINE Out   == Said("PLAYER_ELIMINATED", Opening)
             Eaten == Said("PIXEL", Max({Opening, cleared}))
  <2>3. /\ Out' = Out \cup (IF NextLine.line = "PLAYER_ELIMINATED" THEN {NextLine} ELSE {})
        /\ Eaten' = Eaten \cup (IF NextLine.line = "PIXEL" THEN {NextLine} ELSE {})
    <3> DEFINE new == Max({Opening, cleared})
    <3>1. {script[i] : i \in {j \in (Opening + 1)..(consumed + 1) :
                                 script[j].line = "PLAYER_ELIMINATED"}}
            = Out \cup (IF NextLine.line = "PLAYER_ELIMINATED" THEN {NextLine} ELSE {})
      BY <2>2, SaidMore
    <3>2. {script[i] : i \in {j \in (new + 1)..(consumed + 1) : script[j].line = "PIXEL"}}
            = Eaten \cup (IF NextLine.line = "PIXEL" THEN {NextLine} ELSE {})
      <4> HIDE DEF new
      <4>1. new \in 0..consumed /\ Eaten = Said("PIXEL", new)
        BY <2>2 DEF new
      <4> HIDE DEF Eaten
      <4> QED BY <4>1, SaidMore
    <3>3. Out' = {script[i] : i \in {j \in (Opening + 1)..(consumed + 1) :
                                        script[j].line = "PLAYER_ELIMINATED"}}
      BY <1>1, <1>2, <2>1 DEF Said
    <3>4. Eaten' = {script[i] : i \in {j \in (new + 1)..(consumed + 1) :
                                          script[j].line = "PIXEL"}}
      BY <1>1, <1>2, <2>1 DEF Said
    <3> QED BY <3>1, <3>2, <3>3, <3>4
  <2>4. kolgracz' = kolgracz /\ Table(Roster)' = Table(Roster) /\ Fits' = Fits
    BY <1>4, <1>9, <2>1 DEF Pixel, PlayerEliminated, Table, Fits
  <2>5. ASSUME ~cut, Fits PROVE Known(NextLine.player)
    <3>1. NextLine.player \in Range(Roster)
      BY <1>2, <1>9, PlayerOnRoster
    <3>2. kolgracz = Roster
      BY <1>1, <2>5 DEF ShowsGame, Shows, Table, Fits
    <3> QED BY <3>1, <3>2 DEF Known
  <2>6. DefinedWhileWhole'
    BY <1>1, <1>4, <1>9, <2>1, <2>4, <2>5 DEF DefinedWhileWhole, PlayerEliminated, Pixel
  <2>7. ASSUME ~cut, gui' # "undefined" PROVE Shows'
    <3>1. kolgracz' = Table(Roster)'
      BY <1>1, <2>4, <2>7 DEF ShowsGame, Shows
    <3>2. marked' = {k.player : k \in Out'}
      <4>1. marked = {k.player : k \in Out}
        BY <1>1, <2>7 DEF ShowsGame, Shows
      <4>2. marked' = IF NextLine.line = "PLAYER_ELIMINATED"
                      THEN marked \cup {NextLine.player} ELSE marked
        BY <1>1, <1>4, <1>9, <2>7 DEF PlayerEliminated, Pixel
      <4> HIDE DEF Out
      <4> QED BY <2>3, <4>1, <4>2
    <3>3. board' = {<<k.player, k.field>> : k \in {m \in Eaten' : Known(m.player)'}}
      <4>1. board = {<<k.player, k.field>> : k \in {m \in Eaten : Known(m.player)}}
        BY <1>1, <2>7 DEF ShowsGame, Shows
      <4>2. board' = IF NextLine.line = "PIXEL" /\ Known(NextLine.player)
                     THEN board \cup {<<NextLine.player, NextLine.field>>} ELSE board
        BY <1>4, <1>9 DEF PlayerEliminated, Pixel
      <4>3. \A p : p \in Range(kolgracz)' <=> p \in Range(kolgracz)
        BY <2>4 DEF Range
      <4> HIDE DEF Eaten
      <4>4. board' = {<<k.player, k.field>> : k \in {m \in Eaten' : Known(m.player)}}
        BY <2>3, <4>1, <4>2
      <4> QED BY <4>3, <4>4 DEF Known
    <3> QED BY <3>1, <3>2, <3>3 DEF Shows
  <2> QED BY <1>6, <1>7, <2>1, <2>6, <2>7 DEF ShowsGame
<1> QED BY <1>8, <1>9

\* Once a line is cut, nothing is said of what is shown.
LEMMA CutKeeps ==
  ASSUME cut'
  PROVE  ShowsGame' /\ DefinedWhileWhole'
BY DEF ShowsGame, DefinedWhileWhole

LEMMA ReadRestKeeps ==
  ASSUME GuiInv, ReadRest
  PROVE  GuiInv'
<1> USE DEF GuiInv
<1>1. /\ gui = "up" /\ gui' \in {"up", "undefined"} /\ consumed < arrived
      /\ dropped # 0 /\ consumed' = consumed + 1 /\ dropped' = 0
      /\ UNCHANGED <<sender, socket, started, display, history>>
  BY DEF ReadRest, Reads, Available
<1>2. cut'
  BY <1>1 DEF PieceInv, history
<1>3. PieceInv' /\ EndsAtEnd'
  BY <1>1 DEF PieceInv, EndsAtEnd, sender
<1>4. TypeOK'
  BY <1>1, ScriptLines DEF TypeOK, Piece, sender, socket, display, history
<1> QED BY <1>2, <1>3, <1>4, CutKeeps

LEMMA ReadPartKeeps ==
  ASSUME GuiInv, ReadPart
  PROVE  GuiInv'
<1> USE DEF GuiInv
<1>1. /\ gui = "up" /\ dropped' = part /\ cut'
      /\ UNCHANGED <<sender, socket, consumed, gui, started, display, cleared>>
  BY DEF ReadPart, Reads
<1>2. PieceInv' /\ EndsAtEnd'
  BY <1>1 DEF PieceInv, EndsAtEnd, sender
<1>3. cut' \in BOOLEAN
  BY DEF ReadPart
<1>4. TypeOK'
  BY <1>1, <1>3 DEF TypeOK, Piece, sender, socket, display
<1> QED BY <1>1, <1>2, <1>4, CutKeeps

\* The next line, or a shorter NEW_GAME, at the end of the stream.
LEMMA ReadLastKeeps ==
  ASSUME GuiInv, ReadLast
  PROVE  GuiInv'
<1> USE DEF GuiInv
<1>1. /\ gui = "up" /\ ~Available /\ Eof /\ part > dropped /\ dropped' = part /\ cut' = TRUE
      /\ UNCHANGED <<sender, socket, consumed, started, cleared>>
  BY DEF ReadLast, Reads
<1>2. consumed = arrived /\ arrived = written /\ part = tail /\ tail # 0
  BY <1>1 DEF TypeOK, Piece, Available, Eof
<1>3. consumed + 1 \in DOMAIN script
  BY <1>2, ScriptLines DEF TypeOK, PieceInv
<1>4. /\ NextLine.line = "NEW_GAME" =>
           /\ NextLine \in [line : {"NEW_GAME"}, players : Seq(Names)]
           /\ NextLine.players \in Seq(Names) /\ Len(NextLine.players) >= 2
      /\ NextLine.line \in {"NEW_GAME", "PIXEL", "PLAYER_ELIMINATED"}
  BY <1>3, ScriptLines DEF NextLine
<1>5. DisplayOK
  BY DEF TypeOK, DisplayOK
<1>6. DisplayOK' /\ gui' \in {"up", "undefined"}
  <2>1. ASSUME UNCHANGED display, gui' \in {"up", "undefined"}
        PROVE  DisplayOK' /\ gui' \in {"up", "undefined"}
    BY <1>5, <2>1 DEF DisplayOK, display
  <2>2. CASE dropped # 0
    BY <1>1, <2>1, <2>2 DEF ReadLast
  <2>3. CASE dropped = 0 /\ part = 2
    <3>1. ProcessCommand(NextLine)
      BY <2>3 DEF ReadLast
    <3> QED BY <1>1, <1>4, <1>5, <3>1, CommandTypes DEF ProcessCommand
  <2>4. CASE dropped = 0 /\ part # 2
    <3>1. CASE UNCHANGED <<gui, display>> \/ (gui' = "undefined" /\ UNCHANGED display)
      BY <1>1, <2>1, <3>1
    <3>2. ASSUME NextLine.line = "NEW_GAME", NEW n \in 2..Len(NextLine.players),
                 NewGame([NextLine EXCEPT !.players = SubSeq(@, 1, n)])
          PROVE  DisplayOK' /\ gui' \in {"up", "undefined"}
      <4> DEFINE t == [NextLine EXCEPT !.players = SubSeq(@, 1, n)]
      <4>1. t.players = SubSeq(NextLine.players, 1, n)
        BY <1>4, <3>2
      <4>2. SubSeq(NextLine.players, 1, n) \in Seq(Names)
        BY <1>4, <3>2
      <4>3. NewGame(t) /\ t.players \in Seq(Names)
        BY <3>2, <4>1, <4>2
      <4> HIDE DEF t
      <4> QED BY <1>1, <1>5, <4>3, CommandTypes
    <3> QED BY <2>4, <3>1, <3>2 DEF ReadLast
  <2> QED BY <2>2, <2>3, <2>4
<1>7. TypeOK'
  BY <1>1, <1>2, <1>6 DEF TypeOK, DisplayOK, Piece, sender, socket
<1>8. PieceInv' /\ EndsAtEnd'
  BY <1>1, <1>6 DEF PieceInv, EndsAtEnd, sender
<1> QED BY <1>1, <1>7, <1>8, CutKeeps

LEMMA ReadNothingKeeps ==
  ASSUME GuiInv, ReadNothing \/ ReadFails
  PROVE  GuiInv'
<1> USE DEF GuiInv
<1>1. /\ gui = "up" /\ ~Available
      /\ (gui' = "eof" /\ Eof) \/ gui' = "reset"
      /\ UNCHANGED <<sender, socket, consumed, dropped, started, display, history>>
  BY DEF ReadNothing, ReadFails, Reads
<1>2. Quiet
  BY <1>1 DEF Quiet, sender, history
<1>3. (ShowsGame /\ DefinedWhileWhole)'
  BY <1>2, QuietShows
<1>4. EndsAtEnd' /\ PieceInv'
  BY <1>1 DEF EndsAtEnd, PieceInv, TypeOK, Available, Eof, sender, history
<1>5. TypeOK'
  BY <1>1 DEF TypeOK, sender, socket, display, history
<1> QED BY <1>3, <1>4, <1>5

-----------------------------------------------------------------------------
(* The theorems *)

LEMMA NextKeepsGuiInv == GuiInv /\ [Next]_vars => GuiInv'
<1> SUFFICES ASSUME GuiInv, [Next]_vars PROVE GuiInv'
  OBVIOUS
<1>1. CASE Write \/ WriteFails \/ ClientExits
  BY <1>1, SenderKeeps
<1>2. CASE Arrive
  BY <1>2, ArriveKeeps
<1>3. CASE Accept \/ Key \/ CloseWindow
  BY <1>3, UserKeeps
<1>4. CASE Configure
  BY <1>4, ConfigureKeeps
<1>5. CASE ReadLine
  BY <1>5, ReadLineKeeps
<1>6. CASE ReadRest
  BY <1>6, ReadRestKeeps
<1>7. CASE ReadPart
  BY <1>7, ReadPartKeeps
<1>8. CASE ReadLast
  BY <1>8, ReadLastKeeps
<1>9. CASE ReadNothing \/ ReadFails
  BY <1>9, ReadNothingKeeps
<1>10. CASE UNCHANGED vars
  <2>1. /\ Quiet
        /\ UNCHANGED <<sender, socket, consumed, dropped, gui, started, display, history>>
    BY <1>10 DEF vars, Quiet, sender, history
  <2>2. (ShowsGame /\ DefinedWhileWhole)'
    BY <2>1, QuietShows DEF GuiInv
  <2>3. (TypeOK /\ PieceInv /\ EndsAtEnd)'
    BY <2>1 DEF GuiInv, TypeOK, PieceInv, EndsAtEnd, sender, socket, display, history
  <2> QED BY <2>2, <2>3 DEF GuiInv
<1> QED BY <1>1, <1>2, <1>3, <1>4, <1>5, <1>6, <1>7, <1>8, <1>9, <1>10
        DEF Next, IdleCallback

LEMMA GuiInvariant == Spec => []GuiInv
BY InitKeeps, NextKeepsGuiInv, PTL DEF Spec

\* The GUI reads no more than has arrived, and marks and draws only players of
\* its table, which holds at most MAX_PLAYER.
THEOREM TypeCorrect == Spec => []TypeOK
<1>1. GuiInv => TypeOK
  BY DEF GuiInv
<1> QED BY <1>1, GuiInvariant, PTL

\* The GUI displays the game: the players, those who are out and the fields
\* eaten, while no line of the game was cut.
THEOREM GameIsDisplayed == Spec => []DisplaysGame
<1>1. GuiInv => DisplaysGame
  BY DEF GuiInv, ShowsGame, Shows, DisplaysGame
<1> QED BY <1>1, GuiInvariant, PTL

\* The GUI runs into undefined behaviour only in a game one of whose lines was
\* cut, or which has too many players.
THEOREM NeverUndefined == Spec => []DefinedWhileWhole
<1>1. GuiInv => DefinedWhileWhole
  BY DEF GuiInv
<1> QED BY <1>1, GuiInvariant, PTL

\* The GUI ends at the end of the stream, and never before.
THEOREM NoEarlyEnd == Spec => []EndsAtEnd
<1>1. GuiInv => EndsAtEnd
  BY DEF GuiInv
<1> QED BY <1>1, GuiInvariant, PTL
=============================================================================
