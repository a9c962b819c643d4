-------------------------- MODULE EventStreamProofs --------------------------
(***************************************************************************)
(* What a client has of a game, for any number of games, any logs and any  *)
(* network: as many lines as it counts, and, unless NEW_GAME was repeated, *)
(* the beginning of the game's log.                                        *)
(***************************************************************************)
EXTENDS EventStream, SequenceTheorems, WellFoundedInduction, TLAPS

\* The events a datagram holds, and the lines the client makes of them.
Event == {Log[p[1]][p[2]] : p \in {q \in Game \X Nat : q[2] \in DOMAIN Log[q[1]]}}
Line  == {LineOf(p[1], Log[p[1]][p[2]]) :
            p \in {q \in Game \X Nat : q[2] \in DOMAIN Log[q[1]]}}

LEMMA LogEvents ==
  ASSUME NEW g \in Game
  PROVE  /\ Len(Log[g]) \in Nat \ {0}
         /\ DOMAIN Log[g] = 1..Len(Log[g])
         /\ \A i \in 1..Len(Log[g]) : /\ Log[g][i] \in Event
                                      /\ LineOf(g, Log[g][i]) \in Line
         /\ \A i \in 1..Len(Log[g]) : Log[g][i].type = "NEW_GAME" <=> i = 1
<1>1. Log[g] # << >> /\ Log[g] \in Seq(Range(Log[g]))
  BY LogAssumption
<1>2. Len(Log[g]) \in Nat \ {0} /\ DOMAIN Log[g] = 1..Len(Log[g])
  BY <1>1
<1>3. ASSUME NEW i \in 1..Len(Log[g])
      PROVE  Log[g][i] \in Event /\ LineOf(g, Log[g][i]) \in Line
  <2>1. <<g, i>> \in {q \in Game \X Nat : q[2] \in DOMAIN Log[q[1]]}
    BY <1>2
  <2> QED BY <2>1 DEF Event, Line
<1> QED BY <1>2, <1>3, LogAssumption

LEMMA LinesEmpty == \A g \in Game : Lines(g, 0) = << >>
BY DEF Lines

LEMMA LinesAppend ==
  ASSUME NEW g \in Game, NEW n \in Nat, n < Len(Log[g])
  PROVE  Append(Lines(g, n), LineOf(g, Log[g][n + 1])) = Lines(g, n + 1)
<1>1. Len(Log[g]) \in Nat /\ \A i \in 1..Len(Log[g]) : LineOf(g, Log[g][i]) \in Line
  BY LogEvents
<1>2. \A m \in 0..Len(Log[g]) :
        /\ Lines(g, m) \in Seq(Line) /\ Len(Lines(g, m)) = m
        /\ \A i \in 1..m : Lines(g, m)[i] = LineOf(g, Log[g][i])
  BY <1>1 DEF Lines
<1> DEFINE s == Append(Lines(g, n), LineOf(g, Log[g][n + 1]))
<1>3. s \in Seq(Line) /\ Len(s) = n + 1
  BY <1>1, <1>2
<1>4. \A i \in 1..(n + 1) : s[i] = LineOf(g, Log[g][i])
  BY <1>1, <1>2
<1> HIDE DEF s
<1>5. Lines(g, n + 1) \in Seq(Line) /\ Len(Lines(g, n + 1)) = n + 1
  BY <1>1, <1>2
<1>6. \A i \in 1..(n + 1) : s[i] = Lines(g, n + 1)[i]
  BY <1>1, <1>2, <1>4
<1>7. s = Lines(g, n + 1)
  BY <1>3, <1>5, <1>6, SeqEqual
<1> QED BY <1>7 DEF s

-----------------------------------------------------------------------------
(* The invariant *)

\* The rest of the datagram is a part of g's log, from the number no on.
PartOf(g) ==
  /\ gameId = GameId[g]
  /\ dgram \in Seq(Event) /\ no \in Nat
  /\ no + Len(dgram) <= Len(Log[g])
  /\ \A i \in 1..Len(dgram) : dgram[i] = Log[g][no + i]

CountInv ==
  /\ events \in Seq(Line) /\ nextExpectedEventNo \in Nat
  /\ EventsCounted
  /\ opened \in BOOLEAN /\ repeated \in BOOLEAN

SourceInv ==
  /\ pc = "parse" => \E g \in Game : PartOf(g)
  /\ playerNames # << >> =>
       \E g \in Game : gameId = GameId[g] /\ playerNames = Log[g][1].players

\* Nothing of a game is taken before its NEW_GAME, the first of which finds no
\* lines.
OpeningInv ==
  /\ ~opened => events = << >> /\ playerNames = << >>
  /\ pc = "parse" /\ no = 0 => opened /\ (~repeated => events = << >>)

StreamInv == CountInv /\ SourceInv /\ OpeningInv /\ InOrder

LEMMA StreamInit == Init => StreamInv
<1> SUFFICES ASSUME Init PROVE StreamInv
  OBVIOUS
<1>1. CountInv
  <2>1. << >> \in Seq(Line) /\ Len(<< >>) = 0
    BY EmptySeq
  <2>2. events = << >> /\ nextExpectedEventNo = 0 /\ opened = FALSE /\ repeated = FALSE
    BY DEF Init
  <2> QED BY <2>1, <2>2 DEF CountInv, EventsCounted
<1>2. SourceInv /\ OpeningInv
  BY DEF Init, SourceInv, OpeningInv
<1>3. InOrder
  BY LinesEmpty DEF Init, InOrder
<1> QED BY <1>1, <1>2, <1>3 DEF StreamInv

\* A step that leaves params and network alone and parses nothing.
LEMMA QuietStep ==
  ASSUME StreamInv, UNCHANGED <<params, network>>,
         pc' = "parse" => UNCHANGED <<pc, dgram, no>>
  PROVE  StreamInv'
<1>1. CountInv'
  BY DEF StreamInv, CountInv, EventsCounted, params, network
<1>2. SourceInv' /\ OpeningInv'
  BY DEF StreamInv, SourceInv, OpeningInv, PartOf, params, network
<1>3. InOrder'
  BY DEF StreamInv, InOrder, Lines, params, network
<1> QED BY <1>1, <1>2, <1>3 DEF StreamInv

LEMMA ReceiveStep ==
  ASSUME StreamInv, NEW g \in Game, NEW first \in 0..(Len(Log[g]) - 1),
         NEW end \in 0..(Len(Log[g]) - 1), first <= end,
         Receive(GameId[g], first, SubSeq(Log[g], first + 1, end + 1))
  PROVE  StreamInv'
<1>1. /\ gameId' = GameId[g] /\ no' = first
      /\ dgram' = SubSeq(Log[g], first + 1, end + 1)
      /\ opened' = (first = 0 \/ (gameId = GameId[g] /\ opened))
      /\ repeated' = (gameId = GameId[g] /\ (repeated \/ (first = 0 /\ opened)))
  BY DEF Receive
<1>2. PartOf(g)'
  <2>1. \A i \in (first + 1)..(end + 1) : Log[g][i] \in Event
    BY LogEvents
  <2>2. /\ dgram' \in Seq(Event)
        /\ Len(dgram') = end - first + 1
    BY <1>1, <2>1, SubSeqProperties, LogEvents
  <2>3. \A i \in 1..Len(dgram') : dgram'[i] = Log[g][first + i]
    BY <1>1, <2>2, LogEvents
  <2> QED BY <1>1, <2>2, <2>3, LogEvents DEF PartOf
<1>3. CASE gameId = GameId[g]
  <2>1. UNCHANGED <<playerNames, events, nextExpectedEventNo>> /\ gameId' = gameId
    BY <1>3 DEF Receive
  <2>2. CountInv'
    BY <1>1, <2>1 DEF StreamInv, CountInv, EventsCounted
  <2>3. SourceInv'
    BY <1>2, <2>1 DEF StreamInv, SourceInv
  <2>4. OpeningInv'
    BY <1>1, <1>3, <2>1 DEF StreamInv, OpeningInv, CountInv
  <2>5. InOrder'
    BY <1>1, <1>3, <2>1 DEF StreamInv, InOrder, Lines, CountInv
  <2> QED BY <2>2, <2>3, <2>4, <2>5 DEF StreamInv
<1>4. CASE gameId # GameId[g]
  <2>1. playerNames' = << >> /\ events' = << >> /\ nextExpectedEventNo' = 0
    BY <1>4 DEF Receive, Reset
  <2>2. CountInv'
    BY <1>1, <1>4, <2>1 DEF StreamInv, CountInv, EventsCounted
  <2>3. SourceInv'
    BY <1>2, <2>1 DEF SourceInv
  <2>4. OpeningInv'
    BY <1>1, <1>4, <2>1 DEF OpeningInv
  <2>5. InOrder'
    BY <2>1, LinesEmpty DEF InOrder, Lines
  <2> QED BY <2>2, <2>3, <2>4, <2>5 DEF StreamInv
<1> QED BY <1>3, <1>4

-----------------------------------------------------------------------------
(* Parsing *)

LEMMA HeadOfDatagram ==
  ASSUME StreamInv, pc = "parse", dgram # << >>
  PROVE  \E g \in Game :
           /\ PartOf(g) /\ no < Len(Log[g])
           /\ Head(dgram) = Log[g][no + 1]
           /\ \A h \in Game : gameId = GameId[h] => h = g
           /\ dgram' = Tail(dgram) /\ no' = no + 1 /\ gameId' = gameId =>
                PartOf(g)'
<1>1. PICK g \in Game : PartOf(g)
  BY DEF StreamInv, SourceInv
<1>2. Len(dgram) \in Nat \ {0} /\ Head(dgram) = dgram[1] /\ Len(Log[g]) \in Nat
  BY <1>1, LogEvents DEF PartOf
<1>3. no < Len(Log[g]) /\ Head(dgram) = Log[g][no + 1]
  BY <1>1, <1>2 DEF PartOf
<1>4. ASSUME dgram' = Tail(dgram), no' = no + 1, gameId' = gameId
      PROVE  PartOf(g)'
  <2>1. /\ dgram' \in Seq(Event) /\ Len(dgram') = Len(dgram) - 1
        /\ \A i \in 1..Len(dgram') : dgram'[i] = dgram[i + 1]
    BY <1>1, <1>2, <1>4 DEF PartOf
  <2>2. \A i \in 1..Len(dgram') : dgram'[i] = Log[g][no' + i]
    BY <1>1, <1>2, <1>4, <2>1 DEF PartOf
  <2> QED BY <1>1, <1>2, <1>4, <2>1, <2>2 DEF PartOf
<1> QED BY <1>1, <1>3, <1>4, GameIdAssumption DEF PartOf

LEMMA NewGameStep ==
  ASSUME StreamInv, ParseNewGame
  PROVE  StreamInv'
<1>1. /\ pc = "parse" /\ dgram # << >> /\ Head(dgram).type = "NEW_GAME"
      /\ dgram' = Tail(dgram) /\ no' = no + 1 /\ pc' = pc
      /\ events' = Append(events, NewGameLine(Head(dgram).players))
      /\ nextExpectedEventNo' = nextExpectedEventNo + 1
      /\ playerNames' = Head(dgram).players
      /\ UNCHANGED <<gameId, opened, repeated>>
  BY DEF ParseNewGame, NextIs, Push, Skip, network
<1>2. PICK g \in Game :
        /\ PartOf(g) /\ no < Len(Log[g]) /\ Head(dgram) = Log[g][no + 1]
        /\ \A h \in Game : gameId = GameId[h] => h = g
        /\ PartOf(g)'
  BY <1>1, HeadOfDatagram
<1>3. no = 0 /\ Head(dgram) = Log[g][1]
  BY <1>1, <1>2, LogEvents DEF PartOf
<1>4. /\ NewGameLine(Head(dgram).players) = LineOf(g, Log[g][1])
      /\ LineOf(g, Log[g][1]) \in Line
  BY <1>1, <1>3, LogEvents DEF LineOf
<1>5. CountInv'
  BY <1>1, <1>4 DEF StreamInv, CountInv, EventsCounted
<1>6. SourceInv'
  BY <1>1, <1>2, <1>3 DEF SourceInv, PartOf
<1>7. OpeningInv'
  BY <1>1, <1>3 DEF StreamInv, OpeningInv
<1>8. InOrder'
  <2> SUFFICES ASSUME ~repeated PROVE events' = Lines(g, 1)
    <3>1. CASE repeated
      BY <1>1, <3>1 DEF InOrder
    <3>2. CASE ~repeated
      <4>1. events' = Lines(g, 1) /\ Len(events') = 1
        BY <1>1, <1>3, <3>2 DEF StreamInv, OpeningInv
      <4> QED BY <1>1, <1>2, <4>1 DEF InOrder, Lines
    <3> QED BY <3>1, <3>2 DEF StreamInv, CountInv
  <2>1. events = Lines(g, 0)
    BY <1>1, <1>3, LinesEmpty DEF StreamInv, OpeningInv
  <2> QED BY <1>1, <1>2, <1>3, <1>4, <2>1, LinesAppend
<1> QED BY <1>5, <1>6, <1>7, <1>8 DEF StreamInv

LEMMA PlayerStep ==
  ASSUME StreamInv, NEW type \in {"PIXEL", "PLAYER_ELIMINATED"},
         ParseOfPlayer(type)
  PROVE  StreamInv'
<1>1. /\ pc = "parse" /\ dgram # << >> /\ Head(dgram).type = type
      /\ UNCHANGED <<gameId, playerNames, opened, repeated>>
  BY DEF ParseOfPlayer, NextIs, network
<1>2. CASE Head(dgram).player >= Len(playerNames)
  BY <1>1, <1>2, QuietStep DEF ParseOfPlayer, params, network
<1>3. CASE ~(Head(dgram).player >= Len(playerNames))
  <2>1. /\ dgram' = Tail(dgram) /\ no' = no + 1 /\ pc' = pc
        /\ IF Expected
           THEN Push(PlayerLine(Head(dgram), playerNames[Head(dgram).player + 1]))
           ELSE UNCHANGED <<events, nextExpectedEventNo>>
    BY <1>3 DEF ParseOfPlayer, Skip
  <2>2. PICK g \in Game :
          /\ PartOf(g) /\ no < Len(Log[g]) /\ Head(dgram) = Log[g][no + 1]
          /\ \A h \in Game : gameId = GameId[h] => h = g
          /\ PartOf(g)'
    BY <1>1, <2>1, HeadOfDatagram
  <2>3. Len(Log[g]) \in Nat /\ no \in Nat /\ no + 1 \in 1..Len(Log[g])
    BY <2>2, LogEvents DEF PartOf
  <2>4. playerNames # << >> /\ playerNames = Log[g][1].players
    <3>1. playerNames # << >>
      <4> SUFFICES ASSUME playerNames = << >> PROVE FALSE
        OBVIOUS
      <4>1. Head(dgram).player \in Nat
        BY <1>1, <2>2, <2>3, LogEvents, LogAssumption
      <4> QED BY <1>3, <4>1
    <3> QED BY <2>2, <3>1 DEF StreamInv, SourceInv
  <2>5. /\ PlayerLine(Head(dgram), playerNames[Head(dgram).player + 1])
             = LineOf(g, Log[g][no + 1])
        /\ LineOf(g, Log[g][no + 1]) \in Line
    BY <1>1, <2>2, <2>3, <2>4, LogEvents DEF LineOf
  <2>6. opened
    BY <2>4 DEF StreamInv, OpeningInv
  <2>7. SourceInv'
    BY <1>1, <2>1, <2>2 DEF StreamInv, SourceInv
  <2>8. OpeningInv'
    BY <1>1, <2>1, <2>3, <2>6 DEF OpeningInv
  <2>9. CASE Expected
    <3>1. /\ events' = Append(events, LineOf(g, Log[g][no + 1]))
          /\ nextExpectedEventNo' = nextExpectedEventNo + 1
      BY <2>1, <2>5, <2>9 DEF Push
    <3>2. no = Len(events)
      BY <2>9 DEF Expected, StreamInv, CountInv, EventsCounted
    <3>3. CountInv'
      BY <1>1, <2>5, <3>1 DEF StreamInv, CountInv, EventsCounted
    <3>4. Len(events') = no + 1
      BY <3>1, <3>2 DEF StreamInv, CountInv
    <3>5. ~repeated => events' = Lines(g, no + 1)
      <4> SUFFICES ASSUME ~repeated PROVE events' = Lines(g, no + 1)
        BY DEF StreamInv, CountInv
      <4>1. events = Lines(g, no)
        BY <2>2, <3>2 DEF StreamInv, InOrder, PartOf
      <4> QED BY <2>2, <2>3, <3>1, <4>1, LinesAppend
    <3>6. InOrder'
      BY <1>1, <2>2, <3>4, <3>5 DEF InOrder, Lines
    <3> QED BY <2>7, <2>8, <3>3, <3>6 DEF StreamInv
  <2>10. CASE ~Expected
    <3>1. UNCHANGED <<events, nextExpectedEventNo>>
      BY <2>1, <2>10
    <3>2. CountInv'
      BY <1>1, <3>1 DEF StreamInv, CountInv, EventsCounted
    <3>3. InOrder'
      BY <1>1, <3>1 DEF StreamInv, InOrder, Lines
    <3> QED BY <2>7, <2>8, <3>2, <3>3 DEF StreamInv
  <2> QED BY <2>9, <2>10
<1> QED BY <1>2, <1>3

LEMMA GameOverStep ==
  ASSUME StreamInv, ParseGameOver
  PROVE  StreamInv'
<1>1. /\ pc = "parse" /\ dgram # << >> /\ Head(dgram).type = "GAME_OVER"
      /\ dgram' = Tail(dgram) /\ no' = no + 1 /\ pc' = pc
      /\ UNCHANGED <<gameId, playerNames, events, nextExpectedEventNo, opened,
                     repeated>>
  BY DEF ParseGameOver, NextIs, Skip, network
<1>2. PICK g \in Game : PartOf(g) /\ PartOf(g)'
  BY <1>1, HeadOfDatagram
<1>3. CountInv'
  BY <1>1 DEF StreamInv, CountInv, EventsCounted
<1>4. SourceInv'
  BY <1>1, <1>2 DEF StreamInv, SourceInv
<1>5. OpeningInv'
  BY <1>1, <1>2 DEF StreamInv, OpeningInv, PartOf
<1>6. InOrder'
  BY <1>1 DEF StreamInv, InOrder, Lines
<1> QED BY <1>3, <1>4, <1>5, <1>6 DEF StreamInv

LEMMA StreamStep == StreamInv /\ [Next]_vars => StreamInv'
<1> SUFFICES ASSUME StreamInv, [Next]_vars PROVE StreamInv'
  OBVIOUS
<1>1. CASE StartReceiving \/ EndDatagram \/ ShowEvents \/ WriteFails
  BY <1>1, QuietStep
  DEF StartReceiving, EndDatagram, ShowEvents, WriteFails, params, network
<1>2. ASSUME NEW g \in Game, NEW first \in 0..(Len(Log[g]) - 1),
             NEW end \in 0..(Len(Log[g]) - 1), first <= end,
             Receive(GameId[g], first, SubSeq(Log[g], first + 1, end + 1))
      PROVE  StreamInv'
  BY <1>2, ReceiveStep
<1>3. CASE ParseNewGame
  BY <1>3, NewGameStep
<1>4. CASE ParsePixel
  BY <1>4, PlayerStep DEF ParsePixel
<1>5. CASE ParsePlayerEliminated
  BY <1>5, PlayerStep DEF ParsePlayerEliminated
<1>6. CASE ParseGameOver
  BY <1>6, GameOverStep
<1>7. CASE UNCHANGED vars
  BY <1>7, QuietStep DEF vars, params, network
<1> QED BY <1>1, <1>2, <1>3, <1>4, <1>5, <1>6, <1>7 DEF Next

(***************************************************************************)
(* The number a client asks the server to go on with counts the lines it   *)
(* has, for any games and any network. (client.cpp:293-294, 313-314,       *)
(* 325-326, 484-485)                                                       *)
(***************************************************************************)
THEOREM LinesAreCounted == Spec => []EventsCounted
<1>1. StreamInv => EventsCounted
  BY DEF StreamInv, CountInv
<1> QED BY <1>1, StreamInit, StreamStep, PTL DEF Spec

(***************************************************************************)
(* What a client has of a game is the beginning of its log, for any games  *)
(* and logs and any network, unless that repeats NEW_GAME.                 *)
(* (client.cpp:212-355, 478-488)                                           *)
(***************************************************************************)
THEOREM LinesAreInOrder == Spec => []InOrder
<1>1. StreamInv => InOrder
  BY DEF StreamInv
<1> QED BY <1>1, StreamInit, StreamStep, PTL DEF Spec

-----------------------------------------------------------------------------
(* What the GUI displays *)

\* A non-empty set of indices has its greatest element.
LEMMA GreatestIndex ==
  ASSUME NEW n \in Nat, NEW S \in SUBSET (1..n), S # {}
  PROVE  Max(S) \in S /\ \A y \in S : Max(S) >= y
<1> DEFINE T == {m \in Nat : \A y \in S : y <= m}
<1>1. T \in SUBSET Nat /\ n \in T
  OBVIOUS
<1>2. \E m \in T : \A k \in T : <<k, m>> \notin OpToRel(<, Nat)
  <2> HIDE DEF T
  <2> QED BY <1>1, NatLessThanWellFounded, WFMin, Zenon
<1>3. \A k, m \in Nat : k < m => <<k, m>> \in OpToRel(<, Nat)
  BY Zenon DEF OpToRel
<1>4. PICK m \in T : \A k \in T : ~(k < m)
  <2> HIDE DEF T
  <2> QED BY <1>1, <1>2, <1>3, Zenon
<1>5. m \in S
  <2> SUFFICES ASSUME m \notin S PROVE FALSE
    OBVIOUS
  <2>1. \A y \in S : y <= m - 1
    OBVIOUS
  <2>2. PICK y \in S : y \in 1..n
    OBVIOUS
  <2>3. m - 1 \in Nat
    BY <1>4, <2>1, <2>2
  <2>4. m - 1 \in T
    BY <2>1, <2>3
  <2> QED BY <1>4, <2>3, <2>4
<1>6. \E x \in S : \A y \in S : x >= y
  BY <1>4, <1>5
<1> QED BY <1>6 DEF Max

Opens(line) == line.line = "NEW_GAME"

\* What is displayed starts at the last NEW_GAME line.
LastOpening(s, m) ==
  /\ m \in 1..Len(s) /\ Opens(s[m])
  /\ \A i \in (m + 1)..Len(s) : ~Opens(s[i])

LEMMA Displayed ==
  ASSUME NEW S, NEW s \in Seq(S)
  PROVE  /\ \A m \in 1..Len(s) :
              LastOpening(s, m) => SinceNewGame(s) = SubSeq(s, m, Len(s))
         /\ \A i \in 1..Len(s) : Opens(s[i]) => \E m \in 1..Len(s) : LastOpening(s, m)
         /\ SinceNewGame(s) \in Seq(S)
<1> DEFINE opening == {i \in DOMAIN s : s[i].line = "NEW_GAME"}
<1>1. DOMAIN s = 1..Len(s) /\ Len(s) \in Nat
  OBVIOUS
<1>2. opening \in SUBSET (1..Len(s))
  BY <1>1
<1>3. opening # {} => Max(opening) \in opening /\ \A y \in opening : Max(opening) >= y
  <2> HIDE DEF opening
  <2> QED BY <1>1, <1>2, GreatestIndex
<1>4. SinceNewGame(s) = IF opening = {} THEN s ELSE SubSeq(s, Max(opening), Len(s))
  BY DEF SinceNewGame
<1>5. opening # {} => LastOpening(s, Max(opening))
  <2> SUFFICES ASSUME opening # {} PROVE LastOpening(s, Max(opening))
    OBVIOUS
  <2>1. Max(opening) \in 1..Len(s) /\ Opens(s[Max(opening)])
    BY <1>1, <1>3 DEF Opens
  <2>2. ASSUME NEW i \in (Max(opening) + 1)..Len(s), Opens(s[i]) PROVE FALSE
    <3>1. i \in opening
      BY <1>1, <2>1, <2>2 DEF Opens
    <3>2. Max(opening) >= i /\ i >= Max(opening) + 1 /\ Max(opening) \in Nat
      BY <1>3, <2>1, <3>1
    <3> HIDE DEF opening
    <3> QED BY <2>1, <3>2
  <2> QED BY <2>1, <2>2 DEF LastOpening
<1>6. ASSUME NEW m \in 1..Len(s), LastOpening(s, m)
      PROVE  SinceNewGame(s) = SubSeq(s, m, Len(s))
  <2>1. m \in opening
    BY <1>1, <1>6 DEF LastOpening, Opens
  <2>2. Max(opening) \in opening /\ Max(opening) >= m
    BY <1>3, <2>1
  <2>3. Max(opening) = m
    BY <1>1, <1>6, <2>2 DEF LastOpening, Opens
  <2> QED BY <1>4, <2>1, <2>3
<1>7. SinceNewGame(s) \in Seq(S)
  <2>1. CASE opening = {}
    BY <1>4, <2>1
  <2>2. CASE opening # {}
    <3>1. Max(opening) \in 1..Len(s)
      BY <1>2, <1>3, <2>2
    <3> HIDE DEF opening
    <3>2. \A i \in Max(opening)..Len(s) : s[i] \in S
      BY <1>1, <3>1
    <3> QED BY <1>1, <1>4, <2>2, <3>1, <3>2, SubSeqProperties
  <2> QED BY <2>1, <2>2
<1>8. ASSUME NEW i \in 1..Len(s), Opens(s[i])
      PROVE  \E m \in 1..Len(s) : LastOpening(s, m)
  <2>1. i \in opening
    BY <1>1, <1>8 DEF Opens
  <2> QED BY <1>2, <1>3, <1>5, <2>1
<1> QED BY <1>6, <1>7, <1>8

LEMMA Concat ==
  ASSUME NEW S, NEW a \in Seq(S), NEW b \in Seq(S)
  PROVE  /\ a \o b \in Seq(S) /\ Len(a \o b) = Len(a) + Len(b)
         /\ \A i \in 1..Len(a) : (a \o b)[i] = a[i]
         /\ \A i \in 1..Len(b) : (a \o b)[Len(a) + i] = b[i]
OBVIOUS

\* Lines that open a game make all before them disappear.
LEMMA DisplayedFresh ==
  ASSUME NEW S, NEW a \in Seq(S), NEW b \in Seq(S),
         NEW i \in 1..Len(b), Opens(b[i])
  PROVE  SinceNewGame(a \o b) = SinceNewGame(b)
<1>1. Len(a) \in Nat /\ Len(b) \in Nat
  OBVIOUS
<1>2. PICK k \in 1..Len(b) : LastOpening(b, k)
  BY Displayed
<1>3. LastOpening(a \o b, Len(a) + k)
  <2>1. Len(a) + k \in 1..Len(a \o b) /\ Opens((a \o b)[Len(a) + k])
    BY <1>1, <1>2, Concat DEF LastOpening
  <2>2. ASSUME NEW j \in (Len(a) + k + 1)..Len(a \o b)
        PROVE  ~Opens((a \o b)[j])
    <3>1. j - Len(a) \in (k + 1)..Len(b) /\ j = Len(a) + (j - Len(a))
      BY <1>1, Concat
    <3>2. (a \o b)[j] = b[j - Len(a)]
      BY <1>1, <3>1, Concat
    <3> QED BY <1>2, <3>1, <3>2 DEF LastOpening
  <2> QED BY <2>1, <2>2 DEF LastOpening
<1>4. SinceNewGame(a \o b) = SubSeq(a \o b, Len(a) + k, Len(a) + Len(b))
  <2>1. a \o b \in Seq(S) /\ Len(a \o b) = Len(a) + Len(b)
    BY Concat
  <2>2. Len(a) + k \in 1..Len(a \o b)
    BY <1>3 DEF LastOpening
  <2>3. SinceNewGame(a \o b) = SubSeq(a \o b, Len(a) + k, Len(a \o b))
    BY <1>3, <2>1, <2>2, Displayed
  <2> QED BY <2>1, <2>3
<1>5. SubSeq(a \o b, Len(a) + k, Len(a) + Len(b)) = SubSeq(b, k, Len(b))
  <2>1. /\ Len(a) + k \in (Len(a) + 1)..(Len(a) + Len(b))
        /\ Len(a) + Len(b) \in (Len(a) + 1)..(Len(a) + Len(b))
        /\ Len(a) + k - Len(a) = k /\ Len(a) + Len(b) - Len(a) = Len(b)
    BY <1>1, <1>2
  <2>2. SubSeq(a \o b, Len(a) + k, Len(a) + Len(b))
          = SubSeq(b, Len(a) + k - Len(a), Len(a) + Len(b) - Len(a))
    BY <2>1, SubSeqOfConcat2
  <2> QED BY <2>1, <2>2
<1> QED BY <1>2, <1>4, <1>5, Displayed

\* What follows is displayed with what was.
LEMMA DisplayedOn ==
  ASSUME NEW S, NEW a \in Seq(S), NEW b \in Seq(S),
         NEW i \in 1..Len(a), Opens(a[i])
  PROVE  SinceNewGame(SinceNewGame(a) \o b) = SinceNewGame(a \o b)
<1>1. CASE \E j \in 1..Len(b) : Opens(b[j])
  BY <1>1, Displayed, DisplayedFresh, SMTT(30)
<1>2. CASE \A j \in 1..Len(b) : ~Opens(b[j])
  <2>1. Len(a) \in Nat /\ Len(b) \in Nat
    OBVIOUS
  <2>2. PICK m \in 1..Len(a) : LastOpening(a, m)
    BY Displayed
  <2> DEFINE c == SubSeq(a, m, Len(a))
  <2>3. SinceNewGame(a) = c
    BY <2>2, Displayed
  <2>4. /\ c \in Seq(S) /\ Len(c) = Len(a) - m + 1
        /\ \A j \in 1..Len(c) : c[j] = a[m + j - 1]
    <3>1. \A j \in m..Len(a) : a[j] \in S
      BY <2>1
    <3> QED BY <2>1, <3>1, SubSeqProperties
  <2> HIDE DEF c
  <2>5. LastOpening(c \o b, 1)
    <3>1. 1 \in 1..Len(c \o b) /\ Opens((c \o b)[1])
      <4>1. 1 \in 1..Len(c) /\ c[1] = a[m] /\ Opens(a[m])
        BY <2>1, <2>2, <2>4 DEF LastOpening
      <4>2. (c \o b)[1] = c[1] /\ Len(c \o b) = Len(c) + Len(b)
        BY <2>4, <4>1, Concat, ZenonT(30)
      <4>3. 1 \in 1..Len(c \o b)
        BY <2>1, <2>4, <4>1, <4>2
      <4> QED BY <4>1, <4>2, <4>3
    <3>2. ASSUME NEW j \in (1 + 1)..Len(c \o b) PROVE ~Opens((c \o b)[j])
      <4>1. CASE j <= Len(c)
        <5>1. (c \o b)[j] = a[m + j - 1] /\ m + j - 1 \in (m + 1)..Len(a)
          BY <2>1, <2>4, <4>1, Concat
        <5> QED BY <2>2, <5>1 DEF LastOpening
      <4>2. CASE j > Len(c)
        <5>1. j - Len(c) \in 1..Len(b) /\ j = Len(c) + (j - Len(c))
          BY <2>1, <2>4, <4>2, Concat
        <5> QED BY <1>2, <2>4, <5>1, Concat
      <4> QED BY <2>1, <2>4, <4>1, <4>2
    <3> QED BY <3>1, <3>2 DEF LastOpening
  <2>6. SinceNewGame(c \o b) = c \o b
    <3>1. c \o b \in Seq(S) /\ 1 \in 1..Len(c \o b)
      BY <2>4, <2>5, Concat DEF LastOpening
    <3>2. SinceNewGame(c \o b) = SubSeq(c \o b, 1, Len(c \o b))
      BY <2>5, <3>1, Displayed
    <3> QED BY <3>1, <3>2, SubSeqFull
  <2>7. LastOpening(a \o b, m)
    <3>1. m \in 1..Len(a \o b) /\ Opens((a \o b)[m])
      BY <2>1, <2>2, Concat DEF LastOpening
    <3>2. ASSUME NEW j \in (m + 1)..Len(a \o b) PROVE ~Opens((a \o b)[j])
      <4>1. CASE j <= Len(a)
        BY <2>1, <2>2, <4>1, Concat DEF LastOpening
      <4>2. CASE j > Len(a)
        <5>1. j - Len(a) \in 1..Len(b) /\ j = Len(a) + (j - Len(a))
          BY <2>1, <4>2, Concat
        <5> QED BY <1>2, <5>1, Concat
      <4> QED BY <2>1, <4>1, <4>2
    <3> QED BY <3>1, <3>2 DEF LastOpening
  <2>8. SinceNewGame(a \o b) = SubSeq(a \o b, m, Len(a) + Len(b))
    <3>1. a \o b \in Seq(S) /\ Len(a \o b) = Len(a) + Len(b)
      BY Concat
    <3>2. m \in 1..Len(a \o b)
      BY <2>7 DEF LastOpening
    <3>3. SinceNewGame(a \o b) = SubSeq(a \o b, m, Len(a \o b))
      BY <2>7, <3>1, <3>2, Displayed
    <3> QED BY <3>1, <3>3
  <2>9. SubSeq(a \o b, m, Len(a) + Len(b)) = c \o b
    <3> DEFINE d == SubSeq(a \o b, m, Len(a) + Len(b))
    <3>1. \A j \in m..(Len(a) + Len(b)) : (a \o b)[j] \in S
      BY <2>1, Concat
    <3>2. /\ d \in Seq(S) /\ Len(d) = Len(a) + Len(b) - m + 1
          /\ \A j \in 1..Len(d) : d[j] = (a \o b)[m + j - 1]
      BY <2>1, <3>1, SubSeqProperties
    <3> HIDE DEF d
    <3>3. c \o b \in Seq(S) /\ Len(c \o b) = Len(d)
      <4>1. c \o b \in Seq(S) /\ Len(c \o b) = Len(c) + Len(b)
        BY <2>4, Concat
      <4>2. Len(a) - m + 1 + Len(b) = Len(a) + Len(b) - m + 1
        BY <2>1
      <4> QED BY <2>4, <3>2, <4>1, <4>2
    <3>4. ASSUME NEW j \in 1..Len(d) PROVE d[j] = (c \o b)[j]
      <4>1. CASE j <= Len(c)
        <5>1. m + j - 1 \in 1..Len(a) /\ j \in 1..Len(c)
          BY <2>1, <2>4, <4>1
        <5>2. (c \o b)[j] = c[j] /\ c[j] = a[m + j - 1]
          BY <2>4, <5>1, Concat
        <5>3. (a \o b)[m + j - 1] = a[m + j - 1]
          BY <5>1, Concat
        <5> QED BY <3>2, <5>2, <5>3
      <4>2. CASE j > Len(c)
        <5>1. /\ j - Len(c) \in 1..Len(b) /\ j = Len(c) + (j - Len(c))
              /\ m + j - 1 = Len(a) + (j - Len(c))
          BY <2>1, <2>4, <3>2, <4>2
        <5>2. (c \o b)[j] = b[j - Len(c)]
          BY <2>4, <5>1, Concat
        <5>3. (a \o b)[m + j - 1] = b[j - Len(c)]
          BY <5>1, Concat
        <5>4. d[j] = (a \o b)[m + j - 1]
          BY <3>2
        <5> QED BY <5>2, <5>3, <5>4
      <4> QED BY <2>1, <2>4, <3>2, <4>1, <4>2
    <3>5. d = c \o b
      BY <3>2, <3>3, <3>4, SeqEqual
    <3> QED BY <3>5 DEF d
  <2> QED BY <2>3, <2>6, <2>8, <2>9
<1> QED BY <1>1, <1>2

-----------------------------------------------------------------------------
(* The GUI displays what the client has                                    *)

\* What was displayed before the lines of the running batch.
ShownInv ==
  /\ shown \in Seq(Line)
  /\ nextEventNo \in 0..Len(events)
  /\ pc \in {"poll", "recv", "parse", "syserr", "write"}
  /\ GuiInStep
  /\ pc \in {"recv", "parse"} /\ nextEventNo > 0 =>
       shown = SinceNewGame(SubSeq(events, 1, nextEventNo))

\* The lines of a game begin with its roster.
RosterInv ==
  /\ events # << >> => Opens(events[1])
  /\ playerNames # << >> => events # << >>

GuiInv == StreamInv /\ RosterInv /\ ShownInv

LEMMA GuiInit == Init => GuiInv
<1> SUFFICES ASSUME Init PROVE GuiInv
  OBVIOUS
<1>1. shown \in Seq(Line) /\ Len(events) = 0
  BY EmptySeq DEF Init
<1> QED BY <1>1, StreamInit DEF Init, GuiInv, RosterInv, ShownInv, GuiInStep

\* A step of the parser that appends at most one line.
LEMMA PushStep ==
  ASSUME GuiInv, StreamInv', pc = "parse",
         pc' \in {"parse", "syserr"}, UNCHANGED <<shown, nextEventNo>>,
         \/ UNCHANGED <<events, playerNames>>
         \/ /\ events = << >> => playerNames # << >> \/ Opens(events'[1])
            /\ \E l \in Line : events' = Append(events, l)
  PROVE  GuiInv'
<1>1. CASE UNCHANGED <<events, playerNames>>
  BY <1>1 DEF GuiInv, RosterInv, ShownInv, GuiInStep
<1>2. CASE /\ events = << >> => playerNames # << >> \/ Opens(events'[1])
           /\ \E l \in Line : events' = Append(events, l)
  <2>1. PICK l \in Line : events' = Append(events, l)
    BY <1>2
  <2>2. events \in Seq(Line) /\ Len(events) \in Nat
    BY DEF GuiInv, StreamInv, CountInv
  <2>3. /\ events' \in Seq(Line) /\ Len(events') = Len(events) + 1
        /\ \A i \in 1..Len(events) : events'[i] = events[i]
    BY <2>1, <2>2
  <2>4. events' # << >> /\ Opens(events'[1])
    <3>1. CASE events = << >>
      BY <1>2, <2>3, <3>1 DEF GuiInv, RosterInv
    <3>2. CASE events # << >>
      BY <2>2, <2>3, <3>2 DEF GuiInv, RosterInv
    <3> QED BY <3>1, <3>2
  <2>5. ASSUME nextEventNo > 0
        PROVE  SubSeq(events', 1, nextEventNo) = SubSeq(events, 1, nextEventNo)
    <3>1. /\ 1 \in 1..Len(events) /\ nextEventNo \in 1..Len(events)
          /\ <<l>> \in Seq(Line) /\ events' = events \o <<l>>
      BY <2>1, <2>2, <2>5 DEF GuiInv, ShownInv
    <3> QED BY <2>2, <3>1, SubSeqOfConcat1
  <2>6. RosterInv'
    BY <2>4 DEF RosterInv
  <2>7. ShownInv'
    <3>1. /\ shown' \in Seq(Line) /\ nextEventNo \in 0..Len(events)
          /\ nextEventNo > 0 => shown = SinceNewGame(SubSeq(events, 1, nextEventNo))
      BY DEF GuiInv, ShownInv
    <3>2. nextEventNo' \in 0..Len(events')
      BY <2>2, <2>3, <3>1
    <3>3. nextEventNo' > 0 => shown' = SinceNewGame(SubSeq(events', 1, nextEventNo'))
      BY <2>5, <3>1
    <3> QED BY <3>1, <3>2, <3>3 DEF ShownInv, GuiInStep
  <2> QED BY <2>6, <2>7 DEF GuiInv
<1> QED BY <1>1, <1>2

LEMMA ShowStep == GuiInv /\ StreamInv' /\ ShowEvents => GuiInv'
<1> SUFFICES ASSUME GuiInv, StreamInv', ShowEvents PROVE GuiInv'
  OBVIOUS
<1>1. /\ pc = "recv" /\ pc' = "poll"
      /\ shown' = SinceNewGame(shown \o NewLines)
      /\ UNCHANGED <<playerNames, events, nextEventNo>>
  BY DEF ShowEvents, params
<1>2. /\ events \in Seq(Line) /\ shown \in Seq(Line) /\ Len(events) \in Nat
      /\ nextEventNo \in 0..Len(events)
  BY DEF GuiInv, StreamInv, CountInv, ShownInv
<1>3. NewLines \in Seq(Line)
  <2>1. \A i \in (nextEventNo + 1)..Len(events) : events[i] \in Line
    BY <1>2
  <2> QED BY <1>2, <2>1, SubSeqProperties DEF NewLines
<1>4. shown' \in Seq(Line)
  BY <1>1, <1>2, <1>3, Concat, Displayed
<1>5. ASSUME events # << >>
      PROVE  shown' = SinceNewGame(events)
  <2>1. Opens(events[1]) /\ 1 \in 1..Len(events)
    BY <1>2, <1>5 DEF GuiInv, RosterInv
  <2>2. CASE nextEventNo = 0
    <3>1. NewLines = events
      BY <1>2, <2>2, SubSeqFull DEF NewLines
    <3> QED BY <1>1, <1>2, <2>1, <3>1, DisplayedFresh
  <2>3. CASE nextEventNo > 0
    <3> DEFINE old == SubSeq(events, 1, nextEventNo)
    <3>1. /\ old \in Seq(Line) /\ Len(old) = nextEventNo /\ old[1] = events[1]
      <4>1. \A i \in 1..nextEventNo : events[i] \in Line
        BY <1>2
      <4> QED BY <1>2, <2>3, <4>1, SubSeqProperties
    <3>2. old \o NewLines = events
      <4>1. /\ 1 \in 1..(Len(events) + 1) /\ nextEventNo \in (1 - 1)..Len(events)
            /\ Len(events) \in nextEventNo..Len(events)
        BY <1>2
      <4>2. old \o NewLines = SubSeq(events, 1, Len(events))
        BY <1>2, <4>1, ConcatAdjacentSubSeq DEF NewLines
      <4> QED BY <1>2, <4>2, SubSeqFull
    <3>3. shown = SinceNewGame(old)
      BY <1>1, <2>3 DEF GuiInv, ShownInv
    <3>4. 1 \in 1..Len(old) /\ Opens(old[1])
      BY <1>2, <2>1, <2>3, <3>1
    <3> HIDE DEF old
    <3> QED BY <1>1, <1>3, <3>1, <3>2, <3>3, <3>4, DisplayedOn
  <2> QED BY <1>2, <2>2, <2>3
<1> QED BY <1>1, <1>2, <1>4, <1>5 DEF GuiInv, RosterInv, ShownInv, GuiInStep

LEMMA GuiStep == GuiInv /\ [Next]_vars => GuiInv'
<1> SUFFICES ASSUME GuiInv, [Next]_vars PROVE GuiInv'
  OBVIOUS
<1>1. StreamInv'
  BY StreamStep DEF GuiInv
<1>2. events \in Seq(Line) /\ Len(events) \in Nat /\ Len(events) = nextExpectedEventNo
  BY DEF GuiInv, StreamInv, CountInv, EventsCounted
<1>3. CASE StartReceiving
  <2>1. /\ pc = "poll" /\ pc' = "recv" /\ nextEventNo' = Len(events)
        /\ UNCHANGED <<playerNames, events, shown>>
    BY <1>2, <1>3 DEF StartReceiving, params
  <2>2. SubSeq(events, 1, Len(events)) = events
    BY <1>2, SubSeqFull
  <2>3. Len(events) > 0 => shown = SinceNewGame(SubSeq(events, 1, Len(events)))
    <3>1. Len(events) > 0 => shown = SinceNewGame(events)
      BY <1>2, <2>1 DEF GuiInv, ShownInv, GuiInStep
    <3> QED BY <2>2, <3>1
  <2>4. RosterInv'
    BY <2>1 DEF GuiInv, RosterInv
  <2>5. ShownInv'
    BY <1>2, <2>1, <2>3 DEF GuiInv, ShownInv, GuiInStep
  <2> QED BY <1>1, <2>4, <2>5 DEF GuiInv
<1>4. ASSUME NEW g \in Game, NEW first, NEW part, Receive(GameId[g], first, part)
      PROVE  GuiInv'
  <2>1. pc = "recv" /\ pc' = "parse" /\ shown' = shown
    BY <1>4 DEF Receive
  <2>2. CASE gameId = GameId[g]
    <3>1. UNCHANGED <<playerNames, events, nextEventNo>>
      BY <1>4, <2>2 DEF Receive
    <3> QED BY <1>1, <2>1, <3>1 DEF GuiInv, RosterInv, ShownInv, GuiInStep
  <2>3. CASE gameId # GameId[g]
    <3>1. playerNames' = << >> /\ events' = << >> /\ nextEventNo' = 0
      BY <1>4, <2>3 DEF Receive, Reset
    <3> QED BY <1>1, <2>1, <3>1 DEF GuiInv, RosterInv, ShownInv, GuiInStep
  <2> QED BY <2>2, <2>3
<1>5. CASE ParseNewGame
  <2>1. /\ pc = "parse" /\ pc' = pc /\ UNCHANGED <<shown, nextEventNo>>
        /\ events' = Append(events, NewGameLine(Head(dgram).players))
        /\ dgram # << >> /\ Head(dgram).type = "NEW_GAME"
    BY <1>5 DEF ParseNewGame, NextIs, Skip, Push
  <2>2. NewGameLine(Head(dgram).players) \in Line
    <3>1. PICK g \in Game : PartOf(g) /\ no < Len(Log[g]) /\ Head(dgram) = Log[g][no + 1]
      BY <2>1, HeadOfDatagram DEF GuiInv
    <3>2. no + 1 \in 1..Len(Log[g]) /\ LineOf(g, Log[g][no + 1]) \in Line
      BY <3>1, LogEvents DEF PartOf
    <3> QED BY <2>1, <3>1, <3>2 DEF LineOf
  <2>3. events = << >> => Opens(events'[1])
    BY <2>1 DEF Opens, NewGameLine
  <2> QED BY <1>1, <2>1, <2>2, <2>3, PushStep
<1>6. ASSUME NEW type \in {"PIXEL", "PLAYER_ELIMINATED"}, ParseOfPlayer(type)
      PROVE  GuiInv'
  <2>1. /\ pc = "parse" /\ dgram # << >> /\ Head(dgram).type = type
        /\ UNCHANGED <<shown, nextEventNo, playerNames>>
    BY <1>6 DEF ParseOfPlayer, NextIs
  <2>2. CASE Head(dgram).player >= Len(playerNames)
    BY <1>1, <1>6, <2>1, <2>2, PushStep DEF ParseOfPlayer
  <2>3. CASE ~(Head(dgram).player >= Len(playerNames))
    <3>1. /\ pc' = pc
          /\ IF Expected
             THEN events' = Append(events, PlayerLine(Head(dgram),
                              playerNames[Head(dgram).player + 1]))
             ELSE events' = events
      BY <1>6, <2>3 DEF ParseOfPlayer, Skip, Push
    <3>2. PICK g \in Game :
            /\ PartOf(g) /\ no < Len(Log[g]) /\ Head(dgram) = Log[g][no + 1]
            /\ \A h \in Game : gameId = GameId[h] => h = g
      BY <2>1, HeadOfDatagram DEF GuiInv
    <3>3. no + 1 \in 1..Len(Log[g])
      BY <3>2, LogEvents DEF PartOf
    <3>4. playerNames # << >>
      <4> SUFFICES ASSUME playerNames = << >> PROVE FALSE
        OBVIOUS
      <4>1. Head(dgram).player \in Nat
        BY <2>1, <3>2, <3>3, LogEvents, LogAssumption
      <4> QED BY <2>3, <4>1
    <3>5. playerNames = Log[g][1].players
      BY <3>2, <3>4 DEF GuiInv, StreamInv, SourceInv
    <3>6. PlayerLine(Head(dgram), playerNames[Head(dgram).player + 1]) \in Line
      BY <2>1, <3>2, <3>3, <3>5, LogEvents DEF LineOf
    <3> QED BY <1>1, <2>1, <3>1, <3>4, <3>6, PushStep
  <2> QED BY <2>2, <2>3
<1>7. CASE ParseGameOver
  <2>1. pc = "parse" /\ pc' = pc /\ UNCHANGED <<shown, nextEventNo, events, playerNames>>
    BY <1>7 DEF ParseGameOver, NextIs, Skip
  <2> QED BY <1>1, <2>1, PushStep
<1>8. CASE ShowEvents
  BY <1>1, <1>8, ShowStep
<1>9. CASE EndDatagram \/ WriteFails \/ UNCHANGED vars
  <2>1. UNCHANGED <<shown, nextEventNo, events, playerNames>>
        /\ (pc' = pc \/ pc' = "write" \/ (pc = "parse" /\ pc' = "recv"))
    BY <1>9 DEF EndDatagram, WriteFails, vars, params
  <2> QED BY <1>1, <2>1 DEF GuiInv, RosterInv, ShownInv, GuiInStep
<1> QED BY <1>3, <1>4, <1>5, <1>6, <1>7, <1>8, <1>9
        DEF Next, ParsePixel, ParsePlayerEliminated

(***************************************************************************)
(* After every batch the GUI displays what the client has of its game,     *)
(* each line once, for any games and any network. (client.cpp:465, 479,    *)
(* 493-495)                                                                *)
(***************************************************************************)
THEOREM GuiKeepsUp == Spec => []GuiInStep
<1>1. GuiInv => GuiInStep
  BY DEF GuiInv, ShownInv
<1> QED BY <1>1, GuiInit, GuiStep, PTL DEF Spec

-----------------------------------------------------------------------------
(* Games whose worms have the numbers of the roster, and that end          *)

\* NumbersInRoster and GameEndsOnce of Server, for the logs of the games.
Numbered ==
  \A g \in Game : \A i \in DOMAIN Log[g] :
    Log[g][i].type \in {"PIXEL", "PLAYER_ELIMINATED"} =>
      Log[g][i].player < Len(Log[g][1].players)
GamesEnd ==
  \A g \in Game : \A i \in DOMAIN Log[g] :
    Log[g][i].type = "GAME_OVER" <=> i = Len(Log[g])

LEMMA AcceptStep ==
  ASSUME Numbered, StreamInv, RosterAccepts, [Next]_vars
  PROVE  RosterAccepts'
<1>1. ASSUME NEW type \in {"PIXEL", "PLAYER_ELIMINATED"}, ParseOfPlayer(type),
             pc' = "syserr"
      PROVE  playerNames' = << >>
  <2>1. /\ pc = "parse" /\ dgram # << >> /\ Head(dgram).type = type
        /\ playerNames' = playerNames
    BY <1>1 DEF ParseOfPlayer, NextIs
  <2>2. Head(dgram).player >= Len(playerNames)
    BY <1>1, <2>1 DEF ParseOfPlayer, Skip
  <2>3. PICK g \in Game :
          /\ PartOf(g) /\ no < Len(Log[g]) /\ Head(dgram) = Log[g][no + 1]
          /\ \A h \in Game : gameId = GameId[h] => h = g
    BY <2>1, HeadOfDatagram
  <2>4. no + 1 \in DOMAIN Log[g]
    BY <2>3, LogEvents DEF PartOf
  <2>5. /\ Head(dgram).player \in Nat
        /\ Head(dgram).player < Len(Log[g][1].players)
        /\ Len(Log[g][1].players) \in Nat
    BY <2>1, <2>3, <2>4, LogAssumption DEF Numbered
  <2>6. playerNames # << >> => playerNames = Log[g][1].players
    BY <2>3 DEF StreamInv, SourceInv
  <2> QED BY <2>1, <2>2, <2>5, <2>6
<1>2. CASE \/ StartReceiving \/ ParseNewGame \/ ParseGameOver \/ EndDatagram
           \/ ShowEvents \/ WriteFails
           \/ \E id, first, part : Receive(id, first, part)
  BY <1>2 DEF StartReceiving, ParseNewGame, ParseGameOver, EndDatagram, ShowEvents,
              WriteFails, Receive, NextIs, Skip, RosterAccepts
<1>3. CASE UNCHANGED vars
  BY <1>3 DEF vars, params, RosterAccepts
<1> QED BY <1>1, <1>2, <1>3
        DEF Next, ParsePixel, ParsePlayerEliminated, RosterAccepts

(***************************************************************************)
(* Where every number in a log is one of its roster, a client that knows   *)
(* the players of a game never exits on one of its events, for any network *)
(* and whatever it missed before. (client.cpp:192-195, 204-206, 477-488)   *)
(***************************************************************************)
THEOREM KnownPlayersAccepted ==
  ASSUME Numbered
  PROVE  Spec => []RosterAccepts
<1>1. Init => RosterAccepts
  BY DEF Init, RosterAccepts
<1>2. StreamInv /\ RosterAccepts /\ [Next]_vars => RosterAccepts'
  BY AcceptStep
<1> QED BY <1>1, <1>2, StreamInit, StreamStep, PTL DEF Spec

\* A finished game has all its lines.
FinishInv ==
  finished /\ ~repeated =>
    \A g \in Game : gameId = GameId[g] => Len(events) = Len(Log[g]) - 1

LEMMA TwoEvents ==
  ASSUME GamesEnd, NEW g \in Game
  PROVE  Len(Log[g]) > 1
<1>1. Len(Log[g]) \in Nat \ {0} /\ DOMAIN Log[g] = 1..Len(Log[g])
  BY LogEvents
<1>2. Log[g][1].type = "NEW_GAME" /\ Log[g][Len(Log[g])].type = "GAME_OVER"
  BY <1>1, LogAssumption DEF GamesEnd
<1> QED BY <1>1, <1>2

LEMMA FinishStep ==
  ASSUME GamesEnd, StreamInv, StreamInv', FinishInv, [Next]_vars
  PROVE  FinishInv'
<1>1. ASSUME NEW g \in Game, NEW first, NEW part, Receive(GameId[g], first, part)
      PROVE  FinishInv'
  <2>1. CASE gameId = GameId[g]
    BY <1>1, <2>1 DEF Receive, FinishInv, StreamInv, CountInv
  <2>2. CASE gameId # GameId[g]
    BY <1>1, <2>2 DEF Receive, Reset, FinishInv
  <2> QED BY <2>1, <2>2
<1>2. CASE ParseNewGame
  <2>1. /\ pc = "parse" /\ dgram # << >> /\ Head(dgram).type = "NEW_GAME"
        /\ UNCHANGED <<gameId, finished, repeated>>
    BY <1>2 DEF ParseNewGame, NextIs, network
  <2>2. PICK g \in Game :
          /\ PartOf(g) /\ no < Len(Log[g]) /\ Head(dgram) = Log[g][no + 1]
          /\ \A h \in Game : gameId = GameId[h] => h = g
    BY <2>1, HeadOfDatagram
  <2>3. no = 0
    BY <2>1, <2>2, LogEvents DEF PartOf
  <2>4. SUFFICES ASSUME finished, ~repeated PROVE FALSE
    BY <2>1 DEF FinishInv
  <2>5. Len(events) = 0 /\ Len(events) = Len(Log[g]) - 1
    BY <2>1, <2>2, <2>3, <2>4 DEF StreamInv, OpeningInv, FinishInv, PartOf
  <2> QED BY <2>5, TwoEvents, LogEvents
<1>3. ASSUME NEW type \in {"PIXEL", "PLAYER_ELIMINATED"}, ParseOfPlayer(type)
      PROVE  FinishInv'
  <2>1. UNCHANGED <<gameId, finished, repeated>> /\ (finished => events' = events)
    BY <1>3 DEF ParseOfPlayer, Expected, Push, network
  <2> QED BY <2>1 DEF FinishInv
<1>4. CASE ParseGameOver
  <2>1. /\ pc = "parse" /\ dgram # << >> /\ Head(dgram).type = "GAME_OVER"
        /\ UNCHANGED <<gameId, repeated, events>>
        /\ finished' = (finished \/ Expected)
    BY <1>4 DEF ParseGameOver, NextIs, network
  <2>2. PICK g \in Game :
          /\ PartOf(g) /\ no < Len(Log[g]) /\ Head(dgram) = Log[g][no + 1]
          /\ \A h \in Game : gameId = GameId[h] => h = g
    BY <2>1, HeadOfDatagram
  <2>3. no \in Nat /\ no + 1 = Len(Log[g])
    <3>1. no \in Nat /\ no + 1 \in DOMAIN Log[g]
      BY <2>2, LogEvents DEF PartOf
    <3> QED BY <2>1, <2>2, <3>1 DEF GamesEnd
  <2>4. Expected => Len(events) = Len(Log[g]) - 1
    BY <2>3 DEF Expected, StreamInv, CountInv, EventsCounted
  <2> QED BY <2>1, <2>2, <2>4 DEF FinishInv
<1>5. CASE StartReceiving \/ EndDatagram \/ ShowEvents \/ WriteFails \/ UNCHANGED vars
  BY <1>5 DEF StartReceiving, EndDatagram, ShowEvents, WriteFails, vars, params,
              network, FinishInv
<1> QED BY <1>1, <1>2, <1>3, <1>4, <1>5 DEF Next, ParsePixel, ParsePlayerEliminated

LEMMA FinishedShown ==
  ASSUME GamesEnd, GuiInv, FinishInv
  PROVE  CompleteUnrepeated
<1> SUFFICES ASSUME ~repeated, NEW g \in Game, gameId = GameId[g], finished, pc = "poll"
             PROVE  shown = Lines(g, Len(Log[g]) - 1)
  BY DEF CompleteUnrepeated, FinishedComplete
<1>1. /\ events \in Seq(Line) /\ Len(events) = Len(Log[g]) - 1 /\ Len(Log[g]) > 1
      /\ Len(Log[g]) \in Nat
  BY TwoEvents, LogEvents DEF FinishInv, GuiInv, StreamInv, CountInv
<1>2. events = Lines(g, Len(Log[g]) - 1)
  BY <1>1 DEF GuiInv, StreamInv, InOrder
<1>3. shown = SinceNewGame(events)
  BY <1>1 DEF GuiInv, ShownInv, GuiInStep
<1>4. LastOpening(events, 1)
  <2>1. 1 \in 1..Len(events) /\ Opens(events[1])
    BY <1>1 DEF GuiInv, RosterInv
  <2>2. ASSUME NEW i \in (1 + 1)..Len(events) PROVE ~Opens(events[i])
    <3>1. i \in 1..Len(Log[g]) /\ i # 1 /\ i \in 1..(Len(Log[g]) - 1)
      BY <1>1
    <3>2. events[i] = LineOf(g, Log[g][i])
      BY <1>2, <3>1 DEF Lines
    <3>3. Log[g][i].type # "NEW_GAME"
      BY <3>1, LogEvents
    <3> QED BY <3>2, <3>3 DEF LineOf, PlayerLine, PixelLine, EliminatedLine, Opens
  <2> QED BY <2>1, <2>2 DEF LastOpening
<1>5. SinceNewGame(events) = SubSeq(events, 1, Len(events))
  BY <1>1, <1>4, Displayed DEF LastOpening
<1> QED BY <1>1, <1>2, <1>3, <1>5, SubSeqFull

(***************************************************************************)
(* Where GAME_OVER is the end of every log and nothing else, a client that *)
(* takes a game for finished has displayed all of it, for any network that *)
(* does not repeat NEW_GAME. (client.cpp:330-336, 457-496)                 *)
(***************************************************************************)
THEOREM FinishedIsComplete ==
  ASSUME GamesEnd
  PROVE  Spec => []CompleteUnrepeated
<1>1. Init => FinishInv
  BY DEF Init, FinishInv
<1>2. GuiInv /\ FinishInv /\ [Next]_vars => FinishInv'
  BY FinishStep, StreamStep DEF GuiInv
<1>3. GuiInv /\ FinishInv => CompleteUnrepeated
  BY FinishedShown
<1> QED BY <1>1, <1>2, <1>3, GuiInit, GuiStep, PTL DEF Spec

\* The lines of the client are those the GUI may get.
LEMMA GuiLines ==
  ASSUME GamesEnd, NEW g \in Game, NEW i \in 1..Len(Log[g]),
         Log[g][i].type # "GAME_OVER"
  PROVE  LineOf(g, Log[g][i]) \in GuiLine
<1>1. Len(Log[g]) \in Nat \ {0} /\ DOMAIN Log[g] = 1..Len(Log[g])
  BY LogEvents
<1>2. i \in 1..(Len(Log[g]) - 1)
  BY <1>1 DEF GamesEnd
<1> DEFINE lines == Lines(g, Len(Log[g]) - 1)
<1>3. i \in DOMAIN lines /\ lines[i] = LineOf(g, Log[g][i])
  BY <1>2 DEF Lines
<1>4. LineOf(g, Log[g][i]) \in Range(lines)
  BY <1>3 DEF Range
<1> QED BY <1>4 DEF GuiLine

\* The types that neither GuiInv nor the next step's GuiInv says.
LinesTyped == events \in Seq(GuiLine) /\ shown \in Seq(GuiLine)

DatagramTyped ==
  /\ dgram # << >> => \E g \in Game : Range(dgram) \subseteq Range(Log[g])
  /\ no \in Nat /\ finished \in BOOLEAN
  /\ gameId \in {NoGame} \cup Range(GameId)
  /\ playerNames = << >> \/ \E g \in Game : playerNames = Log[g][1].players

LEMMA TypedAll == GuiInv /\ LinesTyped /\ DatagramTyped => TypeOK
BY DEF GuiInv, StreamInv, CountInv, ShownInv, LinesTyped, DatagramTyped, TypeOK

LEMMA LinesStep ==
  ASSUME GamesEnd, GuiInv, LinesTyped, [Next]_vars
  PROVE  LinesTyped'
<1>1. CASE ParseNewGame
  <2>1. /\ pc = "parse" /\ dgram # << >> /\ Head(dgram).type = "NEW_GAME"
        /\ events' = Append(events, NewGameLine(Head(dgram).players))
        /\ shown' = shown
    BY <1>1 DEF ParseNewGame, NextIs, Push
  <2>2. PICK g \in Game : PartOf(g) /\ no < Len(Log[g]) /\ Head(dgram) = Log[g][no + 1]
    BY <2>1, HeadOfDatagram DEF GuiInv
  <2>3. no + 1 \in 1..Len(Log[g])
    BY <2>2, LogEvents DEF PartOf
  <2>4. LineOf(g, Log[g][no + 1]) \in GuiLine
    BY <2>1, <2>2, <2>3, GuiLines
  <2>5. NewGameLine(Head(dgram).players) \in GuiLine
    BY <2>1, <2>2, <2>4 DEF LineOf
  <2> QED BY <2>1, <2>5 DEF LinesTyped
<1>2. ASSUME NEW type \in {"PIXEL", "PLAYER_ELIMINATED"}, ParseOfPlayer(type)
      PROVE  LinesTyped'
  <2>1. /\ pc = "parse" /\ dgram # << >> /\ Head(dgram).type = type
        /\ shown' = shown
    BY <1>2 DEF ParseOfPlayer, NextIs
  <2>2. CASE events' = events
    BY <2>1, <2>2 DEF LinesTyped
  <2>3. CASE events' # events
    <3>1. /\ ~(Head(dgram).player >= Len(playerNames))
          /\ events' = Append(events, PlayerLine(Head(dgram),
                          playerNames[Head(dgram).player + 1]))
      BY <1>2, <2>3 DEF ParseOfPlayer, Push
    <3>2. PICK g \in Game :
            /\ PartOf(g) /\ no < Len(Log[g]) /\ Head(dgram) = Log[g][no + 1]
            /\ \A h \in Game : gameId = GameId[h] => h = g
      BY <2>1, HeadOfDatagram DEF GuiInv
    <3>3. no + 1 \in 1..Len(Log[g])
      BY <3>2, LogEvents DEF PartOf
    <3>4. Head(dgram).player \in Nat
      BY <2>1, <3>2, <3>3, LogEvents, LogAssumption
    <3>5. playerNames # << >>
      BY <3>1, <3>4
    <3>6. playerNames = Log[g][1].players
      BY <3>2, <3>5 DEF GuiInv, StreamInv, SourceInv
    <3>7. LineOf(g, Log[g][no + 1]) \in GuiLine
      BY <2>1, <3>2, <3>3, GuiLines
    <3>8. PlayerLine(Head(dgram), playerNames[Head(dgram).player + 1]) \in GuiLine
      BY <2>1, <3>2, <3>6, <3>7 DEF LineOf
    <3> QED BY <2>1, <3>1, <3>8 DEF LinesTyped
  <2> QED BY <2>2, <2>3
<1>3. CASE ShowEvents
  <2>1. shown' = SinceNewGame(shown \o NewLines) /\ events' = events
    BY <1>3 DEF ShowEvents, params
  <2>2. nextEventNo \in Nat /\ Len(events) \in Nat
    BY DEF GuiInv, ShownInv, StreamInv, CountInv
  <2>3. \A i \in (nextEventNo + 1)..Len(events) : events[i] \in GuiLine
    BY <2>2 DEF LinesTyped
  <2>4. NewLines \in Seq(GuiLine)
    BY <2>2, <2>3, SubSeqProperties DEF NewLines
  <2>5. shown' \in Seq(GuiLine)
    BY <2>1, <2>4, Concat, Displayed DEF LinesTyped
  <2> QED BY <2>1, <2>5 DEF LinesTyped
<1>4. ASSUME NEW id, NEW first, NEW part, Receive(id, first, part)
      PROVE  LinesTyped'
  <2>1. events' \in {events, << >>} /\ shown' = shown
    BY <1>4 DEF Receive, Reset
  <2>2. << >> \in Seq(GuiLine)
    BY EmptySeq
  <2> QED BY <2>1, <2>2 DEF LinesTyped
<1>5. CASE StartReceiving \/ ParseGameOver \/ EndDatagram \/ WriteFails \/ UNCHANGED vars
  BY <1>5 DEF StartReceiving, ParseGameOver, EndDatagram, WriteFails, vars, params,
              LinesTyped
<1> QED BY <1>1, <1>2, <1>3, <1>4, <1>5 DEF Next, ParsePixel, ParsePlayerEliminated

LEMMA DatagramStep ==
  ASSUME GuiInv, DatagramTyped, [Next]_vars
  PROVE  DatagramTyped'
<1>1. ASSUME NEW g \in Game, NEW first \in 0..(Len(Log[g]) - 1),
             NEW end \in 0..(Len(Log[g]) - 1), first <= end,
             Receive(GameId[g], first, SubSeq(Log[g], first + 1, end + 1))
      PROVE  DatagramTyped'
  <2>1. /\ dgram' = SubSeq(Log[g], first + 1, end + 1) /\ no' = first
        /\ gameId' = GameId[g] /\ playerNames' \in {playerNames, << >>}
    BY <1>1 DEF Receive, Reset
  <2>2. Len(Log[g]) \in Nat /\ DOMAIN Log[g] = 1..Len(Log[g])
    BY LogEvents
  <2>3. \A i \in (first + 1)..(end + 1) : Log[g][i] \in Range(Log[g])
    BY <2>2 DEF Range
  <2>4. dgram' \in Seq(Range(Log[g]))
    BY <2>1, <2>2, <2>3, SubSeqProperties
  <2>5. Range(dgram') \subseteq Range(Log[g])
    <3> DEFINE E == Range(Log[g])
    <3>1. dgram' \in Seq(E)
      BY <2>4
    <3> HIDE DEF E
    <3>2. Range(dgram') \subseteq E
      BY <3>1 DEF Range
    <3> QED BY <3>2 DEF E
  <2>6. gameId' \in Range(GameId)
    BY <2>1, GameIdAssumption DEF Range
  <2>7. finished' \in BOOLEAN
    <3>1. finished' = finished \/ finished' = FALSE
      BY <1>1 DEF Receive, Reset
    <3> QED BY <3>1, Zenon DEF DatagramTyped
  <2>8. no' \in Nat
    BY <2>1
  <2>9. playerNames' = << >> \/ \E h \in Game : playerNames' = Log[h][1].players
    BY <2>1 DEF DatagramTyped
  <2> QED BY <2>5, <2>6, <2>7, <2>8, <2>9, Zenon DEF DatagramTyped
<1>2. ASSUME pc = "parse", dgram # << >>, dgram' = Tail(dgram), no' = no + 1,
             finished' \in BOOLEAN, gameId' = gameId,
             playerNames' = playerNames \/ playerNames' = Head(dgram).players,
             playerNames' # playerNames => Head(dgram).type = "NEW_GAME"
      PROVE  DatagramTyped'
  <2>1. PICK g \in Game : PartOf(g) /\ no < Len(Log[g]) /\ Head(dgram) = Log[g][no + 1]
    BY <1>2, HeadOfDatagram DEF GuiInv
  <2>2. dgram \in Seq(Event) /\ dgram' \in Seq(Event)
    BY <1>2, <2>1 DEF PartOf
  <2>3. Range(dgram') \subseteq Range(dgram)
    <3>1. /\ DOMAIN dgram' = 1..(Len(dgram) - 1) /\ DOMAIN dgram = 1..Len(dgram)
          /\ Len(dgram) \in Nat
          /\ \A i \in 1..(Len(dgram) - 1) : dgram'[i] = dgram[i + 1]
      BY <1>2, <2>2
    <3> QED BY <3>1 DEF Range
  <2>4. Head(dgram).type = "NEW_GAME" => Head(dgram) = Log[g][1]
    <3>1. no + 1 \in 1..Len(Log[g])
      BY <2>1, LogEvents DEF PartOf
    <3>2. Log[g][no + 1].type = "NEW_GAME" => no + 1 = 1
      BY <3>1, LogEvents, Zenon
    <3> QED BY <2>1, <3>2
  <2>5. playerNames' = playerNames \/ playerNames' = Log[g][1].players
    BY <1>2, <2>4
  <2>6. PICK h \in Game : Range(dgram) \subseteq Range(Log[h])
    BY <1>2 DEF DatagramTyped
  <2>7. Range(dgram') \subseteq Range(Log[h])
    BY <2>3, <2>6
  <2>8. no' \in Nat
    BY <1>2 DEF DatagramTyped
  <2>9. gameId' \in {NoGame} \cup Range(GameId)
    BY <1>2 DEF DatagramTyped
  <2>10. playerNames' = << >> \/ \E k \in Game : playerNames' = Log[k][1].players
    BY <2>5 DEF DatagramTyped
  <2> QED BY <1>2, <2>7, <2>8, <2>10, <2>9, Zenon DEF DatagramTyped
<1>3. CASE ParseNewGame
  <2>1. /\ pc = "parse" /\ dgram # << >> /\ Head(dgram).type = "NEW_GAME"
        /\ dgram' = Tail(dgram) /\ no' = no + 1
        /\ playerNames' = Head(dgram).players /\ UNCHANGED <<gameId, finished>>
    BY <1>3 DEF ParseNewGame, NextIs, Skip
  <2> QED BY <1>2, <2>1 DEF DatagramTyped
<1>4. ASSUME NEW type \in {"PIXEL", "PLAYER_ELIMINATED"}, ParseOfPlayer(type)
      PROVE  DatagramTyped'
  <2>1. /\ pc = "parse" /\ dgram # << >>
        /\ \/ dgram' = Tail(dgram) /\ no' = no + 1
           \/ UNCHANGED <<dgram, no>>
        /\ UNCHANGED <<gameId, finished, playerNames>>
    BY <1>4 DEF ParseOfPlayer, NextIs, Skip
  <2>2. CASE dgram' = Tail(dgram) /\ no' = no + 1
    BY <1>2, <2>1, <2>2 DEF DatagramTyped
  <2>3. CASE UNCHANGED <<dgram, no>>
    BY <2>1, <2>3 DEF DatagramTyped
  <2> QED BY <2>1, <2>2, <2>3
<1>5. CASE ParseGameOver
  <2>1. /\ pc = "parse" /\ dgram # << >>
        /\ dgram' = Tail(dgram) /\ no' = no + 1
        /\ finished' \in BOOLEAN /\ UNCHANGED <<gameId, playerNames>>
    BY <1>5 DEF ParseGameOver, NextIs, Skip
  <2> QED BY <1>2, <2>1
<1>6. CASE StartReceiving \/ EndDatagram \/ ShowEvents \/ WriteFails \/ UNCHANGED vars
  BY <1>6 DEF StartReceiving, EndDatagram, ShowEvents, WriteFails, vars, params,
              DatagramTyped
<1> QED BY <1>1, <1>3, <1>4, <1>5, <1>6 DEF Next, ParsePixel, ParsePlayerEliminated

(***************************************************************************)
(* Where every log ends with GAME_OVER, every variable of a client keeps   *)
(* its type, for any network. (client.cpp:212-355, 457-496)                *)
(***************************************************************************)
THEOREM StreamTypes ==
  ASSUME GamesEnd
  PROVE  Spec => []TypeOK
<1>1. Init => LinesTyped /\ DatagramTyped
  <2>1. << >> \in Seq(GuiLine)
    BY EmptySeq
  <2>2. Init => LinesTyped
    BY <2>1 DEF Init, LinesTyped
  <2>3. Init => finished \in BOOLEAN /\ no \in Nat
    <3>1. Init => finished = FALSE /\ no = 0
      BY DEF Init
    <3>2. 0 \in Nat
      OBVIOUS
    <3> QED BY <3>1, <3>2, Zenon
  <2>4. Init => gameId = NoGame /\ dgram = << >> /\ playerNames = << >>
    BY DEF Init
  <2>5. Init => DatagramTyped
    BY <2>3, <2>4, Zenon DEF DatagramTyped
  <2> QED BY <2>2, <2>5
<1>2. GuiInv /\ LinesTyped /\ DatagramTyped /\ [Next]_vars
        => LinesTyped' /\ DatagramTyped'
  BY LinesStep, DatagramStep
<1> QED BY <1>1, <1>2, TypedAll, GuiInit, GuiStep, PTL DEF Spec
=============================================================================
