--------------------------- MODULE SessionProofs ---------------------------
(***************************************************************************)
(* A client of the server is in an EventStream, for any number of games,   *)
(* any logs, sizes of datagrams and sockets; and where games have names of *)
(* their own, it is never taken back to an earlier one.                    *)
(***************************************************************************)
EXTENDS Session, SequenceTheorems, TLAPS

\* The proofs about EventStream, with the variables of the client.
Stream == INSTANCE EventStreamProofs

\* What EventStream lets the network deliver.
Part(g, first, end) ==
  [gameId |-> GameId[g], first |-> first,
   events |-> SubSeq(Log[g], first + 1, end + 1)]
Parts ==
  {Part(t[1], t[2], t[3]) :
     t \in {u \in Game \X Nat \X Nat : u[2] <= u[3] /\ u[3] < Len(Log[u[1]])}}

LEMMA PartsOf ==
  /\ \A g \in Game, first, end \in Nat :
       first <= end /\ end < Len(Log[g]) => Part(g, first, end) \in Parts
  /\ \A d \in Parts : \E g \in Game, first, end \in Nat :
       first <= end /\ end < Len(Log[g]) /\ d = Part(g, first, end)
<1>1. ASSUME NEW g \in Game, NEW first \in Nat, NEW end \in Nat,
             first <= end, end < Len(Log[g])
      PROVE  Part(g, first, end) \in Parts
  <2>1. <<g, first, end>> \in {u \in Game \X Nat \X Nat :
                                 u[2] <= u[3] /\ u[3] < Len(Log[u[1]])}
    BY <1>1
  <2> QED BY <2>1 DEF Parts
<1>2. ASSUME NEW d \in Parts
      PROVE  \E g \in Game, first, end \in Nat :
               first <= end /\ end < Len(Log[g]) /\ d = Part(g, first, end)
  BY DEF Parts
<1> QED BY <1>1, <1>2

LEMMA Logs ==
  \A g \in Game : /\ Log[g] \in Seq(Range(Log[g])) /\ Len(Log[g]) \in Nat
                  /\ Len(Log[g][1].players) \in Nat
                  /\ 1 + Len(Log[g][1].players) < Len(Log[g])
BY EveryGameEnds

\* The beginning of the log of a game.
Copies(x, g) == \E n \in 1..Len(Log[g]) : CopyOf(x, g, n)

LEMMA CopyLength ==
  ASSUME NEW g \in Game, NEW n \in 1..Len(Log[g])
  PROVE  Len(SubSeq(Log[g], 1, n)) = n
<1>1. Len(Log[g]) \in Nat /\ n \in Nat /\ Log[g] \in Seq(Range(Log[g]))
  BY Logs
<1>2. \A i \in 1..n : Log[g][i] \in Range(Log[g])
  BY <1>1 DEF Range
<1> QED BY <1>1, <1>2, SubSeqProperties

-----------------------------------------------------------------------------
(* What sendEvents sends                                                   *)

LEMMA Multiples ==
  ASSUME NEW a \in Nat, NEW p \in Nat \ {0}, NEW k \in Nat, k <= a \div p
  PROVE  k * p <= a /\ k * p \in Nat
<1> DEFINE q == a \div p
<1>1. q \in Nat /\ a = p * q + (a % p) /\ a % p >= 0 /\ a % p \in Nat
  OBVIOUS
<1>2. q - k \in Nat
  BY <1>1
<1> HIDE DEF q
<1>3. (q - k) * p \in Nat
  BY <1>2
<1>4. (q - k) * p = q * p - k * p
  BY <1>1
<1>5. k * p \in Nat /\ q * p = p * q
  BY <1>1
<1> QED BY <1>1, <1>3, <1>4, <1>5

LEMMA SentParts ==
  ASSUME NEW x, NEW g \in Game, Copies(x, g), NEW from \in Nat
  PROVE  /\ Datagrams(x, from) \in Seq(Parts)
         /\ Len(Datagrams(x, from)) = Count(Len(x.events) - from)
         /\ \A i \in 1..Len(Datagrams(x, from)) :
              Datagrams(x, from)[i].gameId = GameId[g]
<1>1. PICK n \in 1..Len(Log[g]) : CopyOf(x, g, n)
  BY DEF Copies
<1>2. Len(Log[g]) \in Nat /\ n \in Nat /\ Log[g] \in Seq(Range(Log[g]))
  BY Logs
<1>3. x.gameId = GameId[g] /\ x.events = SubSeq(Log[g], 1, n)
  BY <1>1 DEF CopyOf
<1>4. Len(x.events) = n
  BY <1>3, CopyLength
<1> DEFINE rest == n - from
           c    == Count(rest)
<1>5. c \in Nat /\ (c > 0 => rest - 1 \in Nat /\ c = ((rest - 1) \div PerDatagram) + 1)
  BY <1>2, SessionAssumption DEF Count
<1> HIDE DEF c, rest
<1>6. ASSUME NEW i \in 1..c
      PROVE  Datagrams(x, from)[i] \in Parts /\ Datagrams(x, from)[i].gameId = GameId[g]
  <2> DEFINE first == from + (i - 1) * PerDatagram
             end   == IF first + PerDatagram <= n THEN first + PerDatagram ELSE n
  <2> DEFINE last == (rest - 1) \div PerDatagram
  <2>1. i - 1 \in Nat /\ i - 1 <= last /\ rest - 1 \in Nat
    <3>1. c > 0
      BY <1>5
    <3>2. rest - 1 \in Nat /\ c = last + 1
      BY <1>5, <3>1
    <3>3. last \in Nat
      BY <3>2, SessionAssumption
    <3> HIDE DEF last
    <3> QED BY <3>2, <3>3
  <2>2. (i - 1) * PerDatagram <= rest - 1 /\ (i - 1) * PerDatagram \in Nat
    BY <2>1, Multiples, SessionAssumption
  <2>3. first \in Nat /\ first < n
    BY <1>2, <2>2 DEF rest
  <2>4. end \in Nat /\ first + 1 <= end /\ end <= n
    BY <1>2, <2>3, SessionAssumption
  <2>5. Datagrams(x, from)[i]
          = [gameId |-> GameId[g], first |-> first,
             events |-> SubSeq(x.events, first + 1, end)]
    BY <1>3, <1>4 DEF Datagrams, c, rest
  <2> HIDE DEF first, end
  <2>6. SubSeq(x.events, first + 1, end) = SubSeq(Log[g], first + 1, end)
    <3>1. /\ 1 \in 1..Len(Log[g]) /\ n \in 1..Len(Log[g])
          /\ first + 1 \in 1..(n - 1 + 1) /\ end \in 1..(n - 1 + 1)
          /\ 1 + (first + 1) - 1 = first + 1 /\ 1 + end - 1 = end
      BY <1>2, <2>3, <2>4
    <3>2. SubSeq(SubSeq(Log[g], 1, n), first + 1, end)
            = SubSeq(Log[g], 1 + (first + 1) - 1, 1 + end - 1)
      BY <1>2, <3>1, SubSeqOfSubSeq, SMTT(30)
    <3> QED BY <1>3, <3>1, <3>2
  <2>7. end - 1 \in Nat /\ first <= end - 1 /\ end - 1 < Len(Log[g]) /\ (end - 1) + 1 = end
    BY <1>2, <2>3, <2>4
  <2>8. Datagrams(x, from)[i] = Part(g, first, end - 1)
    BY <2>5, <2>6, <2>7 DEF Part
  <2>9. Part(g, first, end - 1) \in Parts
    BY <2>3, <2>7, PartsOf
  <2>10. Datagrams(x, from)[i].gameId = GameId[g]
    BY <2>5
  <2> QED BY <2>8, <2>9, <2>10
<1>7. Datagrams(x, from) = [i \in 1..c |-> Datagrams(x, from)[i]]
  BY <1>4 DEF Datagrams, c, rest
<1>8. Datagrams(x, from) \in Seq(Parts) /\ Len(Datagrams(x, from)) = c
  BY <1>5, <1>6, <1>7
<1> QED BY <1>4, <1>6, <1>8 DEF c, rest

LEMMA NothingSent ==
  ASSUME NEW x, x.events = << >>, NEW from \in Nat
  PROVE  Datagrams(x, from) = << >>
<1>1. Count(Len(x.events) - from) = 0
  BY DEF Count
<1> QED BY <1>1 DEF Datagrams

\* Each datagram that is new on the channel was sent.
LEMMA SendStep ==
  ASSUME NEW datagrams \in Seq(Parts), channel \in Seq(Parts), Send(datagrams)
  PROVE  /\ channel' \in Seq(Parts)
         /\ Len(channel) <= Len(channel')
         /\ \A i \in 1..Len(channel) : channel'[i] = channel[i]
         /\ \A i \in (Len(channel) + 1)..Len(channel') :
              \E j \in 1..Len(datagrams) : channel'[i] = datagrams[j]
         /\ Len(channel') <= Capacity
<1>1. PICK f \in Arrivals(Len(datagrams)) :
        /\ Len(channel) + Len(f) <= Capacity
        /\ channel' = channel \o [i \in 1..Len(f) |-> datagrams[f[i]]]
  BY DEF Send
<1>2. PICK k \in Nat : f \in [1..k -> 1..Len(datagrams)]
  <2>1. f \in UNION {[1..k -> 1..Len(datagrams)] : k \in 0..Len(datagrams)}
    BY <1>1 DEF Arrivals
  <2>2. PICK k \in 0..Len(datagrams) : f \in [1..k -> 1..Len(datagrams)]
    BY <2>1
  <2>3. k \in Nat
    BY <2>2
  <2> QED BY <2>2, <2>3
<1> DEFINE new == [i \in 1..k |-> datagrams[f[i]]]
<1>3. Len(f) = k
  BY <1>2
<1>4. new \in Seq(Parts) /\ Len(new) = k
  BY <1>2
<1>5. \A i \in 1..k : \E j \in 1..Len(datagrams) : new[i] = datagrams[j]
  BY <1>2
<1>6. channel' = channel \o new
  BY <1>1, <1>3
<1> HIDE DEF new
<1>7. /\ channel' \in Seq(Parts) /\ Len(channel') = Len(channel) + k
      /\ Len(channel) \in Nat
      /\ \A i \in 1..Len(channel) : channel'[i] = channel[i]
      /\ \A i \in 1..k : channel'[Len(channel) + i] = new[i]
  <2>1. /\ channel \o new \in Seq(Parts)
        /\ Len(channel \o new) = Len(channel) + Len(new)
        /\ \A i \in 1..(Len(channel) + Len(new)) :
             (channel \o new)[i] = IF i <= Len(channel) THEN channel[i]
                                   ELSE new[i - Len(channel)]
    BY <1>4, ConcatProperties, Zenon
  <2>2. Len(channel) \in Nat
    OBVIOUS
  <2>3. ASSUME NEW i \in 1..Len(channel) PROVE channel'[i] = channel[i]
    <3>1. i \in 1..(Len(channel) + Len(new)) /\ i <= Len(channel)
      BY <1>4, <2>2
    <3> QED BY <1>6, <2>1, <3>1
  <2>4. ASSUME NEW i \in 1..k PROVE channel'[Len(channel) + i] = new[i]
    <3> DEFINE j == Len(channel) + i
    <3>1. j \in 1..(Len(channel) + Len(new)) /\ ~(j <= Len(channel)) /\ j - Len(channel) = i
      BY <1>4, <2>2
    <3> HIDE DEF j
    <3>2. channel'[j] = new[j - Len(channel)]
      BY <1>6, <2>1, <3>1
    <3> QED BY <3>1, <3>2 DEF j
  <2> QED BY <1>4, <1>6, <2>1, <2>2, <2>3, <2>4
<1>8. ASSUME NEW i \in (Len(channel) + 1)..Len(channel')
      PROVE  \E j \in 1..Len(datagrams) : channel'[i] = datagrams[j]
  <2>1. i - Len(channel) \in 1..k /\ i = Len(channel) + (i - Len(channel))
    BY <1>7
  <2>2. channel'[i] = new[i - Len(channel)]
    BY <1>7, <2>1
  <2> QED BY <1>5, <2>1, <2>2
<1>9. Len(channel') <= Capacity
  BY <1>1, <1>3, <1>7
<1>10. Len(channel) <= Len(channel')
  BY <1>2, <1>7
<1> QED BY <1>7, <1>8, <1>9, <1>10

-----------------------------------------------------------------------------
(* The server's part                                                       *)

State(x) == x = [gameId |-> x.gameId, events |-> x.events]

\* The game that answers: the running one, or the whole of the last one.
ServerInv ==
  /\ loop \in {"lobby", "game"} /\ played \in 0..Games
  /\ State(game) /\ State(oldGame)
  /\ loop = "game" =>
       played \in Game /\ Copies(game, played) /\ oldGame.events = << >>
  /\ loop = "lobby" =>
       /\ game = NoGameState
       /\ oldGame.events # << >> =>
            played \in Game /\ CopyOf(oldGame, played, Len(Log[played]))

\* What is sent is of the newest game.
Newest(x) == x.events = << >> \/ (played' \in Game /\ Copies(x, played'))
Sends ==
  \/ UNCHANGED channel
  \/ \E x : \E from \in Nat : Newest(x) /\ Send(Datagrams(x, from))

LEMMA AnswerStep ==
  ASSUME ServerInv, NEW n \in Nat, Answer(n)
  PROVE  ServerInv' /\ Sends /\ UNCHANGED <<played, client>>
<1>1. UNCHANGED <<loop, played, game, oldGame, client>> /\ Send(Datagrams(AnswerFrom, n))
  BY DEF Answer, Request
<1>2. ServerInv'
  BY <1>1 DEF ServerInv, State, Copies, CopyOf
<1>3. Newest(AnswerFrom)
  <2>1. CASE loop = "game"
    BY <1>1, <2>1 DEF ServerInv, Newest, AnswerFrom
  <2>2. CASE loop = "lobby" /\ oldGame.events = << >>
    BY <2>2 DEF Newest, AnswerFrom
  <2>3. CASE loop = "lobby" /\ oldGame.events # << >>
    <3>1. played \in Game /\ CopyOf(oldGame, played, Len(Log[played]))
      BY <2>3 DEF ServerInv
    <3>2. Len(Log[played]) \in 1..Len(Log[played])
      BY <3>1, Logs
    <3>3. Copies(oldGame, played)
      BY <3>1, <3>2 DEF Copies
    <3> QED BY <1>1, <2>3, <3>1, <3>3 DEF Newest, AnswerFrom
  <2> QED BY <2>1, <2>2, <2>3 DEF ServerInv
<1> QED BY <1>1, <1>2, <1>3 DEF Sends

LEMMA KickStep ==
  ASSUME ServerInv, Kick
  PROVE  ServerInv' /\ Sends /\ UNCHANGED <<played, client>>
BY DEF Kick, ServerInv, State, Copies, CopyOf, Sends

LEMMA StartGameStep ==
  ASSUME ServerInv, StartGame
  PROVE  ServerInv' /\ Sends /\ played < played' /\ UNCHANGED client
<1> DEFINE g   == played + 1
           n   == 1 + Len(Log[g][1].players)
           new == [gameId |-> GameId[g], events |-> SubSeq(Log[g], 1, n)]
<1>1. g \in Game /\ played < g
  BY SessionAssumption DEF StartGame, ServerInv, Game
<1>2. /\ loop' = "game" /\ played' = g /\ game' = new
      /\ oldGame' = [oldGame EXCEPT !.events = << >>]
      /\ UNCHANGED client /\ Broadcast(new, 0)
  BY DEF StartGame
<1>3. n \in 1..Len(Log[g])
  BY <1>1, Logs
<1>4. Copies(new, g)
  BY <1>3 DEF Copies, CopyOf
<1>5. State(new)
  BY DEF State
<1>6. State(oldGame') /\ oldGame'.events = << >>
  BY <1>2 DEF ServerInv, State
<1>7. Sends
  BY <1>1, <1>2, <1>4 DEF Sends, Newest, Broadcast
<1> HIDE DEF g, n, new
<1>8. ServerInv'
  <2>1. Copies(game, played)' /\ State(game)'
    BY <1>2, <1>4, <1>5 DEF Copies, CopyOf, State
  <2>2. (played \in Game)' /\ (played \in 0..Games)'
    BY <1>1, <1>2, SessionAssumption DEF Game
  <2> QED BY <1>2, <1>6, <2>1, <2>2 DEF ServerInv, State
<1> QED BY <1>1, <1>2, <1>7, <1>8

LEMMA FrameStep ==
  ASSUME ServerInv, Frame
  PROVE  ServerInv' /\ Sends /\ UNCHANGED <<played, client>>
<1>1. loop = "game" /\ played \in Game /\ UNCHANGED <<played, client>>
  BY DEF ServerInv, Frame
<1>2. PICK m \in 1..Len(Log[played]) : CopyOf(game, played, m)
  BY <1>1 DEF ServerInv, Copies
<1>3. Len(game.events) = m /\ m \in Nat /\ Len(Log[played]) \in Nat
  BY <1>1, <1>2, CopyLength, Logs DEF CopyOf
<1> DEFINE next(n) == [game EXCEPT !.events = SubSeq(Log[played], 1, n)]
           over(n) == n = Len(Log[played])
<1>4. PICK n \in (Len(game.events) + 1)..Len(Log[played]) :
        /\ game' = IF over(n) THEN NoGameState ELSE next(n)
        /\ Broadcast(next(n), Len(game.events))
        /\ loop' = IF over(n) THEN "lobby" ELSE "game"
        /\ oldGame' = IF over(n) THEN OldGame(next(n)) ELSE oldGame
  BY DEF Frame
<1>5. n \in 1..Len(Log[played])
  BY <1>3
<1>6. State(next(n)) /\ CopyOf(next(n), played, n)
  <2> DEFINE log == SubSeq(Log[played], 1, n)
  <2>1. game = [gameId |-> game.gameId, events |-> game.events]
    BY DEF ServerInv, State
  <2>2. game.gameId = GameId[played]
    BY <1>2 DEF CopyOf
  <2> HIDE DEF log
  <2>3. [game EXCEPT !.events = log] = [gameId |-> GameId[played], events |-> log]
    BY <2>1, <2>2
  <2>4. next(n) = [gameId |-> GameId[played], events |-> log]
    BY <2>3 DEF log
  <2> HIDE DEF next
  <2> QED BY <2>4 DEF State, CopyOf, log
<1>7. Copies(next(n), played)
  BY <1>5, <1>6 DEF Copies
<1>8. Sends
  BY <1>1, <1>3, <1>4, <1>7 DEF Sends, Newest, Broadcast
<1> HIDE DEF next
<1>9. ServerInv'
  <2>1. CASE over(n)
    <3>1. loop' = "lobby" /\ game' = NoGameState /\ oldGame' = next(n)
      BY <1>4, <2>1 DEF OldGame
    <3>2. State(game)' /\ State(oldGame)'
      BY <1>6, <3>1 DEF State, NoGameState
    <3>3. CopyOf(oldGame, played, Len(Log[played]))'
      BY <1>1, <1>6, <2>1, <3>1 DEF CopyOf
    <3> QED BY <1>1, <3>1, <3>2, <3>3 DEF ServerInv, NoGameState
  <2>2. CASE ~over(n)
    <3>1. loop' = "game" /\ game' = next(n) /\ oldGame' = oldGame
      BY <1>4, <2>2
    <3>2. State(game)' /\ State(oldGame)' /\ Copies(game, played)'
      BY <1>1, <1>6, <1>7, <3>1 DEF State, ServerInv, Copies, CopyOf
    <3> QED BY <1>1, <3>1, <3>2 DEF ServerInv
  <2> QED BY <2>1, <2>2
<1> QED BY <1>1, <1>8, <1>9

ServerStep == (\E n \in Number : Answer(n)) \/ Kick \/ StartGame \/ Frame

LEMMA ServerSteps ==
  ASSUME ServerInv, ServerStep
  PROVE  /\ ServerInv' /\ Sends /\ UNCHANGED client
         /\ played \in Int /\ played' \in Int /\ played <= played'
<1>1. CASE \E n \in Number : Answer(n)
  <2>1. PICK n \in Number : Answer(n)
    BY <1>1
  <2>2. n \in Nat
    BY DEF Number
  <2> QED BY <2>1, <2>2, AnswerStep DEF ServerInv
<1>2. CASE Kick
  BY <1>2, KickStep DEF ServerInv
<1>3. CASE StartGame
  BY <1>3, StartGameStep DEF ServerInv
<1>4. CASE Frame
  BY <1>4, FrameStep DEF ServerInv
<1> QED BY <1>1, <1>2, <1>3, <1>4 DEF ServerStep

-----------------------------------------------------------------------------
(* The client's part                                                       *)

SessionInv == ServerInv /\ channel \in Seq(Parts)

LEMMA SessionInit == Init => SessionInv
<1> SUFFICES ASSUME Init PROVE SessionInv
  OBVIOUS
<1>1. ServerInv
  BY SessionAssumption DEF Init, ServerInv, State, NoGameState
<1>2. << >> \in Seq(Parts)
  OBVIOUS
<1> QED BY <1>1, <1>2 DEF Init, SessionInv

\* The channel keeps what it has and gets datagrams of the newest game.
Extended ==
  /\ Len(channel) \in Nat /\ Len(channel') \in Nat /\ Len(channel) <= Len(channel')
  /\ \A i \in 1..Len(channel) : channel'[i] = channel[i]
  /\ \A i \in (Len(channel) + 1)..Len(channel') :
       played' \in Game /\ channel'[i].gameId = GameId[played']

LEMMA ChannelStep ==
  ASSUME channel \in Seq(Parts), Sends
  PROVE  /\ channel' \in Seq(Parts) /\ Extended
         /\ Len(channel) <= Capacity => Len(channel') <= Capacity
<1>1. CASE UNCHANGED channel
  BY <1>1 DEF Extended
<1>2. ASSUME NEW x, NEW from \in Nat, Newest(x), Send(Datagrams(x, from))
      PROVE  /\ channel' \in Seq(Parts) /\ Extended
             /\ Len(channel') <= Capacity
  <2> DEFINE datagrams == Datagrams(x, from)
  <2>a. CASE x.events = << >>
    <3>1. datagrams = << >>
      BY <2>a, NothingSent
    <3>2. << >> \in Seq(Parts) /\ Len(<< >>) = 0
      OBVIOUS
    <3>a. datagrams \in Seq(Parts) /\ Send(datagrams)
      BY <1>2, <3>1, <3>2
    <3> HIDE DEF datagrams
    <3>3. /\ channel' \in Seq(Parts)
          /\ Len(channel) <= Len(channel')
          /\ \A i \in 1..Len(channel) : channel'[i] = channel[i]
          /\ \A i \in (Len(channel) + 1)..Len(channel') :
               \E j \in 1..Len(datagrams) : channel'[i] = datagrams[j]
          /\ Len(channel') <= Capacity
      BY <3>a, SendStep
    <3>4. ~ \E j \in 1..Len(datagrams) : TRUE
      BY <3>1, <3>2
    <3>5. (Len(channel) + 1)..Len(channel') = {}
      BY <3>3, <3>4
    <3> QED BY <3>3, <3>5 DEF Extended
  <2>b. CASE played' \in Game /\ Copies(x, played')
    <3>1. /\ datagrams \in Seq(Parts)
          /\ \A i \in 1..Len(datagrams) : datagrams[i].gameId = GameId[played']
      BY <2>b, SentParts
    <3> HIDE DEF datagrams
    <3>2. Send(datagrams)
      BY <1>2 DEF datagrams
    <3>3. /\ channel' \in Seq(Parts)
          /\ Len(channel) <= Len(channel')
          /\ \A i \in 1..Len(channel) : channel'[i] = channel[i]
          /\ \A i \in (Len(channel) + 1)..Len(channel') :
               \E j \in 1..Len(datagrams) : channel'[i] = datagrams[j]
          /\ Len(channel') <= Capacity
      BY <3>1, <3>2, SendStep
    <3> QED BY <2>b, <3>1, <3>3, SMTT(30) DEF Extended
  <2> QED BY <1>2, <2>a, <2>b DEF Newest
<1> QED BY <1>1, <1>2 DEF Sends

ClientTakes == ClientStep \/ WriteFails

LEMMA ClientSteps ==
  ASSUME SessionInv, ClientTakes
  PROVE  /\ SessionInv' /\ UNCHANGED server /\ Client!Next
         /\ \/ UNCHANGED <<channel, gameId>>
            \/ /\ channel # << >> /\ channel' = Tail(channel)
               /\ gameId' = Head(channel).gameId
<1>1. ASSUME UNCHANGED <<server, channel>> PROVE SessionInv'
  BY <1>1 DEF SessionInv, ServerInv, server, State, Copies, CopyOf
<1>2. CASE StartReceiving
  BY <1>1, <1>2 DEF StartReceiving, Client!Next, Client!StartReceiving, Client!params
<1>3. CASE Receive
  <2>1. Head(channel) \in Parts /\ Tail(channel) \in Seq(Parts)
    BY <1>3 DEF SessionInv, Receive, Readable
  <2>2. PICK g \in Game, first, end \in Nat :
          first <= end /\ end < Len(Log[g]) /\ Head(channel) = Part(g, first, end)
    BY <2>1, PartsOf
  <2>3. first \in 0..(Len(Log[g]) - 1) /\ end \in 0..(Len(Log[g]) - 1)
    BY <2>2, Logs
  <2>4. Client!Receive(GameId[g], first, SubSeq(Log[g], first + 1, end + 1))
    <3> DEFINE d == Head(channel)
    <3>1. Client!Receive(d.gameId, d.first, d.events)
      BY <1>3 DEF Receive
    <3>2. /\ d.gameId = GameId[g] /\ d.first = first
          /\ d.events = SubSeq(Log[g], first + 1, end + 1)
      BY <2>2 DEF Part
    <3> HIDE DEF d
    <3> QED BY <3>1, <3>2
  <2>5. Client!Next
    BY <2>2, <2>3, <2>4 DEF Client!Next
  <2>6. gameId' = Head(channel).gameId
    BY <2>2, <2>4 DEF Client!Receive, Part
  <2>7. UNCHANGED server /\ channel # << >> /\ channel' = Tail(channel)
    BY <1>3 DEF Receive, Readable
  <2>8. SessionInv'
    BY <2>1, <2>7 DEF SessionInv, ServerInv, server, State, Copies, CopyOf
  <2> QED BY <2>5, <2>6, <2>7, <2>8
<1>4. CASE Parse
  <2>1. UNCHANGED <<server, channel>>
    BY <1>4 DEF Parse
  <2>2. Client!Next
    BY <1>4 DEF Parse, Client!Next
  <2>3. UNCHANGED gameId
    BY <1>4 DEF Parse, Client!ParseNewGame, Client!ParsePixel,
       Client!ParsePlayerEliminated, Client!ParseOfPlayer, Client!ParseGameOver,
       Client!EndDatagram, Client!params
  <2> QED BY <1>1, <2>1, <2>2, <2>3
<1>5. CASE ShowEvents
  BY <1>1, <1>5 DEF ShowEvents, Client!Next, Client!ShowEvents, Client!params
<1>6. CASE WriteFails
  BY <1>1, <1>6 DEF WriteFails, Client!Next, Client!WriteFails, Client!params
<1> QED BY <1>2, <1>3, <1>4, <1>5, <1>6 DEF ClientTakes, ClientStep

LEMMA SessionNext ==
  ASSUME SessionInv, [Next]_vars
  PROVE  SessionInv' /\ [Client!Next]_(Client!vars)
<1>1. CASE ServerStep
  <2>1. ServerInv' /\ Sends /\ UNCHANGED client
    BY <1>1, ServerSteps DEF SessionInv
  <2>2. channel' \in Seq(Parts)
    BY <2>1, ChannelStep DEF SessionInv
  <2>3. UNCHANGED Client!vars
    BY <2>1 DEF client, Client!vars, Client!params, Client!network
  <2> QED BY <2>1, <2>2, <2>3 DEF SessionInv
<1>2. CASE ClientTakes
  BY <1>2, ClientSteps
<1>3. CASE UNCHANGED vars
  <2>1. UNCHANGED Client!vars
    BY <1>3 DEF vars, client, Client!vars, Client!params, Client!network
  <2> QED BY <1>3, <2>1 DEF vars, server, SessionInv, ServerInv, State, Copies, CopyOf
<1> QED BY <1>1, <1>2, <1>3 DEF Next, ServerStep, ClientTakes

(***************************************************************************)
(* The server implements the network of EventStream: whatever it           *)
(* broadcasts and answers, in whatever order requests, kicks, games and    *)
(* losses come, each step of the client is one that EventStream lets it    *)
(* make, so that what is proved of EventStream holds of the session.       *)
(***************************************************************************)
THEOREM ServerFeedsStream == Spec => StreamPromise
<1>1. Init => Client!Init
  BY DEF Init
<1> QED BY <1>1, SessionInit, SessionNext, PTL DEF Spec, StreamPromise, Client!Spec

-----------------------------------------------------------------------------
(* What is proved of EventStream holds of the session                      *)

\* What Server promises of the logs, and Motion of the identifiers.
Rostered ==
  /\ MaxEvents \in Nat /\ GameId \in [Game -> Nat]
  /\ \A g, h \in Game : GameId[g] = GameId[h] => g = h
  /\ \A g \in Game :
       /\ Log[g] # << >> /\ Log[g] \in Seq(Range(Log[g]))
       /\ Log[g][1].players \in Seq(Range(Log[g][1].players))
       /\ \A i \in DOMAIN Log[g] :
            /\ Log[g][i].type = "NEW_GAME" <=> i = 1
            /\ Log[g][i].type \in {"PIXEL", "PLAYER_ELIMINATED"} =>
                 /\ Log[g][i].player \in Nat
                 /\ Log[g][i].player < Len(Log[g][1].players)

\* And of the logs of games in which the game timer is read in time.
Logged ==
  /\ Rostered
  /\ \A g \in Game : \A i \in DOMAIN Log[g] :
       Log[g][i].type = "GAME_OVER" <=> i = Len(Log[g])

LEMMA StreamAssumptions ==
  ASSUME Rostered
  PROVE  /\ MaxEvents \in Nat
         /\ \A g \in Game :
              /\ Log[g] # << >> /\ Log[g] \in Seq(Stream!Range(Log[g]))
              /\ Log[g][1].players \in Seq(Stream!Range(Log[g][1].players))
              /\ \A i \in DOMAIN Log[g] :
                   /\ Log[g][i].type = "NEW_GAME" <=> i = 1
                   /\ Log[g][i].type \in {"PIXEL", "PLAYER_ELIMINATED"} =>
                        Log[g][i].player \in Nat
         /\ GameId \in [Game -> Nat]
         /\ \A g, h \in Game : GameId[g] = GameId[h] => g = h
         /\ Stream!Numbered
<1>1. Stream!Numbered
  BY DEF Rostered, Stream!Numbered
<1> QED BY <1>1 DEF Rostered, Range, Stream!Range

LEMMA StreamEnds == Logged => Rostered /\ Stream!GamesEnd
BY DEF Logged, Stream!GamesEnd

\* EventStream, instantiated by its proofs and by Session, is the same.
LEMMA SameStream == Client!Spec => Stream!Spec
<1>1. Client!Init => Stream!Init
  BY DEF Stream!Init, Client!Init, Stream!NoGame, Client!NoGame
<1>2. Client!Next => Stream!Next
  BY DEF Stream!Next, Client!Next, Stream!StartReceiving,
         Client!StartReceiving, Stream!Receive, Client!Receive,
         Stream!ParseNewGame, Client!ParseNewGame, Stream!ParsePixel,
         Client!ParsePixel, Stream!ParsePlayerEliminated,
         Client!ParsePlayerEliminated, Stream!ParseGameOver,
         Client!ParseGameOver, Stream!EndDatagram, Client!EndDatagram,
         Stream!ShowEvents, Client!ShowEvents, Stream!WriteFails,
         Client!WriteFails, Stream!Expected, Client!Expected, Stream!NextIs,
         Client!NextIs, Stream!Skip, Client!Skip, Stream!Push, Client!Push,
         Stream!NewGameLine, Client!NewGameLine, Stream!PixelLine,
         Client!PixelLine, Stream!EliminatedLine, Client!EliminatedLine,
         Stream!PlayerLine, Client!PlayerLine, Stream!ParseOfPlayer,
         Client!ParseOfPlayer, Stream!Reset, Client!Reset,
         Stream!SinceNewGame, Client!SinceNewGame, Stream!NewLines,
         Client!NewLines, Stream!Max, Client!Max, Stream!params,
         Client!params, Stream!network, Client!network
<1>3. UNCHANGED Client!vars => UNCHANGED Stream!vars
  BY DEF Stream!vars, Client!vars, Stream!params, Client!params,
         Stream!network, Client!network
<1> QED BY <1>1, <1>2, <1>3, PTL DEF Stream!Spec, Client!Spec

LEMMA SameTypes == Stream!TypeOK <=> Client!TypeOK
<1>1. Stream!GuiLine = Client!GuiLine
  BY DEF Stream!GuiLine, Client!GuiLine, Stream!Lines, Client!Lines,
         Stream!LineOf, Client!LineOf, Stream!NewGameLine,
         Client!NewGameLine, Stream!PlayerLine, Client!PlayerLine,
         Stream!PixelLine, Client!PixelLine, Stream!EliminatedLine,
         Client!EliminatedLine, Stream!Range, Client!Range
<1> QED BY <1>1 DEF Stream!TypeOK, Client!TypeOK, Stream!NoGame,
                    Client!NoGame, Stream!Range, Client!Range

\* What TypeOK says of the server's side and SessionInv does not.
ChannelInv == known \in BOOLEAN /\ Len(channel) <= Capacity

LEMMA ChannelInvStep ==
  ASSUME SessionInv, ChannelInv, [Next]_vars
  PROVE  ChannelInv'
<1>1. CASE ServerStep
  <2>1. known' \in BOOLEAN
    BY <1>1 DEF ServerStep, Answer, Request, Kick, StartGame, Frame, ChannelInv
  <2>2. Sends
    BY <1>1, ServerSteps DEF SessionInv
  <2> QED BY <2>1, <2>2, ChannelStep DEF SessionInv, ChannelInv
<1>2. CASE ClientTakes
  <2>1. /\ UNCHANGED server
        /\ channel' = channel \/ (channel # << >> /\ channel' = Tail(channel))
    BY <1>2, ClientSteps
  <2>2. Len(channel') <= Capacity
    BY <2>1, SessionAssumption DEF SessionInv, ChannelInv
  <2> QED BY <2>1, <2>2 DEF server, ChannelInv
<1>3. CASE UNCHANGED vars
  BY <1>3 DEF vars, server, ChannelInv
<1> QED BY <1>1, <1>2, <1>3 DEF Next, ServerStep, ClientTakes

(***************************************************************************)
(* Whatever the server sends, a client that plays game after game keeps    *)
(* the types of EventStream; what the server keeps of a game is a part of  *)
(* its log, and oldGame the whole of it or nothing.                        *)
(* (server.cpp:546-570; client.cpp:212-355, 457-496)                       *)
(***************************************************************************)
THEOREM SessionTypes ==
  ASSUME Logged
  PROVE  Spec => []TypeOK
<1>1. Stream!Spec => []Stream!TypeOK
  BY StreamAssumptions, StreamEnds, Stream!StreamTypes
<1>2. Spec => []Client!TypeOK
  BY <1>1, SameStream, SameTypes, ServerFeedsStream, PTL DEF StreamPromise
<1>3. Init => ChannelInv
  <2>1. Init => known \in BOOLEAN
    BY DEF Init
  <2>2. Init => Len(channel) <= Capacity
    BY SessionAssumption DEF Init
  <2> QED BY <2>1, <2>2 DEF ChannelInv
<1>4. ServerInv /\ ChannelInv /\ Client!TypeOK => TypeOK
  <2> SUFFICES ASSUME ServerInv, ChannelInv, Client!TypeOK PROVE TypeOK
    OBVIOUS
  <2>1. IF loop = "game" THEN \E n \in 1..Len(Log[played]) : CopyOf(game, played, n)
        ELSE game = NoGameState
    BY DEF ServerInv, Copies
  <2>2. oldGame.events # << >> =>
          \E g \in 1..played : CopyOf(oldGame, g, Len(Log[g]))
    <3> SUFFICES ASSUME oldGame.events # << >>
                 PROVE  \E g \in 1..played : CopyOf(oldGame, g, Len(Log[g]))
      OBVIOUS
    <3>1. played \in Game /\ CopyOf(oldGame, played, Len(Log[played]))
      BY DEF ServerInv
    <3>2. played \in 1..played
      BY <3>1, SessionAssumption DEF Game
    <3> QED BY <3>1, <3>2
  <2> QED BY <2>1, <2>2 DEF ServerInv, ChannelInv, TypeOK
<1>5. SessionInv => ServerInv
  BY DEF SessionInv
<1> QED BY <1>2, <1>3, <1>4, <1>5, SessionInit, SessionNext, ChannelInvStep, PTL DEF Spec

\* Lines and what is looked up in them are the same, too.
LEMMA SameLines ==
  /\ \A g, n : Stream!Lines(g, n) = Client!Lines(g, n)
  /\ \A lines : Stream!SinceNewGame(lines) = Client!SinceNewGame(lines)
<1>1. \A g, n : Stream!Lines(g, n) = Client!Lines(g, n)
  BY DEF Stream!Lines, Client!Lines, Stream!LineOf, Client!LineOf,
         Stream!NewGameLine, Client!NewGameLine, Stream!PlayerLine,
         Client!PlayerLine, Stream!PixelLine, Client!PixelLine,
         Stream!EliminatedLine, Client!EliminatedLine
<1>2. \A lines : Stream!SinceNewGame(lines) = Client!SinceNewGame(lines)
  BY DEF Stream!SinceNewGame, Client!SinceNewGame, Stream!Max, Client!Max
<1> QED BY <1>1, <1>2

(***************************************************************************)
(* What a client gets from the server in a session is what EventStream     *)
(* promises of one: of the game it takes part in it has the beginning of   *)
(* the log, its GUI displays that after every batch, and no event of a     *)
(* roster it knows ends it.  (server.cpp:327-357, 396-402, 546-570;        *)
(* client.cpp:212-355, 457-496)                                            *)
(***************************************************************************)
THEOREM SessionIsShown ==
  ASSUME Rostered
  PROVE  Spec => [](/\ Client!EventsCounted /\ Client!InOrder
                    /\ Client!GuiInStep /\ Client!RosterAccepts)
<1>1. /\ Stream!Spec => []Stream!EventsCounted
      /\ Stream!Spec => []Stream!InOrder
      /\ Stream!Spec => []Stream!GuiInStep
  BY StreamAssumptions, Stream!LinesAreCounted, Stream!LinesAreInOrder, Stream!GuiKeepsUp
<1>2. Stream!Spec => []Stream!RosterAccepts
  BY StreamAssumptions, Stream!KnownPlayersAccepted
<1>3. Stream!EventsCounted <=> Client!EventsCounted
  BY DEF Stream!EventsCounted, Client!EventsCounted
<1>4. Stream!InOrder <=> Client!InOrder
  BY SameLines DEF Stream!InOrder, Client!InOrder
<1>5. Stream!GuiInStep <=> Client!GuiInStep
  BY SameLines DEF Stream!GuiInStep, Client!GuiInStep
<1>6. Stream!RosterAccepts <=> Client!RosterAccepts
  BY DEF Stream!RosterAccepts, Client!RosterAccepts
<1> QED BY <1>1, <1>2, <1>3, <1>4, <1>5, <1>6, SameStream, ServerFeedsStream,
           PTL DEF StreamPromise

(***************************************************************************)
(* A client of the server that takes a game for finished has displayed all *)
(* of it, if GAME_OVER was the last event of the game and its NEW_GAME was *)
(* not repeated.  (server.cpp:428-434, 546-570; client.cpp:330-335,        *)
(* 457-496)                                                                *)
(***************************************************************************)
THEOREM SessionIsComplete ==
  ASSUME Logged
  PROVE  Spec => []Client!CompleteUnrepeated
<1>1. Stream!Spec => []Stream!CompleteUnrepeated
  BY StreamAssumptions, StreamEnds, Stream!FinishedIsComplete
<1>2. Stream!CompleteUnrepeated <=> Client!CompleteUnrepeated
  BY SameLines DEF Stream!CompleteUnrepeated, Client!CompleteUnrepeated,
                   Stream!FinishedComplete, Client!FinishedComplete
<1> QED BY <1>1, <1>2, SameStream, ServerFeedsStream, PTL DEF StreamPromise

-----------------------------------------------------------------------------
(* The order of games                                                      *)

\* Each game has an identifier of its own, and none that of no game.
Identified ==
  \A g \in Game : /\ GameId[g] # Client!NoGame
                  /\ \A h \in Game : GameId[g] = GameId[h] => g = h

Reached(g) == g <= played

\* From the client over the channel to the server games do not get older.
OrderInv ==
  \A g \in Game :
    /\ Since(g) =>
         /\ Reached(g)
         /\ \A h \in Game, i \in 1..Len(channel) :
              channel[i].gameId = GameId[h] => g <= h
    /\ \A i \in 1..Len(channel) :
         channel[i].gameId = GameId[g] =>
           /\ Reached(g)
           /\ \A h \in Game, j \in 1..Len(channel) :
                i < j /\ channel[j].gameId = GameId[h] => g <= h

LEMMA GameNumbers == \A g \in Game : g \in Int
BY SessionAssumption DEF Game

LEMMA OrderInit == ASSUME Identified PROVE Init => OrderInv
<1> SUFFICES ASSUME Init PROVE OrderInv
  OBVIOUS
<1>1. gameId = Client!NoGame /\ 1..Len(channel) = {}
  BY DEF Init, Client!Init
<1> QED BY <1>1 DEF Identified, Since, OrderInv

LEMMA OrderServer ==
  ASSUME Identified, SessionInv, OrderInv, ServerStep
  PROVE  OrderInv'
<1>1. /\ Sends /\ UNCHANGED client
      /\ played \in Int /\ played' \in Int /\ played <= played'
  BY ServerSteps DEF SessionInv
<1>2. Extended /\ gameId' = gameId
  BY <1>1, ChannelStep DEF SessionInv, client
<1>3. \A g \in Game : Reached(g) => Reached(g)'
  BY <1>1, GameNumbers DEF Reached
\* A datagram of the channel was there, or is of the newest game.
<1>4. ASSUME NEW i \in 1..Len(channel'), NEW g \in Game,
             channel'[i].gameId = GameId[g]
      PROVE  \/ i \in 1..Len(channel) /\ channel[i].gameId = GameId[g]
             \/ i \notin 1..Len(channel) /\ g = played'
  BY <1>2, <1>4 DEF Extended, Identified
<1>5. ASSUME NEW g \in Game, Since(g)'
      PROVE  /\ Reached(g)'
             /\ \A h \in Game, i \in 1..Len(channel') :
                  channel'[i].gameId = GameId[h] => g <= h
  <2>1. Since(g) /\ Reached(g)
    BY <1>2, <1>5 DEF Since, OrderInv
  <2> QED BY <1>1, <1>3, <1>4, <2>1, GameNumbers DEF Reached, OrderInv
<1>6. ASSUME NEW g \in Game, NEW i \in 1..Len(channel'),
             channel'[i].gameId = GameId[g]
      PROVE  /\ Reached(g)'
             /\ \A h \in Game, j \in 1..Len(channel') :
                  i < j /\ channel'[j].gameId = GameId[h] => g <= h
  <2>1. Reached(g)'
    BY <1>1, <1>3, <1>4, <1>6, GameNumbers DEF Reached, OrderInv
  <2>2. ASSUME NEW h \in Game, NEW j \in 1..Len(channel'),
               i < j, channel'[j].gameId = GameId[h]
        PROVE  g <= h
    <3>1. CASE j \notin 1..Len(channel)
      BY <1>4, <2>1, <2>2, <3>1 DEF Reached
    <3>2. CASE j \in 1..Len(channel)
      <4>1. i \in 1..Len(channel)
        BY <1>2, <2>2, <3>2 DEF Extended
      <4>2. channel[i].gameId = GameId[g] /\ channel[j].gameId = GameId[h]
        BY <1>4, <1>6, <2>2, <3>2, <4>1
      <4> QED BY <2>2, <3>2, <4>1, <4>2 DEF OrderInv
    <3> QED BY <3>1, <3>2
  <2> QED BY <2>1, <2>2
<1> QED BY <1>5, <1>6 DEF OrderInv

LEMMA OrderClient ==
  ASSUME Identified, SessionInv, OrderInv, ClientTakes
  PROVE  /\ OrderInv'
         /\ \A g, h \in Game : Since(g) /\ Since(h)' => g <= h
<1>1. played' = played
  BY ClientSteps DEF server
<1>2. CASE UNCHANGED <<channel, gameId>>
  <2>1. OrderInv'
    BY <1>1, <1>2 DEF OrderInv, Since, Reached
  <2> QED BY <1>2, <2>1, GameNumbers DEF Since, Identified
<1>3. CASE /\ channel # << >> /\ channel' = Tail(channel)
           /\ gameId' = Head(channel).gameId
  <2>1. /\ Len(channel) \in Nat \ {0} /\ Len(channel') = Len(channel) - 1
        /\ \A i \in 1..Len(channel') :
             /\ i + 1 \in 1..Len(channel) /\ 1 < i + 1
             /\ channel'[i] = channel[i + 1]
        /\ Head(channel) = channel[1] /\ 1 \in 1..Len(channel)
    BY <1>3 DEF SessionInv
  <2>2. ASSUME NEW g \in Game, Since(g)'
        PROVE  channel[1].gameId = GameId[g]
    BY <1>3, <2>1, <2>2 DEF Since
  <2>3. ASSUME NEW g \in Game, NEW h \in Game, Since(g), Since(h)'
        PROVE  g <= h
    BY <2>1, <2>2, <2>3 DEF OrderInv
  <2>4. ASSUME NEW g \in Game, Since(g)'
        PROVE  /\ Reached(g)'
               /\ \A h \in Game, i \in 1..Len(channel') :
                    channel'[i].gameId = GameId[h] => g <= h
    <3>1. channel[1].gameId = GameId[g]
      BY <2>2, <2>4
    <3> QED BY <1>1, <2>1, <3>1 DEF OrderInv, Reached
  <2>5. ASSUME NEW g \in Game, NEW i \in 1..Len(channel'),
               channel'[i].gameId = GameId[g]
        PROVE  /\ Reached(g)'
               /\ \A h \in Game, j \in 1..Len(channel') :
                    i < j /\ channel'[j].gameId = GameId[h] => g <= h
    <3>1. i + 1 \in 1..Len(channel) /\ channel[i + 1].gameId = GameId[g]
      BY <2>1, <2>5
    <3>2. Reached(g)'
      BY <1>1, <3>1 DEF OrderInv, Reached
    <3>3. ASSUME NEW h \in Game, NEW j \in 1..Len(channel'),
                 i < j, channel'[j].gameId = GameId[h]
          PROVE  g <= h
      <4>1. /\ j + 1 \in 1..Len(channel) /\ i + 1 < j + 1
            /\ channel[j + 1].gameId = GameId[h]
        BY <2>1, <3>3
      <4> QED BY <3>1, <4>1 DEF OrderInv
    <3> QED BY <3>2, <3>3
  <2>6. OrderInv'
    BY <2>4, <2>5 DEF OrderInv
  <2> QED BY <2>3, <2>6
<1> QED BY <1>2, <1>3, ClientSteps

(***************************************************************************)
(* Where each game has an identifier of its own, a client whose socket     *)
(* keeps the order is never taken back to an earlier game, whenever the    *)
(* lobby answers it from the finished one.                                 *)
(***************************************************************************)
THEOREM GamesInOrder == ASSUME Identified PROVE Spec => NeverBack
<1>1. ASSUME SessionInv, OrderInv, [Next]_vars
      PROVE  /\ OrderInv'
             /\ [\A g, h \in Game : Since(g) /\ Since(h)' => g <= h]_vars
  <2>1. CASE ServerStep
    <3>1. gameId' = gameId
      BY <1>1, <2>1, ServerSteps DEF SessionInv, client
    <3>2. \A g, h \in Game : Since(g) /\ Since(h)' => g <= h
      BY <3>1, GameNumbers DEF Since, Identified
    <3>3. OrderInv'
      BY <1>1, <2>1, OrderServer
    <3> QED BY <3>2, <3>3
  <2>2. CASE ClientTakes
    BY <1>1, <2>2, OrderClient
  <2>3. CASE UNCHANGED vars
    <3>1. OrderInv'
      BY <1>1, <2>3 DEF vars, server, client, OrderInv, Since, Reached
    <3> QED BY <2>3, <3>1
  <2> QED BY <1>1, <2>1, <2>2, <2>3 DEF Next, ServerStep, ClientTakes
<1>2. ASSUME SessionInv, [Next]_vars PROVE SessionInv'
  BY <1>2, SessionNext
<1> QED BY <1>1, <1>2, SessionInit, OrderInit, PTL DEF Spec, NeverBack
=============================================================================
