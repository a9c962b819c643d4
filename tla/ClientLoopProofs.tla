-------------------------- MODULE ClientLoopProofs --------------------------
(***************************************************************************)
(* The turn a client sends, for any sequence of keys: what its player does *)
(* with a key that is up ends with the release of it, in the client or on  *)
(* the way.                                                                *)
(***************************************************************************)
EXTENDS ClientLoop, SequenceTheorems, TLAPS

LEMMA Pieces ==
  /\ \A p \in Piece : /\ p.part \in {"line", "head", "tail"} /\ p.key \in Key
                      /\ p.down \in BOOLEAN /\ p # Nothing
  /\ \A part \in {"line", "head", "tail"}, key \in Key, down \in BOOLEAN :
       [part |-> part, key |-> key, down |-> down] \in Piece
<1>1. ASSUME NEW p \in Piece
      PROVE  /\ p.part \in {"line", "head", "tail"} /\ p.key \in Key
             /\ p.down \in BOOLEAN /\ p # Nothing
  <2>1. p.part \in {"line", "head", "tail"} /\ p.key \in Key /\ p.down \in BOOLEAN
    BY DEF Piece
  <2>2. Nothing.part = "none"
    BY DEF Nothing
  <2> QED BY <2>1, <2>2
<1> QED BY <1>1 DEF Piece

Revents == [cyclic : SUBSET {"IN"}, server : SUBSET {"IN", "OUT"},
            gui : SUBSET {"IN", "OUT", "HUP"}]

LEMMA LoopInit == Init => TypeOK
<1>1. Quiet \in Revents
  BY DEF Quiet, Revents
<1>2. << >> \in Seq(Piece)
  OBVIOUS
<1>3. 0 \in 0..MaxInbox
  BY BoundAssumption
<1> QED BY <1>1, <1>2, <1>3 DEF Init, TypeOK, Straight, Revents

LEMMA LoopTypes == TypeOK /\ [Next]_vars => TypeOK'
<1> SUFFICES ASSUME TypeOK, [Next]_vars PROVE TypeOK'
  OBVIOUS
<1> USE DEF TypeOK
<1>1. CASE Tick \/ Connect \/ CloseGui \/ Datagram
  <2>1. CASE Tick
    BY <2>1 DEF Tick, client, sockets, player, Ended, LostGui
  <2>2. CASE Connect
    BY <2>2 DEF Connect, client, sockets, Ended, LostGui
  <2>3. CASE CloseGui
    BY <2>3 DEF CloseGui, client, sockets, Ended, LostGui
  <2>4. CASE Datagram
    <3>1. inbox' \in 0..MaxInbox
      BY <2>4, BoundAssumption DEF Datagram
    <3> QED BY <2>4, <3>1 DEF Datagram, client, player, Ended, LostGui
  <2> QED BY <1>1, <2>1, <2>2, <2>3, <2>4
<1>2. CASE Arrive
  <2>1. wire' \in Seq(Piece) /\ arrived' \in Seq(Piece)
    BY <1>2 DEF Arrive
  <2> QED BY <1>2, <2>1 DEF Arrive, client, Ended, LostGui
<1>3. ASSUME NEW key \in Key, NEW down \in BOOLEAN, UseKey(key, down)
      PROVE  TypeOK'
  <2> DEFINE piece(part) == [part |-> part, key |-> key, down |-> down]
  <2>1. piece("line") \in Piece /\ piece("head") \in Piece /\ piece("tail") \in Piece
    BY Pieces
  <2>2. \/ wire' = Append(wire, piece("line"))
        \/ wire' = wire \o <<piece("head"), piece("tail")>>
    BY <1>3 DEF UseKey
  <2> HIDE DEF piece
  <2>3. wire' \in Seq(Piece)
    <3>1. <<piece("head"), piece("tail")>> \in Seq(Piece)
      BY <2>1
    <3>2. wire \o <<piece("head"), piece("tail")>> \in Seq(Piece)
      BY <3>1, ConcatProperties, Zenon
    <3>3. Append(wire, piece("line")) \in Seq(Piece)
      BY <2>1
    <3> QED BY <2>2, <3>2, <3>3
  <2> QED BY <1>3, <2>3 DEF UseKey, client, sockets, Ended, LostGui
<1>4. CASE Poll
  <2>1. PICK stuck, reset \in BOOLEAN :
          revents' = [cyclic |-> IF ticked THEN {"IN"} ELSE {},
                      server |-> {"OUT"} \cup IF inbox > 0 THEN {"IN"} ELSE {},
                      gui    |-> GuiEvents(stuck, reset)]
    BY <1>4 DEF Poll
  <2>2. GuiEvents(stuck, reset) \subseteq {"IN", "OUT", "HUP"}
    BY DEF GuiEvents
  <2>3. revents' \in Revents
    BY <2>1, <2>2 DEF Revents
  <2> QED BY <1>4, <2>3 DEF Poll, sockets, player, Ended, LostGui, Revents
<1>5. CASE TryGetEvents
  <2>1. inbox' \in 0..MaxInbox
    BY <1>5, BoundAssumption DEF TryGetEvents
  <2>2. revents' \in Revents /\ turnDirection' \in Key \cup {Straight}
    BY <1>5 DEF TryGetEvents, Revents
  <2> QED BY <1>5, <2>1, <2>2 DEF TryGetEvents, player, Ended, LostGui, Revents
<1>6. CASE TryGetMove
  BY <1>6 DEF TryGetMove, sockets, player, Ended, LostGui
<1>7. CASE ReadPiece
  <2>1. Head(arrived) \in Piece /\ arrived' \in Seq(Piece)
    BY <1>7 DEF ReadPiece
  <2>2. turnDirection' \in Key \cup {Straight}
    BY <1>7, <2>1, Pieces DEF ReadPiece, Turn
  <2> QED BY <1>7, <2>1, <2>2 DEF ReadPiece, player, Ended, LostGui
<1>8. CASE EndRead
  <2>1. /\ revents' \in Revents /\ cut' \in BOOLEAN
        /\ msg' \in Piece \cup {Nothing}
        /\ pc' \in {"gui connection", "send"}
    BY <1>8 DEF EndRead, Revents
  <2> QED BY <1>8, <2>1 DEF EndRead, sockets, player, Ended, LostGui, Revents
<1>9. CASE TrySendMove
  <2>1. inbox' \in 0..MaxInbox
    <3>1. inbox' = inbox \/ (inbox # 0 /\ inbox' = inbox - 1)
      BY <1>9 DEF TrySendMove
    <3>2. inbox \in 0..MaxInbox
      OBVIOUS
    <3> QED BY <3>1, <3>2, BoundAssumption
  <2>2. /\ revents' \in Revents
        /\ pc' \in {"poll", "server socket fail", "timerfd broke"}
    BY <1>9 DEF TrySendMove, Revents
  <2> QED BY <1>9, <2>1, <2>2 DEF TrySendMove, player, Ended, LostGui, Revents
<1>10. CASE UNCHANGED vars
  BY <1>10 DEF vars, client, sockets, player, Ended, LostGui
<1> QED BY <1>1, <1>2, <1>3, <1>4, <1>5, <1>6, <1>7, <1>8, <1>9, <1>10
    DEF Next, Client, Environment

(***************************************************************************)
(* Every variable of the loop keeps its type, for any keys, datagrams and  *)
(* bounds.                                                                 *)
(***************************************************************************)
THEOREM LoopTyped == Spec => []TypeOK
BY LoopInit, LoopTypes, PTL DEF Spec

-----------------------------------------------------------------------------
(* What is on its way from the GUI                                         *)

Pending == arrived \o wire

Says(p, key, down) == p.part # "head" /\ p.key = key /\ p.down = down

\* The last word about the key is its release.
Released(key, s) ==
  \E j \in 1..Len(s) :
    Says(s[j], key, FALSE) /\ \A i \in 1..Len(s) : i > j => ~Says(s[i], key, TRUE)

\* Nothing turns the worm to the side of the key.
Calm(key, turn, s) ==
  turn # key /\ \A i \in 1..Len(s) : ~Says(s[i], key, TRUE)

Keys(down, turn, s) ==
  \A key \in Key \ down : Calm(key, turn, s) \/ Released(key, s)

\* A tail follows its head, or that has been read.
Tails(m, s) ==
  \A i \in 1..Len(s) :
    s[i].part = "tail" => IF i = 1 THEN m # Nothing ELSE s[i - 1].part = "head"

TurnInv ==
  ~cut => /\ pc # "read" => msg = Nothing
          /\ Tails(msg, Pending) /\ Keys(held, turnDirection, Pending)

LEMMA Joined ==
  ASSUME NEW a \in Seq(Piece), NEW b \in Seq(Piece), NEW c \in Seq(Piece)
  PROVE  (a \o b) \o c = a \o (b \o c)
BY SMT

LEMMA PendingType ==
  ASSUME TypeOK
  PROVE  /\ Pending \in Seq(Piece) /\ Len(Pending) \in Nat
         /\ \A i \in 1..Len(Pending) : Pending[i] \in Piece
<1>1. Pending \in Seq(Piece)
  BY ConcatProperties, Zenon DEF TypeOK, Pending
<1> QED BY <1>1

\* A key is used, and the line about it joins what is pending.
LEMMA MoreKeys ==
  ASSUME NEW turn, NEW s \in Seq(Piece), NEW t \in Seq(Piece), Keys(held, turn, s),
         NEW key \in Key, NEW down \in BOOLEAN,
         Len(s) < Len(t), \A i \in 1..Len(s) : t[i] = s[i],
         \A i \in (Len(s) + 1)..Len(t) : t[i].key = key /\ t[i].down = down,
         t[Len(t)].part # "head"
  PROVE  Keys(IF down THEN held \cup {key} ELSE held \ {key}, turn, t)
<1>1. Len(s) \in Nat /\ Len(t) \in Nat
  OBVIOUS
<1>2. ASSUME NEW k \in Key \ (IF down THEN held \cup {key} ELSE held \ {key})
      PROVE  Calm(k, turn, t) \/ Released(k, t)
  <2>1. CASE k = key
    <3>1. down = FALSE
      BY <1>2, <2>1
    <3>2. Len(t) \in 1..Len(t) /\ Len(t) \in (Len(s) + 1)..Len(t)
      BY <1>1
    <3>3. Says(t[Len(t)], k, FALSE)
      BY <2>1, <3>1, <3>2 DEF Says
    <3>4. \A i \in 1..Len(t) : ~(i > Len(t))
      BY <1>1
    <3> QED BY <3>2, <3>3, <3>4 DEF Released
  <2>2. CASE k # key
    <3>1. k \in Key \ held
      BY <1>2, <2>2
    <3>2. \A i \in 1..Len(t) : i \in 1..Len(s) \/ i \in (Len(s) + 1)..Len(t)
      BY <1>1
    <3>3. \A i \in 1..Len(t) : Says(t[i], k, TRUE) => i \in 1..Len(s) /\ Says(s[i], k, TRUE)
      BY <2>2, <3>2 DEF Says
    <3>4. CASE Calm(k, turn, s)
      BY <3>3, <3>4 DEF Calm
    <3>5. CASE Released(k, s)
      <4>1. PICK j \in 1..Len(s) :
              Says(s[j], k, FALSE) /\ \A i \in 1..Len(s) : i > j => ~Says(s[i], k, TRUE)
        BY <3>5 DEF Released
      <4>2. j \in 1..Len(t) /\ Says(t[j], k, FALSE)
        <5>1. j \in 1..Len(t)
          BY <1>1
        <5> QED BY <4>1, <5>1
      <4>3. \A i \in 1..Len(t) : i > j => ~Says(t[i], k, TRUE)
        BY <3>3, <4>1
      <4> QED BY <4>2, <4>3 DEF Released
    <3> QED BY <3>1, <3>4, <3>5 DEF Keys
  <2> QED BY <2>1, <2>2
<1> QED BY <1>2 DEF Keys

LEMMA TurnInit == Init => TurnInv
<1> SUFFICES ASSUME Init PROVE TurnInv
  OBVIOUS
<1>1. /\ Pending = << >> /\ Len(Pending) = 0 /\ msg = Nothing
      /\ turnDirection = Straight
  BY DEF Init, Pending
<1>2. Tails(msg, Pending)
  BY <1>1 DEF Tails
<1>3. Keys(held, turnDirection, Pending)
  BY <1>1 DEF Keys, Calm, Key, Straight
<1> QED BY <1>1, <1>2, <1>3 DEF TurnInv

\* A tail that joins does so behind its head.
LEMMA MoreTails ==
  ASSUME NEW m, NEW s \in Seq(Piece), NEW t \in Seq(Piece), Tails(m, s),
         Len(s) <= Len(t), \A i \in 1..Len(s) : t[i] = s[i],
         \A i \in (Len(s) + 1)..Len(t) :
           t[i].part = "tail" => i - 1 \in (Len(s) + 1)..Len(t) /\ t[i - 1].part = "head"
  PROVE  Tails(m, t)
<1>1. Len(s) \in Nat /\ Len(t) \in Nat
  OBVIOUS
<1>2. ASSUME NEW i \in 1..Len(t), t[i].part = "tail"
      PROVE  IF i = 1 THEN m # Nothing ELSE t[i - 1].part = "head"
  <2>1. CASE i \in 1..Len(s)
    <3>1. s[i].part = "tail"
      BY <1>2, <2>1
    <3>2. IF i = 1 THEN m # Nothing ELSE s[i - 1].part = "head"
      BY <2>1, <3>1 DEF Tails
    <3>3. i # 1 => i - 1 \in 1..Len(s)
      BY <2>1
    <3> QED BY <3>2, <3>3
  <2>2. CASE i \in (Len(s) + 1)..Len(t)
    <3>1. i - 1 \in (Len(s) + 1)..Len(t) /\ t[i - 1].part = "head"
      BY <1>2, <2>2
    <3> QED BY <1>1, <3>1
  <2> QED BY <1>1, <2>1, <2>2
<1> QED BY <1>2 DEF Tails

LEMMA UseKeyStep ==
  ASSUME TypeOK, TurnInv, NEW key \in Key, NEW down \in BOOLEAN, UseKey(key, down)
  PROVE  TurnInv'
<1> DEFINE piece(part) == [part |-> part, key |-> key, down |-> down]
<1>1. /\ piece("line") \in Piece /\ piece("head") \in Piece /\ piece("tail") \in Piece
  BY Pieces
<1>2. /\ UNCHANGED <<client, sockets>>
      /\ held' = IF down THEN held \cup {key} ELSE held \ {key}
      /\ \/ wire' = Append(wire, piece("line"))
         \/ wire' = wire \o <<piece("head"), piece("tail")>>
  BY DEF UseKey
<1> DEFINE more == IF wire' = Append(wire, piece("line")) THEN <<piece("line")>>
                   ELSE <<piece("head"), piece("tail")>>
<1>3. /\ more \in Seq(Piece) /\ Len(more) \in {1, 2}
      /\ more[Len(more)].part # "head"
      /\ \A i \in 1..Len(more) :
           /\ more[i].key = key /\ more[i].down = down
           /\ more[i].part = "tail" => i = 2 /\ more[1].part = "head"
  <2>1. CASE more = <<piece("line")>>
    BY <1>1, <2>1
  <2>2. CASE more = <<piece("head"), piece("tail")>>
    BY <1>1, <2>2
  <2> QED BY <2>1, <2>2
<1>4. wire' = wire \o more
  <2>1. Append(wire, piece("line")) = wire \o <<piece("line")>>
    BY <1>1 DEF TypeOK
  <2> QED BY <1>2, <2>1
<1> HIDE DEF piece, more
<1>5. Pending' = Pending \o more
  <2>1. arrived \in Seq(Piece) /\ wire \in Seq(Piece) /\ arrived' = arrived
    BY <1>2 DEF TypeOK, sockets
  <2>2. arrived \o (wire \o more) = (arrived \o wire) \o more
    BY <1>3, <2>1, Joined
  <2> QED BY <1>4, <2>1, <2>2 DEF Pending
<1>6. Pending \in Seq(Piece) /\ Len(Pending) \in Nat
  BY PendingType
<1>7. /\ Pending' \in Seq(Piece) /\ Len(Pending') = Len(Pending) + Len(more)
      /\ \A i \in 1..(Len(Pending) + Len(more)) :
           Pending'[i] = IF i <= Len(Pending) THEN Pending[i] ELSE more[i - Len(Pending)]
  BY <1>3, <1>5, <1>6, ConcatProperties, Zenon
<1>8. /\ Len(Pending) < Len(Pending')
      /\ \A i \in 1..Len(Pending) : Pending'[i] = Pending[i]
      /\ \A i \in (Len(Pending) + 1)..Len(Pending') :
           i - Len(Pending) \in 1..Len(more) /\ Pending'[i] = more[i - Len(Pending)]
      /\ Len(Pending') \in (Len(Pending) + 1)..Len(Pending')
      /\ Len(Pending') - Len(Pending) = Len(more)
  <2> DEFINE n == Len(Pending)
             k == Len(more)
  <2>1. n \in Nat /\ k \in {1, 2} /\ Len(Pending') = n + k
    BY <1>3, <1>6, <1>7
  <2>2. \A i \in 1..(n + k) :
          Pending'[i] = IF i <= n THEN Pending[i] ELSE more[i - n]
    BY <1>7
  <2> HIDE DEF n, k
  <2>3. \A i \in 1..n : i \in 1..(n + k) /\ i <= n
    BY <2>1
  <2>4. \A i \in (n + 1)..(n + k) : i \in 1..(n + k) /\ ~(i <= n) /\ i - n \in 1..k
    BY <2>1
  <2>5. n < n + k /\ n + k \in (n + 1)..(n + k) /\ (n + k) - n = k
    BY <2>1
  <2> QED BY <2>1, <2>2, <2>3, <2>4, <2>5 DEF n, k
<1>9. ASSUME ~cut
      PROVE  Keys(held', turnDirection, Pending')
  <2>1. Keys(held, turnDirection, Pending)
    BY <1>9 DEF TurnInv
  <2>2. /\ \A i \in (Len(Pending) + 1)..Len(Pending') :
            Pending'[i].key = key /\ Pending'[i].down = down
        /\ Pending'[Len(Pending')].part # "head"
    BY <1>3, <1>8
  <2> QED BY <1>2, <1>6, <1>7, <1>8, <2>1, <2>2, MoreKeys
<1>10. ASSUME ~cut
       PROVE  Tails(msg, Pending')
  <2>1. Tails(msg, Pending)
    BY <1>10 DEF TurnInv
  <2>2. ASSUME NEW i \in (Len(Pending) + 1)..Len(Pending'), Pending'[i].part = "tail"
        PROVE  /\ i - 1 \in (Len(Pending) + 1)..Len(Pending')
               /\ Pending'[i - 1].part = "head"
    <3>1. i - Len(Pending) = 2 /\ more[1].part = "head"
      BY <1>3, <1>8, <2>2
    <3>2. i - 1 \in (Len(Pending) + 1)..Len(Pending') /\ (i - 1) - Len(Pending) = 1
      BY <1>6, <1>8, <3>1
    <3> QED BY <1>8, <3>1, <3>2
  <2>3. Len(Pending) <= Len(Pending')
    BY <1>6, <1>7, <1>8
  <2> QED BY <1>6, <1>7, <1>8, <2>1, <2>2, <2>3, MoreTails
<1>11. UNCHANGED <<pc, msg, turnDirection, cut>>
  BY <1>2 DEF client
<1> QED BY <1>9, <1>10, <1>11 DEF TurnInv

\* The client reads the first piece.
LEMMA ReadPieceStep ==
  ASSUME TypeOK, TurnInv, ReadPiece
  PROVE  TurnInv'
<1> DEFINE p == Head(arrived)
<1>1. /\ pc = "read" /\ arrived # << >> /\ arrived' = Tail(arrived)
      /\ UNCHANGED <<pc, cut, wire, held>>
      /\ turnDirection' = IF p.part = "line" \/ (p.part = "tail" /\ msg # Nothing)
                          THEN Turn(p) ELSE turnDirection
      /\ msg' = IF p.part = "head" THEN p ELSE Nothing
  BY DEF ReadPiece, player
<1>2. p \in Piece /\ arrived = <<p>> \o Tail(arrived) /\ Tail(arrived) \in Seq(Piece)
  BY <1>1 DEF TypeOK
<1>3. Pending = <<p>> \o Pending'
  <2>1. <<p>> \in Seq(Piece) /\ wire \in Seq(Piece)
    BY <1>2 DEF TypeOK
  <2>2. (<<p>> \o Tail(arrived)) \o wire = <<p>> \o (Tail(arrived) \o wire)
    BY <1>2, <2>1, Joined
  <2> QED BY <1>1, <1>2, <2>2 DEF Pending
<1>4. Pending' \in Seq(Piece)
  BY <1>1, <1>2, ConcatProperties, Zenon DEF Pending, TypeOK
<1> DEFINE s == Pending
           t == Pending'
<1>5. /\ Len(t) \in Nat /\ Len(s) = Len(t) + 1 /\ s[1] = p
      /\ \A i \in 1..Len(t) : i + 1 \in 1..Len(s) /\ t[i] = s[i + 1]
      /\ 1 \in 1..Len(s)
      /\ \A i \in 1..Len(s) : i = 1 \/ (i - 1 \in 1..Len(t) /\ s[i] = t[i - 1])
  BY <1>2, <1>3, <1>4
<1>6. p.part \in {"line", "head", "tail"} /\ p.key \in Key /\ p.down \in BOOLEAN
  BY <1>2, Pieces
<1> HIDE DEF p, s, t
<1>7. SUFFICES ASSUME ~cut
               PROVE  Tails(msg', t) /\ Keys(held, turnDirection', t)
  BY <1>1 DEF TurnInv, t
<1>8. Tails(msg, s) /\ Keys(held, turnDirection, s)
  BY <1>7 DEF TurnInv, s
<1>9. Tails(msg', t)
  <2>1. ASSUME NEW i \in 1..Len(t), t[i].part = "tail"
        PROVE  IF i = 1 THEN msg' # Nothing ELSE t[i - 1].part = "head"
    <3>1. s[i + 1].part = "tail" /\ i + 1 \in 1..Len(s) /\ i + 1 # 1 /\ (i + 1) - 1 = i
      BY <1>5, <2>1
    <3>2. s[i].part = "head"
      BY <1>8, <3>1 DEF Tails
    <3>3. CASE i = 1
      <4>1. p.part = "head"
        BY <1>5, <3>2, <3>3
      <4> QED BY <1>1, <1>2, <3>3, <4>1, Pieces DEF p
    <3>4. CASE i # 1
      <4>1. i \in 1..Len(s) /\ i - 1 \in 1..Len(t) /\ s[i] = t[i - 1]
        BY <1>5, <2>1, <3>4
      <4> QED BY <3>2, <3>4, <4>1
    <3> QED BY <3>3, <3>4
  <2> QED BY <2>1 DEF Tails
<1>10. turnDirection' = IF p.part # "head" THEN Turn(p) ELSE turnDirection
  <2>1. p.part = "tail" => msg # Nothing
    BY <1>5, <1>8 DEF Tails
  <2> QED BY <1>1, <1>6, <2>1 DEF p
<1>11. ASSUME NEW key \in Key \ held
       PROVE  Calm(key, turnDirection', t) \/ Released(key, t)
  <2>1. Straight # key
    BY DEF Straight, Key
  <2>2. CASE Calm(key, turnDirection, s)
    <3>1. ~Says(p, key, TRUE) /\ turnDirection # key
      BY <1>5, <2>2 DEF Calm
    <3>2. turnDirection' # key
      BY <1>6, <1>10, <2>1, <3>1 DEF Turn, Says
    <3>3. \A i \in 1..Len(t) : ~Says(t[i], key, TRUE)
      BY <1>5, <2>2 DEF Calm
    <3> QED BY <3>2, <3>3 DEF Calm
  <2>3. CASE Released(key, s)
    <3>1. PICK j \in 1..Len(s) :
            Says(s[j], key, FALSE) /\ \A i \in 1..Len(s) : i > j => ~Says(s[i], key, TRUE)
      BY <2>3 DEF Released
    <3>2. \A i \in 1..Len(t) : i + 1 > j => ~Says(t[i], key, TRUE)
      BY <1>5, <3>1
    <3>3. CASE j = 1
      <4>1. Says(p, key, FALSE)
        BY <1>5, <3>1, <3>3
      <4>2. turnDirection' # key
        BY <1>10, <2>1, <4>1 DEF Turn, Says
      <4>3. \A i \in 1..Len(t) : i + 1 > j
        BY <1>5, <3>3
      <4>4. \A i \in 1..Len(t) : ~Says(t[i], key, TRUE)
        BY <3>2, <4>3
      <4> QED BY <4>2, <4>4 DEF Calm
    <3>4. CASE j # 1
      <4>1. j - 1 \in 1..Len(t) /\ s[j] = t[j - 1]
        BY <1>5, <3>1, <3>4
      <4>2. \A i \in 1..Len(t) : i > j - 1 => i + 1 > j
        BY <1>5, <3>1
      <4> QED BY <3>1, <3>2, <4>1, <4>2 DEF Released
    <3> QED BY <3>3, <3>4
  <2> QED BY <1>8, <2>2, <2>3 DEF Keys
<1> QED BY <1>9, <1>11 DEF Keys

\* Other steps of the loop and the world leave what is pending.
LEMMA OtherLoopStep ==
  ASSUME TypeOK, TurnInv,
         \/ Tick \/ Datagram \/ Connect \/ CloseGui \/ Arrive
         \/ Poll \/ TryGetEvents \/ TryGetMove \/ EndRead \/ TrySendMove
         \/ UNCHANGED vars
  PROVE  TurnInv'
<1>1. Pending' = Pending /\ UNCHANGED held
  <2>1. CASE Arrive
    <3>1. /\ wire # << >> /\ arrived' = Append(arrived, Head(wire)) /\ wire' = Tail(wire)
          /\ UNCHANGED held
      BY <2>1 DEF Arrive
    <3> DEFINE p == Head(wire)
               r == Tail(wire)
    <3>2. p \in Piece /\ r \in Seq(Piece) /\ wire = <<p>> \o r
          /\ Append(arrived, p) = arrived \o <<p>> /\ <<p>> \in Seq(Piece)
      BY <3>1 DEF TypeOK
    <3> HIDE DEF p, r
    <3>3. (arrived \o <<p>>) \o r = arrived \o (<<p>> \o r)
      BY <3>2, Joined DEF TypeOK
    <3> QED BY <3>1, <3>2, <3>3 DEF Pending, p, r
  <2>2. CASE \/ Tick \/ Datagram \/ Connect \/ CloseGui
             \/ Poll \/ TryGetEvents \/ TryGetMove \/ EndRead \/ TrySendMove
             \/ UNCHANGED vars
    BY <2>2 DEF Tick, Datagram, Connect, CloseGui, Poll, TryGetEvents, TryGetMove,
       EndRead, TrySendMove, vars, client, sockets, player, Pending
  <2> QED BY <2>1, <2>2
<1>2. turnDirection' \in {turnDirection, Straight} /\ (~cut' => ~cut)
  <2>1. CASE TryGetEvents
    BY <2>1 DEF TryGetEvents
  <2>2. CASE EndRead
    BY <2>2 DEF EndRead
  <2>3. CASE Tick \/ Datagram \/ Connect \/ CloseGui \/ Arrive \/ UNCHANGED vars
    <3>1. UNCHANGED client
      BY <2>3 DEF Tick, Datagram, Connect, CloseGui, Arrive, vars
    <3> QED BY <3>1 DEF client
  <2>4. CASE Poll \/ TryGetMove \/ TrySendMove
    <3>1. UNCHANGED <<turnDirection, cut>>
      BY <2>4 DEF Poll, TryGetMove, TrySendMove
    <3> QED BY <3>1
  <2> QED BY <2>1, <2>2, <2>3, <2>4
<1>3. ~cut' => msg' = msg /\ (pc' # "read" => msg = Nothing)
  BY DEF Tick, Datagram, Connect, CloseGui, Arrive, Poll, TryGetEvents, TryGetMove,
     EndRead, TrySendMove, vars, client, TurnInv
<1>4. Keys(held, turnDirection, Pending) => Keys(held, turnDirection', Pending)
  <2>1. \A key \in Key : Straight # key
    BY DEF Straight, Key
  <2>2. ASSUME NEW key \in Key \ held, Calm(key, turnDirection, Pending)
        PROVE  Calm(key, turnDirection', Pending)
    BY <1>2, <2>1, <2>2 DEF Calm
  <2> QED BY <2>2 DEF Keys
<1> QED BY <1>1, <1>2, <1>3, <1>4 DEF TurnInv

(***************************************************************************)
(* Once the client has read all the GUI wrote, the worm turns only to the  *)
(* side of a key that is held, for any sequence of keys, resets and        *)
(* segments, unless a line was read in two calls. (client.cpp:387-428)     *)
(***************************************************************************)
THEOREM TurnSafety == Spec => []TurnIsHeld
<1>1. ASSUME TypeOK, TurnInv, [Next]_vars PROVE TurnInv'
  <2>1. CASE \E key \in Key, down \in BOOLEAN : UseKey(key, down)
    BY <1>1, <2>1, UseKeyStep
  <2>2. CASE ReadPiece
    BY <1>1, <2>2, ReadPieceStep
  <2>3. CASE \/ Tick \/ Datagram \/ Connect \/ CloseGui \/ Arrive
             \/ Poll \/ TryGetEvents \/ TryGetMove \/ EndRead \/ TrySendMove
             \/ UNCHANGED vars
    BY <1>1, <2>3, OtherLoopStep
  <2> QED BY <1>1, <2>1, <2>2, <2>3 DEF Next, Client, Environment
<1>2. TypeOK /\ TurnInv => TurnIsHeld
  <2> SUFFICES ASSUME TypeOK, TurnInv, wire = << >>, arrived = << >>, ~cut,
                      turnDirection # Straight
               PROVE  turnDirection \in held
    BY DEF TurnIsHeld
  <2>1. Pending = << >> /\ Len(Pending) = 0
    BY DEF Pending
  <2>2. turnDirection \in Key
    BY DEF TypeOK
  <2>3. ~Calm(turnDirection, turnDirection, Pending) /\ ~Released(turnDirection, Pending)
    BY <2>1 DEF Calm, Released
  <2> QED BY <2>2, <2>3 DEF TurnInv, Keys
<1> QED BY <1>1, <1>2, LoopInit, LoopTypes, TurnInit, PTL DEF Spec
=============================================================================
