-------------------------- MODULE DatagramsProofs --------------------------
(***************************************************************************)
(* What sendEvents does for every log, number of worms and size of names:  *)
(* the datagrams of a call hold the events asked for, each once and in     *)
(* order; and one that is too long is so in few cases, and by little.      *)
(***************************************************************************)
EXTENDS Datagrams, TLAPS

USE DEF Header, Limit

\* What one iteration handles.
EventSize(type, size) == type \in NextTypes /\ size \in Sizes[type]

LEMMA SizeOfEvent ==
  ASSUME NEW type, NEW size, from \in Nat, worms \in Worms,
         EventSize(type, size)
  PROVE  /\ type \in {"NEW_GAME", "PIXEL", "PLAYER_ELIMINATED", "GAME_OVER"}
         /\ size \in Nat
         /\ type = "NEW_GAME" =>
              from = 0 /\ size \in (21 + 2 * worms)..(21 + 21 * worms)
         /\ type = "PIXEL" => Moves /\ size = 22
         /\ type = "PLAYER_ELIMINATED" => from > 1 /\ Moves /\ size = 14
         /\ type = "GAME_OVER" => alive = 1 /\ ~over /\ size = 13
<1>1. type \in {"NEW_GAME", "PIXEL", "PLAYER_ELIMINATED", "GAME_OVER"}
  BY DEF EventSize, NextTypes
<1>2. CASE type = "NEW_GAME"
  <2>1. PICK n \in NameBytes[worms] : size = 8 + 5 + 8 + n
    BY <1>2 DEF EventSize, Sizes
  <2>2. from = 0
    BY <1>2 DEF EventSize, NextTypes
  <2>3. worms \in 2..25 /\ n \in (2 * worms)..(21 * worms)
    BY NameBytesAssumption, WormsAssumption
  <2> QED BY <1>2, <2>1, <2>2, <2>3
<1>3. CASE type = "PIXEL"
  BY <1>3 DEF EventSize, Sizes, NextTypes
<1>4. CASE type = "PLAYER_ELIMINATED"
  BY <1>4 DEF EventSize, Sizes, NextTypes
<1>5. CASE type = "GAME_OVER"
  BY <1>5 DEF EventSize, Sizes, NextTypes
<1> QED BY <1>1, <1>2, <1>3, <1>4, <1>5

-----------------------------------------------------------------------------
(* Types *)

LEMMA SurvivorsType ==
  ASSUME NEW type, NEW size, TypeOK, EventSize(type, size)
  PROVE  Survivors(type) \in 0..MaxAlive
<1>1. alive \in 0..MaxAlive /\ MaxAlive \in Nat
  BY MaxAliveAssumption DEF TypeOK
<1>2. type = "PLAYER_ELIMINATED" => alive >= 1
  BY <1>1, SizeOfEvent DEF TypeOK, Moves
<1> QED BY <1>1, <1>2 DEF Survivors

LEMMA TypeInductive == TypeOK /\ [Next]_vars => TypeOK'
<1> SUFFICES ASSUME TypeOK, [Next]_vars PROVE TypeOK'
  OBVIOUS
<1>1. CASE Call
  BY <1>1, MaxEventsAssumption DEF Call, TypeOK
<1>2. CASE Join
  BY <1>2, MaxAliveAssumption DEF Join, TypeOK
<1>3. ASSUME NEW type \in NextTypes, NEW size \in Sizes[type],
             NEW ends \in BOOLEAN,
             \/ Fill(type, size)
             \/ Transmit(type, size, ends)
             \/ GiveUp(type, size, ends)
             \/ Abort(type, size, ends)
      PROVE  TypeOK'
  <2>1. EventSize(type, size)
    BY DEF EventSize
  <2>2. size \in Nat /\ type \in {"NEW_GAME", "PIXEL", "PLAYER_ELIMINATED", "GAME_OVER"}
    BY <2>1, SizeOfEvent DEF TypeOK
  <2>3. /\ alive' \in 0..MaxAlive /\ worms' = worms
        /\ from' \in Nat /\ start' \in Nat /\ joined' = joined
    BY <1>3, <2>1, SurvivorsType DEF Fill, Transmit, GiveUp, Abort, Iterate, TypeOK
  <2>4. over' \in BOOLEAN
    BY <1>3, Zenon DEF Fill, Transmit, GiveUp, Abort, Iterate
  <2>5. CASE Fill(type, size)
    <3>1. packed' \in Seq(Nat) /\ sent' \in Seq(Nat)
      BY <2>5 DEF Fill, TypeOK
    <3>2. /\ dgram' = dgram + size /\ dgram + size + size <= Limit
          /\ pc' = pc /\ before' = type
      BY <2>2, <2>5 DEF Fill, Full, TypeOK
    <3> QED BY <2>2, <2>3, <2>4, <3>1, <3>2 DEF TypeOK
  <2>6. CASE Transmit(type, size, ends)
    BY <2>2, <2>3, <2>4, <2>6 DEF Transmit, Rest, Iterate, TypeOK
  <2>7. CASE GiveUp(type, size, ends)
    BY <2>3, <2>4, <2>7 DEF GiveUp, Iterate, TypeOK
  <2>8. CASE Abort(type, size, ends)
    BY <2>2, <2>3, <2>4, <2>8 DEF Abort, TypeOK
  <2> QED BY <1>3, <2>5, <2>6, <2>7, <2>8
<1>4. CASE UNCHANGED vars
  BY <1>4 DEF TypeOK, vars, log
<1> QED BY <1>1, <1>2, <1>3, <1>4 DEF Next

(***************************************************************************)
(* Every variable of a call of sendEvents keeps its type; in particular    *)
(* the datagram never exceeds the limit unless the assertion stops the     *)
(* server. (server.cpp:326-357)                                            *)
(***************************************************************************)
THEOREM CallTypes == Spec => []TypeOK
<1>1. ASSUME Init PROVE TypeOK
  <2>1. worms \in Worms /\ worms \in Nat /\ worms <= MaxAlive
    BY <1>1, WormsAssumption, MaxAliveAssumption DEF Init
  <2>2. alive \in 0..MaxAlive
    BY <1>1, <2>1, MaxAliveAssumption DEF Init
  <2>3. joined \in BOOLEAN /\ over \in BOOLEAN
    BY <1>1, Zenon DEF Init
  <2> QED BY <1>1, <2>1, <2>2, <2>3 DEF Init, TypeOK
<1> QED BY <1>1, TypeInductive, PTL DEF Spec

-----------------------------------------------------------------------------
(* Every event once *)

\* EachEventOnce, with the numbers of the events it is about.
Numbered(numbers) == \A i \in DOMAIN numbers : numbers[i] = start + i - 1

\* Before a call returns all that it handled is in one of the two sequences,
\* and what was given to sendto is a beginning of it.
OnceInv ==
  /\ Numbered(sent \o packed)
  /\ pc = "call" => sent = << >> /\ packed = << >>
  /\ pc = "loop" => from = start + Len(sent) + Len(packed)
  /\ pc = "return" => from = start + Len(sent) /\ packed = << >>

LEMMA NextNumber ==
  ASSUME NEW numbers \in Seq(Nat), start \in Nat, Numbered(numbers)
  PROVE  Numbered(Append(numbers, start + Len(numbers)))
<1> DEFINE longer == Append(numbers, start + Len(numbers))
<1>1. \A i \in 1..Len(numbers) : longer[i] = numbers[i]
  OBVIOUS
<1>2. longer[Len(numbers) + 1] = start + Len(numbers)
  OBVIOUS
<1>3. DOMAIN longer = 1..(Len(numbers) + 1) /\ DOMAIN numbers = 1..Len(numbers)
  OBVIOUS
<1> HIDE DEF longer
<1>4. ASSUME NEW i \in 1..(Len(numbers) + 1)
      PROVE  longer[i] = start + i - 1
  <2>1. Len(numbers) \in Nat
    OBVIOUS
  <2>2. CASE i \in 1..Len(numbers)
    BY <1>1, <1>3, <2>2 DEF Numbered
  <2>3. CASE i = Len(numbers) + 1
    BY <1>2, <2>1, <2>3
  <2> QED BY <2>1, <2>2, <2>3
<1> QED BY <1>3, <1>4 DEF Numbered, longer

\* What an iteration does to the numbers handled.
LEMMA IterateNumber ==
  ASSUME NEW type, NEW ends, TypeOK, OnceInv, Iterate(type, ends)
  PROVE  /\ sent \o Append(packed, from) = Append(sent \o packed, from)
         /\ Numbered(sent \o Append(packed, from))
         /\ from' = start' + Len(sent) + Len(packed) + 1
         /\ start' = start
<1>1. sent \o Append(packed, from) = Append(sent \o packed, from)
  <2>1. sent \in Seq(Nat) /\ packed \in Seq(Nat) /\ from \in Nat
    BY DEF TypeOK
  <2> QED BY <2>1, SMTT(30)
<1>2. from = start + Len(sent \o packed) /\ sent \o packed \in Seq(Nat)
  <2>1. from = start + (Len(sent) + Len(packed))
    <3>1. from = start + Len(sent) + Len(packed)
      BY DEF OnceInv, Iterate
    <3> QED BY <3>1 DEF TypeOK
  <2>2. Len(sent \o packed) = Len(sent) + Len(packed) /\ sent \o packed \in Seq(Nat)
    BY DEF TypeOK
  <2> QED BY <2>1, <2>2
<1>3. Numbered(Append(sent \o packed, from))
  BY <1>2, NextNumber DEF TypeOK, OnceInv
<1> QED BY <1>1, <1>3 DEF TypeOK, OnceInv, Iterate

LEMMA OnceInductive == TypeOK /\ OnceInv /\ [Next]_vars => OnceInv'
<1> SUFFICES ASSUME TypeOK, OnceInv, [Next]_vars PROVE OnceInv'
  OBVIOUS
<1> USE DEF TypeOK
<1>1. CASE Call
  BY <1>1, MaxEventsAssumption DEF Call, OnceInv, Numbered
<1>2. ASSUME NEW type \in NextTypes, NEW size \in Sizes[type],
             Fill(type, size)
      PROVE  OnceInv'
  <2>1. Numbered(sent \o packed)'
    BY <1>2, IterateNumber DEF Fill, Iterate, Numbered
  <2>2. Len(packed') = Len(packed) + 1
    BY <1>2 DEF Fill
  <2> QED BY <1>2, <2>1, <2>2, IterateNumber DEF Fill, Iterate, OnceInv
<1>3. ASSUME NEW type \in NextTypes, NEW size \in Sizes[type],
             NEW ends \in BOOLEAN, Transmit(type, size, ends)
      PROVE  OnceInv'
  <2>1. sent' = sent \o Append(packed, from) /\ packed' = << >>
    BY <1>3 DEF Transmit, Rest
  <2>2. sent' \o packed' = sent'
    BY <2>1
  <2>3. Numbered(sent \o packed)'
    BY <1>3, <2>1, <2>2, IterateNumber DEF Transmit, Iterate, Numbered
  <2>4. Len(sent') = Len(sent) + Len(packed) + 1
    BY <2>1
  <2> QED BY <1>3, <2>1, <2>3, <2>4, IterateNumber DEF Transmit, Iterate, OnceInv
<1>4. ASSUME NEW type \in NextTypes, NEW size \in Sizes[type],
             NEW ends \in BOOLEAN,
             GiveUp(type, size, ends) \/ Abort(type, size, ends)
      PROVE  OnceInv'
  <2>1. pc' \in {"failed", "abort"} /\ UNCHANGED <<sent, packed, start>>
    BY <1>4 DEF GiveUp, Abort, Iterate
  <2>2. Numbered(sent \o packed)'
    BY <2>1 DEF OnceInv, Numbered
  <2> QED BY <2>1, <2>2 DEF OnceInv
<1>5. CASE Join
  BY <1>5 DEF Join, OnceInv, Numbered
<1>6. CASE UNCHANGED vars
  BY <1>6 DEF vars, OnceInv, Numbered
<1> QED BY <1>1, <1>2, <1>3, <1>4, <1>5, <1>6 DEF Next

(***************************************************************************)
(* The datagrams of a call of sendEvents hold the events asked for, each   *)
(* once and in order, for every log, number of worms and size of names;    *)
(* when sendto fails, the ones before the failure. (server.cpp:326-357)    *)
(***************************************************************************)
THEOREM CallSendsEachOnce == Spec => []EachEventOnce
<1>1. Init => OnceInv
  BY DEF Init, OnceInv, Numbered
<1>2. TypeOK /\ OnceInv => EachEventOnce
  BY DEF TypeOK, OnceInv, EachEventOnce, Numbered
<1> QED BY <1>1, <1>2, CallTypes, OnceInductive, PTL DEF Spec

-----------------------------------------------------------------------------
(* Events that are too much *)

\* Full leaves room for another event of the size just appended.  A pixel is
\* longer than an elimination, and that is longer than GAME_OVER.
Room == [none               |-> Limit - Header,
         NEW_GAME           |-> 25,
         PIXEL              |-> 22,
         PLAYER_ELIMINATED  |-> 14,
         GAME_OVER          |-> 13]

\* The elimination of one of two worms is followed by GAME_OVER, unless it was
\* when they were placed, and then the datagram is far from full.
TwoWormsInv ==
  worms = 2 /\ ~joined /\ ~over /\ pc = "loop" =>
    /\ alive <= 2
    /\ from <= 3 => dgram <= Header + 63 * from
    /\ before = "PLAYER_ELIMINATED" /\ alive > 1 => from <= 3

RoomInv ==
  /\ pc = "call" => before = "none"
  /\ pc = "loop" => /\ dgram <= Limit - Room[before]
                    /\ from = 0 => before = "none"
                    /\ before = "GAME_OVER" => over
  /\ TwoWormsInv
  /\ OversizeCases

\* What an iteration finds, in numbers.
Sized(type, size) ==
  /\ type \in {"NEW_GAME", "PIXEL", "PLAYER_ELIMINATED", "GAME_OVER"}
  /\ type = "NEW_GAME" => from = 0 /\ size \in 25..546
  /\ type = "NEW_GAME" /\ worms = 2 => size <= 63
  /\ type = "PIXEL" => size = 22
  /\ type = "PLAYER_ELIMINATED" => from > 1 /\ size = 14
  /\ type = "GAME_OVER" => ~over /\ size = 13
  /\ worms = 2 /\ ~joined /\ ~over /\ type # "NEW_GAME" =>
       IF type = "GAME_OVER" THEN alive = 1 ELSE alive = 2
  /\ size \in Nat /\ from \in Nat /\ dgram \in Nat
  /\ worms \in 2..25 /\ alive \in Nat

LEMMA IterateSizes ==
  ASSUME TypeOK, RoomInv, NEW type \in NextTypes, NEW size \in Sizes[type],
         NEW ends, Iterate(type, ends)
  PROVE  Sized(type, size)
<1>1. worms \in 2..25 /\ from \in Nat /\ dgram \in Nat /\ alive \in Nat
  BY WormsAssumption, MaxAliveAssumption DEF TypeOK
<1>2. worms = 2 /\ ~joined /\ ~over => alive <= 2
  BY DEF RoomInv, TwoWormsInv, Iterate
<1>3. worms \in Worms
  BY DEF TypeOK
<1>4. EventSize(type, size)
  BY DEF EventSize
<1> DEFINE Facts ==
      /\ type \in {"NEW_GAME", "PIXEL", "PLAYER_ELIMINATED", "GAME_OVER"}
      /\ size \in Nat
      /\ type = "NEW_GAME" =>
           from = 0 /\ size \in (21 + 2 * worms)..(21 + 21 * worms)
      /\ type = "PIXEL" => Moves /\ size = 22
      /\ type = "PLAYER_ELIMINATED" => from > 1 /\ Moves /\ size = 14
      /\ type = "GAME_OVER" => alive = 1 /\ ~over /\ size = 13
<1>5. Facts
  BY <1>1, <1>3, <1>4, SizeOfEvent
<1> QED BY <1>1, <1>2, <1>5 DEF Sized, Moves

LEMMA RoomInductive == TypeOK /\ RoomInv /\ [Next]_vars => RoomInv'
<1> SUFFICES ASSUME TypeOK, RoomInv, [Next]_vars PROVE RoomInv'
  OBVIOUS
<1>1. CASE Call
  <2>1. /\ before' = before /\ before = "none" /\ dgram' = Header
        /\ pc' \in {"loop", "return"} /\ worms' = worms
        /\ ~joined' => alive' <= worms
        /\ from' \in Nat
    BY <1>1, MaxEventsAssumption DEF Call, Reachable, RoomInv
  <2>2. dgram' <= Limit - Room["none"]
    BY <2>1 DEF Room
  <2>3. TwoWormsInv'
    <3>1. Header <= Header + 63 * from'
      <4>1. \A n \in Nat : Header <= Header + 63 * n
        OBVIOUS
      <4>2. from' \in Nat
        BY <2>1
      <4> QED BY <4>1, <4>2
    <3>2. worms' = 2 /\ ~joined' => alive' <= 2
      BY <2>1
    <3> QED BY <2>1, <3>1, <3>2 DEF TwoWormsInv
  <2> QED BY <2>1, <2>2, <2>3 DEF RoomInv, OversizeCases
<1>2. CASE Join
  BY <1>2 DEF Join, RoomInv, TwoWormsInv, OversizeCases, Room
<1>3. ASSUME NEW type \in NextTypes, NEW size \in Sizes[type], Fill(type, size)
      PROVE  RoomInv'
  <2>0. Iterate(type, FALSE)
    BY <1>3 DEF Fill
  <2>1. Sized(type, size)
    BY <2>0, IterateSizes
  <2>2. /\ dgram' = dgram + size /\ dgram + size + size <= Limit
        /\ before' = type /\ pc' = pc /\ pc = "loop"
        /\ from' = from + 1 /\ worms' = worms /\ joined' = joined
        /\ alive' = Survivors(type)
    BY <1>3, <2>0, <2>1 DEF Fill, Iterate, Full, Sized
  <2>3. over' <=> over \/ type = "GAME_OVER"
    BY <2>0 DEF Iterate
  <2>4. dgram' <= Limit - Room[type]
    BY <2>1, <2>2 DEF Sized, Room
  <2>5. TwoWormsInv'
    <3> SUFFICES ASSUME worms = 2, ~joined, ~over, type # "GAME_OVER"
                 PROVE  /\ alive' <= 2
                        /\ from' <= 3 => dgram' <= Header + 63 * from'
                        /\ type = "PLAYER_ELIMINATED" /\ alive' > 1 => from' <= 3
      BY <2>2, <2>3 DEF TwoWormsInv
    <3>1. alive <= 2 /\ (from <= 3 => dgram <= Header + 63 * from)
      BY <2>2 DEF RoomInv, TwoWormsInv
    <3>2. size <= 63
      BY <2>1 DEF Sized
    <3>3. from' <= 3 => dgram' <= Header + 63 * from'
      BY <2>1, <2>2, <3>1, <3>2 DEF Sized
    <3>4. alive' <= 2 /\ (type = "PLAYER_ELIMINATED" /\ alive' > 1 => from' <= 3)
      BY <2>1, <2>2, <3>1 DEF Sized, Survivors
    <3> QED BY <3>3, <3>4
  <2>6. from' # 0
    BY <2>1, <2>2 DEF Sized
  <2>7. type = "GAME_OVER" => over'
    BY <2>3
  <2> QED BY <2>2, <2>4, <2>5, <2>6, <2>7 DEF RoomInv, OversizeCases
<1>4. ASSUME NEW type \in NextTypes, NEW size \in Sizes[type],
             NEW ends \in BOOLEAN, Transmit(type, size, ends)
      PROVE  RoomInv'
  <2>0. Iterate(type, ends)
    BY <1>4 DEF Transmit
  <2>1. Sized(type, size)
    BY <2>0, IterateSizes
  <2>2. /\ dgram' = Header /\ before' = "none" /\ pc' \in {"loop", "return"}
        /\ from' = from + 1 /\ worms' = worms /\ joined' = joined
        /\ alive' = Survivors(type)
    BY <1>4, <2>0 DEF Transmit, Iterate
  <2>3. worms = 2 /\ ~joined' /\ ~over' => alive' <= 2
    <3>1. ~over' => ~over
      BY <2>0 DEF Iterate
    <3>2. worms = 2 /\ ~joined /\ ~over => alive <= 2
      BY <2>0 DEF Iterate, RoomInv, TwoWormsInv
    <3> QED BY <2>1, <2>2, <3>1, <3>2 DEF Sized, Survivors
  <2> QED BY <2>1, <2>2, <2>3
          DEF Sized, RoomInv, TwoWormsInv, OversizeCases, Room
<1>5. ASSUME NEW type \in NextTypes, NEW size \in Sizes[type],
             NEW ends \in BOOLEAN, GiveUp(type, size, ends)
      PROVE  RoomInv'
  BY <1>5 DEF GiveUp, RoomInv, TwoWormsInv, OversizeCases
<1>6. ASSUME NEW type \in NextTypes, NEW size \in Sizes[type],
             NEW ends \in BOOLEAN, Abort(type, size, ends)
      PROVE  RoomInv'
  <2>0. Iterate(type, ends)
    BY <1>6 DEF Abort
  <2>1. Sized(type, size)
    BY <2>0, IterateSizes
  <2>2. /\ dgram' = dgram + size /\ dgram + size > Limit
        /\ before' = before /\ pc' = "abort" /\ pc = "loop"
        /\ worms' = worms /\ joined' = joined
    BY <1>6, <2>0 DEF Abort, Iterate
  <2>3. over' <=> over \/ type = "GAME_OVER"
    BY <2>0 DEF Iterate
  <2>4. /\ dgram <= Limit - Room[before]
        /\ from = 0 => before = "none"
        /\ before \in {"none", "NEW_GAME", "PIXEL", "PLAYER_ELIMINATED", "GAME_OVER"}
    BY <2>2 DEF RoomInv, TypeOK
  <2>5. before \in {"PLAYER_ELIMINATED", "GAME_OVER"} /\ dgram' <= Limit + 9
    BY <2>1, <2>2, <2>4 DEF Sized, Room
  <2>6. worms = 2 /\ ~joined => over'
    <3> SUFFICES ASSUME worms = 2, ~joined, ~over, type # "GAME_OVER" PROVE FALSE
      BY <2>3
    <3>1. before = "PLAYER_ELIMINATED"
      BY <2>2, <2>5 DEF RoomInv
    <3>2. type # "NEW_GAME" /\ size <= 22
      BY <2>1, <2>4, <3>1 DEF Sized
    <3>3. alive = 2
      BY <2>1, <3>2 DEF Sized
    <3>4. from <= 3 /\ dgram <= Header + 63 * from
      BY <2>1, <2>2, <3>1, <3>3 DEF Sized, RoomInv, TwoWormsInv
    <3> QED BY <2>1, <2>2, <3>2, <3>4 DEF Sized
  <2> QED BY <2>2, <2>5, <2>6 DEF RoomInv, TwoWormsInv, OversizeCases
<1>7. CASE UNCHANGED vars
  BY <1>7 DEF vars, log, RoomInv, TwoWormsInv, OversizeCases
<1> QED BY <1>1, <1>2, <1>3, <1>4, <1>5, <1>6, <1>7 DEF Next

(***************************************************************************)
(* For all names, logs and numbers of worms an event that makes the        *)
(* assertion before sendto fail follows an elimination or GAME_OVER in its *)
(* datagram, makes it at most nine bytes too long, and comes, in a game of *)
(* two worms, only once a worm has joined or the game is over.             *)
(* (server.cpp:323, 345-348, 464)                                          *)
(***************************************************************************)
THEOREM OversizeOnlyThen == Spec => []OversizeCases
<1>1. Init => RoomInv
  BY DEF Init, RoomInv, TwoWormsInv, OversizeCases
<1>2. RoomInv => OversizeCases
  BY DEF RoomInv
<1> QED BY <1>1, <1>2, RoomInductive, CallTypes, PTL DEF Spec
=============================================================================
