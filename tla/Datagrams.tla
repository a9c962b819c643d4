----------------------------- MODULE Datagrams -----------------------------
(***************************************************************************)
(* One call of sendEvents: the events of a log, from a number on, packed   *)
(* into datagrams of at most Limit bytes.                                  *)
(*                                                                         *)
(* An event is its size.  The log is chosen while it is sent, along the    *)
(* order the server logs events in: the roster, the placing of the worms,  *)
(* pixels and eliminations until one worm is left, and the end, after      *)
(* which the survivor may still move.  Worms join while the game runs.  A  *)
(* call may start anywhere in the log, and the log may end after any       *)
(* event that can be the last of a frame.  The roster is taken to name no  *)
(* more players than there are worms: no client changes its name.          *)
(***************************************************************************)
EXTENDS Integers, Sequences

CONSTANTS
  Worms,      \* how many worms a game can start with
  NameBytes,  \* NameBytes[w]: total sizes of the names of w players
  MaxAlive,   \* bound: worms in a game at a time, with those that joined it
  MaxEvents   \* bound: events in a log

Header == 4       \* the game identifier
Limit  == 550     \* the size a datagram may have

\* A name has between 1 and 20 characters and a 0.
ASSUME WormsAssumption == Worms \subseteq 2..25
ASSUME MaxAliveAssumption == MaxAlive \in Nat /\ \A w \in Worms : w <= MaxAlive
ASSUME NameBytesAssumption ==
  \A w \in Worms : NameBytes[w] \subseteq (2 * w)..(21 * w)
ASSUME MaxEventsAssumption == MaxEvents \in Nat

VARIABLES
  pc,      \* "call", "loop", "return", "failed" (sendto), "abort" (assert)
  from,    \* number of the next event to append
  start,   \* the number the call began with
  worms,   \* worms the game started with
  alive,   \* worms in the game before it
  joined,  \* whether a worm has joined before it
  over,    \* whether GAME_OVER is before it
  dgram,   \* size of the datagram being filled
  before,  \* type of the last event in it, or "none"
  packed,  \* numbers of the events in it
  sent     \* numbers of the events handed to sendto, in order

log  == <<worms, alive, joined, over>>
vars == <<pc, from, start, log, dgram, before, packed, sent>>

\* wrapEvent adds a length and a checksum of four bytes each to the number,
\* the type and the data of an event.
Sizes == [NEW_GAME          |-> {8 + 5 + 8 + n : n \in NameBytes[worms]},
          PIXEL             |-> {8 + 5 + 9},
          PLAYER_ELIMINATED |-> {8 + 5 + 1},
          GAME_OVER         |-> {8 + 5}]

\* A frame moves the worms of a game until one is left.  The frames simulated
\* after that one move the survivor, until it is eliminated too.
Moves == IF over THEN alive = 1 ELSE alive > 1

\* The types the event number from can have.  Each worm is placed with one
\* event; GAME_OVER follows the elimination of the last but one.
NextTypes ==
       {type \in {"NEW_GAME"} : from = 0}
  \cup {type \in {"PIXEL"} : from > 0 /\ Moves}
  \cup {type \in {"PLAYER_ELIMINATED"} : from > 1 /\ Moves}
  \cup {type \in {"GAME_OVER"} : alive = 1 /\ ~over}

\* A worm eliminated while it is placed stays alive.
Survivors(type) ==
  IF type = "PLAYER_ELIMINATED" /\ from > worms THEN alive - 1 ELSE alive

\* Whether the log can end with an event: not between an elimination that
\* ends the game and GAME_OVER, and not while the worms are placed.
MayEnd(type) ==
  \/ type = "GAME_OVER" \/ over
  \/ from >= worms /\ Survivors(type) > 1

\* The survivor is out, too.
MustEnd(type) == Survivors(type) = 0

Init ==
  /\ pc = "call" /\ from = 0 /\ start = 0
  /\ worms \in Worms /\ alive = worms /\ joined = FALSE /\ over = FALSE
  /\ dgram = 0 /\ before = "none" /\ packed = << >> /\ sent = << >>

\* The games that can have logged no events: those that fall to moved from
\* worms to n, with joins or without, needed an elimination each.
Reachable(no, n, joins, ended) ==
  /\ no <= worms => n = worms /\ ~joins /\ ~ended
  /\ no > worms => worms - n + (IF ended THEN 1 ELSE 0) <= no - worms - 1
  /\ ended => n <= 1
  /\ ~ended => n >= 1
  /\ ~joins => n <= worms

\* The call: a broadcast or an answer, from any number the client names; it
\* returns at once when the log has no such number yet.
Call ==
  /\ pc = "call"
  /\ \E no \in 0..MaxEvents, n \in 0..MaxAlive, joins \in BOOLEAN, ended \in BOOLEAN :
       /\ Reachable(no, n, joins, ended)
       /\ from' = no /\ start' = no
       /\ alive' = n /\ joined' = joins /\ over' = ended
  /\ dgram' = Header
  /\ pc' \in {"loop", "return"}
  /\ alive' = 0 => pc' = "return"
  /\ UNCHANGED <<worms, before, packed, sent>>

\* In the log that is sent: a client that has no worm is heard of while the
\* game runs, and playerPos gets one for it.
Join ==
  /\ pc = "loop"
  /\ from > worms /\ alive > 1 /\ ~over
  /\ alive < MaxAlive
  /\ alive' = alive + 1 /\ joined' = TRUE
  /\ UNCHANGED <<pc, from, start, worms, over, dgram, before, packed, sent>>

\* Slips: everything goes into one datagram; only what is in it already is
\* compared with the limit.
Full_Never(filled, size)   == FALSE
Full_Already(filled, size) == filled > Limit
Full(filled, size) == filled + size > Limit

\* Slip: what was sent stays in the string.
Rest_Same(numbers) == numbers
Rest(numbers) == << >>

\* An iteration of the loop appends the next event and, when the log ends
\* here or an event of the same size would not fit, sends the datagram.
Iterate(type, ends) ==
  /\ pc = "loop"
  /\ ends => MayEnd(type)
  /\ ~ends => ~MustEnd(type) /\ from < MaxEvents
  /\ alive' = Survivors(type) /\ from' = from + 1
  /\ over' = (over \/ type = "GAME_OVER")
  /\ UNCHANGED <<start, worms, joined>>

Fill(type, size) ==
  /\ Iterate(type, FALSE)
  /\ ~Full(dgram + size, size)
  /\ dgram' = dgram + size /\ before' = type /\ packed' = Append(packed, from)
  /\ UNCHANGED <<pc, sent>>

Transmit(type, size, ends) ==
  /\ Iterate(type, ends)
  /\ ends \/ Full(dgram + size, size)
  /\ dgram + size <= Limit
  /\ LET numbers == Append(packed, from)
     IN sent' = sent \o numbers /\ packed' = Rest(numbers)
  /\ dgram' = Header /\ before' = "none"
  /\ pc' = IF ends THEN "return" ELSE "loop"

\* sendto fails, and the call gives up.
GiveUp(type, size, ends) ==
  /\ Iterate(type, ends)
  /\ ends \/ Full(dgram + size, size)
  /\ dgram + size <= Limit
  /\ pc' = "failed"
  /\ UNCHANGED <<dgram, before, packed, sent>>

Abort(type, size, ends) ==
  /\ Iterate(type, ends)
  /\ ends \/ Full(dgram + size, size)
  /\ dgram + size > Limit
  /\ pc' = "abort"
  /\ dgram' = dgram + size
  /\ UNCHANGED <<before, packed, sent>>

Next ==
  \/ Call \/ Join
  \/ \E type \in NextTypes : \E size \in Sizes[type] :
       \/ Fill(type, size)
       \/ \E ends \in BOOLEAN :
            \/ Transmit(type, size, ends)
            \/ GiveUp(type, size, ends)
            \/ Abort(type, size, ends)

Spec == Init /\ [][Next]_vars

-----------------------------------------------------------------------------
(* Properties *)

TypeOK ==
  /\ pc \in {"call", "loop", "return", "failed", "abort"}
  /\ from \in Nat /\ start \in Nat /\ worms \in Worms
  /\ alive \in 0..MaxAlive /\ joined \in BOOLEAN /\ over \in BOOLEAN
  /\ dgram \in Nat /\ (pc # "abort" => dgram <= Limit)
  /\ before \in {"none", "NEW_GAME", "PIXEL", "PLAYER_ELIMINATED", "GAME_OVER"}
  /\ packed \in Seq(Nat) /\ sent \in Seq(Nat)

(***************************************************************************)
(* EachEventOnce: the datagrams of a call hold the events from the number  *)
(* asked for to the end of the log, each once and in order; when sendto    *)
(* fails, the ones before the failure. (server.cpp:326-357)                *)
(***************************************************************************)
EachEventOnce ==
  LET numbers == sent \o packed
  IN  /\ \A i \in DOMAIN numbers : numbers[i] = start + i - 1
      /\ pc = "loop" => Len(numbers) = from - start
      /\ pc = "return" => Len(sent) = from - start

(***************************************************************************)
(* NoOversize: the assertion before sendto holds. (server.cpp:348)         *)
(***************************************************************************)
NoOversize == pc # "abort"

(***************************************************************************)
(* OversizeCases: where it fails, the event that is too much follows, in   *)
(* the same datagram, an elimination or GAME_OVER, and exceeds the limit   *)
(* by nine bytes at most.  In a game of two players that means that a worm *)
(* joined, or that the survivor moved on after the end. (server.cpp:323,   *)
(* 345-348, 464)                                                           *)
(***************************************************************************)
OversizeCases ==
  pc = "abort" =>
    /\ before \in {"PLAYER_ELIMINATED", "GAME_OVER"}
    /\ dgram <= Limit + 9
    /\ worms = 2 => joined \/ over
=============================================================================
