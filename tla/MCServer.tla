------------------------------ MODULE MCServer ------------------------------
(* Instances of Server for TLC.                                             *)
EXTENDS Server, TLC

CONSTANTS a1, a2, a3, f1, f2, f3

\* One player name per address, and a spectator.
OwnNamesOfTwo  == (a1 :> [s \in Session |-> 1]) @@ (a2 :> [s \in Session |-> 2])
OwnNamesOfThree == OwnNamesOfTwo @@ (a3 :> [s \in Session |-> 3])
\* Two addresses want the same name.
ContestedNames == OwnNamesOfTwo @@ (a3 :> [s \in Session |-> 2])
WithSpectator  == OwnNamesOfTwo @@ (a3 :> [s \in Session |-> NoName])

\* Later processes at the same address play under other names.
Renames == (a2 :> [s \in Session |-> s + 1]) @@ OwnNamesOfTwo
=============================================================================
