------------------------------- MODULE HeapSpec -------------------------------
(***************************************************************************)
(* What the memory manager of absmach.c promises its clients: a container  *)
(* is an interval of words that no other live container overlaps, and that *)
(* keeps its place and its length until it is released.                    *)
(***************************************************************************)
EXTENDS Naturals

CONSTANT Words          \* the addresses the heap can ever have

VARIABLE alive          \* the live containers, as intervals of words

Interval == [at : Words, len : Words]

Apart(a, b) == a.at + a.len <= b.at \/ b.at + b.len <= a.at

Init == alive = {}

(* reserve() hands out an interval apart from every live one. *)
Reserve == \E b \in Interval :
              /\ \A a \in alive : Apart(a, b)
              /\ alive' = alive \cup {b}

(* release() gives one live interval back. *)
Release == \E b \in alive : alive' = alive \ {b}

Next == Reserve \/ Release

Spec == Init /\ [][Next]_alive
===============================================================================
