------------------------------ MODULE MCTraderRun ------------------------------
(* Small instances of TraderRun: runs that sell and fill one slot, and runs *)
(* that buy, and buy again, in two.                                         *)
EXTENDS TraderRun

CONSTANTS a, b

MCPlans  == <<a, b>>

At(x, y, early, slots, rebuy) ==
    [hold |-> [t \in Ticker |-> IF t = a THEN x ELSE y], early |-> early, cash |-> 3,
     slots |-> slots, rebuy |-> rebuy]

MCStarts ==
    {At(x, y, {}, 1, FALSE) : x \in 0 .. 2, y \in 0 .. 1}
        \cup {At(x, 0, {b}, 1, FALSE) : x \in 0 .. 1} \cup {At(0, 0, {}, 2, FALSE), At(1, 0, {}, 2, TRUE)}
=============================================================================
