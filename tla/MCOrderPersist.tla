--------------------------- MODULE MCOrderPersist ---------------------------
(* Small instances of OrderPersist: the cfg chooses the submissions, which *)
(* of them the trader makes, and which are of a second ticker.             *)
EXTENDS OrderPersist, TLC

CONSTANTS TraderOrder, OtherOrder, tickA, tickB

MCTickerOf == [o \in Order |-> IF o \in OtherOrder THEN tickB ELSE tickA]
MCOwner    == [o \in Order |-> IF o \in TraderOrder THEN "trader" ELSE "risk"]

(* Submissions of one process and one ticker are interchangeable. *)
Symmetry == Permutations(Order \ (TraderOrder \cup OtherOrder))
                \cup Permutations(TraderOrder)
=============================================================================
