----------------------------- MODULE DurableSell -----------------------------
(***************************************************************************)
(* What the order protocol promises for the sells of the risk manager,     *)
(* without files, tables and program counters: an intention is durable     *)
(* before the order is sent, the strategy flags follow the record, and a   *)
(* hold on a ticker, taken when an order could not be recorded, keeps      *)
(* further sells of the ticker back until that order is recorded.          *)
(* OrderPersist implements this specification (OrderPersist!Durable).      *)
(***************************************************************************)
CONSTANTS
    Sell,       \* sell orders that may be made
    TickerOf    \* the symbol of an order

VARIABLES
    stage,      \* how far a sell has come
    held,       \* sells that hold their ticker
    flagged     \* sells whose strategy flags were written

vars == <<stage, held, flagged>>

Stages == {"new", "intended", "sent", "recorded"}

Known(o)       == stage[o] = "recorded"
Advance(o, s)  == stage' = [stage EXCEPT ![o] = s]
TickerFree(o)  == \A h \in held : TickerOf[h] # TickerOf[o]

Init == stage = [o \in Sell |-> "new"] /\ held = {} /\ flagged = {}

(* The journal file is written. *)
Intend(o) ==
    /\ stage[o] = "new" /\ TickerFree(o)
    /\ Advance(o, "intended")
    /\ UNCHANGED <<held, flagged>>

(* The broker takes the order. *)
Send(o) ==
    /\ stage[o] = "intended" /\ TickerFree(o)
    /\ Advance(o, "sent")
    /\ UNCHANGED <<held, flagged>>

(* A row with the order's id is written, by the seller or the reconciler. *)
Record(o) ==
    /\ stage[o] = "sent"
    /\ Advance(o, "recorded")
    /\ UNCHANGED <<held, flagged>>

(* The row could not be written by the seller. *)
Hold(o) ==
    /\ stage[o] \in {"sent", "recorded"} /\ TickerFree(o)
    /\ held' = held \cup {o}
    /\ UNCHANGED <<stage, flagged>>

Release(o) ==
    /\ o \in held /\ Known(o)
    /\ held' = held \ {o}
    /\ UNCHANGED <<stage, flagged>>

Flag(o) ==
    /\ Known(o)
    /\ flagged' = flagged \cup {o}
    /\ UNCHANGED <<stage, held>>

Next == \E o \in Sell : \/ Intend(o) \/ Send(o) \/ Record(o)
                        \/ Hold(o) \/ Release(o) \/ Flag(o)

Spec == Init /\ [][Next]_vars
=============================================================================
