------------------------------- MODULE TraderBuys -------------------------------
(***************************************************************************)
(* The second half of a trader run (trader.py): the gates, the slots, the  *)
(* extra buys of what is held already, and the rounds of buys with their   *)
(* ladder of orders: a limit order, a marketable limit order and one at    *)
(* the market price.                                                       *)
(***************************************************************************)
EXTENDS TraderSells, SequencesExt

CONSTANTS
    Plans,      \* the plans of the day, best rank first
    MaxShares,  \* per order
    MinOrder    \* min_order_cash

ASSUME BuysAssumption ==
    /\ Plans \in Seq(Ticker) /\ IsInjective(Plans)
    /\ MaxShares \in Nat \ {0} /\ MinOrder \in Nat \ {0}

VARIABLES
    targets,    \* what the round is for; first the extra buys
    queue,      \* what is left of the round
    failed,     \* failed_targets
    round,      \* 0 for the extra buys
    success,    \* round_success
    remaining,  \* remaining_cash
    new,        \* the targets of the rounds to come, while extra buys are made
    eff,        \* effective_slots
    q,          \* the quantity in hand
    pre,        \* the holding it is compared with
    loose       \* tickers with a live order the trader has given up on

plan    == <<targets, queue, failed, round, success, new>>
hand    == <<q, pre>>
buyvars == <<plan, hand, eff, remaining, loose>>

BuysOK ==
    /\ {targets, queue, failed, new} \subseteq Seq(Ticker)
    /\ round \in 0 .. 3 /\ success \in BOOLEAN
    /\ {remaining, q, pre} \subseteq Share /\ eff \in Nat
    /\ loose \subseteq Ticker

rest == <<selling, decided, rowSell, executed, tries, recSold>>
Next1(to) == pc' = to /\ UNCHANGED account      \* a step that asks KIS nothing

(* A limit order costs what it was capped at; those that cross the spread, *)
(* at the best ask and a tick or with slippage, up to Dear more a share.   *)
Buy(t, n, dear, answered) == \E over \in 0 .. n * dear : Send("buy", t, n, over, answered)
Top == Head(queue)

-----------------------------------------------------------------------------
(* The gates and the plans                                                 *)

(* Every gate may end the run: losses, hours, a price beyond the cash.     *)
Gated ==
    /\ pc = "gates" /\ Next1("over")
    /\ UNCHANGED <<rest, buyvars>>

(* _compute_effective_slots *)
EffectiveSlots(c) == Min({start.slots, c \div MinOrder})

(* _is_in_cooldown and _can_rebuy decide which plans for some tickers are  *)
(* left, in their order.                                                   *)
PlansFor(S) ==
    {s \in UNION {[1 .. n -> S] : n \in 0 .. Len(Plans)} :
        \E at \in [DOMAIN s -> DOMAIN Plans] :
            /\ \A i \in DOMAIN s : s[i] = Plans[at[i]]
            /\ \A i, j \in DOMAIN s : i < j => at[i] < at[j]}

(* What is held is bought again only if the settings say so.               *)
OpenBuys ==
    /\ pc = "gates" /\ ~blocked /\ seen.ok /\ money > 0
    /\ targets' \in IF start.rebuy THEN PlansFor(book) ELSE {<<>>}
    /\ new' \in PlansFor(Ticker \ book)
    /\ eff' = EffectiveSlots(money)
    /\ Reload("first")
    /\ UNCHANGED <<rest, queue, failed, round, success, hand, remaining, loose>>

StartBatch ==
    /\ pc = "first" /\ Next1("rebuy")
    /\ remaining' = Synced(money)
    /\ queue' = IF remaining' <= Max({MinOrder, Reserve}) THEN <<>> ELSE targets
    /\ UNCHANGED <<rest, targets, failed, round, success, new, hand, loose, eff>>

-----------------------------------------------------------------------------
(* Extra buys: _execute_buy_batch                                          *)

SyncRebuy ==
    /\ pc = "rebuy" /\ queue # <<>> /\ Reload("size")
    /\ UNCHANGED <<rest, buyvars>>

NextRebuy == queue' = Tail(queue) /\ pc' = "rebuy"

(* _compute_buy_budget and the limits per ticker and order: any quantity   *)
(* the cash allows, or none.                                               *)
Affordable(c) == MinOrder .. Min({c, MaxShares})

SizeRebuy ==
    /\ pc = "size"
    /\ remaining' = Synced(remaining) /\ eff' = EffectiveSlots(remaining')
    /\ \/ NextRebuy /\ UNCHANGED <<account, q>>
       \/ \E n \in Affordable(remaining') : q' = n /\ Reload("limit") /\ UNCHANGED queue
    /\ UNCHANGED <<rest, targets, failed, round, success, new, pre, loose>>

LimitRebuy ==
    /\ pc = "limit"
    /\ q' = Capped(q)
    /\ IF q' = 0
       THEN NextRebuy /\ UNCHANGED account
       ELSE /\ \E answered \in BOOLEAN : Buy(Top, q', 0, answered) /\ Await("buy", Top, q', answered)
            /\ pc' = "limited" /\ UNCHANGED queue
    /\ UNCHANGED <<rest, targets, failed, round, success, new, remaining, pre, loose, eff>>

(* Executed: the cash is read again.  Otherwise the order stays live, for  *)
(* nothing is cancelled at KIS, and the market order follows.              *)
CheckRebuy ==
    /\ pc = "limited"
    /\ Load /\ UNCHANGED <<kis, lost, risks, oversold>>
    /\ \E yes \in BOOLEAN : ExecutedById(yes) /\ pc' = IF yes THEN "spent" ELSE "fallback1"
    /\ loose' = IF Answered /\ pc' = "fallback1" THEN loose \cup {Top} ELSE loose
    /\ ord' = NoOrd
    /\ UNCHANGED <<rest, plan, hand, remaining, eff>>

SpentRebuy ==
    /\ pc = "spent" /\ NextRebuy
    /\ remaining' = Cash
    /\ UNCHANGED <<account, rest, targets, failed, round, success, new, hand, loose, eff>>

(* The fallback is written twice in a row, and the second follows whatever *)
(* the first one did.  What is held counts as bought.                      *)
FallBack(from, to) ==
    /\ pc = from
    /\ LET missing == Max({0, q - Holding(Top)}) IN
       pre' = missing
    /\ Reload(to)
    /\ UNCHANGED <<rest, plan, q, remaining, loose, eff>>

(* _execute_market_order: its result never says ok, so that its cash is    *)
(* not read again; without anything missing the account is, and its cash   *)
(* taken if it still shows the holding.                                    *)
MarketRebuy(from) ==
    /\ pc = from
    /\ LET n == Capped(pre) IN
       IF pre = 0
       THEN /\ Load /\ UNCHANGED <<kis, lost, risks, oversold, loose>>
            /\ remaining' = IF seen'.ok /\ seen'.hold[Top] > 0 THEN seen'.cash ELSE remaining
       ELSE /\ UNCHANGED remaining
            /\ IF n = 0
               THEN UNCHANGED <<kis, known, lost, risks, changed, oversold, loose>>
               ELSE \E answered \in BOOLEAN :
                      /\ Buy(Top, n, Dear, answered)
                      /\ loose' = IF answered THEN loose \cup {Top} ELSE loose
    /\ UNCHANGED <<ord, rest, targets, failed, round, success, new, hand, eff>>

Market1 == MarketRebuy("market1") /\ pc' = "again1" /\ UNCHANGED queue
Again1  == pc = "again1" /\ Reload("fallback2") /\ UNCHANGED <<rest, buyvars>>
Market2 == MarketRebuy("market2") /\ NextRebuy

-----------------------------------------------------------------------------
(* New positions: the slots, and _execute_sequential_buy                   *)

Targets == SubSeq(new, 1, Min({Len(new), Max({0, eff - Cardinality(book)})}))

(* The rounds start from the cash the run started from.                    *)
StartRounds ==
    /\ pc = "rebuy" /\ queue = <<>> /\ Next1("next")
    /\ targets' = Targets /\ queue' = Targets /\ new' = <<>>
    /\ round' = 1 /\ success' = FALSE
    /\ eff' = 0 /\ remaining' = money /\ q' = 0 /\ pre' = 0
    /\ UNCHANGED <<rest, failed, loose>>

LowCash(c) == c <= Max({MinOrder, Reserve})

SyncPlan ==
    /\ pc = "next" /\ queue # <<>> /\ ~LowCash(remaining)
    /\ Reload("synced")
    /\ UNCHANGED <<rest, buyvars>>

(* _try_single_buy reads what is held before it buys. *)
TakePlan ==
    /\ pc = "synced"
    /\ remaining' = Synced(remaining)
    /\ IF LowCash(remaining')
       THEN queue' = <<>> /\ Next1("next")
       ELSE Reload("sizing") /\ UNCHANGED queue
    /\ UNCHANGED <<rest, targets, failed, round, success, new, hand, loose, eff>>

Bought  == Reload("bought")
Missed  == /\ pc' = "next" /\ ord' = NoOrd
           /\ failed' = Append(failed, Top) /\ queue' = Tail(queue)
NoMiss  == UNCHANGED <<failed, queue>>

SizePlan ==
    /\ pc = "sizing"
    /\ pre' = Holding(Top)
    /\ \/ Missed /\ q' = 0 /\ UNCHANGED <<kis, known, lost, risks, changed, oversold>>
       \/ \E n \in Affordable(remaining) : q' = n /\ Reload("capped") /\ NoMiss
    /\ UNCHANGED <<rest, targets, round, success, new, remaining, loose, eff>>

LimitOrder ==
    /\ pc = "capped"
    /\ q' = Capped(q)
    /\ IF q' = 0
       THEN Missed /\ UNCHANGED <<kis, known, lost, risks, changed, oversold>>
       ELSE /\ \E answered \in BOOLEAN : Buy(Top, q', 0, answered) /\ Await("buy", Top, q', answered)
            /\ pc' = "placed" /\ NoMiss
    /\ UNCHANGED <<rest, targets, round, success, new, remaining, pre, loose, eff>>

(* An accepted order is a success, filled (row limit_executed) or not (row *)
(* pending).  Without an answer any executed order of the ticker will do,  *)
(* or a holding that grew.                                                 *)
Placed ==
    /\ pc = "placed"
    /\ \/ Bought
       \/ ~Answered /\ Reload("late")
    /\ UNCHANGED <<rest, buyvars>>

LateFill ==
    /\ pc = "late"
    /\ IF Holding(Top) > pre \/ Holding(Top) >= q
       THEN Bought
       ELSE Next1("marketable")
    /\ UNCHANGED <<rest, buyvars>>

(* The marketable limit order is for the quantity as it was capped before; *)
(* without a quote there is none.                                          *)
MarketableOrder ==
    /\ pc = "marketable"
    /\ \/ UNCHANGED <<kis, known, ord, lost, risks, changed, oversold>>
       \/ \E answered \in BOOLEAN : Buy(Top, q, Dear, answered) /\ Await("buy", Top, q, answered)
    /\ pc' = "crossed"
    /\ UNCHANGED <<rest, buyvars>>

(* Not executed: the order stays live, and the ladder goes on. *)
Crossed ==
    /\ pc = "crossed"
    /\ \E yes \in BOOLEAN :
         /\ ExecutedById(yes)
         /\ Load /\ UNCHANGED <<kis, lost, risks, oversold>>
         /\ pc' = IF yes THEN "bought" ELSE "market"
         /\ loose' = IF Answered /\ ~yes THEN loose \cup {Top} ELSE loose
         /\ ord' = NoOrd
    /\ UNCHANGED <<rest, plan, hand, remaining, eff>>

(* _execute_market_order *)
BeforeMarket ==
    /\ pc = "market" /\ Reload("market order")
    /\ pre' = Holding(Top)
    /\ UNCHANGED <<rest, plan, q, remaining, loose, eff>>

SlipMarketOrder ==
    /\ pc = "market order"
    /\ \E answered \in BOOLEAN : Buy(Top, q, Dear, answered) /\ Await("buy", Top, q, answered)
    /\ pc' = "confirm" /\ NoMiss
    /\ UNCHANGED <<rest, targets, round, success, new, remaining, q, pre, loose, eff>>

MarketOrder ==
    /\ pc = "market order"
    /\ \/ Missed /\ UNCHANGED <<kis, known, lost, risks, changed, oversold>>
       \/ /\ Capped(q) > 0
          /\ \E answered \in BOOLEAN :
               Buy(Top, Capped(q), Dear, answered) /\ Await("buy", Top, Capped(q), answered)
          /\ pc' = "confirm" /\ NoMiss
    /\ UNCHANGED <<rest, targets, round, success, new, remaining, q, pre, loose, eff>>

(* _confirm_execution_with_retry: the holding must have grown.  An order   *)
(* that is given up stays live.                                            *)
Poll ==
    /\ pc = "confirm" /\ Reload("confirming")
    /\ tries' = tries + 1
    /\ UNCHANGED <<selling, decided, rowSell, executed, recSold, buyvars>>

Confirm ==
    /\ pc = "confirming"
    /\ \/ /\ Holding(Top) > pre
          /\ Bought /\ tries' = 0 /\ NoMiss /\ UNCHANGED loose
       \/ /\ Holding(Top) <= pre /\ tries < Tries
          /\ Next1("confirm") /\ NoMiss /\ UNCHANGED <<tries, loose>>
       \/ /\ Holding(Top) <= pre /\ tries = Tries
          /\ Missed /\ tries' = 0
          /\ loose' = IF Answered THEN loose \cup {Top} ELSE loose
          /\ UNCHANGED <<kis, known, lost, risks, changed, oversold>>
    /\ UNCHANGED <<selling, decided, rowSell, executed, recSold>>
    /\ UNCHANGED <<targets, round, success, new, hand, remaining, eff>>

SlipKeepBought ==
    /\ pc = "bought" /\ pc' = "next" /\ ord' = NoOrd
    /\ remaining' = Cash
    /\ queue' = Tail(queue)
    /\ success' = TRUE
    /\ UNCHANGED <<kis, known, lost, risks, changed, oversold, rest>>
    /\ UNCHANGED <<targets, failed, round, new, hand, loose, eff>>

(* A success: the cash is read again and the plan is done with. *)
Without(s, t) == RemoveAt(s, CHOOSE i \in DOMAIN s : s[i] = t)

KeepBought ==
    /\ pc = "bought" /\ pc' = "next" /\ ord' = NoOrd
    /\ remaining' = Cash
    /\ queue' = Tail(queue) /\ targets' = Without(targets, Top)
    /\ success' = TRUE
    /\ UNCHANGED <<kis, known, lost, risks, changed, oversold, rest>>
    /\ UNCHANGED <<failed, round, new, hand, loose, eff>>

(* The plans that failed go to the next of three rounds, while some buy    *)
(* succeeds; if none failed, those that were not reached do.               *)
EndRound ==
    /\ pc = "next"
    /\ queue = <<>> \/ LowCash(remaining)
    /\ LET retry == failed # <<>> /\ round < 3
           again == IF retry THEN failed ELSE targets
       IN
       IF ~success \/ round = 3 \/ again = <<>>
       THEN Next1("over") /\ UNCHANGED buyvars
       ELSE /\ Next1("next")
            /\ targets' = again /\ queue' = again
            /\ failed' = IF retry THEN <<>> ELSE failed
            /\ round' = round + 1 /\ success' = FALSE
            /\ UNCHANGED <<new, hand, remaining, loose, eff>>
    /\ UNCHANGED rest

BuyStep ==
    \/ Gated \/ OpenBuys \/ StartBatch
    \/ SyncRebuy \/ SizeRebuy \/ LimitRebuy \/ CheckRebuy \/ SpentRebuy
    \/ FallBack("fallback1", "market1") \/ Market1 \/ Again1
    \/ FallBack("fallback2", "market2") \/ Market2
    \/ StartRounds \/ SyncPlan \/ TakePlan \/ SizePlan \/ LimitOrder \/ Placed \/ LateFill
    \/ MarketableOrder \/ Crossed \/ BeforeMarket \/ MarketOrder \/ Poll \/ Confirm
    \/ KeepBought \/ EndRound

=============================================================================
