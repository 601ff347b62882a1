------------------------------ MODULE TraderSells ------------------------------
(***************************************************************************)
(* The first half of a trader run (trader.py): the account is read, shares *)
(* that weigh too much are reduced, and every holding is sold, sold in     *)
(* part or kept, with what is recorded of the sales.                       *)
(***************************************************************************)
EXTENDS TraderAccount

CONSTANT Tries      \* how often the cash is read again after the sales

ASSUME TriesAssumption == Tries \in Nat \ {0}

VARIABLES
    pc,
    hs,         \* the holdings run_sell_logic works on
    book,       \* the tickers held, as run_buy_logic will be told
    money,      \* the cash, as run_buy_logic will be told
    todo,       \* tickers still to look at
    cur,        \* the ticker in hand
    rowSell,    \* tickers with an open SELL row in the trade table
    open,       \* those rows, as read before the loop
    adjusted,   \* rebalanced_count > 0
    executed,   \* executed_sell
    tries,      \* rounds of waiting
    recSold     \* shares the rows of this run say were sold

decided  == <<book, money>>
selling  == <<hs, todo, cur, open, adjusted>>
sellvars == <<pc, selling, decided, rowSell, executed, tries, recSold>>

NoTicker == "none"

SellsOK ==
    /\ {hs, recSold} \subseteq [Ticker -> Share]
    /\ {book, todo, rowSell, open} \subseteq SUBSET Ticker
    /\ cur \in Ticker \cup {NoTicker} /\ money \in Share /\ tries \in 0 .. Tries
    /\ {adjusted, executed} \subseteq BOOLEAN

-----------------------------------------------------------------------------
(* The start of the run and the weights                                    *)

Quiet == UNCHANGED <<kis, ord, lost, risks, oversold>>
Reload(to) == Load /\ Quiet /\ pc' = to

(* get_account_info_from_files: before it loads, _validate_account_sync    *)
(* compares the tickers of a snapshot with those of account.py's file of   *)
(* the day, if there is one, and other tickers in either block the buys.   *)
Validated(to) ==
    \E doubt \in BOOLEAN : LoadUnless(doubt) /\ Quiet /\ pc' = to

Start ==
    /\ pc = "start" /\ Validated("started")
    /\ UNCHANGED <<selling, decided, rowSell, executed, tries, recSold>>

(* Without holdings nothing is sold. *)
ReadHoldings ==
    /\ pc = "started"
    /\ book' = Held(Holdings) /\ money' = Cash /\ hs' = Holdings
    /\ IF book' = {} THEN pc' = "gates" /\ UNCHANGED account
                     ELSE Reload("weigh")
    /\ UNCHANGED <<todo, cur, open, adjusted, rowSell, executed, tries, recSold>>

(* _check_and_rebalance_portfolio picks what weighs more than is allowed. *)
Weigh ==
    /\ pc = "weigh" /\ Reload("reduce")
    /\ todo' \in SUBSET Held(hs)
    /\ UNCHANGED <<hs, cur, open, adjusted, decided, rowSell, executed, tries, recSold>>

(* _reduce_position_to_target_weight: never the whole holding; nothing to  *)
(* sell counts as adjusted.  No row is written for such a sale.            *)
Reduce(t) ==
    /\ pc = "reduce" /\ t \in todo
    /\ todo' = todo \ {t}
    /\ \E n \in 0 .. hs[t] - 1, answered \in BOOLEAN :
         LET q == Clamp(t, n) IN
         IF q = 0
         THEN adjusted' = (adjusted \/ n = 0) /\ UNCHANGED <<account, executed>>
         ELSE /\ Send("sell", t, q, 0, answered)
              /\ adjusted' = (adjusted \/ answered) /\ executed' = (executed \/ answered)
              /\ UNCHANGED ord
    /\ UNCHANGED <<pc, hs, cur, open, decided, rowSell, tries, recSold>>

(* After an adjustment the account is loaded again, twice in a row. *)
Reduced ==
    /\ pc = "reduce" /\ todo = {}
    /\ IF adjusted THEN Reload("again") ELSE pc' = "hours" /\ UNCHANGED account
    /\ UNCHANGED <<selling, decided, rowSell, executed, tries, recSold>>

LoadAgain ==
    /\ pc = "again" /\ Reload("rebalanced")
    /\ UNCHANGED <<selling, decided, rowSell, executed, tries, recSold>>

TakeRebalanced ==
    /\ pc = "rebalanced" /\ pc' = "hours"
    /\ hs' = Holdings
    /\ UNCHANGED <<account, todo, cur, open, adjusted, decided, rowSell, executed, tries, recSold>>

-----------------------------------------------------------------------------
(* The holdings one by one                                                 *)

(* _check_trading_hours *)
Closed ==
    /\ pc = "hours" /\ pc' = "sold"
    /\ UNCHANGED <<account, selling, decided, rowSell, executed, tries, recSold>>

(* get_open_orders, has_open_sell_order: a table that cannot be read looks *)
(* as if it held no open sale.                                             *)
OpenRows == {rowSell, {}}

ReadOpen ==
    /\ pc = "hours" /\ pc' = "sells"
    /\ open' \in OpenRows
    /\ todo' = Held(hs)
    /\ UNCHANGED <<account, hs, cur, adjusted, decided, rowSell, executed, tries, recSold>>

(* check_sell_condition says HOLD, or a rule of the trader keeps it. *)
Keep(t) ==
    /\ pc = "sells" /\ t \in todo
    /\ todo' = todo \ {t}
    /\ UNCHANGED <<account, pc, hs, cur, open, adjusted, decided, rowSell, executed, tries, recSold>>

(* compute_partial_qty: half of it, or all of it when that rounds to 0. *)
Half(n) == IF n \div 2 = 0 THEN n ELSE n \div 2

(* PARTIAL_SELL: no row is written for it. *)
SellPart(t) ==
    /\ pc = "sells" /\ t \in todo \ open
    /\ \E rows \in OpenRows : t \notin rows
    /\ LET q == Clamp(t, Half(hs[t])) IN
       /\ q > 0
       /\ \E answered \in BOOLEAN :
            Send("sell", t, q, 0, answered) /\ executed' = (executed \/ answered)
    /\ todo' = todo \ {t}
    /\ UNCHANGED <<ord, pc, hs, cur, open, adjusted, decided, rowSell, tries, recSold>>

(* SELL: the whole holding, as far as it can be sold. *)
SellAll(t) ==
    /\ pc = "sells" /\ t \in todo \ open
    /\ LET q == Clamp(t, hs[t]) IN
       /\ q > 0
       /\ \E answered \in BOOLEAN : Send("sell", t, q, 0, answered) /\ Await("sell", t, q, answered)
    /\ cur' = t /\ pc' = "sent"
    /\ todo' = todo \ {t}
    /\ UNCHANGED <<hs, open, adjusted, decided, rowSell, executed, tries, recSold>>

(* _enhanced_execution_check knows the fills by the id of the order;       *)
(* otherwise the account is compared with the holdings before the sale.    *)
CheckSale ==
    /\ pc = "sent"
    /\ \E yes \in BOOLEAN :
         /\ ExecutedById(yes)
         /\ IF yes
            THEN /\ recSold' = [recSold EXCEPT ![cur] = @ + ord.done]
                 /\ executed' = TRUE /\ ord' = NoOrd /\ cur' = NoTicker
                 /\ pc' = "sells"
                 /\ UNCHANGED <<kis, known, lost, risks, changed, oversold>>
            ELSE Reload("compare") /\ UNCHANGED <<recSold, executed, cur>>
    /\ UNCHANGED <<hs, todo, open, adjusted, decided, rowSell, tries>>

(* The row says completed, submitted or failed. *)
SlipCompareHoldings ==
    /\ pc = "compare" /\ pc' = "sells"
    /\ LET filled == IF Answered THEN hs[cur] ELSE Max({0, hs[cur] - Holding(cur)}) IN
       /\ recSold' = [recSold EXCEPT ![cur] = @ + filled]
       /\ executed' = (executed \/ Answered \/ filled > 0)
    /\ ord' = NoOrd /\ cur' = NoTicker
    /\ UNCHANGED <<kis, known, lost, risks, changed, oversold>>
    /\ UNCHANGED <<hs, todo, open, adjusted, decided, rowSell, tries>>

CompareHoldings ==
    /\ pc = "compare" /\ pc' = "sells"
    /\ LET filled == Max({0, hs[cur] - Holding(cur)}) IN
       /\ recSold' = [recSold EXCEPT ![cur] = @ + filled]
       /\ executed' = (executed \/ Answered \/ filled > 0)
    /\ ord' = NoOrd /\ cur' = NoTicker
    /\ UNCHANGED <<kis, known, lost, risks, changed, oversold>>
    /\ UNCHANGED <<hs, todo, open, adjusted, decided, rowSell, tries>>

AllSeen ==
    /\ pc = "sells" /\ todo = {}
    /\ pc' = "sold"
    /\ UNCHANGED <<account, selling, decided, rowSell, executed, tries, recSold>>

(* The cash the sales brought is awaited, a few times; what is then seen,  *)
(* or what was seen at first, is what the buys start from.                 *)
AwaitCash ==
    /\ pc = "sold" /\ executed
    /\ tries = 0 \/ (Cash <= money /\ tries < Tries)
    /\ Validated("sold") /\ tries' = tries + 1
    /\ UNCHANGED <<selling, decided, rowSell, executed, recSold>>

EndSales ==
    /\ pc = "sold"
    /\ IF executed
       THEN /\ tries > 0 /\ (Cash > money \/ tries = Tries)
            /\ book' = Held(Holdings) /\ money' = Cash
       ELSE UNCHANGED decided
    /\ pc' = "gates" /\ tries' = 0
    /\ hs' = None /\ open' = {} /\ adjusted' = FALSE /\ executed' = FALSE
    /\ UNCHANGED <<account, todo, cur, rowSell, recSold>>

SellStep ==
    \/ Start \/ ReadHoldings \/ Weigh \/ Reduced \/ LoadAgain \/ TakeRebalanced
    \/ Closed \/ ReadOpen \/ CheckSale \/ CompareHoldings \/ AllSeen \/ AwaitCash \/ EndSales
    \/ \E t \in Ticker : Reduce(t) \/ Keep(t) \/ SellPart(t) \/ SellAll(t)

-----------------------------------------------------------------------------

(* The risk manager sells beside the trader: what is free to sell, of a    *)
(* ticker without an open SELL row.                                        *)
RiskSell(t) ==
    /\ pc # "over" /\ Events < MaxEvents /\ risks' = risks + 1
    /\ t \notin rowSell /\ Sellable(t) > 0
    /\ \E n \in 1 .. Sellable(t) : liveSell' = [liveSell EXCEPT ![t] = @ + n]
    /\ rowSell' = rowSell \cup {t}
    /\ changed' = changed \cup {t}
    /\ UNCHANGED <<hold, liveBuy, cash, premium, sold, known, ord, lost, oversold>>
    /\ UNCHANGED <<pc, selling, decided, executed, tries, recSold>>

=============================================================================
