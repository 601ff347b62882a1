----------------------------- MODULE TraderAccount -----------------------------
(***************************************************************************)
(* The account at KIS and what the trader knows of it: the snapshot it     *)
(* decides on (account_snapshot.py, trader.py) and the way an order is     *)
(* submitted, with the retries that may leave a copy behind.  The price a  *)
(* quantity is capped at is 1.  A load of the snapshot and a submission    *)
(* are one step each; between them KIS fills orders and the risk manager   *)
(* sells.                                                                  *)
(***************************************************************************)
EXTENDS Integers, FiniteSetsExt

CONSTANTS
    Ticker,
    Starts,     \* how a run may find the account and its settings
    Reserve,    \* min_cash_reserve
    Dear,       \* how much more than it was capped at a share may be ordered for
    MaxEvents   \* bound on snapshots that cannot be loaded or lack an answer,
                \* orders without an answer and sales of the risk manager,
                \* together

ASSUME AccountAssumption ==
    /\ IsFiniteSet(Ticker)
    /\ Starts \subseteq [hold : [Ticker -> Nat], early : SUBSET Ticker, cash : Nat,
                      slots : Nat, rebuy : BOOLEAN]
    /\ Reserve \in Nat /\ Dear \in Nat /\ MaxEvents \in Nat

VARIABLES
    start,      \* the account as the run found it, with the tickers an
                \* earlier run has a live buy order of, max_positions and
                \* allow_rebuy
    hold,       \* KIS: shares held
    liveBuy,    \* KIS: shares of accepted buy orders not filled yet
    liveSell,   \* KIS: the same for sell orders
    cash,       \* KIS: what can be spent on orders
    premium,    \* the most an accepted order cost above what it was capped at
    ord,        \* the accepted order the trader waits for, with its fills
    seen,       \* _latest_account_snapshot
    blocked,    \* _buy_blocked_snapshot
    lost,       \* how many accepted orders the trader was told nothing of
    fails,      \* how many snapshots could not be loaded
    gaps,       \* how many lack an answer of KIS and were taken as good
    risks,      \* how often the risk manager sold
    sold,       \* shares sold in this run
    changed,    \* tickers with less to sell than the last snapshot shows
    oversold    \* tickers the trader sold more of than the snapshot allowed

kis     == <<hold, liveBuy, liveSell, cash, premium, sold>>
known   == <<seen, blocked, fails, gaps>>
account == <<kis, known, ord, lost, risks, changed, oversold>>

Share  == Nat
NoOrd  == [side |-> "none"]
Order  == [side : {"buy", "sell"}, t : Ticker, q : Share, done : Share]
None   == [t \in Ticker |-> 0]

AccountOK ==
    /\ start \in Starts
    /\ {hold, liveBuy, liveSell, sold} \subseteq [Ticker -> Share]
    /\ \A t \in Ticker : liveSell[t] <= hold[t]
    /\ cash \in Share /\ premium \in Nat
    /\ ord \in Order \cup {NoOrd}
    /\ seen \in [ok : BOOLEAN, hold : [Ticker -> Share], sell : [Ticker -> Share], cash : Share]
    /\ blocked \in BOOLEAN /\ {lost, fails, gaps, risks} \subseteq 0 .. MaxEvents
    /\ {changed, oversold} \subseteq SUBSET Ticker

Events == fails + gaps + lost + risks

-----------------------------------------------------------------------------
(* The snapshot                                                            *)

(* compute_sellable_qty: what is held less what is up for sale. *)
Sellable(t) == hold[t] - liveSell[t]

Account ==
    [ok |-> TRUE, hold |-> hold, sell |-> [t \in Ticker |-> Sellable(t)], cash |-> cash]
Failed == [ok |-> FALSE, hold |-> None, sell |-> None, cash |-> 0]

(* A snapshot with shares and no value is kept, but marked as invalid.     *)
Implausible == [Account EXCEPT !.ok = FALSE]

(* load_kis_account_snapshot asks every exchange for holdings and for open *)
(* orders, and once for the cash; an answer KIS refuses counts as an empty *)
(* one, and the snapshot as good.  One answer lacks at a time.             *)
Incomplete ==
    {[Account EXCEPT !.hold[t] = 0, !.sell[t] = 0] : t \in Ticker}
        \cup {[Account EXCEPT !.sell[t] = hold[t]] : t \in Ticker}
        \cup {[Account EXCEPT !.cash = 0]}

(* load_account_snapshot_from_kis: a snapshot that cannot be loaded, or is *)
(* not plausible, blocks buys for good, and so does a doubt about a good   *)
(* one.                                                                    *)
LoadUnless(doubt) ==
    \/ /\ seen' = Account /\ changed' = {}
       /\ blocked' = (blocked \/ doubt)
       /\ UNCHANGED <<fails, gaps>>
    \/ /\ Events < MaxEvents /\ fails' = fails + 1
       /\ seen' \in {Failed, Implausible}
       /\ blocked' = TRUE
       /\ UNCHANGED <<changed, gaps>>
    \/ /\ Events < MaxEvents /\ gaps' = gaps + 1
       /\ seen' \in Incomplete \ {Account}
       /\ changed' = {t \in Ticker : seen'.sell[t] > Sellable(t)}
       /\ blocked' = (blocked \/ doubt)
       /\ UNCHANGED fails

Load == LoadUnless(FALSE)

(* _load_snapshot: a bad snapshot is read as an account that is empty. *)
Holding(t) == IF seen.ok THEN seen.hold[t] ELSE 0
Holdings   == [t \in Ticker |-> Holding(t)]
Cash       == IF seen.ok THEN seen.cash ELSE 0
Held(h)    == {t \in Ticker : h[t] > 0}

(* _get_kis_orderable_cash reads the cash of a bad snapshot as well. *)
Orderable == seen.cash

(* _clamp_sell_qty: 0 skips the sale. *)
SlipClamp(t, q) == q

Clamp(t, q) == Min({q, seen.sell[t]})

(* _sync_remaining_cash_with_kis *)
Synced(c) == IF Orderable <= 0 THEN c ELSE Min({c, Orderable})

(* _cap_buy_to_orderable: the reserve is never spent. *)
SlipCapped(q) == Min({q, Orderable - Reserve})

Capped(q) == Max({0, Min({q, Orderable - Reserve})})

-----------------------------------------------------------------------------
(* Orders                                                                  *)

(* _order_cash_retry: an answer may be lost although KIS took the order;   *)
(* it is then sent again, and in the end answered or refused.  KIS refuses *)
(* what the account does not cover.  A buy costs over more than the cap    *)
(* counted.                                                                *)
Send(side, t, q, over, answered) ==
    \E k \in 0 .. MaxEvents - Events :
      LET copies == k + IF answered THEN 1 ELSE 0
          n      == q * copies
          cost   == (q + over) * copies
          sells  == side = "sell"
      IN
      /\ IF sells THEN n <= Sellable(t) ELSE cost <= cash
      /\ lost' = lost + k
      /\ liveSell' = IF sells THEN [liveSell EXCEPT ![t] = @ + n] ELSE liveSell
      /\ liveBuy'  = IF sells THEN liveBuy ELSE [liveBuy EXCEPT ![t] = @ + n]
      /\ cash' = IF sells THEN cash ELSE cash - cost
      /\ premium' = IF copies = 0 THEN premium ELSE Max({premium, over})
      /\ oversold' = IF sells /\ q > Sellable(t) /\ t \notin changed
                     THEN oversold \cup {t} ELSE oversold
      /\ changed' = IF sells /\ k > 0 THEN changed \cup {t} ELSE changed
      /\ UNCHANGED <<hold, sold, known, risks>>

Answered == ord # NoOrd
Await(side, t, q, answered) ==
    ord' = IF answered THEN [side |-> side, t |-> t, q |-> q, done |-> 0] ELSE NoOrd

(* _list_orders_us, _check_delayed_execution with the id of the order: any *)
(* fill counts as executed, and the reply may come too early.              *)
ExecutedById(yes) == yes => Answered /\ ord.done > 0

(* KIS fills a share, of the order the trader waits for or of another. *)
Fill(side, live) ==
    \E t \in Ticker, mine \in BOOLEAN :
      LET waits == Answered /\ ord.side = side /\ ord.t = t
          left  == IF waits THEN ord.q - ord.done ELSE 0
      IN
      /\ IF mine THEN left > 0 ELSE live[t] > left
      /\ ord' = IF mine THEN [ord EXCEPT !.done = @ + 1] ELSE ord
      /\ IF side = "buy"
         THEN /\ hold' = [hold EXCEPT ![t] = @ + 1]
              /\ liveBuy' = [liveBuy EXCEPT ![t] = @ - 1]
              /\ UNCHANGED <<liveSell, cash, sold>>
         ELSE /\ hold' = [hold EXCEPT ![t] = @ - 1]
              /\ liveSell' = [liveSell EXCEPT ![t] = @ - 1]
              /\ cash' = cash + 1
              /\ sold' = [sold EXCEPT ![t] = @ + 1]
              /\ UNCHANGED liveBuy
      /\ UNCHANGED <<premium, known, lost, risks, changed, oversold>>

=============================================================================
