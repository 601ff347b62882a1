-------------------------------- MODULE TraderRun --------------------------------
(***************************************************************************)
(* A whole run of trader.py, sales and then buys, beside the risk manager  *)
(* and while KIS fills orders; and what must hold of it.                   *)
(***************************************************************************)
EXTENDS TraderBuys

vars == <<start, account, sellvars, buyvars>>

(* The account may have buy orders of an earlier run, and the trade table  *)
(* an open SELL row.                                                       *)
Init ==
    /\ start \in Starts
    /\ hold = start.hold /\ cash = start.cash /\ premium = 0
    /\ liveBuy = [t \in Ticker |-> IF t \in start.early THEN 1 ELSE 0]
    /\ liveSell = None /\ ord = NoOrd /\ sold = None
    /\ seen = Failed /\ blocked = FALSE /\ fails = 0 /\ gaps = 0 /\ lost = 0 /\ risks = 0
    /\ changed = {} /\ oversold = {}
    /\ pc = "start" /\ hs = None /\ book = {} /\ money = 0 /\ todo = {} /\ cur = NoTicker
    /\ rowSell = {} /\ open = {} /\ adjusted = FALSE /\ executed = FALSE
    /\ tries = 0 /\ recSold = None
    /\ targets = <<>> /\ queue = <<>> /\ failed = <<>> /\ new = <<>>
    /\ round = 0 /\ success = FALSE /\ remaining = 0 /\ eff = 0 /\ q = 0 /\ pre = 0 /\ loose = {}

Sells   == SellStep /\ UNCHANGED <<buyvars, start>>
Buys    == BuyStep /\ UNCHANGED start
FillBuy  == Fill("buy", liveBuy)
FillSell == Fill("sell", liveSell)
Broker  == (FillBuy \/ FillSell) /\ UNCHANGED <<sellvars, buyvars, start>>
Risk    == (\E t \in Ticker : RiskSell(t)) /\ UNCHANGED <<buyvars, start>>

Next == Sells \/ Buys \/ Broker \/ Risk
Spec == Init /\ [][Next]_vars

-----------------------------------------------------------------------------
(* What must hold                                                          *)

(* Every variable has its type. *)
TypeOK == AccountOK /\ SellsOK /\ BuysOK

(* However the rebalancing, the partial sales, the sales, the fills and    *)
(* the loads follow one another, the trader never asks KIS to sell more    *)
(* than is free to be sold, unless the risk manager or an order with a     *)
(* lost answer took it since the last snapshot.                            *)
OversellOnlyRaced == oversold = {}

(* While every snapshot was loaded and complete, the rows of the run never *)
(* say more was sold of a ticker than was.                                 *)
SalesRecordedHappened == fails + gaps = 0 => \A t \in Ticker : recSold[t] <= sold[t]

(* The run leaves no more positions, held or ordered, than there are slots *)
(* or were before: also when a snapshot fails, holdings are sold beside it *)
(* or rounds repeat, but not if an exchange gives no answer.  Orders of an *)
(* earlier run do not count.                                               *)
Positions == Held(hold) \cup Held(liveBuy)
SlotsRespected ==
    gaps = 0 =>
      Cardinality(Positions \ start.early) <= Max({start.slots, Cardinality(Held(start.hold))})

(* However many rounds, fallbacks and extra buys there are, the cash that  *)
(* is to be kept is cut into by no more than what a single order cost      *)
(* above the price it was capped at, unless an answer was lost: an order   *)
(* that crosses the spread is not capped again, but the next one is.       *)
ReserveKept == lost = 0 => cash + premium >= Min({Reserve, start.cash})

(* Slots and reserve, the two limits of the buys of a run. *)
BuyLimits == SlotsRespected /\ ReserveKept

(* What is bought of a ticker in one run, in all rounds and with every     *)
(* fallback, is at most one order's worth, unless an answer was lost or an *)
(* accepted order was given up on without being cancelled.                 *)
Taken(t) == hold[t] + sold[t] + liveBuy[t] - start.hold[t]
                - (IF t \in start.early THEN 1 ELSE 0)
BoughtAsPlanned ==
    lost = 0 => \A t \in Ticker \ loose : Taken(t) <= MaxShares

=============================================================================
