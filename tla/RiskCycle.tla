------------------------------- MODULE RiskCycle -------------------------------
(***************************************************************************)
(* The background risk loop of integrated_manager.py and the cycle of      *)
(* risk_manager.py it runs every five minutes of a session: the balance    *)
(* file is read, then one holding after the other is judged and, if need   *)
(* be, sold, while KIS fills orders, the trader buys, prices move and the  *)
(* reconciler catches up with the trade table.  How an order is recorded   *)
(* durably is OrderPersist's subject; here it is saved or it is not.       *)
(***************************************************************************)
EXTENDS RiskRules, FiniteSetsExt

CONSTANTS
    Ticker,
    Begin,      \* rules switched on, and shares the trader buys of a ticker
    MaxFaults   \* bound on what goes wrong

ASSUME CycleAssumption ==
    /\ Begin \subseteq [rules : Rulesets, lot : [Ticker -> Nat]]
    /\ MaxFaults \in Nat

VARIABLES
    config,
    open,       \* the session, and with it the sell windows
    qty,        \* KIS: shares held
    pending,    \* KIS: shares of sell orders not filled yet
    crashed,    \* tickers whose price has crashed
    file,       \* the balance file: shares, and the tickers seen crashed
    age,        \* whether the minimum holding time has passed
    row,        \* what the latest BUY row of the trade table says of that
    sellRow,    \* tickers with an open SELL row
    lock,       \* orders that could not be recorded, by ticker
    flagged,    \* tickers with a partial sale in the flags file
    lost,       \* history: held, bought without a row after an earlier purchase
    loop,       \* where the loop is
    client,     \* whether it could make a KIS client when it started
    faults

market  == <<qty, pending, crashed>>
table   == <<row, sellRow, lock, flagged>>
holding == <<age, lost>>
vars    == <<config, open, market, file, holding, table, loop, client, faults>>

Ages   == {"young", "old"}
Rest   == [at |-> "rest"]
Dead   == [at |-> "dead"]
Judging(todo) == [at |-> "judge", todo |-> todo]
Empty  == [n |-> [t \in Ticker |-> 0], crashed |-> {}]

Fault == faults < MaxFaults /\ faults' = faults + 1

Init ==
    /\ config \in Begin
    /\ open = FALSE
    /\ \E h \in SUBSET {t \in Ticker : config.lot[t] > 0} :
          /\ qty = [t \in Ticker |-> IF t \in h THEN config.lot[t] ELSE 0]
          /\ row = [t \in Ticker |-> IF t \in h THEN "old" ELSE "none"]
    /\ pending = Empty.n /\ crashed = {}
    /\ file = Empty
    /\ age = [t \in Ticker |-> "old"] /\ lost = {}
    /\ sellRow = {} /\ flagged = {}
    /\ lock = [t \in Ticker |-> "none"]
    /\ loop = Dead /\ client = FALSE /\ faults = 0

-----------------------------------------------------------------------------
(* The loop                                                                *)

(* The watchdog starts the thread when it is not alive.  A KIS client that *)
(* cannot be made, say because the file of the token cannot be read or     *)
(* written, is not tried again while the thread lives; a token that KIS    *)
(* refuses is asked for again with the next request.                       *)
Start ==
    /\ loop = Dead
    /\ loop' = Rest
    /\ \/ client' = TRUE /\ UNCHANGED faults
       \/ client' = FALSE /\ Fault
    /\ UNCHANGED <<config, open, market, file, holding, table>>

(* The container is restarted. *)
Crash ==
    /\ loop # Dead
    /\ loop' = Dead /\ Fault
    /\ UNCHANGED <<config, open, market, file, holding, table, client>>

Listed(f) == {t \in Ticker : f.n[t] > 0}

(* account.py writes the balance file, or fails and leaves the old one. *)
Refresh ==
    \/ file' = [n |-> qty, crashed |-> crashed] /\ UNCHANGED faults
    \/ file' = file /\ Fault

(* An account without holdings may start a run of the trader, which the    *)
(* cycle waits for: its cash, the hour and a cooldown decide.              *)
NothingListed == loop' \in {Rest, [at |-> "trader"]}

BeginCycle ==
    /\ loop = Rest /\ open
    /\ Refresh
    /\ IF Listed(file') = {} THEN NothingListed ELSE loop' = Judging(Listed(file'))
    /\ UNCHANGED <<config, open, market, holding, table, client>>

(* The trader ends, or is stopped after twenty minutes. *)
TraderEnds ==
    /\ loop.at = "trader"
    /\ loop' = Rest
    /\ UNCHANGED <<config, open, market, file, holding, table, client, faults>>

-----------------------------------------------------------------------------
(* One holding                                                             *)

(* check_min_holding_hours keeps what has no BUY row,                      *)
(* check_min_holding_period lets it pass.                                  *)
SlipHours(t) == row[t] # "young"

Hours(t) == row[t] = "old"

Days(t)  == row[t] # "young"

PriceOf(t) == IF t \in file.crashed THEN {CrashPrice} ELSE Prices

(* What the rules can decide, over all facts a judgement may meet. *)
Situations == [rules : Rulesets, price : {CrashPrice} \cup Prices, window : BOOLEAN,
               hours : BOOLEAN, days : BOOLEAN]
Decided ==
    UNION {{<<s, Decide(s.rules, f)>> :
                f \in Facts(s.rules, s.price, s.window, s.hours, s.days)} : s \in Situations}

Situation(t, p) ==
    [rules |-> config.rules, price |-> p, window |-> open, hours |-> Hours(t), days |-> Days(t)]

(* _can_direct_sell_now: only an emergency may sell before its time. *)
CanSell(t, kind) == client /\ open /\ (kind = "emergency" \/ Hours(t))

(* _can_direct_partial_sell_now *)
CanTakePart(t) ==
    client /\ open /\ row[t] # "none" /\ t \notin flagged \cup sellRow

Skip(t) == loop' = Judging(loop.todo \ {t})

(* unaware: history, whether the rows do not tell of the holding itself. *)
ToOrder(t, n, kind) ==
    loop' = [at |-> "order", todo |-> loop.todo \ {t}, t |-> t, n |-> n,
             kind |-> kind, unaware |-> t \in lost]

(* A holding is judged by what the file says of it, and by the rows now.   *)
(* A failing rule ends the cycle; a holding without a price is left out.   *)
Judge(t) ==
    /\ loop.at = "judge" /\ t \in loop.todo
    /\ \/ /\ UNCHANGED faults
          /\ \E p \in PriceOf(t), d \in Decision :
                /\ <<Situation(t, p), d>> \in Decided
                /\ CASE d = "fail" -> loop' = Rest
                     [] d \in {"emergency", "whole"} /\ CanSell(t, d) ->
                            ToOrder(t, file.n[t], d)
                     [] d = "part" /\ CanTakePart(t) ->
                            ToOrder(t, PartialQty(file.n[t]), d)
                     [] OTHER -> Skip(t)
       \/ Skip(t) /\ Fault
    /\ UNCHANGED <<config, open, market, file, holding, table, client>>

CycleEnds ==
    /\ loop.at = "judge" /\ loop.todo = {}
    /\ loop' = Rest
    /\ UNCHANGED <<config, open, market, file, holding, table, client, faults>>

-----------------------------------------------------------------------------
(* The order                                                               *)

Free(t) == qty[t] - pending[t]
Accepted(t, n) == n <= Free(t) /\ pending' = [pending EXCEPT ![t] = @ + n]

(* The row of a sale; a partial sale is flagged with it. *)
Recorded(t, kind) ==
    /\ sellRow' = sellRow \cup {t}
    /\ flagged' = IF kind = "part" THEN flagged \cup {t} ELSE flagged
    /\ UNCHANGED <<row, lock>>

(* The order is refused, by the lock of the ticker or by KIS; or accepted  *)
(* and recorded, or locked because it cannot be recorded, or accepted with *)
(* the answer lost.                                                        *)
Order ==
    /\ loop.at = "order" /\ open
    /\ loop' = Judging(loop.todo)
    /\ \/ /\ lock[loop.t] # "none" \/ loop.n > Free(loop.t)
          /\ UNCHANGED <<pending, table, faults>>
       \/ /\ lock[loop.t] = "none"
          /\ \/ Fault /\ UNCHANGED <<pending, table>>
             \/ /\ Accepted(loop.t, loop.n) /\ Recorded(loop.t, loop.kind)
                /\ UNCHANGED faults
             \/ /\ Accepted(loop.t, loop.n) /\ Fault
                /\ lock' = [lock EXCEPT ![loop.t] =
                                IF loop.kind = "part" THEN "part" ELSE "whole"]
                /\ UNCHANGED <<row, sellRow, flagged>>
             \/ Accepted(loop.t, loop.n) /\ Fault /\ UNCHANGED table
    /\ UNCHANGED <<config, open, qty, crashed, file, holding, client>>

(* After the session KIS refuses the order. *)
OrderTooLate ==
    /\ loop.at = "order" /\ ~open
    /\ loop' = Judging(loop.todo)
    /\ UNCHANGED <<config, open, market, file, holding, table, client, faults>>

-----------------------------------------------------------------------------
(* Around it                                                               *)

(* KIS fills a share; the average price and the age are the holding's and  *)
(* go with it.                                                             *)
Fill(t) ==
    /\ pending[t] > 0
    /\ qty' = [qty EXCEPT ![t] = @ - 1] /\ pending' = [pending EXCEPT ![t] = @ - 1]
    /\ IF qty[t] > 1 THEN UNCHANGED <<crashed, holding>>
       ELSE /\ crashed' = crashed \ {t} /\ lost' = lost \ {t}
            /\ age' = [age EXCEPT ![t] = "old"]
    /\ UNCHANGED <<config, open, file, table, loop, client, faults>>

(* The reconciler records what was locked, closes the rows of orders that  *)
(* ended and adds a BUY row that is missing.                               *)
Reconcile(t) ==
    /\ \/ /\ lock[t] # "none"
          /\ lock' = [lock EXCEPT ![t] = "none"]
          /\ sellRow' = IF pending[t] > 0 THEN sellRow \cup {t} ELSE sellRow
          /\ flagged' = IF lock[t] = "part" THEN flagged \cup {t} ELSE flagged
          /\ UNCHANGED <<row, lost>>
       \/ /\ t \in sellRow /\ pending[t] = 0
          /\ sellRow' = sellRow \ {t} /\ UNCHANGED <<row, lock, flagged, lost>>
       \/ /\ qty[t] > 0 /\ age[t] = "young" /\ row[t] # "young"
          /\ row' = [row EXCEPT ![t] = "young"] /\ lost' = lost \ {t}
          /\ UNCHANGED <<sellRow, lock, flagged>>
    /\ UNCHANGED <<config, open, market, file, age, loop, client, faults>>

Ordering(t) == loop.at = "order" /\ loop.t = t

(* A run of the trader buys what is not held, and records it or fails to;  *)
(* an order in hand was judged of what was held before.                    *)
Buy(t) ==
    /\ open /\ qty[t] = 0 /\ config.lot[t] > 0
    /\ qty' = [qty EXCEPT ![t] = config.lot[t]]
    /\ age' = [age EXCEPT ![t] = "young"]
    /\ \/ row' = [row EXCEPT ![t] = "young"] /\ UNCHANGED <<lost, faults>>
       \/ /\ UNCHANGED row /\ Fault
          /\ lost' = IF row[t] = "none" THEN lost ELSE lost \cup {t}
    /\ loop' = IF Ordering(t) THEN [loop EXCEPT !.unaware = TRUE] ELSE loop
    /\ UNCHANGED <<config, open, pending, crashed, file, sellRow, lock, flagged, client>>

PriceMoves(t) ==
    /\ open /\ qty[t] > 0
    /\ crashed' = IF t \in crashed THEN crashed \ {t} ELSE crashed \cup {t}
    /\ UNCHANGED <<config, open, qty, pending, file, holding, table, loop, client, faults>>

Opens ==
    /\ ~open /\ open' = TRUE
    /\ UNCHANGED <<config, market, file, holding, table, loop, client, faults>>

(* The session ends, and with it the orders of the day. *)
Closes ==
    /\ open /\ open' = FALSE
    /\ pending' = Empty.n
    /\ UNCHANGED <<config, qty, crashed, file, holding, table, loop, client, faults>>

(* Flags expire after a week.  After two a purchase is old in the table,   *)
(* and with it the holding, unless that was bought later.                  *)
WeeksPass(t) ==
    /\ ~open /\ loop \in {Rest, Dead}
    /\ \/ t \in flagged /\ flagged' = flagged \ {t} /\ UNCHANGED <<holding, row>>
       \/ /\ row[t] = "young" /\ row' = [row EXCEPT ![t] = "old"]
          /\ age' = IF t \in lost THEN age ELSE [age EXCEPT ![t] = "old"]
          /\ UNCHANGED <<lost, flagged>>
       \/ /\ row[t] # "young" /\ age[t] = "young"
          /\ age' = [age EXCEPT ![t] = "old"] /\ lost' = lost \ {t}
          /\ UNCHANGED <<row, flagged>>
    /\ UNCHANGED <<config, open, market, file, sellRow, lock, loop, client, faults>>

Loop == Start \/ BeginCycle \/ TraderEnds \/ (\E t \in Ticker : Judge(t)) \/ CycleEnds
            \/ Order \/ OrderTooLate

Next ==
    \/ Loop
    \/ Crash \/ Opens \/ Closes
    \/ \E t \in Ticker : Fill(t) \/ Reconcile(t) \/ Buy(t) \/ PriceMoves(t) \/ WeeksPass(t)

Spec == Init /\ [][Next]_vars

(* The watchdog looks every minute, the loop runs on its own thread. *)
FairSpec == Spec /\ WF_vars(Loop)

-----------------------------------------------------------------------------
(* What must hold                                                          *)

(* Every variable has its type, and no more is up for sale than is held.   *)
TypeOK ==
    /\ config \in Begin /\ open \in BOOLEAN /\ client \in BOOLEAN
    /\ qty \in [Ticker -> Nat] /\ pending \in [Ticker -> Nat]
    /\ \A t \in Ticker : qty[t] <= config.lot[t] /\ pending[t] <= qty[t]
    /\ crashed \subseteq Ticker /\ sellRow \subseteq Ticker /\ flagged \subseteq Ticker
    /\ file \in [n : [Ticker -> Nat], crashed : SUBSET Ticker]
    /\ \A t \in Ticker : file.n[t] <= config.lot[t]
    /\ age \in [Ticker -> Ages] /\ lost \subseteq Ticker /\ row \in [Ticker -> Ages \cup {"none"}]
    /\ lock \in [Ticker -> {"none", "whole", "part"}]
    /\ faults \in 0 .. MaxFaults
    /\ \/ loop \in {Rest, Dead, [at |-> "trader"]}
       \/ loop.at = "judge" /\ loop.todo \subseteq Ticker
       \/ /\ loop.at = "order" /\ loop.todo \subseteq Ticker /\ loop.t \in Ticker
          /\ loop.n \in 1 .. config.lot[loop.t] /\ loop.kind \in Decision
          /\ loop.unaware \in BOOLEAN

(* Outside an emergency a holding is put up for sale as a whole only after *)
(* its minimum holding time, counted from its own purchase: however old    *)
(* the balance file, through restarts, partial sales and purchases that    *)
(* left no row.  The exceptions are the two the table cannot tell apart: a *)
(* purchase that left no row after an earlier one of the ticker had, until *)
(* the reconciler adds it, and one made when the order was in hand.        *)
Unripe(t) == pending'[t] > pending[t] /\ loop.kind = "whole" /\ age[t] = "young"
YoungKept == [][\A t \in Ticker : Unripe(t) => loop.unaware]_vars

(* A holding that has crashed is put up for sale within the session, after *)
(* any fault: unless its sale is locked, the loop came up without KIS or a *)
(* rule that fails is switched on.                                         *)
Endangered(t) ==
    /\ ~config.rules.prevBreak
    /\ open /\ client /\ t \in crashed /\ qty[t] > 0 /\ pending[t] = 0 /\ lock[t] = "none"
EmergencyActed == \A t \in Ticker : Endangered(t) ~> ~Endangered(t)

=============================================================================
