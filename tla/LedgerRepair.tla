---------------------------- MODULE LedgerRepair -----------------------------
(***************************************************************************)
(* Prices and profits in trade_records, of one ticker: a row is recorded   *)
(* at the price of its order (recorder.record_trade), settled by the       *)
(* reconciler, backfilled at the price of the execution, and repaired from *)
(* the executions KIS reports (ledger_repair.py, started by hand beside    *)
(* the other programs).                                                    *)
(*                                                                         *)
(* The order with number o is orders[o], its row rows[o].  A time is a     *)
(* day: two orders may have the same.  Amounts are left out (price times   *)
(* shares), and of structured_context what the repair compares.            *)
(***************************************************************************)
EXTENDS Integers, Sequences, FiniteSets, Functions

CONSTANTS
    Quotes,             \* prices of an order, per share
    BuyPrices, SellPrices,  \* prices of an execution
    BuyShares, SellShares,  \* shares of an order
    LastDay,            \* the last day
    MaxOrders,          \* bound: orders of the ticker
    MaxOpen,            \* bound: orders not executed or not settled
    MaxOdd              \* bound: orders without time or row, or executed in part

ASSUME RepairAssumption ==
    /\ Quotes \cup BuyPrices \cup SellPrices \cup BuyShares \cup SellShares
          \subseteq Nat \ {0}
    /\ LastDay \in Nat \ {0} /\ {MaxOrders, MaxOpen, MaxOdd} \subseteq Nat

Days == 1 .. LastDay
Prices(side) == IF side = "buy" THEN BuyPrices ELSE SellPrices
Shares(side) == IF side = "buy" THEN BuyShares ELSE SellShares

VARIABLES
    orders,     \* KIS: side, qty, at, timed (KIS gives the time), exe, px
    records,    \* the table, by order
    due,        \* the reconciler: buys it is to correct after a backfill
    tool,       \* ledger_repair: its days, and what it has read
    others      \* history: sells recorded against a buy that was not the last

repairvars == <<orders, records, due, tool, others>>

NoNote == [px |-> 0, gross |-> 0, complete |-> FALSE, lots |-> <<>>]
NoTool == [from |-> 0, to |-> 0, kis |-> <<>>, rows |-> <<>>]

RepairInit == orders = <<>> /\ records = <<>> /\ due = {} /\ tool = NoTool /\ others = {}

(* f[1] + ... + f[n] *)
Sum(f, n) ==
    LET s[i \in 0 .. n] == IF i = 0 THEN 0 ELSE s[i - 1] + f[i]
    IN s[n]

(* Shares executed, by order, on one side; and of the sells, those to come. *)
Filled(side) ==
    [o \in DOMAIN orders |-> IF orders[o].side = side THEN orders[o].exe ELSE 0]
ToSell ==
    [o \in DOMAIN orders |->
        IF orders[o].side = "sell" THEN orders[o].qty - orders[o].exe ELSE 0]
Held     == Sum(Filled("buy"), Len(orders)) - Sum(Filled("sell"), Len(orders))
Promised == Sum(ToSell, Len(orders))

BuyRows  == {b \in DOMAIN records : orders[b].side = "buy"}
After(b, c)  == orders[b].at > orders[c].at \/ (orders[b].at = orders[c].at /\ b >= c)
Earliest(S)  == CHOOSE b \in S : \A c \in S : After(c, b)
Latest(S)    == CHOOSE b \in S : \A c \in S : After(b, c)

OrderType == [side : {"buy", "sell"}, qty : Nat \ {0}, at : Days, timed : BOOLEAN,
              exe : Nat, px : Nat]
NoteType  == [px : Nat, gross : Int, complete : BOOLEAN, lots : Seq(Nat \X Nat)]
RecordType == [price : Nat \ {0}, pnl : Int, exe : Nat, aware : BOOLEAN,
               status : {"pending", "partial", "executed"}, note : NoteType]

OrdersOK(ords) ==
    /\ ords \in Seq(OrderType)
    /\ \A o \in DOMAIN ords :
          /\ ords[o].exe <= ords[o].qty /\ ords[o].qty \in Shares(ords[o].side)
          /\ IF ords[o].exe > 0 THEN ords[o].px \in Prices(ords[o].side)
                                ELSE ords[o].px = 0

RecordsOK(table, ords) ==
    /\ DOMAIN table \subseteq DOMAIN ords
    /\ table \in [DOMAIN table -> RecordType]
    /\ \A o \in DOMAIN table :
          /\ table[o].price \in Quotes \cup {ords[o].px}
          /\ table[o].exe <= ords[o].exe
          /\ ords[o].side = "buy" => table[o].pnl = 0
          /\ table[o].note.px \in {0, ords[o].px}
          /\ table[o].note.px > 0 => table[o].aware /\ table[o].status = "executed"

RepairTypeOK ==
    /\ OrdersOK(orders) /\ RecordsOK(records, orders)
    /\ OrdersOK(tool.kis) /\ RecordsOK(tool.rows, tool.kis)
    /\ Held >= Promised
    /\ due \subseteq DOMAIN orders /\ others \subseteq DOMAIN orders

-----------------------------------------------------------------------------
(* The trader and the risk manager: an order, and record_trade *)

NewRecord(price, pnl) ==
    [price |-> price, pnl |-> pnl, exe |-> 0, status |-> "pending", aware |-> FALSE,
     note |-> NoNote]

(* The profit of a sell is counted from buy_trades[-1]; the rows come by   *)
(* descending time, so that this is the earliest buy.                      *)
RecordedPnl(price, qty) ==
    IF BuyRows = {} THEN 0 ELSE (price - records[Earliest(BuyRows)].price) * qty

(* Its age is now() less the time of the row: an error if that has a zone, *)
(* as the rows of the repair and of the backfill have.                     *)
Recordable(side) ==
    side = "sell" /\ BuyRows # {} => ~records[Earliest(BuyRows)].aware

(* Bound: one step of the others while the repair is at work. *)
Fresh == tool # NoTool => tool.kis = orders /\ tool.rows = records

PutRecord(o, r) ==
    records' = [p \in DOMAIN records \cup {o} |-> IF p = o THEN r ELSE records[p]]

Executed(k) == k.exe = k.qty
KisStatus(k) == IF k.exe = 0 THEN "pending"
                ELSE IF Executed(k) THEN "executed" ELSE "partial"

(* The orders the bounds count. *)
Unsettled == {o \in DOMAIN orders :
                 \/ orders[o].exe = 0
                 \/ o \in DOMAIN records /\ records[o].status # KisStatus(orders[o])}
Odd == {o \in DOMAIN orders : \/ ~orders[o].timed \/ o \notin DOMAIN records
                              \/ orders[o].exe \in 1 .. orders[o].qty - 1}

Trade(side, qty, at, timed, price) ==
    LET o == Len(orders) + 1
        sell == side = "sell" IN
    /\ Fresh /\ Len(orders) < MaxOrders
    /\ Cardinality(Unsettled) < MaxOpen
    /\ \A p \in DOMAIN orders : orders[p].at <= at
    /\ sell => Held - Promised >= qty
    /\ timed \/ Cardinality(Odd) < MaxOdd
    /\ orders' = Append(orders, [side |-> side, qty |-> qty, at |-> at,
                                 timed |-> timed, exe |-> 0, px |-> 0])
    /\ \/ /\ ~Recordable(side) \/ Cardinality(Odd) < MaxOdd
          /\ UNCHANGED <<records, others>>      \* no row: see OrderPersist
       \/ /\ Recordable(side)
          /\ PutRecord(o, NewRecord(price, IF sell THEN RecordedPnl(price, qty) ELSE 0))
          /\ others' = IF sell /\ BuyRows # {} /\ Earliest(BuyRows) # Latest(BuyRows)
                       THEN others \cup {o} ELSE others
    /\ UNCHANGED <<due, tool>>

Execute(o, qty, price) ==
    /\ Fresh /\ orders[o].exe = 0
    /\ qty = orders[o].qty \/ Cardinality(Odd) < MaxOdd
    /\ orders' = [orders EXCEPT ![o].exe = qty, ![o].px = price]
    /\ UNCHANGED <<records, due, tool, others>>

-----------------------------------------------------------------------------
(* The reconciler *)

(* compute_fifo_sell_pnl: against the last buy up to the sell.  An error   *)
(* if a time has a zone and the other has none.                            *)
BuysUpTo(o) == {b \in BuyRows : orders[b].at <= orders[o].at}
Comparable(o) == \A b \in BuyRows : records[b].aware = records[o].aware
Recomputed(o, qty) ==
    IF BuysUpTo(o) = {} THEN 0
    ELSE (records[o].price - records[Latest(BuysUpTo(o))].price) * qty

(* update_order_status of an open row, recompute_profit_loss_for_order_id. *)
Settle(o) ==
    LET k == orders[o] IN
    /\ Fresh /\ o \in DOMAIN records /\ records[o].status # "executed"
    /\ KisStatus(k) # records[o].status
    /\ records' = [records EXCEPT
          ![o].status = KisStatus(k), ![o].exe = k.exe,
          ![o].pnl = IF k.side = "sell" /\ Executed(k) /\ Comparable(o)
                     THEN Recomputed(o, k.exe) ELSE @]
    /\ UNCHANGED <<orders, due, tool, others>>

(* _find_matching_buy_fill_from_ccnl: the last executed buy up to the day  *)
(* of the sell, the sell before or after it.                               *)
MatchingBuys(o) ==
    {b \in DOMAIN orders : /\ orders[b].side = "buy" /\ Executed(orders[b])
                           /\ orders[b].at <= orders[o].at}

(* Slip: the row of the buy stays as open as it is. *)
SlipCorrected(r, k) == [r EXCEPT !.price = k.px, !.aware = TRUE, !.note.px = k.px]

(* correct_executed_price_from_ccnl, of the row of that buy: its shares are *)
(* those the row has, or else those asked for.                             *)
Corrected(r, k) ==
    [r EXCEPT !.price = k.px, !.status = "executed", !.aware = TRUE, !.note.px = k.px,
              !.exe = IF @ > 0 THEN @ ELSE k.qty]

(* backfill_broker_only_orders, one order after the other: its row is      *)
(* written, then the buy is corrected.                                     *)
BackfillRecord(o) ==
    LET k == orders[o]
        sell == k.side = "sell" /\ MatchingBuys(o) # {}
        b == Latest(MatchingBuys(o))
        gross == IF sell THEN (k.px - orders[b].px) * k.qty ELSE 0
        new == [price |-> k.px, pnl |-> gross, exe |-> k.exe, status |-> "executed",
                aware |-> TRUE,
                note |-> [NoNote EXCEPT !.px = k.px, !.gross = gross, !.complete = sell]]
    IN
    /\ Fresh /\ due = {} /\ o \notin DOMAIN records /\ Executed(k) /\ k.timed
    /\ PutRecord(o, new)
    /\ due' = IF sell THEN {b} ELSE {}
    /\ UNCHANGED <<orders, tool, others>>

(* Nothing is corrected without a row, or when the reconciler is killed.   *)
CorrectBuy(b) ==
    /\ Fresh /\ b \in due
    /\ due' = due \ {b}
    /\ \/ b \in DOMAIN records /\ PutRecord(b, Corrected(records[b], orders[b]))
       \/ UNCHANGED records
    /\ UNCHANGED <<orders, tool, others>>

-----------------------------------------------------------------------------
(* ledger_repair *)

(* One lot in turn: l.qty shares of the order l.buy.  Slip: its shares stay. *)
SlipTake(a, l, price) ==
    LET n == IF l.qty < a.left THEN l.qty ELSE a.left IN
    [left  |-> a.left - n,
     gross |-> a.gross + (price - l.px) * n,
     used  |-> IF n = 0 THEN a.used ELSE Append(a.used, <<l.buy, n>>),
     rest  |-> Append(a.rest, l)]

Take(a, l, price) ==
    LET n == IF l.qty < a.left THEN l.qty ELSE a.left IN
    [left  |-> a.left - n,
     gross |-> a.gross + (price - l.px) * n,
     used  |-> IF n = 0 THEN a.used ELSE Append(a.used, <<l.buy, n>>),
     rest  |-> IF n = l.qty THEN a.rest
               ELSE Append(a.rest, [l EXCEPT !.qty = @ - n])]

(* The shares of a sell are taken from the lots in turn. *)
FifoMatchSell(lots, price, qty) ==
    LET taken[i \in 0 .. Len(lots)] ==
            IF i = 0 THEN [left |-> qty, gross |-> 0, used |-> <<>>, rest |-> <<>>]
            ELSE Take(taken[i - 1], lots[i], price)
    IN taken[Len(lots)]

(* Executed in full, in the days asked for, at a known time. *)
Usable(w) == {o \in DOMAIN w.kis : /\ w.kis[o].at \in w.from .. w.to
                                   /\ Executed(w.kis[o]) /\ w.kis[o].timed}

(* The order of the timeline: at the same time buys come before sells. *)
Before(ords, o, p) ==
    LET rank(q) == IF ords[q].side = "buy" THEN 0 ELSE 1 IN
    \/ ords[o].at < ords[p].at
    \/ /\ ords[o].at = ords[p].at
       /\ rank(o) < rank(p) \/ (rank(o) = rank(p) /\ o < p)
LastOf(ords, S) == CHOOSE o \in S : \A p \in S \ {o} : Before(ords, p, o)

(* The lots left after a part S of the timeline of the orders U. *)
LotsAfter(ords, U) ==
    LET lots[S \in SUBSET U] ==
            IF S = {} THEN <<>>
            ELSE LET o == LastOf(ords, S)
                     before == lots[S \ {o}] IN
                 IF ords[o].side = "buy"
                 THEN Append(before, [buy |-> o, qty |-> ords[o].exe, px |-> ords[o].px])
                 ELSE FifoMatchSell(before, ords[o].px, ords[o].exe).rest
    IN lots

(* What each sell is matched with: all usable orders count, rows or not. *)
MatchOf(ords, U, o) ==
    LET m == FifoMatchSell(LotsAfter(ords, U)[{p \in U : Before(ords, p, o)}],
                           ords[o].px, ords[o].exe) IN
    [gross |-> IF m.left = 0 THEN m.gross ELSE 0, complete |-> m.left = 0,
     lots |-> m.used]
Matches(ords, U) ==
    [o \in {p \in U : ords[p].side = "sell"} |-> MatchOf(ords, U, o)]

(* The row afterwards: a sell without all its lots keeps its profit. *)
AfterFields(r, k, m) ==
    [price |-> k.px, pnl |-> IF k.side = "sell" /\ m.complete THEN m.gross ELSE r.pnl,
     exe |-> k.exe, status |-> "executed", aware |-> TRUE,
     note |-> IF k.side = "buy" THEN [r.note EXCEPT !.px = k.px]
              ELSE [px |-> k.px, gross |-> m.gross, complete |-> m.complete,
                    lots |-> m.lots]]

(* The rows to change, as they will be; the zone alone is no change. *)
NewFields(w, o) ==
    AfterFields(w.rows[o], w.kis[o],
                IF w.kis[o].side = "sell" THEN Matches(w.kis, Usable(w))[o] ELSE NoNote)
Changed(w) ==
    {o \in Usable(w) \cap DOMAIN w.rows :
        [NewFields(w, o) EXCEPT !.aware = w.rows[o].aware] # w.rows[o]}
Proposed(w) == [o \in Changed(w) |-> NewFields(w, o)]

(* The total it reports, of the sells that have a row. *)
Total(f) == FoldFunction(+, 0, f)
GrossTotal(w) ==
    LET match == Matches(w.kis, Usable(w)) IN
    Total([o \in DOMAIN match \cap DOMAIN w.rows |-> match[o].gross])

(* The executions of some days, and the rows, are read; without any it is  *)
(* over.                                                                   *)
Read(from, to) ==
    LET read == [from |-> from, to |-> to, kis |-> orders, rows |-> records] IN
    /\ tool = NoTool
    /\ Usable(read) \cap DOMAIN records # {}
    /\ tool' = read
    /\ UNCHANGED <<orders, records, due, others>>

(* One transaction; a row more than before rolls it back. *)
Apply ==
    LET new == Proposed(tool) IN
    /\ tool # NoTool
    /\ tool' = NoTool
    /\ records' = IF DOMAIN records = DOMAIN tool.rows
                  THEN [o \in DOMAIN records |->
                           IF o \in DOMAIN new THEN new[o] ELSE records[o]]
                  ELSE records
    /\ UNCHANGED <<orders, due, others>>

(* A dry run, an error or a kill. *)
Leave == tool # NoTool /\ tool' = NoTool /\ UNCHANGED <<orders, records, due, others>>

RepairNext ==
    \/ \E side \in {"buy", "sell"}, at \in Days, timed \in BOOLEAN, price \in Quotes :
          \E qty \in Shares(side) : Trade(side, qty, at, timed, price)
    \/ \E o \in DOMAIN orders :
          \/ \E qty \in 1 .. orders[o].qty, price \in Prices(orders[o].side) : Execute(o, qty, price)
          \/ Settle(o) \/ BackfillRecord(o) \/ CorrectBuy(o)
    \/ \E from, to \in Days : from <= to /\ Read(from, to)
    \/ Apply \/ Leave

RepairSpec == RepairInit /\ [][RepairNext]_repairvars

-----------------------------------------------------------------------------
(* Properties *)

(* First in, first out, share by share: the n-th share sold is the n-th    *)
(* share bought.                                                           *)
BuyOf(n) ==
    CHOOSE b \in DOMAIN orders :
       /\ orders[b].side = "buy"
       /\ Sum(Filled("buy"), b - 1) < n /\ n <= Sum(Filled("buy"), b)
TrueGross(o) ==
    LET sold == Sum(Filled("sell"), o - 1) IN
    Sum([i \in 1 .. orders[o].exe |-> orders[o].px - orders[BuyOf(sold + i)].px],
        orders[o].exe)

(* A repair of all days, with every order executed in full and nothing     *)
(* written since it read, gives each sell that has a row the profit of the *)
(* shares it sold, reports their sum, and leaves nothing to repair.        *)
RepairExact ==
    [][Apply /\ tool.from = 1 /\ tool.to = LastDay
       /\ tool.rows = records /\ tool.kis = orders
       /\ (\A o \in DOMAIN orders : Executed(orders[o]) /\ orders[o].timed)
       => LET sells == {o \in DOMAIN records : orders[o].side = "sell"} IN
          /\ \A o \in sells : records'[o].pnl = TrueGross(o)
          /\ GrossTotal(tool) = Total([o \in sells |-> records'[o].pnl])
          /\ Changed([from |-> 1, to |-> LastDay, kis |-> orders, rows |-> records']) = {}
      ]_repairvars

(* A documented claim the code does not keep: the profit of a sell is      *)
(* recorded against the last buy (recorder.py 1605).                       *)
RecordedAgainstLastBuy == others = {}
=============================================================================
