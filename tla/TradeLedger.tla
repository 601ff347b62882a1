----------------------------- MODULE TradeLedger -----------------------------
(***************************************************************************)
(* The rows of trade_records and the programs that write them: the risk    *)
(* manager and the trader after an order, the batch check of the trader,   *)
(* and the order reconciler (recorder.py, trader.py, order_reconciler.py), *)
(* against what KIS has done with the orders.                              *)
(*                                                                         *)
(* One ticker: the rows of two tickers never meet.  Every order is for Lot *)
(* shares, so that rows without an order id match by quantity.  An upsert  *)
(* is a SELECT and a write on separate connections; every other statement  *)
(* is one step.  The trader and its batch check run one after the other,   *)
(* the risk manager and the reconciler (also started by hand) beside them. *)
(***************************************************************************)
EXTENDS Naturals, Sequences, FiniteSetsExt

CONSTANTS
    Order, Buys,    \* orders and the buys among them
    Lot,            \* shares of an order
    Owned,          \* shares held at the start
    NoOrder         \* an empty order_id

ASSUME LedgerAssumption ==
    /\ Buys \subseteq Order /\ NoOrder \notin Order
    /\ Lot \in Nat \ {0} /\ Owned \in Nat

Proc == {"risk", "trader", "recon"}
Open == {"pending", "partial"}

VARIABLES
    st, exe,        \* KIS: the state of an order, and its shares executed
    holding,        \* KIS: the shares the account holds
    rows,           \* the table, in the order of the row ids
    pc, cur, todo,  \* what a program does, with which order, what is left
    up,             \* its upsert: the new row, the next call, the row found
    orphans,        \* recon: rows without order_id it has read
    kis,            \* recon: what KIS answered
    held,           \* trader: the holding its batch check has loaded
    guessed,        \* history: orders recorded from holdings
    overlapped,     \* history: orders of two upserts at once
    matched         \* history: orders given to a row without order_id

broker  == <<st, exe, holding>>
history == <<guessed, overlapped, matched>>
vars    == <<broker, rows, pc, cur, todo, up, orphans, kis, held, history>>

Row(o, s, e)  == [id |-> o, status |-> s, exe |-> e]
Put(o, s, e)  == [new |-> Row(o, s, e), row |-> 0,
                  at |-> IF o = NoOrder THEN "write" ELSE "select"]
NoPut         == [new |-> Row(NoOrder, "pending", 0), row |-> 0, at |-> "none"]
NoAnswer      == [st |-> [o \in Order |-> "none"], exe |-> [o \in Order |-> 0]]

SharesOf(S)   == MapThenSumSet(LAMBDA o : exe[o], S)
RowsOf(o)     == {i \in DOMAIN rows : rows[i].id = o}
RowsIn(S)     == {i \in DOMAIN rows : rows[i].status \in S}
OpenIds       == {rows[i].id : i \in RowsIn(Open)} \ {NoOrder}

RowType == [id : Order \cup {NoOrder}, exe : Nat,
            status : Open \cup {"executed", "cancelled"}]
PutType == [new : RowType, row : Nat, at : {"none", "select", "write"}]
Status  == {"none", "live", "filled", "expired", "cancelled"}

BrokerOK ==
    /\ st \in [Order -> Status] /\ exe \in [Order -> 0 .. Lot]
    /\ holding \in Nat /\ held \in Nat
    /\ \A o \in Order :
          /\ st[o] = "none" => exe[o] = 0
          /\ st[o] = "live" => exe[o] < Lot
    /\ kis \in [st : [Order -> Status], exe : [Order -> 0 .. Lot]]

TableOK ==
    /\ rows \in Seq(RowType)
    /\ \A i \in RowsOf(NoOrder) : rows[i].status = "executed"
    /\ orphans \subseteq RowsOf(NoOrder)

ProgramOK ==
    /\ pc \in [Proc -> {"idle", "answer", "load", "batch", "kis", "update",
                        "orphans", "detect", "backfill"}]
    /\ cur \in [Proc -> Order \cup {NoOrder}]
    /\ \A p \in Proc : pc[p] = "answer" <=> cur[p] # NoOrder
    /\ todo \in [Proc -> SUBSET Order]
    /\ guessed \cup overlapped \cup matched \subseteq Order

UpsertOK ==
    /\ up \in [Proc -> PutType]
    /\ \A p \in Proc :
          /\ up[p].at = "none" => up[p] = NoPut
          /\ up[p].at = "select" => up[p].new.id # NoOrder /\ up[p].row = 0
          /\ up[p].at = "write" /\ up[p].new.id = NoOrder
                 => up[p].new.status = "executed" /\ up[p].row = 0
          /\ up[p].row # 0 => up[p].row \in RowsOf(up[p].new.id)

TypeOK == BrokerOK /\ TableOK /\ ProgramOK /\ UpsertOK

Init ==
    /\ st = [o \in Order |-> "none"] /\ exe = [o \in Order |-> 0]
    /\ holding = Owned
    /\ rows = <<>>
    /\ pc = [p \in Proc |-> "idle"] /\ cur = [p \in Proc |-> NoOrder]
    /\ todo = [p \in Proc |-> {}] /\ up = [p \in Proc |-> NoPut]
    /\ orphans = {} /\ kis = NoAnswer /\ held = 0
    /\ guessed = {} /\ overlapped = {} /\ matched = {}

Goto(p, l)       == pc' = [pc EXCEPT ![p] = l]
Free(p)          == up[p].at = "none"
Upsert(p, o, s, e) == up' = [up EXCEPT ![p] = Put(o, s, e)]

-----------------------------------------------------------------------------
(* recorder.py *)

(* Slip: only an open row of the order is looked for. *)
SlipSelectRow(p) ==
    LET found == RowsOf(up[p].new.id) \cap RowsIn(Open) IN
    /\ up[p].at = "select"
    /\ up' = [up EXCEPT ![p].at = "write",
                        ![p].row = IF found = {} THEN 0 ELSE Max(found)]
    /\ overlapped' = IF \E q \in Proc \ {p} :
                            up[q].at = "write" /\ up[q].new.id = up[p].new.id
                     THEN overlapped \cup {up[p].new.id} ELSE overlapped
    /\ UNCHANGED <<broker, rows, pc, cur, todo, orphans, kis, held, guessed,
                   matched>>

(* upsert_trade_record_by_order_id, SELECT: the latest row of the order. *)
SelectRow(p) ==
    LET o == up[p].new.id IN
    /\ up[p].at = "select"
    /\ up' = [up EXCEPT ![p].at = "write",
                        ![p].row = IF RowsOf(o) = {} THEN 0 ELSE Max(RowsOf(o))]
    /\ overlapped' = IF \E q \in Proc \ {p} : up[q].at = "write" /\ up[q].new.id = o
                     THEN overlapped \cup {o} ELSE overlapped
    /\ UNCHANGED <<broker, rows, pc, cur, todo, orphans, kis, held, guessed,
                   matched>>

(* Its UPDATE by row id, or the INSERT of save_trade_record. *)
WriteRow(p) ==
    /\ up[p].at = "write"
    /\ rows' = IF up[p].row = 0 THEN Append(rows, up[p].new)
                                ELSE [rows EXCEPT ![up[p].row] = up[p].new]
    /\ up' = [up EXCEPT ![p] = NoPut]
    /\ UNCHANGED <<broker, pc, cur, todo, orphans, kis, held, history>>

(* A database error: the upsert returns False. *)
FailRow(p) ==
    /\ up[p].at # "none"
    /\ up' = [up EXCEPT ![p] = NoPut]
    /\ UNCHANGED <<broker, rows, pc, cur, todo, orphans, kis, held, history>>

(* update_order_status: every row of the order, whatever its status. *)
Updated(o, s, e) ==
    [i \in DOMAIN rows |-> IF rows[i].id = o THEN Row(o, s, e) ELSE rows[i]]

(* mark_pending_order_cancelled *)
Cancelled(o) ==
    [i \in DOMAIN rows |-> IF rows[i].id = o /\ rows[i].status = "pending"
                           THEN [rows[i] EXCEPT !.status = "cancelled"]
                           ELSE rows[i]]

-----------------------------------------------------------------------------
(* The risk manager and the trader after an order *)

Submit(p, o) ==
    /\ p \in {"risk", "trader"} /\ pc[p] = "idle" /\ Free(p)
    /\ st[o] = "none"
    /\ o \in Buys => p = "trader"
    /\ o \notin Buys => holding > 0
    /\ st' = [st EXCEPT ![o] = "live"]
    /\ Goto(p, "answer") /\ cur' = [cur EXCEPT ![p] = o]
    /\ UNCHANGED <<exe, holding, rows, todo, up, orphans, kis, held, history>>

(* Slip: the order stays in hand when its answer has been dealt with. *)
SlipDone(p) == Goto(p, "idle") /\ UNCHANGED cur

Done(p) == Goto(p, "idle") /\ cur' = [cur EXCEPT ![p] = NoOrder]

(* Nothing is written: no order id (SELL, or pending), or no answer. *)
NoRecord(p) ==
    /\ pc[p] = "answer" /\ Done(p)
    /\ UNCHANGED <<broker, rows, todo, up, orphans, kis, held, history>>

(* Accepted with an order id. *)
RecordPending(p) ==
    /\ pc[p] = "answer" /\ Done(p)
    /\ Upsert(p, cur[p], "pending", 0)
    /\ UNCHANGED <<broker, rows, todo, orphans, kis, held, history>>

(* The trader looks for executions by the number of its order. *)
RecordExecuted ==
    LET o == cur["trader"] IN
    /\ pc["trader"] = "answer" /\ Done("trader")
    /\ exe[o] > 0
    /\ Upsert("trader", o, "executed", exe[o])
    /\ UNCHANGED <<broker, rows, todo, orphans, kis, held, history>>

(* A buy without an answer: any execution of the ticker is taken for it,   *)
(* and the row has no order id.                                            *)
RecordOrphan ==
    /\ pc["trader"] = "answer" /\ cur["trader"] \in Buys /\ Done("trader")
    /\ \E q \in Order : exe[q] > 0 /\ Upsert("trader", NoOrder, "executed", exe[q])
    /\ UNCHANGED <<broker, rows, todo, orphans, kis, held, history>>

(* An execution that is read off the holdings: under the order id; a buy   *)
(* without one as a row of its own; a sell without one goes to an open row *)
(* of a sell of as many shares (find_recent_sell_duplicate, by time and    *)
(* price).                                                                 *)
RecordByHoldings ==
    LET o == cur["trader"]
        side == IF o \in Buys THEN Buys ELSE Order \ Buys IN
    /\ pc["trader"] = "answer" /\ Done("trader")
    /\ \E e \in 1 .. Lot :
          /\ e <= SharesOf(side)
          /\ \/ /\ Upsert("trader", o, "executed", e)
                /\ guessed' = guessed \cup {o} /\ UNCHANGED rows
             \/ /\ o \in Buys /\ Upsert("trader", NoOrder, "executed", e)
                /\ UNCHANGED <<rows, guessed>>
             \/ /\ e = Lot /\ o \notin Buys /\ UNCHANGED up
                /\ \E dup \in RowsIn(Open) :
                      /\ rows[dup].id \in Order \ Buys
                      /\ rows' = Updated(rows[dup].id, "executed", e)
                      /\ guessed' = guessed \cup {rows[dup].id}
    /\ UNCHANGED <<broker, todo, orphans, kis, held, overlapped, matched>>

-----------------------------------------------------------------------------
(* batch_execution_check_and_cancel *)

(* _hydrate_pending_orders_from_db: the open rows of 48 hours. *)
BatchStart ==
    /\ pc["trader"] = "idle" /\ Free("trader") /\ Goto("trader", "load")
    /\ \E S \in SUBSET OpenIds \ {{}} : todo' = [todo EXCEPT !["trader"] = S]
    /\ UNCHANGED <<broker, rows, cur, up, orphans, kis, held, history>>

(* _update_account_info, _load_snapshot *)
BatchLoad ==
    /\ pc["trader"] = "load" /\ Goto("trader", "batch")
    /\ held' = holding
    /\ UNCHANGED <<broker, rows, cur, todo, up, orphans, kis, history>>

(* A buy is executed if the ticker is held, a sell if it is not. *)
BatchOrder(o) ==
    /\ pc["trader"] = "batch" /\ Free("trader") /\ o \in todo["trader"]
    /\ todo' = [todo EXCEPT !["trader"] = @ \ {o}]
    /\ IF o \in Buys <=> held > 0
       THEN /\ Upsert("trader", o, "executed", IF o \in Buys THEN held ELSE Lot)
            /\ guessed' = guessed \cup {o} /\ UNCHANGED rows
       ELSE /\ rows' = IF o \in Buys THEN Cancelled(o) ELSE rows
            /\ UNCHANGED <<up, guessed>>
    /\ UNCHANGED <<broker, pc, cur, orphans, kis, held, overlapped, matched>>

BatchEnd ==
    /\ pc["trader"] = "batch" /\ Free("trader") /\ todo["trader"] = {}
    /\ Goto("trader", "idle") /\ held' = 0
    /\ UNCHANGED <<broker, rows, cur, todo, up, orphans, kis, history>>

-----------------------------------------------------------------------------
(* reconcile_open_orders *)

(* get_open_orders: the open rows inside --since-hours and --limit. *)
ReconStart ==
    /\ pc["recon"] = "idle" /\ Goto("recon", "kis")
    /\ \E S \in SUBSET OpenIds : todo' = [todo EXCEPT !["recon"] = S]
    /\ UNCHANGED <<broker, rows, cur, up, orphans, kis, held, history>>

(* inquire_nccs, and inquire_ccnl for what is not open any more. *)
ReconFetch ==
    /\ pc["recon"] = "kis" /\ Goto("recon", "update")
    /\ kis' = [st |-> st, exe |-> exe]
    /\ UNCHANGED <<broker, rows, cur, todo, up, orphans, held, history>>

(* Slip: an order that is not open any more is taken for executed. *)
SlipGone(o) ==
    IF kis.st[o] # "live" THEN "executed"
    ELSE IF kis.exe[o] > 0 THEN "partial" ELSE "pending"

(* An order that expired without an execution is pending like a live one. *)
Classify(o) ==
    CASE kis.exe[o] = 0 /\ kis.st[o] = "cancelled" -> "cancelled"
      [] kis.exe[o] = 0 /\ kis.st[o] # "cancelled" -> "pending"
      [] kis.exe[o] \in 1 .. (Lot - 1) -> "partial"
      [] OTHER -> "executed"

ReconUpdate(o) ==
    /\ pc["recon"] = "update" /\ o \in todo["recon"]
    /\ todo' = [todo EXCEPT !["recon"] = @ \ {o}]
    /\ rows' = Updated(o, Classify(o), kis.exe[o])
    /\ UNCHANGED <<broker, pc, cur, up, orphans, kis, held, history>>

(* The order is in neither answer: an exchange could not be asked. *)
ReconMiss(o) ==
    /\ pc["recon"] = "update" /\ o \in todo["recon"]
    /\ todo' = [todo EXCEPT !["recon"] = @ \ {o}]
    /\ UNCHANGED <<broker, rows, pc, cur, up, orphans, kis, held, history>>

(* backfill_orphan_order_ids: the rows in the window, and KIS once more. *)
ReadOrphans ==
    /\ pc["recon"] = "update" /\ todo["recon"] = {}
    /\ Goto("recon", "orphans")
    /\ orphans' \in SUBSET RowsOf(NoOrder)
    /\ kis' = [st |-> st, exe |-> exe]
    /\ UNCHANGED <<broker, rows, cur, todo, up, held, history>>

(* _match_kis_candidates: an executed buy not yet used in this run, the    *)
(* only one; whether it has a row of its own is not asked.  todo holds the *)
(* orders used.                                                            *)
MatchOrphan ==
    LET i == Max(orphans)
        candidates == {o \in Buys \ todo["recon"] : kis.exe[o] > 0} IN
    /\ pc["recon"] = "orphans" /\ orphans # {}
    /\ orphans' = orphans \ {i}
    /\ IF Cardinality(candidates) = 1
       THEN LET o == CHOOSE o \in candidates : TRUE IN
            /\ rows' = [rows EXCEPT ![i] = Row(o, Classify(o), kis.exe[o])]
            /\ todo' = [todo EXCEPT !["recon"] = @ \cup {o}]
            /\ matched' = matched \cup {o}
       ELSE UNCHANGED <<rows, todo, matched>>
    /\ UNCHANGED <<broker, pc, cur, up, kis, held, guessed, overlapped>>

(* detect_broker_only_orders, in an answer of this run: none of them      *)
(* without --backfill-broker-only, else those KIS had executed by then.    *)
DetectBrokerOnly ==
    /\ pc["recon"] = "orphans" /\ orphans = {}
    /\ Goto("recon", "backfill")
    /\ \E S \in SUBSET {o \in Order : exe[o] = Lot /\ RowsOf(o) = {}} :
          todo' = [todo EXCEPT !["recon"] = S]
    /\ UNCHANGED <<broker, rows, cur, up, orphans, kis, held, history>>

Backfill(o) ==
    /\ pc["recon"] = "backfill" /\ Free("recon") /\ o \in todo["recon"]
    /\ todo' = [todo EXCEPT !["recon"] = @ \ {o}]
    /\ Upsert("recon", o, "executed", Lot)
    /\ UNCHANGED <<broker, rows, pc, cur, orphans, kis, held, history>>

ReconEnd ==
    /\ pc["recon"] = "backfill" /\ Free("recon") /\ todo["recon"] = {}
    /\ Goto("recon", "idle") /\ kis' = NoAnswer
    /\ UNCHANGED <<broker, rows, cur, todo, up, orphans, held, history>>

-----------------------------------------------------------------------------
(* A kill of a program, and KIS *)

Kill(p) ==
    /\ pc[p] # "idle" \/ ~Free(p)
    /\ Done(p) /\ todo' = [todo EXCEPT ![p] = {}] /\ up' = [up EXCEPT ![p] = NoPut]
    /\ IF p = "recon" THEN orphans' = {} /\ kis' = NoAnswer /\ UNCHANGED held
                      ELSE /\ held' = IF p = "trader" THEN 0 ELSE held
                           /\ UNCHANGED <<orphans, kis>>
    /\ UNCHANGED <<broker, rows, history>>

(* A share is executed; the order is filled with its last one. *)
Fill(o) ==
    /\ st[o] = "live" /\ (o \in Buys \/ holding > 0)
    /\ holding' = IF o \in Buys THEN holding + 1 ELSE holding - 1
    /\ exe' = [exe EXCEPT ![o] = @ + 1]
    /\ st' = IF exe[o] + 1 = Lot THEN [st EXCEPT ![o] = "filled"] ELSE st
    /\ UNCHANGED <<rows, pc, cur, todo, up, orphans, kis, held, history>>

(* The day is over, or the order is cancelled. *)
Close(o) ==
    /\ st[o] = "live"
    /\ \E s \in {"expired", "cancelled"} : st' = [st EXCEPT ![o] = s]
    /\ UNCHANGED <<exe, holding, rows, pc, cur, todo, up, orphans, kis, held,
                   history>>

Next ==
    \/ \E p \in Proc : \/ SelectRow(p) \/ WriteRow(p) \/ FailRow(p)
                       \/ NoRecord(p) \/ RecordPending(p) \/ Kill(p)
                       \/ \E o \in Order : Submit(p, o)
    \/ RecordExecuted \/ RecordOrphan \/ RecordByHoldings
    \/ BatchStart \/ BatchLoad \/ BatchEnd
    \/ ReconStart \/ ReconFetch \/ ReadOrphans \/ MatchOrphan
    \/ DetectBrokerOnly \/ ReconEnd
    \/ \E o \in Order : \/ BatchOrder(o) \/ ReconUpdate(o) \/ ReconMiss(o)
                        \/ Backfill(o) \/ Fill(o) \/ Close(o)

Spec == Init /\ [][Next]_vars

(* A started run goes on. *)
ReconStep ==
    \/ ReconStart \/ ReconFetch \/ ReadOrphans \/ MatchOrphan
    \/ DetectBrokerOnly \/ ReconEnd \/ SelectRow("recon") \/ WriteRow("recon")
    \/ \E o \in Order : ReconUpdate(o) \/ Backfill(o)

-----------------------------------------------------------------------------
(* Properties *)

(* No invented execution: apart from what was read off the holdings, a row *)
(* never has more shares than KIS executed of its order, however old the   *)
(* answer it was written from.                                             *)
NeverMoreThanFilled ==
    \A i \in DOMAIN rows :
        LET o == rows[i].id IN
        o \in Order \ guessed =>
            /\ rows[i].exe <= exe[o]
            /\ rows[i].status = "executed" => exe[o] > 0

(* One row per order, except where two upserts of the order overlapped or  *)
(* a row without order id was given the number of an order that had one.   *)
OneRowPerOrder ==
    \A i, j \in DOMAIN rows :
        i # j /\ rows[i].id = rows[j].id
            => rows[i].id \in overlapped \cup matched \cup {NoOrder}
=============================================================================
