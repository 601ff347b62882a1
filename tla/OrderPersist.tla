---------------------------- MODULE OrderPersist ----------------------------
(***************************************************************************)
(* The durable order protocol of broker_order_persist.py and its two       *)
(* callers: RiskManager._direct_execute_sell (a thread of the background   *)
(* risk process) and Trader._finalize_buy_result (the 23:30 pipeline).     *)
(* The third party is order_reconciler.backfill_broker_only_orders, which  *)
(* an operator starts with --backfill-broker-only.                         *)
(*                                                                         *)
(* An element of Order is one submission to KIS: the correlation id of its *)
(* journal file, the ODNO of the broker's order and the name of its lock   *)
(* file.  Ticker and submitting process of a submission are fixed by the   *)
(* constants.  The processes interleave between any two of the file, DB    *)
(* and broker calls, and may be killed there.                              *)
(***************************************************************************)
EXTENDS Naturals, FiniteSets

CONSTANTS
    Order,      \* submissions that may be made
    Ticker,     \* listed symbols
    TickerOf,   \* the symbol of a submission
    Owner,      \* the process that makes it
    Elsewhere,  \* symbols KIS reports a recent execution of that is none of these
    NoOrder     \* "no submission in hand"

ASSUME OrderAssumption ==
    /\ Elsewhere \subseteq Ticker
    /\ TickerOf \in [Order -> Ticker]
    /\ Owner \in [Order -> {"risk", "trader"}]
    /\ NoOrder \notin Order

Proc == {"risk", "trader"}

VARIABLES
    pc,         \* where a process stands in its order routine
    cur,        \* the submission it is working on
    journal,    \* output/order_journal: status of each journal file
    broker,     \* what KIS holds of a submission
    rows,       \* trade_records: the rows of a submission, with its id or without
    locks,      \* output/order_persist_locks: lock files
    flagged,    \* submissions whose partial-sell flag and cooldown were written
    scan,       \* broker-only orders the reconciler still has to backfill
    recon       \* the order whose row it has just written, lock not yet cleared

vars == <<pc, cur, journal, broker, rows, locks, flagged, scan, recon>>

JournalStatus == {"none", "created", "broker_accepted", "db_persisted",
                  "persist_failed", "reconcile_required"}

PcOf(p) == IF p = "risk"
           THEN {"idle", "begin", "submit", "mark", "marknoid", "persist",
                 "persist_ok", "fail", "fail_reconcile", "fail_lock",
                 "exception", "flags"}
           ELSE {"idle", "retry", "begin", "begin_noid", "mark", "persist",
                 "persist_ok", "persist_noid", "fail", "fail_reconcile",
                 "fail_lock"}

TypeOK ==
    /\ pc \in [Proc -> PcOf("risk") \cup PcOf("trader")]
    /\ \A p \in Proc : pc[p] \in PcOf(p)
    /\ cur \in [Proc -> Order \cup {NoOrder}]
    /\ \A p \in Proc : pc[p] # "idle" => cur[p] \in Order
    /\ journal \in [Order -> JournalStatus]
    /\ broker \in [Order -> {"none", "live", "filled"}]
    /\ rows \in [Order -> SUBSET {"noid", "keyed"}]
    /\ locks \subseteq Order
    /\ flagged \subseteq Order
    /\ scan \subseteq Order
    /\ recon \in Order \cup {NoOrder}

-----------------------------------------------------------------------------
(* Operators named Slip... are one-change variants of the definition that  *)
(* follows them: the mistakes the properties at the end are there to find. *)

(* The side written to journal, row and lock; and the side sent to KIS.    *)
(* _execute_order_with_full_validation sends ord_dv="01" (sell) for the    *)
(* orders _finalize_buy_result records as buys.                            *)
RecordedSide(o) == IF Owner[o] = "risk" THEN "SELL" ELSE "BUY"
SentSide(o)     == "SELL"

(* Slip: the lock check matches buys only. *)
SlipHasLock(t, side) ==
    side = "BUY" /\ \E l \in locks : TickerOf[l] = t /\ RecordedSide(l) = side

(* has_persist_failure_lock(ticker, side): some lock file matches both. *)
HasLock(t, side) == \E l \in locks : TickerOf[l] = t /\ RecordedSide(l) = side

(* Slip: the order id, an optional argument, is left out. *)
SlipCleared(o, side) ==
    locks \ {l \in locks : TickerOf[l] = TickerOf[o] /\ RecordedSide(l) = side}

(* clear_persist_failure_lock(ticker, side, order_id): files matching all. *)
Cleared(o, side) == locks \ {l \in locks : l = o /\ RecordedSide(l) = side}

Fresh(o)    == journal[o] = "none" /\ broker[o] = "none"
AtBroker(o) == broker[o] # "none"
Recorded(o) == "keyed" \in rows[o]

(* KIS reports an execution of the symbol, of this order or of another. *)
RecentExecution(o) ==
    \/ TickerOf[o] \in Elsewhere
    \/ \E q \in Order : TickerOf[q] = TickerOf[o] /\ broker[q] = "filled"

Goto(p, l)    == pc' = [pc EXCEPT ![p] = l]
Work(p, o)    == cur' = [cur EXCEPT ![p] = o]
Return(p)     == Goto(p, "idle") /\ Work(p, NoOrder)
Journal(o, s) == journal' = [journal EXCEPT ![o] = s]

Init ==
    /\ pc = [p \in Proc |-> "idle"]
    /\ cur = [p \in Proc |-> NoOrder]
    /\ journal = [o \in Order |-> "none"]
    /\ broker = [o \in Order |-> "none"]
    /\ rows = [o \in Order |-> {}]
    /\ locks = {} /\ flagged = {} /\ scan = {}
    /\ recon = NoOrder

-----------------------------------------------------------------------------
(* RiskManager._direct_execute_sell                                        *)

(* Lock check; an existing lock for ticker/SELL ends the call. *)
RiskCheckLock(o) ==
    /\ Owner[o] = "risk" /\ Fresh(o)
    /\ pc["risk"] = "idle"
    /\ ~HasLock(TickerOf[o], "SELL")
    /\ Goto("risk", "begin") /\ Work("risk", o)
    /\ UNCHANGED <<journal, broker, rows, locks, flagged, scan, recon>>

(* Slip: the journal is left to be written after the order. *)
SlipRiskBegin ==
    /\ pc["risk"] = "begin"
    /\ \/ Return("risk")
       \/ ~HasLock(TickerOf[cur["risk"]], "SELL") /\ Goto("risk", "submit")
                                                 /\ UNCHANGED cur
    /\ UNCHANGED <<journal, broker, rows, locks, flagged, scan, recon>>

(* After the price quote: begin_broker_order raises under a lock, else     *)
(* writes the journal.  No valid price also returns here.                  *)
RiskBegin ==
    LET o == cur["risk"] IN
    /\ pc["risk"] = "begin"
    /\ \/ Return("risk") /\ UNCHANGED journal
       \/ /\ ~HasLock(TickerOf[o], "SELL")
          /\ Journal(o, "created")
          /\ Goto("risk", "submit") /\ UNCHANGED cur
    /\ UNCHANGED <<broker, rows, locks, flagged, scan, recon>>

(* order_cash.  KIS takes the order or not; the answer carries the ODNO,   *)
(* only rt_cd = 0, a rejection or nothing, or is lost in an exception.     *)
RiskSubmit ==
    LET o == cur["risk"] IN
    /\ pc["risk"] = "submit"
    /\ \/ /\ broker' = [broker EXCEPT ![o] = "live"]
          /\ \/ \E l \in {"mark", "marknoid", "exception"} :
                    Goto("risk", l) /\ UNCHANGED cur
             \/ Return("risk")
       \/ /\ UNCHANGED broker
          /\ \/ Goto("risk", "exception") /\ UNCHANGED cur
             \/ Return("risk")
    /\ UNCHANGED <<journal, rows, locks, flagged, scan, recon>>

(* Slip: an accepted order without ODNO counts as a success. *)
SlipRiskMark ==
    /\ pc["risk"] \in {"mark", "marknoid"}
    /\ Journal(cur["risk"], "broker_accepted")
    /\ Goto("risk", IF pc["risk"] = "mark" THEN "persist" ELSE "flags")
    /\ UNCHANGED <<cur, broker, rows, locks, flagged, scan, recon>>

(* mark_broker_accepted; without an ODNO the call ends after it. *)
RiskMark ==
    LET o == cur["risk"] IN
    /\ pc["risk"] \in {"mark", "marknoid"}
    /\ Journal(o, "broker_accepted")
    /\ IF pc["risk"] = "mark" THEN Goto("risk", "persist") /\ UNCHANGED cur
                              ELSE Return("risk")
    /\ UNCHANGED <<broker, rows, locks, flagged, scan, recon>>

(* except Exception: the journal becomes persist_failed, no lock is made. *)
RiskException ==
    /\ pc["risk"] = "exception"
    /\ Journal(cur["risk"], "persist_failed")
    /\ Return("risk")
    /\ UNCHANGED <<broker, rows, locks, flagged, scan, recon>>

(* _direct_execute_partial_sell: mark_partial_sell and the buy cooldown,   *)
(* only when the sell returned True; a full sell writes neither.           *)
RiskFlags ==
    /\ pc["risk"] = "flags"
    /\ \/ flagged' = flagged \cup {cur["risk"]}
       \/ UNCHANGED flagged
    /\ Return("risk")
    /\ UNCHANGED <<journal, broker, rows, locks, scan, recon>>

-----------------------------------------------------------------------------
(* Trader._order_cash_retry, then _finalize_buy_result and                 *)
(* _persist_trade_durable                                                  *)

(* Slip: an answer that is ok without ODNO goes on, with nothing in hand. *)
SlipTraderSubmit(o) ==
    /\ Owner[o] = "trader" /\ Fresh(o)
    /\ pc["trader"] \in {"idle", "retry"}
    /\ broker' = [broker EXCEPT ![o] = "live"]
    /\ Goto("trader", "begin") /\ \E c \in {o, NoOrder} : Work("trader", c)
    /\ UNCHANGED <<journal, rows, locks, flagged, scan, recon>>

(* One request of _order_cash_retry; the next one is for the same symbol.  *)
(* KIS takes the order or not.  An answer with an ODNO goes on, one that   *)
(* is ok without ODNO ends the call, and every other one (an error, a      *)
(* rejection, nothing at all) leads to another request or to the check.    *)
TraderSubmit(o) ==
    /\ Owner[o] = "trader" /\ Fresh(o)
    /\ \/ pc["trader"] = "idle"
       \/ pc["trader"] = "retry" /\ TickerOf[o] = TickerOf[cur["trader"]]
    /\ \/ /\ broker' = [broker EXCEPT ![o] = "live"]
          /\ \/ \E l \in {"begin", "retry"} :
                    Goto("trader", l) /\ Work("trader", o)
             \/ Return("trader")
       \/ /\ UNCHANGED broker
          /\ Goto("trader", "retry") /\ Work("trader", o)
    /\ UNCHANGED <<journal, rows, locks, flagged, scan, recon>>

(* Slip: an order that is not executed yet passes for an execution. *)
SlipTraderCheckDelayed ==
    /\ pc["trader"] = "retry"
    /\ \/ Goto("trader", "begin_noid") /\ UNCHANGED cur
       \/ Return("trader")
    /\ UNCHANGED <<journal, broker, rows, locks, flagged, scan, recon>>

(* The requests are used up: _check_delayed_execution without an order     *)
(* number takes any recent execution of the symbol, of either side, for    *)
(* one of this order; there is no ODNO to go on with.                      *)
TraderCheckDelayed ==
    /\ pc["trader"] = "retry"
    /\ \/ /\ RecentExecution(cur["trader"])
          /\ Goto("trader", "begin_noid") /\ UNCHANGED cur
       \/ Return("trader")
    /\ UNCHANGED <<journal, broker, rows, locks, flagged, scan, recon>>

(* begin_broker_order is called after the request; when it raises, an      *)
(* order at KIS is left without journal, row and lock.                     *)
TraderBegin ==
    LET o == cur["trader"] IN
    /\ pc["trader"] \in {"begin", "begin_noid"}
    /\ IF HasLock(TickerOf[o], "BUY")
       THEN Return("trader") /\ UNCHANGED journal
       ELSE /\ Journal(o, "created") /\ UNCHANGED cur
            /\ Goto("trader", IF pc["trader"] = "begin" THEN "mark"
                                                        ELSE "persist_noid")
    /\ UNCHANGED <<broker, rows, locks, flagged, scan, recon>>

TraderMark ==
    /\ pc["trader"] = "mark"
    /\ Journal(cur["trader"], "broker_accepted")
    /\ Goto("trader", "persist") /\ UNCHANGED cur
    /\ UNCHANGED <<broker, rows, locks, flagged, scan, recon>>

-----------------------------------------------------------------------------
(* persist_broker_order_to_db, called by both processes                    *)

(* record_trade: an upsert by order id, or an INSERT without one. *)
RecordTrade(p) ==
    LET o == cur[p] IN
    /\ pc[p] \in {"persist", "persist_noid"}
    /\ \/ /\ rows' = [rows EXCEPT ![o] =
                         @ \cup {IF pc[p] = "persist" THEN "keyed" ELSE "noid"}]
          /\ Goto(p, "persist_ok")
       \/ Goto(p, "fail") /\ UNCHANGED rows
    /\ UNCHANGED <<cur, journal, broker, locks, flagged, scan, recon>>

(* Success: journal db_persisted, locks of this very order removed. *)
PersistOk(p) ==
    LET o == cur[p] IN
    /\ pc[p] = "persist_ok"
    /\ Journal(o, "db_persisted")
    /\ locks' = IF Recorded(o) THEN Cleared(o, RecordedSide(o)) ELSE locks
    /\ IF p = "risk" THEN Goto(p, "flags") /\ UNCHANGED cur ELSE Return(p)
    /\ UNCHANGED <<broker, rows, flagged, scan, recon>>

(* Slip: the lock is made first, the journal follows. *)
SlipPersistFailed(p) ==
    /\ pc[p] = "fail"
    /\ Journal(cur[p], "persist_failed")
    /\ locks' = locks \cup {cur[p]}
    /\ Goto(p, "fail_reconcile")
    /\ UNCHANGED <<cur, broker, rows, flagged, scan, recon>>

(* Failure: two journal updates and then the lock file, one write each. *)
PersistFailed(p) ==
    /\ pc[p] = "fail"
    /\ Journal(cur[p], "persist_failed")
    /\ Goto(p, "fail_reconcile")
    /\ UNCHANGED <<cur, broker, rows, locks, flagged, scan, recon>>

ReconcileRequired(p) ==
    /\ pc[p] = "fail_reconcile"
    /\ Journal(cur[p], "reconcile_required")
    /\ Goto(p, "fail_lock")
    /\ UNCHANGED <<cur, broker, rows, locks, flagged, scan, recon>>

CreateLock(p) ==
    /\ pc[p] = "fail_lock"
    /\ locks' = locks \cup {cur[p]}
    /\ Return(p)
    /\ UNCHANGED <<journal, broker, rows, flagged, scan, recon>>

-----------------------------------------------------------------------------
(* order_reconciler with --backfill-broker-only                            *)

(* Slip: an order with any row, even one without id, counts as known. *)
SlipDetectBrokerOnly ==
    /\ scan = {} /\ recon = NoOrder
    /\ scan' = {o \in Order : broker[o] = "filled" /\ rows[o] = {}}
    /\ scan' # {}
    /\ UNCHANGED <<pc, cur, journal, broker, rows, locks, flagged, recon>>

(* Executed orders at KIS whose id is not in trade_records. *)
DetectBrokerOnly ==
    /\ scan = {} /\ recon = NoOrder
    /\ scan' = {o \in Order : broker[o] = "filled" /\ ~Recorded(o)}
    /\ scan' # {}
    /\ UNCHANGED <<pc, cur, journal, broker, rows, locks, flagged, recon>>

(* Slip: the lock is cleared although the upsert failed. *)
SlipBackfillRow(o) ==
    /\ recon = NoOrder /\ o \in scan
    /\ scan' = scan \ {o} /\ recon' = o
    /\ \/ rows' = [rows EXCEPT ![o] = @ \cup {"keyed"}]
       \/ UNCHANGED rows
    /\ UNCHANGED <<pc, cur, journal, broker, locks, flagged>>

(* One upsert of the loop; a failing one is reported and skipped. *)
BackfillRow(o) ==
    /\ recon = NoOrder /\ o \in scan
    /\ scan' = scan \ {o}
    /\ \/ rows' = [rows EXCEPT ![o] = @ \cup {"keyed"}] /\ recon' = o
       \/ UNCHANGED <<rows, recon>>
    /\ UNCHANGED <<pc, cur, journal, broker, locks, flagged>>

(* The lock is looked up under the side KIS reports. *)
BackfillClear ==
    /\ recon # NoOrder
    /\ locks' = Cleared(recon, SentSide(recon))
    /\ recon' = NoOrder
    /\ UNCHANGED <<pc, cur, journal, broker, rows, flagged, scan>>

-----------------------------------------------------------------------------
(* The broker fills a live order. *)
Fill(o) ==
    /\ broker[o] = "live"
    /\ broker' = [broker EXCEPT ![o] = "filled"]
    /\ UNCHANGED <<pc, cur, journal, rows, locks, flagged, scan, recon>>

(* A process is killed between two calls and later starts afresh. *)
Crash(p) ==
    /\ pc[p] # "idle"
    /\ Return(p)
    /\ UNCHANGED <<journal, broker, rows, locks, flagged, scan, recon>>

ReconCrash ==
    /\ scan # {} \/ recon # NoOrder
    /\ scan' = {} /\ recon' = NoOrder
    /\ UNCHANGED <<pc, cur, journal, broker, rows, locks, flagged>>

Next ==
    \/ \E o \in Order : \/ RiskCheckLock(o) \/ TraderSubmit(o)
                        \/ BackfillRow(o) \/ Fill(o)
    \/ RiskBegin \/ RiskSubmit \/ RiskMark \/ RiskException \/ RiskFlags
    \/ TraderCheckDelayed \/ TraderBegin \/ TraderMark
    \/ \E p \in Proc : \/ RecordTrade(p) \/ PersistOk(p) \/ PersistFailed(p)
                       \/ ReconcileRequired(p) \/ CreateLock(p) \/ Crash(p)
    \/ DetectBrokerOnly \/ BackfillClear \/ ReconCrash

Spec == Init /\ [][Next]_vars

(* An operator repeats --backfill-broker-only: a started run goes on, and  *)
(* an upsert that can be tried again and again succeeds at last.           *)
OperatorFairness ==
    /\ WF_vars(DetectBrokerOnly) /\ WF_vars(BackfillClear)
    /\ \A o \in Order : SF_vars(BackfillRow(o) /\ recon' = o)

RecoverySpec == Spec /\ OperatorFairness

-----------------------------------------------------------------------------
(* Properties *)

(* Write-ahead: whenever KIS holds an order of the risk manager, its       *)
(* journal file is on disk, whatever answer came back and wherever the     *)
(* process was killed (risk_manager.py _direct_execute_sell).              *)
RiskWriteAhead ==
    \A o \in Order : Owner[o] = "risk" /\ AtBroker(o) => journal[o] # "none"

(* What the journal says of the outside world: db_persisted means a row is *)
(* in the DB; broker_accepted, and a row under the order's own id, mean    *)
(* that KIS has the order.  db_persisted and reconcile_required mean it    *)
(* too, except for a buy whose request got no number and that was taken    *)
(* for executed because KIS reports an execution of its symbol, of         *)
(* whatever order (trader.py _check_delayed_execution).                    *)
Backed(o) == AtBroker(o) \/ (Owner[o] = "trader" /\ RecentExecution(o))

JournalTruthful ==
    \A o \in Order :
        /\ journal[o] = "db_persisted" => rows[o] # {}
        /\ journal[o] = "broker_accepted" \/ Recorded(o) => AtBroker(o)
        /\ journal[o] \in {"reconcile_required", "db_persisted"} => Backed(o)

(* Strategy flags only after the row: a partial-sell flag is never written *)
(* for a sell whose keyed row is not in trade_records (step 6 of the order *)
(* of operations in broker_order_persist.py).                              *)
FlagsAfterPersist == \A o \in flagged : Recorded(o)

(* A lock file always points at a journal that asks for reconciliation and *)
(* at an order KIS accepted; only a buy lock without order number may rest *)
(* on the execution of another order of the symbol instead.                *)
LockEvidence ==
    \A o \in locks : journal[o] = "reconcile_required" /\ Backed(o)

(* The sell lock does its work: the risk manager never has two unrecorded, *)
(* locked sells of one ticker, crashes of all processes included.          *)
OneSellLockPerTicker ==
    \A o1, o2 \in locks :
        Owner[o1] = "risk" /\ Owner[o2] = "risk" /\ TickerOf[o1] = TickerOf[o2]
            => o1 = o2

(* No sell of the risk manager reaches KIS while an unrecorded sell of the *)
(* same ticker has its lock, although the locks are read calls before.     *)
NoSellUnderLock ==
    [][\A o \in Order :
          Owner[o] = "risk" /\ ~AtBroker(o) /\ AtBroker(o)'
              => \A l \in locks : Owner[l] = "risk" => TickerOf[l] # TickerOf[o]]_vars

(* A lock file disappears only when its order has a row under its id.      *)
LockReleasedOnceRecorded ==
    [][\A o \in locks \ locks' : Recorded(o)]_vars

(* For the sells of the risk manager the protocol is DurableSell: its      *)
(* steps, seen through the journal, the broker and the table, are steps of *)
(* that specification or no steps at all.                                  *)
Sells == {o \in Order : Owner[o] = "risk"}

StageOf(o) == IF Recorded(o) THEN "recorded"
              ELSE IF AtBroker(o) THEN "sent"
              ELSE IF journal[o] # "none" THEN "intended" ELSE "new"

Durable == INSTANCE DurableSell
               WITH Sell <- Sells, TickerOf <- TickerOf,
                    stage <- [o \in Sells |-> StageOf(o)],
                    held <- locks \cap Sells, flagged <- flagged

ImplementsDurableSell == Durable!Spec

(* Recovery: while an operator keeps running the backfill and an upsert    *)
(* does not fail for ever, every execution at KIS gets a row under its own *)
(* id, the orders that left no journal and the rows without id included.   *)
EveryFillRecorded == \A o \in Order : broker[o] = "filled" ~> Recorded(o)
=============================================================================
