------------------------- MODULE OrderPersistProofs -------------------------
(* Proofs about OrderPersist for every set of submissions and tickers.     *)
EXTENDS OrderPersist, TLAPS

(* What a process knows about the submission in its hands. *)
AfterSubmit == {"mark", "marknoid", "persist", "persist_ok", "persist_noid",
                "fail", "fail_reconcile", "fail_lock", "flags"}

HandOf(p) ==
    /\ pc[p] # "idle" =>
           /\ cur[p] \in Order /\ Owner[cur[p]] = p
           /\ cur[p] \notin locks
    /\ pc[p] \in AfterSubmit \cup {"begin_noid"} => Backed(cur[p])
    /\ pc[p] \in {"mark", "marknoid", "persist"} => AtBroker(cur[p])
    /\ p = "trader" /\ pc[p] = "begin" => AtBroker(cur[p])
    /\ p = "risk" /\ pc[p] = "begin" => Fresh(cur[p])
    /\ p = "risk" /\ pc[p] = "submit" => ~AtBroker(cur[p])
    /\ p = "risk" /\ pc[p] \in AfterSubmit \cup {"submit", "exception"}
           => journal[cur[p]] # "none"
    /\ pc[p] = "persist_ok" => rows[cur[p]] # {}
    /\ p = "risk" /\ pc[p] \in {"persist_ok", "flags"} => Recorded(cur[p])
    /\ pc[p] = "fail_lock" => journal[cur[p]] = "reconcile_required"

InHand == \A p \in Proc : HandOf(p)

(* The ticker of the sell being worked on has no sell lock: only the risk  *)
(* process makes sell locks, and it is here.                               *)
SellUnlocked ==
    pc["risk"] # "idle" =>
        \A l \in locks : Owner[l] = "risk" => TickerOf[l] # TickerOf[cur["risk"]]

ReconRecorded == recon # NoOrder => Recorded(recon)

(* No order about to be backfilled is unknown to KIS. *)
RowsAtBroker == \A o \in scan : AtBroker(o)

IInv == /\ TypeOK /\ InHand /\ SellUnlocked /\ ReconRecorded
        /\ RiskWriteAhead /\ JournalTruthful /\ FlagsAfterPersist
        /\ LockEvidence /\ OneSellLockPerTicker /\ RowsAtBroker

-----------------------------------------------------------------------------
(* Every step of the protocol keeps the types. *)
LEMMA TypeStep == TypeOK /\ [Next]_vars => TypeOK'
<1> USE OrderAssumption DEF Proc, PcOf, JournalStatus, Goto, Work, Return, Journal
<1> SUFFICES ASSUME TypeOK, [Next]_vars PROVE TypeOK'
  OBVIOUS
<1> USE DEF TypeOK
<1>1. ASSUME NEW o \in Order, RiskCheckLock(o) PROVE TypeOK'
  BY <1>1 DEF RiskCheckLock
<1>2. ASSUME NEW o \in Order, TraderSubmit(o) PROVE TypeOK'
  BY <1>2 DEF TraderSubmit
<1>3. ASSUME NEW o \in Order, BackfillRow(o) PROVE TypeOK'
  <2>1. rows' \in [Order -> SUBSET {"noid", "keyed"}]
    BY <1>3 DEF BackfillRow
  <2> QED BY <1>3, <2>1 DEF BackfillRow
<1>4. ASSUME NEW o \in Order, Fill(o) PROVE TypeOK'
  BY <1>4 DEF Fill
<1>5. CASE RiskBegin
  BY <1>5 DEF RiskBegin
<1>6. CASE RiskSubmit
  BY <1>6 DEF RiskSubmit
<1>7. CASE RiskMark
  <2>1. CASE pc["risk"] = "mark"
    BY <1>7, <2>1 DEF RiskMark
  <2>2. CASE pc["risk"] = "marknoid"
    BY <1>7, <2>2 DEF RiskMark
  <2> QED BY <1>7, <2>1, <2>2 DEF RiskMark
<1>8. CASE RiskException
  BY <1>8 DEF RiskException
<1>9. CASE RiskFlags
  BY <1>9 DEF RiskFlags
<1>10. CASE TraderCheckDelayed
  BY <1>10 DEF TraderCheckDelayed
<1>11. CASE TraderBegin
  BY <1>11 DEF TraderBegin
<1>12. CASE TraderMark
  BY <1>12 DEF TraderMark
<1>13. ASSUME NEW p \in Proc, RecordTrade(p) PROVE TypeOK'
  BY <1>13 DEF RecordTrade
<1>14. ASSUME NEW p \in Proc, PersistOk(p) PROVE TypeOK'
  BY <1>14 DEF PersistOk, Cleared
<1>15. ASSUME NEW p \in Proc, PersistFailed(p) PROVE TypeOK'
  BY <1>15 DEF PersistFailed
<1>16. ASSUME NEW p \in Proc, ReconcileRequired(p) PROVE TypeOK'
  BY <1>16 DEF ReconcileRequired
<1>17. ASSUME NEW p \in Proc, CreateLock(p) PROVE TypeOK'
  BY <1>17 DEF CreateLock
<1>18. ASSUME NEW p \in Proc, Crash(p) PROVE TypeOK'
  BY <1>18 DEF Crash
<1>19. CASE DetectBrokerOnly
  BY <1>19 DEF DetectBrokerOnly
<1>20. CASE BackfillClear
  BY <1>20 DEF BackfillClear, Cleared
<1>21. CASE ReconCrash
  BY <1>21 DEF ReconCrash
<1>22. CASE UNCHANGED vars
  BY <1>22 DEF vars
<1> QED
  BY <1>1, <1>2, <1>3, <1>4, <1>5, <1>6, <1>7, <1>8, <1>9, <1>10, <1>11,
     <1>12, <1>13, <1>14, <1>15, <1>16, <1>17, <1>18, <1>19, <1>20, <1>21,
     <1>22 DEF Next

(* Type correctness of the order protocol: every reachable state has the   *)
(* shape the code writes to its files, tables and call stacks; a process   *)
(* inside its order routine has a submission in hand.                      *)
THEOREM TypeCorrect == Spec => []TypeOK
<1>1. Init => TypeOK
  BY OrderAssumption DEF Init, TypeOK, Proc, PcOf, JournalStatus
<1> QED
  BY <1>1, TypeStep, PTL DEF Spec

-----------------------------------------------------------------------------
(* What stands behind a record stays: KIS forgets neither an order nor a   *)
(* recent execution.                                                       *)
LEMMA BackedStays == IInv /\ [Next]_vars => \A o \in Order : Backed(o) => Backed(o)'
<1> SUFFICES ASSUME IInv, [Next]_vars PROVE \A o \in Order : Backed(o) => Backed(o)'
  OBVIOUS
<1> DEFINE Kept(q) == \/ broker'[q] = broker[q]
                      \/ broker'[q] # "none" /\ broker[q] # "filled"
<1>1. \A q \in Order : Kept(q)
  <2>1. CASE broker' = broker
    BY <2>1
  <2>2. ASSUME NEW o \in Order, TraderSubmit(o) \/ Fill(o), NEW q \in Order
        PROVE Kept(q)
    BY <2>2 DEF TraderSubmit, Fill, Fresh, IInv, TypeOK
  <2>3. ASSUME RiskSubmit, NEW q \in Order PROVE Kept(q)
    BY <2>3 DEF RiskSubmit, IInv, TypeOK, InHand, HandOf, AtBroker, Proc
  <2>4. \/ broker' = broker \/ RiskSubmit
        \/ \E o \in Order : TraderSubmit(o) \/ Fill(o)
    BY DEF Next, vars, RiskCheckLock, BackfillRow, RiskBegin,
       RiskMark, RiskException, RiskFlags, TraderCheckDelayed, TraderBegin,
       TraderMark, RecordTrade, PersistOk, PersistFailed, ReconcileRequired,
       CreateLock, Crash, DetectBrokerOnly, BackfillClear, ReconCrash
  <2> QED
    BY <2>1, <2>2, <2>3, <2>4
<1> QED
  BY <1>1 DEF Backed, AtBroker, RecentExecution

(* The inductive step of the safety invariants, action by action.          *)
LEMMA SafetyStep == IInv /\ TypeOK' /\ [Next]_vars => IInv'
<1> USE OrderAssumption
    DEF Proc, PcOf, Goto, Work, Return, Journal, AtBroker, Recorded, RecordedSide
<1> SUFFICES ASSUME IInv, TypeOK', [Next]_vars PROVE IInv'
  OBVIOUS
<1>a. \A o \in Order : Backed(o) => Backed(o)'
  BY BackedStays DEF IInv
<1>b. /\ \A o \in Order : broker[o] # "none" => Backed(o)
      /\ \A o \in Order : broker'[o] # "none" => Backed(o)'
      /\ \A o \in Order : Backed(o) /\ Owner[o] = "risk" => broker[o] # "none"
  BY DEF Backed
<1> USE <1>a, <1>b
<1> USE DEF IInv, TypeOK, AfterSubmit, Fresh
<1>1. ASSUME NEW o \in Order, RiskCheckLock(o) PROVE IInv'
  <2>1. InHand'
    BY <1>1 DEF RiskCheckLock, HasLock, InHand, HandOf
  <2>2. SellUnlocked'
    BY <1>1 DEF RiskCheckLock, HasLock, SellUnlocked, InHand, HandOf
  <2>3. /\ (ReconRecorded /\ RiskWriteAhead /\ JournalTruthful)'
       /\ (FlagsAfterPersist /\ LockEvidence /\ OneSellLockPerTicker /\ RowsAtBroker)'
    BY <1>1 DEF RiskCheckLock, HasLock, ReconRecorded, RiskWriteAhead,
       JournalTruthful, FlagsAfterPersist, LockEvidence, OneSellLockPerTicker,
       RowsAtBroker
  <2> QED BY <2>1, <2>2, <2>3
<1>2. ASSUME NEW o \in Order, TraderSubmit(o) PROVE IInv'
  <2>1. InHand'
    <3> DEFINE idle == pc'["trader"] = "idle"
    <3>1. /\ pc'["risk"] = pc["risk"] /\ cur'["risk"] = cur["risk"]
          /\ pc["risk"] # "idle" => broker'[cur["risk"]] = broker[cur["risk"]]
          /\ UNCHANGED <<journal, rows, locks>>
      BY <1>2 DEF TraderSubmit, InHand, HandOf
    <3>2. \/ idle
          \/ pc'["trader"] = "retry" /\ cur'["trader"] = o
          \/ /\ pc'["trader"] = "begin"
             /\ cur'["trader"] = o /\ broker'[o] # "none"
      BY <1>2 DEF TraderSubmit
    <3>3. Owner[o] = "trader" /\ o \notin locks
      BY <1>2 DEF TraderSubmit, LockEvidence
    <3> QED BY <3>1, <3>2, <3>3 DEF InHand, HandOf
  <2>2. SellUnlocked'
    BY <1>2 DEF TraderSubmit, SellUnlocked, InHand, HandOf
  <2>3. RiskWriteAhead'
    BY <1>2 DEF TraderSubmit, RiskWriteAhead, InHand, HandOf
  <2>4. JournalTruthful'
    BY <1>2 DEF TraderSubmit, JournalTruthful, InHand, HandOf
  <2>5. LockEvidence'
    BY <1>2 DEF TraderSubmit, LockEvidence, InHand, HandOf
  <2>6. RowsAtBroker'
    BY <1>2 DEF TraderSubmit, RowsAtBroker, InHand, HandOf
  <2>7. (ReconRecorded /\ FlagsAfterPersist /\ OneSellLockPerTicker)'
    BY <1>2 DEF TraderSubmit, ReconRecorded, FlagsAfterPersist,
       OneSellLockPerTicker
  <2> QED BY <2>1, <2>2, <2>3, <2>4, <2>5, <2>6, <2>7
<1>3. ASSUME NEW o \in Order, BackfillRow(o) PROVE IInv'
  <2>1. InHand'
    BY <1>3 DEF BackfillRow, InHand, HandOf
  <2>2. ReconRecorded'
    BY <1>3 DEF BackfillRow, ReconRecorded
  <2>3. JournalTruthful'
    BY <1>3 DEF BackfillRow, JournalTruthful, RowsAtBroker
  <2>4. FlagsAfterPersist'
    BY <1>3 DEF BackfillRow, FlagsAfterPersist, InHand, HandOf
  <2>5. RowsAtBroker'
    BY <1>3 DEF BackfillRow, RowsAtBroker, InHand, HandOf
  <2>6. /\ (SellUnlocked /\ RiskWriteAhead /\ LockEvidence)'
       /\ (OneSellLockPerTicker)'
    BY <1>3 DEF BackfillRow, SellUnlocked, RiskWriteAhead, LockEvidence,
       OneSellLockPerTicker
  <2> QED BY <2>1, <2>2, <2>3, <2>4, <2>5, <2>6
<1>4. ASSUME NEW o \in Order, Fill(o) PROVE IInv'
  <2>1. InHand'
    BY <1>4 DEF Fill, InHand, HandOf
  <2>2. RiskWriteAhead'
    BY <1>4 DEF Fill, RiskWriteAhead, InHand, HandOf
  <2>3. JournalTruthful'
    BY <1>4 DEF Fill, JournalTruthful, InHand, HandOf
  <2>4. LockEvidence'
    BY <1>4 DEF Fill, LockEvidence, InHand, HandOf
  <2>5. RowsAtBroker'
    BY <1>4 DEF Fill, RowsAtBroker, InHand, HandOf
  <2>6. /\ (SellUnlocked /\ ReconRecorded /\ FlagsAfterPersist)'
       /\ (OneSellLockPerTicker)'
    BY <1>4 DEF Fill, SellUnlocked, ReconRecorded, FlagsAfterPersist,
       OneSellLockPerTicker
  <2> QED BY <2>1, <2>2, <2>3, <2>4, <2>5, <2>6
<1>5. CASE RiskBegin
  <2>1. InHand'
    BY <1>5 DEF RiskBegin, InHand, HandOf
  <2>2. SellUnlocked'
    BY <1>5 DEF RiskBegin, SellUnlocked, InHand, HandOf
  <2>3. RiskWriteAhead'
    BY <1>5 DEF RiskBegin, RiskWriteAhead, InHand, HandOf
  <2>4. JournalTruthful'
    BY <1>5 DEF RiskBegin, JournalTruthful, InHand, HandOf
  <2>5. LockEvidence'
    BY <1>5 DEF RiskBegin, LockEvidence, InHand, HandOf
  <2>6. /\ (ReconRecorded /\ FlagsAfterPersist /\ OneSellLockPerTicker)'
       /\ (RowsAtBroker)'
    BY <1>5 DEF RiskBegin, ReconRecorded, FlagsAfterPersist,
       OneSellLockPerTicker, RowsAtBroker
  <2> QED BY <2>1, <2>2, <2>3, <2>4, <2>5, <2>6
<1>6. CASE RiskSubmit
  <2>1. InHand'
    BY <1>6 DEF RiskSubmit, InHand, HandOf
  <2>2. SellUnlocked'
    BY <1>6 DEF RiskSubmit, SellUnlocked, InHand, HandOf
  <2>3. RiskWriteAhead'
    BY <1>6 DEF RiskSubmit, RiskWriteAhead, InHand, HandOf
  <2>4. JournalTruthful'
    BY <1>6 DEF RiskSubmit, JournalTruthful, InHand, HandOf
  <2>5. LockEvidence'
    BY <1>6 DEF RiskSubmit, LockEvidence, InHand, HandOf
  <2>6. RowsAtBroker'
    BY <1>6 DEF RiskSubmit, RowsAtBroker, InHand, HandOf
  <2>7. (ReconRecorded /\ FlagsAfterPersist /\ OneSellLockPerTicker)'
    BY <1>6 DEF RiskSubmit, ReconRecorded, FlagsAfterPersist,
       OneSellLockPerTicker
  <2> QED BY <2>1, <2>2, <2>3, <2>4, <2>5, <2>6, <2>7
<1>7. CASE RiskMark
  <2>1. InHand'
    BY <1>7 DEF RiskMark, InHand, HandOf
  <2>2. SellUnlocked'
    BY <1>7 DEF RiskMark, SellUnlocked, InHand, HandOf
  <2>3. RiskWriteAhead'
    BY <1>7 DEF RiskMark, RiskWriteAhead, InHand, HandOf
  <2>4. JournalTruthful'
    BY <1>7 DEF RiskMark, JournalTruthful, InHand, HandOf
  <2>5. LockEvidence'
    BY <1>7 DEF RiskMark, LockEvidence, InHand, HandOf
  <2>6. /\ (ReconRecorded /\ FlagsAfterPersist /\ OneSellLockPerTicker)'
       /\ (RowsAtBroker)'
    BY <1>7 DEF RiskMark, ReconRecorded, FlagsAfterPersist,
       OneSellLockPerTicker, RowsAtBroker
  <2> QED BY <2>1, <2>2, <2>3, <2>4, <2>5, <2>6
<1>8. CASE RiskException
  <2>1. InHand'
    BY <1>8 DEF RiskException, InHand, HandOf
  <2>2. SellUnlocked'
    BY <1>8 DEF RiskException, SellUnlocked, InHand, HandOf
  <2>3. RiskWriteAhead'
    BY <1>8 DEF RiskException, RiskWriteAhead, InHand, HandOf
  <2>4. JournalTruthful'
    BY <1>8 DEF RiskException, JournalTruthful, InHand, HandOf
  <2>5. LockEvidence'
    BY <1>8 DEF RiskException, LockEvidence, InHand, HandOf
  <2>6. /\ (ReconRecorded /\ FlagsAfterPersist /\ OneSellLockPerTicker)'
       /\ (RowsAtBroker)'
    BY <1>8 DEF RiskException, ReconRecorded, FlagsAfterPersist,
       OneSellLockPerTicker, RowsAtBroker
  <2> QED BY <2>1, <2>2, <2>3, <2>4, <2>5, <2>6
<1>9. CASE RiskFlags
  <2>1. InHand'
    BY <1>9 DEF RiskFlags, InHand, HandOf
  <2>2. SellUnlocked'
    BY <1>9 DEF RiskFlags, SellUnlocked, InHand, HandOf
  <2>3. FlagsAfterPersist'
    BY <1>9 DEF RiskFlags, FlagsAfterPersist, InHand, HandOf
  <2>4. /\ (ReconRecorded /\ RiskWriteAhead /\ JournalTruthful)'
       /\ (LockEvidence /\ OneSellLockPerTicker /\ RowsAtBroker)'
    BY <1>9 DEF RiskFlags, ReconRecorded, RiskWriteAhead, JournalTruthful,
       LockEvidence, OneSellLockPerTicker, RowsAtBroker
  <2> QED BY <2>1, <2>2, <2>3, <2>4
<1>10. CASE TraderCheckDelayed
  <2>1. InHand'
    BY <1>10 DEF TraderCheckDelayed, InHand, HandOf, Backed
  <2>2. SellUnlocked'
    BY <1>10 DEF TraderCheckDelayed, SellUnlocked, InHand, HandOf
  <2>3. /\ (ReconRecorded /\ RiskWriteAhead /\ JournalTruthful)'
       /\ (FlagsAfterPersist /\ LockEvidence /\ OneSellLockPerTicker /\ RowsAtBroker)'
    BY <1>10 DEF TraderCheckDelayed, ReconRecorded, RiskWriteAhead, JournalTruthful,
       FlagsAfterPersist, LockEvidence, OneSellLockPerTicker, RowsAtBroker
  <2> QED BY <2>1, <2>2, <2>3
<1>11. CASE TraderBegin
  <2>1. InHand'
    BY <1>11 DEF TraderBegin, InHand, HandOf
  <2>2. SellUnlocked'
    BY <1>11 DEF TraderBegin, SellUnlocked, InHand, HandOf
  <2>3. RiskWriteAhead'
    BY <1>11 DEF TraderBegin, RiskWriteAhead, InHand, HandOf
  <2>4. JournalTruthful'
    BY <1>11 DEF TraderBegin, JournalTruthful, InHand, HandOf
  <2>5. LockEvidence'
    BY <1>11 DEF TraderBegin, LockEvidence, InHand, HandOf
  <2>6. /\ (ReconRecorded /\ FlagsAfterPersist /\ OneSellLockPerTicker)'
       /\ (RowsAtBroker)'
    BY <1>11 DEF TraderBegin, ReconRecorded, FlagsAfterPersist,
       OneSellLockPerTicker, RowsAtBroker
  <2> QED BY <2>1, <2>2, <2>3, <2>4, <2>5, <2>6
<1>12. CASE TraderMark
  <2>1. InHand'
    BY <1>12 DEF TraderMark, InHand, HandOf
  <2>2. SellUnlocked'
    BY <1>12 DEF TraderMark, SellUnlocked, InHand, HandOf
  <2>3. RiskWriteAhead'
    BY <1>12 DEF TraderMark, RiskWriteAhead, InHand, HandOf
  <2>4. JournalTruthful'
    BY <1>12 DEF TraderMark, JournalTruthful, InHand, HandOf
  <2>5. LockEvidence'
    BY <1>12 DEF TraderMark, LockEvidence, InHand, HandOf
  <2>6. /\ (ReconRecorded /\ FlagsAfterPersist /\ OneSellLockPerTicker)'
       /\ (RowsAtBroker)'
    BY <1>12 DEF TraderMark, ReconRecorded, FlagsAfterPersist,
       OneSellLockPerTicker, RowsAtBroker
  <2> QED BY <2>1, <2>2, <2>3, <2>4, <2>5, <2>6
<1>13. ASSUME NEW p \in Proc, RecordTrade(p) PROVE IInv'
  <2>1. InHand'
    <3>1. CASE rows' = rows
      BY <1>13, <3>1 DEF RecordTrade, InHand, HandOf
    <3>2. ASSUME rows' # rows PROVE InHand'
      <4>1. HandOf(p)'
        BY <1>13, <3>2 DEF RecordTrade, InHand, HandOf
      <4>2. ASSUME NEW q \in Proc, q # p PROVE HandOf(q)'
        <5>1. HandOf(q) /\ pc'[q] = pc[q] /\ UNCHANGED <<cur, journal, broker, locks>>
          BY <1>13, <4>2 DEF RecordTrade, InHand
        <5>2. pc[q] \notin {"idle", "retry"} => rows'[cur[q]] = rows[cur[q]]
          BY <1>13, <4>2 DEF RecordTrade, InHand, HandOf
        <5> QED BY <5>1, <5>2 DEF HandOf
      <4> QED BY <4>1, <4>2 DEF InHand
    <3> QED BY <3>1, <3>2
  <2>2. SellUnlocked'
    BY <1>13 DEF RecordTrade, SellUnlocked, InHand, HandOf
  <2>3. ReconRecorded'
    BY <1>13 DEF RecordTrade, ReconRecorded
  <2>4. JournalTruthful'
    BY <1>13 DEF RecordTrade, JournalTruthful, InHand, HandOf
  <2>5. FlagsAfterPersist'
    BY <1>13 DEF RecordTrade, FlagsAfterPersist, InHand, HandOf
  <2>6. RowsAtBroker'
    BY <1>13 DEF RecordTrade, RowsAtBroker, InHand, HandOf
  <2>7. (RiskWriteAhead /\ LockEvidence /\ OneSellLockPerTicker)'
    BY <1>13 DEF RecordTrade, RiskWriteAhead, LockEvidence,
       OneSellLockPerTicker
  <2> QED BY <2>1, <2>2, <2>3, <2>4, <2>5, <2>6, <2>7
<1>14. ASSUME NEW p \in Proc, PersistOk(p) PROVE IInv'
  <2>1. InHand'
    BY <1>14 DEF PersistOk, Cleared, InHand, HandOf
  <2>2. SellUnlocked'
    BY <1>14 DEF PersistOk, Cleared, SellUnlocked, InHand, HandOf
  <2>3. RiskWriteAhead'
    BY <1>14 DEF PersistOk, Cleared, RiskWriteAhead, InHand, HandOf
  <2>4. JournalTruthful'
    BY <1>14 DEF PersistOk, Cleared, JournalTruthful, InHand, HandOf
  <2>5. LockEvidence'
    BY <1>14 DEF PersistOk, Cleared, LockEvidence, InHand, HandOf
  <2>6. OneSellLockPerTicker'
    BY <1>14 DEF PersistOk, Cleared, OneSellLockPerTicker, InHand, HandOf,
       SellUnlocked
  <2>7. (ReconRecorded /\ FlagsAfterPersist /\ RowsAtBroker)'
    BY <1>14 DEF PersistOk, Cleared, ReconRecorded, FlagsAfterPersist,
       RowsAtBroker
  <2> QED BY <2>1, <2>2, <2>3, <2>4, <2>5, <2>6, <2>7
<1>15. ASSUME NEW p \in Proc, PersistFailed(p) PROVE IInv'
  <2>1. InHand'
    BY <1>15 DEF PersistFailed, InHand, HandOf
  <2>2. SellUnlocked'
    BY <1>15 DEF PersistFailed, SellUnlocked, InHand, HandOf
  <2>3. RiskWriteAhead'
    BY <1>15 DEF PersistFailed, RiskWriteAhead, InHand, HandOf
  <2>4. JournalTruthful'
    BY <1>15 DEF PersistFailed, JournalTruthful, InHand, HandOf
  <2>5. LockEvidence'
    BY <1>15 DEF PersistFailed, LockEvidence, InHand, HandOf
  <2>6. /\ (ReconRecorded /\ FlagsAfterPersist /\ OneSellLockPerTicker)'
       /\ (RowsAtBroker)'
    BY <1>15 DEF PersistFailed, ReconRecorded, FlagsAfterPersist,
       OneSellLockPerTicker, RowsAtBroker
  <2> QED BY <2>1, <2>2, <2>3, <2>4, <2>5, <2>6
<1>16. ASSUME NEW p \in Proc, ReconcileRequired(p) PROVE IInv'
  <2>1. InHand'
    BY <1>16 DEF ReconcileRequired, InHand, HandOf
  <2>2. SellUnlocked'
    BY <1>16 DEF ReconcileRequired, SellUnlocked, InHand, HandOf
  <2>3. RiskWriteAhead'
    BY <1>16 DEF ReconcileRequired, RiskWriteAhead, InHand, HandOf
  <2>4. JournalTruthful'
    BY <1>16 DEF ReconcileRequired, JournalTruthful, InHand, HandOf
  <2>5. LockEvidence'
    BY <1>16 DEF ReconcileRequired, LockEvidence, InHand, HandOf
  <2>6. /\ (ReconRecorded /\ FlagsAfterPersist /\ OneSellLockPerTicker)'
       /\ (RowsAtBroker)'
    BY <1>16 DEF ReconcileRequired, ReconRecorded, FlagsAfterPersist,
       OneSellLockPerTicker, RowsAtBroker
  <2> QED BY <2>1, <2>2, <2>3, <2>4, <2>5, <2>6
<1>17. ASSUME NEW p \in Proc, CreateLock(p) PROVE IInv'
  <2>1. InHand'
    BY <1>17 DEF CreateLock, InHand, HandOf
  <2>2. SellUnlocked'
    BY <1>17 DEF CreateLock, SellUnlocked, InHand, HandOf
  <2>3. LockEvidence'
    BY <1>17 DEF CreateLock, LockEvidence, InHand, HandOf
  <2>4. OneSellLockPerTicker'
    BY <1>17 DEF CreateLock, OneSellLockPerTicker, InHand, HandOf,
       SellUnlocked
  <2>5. /\ (ReconRecorded /\ RiskWriteAhead /\ JournalTruthful)'
       /\ (FlagsAfterPersist /\ RowsAtBroker)'
    BY <1>17 DEF CreateLock, ReconRecorded, RiskWriteAhead, JournalTruthful,
       FlagsAfterPersist, RowsAtBroker
  <2> QED BY <2>1, <2>2, <2>3, <2>4, <2>5
<1>18. ASSUME NEW p \in Proc, Crash(p) PROVE IInv'
  <2>1. InHand'
    BY <1>18 DEF Crash, InHand, HandOf
  <2>2. SellUnlocked'
    BY <1>18 DEF Crash, SellUnlocked, InHand, HandOf
  <2>3. /\ (ReconRecorded /\ RiskWriteAhead /\ JournalTruthful)'
       /\ (FlagsAfterPersist /\ LockEvidence /\ OneSellLockPerTicker /\ RowsAtBroker)'
    BY <1>18 DEF Crash, ReconRecorded, RiskWriteAhead, JournalTruthful,
       FlagsAfterPersist, LockEvidence, OneSellLockPerTicker, RowsAtBroker
  <2> QED BY <2>1, <2>2, <2>3
<1>19. CASE DetectBrokerOnly
  <2>1. RowsAtBroker'
    BY <1>19 DEF DetectBrokerOnly, RowsAtBroker, InHand, HandOf
  <2>2. /\ (InHand /\ SellUnlocked /\ ReconRecorded)'
       /\ (RiskWriteAhead /\ JournalTruthful /\ FlagsAfterPersist /\ LockEvidence /\ OneSellLockPerTicker)'
    BY <1>19 DEF DetectBrokerOnly, InHand, SellUnlocked, ReconRecorded,
       RiskWriteAhead, JournalTruthful, FlagsAfterPersist, LockEvidence,
       OneSellLockPerTicker, HandOf
  <2> QED BY <2>1, <2>2
<1>20. CASE BackfillClear
  <2>1. InHand'
    BY <1>20 DEF BackfillClear, Cleared, InHand, HandOf
  <2>2. SellUnlocked'
    BY <1>20 DEF BackfillClear, Cleared, SellUnlocked, InHand, HandOf
  <2>3. ReconRecorded'
    BY <1>20 DEF BackfillClear, Cleared, ReconRecorded
  <2>4. LockEvidence'
    BY <1>20 DEF BackfillClear, Cleared, LockEvidence, InHand, HandOf
  <2>5. OneSellLockPerTicker'
    BY <1>20 DEF BackfillClear, Cleared, OneSellLockPerTicker, InHand, HandOf,
       SellUnlocked
  <2>6. /\ (RiskWriteAhead /\ JournalTruthful /\ FlagsAfterPersist)'
       /\ (RowsAtBroker)'
    BY <1>20 DEF BackfillClear, Cleared, RiskWriteAhead, JournalTruthful,
       FlagsAfterPersist, RowsAtBroker
  <2> QED BY <2>1, <2>2, <2>3, <2>4, <2>5, <2>6
<1>21. CASE ReconCrash
  <2>1. ReconRecorded'
    BY <1>21 DEF ReconCrash, ReconRecorded
  <2>2. RowsAtBroker'
    BY <1>21 DEF ReconCrash, RowsAtBroker, InHand, HandOf
  <2>3. /\ (InHand /\ SellUnlocked /\ RiskWriteAhead)'
       /\ (JournalTruthful /\ FlagsAfterPersist /\ LockEvidence /\ OneSellLockPerTicker)'
    BY <1>21 DEF ReconCrash, InHand, SellUnlocked, RiskWriteAhead,
       JournalTruthful, FlagsAfterPersist, LockEvidence, OneSellLockPerTicker,
       HandOf
  <2> QED BY <2>1, <2>2, <2>3
<1>22. CASE UNCHANGED vars
  BY <1>22 DEF vars, HandOf, InHand, SellUnlocked, ReconRecorded,
     RiskWriteAhead, JournalTruthful, FlagsAfterPersist, LockEvidence,
     OneSellLockPerTicker, RowsAtBroker
<1> QED
  BY <1>1, <1>2, <1>3, <1>4, <1>5, <1>6, <1>7, <1>8, <1>9, <1>10, <1>11,
     <1>12, <1>13, <1>14, <1>15, <1>16, <1>17, <1>18, <1>19, <1>20, <1>21,
     <1>22 DEF Next

(* The inductive invariant holds in every reachable state. *)
LEMMA Inductive == Spec => []IInv
<1>1. Init => IInv
  BY OrderAssumption
     DEF Init, IInv, TypeOK, Proc, PcOf, JournalStatus, InHand, HandOf, AfterSubmit,
         SellUnlocked, ReconRecorded, RiskWriteAhead, JournalTruthful, AtBroker,
         Recorded, FlagsAfterPersist, LockEvidence, OneSellLockPerTicker, RowsAtBroker
<1>2. IInv /\ [Next]_vars => IInv'
  BY TypeStep, SafetyStep DEF IInv
<1> QED
  BY <1>1, <1>2, PTL DEF Spec

-----------------------------------------------------------------------------
(* Whatever answers KIS gives and wherever the processes are killed, an    *)
(* order of _direct_execute_sell that reached KIS has a journal file.      *)
THEOREM WriteAhead == Spec => []RiskWriteAhead
<1>1. IInv => RiskWriteAhead
  BY DEF IInv
<1> QED
  BY Inductive, <1>1, PTL

(* The journal never claims a row that is not in the database; and an      *)
(* order that is not at KIS only for a buy without order number, on the    *)
(* strength of an execution of its symbol that KIS does report.            *)
THEOREM Truthful == Spec => []JournalTruthful
<1>1. IInv => JournalTruthful
  BY DEF IInv
<1> QED
  BY Inductive, <1>1, PTL

(* _direct_execute_partial_sell writes its flag and cooldown only for a    *)
(* sell whose row is in trade_records under its order id.                  *)
THEOREM FlagsLast == Spec => []FlagsAfterPersist
<1>1. IInv => FlagsAfterPersist
  BY DEF IInv
<1> QED
  BY Inductive, <1>1, PTL

(* A lock file names a journal that says reconcile_required and an order   *)
(* at KIS, or a buy taken for executed by an execution of its symbol.      *)
THEOREM Evidence == Spec => []LockEvidence
<1>1. IInv => LockEvidence
  BY DEF IInv
<1> QED
  BY Inductive, <1>1, PTL

(* The check at the top of _direct_execute_sell suffices: there are never  *)
(* two sell locks of one ticker, because only one risk process runs and    *)
(* makes them (SellUnlocked).                                              *)
THEOREM OneLock == Spec => []OneSellLockPerTicker
<1>1. IInv => OneSellLockPerTicker
  BY DEF IInv
<1> QED
  BY Inductive, <1>1, PTL

(* No sell of the risk manager reaches KIS under a lock of its ticker,     *)
(* although the lock was read some calls before order_cash.                *)
THEOREM SellBlocked == Spec => NoSellUnderLock
<1>1. IInv /\ [Next]_vars
        => [\A o \in Order : Owner[o] = "risk" /\ ~AtBroker(o) /\ AtBroker(o)'
                => \A l \in locks :
                       Owner[l] = "risk" => TickerOf[l] # TickerOf[o]]_vars
  <2> SUFFICES ASSUME IInv, Next, NEW o \in Order, Owner[o] = "risk",
                      ~AtBroker(o), AtBroker(o)'
               PROVE \A l \in locks : Owner[l] = "risk" => TickerOf[l] # TickerOf[o]
    OBVIOUS
  <2> USE DEF AtBroker, IInv, TypeOK
  <2>1. broker' # broker
    OBVIOUS
  <2>2. \A q \in Order : ~TraderSubmit(q) /\ ~Fill(q)
    BY DEF TraderSubmit, Fill
  <2>3. RiskSubmit
    BY <2>1, <2>2 DEF Next, RiskCheckLock, BackfillRow, RiskBegin, RiskMark,
       RiskException, RiskFlags, TraderCheckDelayed, TraderBegin, TraderMark,
       RecordTrade, PersistOk, PersistFailed, ReconcileRequired, CreateLock,
       Crash, DetectBrokerOnly, BackfillClear, ReconCrash
  <2>4. o = cur["risk"] /\ pc["risk"] = "submit"
    BY <2>3 DEF RiskSubmit
  <2> QED
    BY <2>4 DEF SellUnlocked
<1> QED
  BY Inductive, <1>1, PTL DEF Spec, NoSellUnderLock

(* A lock file is removed, by a retrying caller or by the backfill of the  *)
(* reconciler, only once its own order has a row.                          *)
THEOREM LockReleased == Spec => LockReleasedOnceRecorded
<1>1. IInv /\ [Next]_vars => [\A o \in locks \ locks' : Recorded(o)]_vars
  <2> SUFFICES ASSUME IInv, Next, NEW o \in locks, o \notin locks'
               PROVE Recorded(o)
    OBVIOUS
  <2>1. (\E p \in Proc : PersistOk(p)) \/ BackfillClear
    BY DEF Next, RiskCheckLock, TraderSubmit, BackfillRow, Fill, RiskBegin,
       RiskSubmit, RiskMark, RiskException, RiskFlags, TraderCheckDelayed, TraderBegin,
       TraderMark, RecordTrade, PersistFailed, ReconcileRequired, CreateLock,
       Crash, DetectBrokerOnly, ReconCrash
  <2>2. ASSUME NEW p \in Proc, PersistOk(p) PROVE Recorded(o)
    BY <2>2 DEF PersistOk, Cleared
  <2>3. CASE BackfillClear
    BY <2>3 DEF BackfillClear, Cleared, IInv, ReconRecorded
  <2> QED
    BY <2>1, <2>2, <2>3
<1> QED
  BY Inductive, <1>1, PTL DEF Spec, LockReleasedOnceRecorded
-----------------------------------------------------------------------------
(* Refinement: which step of DurableSell a step of the protocol is.        *)

stageBar == [o \in Sells |-> StageOf(o)]
heldBar  == locks \cap Sells

(* A step that leaves every stage, lock and flag alone is a stutter. *)
Invisible == /\ \A q \in Sells : StageOf(q)' = StageOf(q)
             /\ heldBar' = heldBar /\ flagged' = flagged

LEMMA Stutter == Invisible => UNCHANGED Durable!vars
<1> SUFFICES ASSUME Invisible PROVE UNCHANGED Durable!vars
  OBVIOUS
<1>1. stageBar' = stageBar
  BY DEF Invisible, stageBar, Sells
<1> QED
  BY <1>1 DEF Invisible, Durable!vars, stageBar, heldBar

(* One sell moves to another stage. *)
LEMMA OneStage ==
    ASSUME NEW o \in Sells, NEW s, StageOf(o)' = s,
           \A q \in Sells \ {o} : StageOf(q)' = StageOf(q)
    PROVE  stageBar' = [stageBar EXCEPT ![o] = s]
BY DEF stageBar, Sells

(* A step of one sell is a step of the specification. *)
LEMMA SellStep ==
    ASSUME NEW o \in Sells,
           \/ Durable!Intend(o) \/ Durable!Send(o) \/ Durable!Record(o)
           \/ Durable!Hold(o) \/ Durable!Release(o) \/ Durable!Flag(o)
    PROVE  Durable!Next
BY DEF Durable!Next

LEMMA RefinementStep == IInv /\ IInv' /\ [Next]_vars => [Durable!Next]_Durable!vars
<1> SUFFICES ASSUME IInv, IInv', [Next]_vars PROVE [Durable!Next]_Durable!vars
  OBVIOUS
<1> USE OrderAssumption
    DEF Proc, PcOf, JournalStatus, Goto, Work, Return, Journal, AtBroker,
        Recorded, RecordedSide, Sells, StageOf, IInv, TypeOK, heldBar
<1>1. ASSUME NEW o \in Order, RiskCheckLock(o) PROVE Invisible
  BY <1>1 DEF RiskCheckLock, Invisible
<1>2. ASSUME NEW o \in Order, TraderSubmit(o) PROVE Invisible
  BY <1>2 DEF TraderSubmit, Invisible, Fresh
<1>3. ASSUME NEW o \in Order, Fill(o) PROVE Invisible
  BY <1>3 DEF Fill, Invisible
<1>4. ASSUME RiskMark PROVE Invisible
  BY <1>4 DEF RiskMark, Invisible, InHand, HandOf, AfterSubmit
<1>5. ASSUME RiskException PROVE Invisible
  BY <1>5 DEF RiskException, Invisible, InHand, HandOf, AfterSubmit
<1>6. ASSUME TraderCheckDelayed PROVE Invisible
  BY <1>6 DEF TraderCheckDelayed, Invisible
<1>7. ASSUME TraderBegin PROVE Invisible
  BY <1>7 DEF TraderBegin, Invisible, InHand, HandOf, AfterSubmit
<1>8. ASSUME TraderMark PROVE Invisible
  BY <1>8 DEF TraderMark, Invisible, InHand, HandOf, AfterSubmit
<1>9. ASSUME NEW p \in Proc, PersistOk(p) PROVE Invisible
  BY <1>9 DEF PersistOk, Invisible, InHand, HandOf, AfterSubmit, Cleared
<1>10. ASSUME NEW p \in Proc, PersistFailed(p) PROVE Invisible
  BY <1>10 DEF PersistFailed, Invisible, InHand, HandOf, AfterSubmit
<1>11. ASSUME NEW p \in Proc, ReconcileRequired(p) PROVE Invisible
  BY <1>11 DEF ReconcileRequired, Invisible, InHand, HandOf, AfterSubmit
<1>12. ASSUME NEW p \in Proc, Crash(p) PROVE Invisible
  BY <1>12 DEF Crash, Invisible
<1>13. ASSUME DetectBrokerOnly PROVE Invisible
  BY <1>13 DEF DetectBrokerOnly, Invisible
<1>14. ASSUME ReconCrash PROVE Invisible
  BY <1>14 DEF ReconCrash, Invisible
<1>15. ASSUME UNCHANGED vars PROVE Invisible
  BY <1>15 DEF vars, Invisible
<1>16. ASSUME RiskBegin PROVE Durable!Next \/ Invisible
  <2> DEFINE o == cur["risk"]
  <2>1. CASE journal' = journal
    BY <1>16, <2>1 DEF RiskBegin, Invisible
  <2>2. CASE journal' # journal
    <3>1. /\ o \in Sells /\ ~HasLock(TickerOf[o], "SELL")
          /\ journal' = [journal EXCEPT ![o] = "created"]
          /\ UNCHANGED <<broker, rows, locks, flagged>>
      BY <1>16, <2>2 DEF RiskBegin, InHand, HandOf
    <3>2. StageOf(o) = "new" /\ StageOf(o)' = "intended"
      BY <1>16, <3>1 DEF RiskBegin, InHand, HandOf, JournalTruthful, Fresh
    <3>3. \A q \in Sells \ {o} : StageOf(q)' = StageOf(q)
      BY <3>1
    <3>4. stageBar' = [stageBar EXCEPT ![o] = "intended"]
      BY <3>1, <3>2, <3>3, OneStage
    <3>5. Durable!Intend(o)
      BY <3>1, <3>2, <3>4
         DEF Durable!Intend, Durable!TickerFree, Durable!Advance, stageBar, HasLock
    <3> HIDE DEF IInv, StageOf, Sells, AtBroker, Recorded, RecordedSide
    <3> QED BY <3>1, <3>5, SellStep
  <2> QED BY <2>1, <2>2
<1>17. ASSUME RiskSubmit PROVE Durable!Next \/ Invisible
  <2>1. PICK o \in Order : o = cur["risk"]
    BY <1>17 DEF RiskSubmit
  <2>2. CASE broker' = broker
    BY <1>17, <2>2 DEF RiskSubmit, Invisible
  <2>3. CASE broker' # broker
    <3>1. /\ o \in Sells
          /\ broker' = [broker EXCEPT ![o] = "live"]
          /\ UNCHANGED <<journal, rows, locks, flagged>>
      BY <1>17, <2>1, <2>3 DEF RiskSubmit, InHand, HandOf
    <3>2. StageOf(o) = "intended" /\ StageOf(o)' = "sent"
      <4>1. ~AtBroker(o) /\ journal[o] # "none"
        BY <1>17, <2>1 DEF RiskSubmit, InHand, HandOf
      <4>2. o \in Order /\ "keyed" \notin rows[o] /\ "keyed" \notin rows'[o]
        BY <3>1, <4>1 DEF JournalTruthful
      <4>3. broker'[o] = "live"
        BY <3>1, <4>2
      <4> QED BY <3>1, <4>1, <4>2, <4>3
    <3>3. \A q \in Sells \ {o} : StageOf(q)' = StageOf(q)
      BY <3>1
    <3>4. stageBar' = [stageBar EXCEPT ![o] = "sent"]
      BY <3>1, <3>2, <3>3, OneStage
    <3>5. Durable!TickerFree(o)
      BY <1>17, <2>1 DEF RiskSubmit, Durable!TickerFree, SellUnlocked
    <3>6. Durable!Send(o)
      BY <3>1, <3>2, <3>4, <3>5 DEF Durable!Send, Durable!Advance, stageBar
    <3> HIDE DEF IInv, StageOf, Sells, AtBroker, Recorded, RecordedSide
    <3> QED BY <3>1, <3>6, SellStep
  <2> QED BY <2>2, <2>3
<1>18. ASSUME RiskFlags PROVE Durable!Next \/ Invisible
  <2> DEFINE o == cur["risk"]
  <2>1. CASE flagged' = flagged
    BY <1>18, <2>1 DEF RiskFlags, Invisible
  <2>2. CASE flagged' # flagged
    <3>1. /\ o \in Sells /\ StageOf(o) = "recorded" /\ stageBar' = stageBar
          /\ flagged' = flagged \cup {o} /\ UNCHANGED locks
      BY <1>18, <2>2 DEF RiskFlags, InHand, HandOf, stageBar
    <3>2. Durable!Flag(o)
      BY <3>1 DEF Durable!Flag, Durable!Known, stageBar
    <3> HIDE DEF IInv, StageOf, Sells, AtBroker, Recorded, RecordedSide
    <3> QED BY <3>1, <3>2, SellStep
  <2> QED BY <2>1, <2>2
<1>19. ASSUME NEW o \in Order, rows' = [rows EXCEPT ![o] = @ \cup {"keyed"}],
              AtBroker(o), UNCHANGED <<journal, broker, locks, flagged>>
       PROVE  Durable!Next \/ Invisible
  <2>1. \A q \in Order \ {o} : StageOf(q)' = StageOf(q)
    BY <1>19
  <2>2. StageOf(o)' = "recorded"
    BY <1>19
  <2>3. CASE o \notin Sells \/ Recorded(o)
    BY <1>19, <2>1, <2>2, <2>3 DEF Invisible
  <2>4. CASE o \in Sells /\ ~Recorded(o)
    <3>1. StageOf(o) = "sent"
      BY <1>19, <2>4
    <3>2. stageBar' = [stageBar EXCEPT ![o] = "recorded"]
      BY <2>1, <2>2, <2>4, OneStage
    <3>3. Durable!Record(o)
      BY <1>19, <2>4, <3>1, <3>2 DEF Durable!Record, Durable!Advance, stageBar
    <3> HIDE DEF IInv, StageOf, Sells, AtBroker, Recorded, RecordedSide
    <3> QED BY <2>4, <3>3, SellStep
  <2> QED BY <2>3, <2>4
<1>20. ASSUME NEW p \in Proc, RecordTrade(p) PROVE Durable!Next \/ Invisible
  <2> DEFINE o == cur[p]
  <2>1. CASE rows' = rows
    BY <1>20, <2>1 DEF RecordTrade, Invisible
  <2>2. CASE pc[p] = "persist" /\ rows' # rows
    <3>1. AtBroker(o) /\ o \in Order
      BY <1>20, <2>2 DEF InHand, HandOf
    <3>2. rows' = [rows EXCEPT ![o] = @ \cup {"keyed"}]
      BY <1>20, <2>2 DEF RecordTrade
    <3> QED BY <1>19, <1>20, <3>1, <3>2 DEF RecordTrade
  <2>3. CASE pc[p] = "persist_noid" /\ rows' # rows
    BY <1>20, <2>3 DEF RecordTrade, Invisible
  <2> QED BY <1>20, <2>1, <2>2, <2>3 DEF RecordTrade
<1>21. ASSUME NEW o \in Order, BackfillRow(o) PROVE Durable!Next \/ Invisible
  <2>1. CASE rows' = rows
    BY <1>21, <2>1 DEF BackfillRow, Invisible
  <2>2. CASE rows' = [rows EXCEPT ![o] = @ \cup {"keyed"}]
    BY <1>19, <1>21, <2>2 DEF BackfillRow, RowsAtBroker
  <2> QED BY <1>21, <2>1, <2>2 DEF BackfillRow
<1>22. ASSUME NEW p \in Proc, CreateLock(p) PROVE Durable!Next \/ Invisible
  <2> DEFINE o == cur[p]
  <2>1. stageBar' = stageBar /\ flagged' = flagged /\ locks' = locks \cup {o}
    BY <1>22 DEF CreateLock, stageBar
  <2>2. CASE o \in Sells
    <3>1. p = "risk" /\ StageOf(o) \in {"sent", "recorded"}
      BY <1>22, <2>2 DEF CreateLock, InHand, HandOf, AfterSubmit, Backed
    <3>2. Durable!TickerFree(o)
      BY <1>22, <3>1 DEF CreateLock, Durable!TickerFree, SellUnlocked
    <3>3. Durable!Hold(o)
      BY <2>1, <2>2, <3>1, <3>2 DEF Durable!Hold, stageBar
    <3> HIDE DEF IInv, StageOf, Sells, AtBroker, Recorded, RecordedSide
    <3> QED BY <2>2, <3>3, SellStep
  <2>3. CASE o \notin Sells
    BY <1>22, <2>1, <2>3 DEF CreateLock, Invisible
  <2> QED BY <2>2, <2>3
<1>23. ASSUME BackfillClear PROVE Durable!Next \/ Invisible
  <2>1. stageBar' = stageBar /\ flagged' = flagged
    BY <1>23 DEF BackfillClear, stageBar
  <2>2. CASE recon \in Sells /\ recon \in locks
    <3>1. heldBar' = heldBar \ {recon} /\ StageOf(recon) = "recorded"
      BY <1>23, <2>2 DEF BackfillClear, Cleared, SentSide, ReconRecorded
    <3>2. Durable!Release(recon)
      BY <2>1, <2>2, <3>1 DEF Durable!Release, Durable!Known, stageBar
    <3> HIDE DEF IInv, StageOf, Sells, AtBroker, Recorded, RecordedSide
    <3> QED BY <2>2, <3>2, SellStep
  <2>3. CASE ~(recon \in Sells /\ recon \in locks)
    BY <1>23, <2>3 DEF BackfillClear, Cleared, SentSide, Invisible
  <2> QED BY <2>2, <2>3
<1> QED
  BY <1>1, <1>2, <1>3, <1>4, <1>5, <1>6, <1>7, <1>8, <1>9, <1>10, <1>11, <1>12,
     <1>13, <1>14, <1>15, <1>16, <1>17, <1>18, <1>19, <1>20, <1>21, <1>22,
     <1>23,     Stutter DEF Next

(* For the sells of the risk manager, every behaviour of the protocol is a *)
(* behaviour of DurableSell: write-ahead, record before flags, and a hold  *)
(* on the ticker until the order is recorded.                              *)
THEOREM Refinement == Spec => ImplementsDurableSell
<1>1. Init => Durable!Init
  BY DEF Init, Durable!Init, StageOf, Recorded, AtBroker, Sells
<1> QED
  BY <1>1, RefinementStep, Inductive, PTL DEF Spec, ImplementsDurableSell, Durable!Spec
=============================================================================
