-------------------------- MODULE TradeLedgerProofs --------------------------
(***************************************************************************)
(* Proofs about TradeLedger and LedgerRepair for any number of orders and  *)
(* of shares, any prices and any days.                                     *)
(*                                                                         *)
(* First TradeLedger: IInv is the invariant of the rows and of what the    *)
(* programs know of them.  Then LedgerRepair: RepairInv is the invariant   *)
(* of the rows and of what the repair has read.  That a repair is exact    *)
(* follows the shares one by one: the lots left after a part of the        *)
(* timeline are Covering the shares bought and not yet sold, so that a     *)
(* sell takes from them the very shares TrueGross counts.                  *)
(***************************************************************************)
EXTENDS TradeLedger, LedgerRepair, SequenceTheorems, FiniteSetTheorems, WellFoundedInduction,
        TLAPS

(* A row that was not read off the holdings has no more shares than KIS    *)
(* executed of its order.                                                  *)
Backed(r) ==
    r.id \in Order \ guessed =>
        /\ r.exe <= exe[r.id]
        /\ r.status = "executed" => exe[r.id] > 0

(* The same for what is about to be written: the answers of KIS are old,   *)
(* but executions are never taken back.                                    *)
AllBacked ==
    /\ \A i \in DOMAIN rows : Backed(rows[i])
    /\ \A p \in Proc : Backed(up[p].new)
    /\ \A o \in Order : kis.exe[o] <= exe[o]
    /\ pc["recon"] = "backfill" => \A o \in todo["recon"] : exe[o] = Lot

Excused == overlapped \cup matched \cup {NoOrder}

(* An upsert past its SELECT still knows the only row of its order.        *)
SelectedRow ==
    \A p \in Proc :
        up[p].at = "write" /\ up[p].new.id \notin Excused =>
            \A i \in RowsOf(up[p].new.id) : i = up[p].row

(* Two upserts of an order past their SELECTs overlapped.                  *)
WritersOverlap ==
    \A p, q \in Proc :
        (/\ p # q /\ up[p].at = "write" /\ up[q].at = "write"
         /\ up[p].new.id = up[q].new.id)
            => up[p].new.id \in overlapped \cup {NoOrder}

Rowwise == OneRowPerOrder /\ SelectedRow /\ WritersOverlap

IInv == TypeOK /\ AllBacked /\ Rowwise

-----------------------------------------------------------------------------
(* Some numbers have a first one.                                          *)
LEMMA SomeFirst ==
    ASSUME NEW S \in SUBSET Nat, S # {}
    PROVE  \E m \in S : \A k \in S : m <= k
<1> DEFINE R == OpToRel(<, Nat)
<1>1. PICK m \in S : \A k \in S : <<k, m>> \notin R
  <2>1. IsWellFoundedOn(R, Nat)
    BY NatLessThanWellFounded
  <2> HIDE DEF R
  <2> QED BY <2>1, WFMin
<1>2. \A k \in S : ~(k < m)
  BY <1>1 DEF OpToRel
<1> QED BY <1>2

(* Finitely many numbers have a last one.                                  *)
LEMMA SomeLast ==
    ASSUME NEW n \in Nat, NEW S \in SUBSET (1 .. n), S # {}
    PROVE  \E m \in S : \A k \in S : k <= m
<1> DEFINE G == {k \in 0 .. n : n - k \in S}
<1>1. G \in SUBSET Nat /\ G # {}
  <2>1. PICK x \in S : TRUE
    OBVIOUS
  <2>2. x \in 1 .. n /\ n - x \in 0 .. n /\ n - (n - x) = x
    BY <2>1
  <2>3. n - x \in G
    BY <2>1, <2>2
  <2>4. G \in SUBSET Nat
    OBVIOUS
  <2> QED BY <2>3, <2>4
<1>2. PICK g \in G : \A k \in G : g <= k
  <2> HIDE DEF G
  <2> QED BY <1>1, SomeFirst
<1>3. \A k \in S : k <= n - g
  <2> TAKE k \in S
  <2>1. n - k \in 0 .. n /\ n - (n - k) = k
    OBVIOUS
  <2>2. n - k \in G
    BY <2>1
  <2> QED BY <1>2, <2>1, <2>2
<1> QED BY <1>2, <1>3

(* The largest of finitely many row numbers is one of them, and is largest. *)
LEMMA MaxIsLargest ==
  ASSUME NEW n \in Nat, NEW S, S \subseteq 1 .. n, S # {}
  PROVE  Max(S) \in S /\ \A y \in S : y <= Max(S)
<1>1. PICK m \in S : \A y \in S : y <= m
  BY SomeLast
<1>2. \A y \in S : m >= y
  BY <1>1
<1> QED
  BY <1>2 DEF Max

(* An update of a column keeps the rows and their order ids. *)
LEMMA TableFacts == TableOK =>
    /\ Len(rows) \in Nat /\ DOMAIN rows = 1 .. Len(rows)
    /\ \A i \in DOMAIN rows : rows[i] \in RowType
  BY LenProperties, ElementOfSeq DEF TableOK

LEMMA UpdatedRows ==
  ASSUME TableOK, NEW o \in Order, NEW s \in Open \cup {"executed", "cancelled"},
         NEW e \in Nat
  PROVE  /\ Updated(o, s, e) \in Seq(RowType)
         /\ DOMAIN Updated(o, s, e) = DOMAIN rows
         /\ \A i \in DOMAIN rows :
               Updated(o, s, e)[i] = IF rows[i].id = o THEN Row(o, s, e) ELSE rows[i]
<1>1. \A i \in DOMAIN rows : Updated(o, s, e)[i] \in RowType
  BY TableFacts DEF Updated, RowType, Row
<1>2. Updated(o, s, e) \in [1 .. Len(rows) -> RowType]
  BY <1>1, TableFacts DEF Updated
<1> QED
  BY <1>2, TableFacts, SeqDef DEF Updated

(* An update of the rows of an order keeps the table. *)
LEMMA UpdatedTable ==
  ASSUME TableOK, NEW o \in Order, NEW s \in Open \cup {"executed", "cancelled"},
         NEW e \in Nat, rows' = Updated(o, s, e), orphans' = orphans
  PROVE  TableOK'
<1>1. /\ rows' \in Seq(RowType) /\ DOMAIN rows' = DOMAIN rows
      /\ \A i \in DOMAIN rows :
            rows'[i] = IF rows[i].id = o THEN Row(o, s, e) ELSE rows[i]
  BY UpdatedRows
<1>2. \A i \in DOMAIN rows : /\ rows'[i].id = rows[i].id
                             /\ rows[i].id # o => rows'[i] = rows[i]
  BY <1>1 DEF Row
<1>3. o # NoOrder
  BY LedgerAssumption
<1> QED BY <1>1, <1>2, <1>3 DEF TableOK, RowsOf

LEMMA CancelledRows ==
  ASSUME TableOK, NEW o \in Order
  PROVE  /\ Cancelled(o) \in Seq(RowType)
         /\ DOMAIN Cancelled(o) = DOMAIN rows
         /\ \A i \in DOMAIN rows :
               Cancelled(o)[i] = IF rows[i].id = o /\ rows[i].status = "pending"
                                 THEN [rows[i] EXCEPT !.status = "cancelled"]
                                 ELSE rows[i]
<1>1. \A i \in DOMAIN rows : Cancelled(o)[i] \in RowType
  BY TableFacts DEF Cancelled, RowType
<1>2. Cancelled(o) \in [1 .. Len(rows) -> RowType]
  BY <1>1, TableFacts DEF Cancelled
<1> QED
  BY <1>2, TableFacts, SeqDef DEF Cancelled

(* A write adds a row at the end or replaces one of the same order. *)
LEMMA WrittenRows ==
  ASSUME TypeOK, NEW p \in Proc, WriteRow(p)
  PROVE  /\ rows' \in Seq(RowType)
         /\ \/ /\ up[p].row = 0
               /\ DOMAIN rows' = DOMAIN rows \cup {Len(rows) + 1}
               /\ Len(rows) + 1 \notin DOMAIN rows
               /\ \A i \in DOMAIN rows : rows'[i] = rows[i]
               /\ rows'[Len(rows) + 1] = up[p].new
            \/ /\ up[p].row \in DOMAIN rows /\ DOMAIN rows' = DOMAIN rows
               /\ rows[up[p].row].id = up[p].new.id
               /\ \A i \in DOMAIN rows :
                     rows'[i] = IF i = up[p].row THEN up[p].new ELSE rows[i]
<1> USE DEF TypeOK, WriteRow
<1>1. up[p].new \in RowType
  BY DEF UpsertOK, PutType
<1>2. CASE up[p].row = 0
  <2>1. rows' = Append(rows, up[p].new)
    BY <1>2
  <2>2. /\ rows' \in Seq(RowType) /\ Len(rows') = Len(rows) + 1
        /\ \A i \in 1 .. Len(rows) : rows'[i] = rows[i]
        /\ rows'[Len(rows) + 1] = up[p].new
    BY <1>1, <2>1, AppendProperties DEF TableOK
  <2>3. DOMAIN rows' = 1 .. (Len(rows) + 1)
    BY <2>2, LenProperties
  <2> QED BY <1>2, <2>2, <2>3, TableFacts
<1>3. CASE up[p].row # 0
  <2>1. /\ rows' = [rows EXCEPT ![up[p].row] = up[p].new]
        /\ up[p].row \in RowsOf(up[p].new.id)
    BY <1>3 DEF UpsertOK
  <2>2. up[p].row \in DOMAIN rows /\ rows[up[p].row].id = up[p].new.id
    BY <2>1 DEF RowsOf
  <2>3. rows' \in Seq(RowType)
    BY <1>1, <2>1, <2>2, TableFacts, ExceptSeq DEF TableOK
  <2> QED BY <2>1, <2>2, <2>3
<1> QED BY <1>2, <1>3

(* A write leaves every row to its order. *)
LEMMA WrittenIds ==
  ASSUME TypeOK, NEW p \in Proc, WriteRow(p)
  PROVE  \A i \in DOMAIN rows : i \in DOMAIN rows' /\ rows'[i].id = rows[i].id
<1> TAKE i \in DOMAIN rows
<1>1. CASE up[p].row = 0
  BY <1>1, WrittenRows, TableFacts DEF TypeOK
<1>2. CASE up[p].row # 0
  BY <1>2, WrittenRows
<1> QED BY <1>1, <1>2

(* The SELECT finds the latest row of its order. *)
LEMMA SelectedIsRow ==
  ASSUME TableOK, NEW o, RowsOf(o) # {}
  PROVE  Max(RowsOf(o)) \in RowsOf(o) /\ Max(RowsOf(o)) \in Nat \ {0}
<1>1. Len(rows) \in Nat /\ RowsOf(o) \subseteq 1 .. Len(rows)
  BY TableFacts DEF RowsOf
<1> QED
  BY <1>1, MaxIsLargest

LEMMA OpenIdsAreOrders == TableOK => OpenIds \subseteq Order
  BY TableFacts DEF OpenIds, RowsIn, RowType

(* The row a match is made for has no order id, the order is a buy that    *)
(* KIS has executed.                                                       *)
LEMMA MatchedRow ==
  ASSUME TypeOK, MatchOrphan
  PROVE  /\ Max(orphans) \in RowsOf(NoOrder) /\ Max(orphans) \in orphans
         /\ \/ UNCHANGED <<rows, todo, matched>>
            \/ \E o \in Order :
                  /\ kis.exe[o] > 0 /\ matched' = matched \cup {o}
                  /\ rows' = [rows EXCEPT ![Max(orphans)] =
                                  Row(o, Classify(o), kis.exe[o])]
                  /\ todo' = [todo EXCEPT !["recon"] = @ \cup {o}]
<1>1. Len(rows) \in Nat /\ orphans \subseteq 1 .. Len(rows) /\ orphans # {}
  BY TableFacts DEF TypeOK, TableOK, RowsOf, MatchOrphan
<1>2. Max(orphans) \in orphans
  BY <1>1, MaxIsLargest
<1> DEFINE candidates == {o \in Buys \ todo["recon"] : kis.exe[o] > 0}
<1>3. CASE Cardinality(candidates) = 1
  <2>1. candidates # {}
    BY <1>3, FS_EmptySet
  <2>2. (CHOOSE o \in candidates : TRUE) \in candidates
    BY <2>1
  <2> QED BY <1>2, <1>3, <2>2, LedgerAssumption DEF MatchOrphan, TypeOK, TableOK
<1>4. CASE Cardinality(candidates) # 1
  BY <1>2, <1>4 DEF MatchOrphan, TypeOK, TableOK
<1> QED BY <1>3, <1>4

(* KIS executes no more of an order than its shares. *)
LEMMA BrokerStep == TypeOK /\ [Next]_vars => BrokerOK'
<1> USE LedgerAssumption
    DEF Proc, Open, broker, history, Row, Put, NoPut, NoAnswer, RowsOf, RowsIn,
        RowType, PutType, Status
<1> SUFFICES ASSUME TypeOK, [Next]_vars PROVE BrokerOK'
  OBVIOUS
<1> USE DEF TypeOK, BrokerOK
<1>1. ASSUME NEW p \in Proc, SelectRow(p) PROVE BrokerOK'
  BY <1>1 DEF SelectRow
<1>2. ASSUME NEW p \in Proc, WriteRow(p) PROVE BrokerOK'
  BY <1>2 DEF WriteRow
<1>3. ASSUME NEW p \in Proc, FailRow(p) PROVE BrokerOK'
  BY <1>3 DEF FailRow
<1>4. ASSUME NEW p \in Proc, NoRecord(p) PROVE BrokerOK'
  BY <1>4 DEF NoRecord, Done, Goto
<1>5. ASSUME NEW p \in Proc, RecordPending(p) PROVE BrokerOK'
  BY <1>5 DEF RecordPending, Done, Goto, Upsert
<1>6. ASSUME NEW p \in Proc, Kill(p) PROVE BrokerOK'
  BY <1>6 DEF Kill, Done, Goto, Free
<1>7. ASSUME NEW p \in Proc, NEW o \in Order, Submit(p, o) PROVE BrokerOK'
  <2>1. /\ st' = [st EXCEPT ![o] = "live"] /\ st[o] = "none"
        /\ exe' = exe /\ holding' = holding /\ held' = held /\ kis' = kis
    BY <1>7 DEF Submit
  <2>2. exe[o] = 0 /\ st' \in [Order -> Status]
    BY <2>1
  <2>3. \A q \in Order : /\ st'[q] = "none" => exe'[q] = 0
                         /\ st'[q] = "live" => exe'[q] < Lot
    BY <2>1, <2>2
  <2> QED BY <2>1, <2>2, <2>3
<1>8. CASE RecordExecuted
  BY <1>8 DEF RecordExecuted, Done, Goto, Upsert
<1>9. CASE RecordOrphan
  BY <1>9 DEF RecordOrphan, Done, Goto, Upsert
<1>10. CASE RecordByHoldings
  BY <1>10 DEF RecordByHoldings, Done, Goto, Upsert, Updated
<1>11. CASE BatchStart
  BY <1>11 DEF BatchStart, Goto, Free
<1>12. CASE BatchLoad
  BY <1>12 DEF BatchLoad, Goto
<1>13. CASE BatchEnd
  BY <1>13 DEF BatchEnd, Goto, Free
<1>14. CASE ReconStart
  BY <1>14 DEF ReconStart, Goto, OpenIds
<1>15. CASE ReconFetch
  BY <1>15 DEF ReconFetch, Goto
<1>16. CASE ReadOrphans
  BY <1>16 DEF ReadOrphans, Goto
<1>17. CASE MatchOrphan
  BY <1>17 DEF MatchOrphan
<1>18. CASE DetectBrokerOnly
  BY <1>18 DEF DetectBrokerOnly, Goto
<1>19. CASE ReconEnd
  BY <1>19 DEF ReconEnd, Goto, Free
<1>20. ASSUME NEW o \in Order, BatchOrder(o) PROVE BrokerOK'
  BY <1>20 DEF BatchOrder, Free, Upsert, Cancelled
<1>21. ASSUME NEW o \in Order, ReconUpdate(o) PROVE BrokerOK'
  BY <1>21 DEF ReconUpdate, Updated
<1>22. ASSUME NEW o \in Order, ReconMiss(o) PROVE BrokerOK'
  BY <1>22 DEF ReconMiss
<1>23. ASSUME NEW o \in Order, Backfill(o) PROVE BrokerOK'
  BY <1>23 DEF Backfill, Free, Upsert
<1>24. ASSUME NEW o \in Order, Fill(o) PROVE BrokerOK'
  BY <1>24 DEF Fill
<1>25. ASSUME NEW o \in Order, Close(o) PROVE BrokerOK'
  BY <1>25 DEF Close
<1>26. CASE UNCHANGED vars
  BY <1>26 DEF vars
<1> QED
  BY <1>1, <1>2, <1>3, <1>4, <1>5, <1>6, <1>7, <1>8, <1>9, <1>10, <1>11, <1>12, <1>13, <1>14, <1>15, <1>16, <1>17, <1>18, <1>19, <1>20, <1>21, <1>22, <1>23, <1>24, <1>25, <1>26 DEF Next

(* A program has an order in hand exactly while it waits for the answer. *)
LEMMA ProgramStep == TypeOK /\ [Next]_vars => ProgramOK'
<1> USE LedgerAssumption
    DEF Proc, Open, broker, history, Row, Put, NoPut, NoAnswer, RowsOf, RowsIn,
        RowType, PutType, Status
<1> SUFFICES ASSUME TypeOK, [Next]_vars PROVE ProgramOK'
  OBVIOUS
<1> USE DEF TypeOK, ProgramOK
<1>1. ASSUME NEW p \in Proc, SelectRow(p) PROVE ProgramOK'
  BY <1>1 DEF SelectRow, UpsertOK, PutType
<1>2. ASSUME NEW p \in Proc, WriteRow(p) PROVE ProgramOK'
  BY <1>2 DEF WriteRow
<1>3. ASSUME NEW p \in Proc, FailRow(p) PROVE ProgramOK'
  BY <1>3 DEF FailRow
<1>4. ASSUME NEW p \in Proc, NoRecord(p) PROVE ProgramOK'
  BY <1>4 DEF NoRecord, Done, Goto
<1>5. ASSUME NEW p \in Proc, RecordPending(p) PROVE ProgramOK'
  BY <1>5 DEF RecordPending, Done, Goto, Upsert
<1>6. ASSUME NEW p \in Proc, Kill(p) PROVE ProgramOK'
  BY <1>6 DEF Kill, Done, Goto, Free
<1>7. ASSUME NEW p \in Proc, NEW o \in Order, Submit(p, o) PROVE ProgramOK'
  BY <1>7 DEF Submit, Goto, Free
<1>8. CASE RecordExecuted
  BY <1>8 DEF RecordExecuted, Done, Goto, Upsert
<1>9. CASE RecordOrphan
  BY <1>9 DEF RecordOrphan, Done, Goto, Upsert
<1>10. CASE RecordByHoldings
  BY <1>10 DEF RecordByHoldings, Done, Goto, Upsert, Updated, TableOK
<1>11. CASE BatchStart
  <2>1. PICK S \in SUBSET OpenIds : todo' = [todo EXCEPT !["trader"] = S]
    BY <1>11 DEF BatchStart
  <2>2. S \subseteq Order
    BY <2>1, OpenIdsAreOrders
  <2> QED BY <1>11, <2>1, <2>2 DEF BatchStart, Goto
<1>12. CASE BatchLoad
  BY <1>12 DEF BatchLoad, Goto
<1>13. CASE BatchEnd
  BY <1>13 DEF BatchEnd, Goto, Free
<1>14. CASE ReconStart
  BY <1>14, OpenIdsAreOrders DEF ReconStart, Goto
<1>15. CASE ReconFetch
  BY <1>15 DEF ReconFetch, Goto
<1>16. CASE ReadOrphans
  BY <1>16 DEF ReadOrphans, Goto
<1>17. CASE MatchOrphan
  <2>1. /\ pc' = pc /\ cur' = cur /\ guessed' = guessed /\ overlapped' = overlapped
    BY <1>17 DEF MatchOrphan
  <2>2. todo' \in [Proc -> SUBSET Order] /\ matched' \subseteq Order
    BY <1>17, MatchedRow
  <2> QED BY <2>1, <2>2
<1>18. CASE DetectBrokerOnly
  BY <1>18 DEF DetectBrokerOnly, Goto
<1>19. CASE ReconEnd
  BY <1>19 DEF ReconEnd, Goto, Free
<1>20. ASSUME NEW o \in Order, BatchOrder(o) PROVE ProgramOK'
  BY <1>20 DEF BatchOrder, Free, Upsert, Cancelled
<1>21. ASSUME NEW o \in Order, ReconUpdate(o) PROVE ProgramOK'
  BY <1>21 DEF ReconUpdate, Updated
<1>22. ASSUME NEW o \in Order, ReconMiss(o) PROVE ProgramOK'
  BY <1>22 DEF ReconMiss
<1>23. ASSUME NEW o \in Order, Backfill(o) PROVE ProgramOK'
  BY <1>23 DEF Backfill, Free, Upsert
<1>24. ASSUME NEW o \in Order, Fill(o) PROVE ProgramOK'
  BY <1>24 DEF Fill
<1>25. ASSUME NEW o \in Order, Close(o) PROVE ProgramOK'
  BY <1>25 DEF Close
<1>26. CASE UNCHANGED vars
  BY <1>26 DEF vars
<1> QED
  BY <1>1, <1>2, <1>3, <1>4, <1>5, <1>6, <1>7, <1>8, <1>9, <1>10, <1>11, <1>12, <1>13, <1>14, <1>15, <1>16, <1>17, <1>18, <1>19, <1>20, <1>21, <1>22, <1>23, <1>24, <1>25, <1>26 DEF Next

(* Orders ids of rows stay, and rows without one stay executed. *)
LEMMA TableStep == TypeOK /\ [Next]_vars => TableOK'
<1> USE LedgerAssumption
    DEF Proc, Open, broker, history, Row, Put, NoPut, NoAnswer, RowsOf, RowsIn,
        RowType, PutType, Status
<1> SUFFICES ASSUME TypeOK, [Next]_vars PROVE TableOK'
  OBVIOUS
<1> USE DEF TypeOK, TableOK
<1>1. ASSUME NEW p \in Proc, SelectRow(p) PROVE TableOK'
  BY <1>1 DEF SelectRow
<1>2. ASSUME NEW p \in Proc, WriteRow(p) PROVE TableOK'
  <2>1. rows' \in Seq(RowType)
    BY <1>2, WrittenRows
  <2>2. \A i \in RowsOf(NoOrder)' : rows'[i].status = "executed"
    <3>1. up[p].at = "write" /\ UpsertOK
      BY <1>2 DEF WriteRow
    <3>2. up[p].new.id = NoOrder => up[p].new.status = "executed"
      BY <3>1 DEF UpsertOK
    <3>3. \A i \in DOMAIN rows' :
             rows'[i] = up[p].new \/ (i \in DOMAIN rows /\ rows'[i] = rows[i])
      BY <1>2, WrittenRows
    <3> QED BY <3>2, <3>3
  <2>3. orphans' \subseteq RowsOf(NoOrder)'
    <3>1. \A i \in RowsOf(NoOrder) : i \in DOMAIN rows' /\ rows'[i].id = NoOrder
      BY <1>2, WrittenIds
    <3> QED BY <1>2, <3>1 DEF WriteRow
  <2> QED BY <2>1, <2>2, <2>3
<1>3. ASSUME NEW p \in Proc, FailRow(p) PROVE TableOK'
  BY <1>3 DEF FailRow
<1>4. ASSUME NEW p \in Proc, NoRecord(p) PROVE TableOK'
  BY <1>4 DEF NoRecord, Done, Goto
<1>5. ASSUME NEW p \in Proc, RecordPending(p) PROVE TableOK'
  BY <1>5 DEF RecordPending, Done, Goto, Upsert
<1>6. ASSUME NEW p \in Proc, Kill(p) PROVE TableOK'
  BY <1>6 DEF Kill, Done, Goto, Free
<1>7. ASSUME NEW p \in Proc, NEW o \in Order, Submit(p, o) PROVE TableOK'
  BY <1>7 DEF Submit, Goto, Free
<1>8. CASE RecordExecuted
  BY <1>8 DEF RecordExecuted, Done, Goto, Upsert
<1>9. CASE RecordOrphan
  BY <1>9 DEF RecordOrphan, Done, Goto, Upsert
<1>10. CASE RecordByHoldings
  <2>1. CASE rows' = rows
    BY <1>10, <2>1 DEF RecordByHoldings
  <2>2. ASSUME rows' # rows PROVE TableOK'
    <3>1. PICK d \in DOMAIN rows, e \in 1 .. Lot :
             /\ rows[d].id \in Order /\ rows' = Updated(rows[d].id, "executed", e)
      BY <1>10, <2>2 DEF RecordByHoldings
    <3>2. orphans' = orphans /\ e \in Nat
      BY <1>10 DEF RecordByHoldings
    <3> QED BY <3>1, <3>2, UpdatedTable
  <2> QED BY <2>1, <2>2
<1>11. CASE BatchStart
  BY <1>11 DEF BatchStart, Goto, Free
<1>12. CASE BatchLoad
  BY <1>12 DEF BatchLoad, Goto
<1>13. CASE BatchEnd
  BY <1>13 DEF BatchEnd, Goto, Free
<1>14. CASE ReconStart
  BY <1>14 DEF ReconStart, Goto, OpenIds
<1>15. CASE ReconFetch
  BY <1>15 DEF ReconFetch, Goto
<1>16. CASE ReadOrphans
  BY <1>16 DEF ReadOrphans, Goto
<1>17. CASE MatchOrphan
  <2> DEFINE i == Max(orphans)
  <2>1. i \in RowsOf(NoOrder) /\ i \in orphans /\ orphans' = orphans \ {i}
    BY <1>17, MatchedRow DEF MatchOrphan
  <2>2. CASE rows' = rows
    BY <2>1, <2>2
  <2>3. ASSUME NEW o \in Order,
               rows' = [rows EXCEPT ![i] = Row(o, Classify(o), kis.exe[o])]
        PROVE  TableOK'
    <3>1. Row(o, Classify(o), kis.exe[o]) \in RowType
      BY DEF Classify, BrokerOK
    <3>2. rows' \in Seq(RowType)
      BY <2>1, <2>3, <3>1, TableFacts, ExceptSeq
    <3> HIDE DEF i
    <3>3. DOMAIN rows' = DOMAIN rows /\ rows'[i].id = o
          /\ \A j \in DOMAIN rows : j # i => rows'[j] = rows[j]
      BY <2>1, <2>3
    <3> QED BY <2>1, <3>2, <3>3
  <2> QED BY <1>17, <2>2, <2>3, MatchedRow
<1>18. CASE DetectBrokerOnly
  BY <1>18 DEF DetectBrokerOnly, Goto
<1>19. CASE ReconEnd
  BY <1>19 DEF ReconEnd, Goto, Free
<1>20. ASSUME NEW o \in Order, BatchOrder(o) PROVE TableOK'
  <2>1. CASE rows' = rows
    BY <1>20, <2>1 DEF BatchOrder
  <2>2. CASE rows' = Cancelled(o)
    <3>1. /\ rows' \in Seq(RowType) /\ DOMAIN rows' = DOMAIN rows
          /\ \A i \in DOMAIN rows :
                rows'[i] = IF rows[i].id = o /\ rows[i].status = "pending"
                           THEN [rows[i] EXCEPT !.status = "cancelled"]
                           ELSE rows[i]
      BY <1>20, <2>2, CancelledRows
    <3>2. \A i \in DOMAIN rows : /\ rows'[i].id = rows[i].id
                                 /\ rows[i].id # o => rows'[i] = rows[i]
      BY <3>1, TableFacts
    <3> QED BY <1>20, <3>1, <3>2 DEF BatchOrder
  <2> QED BY <1>20, <2>1, <2>2 DEF BatchOrder
<1>21. ASSUME NEW o \in Order, ReconUpdate(o) PROVE TableOK'
  <2>1. Classify(o) \in Open \cup {"executed", "cancelled"} /\ kis.exe[o] \in Nat
    BY DEF Classify, BrokerOK
  <2>2. rows' = Updated(o, Classify(o), kis.exe[o]) /\ orphans' = orphans
    BY <1>21 DEF ReconUpdate
  <2> QED BY <2>1, <2>2, UpdatedTable
<1>22. ASSUME NEW o \in Order, ReconMiss(o) PROVE TableOK'
  BY <1>22 DEF ReconMiss
<1>23. ASSUME NEW o \in Order, Backfill(o) PROVE TableOK'
  BY <1>23 DEF Backfill, Free, Upsert
<1>24. ASSUME NEW o \in Order, Fill(o) PROVE TableOK'
  BY <1>24 DEF Fill
<1>25. ASSUME NEW o \in Order, Close(o) PROVE TableOK'
  BY <1>25 DEF Close
<1>26. CASE UNCHANGED vars
  BY <1>26 DEF vars
<1> QED
  BY <1>1, <1>2, <1>3, <1>4, <1>5, <1>6, <1>7, <1>8, <1>9, <1>10, <1>11, <1>12, <1>13, <1>14, <1>15, <1>16, <1>17, <1>18, <1>19, <1>20, <1>21, <1>22, <1>23, <1>24, <1>25, <1>26 DEF Next

(* A new upsert has an order id and starts with its SELECT, or is the      *)
(* insert of an executed row without one.                                  *)
LEMMA PutShape ==
  ASSUME NEW o \in Order \cup {NoOrder}, NEW e \in Nat,
         NEW s \in Open \cup {"executed", "cancelled"},
         o = NoOrder => s = "executed"
  PROVE  /\ Put(o, s, e) \in PutType /\ Put(o, s, e).row = 0
         /\ Put(o, s, e).new = Row(o, s, e)
         /\ Put(o, s, e).at = IF o = NoOrder THEN "write" ELSE "select"
  BY DEF Put, PutType, RowType, Row, Open

LEMMA PutStep ==
  ASSUME UpsertOK, NEW p \in Proc, NEW w \in PutType,
         w.row = 0, w.at # "none",
         w.at = "select" => w.new.id # NoOrder,
         w.at = "write" /\ w.new.id = NoOrder => w.new.status = "executed",
         up' = [up EXCEPT ![p] = w],
         \A o \in Order : RowsOf(o) \subseteq RowsOf(o)'
  PROVE  UpsertOK'
<1>1. up' \in [Proc -> PutType]
  BY DEF UpsertOK
<1>2. ASSUME NEW q \in Proc, q # p, up[q].row # 0
      PROVE  up[q].row \in RowsOf(up[q].new.id)'
  <2>1. up[q].new.id \in Order /\ up[q].row \in RowsOf(up[q].new.id)
    BY <1>2 DEF UpsertOK, PutType, RowType, NoPut, Row
  <2>2. up'[q] = up[q]
    BY <1>2 DEF UpsertOK
  <2> QED BY <2>1, <2>2 DEF RowsOf
<1> QED BY <1>1, <1>2 DEF UpsertOK

LEMMA NewUpsert ==
  ASSUME UpsertOK, NEW p \in Proc, NEW o \in Order \cup {NoOrder}, NEW e \in Nat,
         NEW s \in Open \cup {"executed", "cancelled"}, o = NoOrder => s = "executed",
         up' = [up EXCEPT ![p] = Put(o, s, e)], rows' = rows
  PROVE  UpsertOK'
<1>1. \A q \in Order : RowsOf(q) \subseteq RowsOf(q)'
  BY DEF RowsOf
<1> DEFINE w == Put(o, s, e)
<1>2. /\ w \in PutType /\ w.row = 0 /\ w.new = Row(o, s, e)
      /\ w.at = IF o = NoOrder THEN "write" ELSE "select"
  BY PutShape
<1>3. up' = [up EXCEPT ![p] = w]
  OBVIOUS
<1> HIDE DEF w
<1>4. w.new.id = o /\ w.new.status = s
  BY <1>2 DEF Row
<1>5. /\ w.at # "none"
      /\ w.at = "select" => w.new.id # NoOrder
      /\ w.at = "write" /\ w.new.id = NoOrder => w.new.status = "executed"
  BY <1>2, <1>4
<1> QED BY <1>1, <1>2, <1>3, <1>5, PutStep

(* The steps that change rows without an upsert keep the rows of an order. *)
LEMMA SameUpserts ==
  ASSUME UpsertOK, up' = up, \A o \in Order : RowsOf(o) \subseteq RowsOf(o)'
  PROVE  UpsertOK'
<1>1. ASSUME NEW q \in Proc, up[q].row # 0
      PROVE  up[q].row \in RowsOf(up[q].new.id)'
  <2>1. up[q].new.id \in Order /\ up[q].row \in RowsOf(up[q].new.id)
    BY <1>1 DEF UpsertOK, PutType, RowType, NoPut, Row
  <2> QED BY <2>1
<1> QED BY <1>1 DEF UpsertOK

(* An upsert keeps pointing to a row of its order. *)
LEMMA UpsertStep == TypeOK /\ [Next]_vars => UpsertOK'
<1> USE LedgerAssumption
    DEF Proc, Open, broker, history, Row, Put, NoPut, NoAnswer, RowsOf, RowsIn,
        RowType, PutType, Status
<1> SUFFICES ASSUME TypeOK, UpsertOK, [Next]_vars PROVE UpsertOK'
  BY DEF TypeOK
<1>1. ASSUME NEW p \in Proc, SelectRow(p) PROVE UpsertOK'
  <2> DEFINE o == up[p].new.id
             found == IF RowsOf(o) = {} THEN 0 ELSE Max(RowsOf(o))
  <2>1. found \in Nat /\ (found # 0 => found \in RowsOf(o))
    <3> HIDE DEF RowsOf, o
    <3> QED BY SelectedIsRow DEF TypeOK
  <2>2. up' = [up EXCEPT ![p].at = "write", ![p].row = found] /\ rows' = rows
    BY <1>1 DEF SelectRow
  <2> HIDE DEF found
  <2>3. up' \in [Proc -> PutType] /\ o # NoOrder
    BY <1>1, <2>1, <2>2 DEF SelectRow, UpsertOK
  <2> QED BY <2>1, <2>2, <2>3 DEF UpsertOK
<1> USE DEF TypeOK, UpsertOK
<1>2. ASSUME NEW p \in Proc, WriteRow(p) PROVE UpsertOK'
  <2>1. \A o : \A i \in RowsOf(o) : i \in RowsOf(o)'
    BY <1>2, WrittenIds
  <2>2. up' = [up EXCEPT ![p] = NoPut]
    BY <1>2 DEF WriteRow
  <2> QED BY <2>1, <2>2
<1>3. ASSUME NEW p \in Proc, FailRow(p) PROVE UpsertOK'
  BY <1>3 DEF FailRow
<1>4. ASSUME NEW p \in Proc, NoRecord(p) PROVE UpsertOK'
  BY <1>4 DEF NoRecord, Done, Goto
<1>5. ASSUME NEW p \in Proc, RecordPending(p) PROVE UpsertOK'
  <2>1. /\ up' = [up EXCEPT ![p] = Put(cur[p], "pending", 0)]
        /\ cur[p] \in Order /\ rows' = rows
    BY <1>5 DEF RecordPending, Upsert, ProgramOK
  <2> HIDE DEF TypeOK, UpsertOK, Put, Row, RowsOf, RowType, PutType, NoPut
  <2> QED BY <2>1, NewUpsert
<1>6. ASSUME NEW p \in Proc, Kill(p) PROVE UpsertOK'
  BY <1>6 DEF Kill, Done, Goto, Free
<1>7. ASSUME NEW p \in Proc, NEW o \in Order, Submit(p, o) PROVE UpsertOK'
  BY <1>7 DEF Submit, Goto, Free
<1>8. CASE RecordExecuted
  <2>1. /\ up' = [up EXCEPT !["trader"] = Put(cur["trader"], "executed", exe[cur["trader"]])]
        /\ cur["trader"] \in Order /\ rows' = rows
    BY <1>8 DEF RecordExecuted, Upsert, ProgramOK
  <2>2. exe[cur["trader"]] \in Nat
    BY <2>1 DEF BrokerOK
  <2> HIDE DEF TypeOK, UpsertOK, Put, Row, RowsOf, RowType, PutType, NoPut
  <2> QED BY <2>1, <2>2, NewUpsert
<1>9. CASE RecordOrphan
  <2>1. PICK q \in Order :
          up' = [up EXCEPT !["trader"] = Put(NoOrder, "executed", exe[q])]
    BY <1>9 DEF RecordOrphan, Upsert
  <2>2. rows' = rows /\ exe[q] \in Nat
    BY <1>9 DEF RecordOrphan, BrokerOK
  <2> HIDE DEF TypeOK, UpsertOK, Put, Row, RowsOf, RowType, PutType, NoPut
  <2> QED BY <2>1, <2>2, NewUpsert
<1>10. CASE RecordByHoldings
  <2>1. CASE rows' = rows
    <3>1. cur["trader"] \in Order
      BY <1>10 DEF RecordByHoldings, ProgramOK
    <3>2. CASE up' = up
      BY <2>1, <3>2, SameUpserts
    <3>3. ASSUME NEW e \in 1 .. Lot,
                 up' = [up EXCEPT !["trader"] = Put(cur["trader"], "executed", e)]
          PROVE  UpsertOK'
      <4>1. e \in Nat
        OBVIOUS
      <4> HIDE DEF TypeOK, UpsertOK, Put, Row, RowsOf, RowType, PutType, NoPut
      <4> QED BY <2>1, <3>1, <3>3, <4>1, NewUpsert
    <3> QED BY <1>10, <3>2, <3>3 DEF RecordByHoldings, Upsert
  <2>2. ASSUME rows' # rows PROVE UpsertOK'
    <3>1. PICK d \in DOMAIN rows, e \in 1 .. Lot :
             /\ rows[d].id \in Order /\ rows' = Updated(rows[d].id, "executed", e)
      BY <1>10, <2>2 DEF RecordByHoldings
    <3>2. \A o \in Order : RowsOf(o) \subseteq RowsOf(o)'
      BY <3>1 DEF Updated
    <3>3. up' = up
      BY <1>10, <2>2 DEF RecordByHoldings
    <3> QED BY <3>2, <3>3, SameUpserts
  <2> QED BY <2>1, <2>2
<1>11. CASE BatchStart
  BY <1>11 DEF BatchStart, Goto, Free
<1>12. CASE BatchLoad
  BY <1>12 DEF BatchLoad, Goto
<1>13. CASE BatchEnd
  BY <1>13 DEF BatchEnd, Goto, Free
<1>14. CASE ReconStart
  BY <1>14 DEF ReconStart, Goto, OpenIds
<1>15. CASE ReconFetch
  BY <1>15 DEF ReconFetch, Goto
<1>16. CASE ReadOrphans
  BY <1>16 DEF ReadOrphans, Goto
<1>17. CASE MatchOrphan
  <2>1. Max(orphans) \in RowsOf(NoOrder)
    BY <1>17, MatchedRow
  <2>2. \A q \in Order : RowsOf(q) \subseteq RowsOf(q)'
    BY <1>17, <2>1, MatchedRow
  <2>3. up' = up
    BY <1>17 DEF MatchOrphan
  <2> QED BY <2>2, <2>3, SameUpserts
<1>18. CASE DetectBrokerOnly
  BY <1>18 DEF DetectBrokerOnly, Goto
<1>19. CASE ReconEnd
  BY <1>19 DEF ReconEnd, Goto, Free
<1>20. ASSUME NEW o \in Order, BatchOrder(o) PROVE UpsertOK'
  <2>1. CASE up' = up
    <3>1. \A q \in Order : RowsOf(q) \subseteq RowsOf(q)'
      <4>1. CASE rows' = rows
        BY <4>1
      <4>2. CASE rows' = Cancelled(o)
        BY <4>2, TableFacts DEF Cancelled
      <4> QED BY <1>20, <2>1, <4>1, <4>2 DEF BatchOrder
    <3> QED BY <2>1, <3>1, SameUpserts
  <2>2. CASE up' # up
    <3>1. /\ up' = [up EXCEPT !["trader"] =
                       Put(o, "executed", IF o \in Buys THEN held ELSE Lot)]
          /\ rows' = rows
      BY <1>20, <2>2 DEF BatchOrder, Upsert
    <3>2. (IF o \in Buys THEN held ELSE Lot) \in Nat
      BY DEF BrokerOK
    <3> HIDE DEF TypeOK, UpsertOK, Put, Row, RowsOf, RowType, PutType, NoPut
    <3> QED BY <1>20, <3>1, <3>2, NewUpsert
  <2> QED BY <2>1, <2>2
<1>21. ASSUME NEW o \in Order, ReconUpdate(o) PROVE UpsertOK'
  BY <1>21 DEF ReconUpdate, Updated
<1>22. ASSUME NEW o \in Order, ReconMiss(o) PROVE UpsertOK'
  BY <1>22 DEF ReconMiss
<1>23. ASSUME NEW o \in Order, Backfill(o) PROVE UpsertOK'
  BY <1>23 DEF Backfill, Free, Upsert
<1>24. ASSUME NEW o \in Order, Fill(o) PROVE UpsertOK'
  BY <1>24 DEF Fill
<1>25. ASSUME NEW o \in Order, Close(o) PROVE UpsertOK'
  BY <1>25 DEF Close
<1>26. CASE UNCHANGED vars
  BY <1>26 DEF vars
<1> QED
  BY <1>1, <1>2, <1>3, <1>4, <1>5, <1>6, <1>7, <1>8, <1>9, <1>10, <1>11, <1>12, <1>13, <1>14, <1>15, <1>16, <1>17, <1>18, <1>19, <1>20, <1>21, <1>22, <1>23, <1>24, <1>25, <1>26 DEF Next

LEMMA TypeStep == TypeOK /\ [Next]_vars => TypeOK'
  BY BrokerStep, ProgramStep, TableStep, UpsertStep DEF TypeOK

LEMMA TypeInit == Init => TypeOK
  BY LedgerAssumption, EmptySeq
     DEF Init, TypeOK, BrokerOK, TableOK, ProgramOK, UpsertOK, Proc, PutType,
         RowType, Row, NoPut, NoAnswer, Status, RowsOf, Open

(* Type correctness: rows are rows, an upsert that has found a row points  *)
(* to a row of its order, and a row without order id is an executed buy or *)
(* sell waiting for its match.                                             *)
THEOREM TypeCorrect == Spec => []TypeOK
  BY TypeInit, TypeStep, PTL DEF Spec

-----------------------------------------------------------------------------
(* What KIS answered is backed by its executions, whatever it is turned into. *)
LEMMA ClassifiedBacked ==
  ASSUME TypeOK, AllBacked, NEW o \in Order
  PROVE  Backed(Row(o, Classify(o), kis.exe[o]))
  BY LedgerAssumption DEF TypeOK, BrokerOK, AllBacked, Backed, Row, Classify

LEMMA StillBacked ==
  ASSUME TypeOK, TypeOK', \A o \in Order : exe[o] <= exe'[o], guessed \subseteq guessed',
         NEW r, r \in RowType, Backed(r)
  PROVE  Backed(r)'
<1>1. CASE r.id \in Order
  <2>1. /\ r.exe \in Nat /\ exe[r.id] \in Nat /\ exe'[r.id] \in Nat
        /\ exe[r.id] <= exe'[r.id]
    BY <1>1 DEF TypeOK, BrokerOK, RowType
  <2> QED BY <1>1, <2>1 DEF Backed
<1>2. CASE r.id \notin Order
  BY <1>2 DEF Backed
<1> QED BY <1>1, <1>2

(* What the batch check guesses from the holdings is not asked for. *)
LEMMA BatchBacked ==
  ASSUME TypeOK, TypeOK', AllBacked, NEW o \in Order, BatchOrder(o)
  PROVE  AllBacked'
<1>1. UNCHANGED <<exe, kis, pc>> /\ guessed \subseteq guessed'
  BY DEF BatchOrder, broker
<1>2. todo'["recon"] = todo["recon"]
  BY DEF BatchOrder, TypeOK, ProgramOK, Proc
<1>3. ASSUME NEW i \in DOMAIN rows' PROVE Backed(rows[i])'
  <2>1. CASE rows' = rows
    <3>1. rows[i] \in RowType /\ Backed(rows[i])
      BY <1>3, <2>1, TableFacts DEF TypeOK, AllBacked
    <3> QED BY <1>1, <2>1, <3>1 DEF Backed
  <2>2. CASE rows' = Cancelled(o)
    <3>1. /\ i \in DOMAIN rows /\ rows[i] \in RowType /\ Backed(rows[i])
      BY <1>3, <2>2, TableFacts DEF TypeOK, AllBacked, Cancelled
    <3>2. /\ rows'[i].id = rows[i].id /\ rows'[i].exe = rows[i].exe
          /\ rows'[i].status = "executed" => rows[i].status = "executed"
      BY <2>2, <3>1 DEF Cancelled, RowType
    <3>3. rows[i].id \in Order \ guessed' =>
             /\ rows[i].exe <= exe'[rows[i].id]
             /\ rows[i].status = "executed" => exe'[rows[i].id] > 0
      BY <1>1, <3>1 DEF Backed
    <3> QED BY <3>2, <3>3 DEF Backed
  <2> QED BY <2>1, <2>2 DEF BatchOrder
<1>4. ASSUME NEW q \in Proc PROVE Backed(up[q].new)'
  <2>1. up[q].new \in RowType /\ Backed(up[q].new)
    BY DEF TypeOK, UpsertOK, PutType, AllBacked
  <2>2. CASE up'[q] = up[q]
    BY <1>1, <2>1, <2>2 DEF Backed
  <2>3. CASE up'[q] # up[q]
    <3>1. up'[q].new.id = o /\ o \in guessed'
      BY <2>3 DEF BatchOrder, Upsert, Put, Row, TypeOK, UpsertOK
    <3> QED BY <3>1 DEF Backed
  <2> QED BY <2>2, <2>3
<1>5. \A q \in Order : kis'.exe[q] <= exe'[q]
  BY <1>1 DEF AllBacked
<1>6. pc'["recon"] = "backfill" => \A q \in todo'["recon"] : exe'[q] = Lot
  BY <1>1, <1>2 DEF AllBacked
<1> QED BY <1>3, <1>4, <1>5, <1>6 DEF AllBacked

(* A SELECT leaves what is to be written as it was, and the write adds      *)
(* nothing to the table but that.                                          *)
LEMMA SelectBacked ==
  ASSUME TypeOK, AllBacked, NEW p \in Proc, SelectRow(p)
  PROVE  AllBacked'
<1> DEFINE found == IF RowsOf(up[p].new.id) = {} THEN 0
                    ELSE Max(RowsOf(up[p].new.id))
<1>1. /\ up' = [up EXCEPT ![p].at = "write", ![p].row = found]
      /\ UNCHANGED <<rows, exe, kis, pc, todo, guessed>>
  BY DEF SelectRow, broker
<1> HIDE DEF found
<1>2. up \in [Proc -> PutType]
  BY DEF TypeOK, UpsertOK
<1>3. \A q \in Proc : up'[q].new = up[q].new
  BY <1>1, <1>2 DEF PutType
<1> QED BY <1>1, <1>3 DEF AllBacked, Backed

LEMMA WriteBacked ==
  ASSUME TypeOK, AllBacked, NEW p \in Proc, WriteRow(p)
  PROVE  AllBacked'
<1>1. /\ up' = [up EXCEPT ![p] = NoPut]
      /\ UNCHANGED <<exe, kis, pc, todo, guessed>>
  BY DEF WriteRow, broker, history
<1>2. up \in [Proc -> PutType]
  BY DEF TypeOK, UpsertOK
<1>3. \A i \in DOMAIN rows' :
         rows'[i] = up[p].new \/ (i \in DOMAIN rows /\ rows'[i] = rows[i])
  BY WrittenRows
<1>4. \A i \in DOMAIN rows' : Backed(rows'[i])
  BY <1>3 DEF AllBacked
<1>5. Backed(NoPut.new)
  BY LedgerAssumption DEF Backed, NoPut, Row
<1>6. \A q \in Proc : Backed(up'[q].new)
  BY <1>1, <1>2, <1>5 DEF AllBacked
<1> QED BY <1>1, <1>4, <1>6 DEF AllBacked, Backed

LEMMA SameBacked ==
  ASSUME AllBacked, UNCHANGED <<rows, exe, kis, pc, todo, guessed, up>>
  PROVE  AllBacked'
  BY DEF AllBacked, Backed

(* No step writes, or prepares to write, more shares than KIS executed.    *)
LEMMA BackedStep == TypeOK /\ TypeOK' /\ AllBacked /\ [Next]_vars => AllBacked'
<1> USE LedgerAssumption
    DEF Proc, Open, broker, history, Row, Put, NoPut, NoAnswer, RowsOf, RowsIn,
        RowType, PutType, Status
<1> SUFFICES ASSUME TypeOK, TypeOK', AllBacked, [Next]_vars PROVE AllBacked'
  OBVIOUS
<1>1. ASSUME NEW p \in Proc, SelectRow(p) PROVE AllBacked'
  BY <1>1, SelectBacked
<1>2. ASSUME NEW p \in Proc, WriteRow(p) PROVE AllBacked'
  BY <1>2, WriteBacked
<1> USE DEF AllBacked, Backed, TypeOK, BrokerOK, ProgramOK, UpsertOK
<1>3. ASSUME NEW p \in Proc, FailRow(p) PROVE AllBacked'
  BY <1>3 DEF FailRow
<1>4. ASSUME NEW p \in Proc, NoRecord(p) PROVE AllBacked'
  BY <1>4 DEF NoRecord, Done, Goto
<1>5. ASSUME NEW p \in Proc, RecordPending(p) PROVE AllBacked'
  BY <1>5 DEF RecordPending, Done, Goto, Upsert
<1>6. ASSUME NEW p \in Proc, Kill(p) PROVE AllBacked'
  BY <1>6 DEF Kill, Done, Goto, Free
<1>7. ASSUME NEW p \in Proc, NEW o \in Order, Submit(p, o) PROVE AllBacked'
  BY <1>7 DEF Submit, Goto, Free
<1>8. CASE RecordExecuted
  BY <1>8 DEF RecordExecuted, Done, Goto, Upsert
<1>9. CASE RecordOrphan
  BY <1>9 DEF RecordOrphan, Done, Goto, Upsert
<1>10. CASE RecordByHoldings
  BY <1>10 DEF RecordByHoldings, Done, Goto, Upsert, Updated
<1>11. CASE BatchStart
  BY <1>11 DEF BatchStart, Goto, Free
<1>12. CASE BatchLoad
  BY <1>12 DEF BatchLoad, Goto
<1>13. CASE BatchEnd
  BY <1>13 DEF BatchEnd, Goto, Free
<1>14. CASE ReconStart
  BY <1>14 DEF ReconStart, Goto, OpenIds
<1>15. CASE ReconFetch
  BY <1>15 DEF ReconFetch, Goto
<1>16. CASE ReadOrphans
  BY <1>16 DEF ReadOrphans, Goto
<1>17. CASE MatchOrphan
  <2> DEFINE i == Max(orphans)
  <2>1. UNCHANGED <<exe, kis, pc, guessed, up>> /\ pc["recon"] = "orphans"
    BY <1>17 DEF MatchOrphan
  <2>2. CASE rows' = rows
    BY <2>1, <2>2
  <2>3. ASSUME NEW o \in Order,
               rows' = [rows EXCEPT ![i] = Row(o, Classify(o), kis.exe[o])]
        PROVE  AllBacked'
    <3>1. Backed(Row(o, Classify(o), kis.exe[o]))
      BY ClassifiedBacked
    <3> HIDE DEF i
    <3>2. \A j \in DOMAIN rows' : Backed(rows'[j])
      BY <2>3, <3>1
    <3> QED BY <2>1, <3>2
  <2> QED BY <1>17, <2>2, <2>3, MatchedRow
<1>18. CASE DetectBrokerOnly
  <2>1. PICK S \in SUBSET {o \in Order : exe[o] = Lot} :
           todo' = [todo EXCEPT !["recon"] = S]
    BY <1>18 DEF DetectBrokerOnly
  <2>2. \A o \in todo'["recon"] : exe[o] = Lot
    BY <2>1
  <2>3. UNCHANGED <<rows, exe, kis, guessed, up>>
    BY <1>18 DEF DetectBrokerOnly
  <2>4. /\ \A i \in DOMAIN rows : Backed(rows[i])'
        /\ \A p \in Proc : Backed(up[p].new)'
        /\ \A o \in Order : kis'.exe[o] <= exe'[o]
    BY <2>3
  <2> QED BY <2>2, <2>3, <2>4
<1>19. CASE ReconEnd
  BY <1>19 DEF ReconEnd, Goto, Free
<1>20. ASSUME NEW o \in Order, BatchOrder(o) PROVE AllBacked'
  BY <1>20, BatchBacked
<1>21. ASSUME NEW o \in Order, ReconUpdate(o) PROVE AllBacked'
  <2>1. UNCHANGED <<exe, kis, pc, guessed, up>> /\ pc["recon"] = "update"
    BY <1>21 DEF ReconUpdate
  <2>2. ASSUME NEW i \in DOMAIN rows' PROVE Backed(rows'[i])
    <3>1. /\ i \in DOMAIN rows
          /\ rows'[i] = rows[i] \/ rows'[i] = Row(o, Classify(o), kis.exe[o])
      BY <1>21, <2>2 DEF ReconUpdate, Updated
    <3>2. Backed(Row(o, Classify(o), kis.exe[o]))
      BY ClassifiedBacked
    <3>3. Backed(rows[i])
      BY <3>1
    <3> QED BY <3>1, <3>2, <3>3
  <2> QED BY <2>1, <2>2
<1>22. ASSUME NEW o \in Order, ReconMiss(o) PROVE AllBacked'
  BY <1>22 DEF ReconMiss
<1>23. ASSUME NEW o \in Order, Backfill(o) PROVE AllBacked'
  BY <1>23 DEF Backfill, Free, Upsert
<1>24. ASSUME NEW o \in Order, Fill(o) PROVE AllBacked'
  <2>1. UNCHANGED <<rows, kis, pc, todo, guessed, up>>
    BY <1>24 DEF Fill
  <2>2. \A q \in Order : exe[q] \in Nat /\ exe'[q] \in Nat /\ exe[q] <= exe'[q]
    BY <1>24 DEF Fill
  <2>3. \A q \in Order : exe[q] = Lot => exe'[q] = Lot
    BY <1>24 DEF Fill
  <2>4. ASSUME NEW i \in DOMAIN rows PROVE Backed(rows[i])'
    BY <2>1, <2>2, TableFacts, StillBacked
  <2>5. ASSUME NEW q \in Proc PROVE Backed(up[q].new)'
    <3>1. up[q].new \in RowType
      BY DEF PutType
    <3> QED BY <2>1, <2>2, <3>1, StillBacked
  <2>6. \A q \in Order : kis.exe[q] <= exe'[q]
    BY <2>2
  <2> QED BY <2>1, <2>3, <2>4, <2>5, <2>6
<1>25. ASSUME NEW o \in Order, Close(o) PROVE AllBacked'
  BY <1>25 DEF Close
<1>26. CASE UNCHANGED vars
  <2>1. UNCHANGED <<rows, exe, kis, pc, todo, guessed, up>>
    BY <1>26 DEF vars
  <2> HIDE DEF AllBacked, Backed, TypeOK, BrokerOK, ProgramOK, UpsertOK
  <2> QED BY <2>1, SameBacked
<1> HIDE DEF AllBacked, Backed, TypeOK, BrokerOK, ProgramOK, UpsertOK
<1> QED
  BY <1>1, <1>2, <1>3, <1>4, <1>5, <1>6, <1>7, <1>8, <1>9, <1>10, <1>11, <1>12, <1>13, <1>14, <1>15, <1>16, <1>17, <1>18, <1>19, <1>20, <1>21, <1>22, <1>23, <1>24, <1>25, <1>26 DEF Next

-----------------------------------------------------------------------------
(* The upsert of p is not moved to its write. *)
Quiet(p) == up'[p] = up[p] \/ up'[p].at # "write" \/ up'[p].new.id = NoOrder

(* A step that keeps the order ids of the rows, moves no upsert forward    *)
(* and forgets no history keeps the three facts about rows and upserts.    *)
LEMMA QuietStep ==
  ASSUME TypeOK, Rowwise,
         DOMAIN rows' = DOMAIN rows, \A i \in DOMAIN rows : rows'[i].id = rows[i].id,
         \A p \in Proc : Quiet(p),
         overlapped \subseteq overlapped', matched \subseteq matched'
  PROVE  Rowwise'
<1>1. Excused \subseteq Excused' /\ NoOrder \in Excused'
  BY DEF Excused
<1>2. OneRowPerOrder'
  BY DEF Rowwise, OneRowPerOrder
<1>3. SelectedRow'
  <2> SUFFICES ASSUME NEW p \in Proc, up'[p].at = "write", up'[p].new.id \notin Excused',
                      NEW i \in RowsOf(up[p].new.id)'
               PROVE  i = up'[p].row
    BY DEF SelectedRow
  <2>1. up'[p] = up[p]
    BY <1>1 DEF Quiet
  <2>2. i \in RowsOf(up[p].new.id)
    BY <2>1 DEF RowsOf
  <2> QED BY <1>1, <2>1, <2>2 DEF Rowwise, SelectedRow
<1>4. WritersOverlap'
  <2> SUFFICES ASSUME NEW p \in Proc, NEW q \in Proc, p # q,
                      up'[p].at = "write", up'[q].at = "write",
                      up'[p].new.id = up'[q].new.id, up'[p].new.id # NoOrder
               PROVE  up'[p].new.id \in overlapped'
    BY DEF WritersOverlap
  <2> QED BY DEF Quiet, Rowwise, WritersOverlap
<1> QED BY <1>2, <1>3, <1>4 DEF Rowwise

LEMMA SelectRowwise ==
  ASSUME TypeOK, Rowwise, NEW p \in Proc, SelectRow(p)
  PROVE  Rowwise'
<1> DEFINE o == up[p].new.id
           found == IF RowsOf(o) = {} THEN 0 ELSE Max(RowsOf(o))
<1>1. /\ up' = [up EXCEPT ![p].at = "write", ![p].row = found]
      /\ rows' = rows /\ matched' = matched /\ overlapped \subseteq overlapped'
  BY DEF SelectRow
<1>2. RowsOf(o) # {} => found \in RowsOf(o)
  BY SelectedIsRow DEF TypeOK
<1> HIDE DEF found
<1>3. /\ \A q \in Proc \ {p} : up'[q] = up[q]
      /\ up'[p].new = up[p].new /\ up'[p].row = found
  BY <1>1 DEF TypeOK, UpsertOK, PutType
<1>4. OneRowPerOrder'
  BY <1>1 DEF Rowwise, OneRowPerOrder
<1>5. SelectedRow'
  <2> SUFFICES ASSUME NEW q \in Proc, up'[q].at = "write", up'[q].new.id \notin Excused',
                      NEW i \in RowsOf(up[q].new.id)'
               PROVE  i = up'[q].row
    BY DEF SelectedRow
  <2>1. up'[q].new.id \notin Excused /\ up'[q].new.id = up[q].new.id
    BY <1>1, <1>3 DEF Excused
  <2>2. i \in RowsOf(up[q].new.id)
    BY <1>1, <2>1 DEF RowsOf
  <2>3. CASE q = p
    BY <1>2, <1>3, <2>1, <2>2, <2>3 DEF Rowwise, OneRowPerOrder, RowsOf, Excused
  <2>4. CASE q # p
    BY <1>3, <2>1, <2>2, <2>4 DEF Rowwise, SelectedRow
  <2> QED BY <2>3, <2>4
<1>6. WritersOverlap'
  <2>1. ASSUME NEW q \in Proc \ {p}, up[q].at = "write", up[q].new.id = o
        PROVE  o \in overlapped'
    BY <2>1 DEF SelectRow
  <2>2. ASSUME NEW q \in Proc, NEW r \in Proc, q # r,
               up'[q].at = "write", up'[r].at = "write",
               up'[q].new.id = up'[r].new.id
        PROVE  up'[q].new.id \in overlapped' \cup {NoOrder}
    <3>1. CASE q = p
      BY <1>3, <2>1, <2>2, <3>1
    <3>2. CASE r = p
      BY <1>3, <2>1, <2>2, <3>2
    <3>3. CASE q # p /\ r # p
      BY <1>1, <1>3, <2>2, <3>3 DEF Rowwise, WritersOverlap
    <3> QED BY <3>1, <3>2, <3>3
  <2> QED BY <2>2 DEF WritersOverlap
<1> QED BY <1>4, <1>5, <1>6 DEF Rowwise

LEMMA WriteRowwise ==
  ASSUME TypeOK, Rowwise, NEW p \in Proc, WriteRow(p)
  PROVE  Rowwise'
<1> DEFINE o == up[p].new.id
<1>1. /\ up[p].at = "write" /\ up'[p] = NoPut
      /\ \A q \in Proc \ {p} : up'[q] = up[q]
      /\ Excused' = Excused /\ overlapped' = overlapped
  BY DEF WriteRow, history, Excused, TypeOK, UpsertOK
<1>2. ASSUME o \notin Excused, NEW i \in DOMAIN rows, NEW j \in DOMAIN rows',
             rows'[i].id = o, rows'[j].id = o
      PROVE  i = j
  <2>1. \A k \in DOMAIN rows : rows[k].id = o => k = up[p].row
    BY <1>1, <1>2 DEF Rowwise, SelectedRow, RowsOf
  <2>2. up[p].row # 0 => up[p].row \in DOMAIN rows
    BY DEF TypeOK, UpsertOK, RowsOf
  <2>3. \A k \in DOMAIN rows : rows'[k].id = rows[k].id
    BY WrittenRows
  <2>4. CASE up[p].row = 0
    <3>1. i = 0
      BY <1>2, <2>1, <2>3, <2>4
    <3> QED BY <3>1, TableFacts DEF TypeOK
  <2>5. CASE up[p].row # 0
    <3>1. j \in DOMAIN rows
      BY <2>5, WrittenRows
    <3> QED BY <1>2, <2>1, <2>3, <3>1
  <2> QED BY <2>4, <2>5
<1>3. OneRowPerOrder'
  <2> SUFFICES ASSUME NEW i \in DOMAIN rows', NEW j \in DOMAIN rows', i # j,
                      rows'[i].id = rows'[j].id, rows'[i].id \notin Excused
               PROVE  FALSE
    BY <1>1 DEF OneRowPerOrder, Excused
  <2>1. \A k \in DOMAIN rows : rows'[k].id = rows[k].id
    BY WrittenRows
  <2>2. CASE i \in DOMAIN rows /\ j \in DOMAIN rows
    BY <2>1, <2>2 DEF Rowwise, OneRowPerOrder, Excused
  <2>3. CASE ~(i \in DOMAIN rows /\ j \in DOMAIN rows)
    <3>1. (i \in DOMAIN rows \/ j \in DOMAIN rows) /\ rows'[i].id = o
      BY <2>3, WrittenRows
    <3> QED BY <1>2, <3>1
  <2> QED BY <2>2, <2>3
<1>4. SelectedRow'
  <2> SUFFICES ASSUME NEW q \in Proc, up'[q].at = "write", up'[q].new.id \notin Excused,
                      NEW i \in DOMAIN rows', rows'[i].id = up'[q].new.id
               PROVE  i = up'[q].row
    BY <1>1 DEF SelectedRow, RowsOf
  <2>1. q # p /\ up'[q] = up[q]
    BY <1>1 DEF NoPut
  <2>2. up[q].new.id # o
    BY <1>1, <2>1 DEF Rowwise, WritersOverlap, Excused
  <2>3. i \in DOMAIN rows /\ rows[i].id = up[q].new.id
    BY <2>1, <2>2, WrittenRows
  <2> QED BY <2>1, <2>3 DEF Rowwise, SelectedRow, RowsOf
<1>5. WritersOverlap'
  BY <1>1 DEF Rowwise, WritersOverlap, NoPut
<1> QED BY <1>3, <1>4, <1>5 DEF Rowwise

LEMMA MatchRowwise ==
  ASSUME TypeOK, Rowwise, MatchOrphan
  PROVE  Rowwise'
<1>1. UNCHANGED <<up, overlapped>>
  BY DEF MatchOrphan
<1>2. CASE UNCHANGED <<rows, matched>>
  BY <1>1, <1>2 DEF Rowwise, OneRowPerOrder, SelectedRow, WritersOverlap, Excused, RowsOf
<1>3. ASSUME NEW o \in Order, matched' = matched \cup {o},
             rows' = [rows EXCEPT ![Max(orphans)] = Row(o, Classify(o), kis.exe[o])]
      PROVE  Rowwise'
  <2>1. /\ DOMAIN rows' = DOMAIN rows
        /\ \A i \in DOMAIN rows : rows'[i].id = rows[i].id \/ rows'[i].id = o
    BY <1>3 DEF Row
  <2>2. o \in Excused' /\ Excused \subseteq Excused'
    BY <1>1, <1>3 DEF Excused
  <2>3. OneRowPerOrder'
    BY <1>1, <1>3, <2>1 DEF Rowwise, OneRowPerOrder
  <2>4. SelectedRow'
    BY <1>1, <2>1, <2>2 DEF Rowwise, SelectedRow, RowsOf
  <2>5. WritersOverlap'
    BY <1>1 DEF Rowwise, WritersOverlap
  <2> QED BY <2>3, <2>4, <2>5 DEF Rowwise
<1> QED BY <1>2, <1>3, MatchedRow

(* A second row of an order takes two upserts at once, or a match.         *)
LEMMA RowwiseStep == TypeOK /\ TypeOK' /\ Rowwise /\ [Next]_vars => Rowwise'
<1> SUFFICES ASSUME TypeOK, TypeOK', Rowwise, [Next]_vars PROVE Rowwise'
  OBVIOUS
<1>1. ASSUME NEW p \in Proc, SelectRow(p) PROVE Rowwise'
  BY <1>1, SelectRowwise
<1>2. ASSUME NEW p \in Proc, WriteRow(p) PROVE Rowwise'
  BY <1>2, WriteRowwise
<1>3. ASSUME NEW p \in Proc, FailRow(p) PROVE Rowwise'
  <2>1. DOMAIN rows' = DOMAIN rows /\ \A i \in DOMAIN rows : rows'[i].id = rows[i].id
    BY <1>3 DEF FailRow
  <2>2. \A x \in Proc : Quiet(x)
    BY <1>3 DEF FailRow, UpsertOK, Quiet, TypeOK, NoPut, Row
  <2>3. overlapped \subseteq overlapped' /\ matched \subseteq matched'
    BY <1>3 DEF FailRow, history
  <2> QED BY <2>1, <2>2, <2>3, QuietStep
<1>4. ASSUME NEW p \in Proc, NoRecord(p) PROVE Rowwise'
  <2>1. DOMAIN rows' = DOMAIN rows /\ \A i \in DOMAIN rows : rows'[i].id = rows[i].id
    BY <1>4 DEF NoRecord
  <2>2. \A x \in Proc : Quiet(x)
    BY <1>4 DEF NoRecord, Quiet, TypeOK
  <2>3. overlapped \subseteq overlapped' /\ matched \subseteq matched'
    BY <1>4 DEF NoRecord, history
  <2> QED BY <2>1, <2>2, <2>3, QuietStep
<1>5. ASSUME NEW p \in Proc, RecordPending(p) PROVE Rowwise'
  <2>1. DOMAIN rows' = DOMAIN rows /\ \A i \in DOMAIN rows : rows'[i].id = rows[i].id
    BY <1>5 DEF RecordPending
  <2>2. \A x \in Proc : Quiet(x)
    BY <1>5 DEF RecordPending, Upsert, UpsertOK, Quiet, TypeOK, Put, Row
  <2>3. overlapped \subseteq overlapped' /\ matched \subseteq matched'
    BY <1>5 DEF RecordPending, history
  <2> QED BY <2>1, <2>2, <2>3, QuietStep
<1>6. ASSUME NEW p \in Proc, Kill(p) PROVE Rowwise'
  <2>1. DOMAIN rows' = DOMAIN rows /\ \A i \in DOMAIN rows : rows'[i].id = rows[i].id
    BY <1>6 DEF Kill
  <2>2. \A x \in Proc : Quiet(x)
    BY <1>6 DEF Kill, UpsertOK, Quiet, TypeOK, NoPut, Row
  <2>3. overlapped \subseteq overlapped' /\ matched \subseteq matched'
    BY <1>6 DEF Kill, history
  <2> QED BY <2>1, <2>2, <2>3, QuietStep
<1>7. ASSUME NEW p \in Proc, NEW o \in Order, Submit(p, o) PROVE Rowwise'
  <2>1. DOMAIN rows' = DOMAIN rows /\ \A i \in DOMAIN rows : rows'[i].id = rows[i].id
    BY <1>7 DEF Submit
  <2>2. \A x \in Proc : Quiet(x)
    BY <1>7 DEF Submit, Quiet, TypeOK
  <2>3. overlapped \subseteq overlapped' /\ matched \subseteq matched'
    BY <1>7 DEF Submit, history
  <2> QED BY <2>1, <2>2, <2>3, QuietStep
<1>8. CASE RecordExecuted
  <2>1. DOMAIN rows' = DOMAIN rows /\ \A i \in DOMAIN rows : rows'[i].id = rows[i].id
    BY <1>8 DEF RecordExecuted
  <2>2. \A x \in Proc : Quiet(x)
    BY <1>8 DEF RecordExecuted, Upsert, UpsertOK, Quiet, TypeOK, Put, Row
  <2>3. overlapped \subseteq overlapped' /\ matched \subseteq matched'
    BY <1>8 DEF RecordExecuted, history
  <2> QED BY <2>1, <2>2, <2>3, QuietStep
<1>9. CASE RecordOrphan
  <2>1. DOMAIN rows' = DOMAIN rows /\ \A i \in DOMAIN rows : rows'[i].id = rows[i].id
    BY <1>9 DEF RecordOrphan
  <2>2. \A x \in Proc : Quiet(x)
    BY <1>9 DEF RecordOrphan, Upsert, UpsertOK, Quiet, TypeOK, Put, Row
  <2>3. overlapped \subseteq overlapped' /\ matched \subseteq matched'
    BY <1>9 DEF RecordOrphan, history
  <2> QED BY <2>1, <2>2, <2>3, QuietStep
<1>10. CASE RecordByHoldings
  <2>1. DOMAIN rows' = DOMAIN rows /\ \A i \in DOMAIN rows : rows'[i].id = rows[i].id
    BY <1>10 DEF RecordByHoldings, Updated, Row
  <2>2. \A x \in Proc : Quiet(x)
    BY <1>10 DEF RecordByHoldings, Upsert, UpsertOK, Quiet, TypeOK, Put, Row
  <2>3. overlapped \subseteq overlapped' /\ matched \subseteq matched'
    BY <1>10 DEF RecordByHoldings, history
  <2> QED BY <2>1, <2>2, <2>3, QuietStep
<1>11. CASE BatchStart
  <2>1. DOMAIN rows' = DOMAIN rows /\ \A i \in DOMAIN rows : rows'[i].id = rows[i].id
    BY <1>11 DEF BatchStart
  <2>2. \A x \in Proc : Quiet(x)
    BY <1>11 DEF BatchStart, Quiet, TypeOK
  <2>3. overlapped \subseteq overlapped' /\ matched \subseteq matched'
    BY <1>11 DEF BatchStart, history
  <2> QED BY <2>1, <2>2, <2>3, QuietStep
<1>12. CASE BatchLoad
  <2>1. DOMAIN rows' = DOMAIN rows /\ \A i \in DOMAIN rows : rows'[i].id = rows[i].id
    BY <1>12 DEF BatchLoad
  <2>2. \A x \in Proc : Quiet(x)
    BY <1>12 DEF BatchLoad, Quiet, TypeOK
  <2>3. overlapped \subseteq overlapped' /\ matched \subseteq matched'
    BY <1>12 DEF BatchLoad, history
  <2> QED BY <2>1, <2>2, <2>3, QuietStep
<1>13. CASE BatchEnd
  <2>1. DOMAIN rows' = DOMAIN rows /\ \A i \in DOMAIN rows : rows'[i].id = rows[i].id
    BY <1>13 DEF BatchEnd
  <2>2. \A x \in Proc : Quiet(x)
    BY <1>13 DEF BatchEnd, Quiet, TypeOK
  <2>3. overlapped \subseteq overlapped' /\ matched \subseteq matched'
    BY <1>13 DEF BatchEnd, history
  <2> QED BY <2>1, <2>2, <2>3, QuietStep
<1>14. CASE ReconStart
  <2>1. DOMAIN rows' = DOMAIN rows /\ \A i \in DOMAIN rows : rows'[i].id = rows[i].id
    BY <1>14 DEF ReconStart
  <2>2. \A x \in Proc : Quiet(x)
    BY <1>14 DEF ReconStart, Quiet, TypeOK
  <2>3. overlapped \subseteq overlapped' /\ matched \subseteq matched'
    BY <1>14 DEF ReconStart, history
  <2> QED BY <2>1, <2>2, <2>3, QuietStep
<1>15. CASE ReconFetch
  <2>1. DOMAIN rows' = DOMAIN rows /\ \A i \in DOMAIN rows : rows'[i].id = rows[i].id
    BY <1>15 DEF ReconFetch
  <2>2. \A x \in Proc : Quiet(x)
    BY <1>15 DEF ReconFetch, Quiet, TypeOK
  <2>3. overlapped \subseteq overlapped' /\ matched \subseteq matched'
    BY <1>15 DEF ReconFetch, history
  <2> QED BY <2>1, <2>2, <2>3, QuietStep
<1>16. CASE ReadOrphans
  <2>1. DOMAIN rows' = DOMAIN rows /\ \A i \in DOMAIN rows : rows'[i].id = rows[i].id
    BY <1>16 DEF ReadOrphans
  <2>2. \A x \in Proc : Quiet(x)
    BY <1>16 DEF ReadOrphans, Quiet, TypeOK
  <2>3. overlapped \subseteq overlapped' /\ matched \subseteq matched'
    BY <1>16 DEF ReadOrphans, history
  <2> QED BY <2>1, <2>2, <2>3, QuietStep
<1>17. CASE MatchOrphan
  BY <1>17, MatchRowwise
<1>18. CASE DetectBrokerOnly
  <2>1. DOMAIN rows' = DOMAIN rows /\ \A i \in DOMAIN rows : rows'[i].id = rows[i].id
    BY <1>18 DEF DetectBrokerOnly
  <2>2. \A x \in Proc : Quiet(x)
    BY <1>18 DEF DetectBrokerOnly, Quiet, TypeOK
  <2>3. overlapped \subseteq overlapped' /\ matched \subseteq matched'
    BY <1>18 DEF DetectBrokerOnly, history
  <2> QED BY <2>1, <2>2, <2>3, QuietStep
<1>19. CASE ReconEnd
  <2>1. DOMAIN rows' = DOMAIN rows /\ \A i \in DOMAIN rows : rows'[i].id = rows[i].id
    BY <1>19 DEF ReconEnd
  <2>2. \A x \in Proc : Quiet(x)
    BY <1>19 DEF ReconEnd, Quiet, TypeOK
  <2>3. overlapped \subseteq overlapped' /\ matched \subseteq matched'
    BY <1>19 DEF ReconEnd, history
  <2> QED BY <2>1, <2>2, <2>3, QuietStep
<1>20. ASSUME NEW o \in Order, BatchOrder(o) PROVE Rowwise'
  <2>1. DOMAIN rows' = DOMAIN rows /\ \A i \in DOMAIN rows : rows'[i].id = rows[i].id
    BY <1>20, TableFacts DEF TypeOK, RowType, BatchOrder, Cancelled
  <2>2. \A x \in Proc : Quiet(x)
    BY <1>20 DEF BatchOrder, Upsert, UpsertOK, Quiet, TypeOK, Put, Row
  <2>3. overlapped \subseteq overlapped' /\ matched \subseteq matched'
    BY <1>20 DEF BatchOrder, history
  <2> QED BY <2>1, <2>2, <2>3, QuietStep
<1>21. ASSUME NEW o \in Order, ReconUpdate(o) PROVE Rowwise'
  <2>1. DOMAIN rows' = DOMAIN rows /\ \A i \in DOMAIN rows : rows'[i].id = rows[i].id
    BY <1>21 DEF ReconUpdate, Updated, Row
  <2>2. \A x \in Proc : Quiet(x)
    BY <1>21 DEF ReconUpdate, Quiet, TypeOK
  <2>3. overlapped \subseteq overlapped' /\ matched \subseteq matched'
    BY <1>21 DEF ReconUpdate, history
  <2> QED BY <2>1, <2>2, <2>3, QuietStep
<1>22. ASSUME NEW o \in Order, ReconMiss(o) PROVE Rowwise'
  <2>1. DOMAIN rows' = DOMAIN rows /\ \A i \in DOMAIN rows : rows'[i].id = rows[i].id
    BY <1>22 DEF ReconMiss
  <2>2. \A x \in Proc : Quiet(x)
    BY <1>22 DEF ReconMiss, Quiet, TypeOK
  <2>3. overlapped \subseteq overlapped' /\ matched \subseteq matched'
    BY <1>22 DEF ReconMiss, history
  <2> QED BY <2>1, <2>2, <2>3, QuietStep
<1>23. ASSUME NEW o \in Order, Backfill(o) PROVE Rowwise'
  <2>1. DOMAIN rows' = DOMAIN rows /\ \A i \in DOMAIN rows : rows'[i].id = rows[i].id
    BY <1>23 DEF Backfill
  <2>2. \A x \in Proc : Quiet(x)
    BY <1>23 DEF Backfill, Upsert, UpsertOK, Quiet, TypeOK, Put, Row
  <2>3. overlapped \subseteq overlapped' /\ matched \subseteq matched'
    BY <1>23 DEF Backfill, history
  <2> QED BY <2>1, <2>2, <2>3, QuietStep
<1>24. ASSUME NEW o \in Order, Fill(o) PROVE Rowwise'
  <2>1. DOMAIN rows' = DOMAIN rows /\ \A i \in DOMAIN rows : rows'[i].id = rows[i].id
    BY <1>24 DEF Fill
  <2>2. \A x \in Proc : Quiet(x)
    BY <1>24 DEF Fill, Quiet, TypeOK
  <2>3. overlapped \subseteq overlapped' /\ matched \subseteq matched'
    BY <1>24 DEF Fill, history
  <2> QED BY <2>1, <2>2, <2>3, QuietStep
<1>25. ASSUME NEW o \in Order, Close(o) PROVE Rowwise'
  <2>1. DOMAIN rows' = DOMAIN rows /\ \A i \in DOMAIN rows : rows'[i].id = rows[i].id
    BY <1>25 DEF Close
  <2>2. \A x \in Proc : Quiet(x)
    BY <1>25 DEF Close, Quiet, TypeOK
  <2>3. overlapped \subseteq overlapped' /\ matched \subseteq matched'
    BY <1>25 DEF Close, history
  <2> QED BY <2>1, <2>2, <2>3, QuietStep
<1>26. CASE UNCHANGED vars
  BY <1>26 DEF vars, Rowwise, OneRowPerOrder, SelectedRow, WritersOverlap, Excused, RowsOf, history
<1> QED
  BY <1>1, <1>2, <1>3, <1>4, <1>5, <1>6, <1>7, <1>8, <1>9, <1>10, <1>11, <1>12, <1>13, <1>14, <1>15, <1>16, <1>17, <1>18, <1>19, <1>20, <1>21, <1>22, <1>23, <1>24, <1>25, <1>26 DEF Next

THEOREM Invariance == Spec => []IInv
<1>1. Init => AllBacked /\ Rowwise
  <2> SUFFICES ASSUME Init PROVE AllBacked /\ Rowwise
    OBVIOUS
  <2>1. DOMAIN rows = {}
    BY EmptySeq DEF Init
  <2> QED
    BY <2>1, LedgerAssumption
       DEF Init, AllBacked, Backed, Rowwise, OneRowPerOrder, SelectedRow,
           WritersOverlap, Proc, NoPut, NoAnswer, Row
<1>2. IInv /\ [Next]_vars => IInv'
  BY TypeStep, BackedStep, RowwiseStep DEF IInv
<1> QED
  BY TypeInit, <1>1, <1>2, PTL DEF IInv, Spec

(* No invented execution: a row that was not read off the holdings never   *)
(* has more shares than KIS executed of its order, whichever of the        *)
(* programs wrote it, from however old an answer, and whatever was killed. *)
THEOREM NoInventedExecution == Spec => []NeverMoreThanFilled
<1>1. IInv => NeverMoreThanFilled
  BY DEF IInv, AllBacked, Backed, NeverMoreThanFilled
<1> QED
  BY <1>1, Invariance, PTL

(* An order has one row, unless two upserts of it overlapped or a row      *)
(* without order id was given its number.                                  *)
THEOREM RowsAreUnique == Spec => []OneRowPerOrder
<1>1. IInv => OneRowPerOrder
  BY DEF IInv, Rowwise
<1> QED
  BY <1>1, Invariance, PTL

-----------------------------------------------------------------------------
(* Loops, and the sums that LedgerRepair is built from *)

(* What holds at 0 and goes from each number below n to the next one holds *)
(* up to n.                                                                *)
LEMMA UpTo ==
    ASSUME NEW P \in SUBSET Nat, NEW n \in Nat, 0 \in P,
           \A k \in 0 .. (n - 1) : k \in P => k + 1 \in P
    PROVE  \A k \in 0 .. n : k \in P
<1> DEFINE B == {k \in 0 .. n : k \notin P}
<1>1. SUFFICES ASSUME B # {} PROVE FALSE
  OBVIOUS
<1>2. PICK m \in B : \A k \in B : m <= k
  <2>1. B \in SUBSET Nat
    OBVIOUS
  <2> DEFINE R == OpToRel(<, Nat)
  <2>2. PICK m \in B : \A k \in B : <<k, m>> \notin R
    <3>1. IsWellFoundedOn(R, Nat)
      BY NatLessThanWellFounded
    <3> HIDE DEF R, B
    <3> QED BY <1>1, <2>1, <3>1, WFMin
  <2>3. \A k \in B : ~(k < m)
    BY <2>1, <2>2 DEF OpToRel
  <2> QED BY <2>1, <2>3
<1>3. m # 0 /\ m \in 0 .. n /\ m \notin P
  OBVIOUS
<1>4. m - 1 \in 0 .. (n - 1) /\ m - 1 \notin B
  BY <1>2, <1>3
<1>5. m - 1 \in P
  BY <1>4
<1> QED BY <1>3, <1>4, <1>5

(* A loop over 1 .. N, whose body is given as a function, has a result     *)
(* after every pass: g.                                                    *)
Steps(X, N, body) == body \in [(1 .. N) \X X -> X]
Loops(g, X, N, first, body) ==
    /\ g \in [0 .. N -> X] /\ g[0] = first
    /\ \A t \in 1 .. N : g[t] = body[<<t, g[t - 1]>>]

(* Such a loop always has its results: the shares left of a sell after      *)
(* every lot, a sum after every term.                                      *)
LEMMA LoopExists ==
    ASSUME NEW X, NEW N \in Nat, NEW first \in X, NEW body, Steps(X, N, body)
    PROVE  \E g : Loops(g, X, N, first, body)
<1> USE DEF Steps
<1> DEFINE Ran(g, n) == Loops(g, X, n, first, body)
           P == {n \in Nat : \E g : Ran(g, n)}
<1>1. 0 \in P
  <2>1. Ran([t \in 0 .. 0 |-> first], 0)
    BY DEF Loops
  <2> HIDE DEF Ran
  <2> QED BY <2>1
<1>2. ASSUME NEW n \in 0 .. (N - 1), n \in P PROVE n + 1 \in P
  <2>1. PICK g : Ran(g, n)
    BY <1>2
  <2> DEFINE h == [t \in 0 .. (n + 1) |->
                      IF t <= n THEN g[t] ELSE body[<<n + 1, g[n]>>]]
  <2>2. g[n] \in X /\ n + 1 \in 1 .. N
    BY <2>1 DEF Loops
  <2>3. body[<<n + 1, g[n]>>] \in X
    BY <2>2
  <2>4. h \in [0 .. (n + 1) -> X]
    BY <2>1, <2>3 DEF Loops
  <2>5. h[0] = first
    BY <2>1 DEF Loops
  <2>6. \A t \in 1 .. (n + 1) : h[t] = body[<<t, h[t - 1]>>]
    <3> TAKE t \in 1 .. (n + 1)
    <3>1. CASE t = n + 1
      <4>1. /\ t \in 0 .. (n + 1) /\ ~(t <= n)
            /\ t - 1 \in 0 .. (n + 1) /\ t - 1 <= n /\ t - 1 = n
        BY <3>1
      <4>2. h[t] = body[<<n + 1, g[n]>>] /\ h[t - 1] = g[n]
        BY <4>1
      <4> HIDE DEF h
      <4> QED BY <3>1, <4>2
    <3>2. CASE t \in 1 .. n
      <4>1. /\ t \in 0 .. (n + 1) /\ t <= n
            /\ t - 1 \in 0 .. (n + 1) /\ t - 1 <= n
        BY <3>2
      <4>2. h[t] = g[t] /\ h[t - 1] = g[t - 1]
        BY <4>1
      <4> HIDE DEF h
      <4> QED BY <2>1, <3>2, <4>2 DEF Loops
    <3> QED BY <3>1, <3>2
  <2>7. Ran(h, n + 1)
    BY <2>4, <2>5, <2>6 DEF Loops
  <2> HIDE DEF Ran
  <2> QED BY <2>7
<1>3. N \in P
  <2> HIDE DEF P
  <2>1. P \in SUBSET Nat
    BY DEF P
  <2> QED BY <1>1, <1>2, <2>1, UpTo
<1> QED BY <1>3

-----------------------------------------------------------------------------
Ints(f, n) == \A i \in 1 .. n : f[i] \in Int

(* A sum of n terms comes after n steps of the loop of Sum.                *)
LEMMA SumLoop ==
    ASSUME NEW f, NEW n \in Nat, Ints(f, n)
    PROVE  \E g \in [0 .. n -> Int] :
              /\ g[0] = 0 /\ \A t \in 1 .. n : g[t] = g[t - 1] + f[t]
              /\ Sum(f, n) = g[n]
<1> DEFINE body == [p \in (1 .. n) \X Int |-> p[2] + f[p[1]]]
           P(g) == g = [i \in 0 .. n |-> IF i = 0 THEN 0 ELSE g[i - 1] + f[i]]
           s == CHOOSE g : P(g)
<1>1. PICK g : Loops(g, Int, n, 0, body)
  <2>1. Steps(Int, n, body)
    BY DEF Steps, Ints
  <2> HIDE DEF body
  <2> QED BY <2>1, LoopExists
<1>2. g \in [0 .. n -> Int] /\ g[0] = 0
  BY <1>1 DEF Loops
<1>3. \A t \in 1 .. n : g[t] = g[t - 1] + f[t]
  <2> TAKE t \in 1 .. n
  <2>1. g[t - 1] \in Int
    BY <1>2
  <2>2. body[<<t, g[t - 1]>>] = g[t - 1] + f[t]
    BY <2>1
  <2> HIDE DEF body
  <2> QED BY <1>1, <2>2 DEF Loops
<1>4. P(g)
  BY <1>2, <1>3
<1>5. P(s)
  BY <1>4
<1>6. s \in [0 .. n -> Int] /\ s[0] = 0 /\ \A t \in 1 .. n : s[t] = s[t - 1] + f[t]
  <2>1. DOMAIN s = 0 .. n /\ s = [i \in 0 .. n |-> s[i]]
    BY <1>5
  <2>2. s[0] = 0 /\ \A t \in 1 .. n : s[t] = s[t - 1] + f[t]
    <3>1. \A t \in 0 .. n : s[t] = IF t = 0 THEN 0 ELSE s[t - 1] + f[t]
      BY <1>5
    <3> HIDE DEF s
    <3> QED BY <3>1
  <2> HIDE DEF s, P
  <2> DEFINE Q == {t \in Nat : t <= n => s[t] \in Int}
  <2>3. 0 \in Q
    BY <2>2
  <2>4. \A k \in 0 .. (n - 1) : k \in Q => k + 1 \in Q
    <3> TAKE k \in 0 .. (n - 1)
    <3>1. k + 1 \in 1 .. n /\ (k + 1) - 1 = k
      OBVIOUS
    <3> QED BY <2>2, <3>1 DEF Ints
  <2>5. \A k \in 0 .. n : k \in Q
    <3> HIDE DEF Q
    <3>1. Q \in SUBSET Nat
      BY DEF Q
    <3> QED BY <2>3, <2>4, <3>1, UpTo
  <2>6. \A i \in 0 .. n : s[i] \in Int
    BY <2>5
  <2>7. s \in [0 .. n -> Int]
    <3> HIDE DEF Q
    <3> QED BY <2>1, <2>6
  <2> QED BY <2>2, <2>7
<1>7. Sum(f, n) = s[n]
  BY DEF Sum
<1> QED BY <1>6, <1>7

(* What Sum does: nothing of nothing, and one term more.                   *)
LEMMA SumIs ==
    ASSUME NEW f, NEW n \in Nat, Ints(f, n)
    PROVE  /\ Sum(f, 0) = 0
           /\ \A i \in 0 .. n : Sum(f, i) \in Int
           /\ \A i \in 1 .. n : Sum(f, i) = Sum(f, i - 1) + f[i]
<1>1. Sum(f, 0) = 0
  <2>1. Ints(f, 0)
    BY DEF Ints
  <2> QED BY <2>1, SumLoop
<1>2. ASSUME NEW i \in 0 .. n PROVE Ints(f, i) /\ Sum(f, i) \in Int
  <2>1. i \in Nat /\ Ints(f, i)
    BY DEF Ints
  <2> QED BY <2>1, SumLoop
<1>3. ASSUME NEW i \in 1 .. n PROVE Sum(f, i) = Sum(f, i - 1) + f[i]
  <2>1. i \in 0 .. n /\ i - 1 \in 0 .. n /\ i \in Nat /\ i - 1 \in Nat
    OBVIOUS
  <2>2. PICK g \in [0 .. i -> Int] :
           /\ g[0] = 0 /\ \A t \in 1 .. i : g[t] = g[t - 1] + f[t]
           /\ Sum(f, i) = g[i]
    BY <1>2, <2>1, SumLoop
  <2>3. PICK h \in [0 .. i - 1 -> Int] :
           /\ h[0] = 0 /\ \A t \in 1 .. i - 1 : h[t] = h[t - 1] + f[t]
           /\ Sum(f, i - 1) = h[i - 1]
    BY <1>2, <2>1, SumLoop
  <2> DEFINE Q == {t \in Nat : t <= i - 1 => g[t] = h[t]}
  <2>4. 0 \in Q
    BY <2>2, <2>3
  <2>5. \A k \in 0 .. ((i - 1) - 1) : k \in Q => k + 1 \in Q
    <3> TAKE k \in 0 .. ((i - 1) - 1)
    <3>1. k + 1 \in 1 .. i /\ k + 1 \in 1 .. i - 1 /\ (k + 1) - 1 = k
      OBVIOUS
    <3> QED BY <2>2, <2>3, <3>1
  <2>6. i - 1 \in Q
    <3> HIDE DEF Q
    <3>1. Q \in SUBSET Nat /\ i - 1 \in 0 .. i - 1
      BY <2>1 DEF Q
    <3> QED BY <2>1, <2>4, <2>5, <3>1, UpTo
  <2>7. g[i] = g[i - 1] + f[i]
    BY <2>2
  <2> QED BY <2>2, <2>3, <2>6, <2>7
<1> QED BY <1>1, <1>2, <1>3

(* Equal terms, equal sums: an order more changes no sum before it.        *)
LEMMA SumSame ==
    ASSUME NEW f, NEW g, NEW n \in Nat, Ints(f, n), \A i \in 1 .. n : g[i] = f[i]
    PROVE  \A i \in 0 .. n : Sum(g, i) = Sum(f, i)
<1> DEFINE Q == {i \in Nat : i <= n => Sum(g, i) = Sum(f, i)}
<1>1. Ints(g, n)
  BY DEF Ints
<1>2. 0 \in Q
  BY <1>1, SumIs
<1>3. \A k \in 0 .. (n - 1) : k \in Q => k + 1 \in Q
  <2> TAKE k \in 0 .. (n - 1)
  <2>1. k + 1 \in 1 .. n /\ (k + 1) - 1 = k
    OBVIOUS
  <2>2. Sum(f, k + 1) = Sum(f, k) + f[k + 1] /\ Sum(g, k + 1) = Sum(g, k) + g[k + 1]
    BY <1>1, <2>1, SumIs
  <2> QED BY <2>1, <2>2
<1>4. \A k \in 0 .. n : k \in Q
  <2> HIDE DEF Q
  <2>1. Q \in SUBSET Nat
    BY DEF Q
  <2> QED BY <1>2, <1>3, <2>1, UpTo
<1> QED BY <1>4

(* No larger terms, no larger sum: an execution only adds to what was     *)
(* bought.                                                                 *)
LEMMA SumGrows ==
    ASSUME NEW f, NEW g, NEW n \in Nat, Ints(f, n), Ints(g, n),
           \A i \in 1 .. n : f[i] <= g[i]
    PROVE  \A i \in 0 .. n : Sum(f, i) <= Sum(g, i)
<1> DEFINE Q == {i \in Nat : i <= n => Sum(f, i) <= Sum(g, i)}
<1>2. 0 \in Q
  BY SumIs
<1>3. \A k \in 0 .. (n - 1) : k \in Q => k + 1 \in Q
  <2> TAKE k \in 0 .. (n - 1)
  <2>1. k + 1 \in 1 .. n /\ (k + 1) - 1 = k /\ k \in 0 .. n
    OBVIOUS
  <2>2. Sum(f, k + 1) = Sum(f, k) + f[k + 1] /\ Sum(g, k + 1) = Sum(g, k) + g[k + 1]
    BY <2>1, SumIs
  <2>3. Sum(f, k) \in Int /\ Sum(g, k) \in Int /\ f[k + 1] \in Int /\ g[k + 1] \in Int
        /\ f[k + 1] <= g[k + 1]
    BY <2>1, SumIs DEF Ints
  <2> QED BY <2>1, <2>2, <2>3
<1>4. \A k \in 0 .. n : k \in Q
  <2> HIDE DEF Q
  <2>1. Q \in SUBSET Nat
    BY DEF Q
  <2> QED BY <1>2, <1>3, <2>1, UpTo
<1> QED BY <1>4

(* A sum of sums: what was asked for is what was done and what is open.    *)
LEMMA SumPlus ==
    ASSUME NEW f, NEW g, NEW h, NEW n \in Nat, Ints(f, n), Ints(g, n),
           \A i \in 1 .. n : h[i] = f[i] + g[i]
    PROVE  \A i \in 0 .. n : Sum(h, i) = Sum(f, i) + Sum(g, i)
<1> DEFINE Q == {i \in Nat : i <= n => Sum(h, i) = Sum(f, i) + Sum(g, i)}
<1>1. Ints(h, n)
  BY DEF Ints
<1>2. 0 \in Q
  BY <1>1, SumIs
<1>3. \A k \in 0 .. (n - 1) : k \in Q => k + 1 \in Q
  <2> TAKE k \in 0 .. (n - 1)
  <2>1. k + 1 \in 1 .. n /\ (k + 1) - 1 = k /\ k \in 0 .. n
    OBVIOUS
  <2>2. /\ Sum(f, k + 1) = Sum(f, k) + f[k + 1] /\ Sum(g, k + 1) = Sum(g, k) + g[k + 1]
        /\ Sum(h, k + 1) = Sum(h, k) + h[k + 1]
    BY <1>1, <2>1, SumIs
  <2>3. Sum(f, k) \in Int /\ Sum(g, k) \in Int /\ f[k + 1] \in Int /\ g[k + 1] \in Int
        /\ h[k + 1] = f[k + 1] + g[k + 1]
    BY <2>1, SumIs DEF Ints
  <2> QED BY <2>1, <2>2, <2>3
<1>4. \A k \in 0 .. n : k \in Q
  <2> HIDE DEF Q
  <2>1. Q \in SUBSET Nat
    BY DEF Q
  <2> QED BY <1>2, <1>3, <2>1, UpTo
<1> QED BY <1>4

-----------------------------------------------------------------------------
LotType   == [buy : Nat, qty : Nat \ {0}, px : Nat]
TakenType == [left : Nat, gross : Int, used : Seq(Nat \X Nat), rest : Seq(LotType)]

Untaken(qty) == [left |-> qty, gross |-> 0, used |-> <<>>, rest |-> <<>>]

(* One lot more: what a sell still needs, its profit, the lots left.       *)
LEMMA TakeType ==
    ASSUME NEW a \in TakenType, NEW l \in LotType, NEW price \in Nat
    PROVE  Take(a, l, price) \in TakenType
<1> DEFINE n == IF l.qty < a.left THEN l.qty ELSE a.left
           b == Take(a, l, price)
<1>1. n \in Nat /\ n <= l.qty /\ n <= a.left /\ l.qty \in Nat /\ a.left \in Nat
  BY DEF TakenType, LotType
<1>2. a.left - n \in Nat /\ (n # l.qty => l.qty - n \in Nat \ {0})
  <2> HIDE DEF n
  <2> QED BY <1>1
<1>3. a.gross + (price - l.px) * n \in Int
  <2>1. a.gross \in Int /\ price - l.px \in Int
    BY DEF TakenType, LotType
  <2> HIDE DEF n
  <2> QED BY <1>1, <2>1
<1>4. IF n = 0 THEN TRUE ELSE Append(a.used, <<l.buy, n>>) \in Seq(Nat \X Nat)
  <2>1. a.used \in Seq(Nat \X Nat) /\ l.buy \in Nat
    BY DEF TakenType, LotType
  <2> HIDE DEF n
  <2>2. <<l.buy, n>> \in Nat \X Nat
    BY <1>1, <2>1
  <2> QED BY <2>1, <2>2, AppendProperties
<1>5. ASSUME n # l.qty PROVE Append(a.rest, [l EXCEPT !.qty = @ - n]) \in Seq(LotType)
  <2>1. a.rest \in Seq(LotType)
    BY DEF TakenType
  <2> HIDE DEF n
  <2>2. [l EXCEPT !.qty = @ - n] \in LotType
    BY <1>2, <1>5 DEF LotType
  <2> QED BY <2>1, <2>2, AppendProperties
<1>6. /\ b.left \in Nat /\ b.gross \in Int
      /\ b.used \in Seq(Nat \X Nat) /\ b.rest \in Seq(LotType)
  <2>1. a.used \in Seq(Nat \X Nat) /\ a.rest \in Seq(LotType)
    BY DEF TakenType
  <2>2. b = [left |-> a.left - n, gross |-> a.gross + (price - l.px) * n,
             used |-> IF n = 0 THEN a.used ELSE Append(a.used, <<l.buy, n>>),
             rest |-> IF n = l.qty THEN a.rest
                      ELSE Append(a.rest, [l EXCEPT !.qty = @ - n])]
    BY DEF Take
  <2> HIDE DEF n, b
  <2> QED BY <1>2, <1>3, <1>4, <1>5, <2>1, <2>2
<1>7. b = [left |-> b.left, gross |-> b.gross, used |-> b.used, rest |-> b.rest]
  BY DEF Take
<1> HIDE DEF b
<1>8. [left |-> b.left, gross |-> b.gross, used |-> b.used, rest |-> b.rest]
          \in TakenType
  BY <1>6 DEF TakenType
<1>9. b \in TakenType
  BY <1>7, <1>8, Zenon
<1> QED BY <1>9 DEF b

(* The loop over the lots that fifo_match_sell is.                         *)
LEMMA FifoLoop ==
    ASSUME NEW lots \in Seq(LotType), NEW price \in Nat, NEW qty \in Nat
    PROVE  \E g \in [0 .. Len(lots) -> TakenType] :
              /\ g[0] = Untaken(qty)
              /\ \A i \in 1 .. Len(lots) : g[i] = Take(g[i - 1], lots[i], price)
              /\ FifoMatchSell(lots, price, qty) = g[Len(lots)]
<1> DEFINE n == Len(lots)
           body == [p \in (1 .. n) \X TakenType |-> Take(p[2], lots[p[1]], price)]
           P(g) == g = [i \in 0 .. n |-> IF i = 0 THEN Untaken(qty)
                                         ELSE Take(g[i - 1], lots[i], price)]
           s == CHOOSE g : P(g)
<1>0. n \in Nat /\ \A i \in 1 .. n : lots[i] \in LotType
  BY ElementOfSeq, LenProperties
<1>1. Untaken(qty) \in TakenType
  <2>1. <<>> \in Seq(Nat \X Nat) /\ <<>> \in Seq(LotType)
    BY EmptySeq
  <2> QED BY <2>1 DEF Untaken, TakenType
<1>2. PICK g : Loops(g, TakenType, n, Untaken(qty), body)
  <2>1. Steps(TakenType, n, body)
    BY <1>0, TakeType DEF Steps
  <2> HIDE DEF body, n
  <2> QED BY <1>0, <1>1, <2>1, LoopExists
<1>3. g \in [0 .. n -> TakenType] /\ g[0] = Untaken(qty)
  BY <1>2 DEF Loops
<1>4. \A t \in 1 .. n : g[t] = Take(g[t - 1], lots[t], price)
  <2> TAKE t \in 1 .. n
  <2>1. g[t - 1] \in TakenType
    BY <1>0, <1>3
  <2>2. body[<<t, g[t - 1]>>] = Take(g[t - 1], lots[t], price)
    BY <2>1
  <2> HIDE DEF body, n
  <2> QED BY <1>2, <2>2 DEF Loops
<1>5. P(g)
  <2> HIDE DEF n
  <2> QED BY <1>0, <1>3, <1>4
<1>6. P(s)
  <2> HIDE DEF P
  <2> QED BY <1>5
<1>7. s[0] = Untaken(qty) /\ \A t \in 1 .. n : s[t] = Take(s[t - 1], lots[t], price)
  <2>1. \A t \in 0 .. n : s[t] = IF t = 0 THEN Untaken(qty)
                                ELSE Take(s[t - 1], lots[t], price)
    BY <1>6
  <2> HIDE DEF s, n
  <2> QED BY <1>0, <2>1
<1>8. DOMAIN s = 0 .. n /\ s = [i \in 0 .. n |-> s[i]]
  BY <1>6
<1>9. \A t \in 0 .. n : s[t] \in TakenType
  <2> HIDE DEF s, P, n
  <2> DEFINE Q == {t \in Nat : t <= n => s[t] \in TakenType}
  <2>1. 0 \in Q
    BY <1>1, <1>7
  <2>2. \A k \in 0 .. (n - 1) : k \in Q => k + 1 \in Q
    <3> TAKE k \in 0 .. (n - 1)
    <3>1. k + 1 \in 1 .. n /\ (k + 1) - 1 = k
      BY <1>0
    <3>2. s[k] \in TakenType => s[k + 1] \in TakenType
      BY <1>0, <1>7, <3>1, TakeType
    <3> QED BY <1>0, <3>1, <3>2
  <2>3. Q \in SUBSET Nat
    OBVIOUS
  <2>4. \A k \in 0 .. n : k \in Q
    <3> HIDE DEF Q
    <3> QED BY <1>0, <2>1, <2>2, <2>3, UpTo
  <2> QED BY <1>0, <2>4
<1>10. FifoMatchSell(lots, price, qty) = s[n]
  BY DEF FifoMatchSell, Untaken
<1> HIDE DEF s, P
<1> QED BY <1>7, <1>8, <1>9, <1>10

(* What fifo_match_sell returns has its type.                              *)
LEMMA FifoType ==
    ASSUME NEW lots \in Seq(LotType), NEW price \in Nat, NEW qty \in Nat
    PROVE  FifoMatchSell(lots, price, qty) \in TakenType
<1>1. Len(lots) \in 0 .. Len(lots)
  <2>1. Len(lots) \in Nat
    BY LenProperties
  <2> QED BY <2>1
<1>2. PICK g \in [0 .. Len(lots) -> TakenType] :
          FifoMatchSell(lots, price, qty) = g[Len(lots)]
  BY FifoLoop
<1> QED BY <1>1, <1>2

-----------------------------------------------------------------------------
(* Of some orders one is last: the latest day, a sell if there is one, the *)
(* highest number.                                                         *)
LEMMA LastOfIs ==
    ASSUME NEW ords, OrdersOK(ords), NEW S \in SUBSET DOMAIN ords, S # {}
    PROVE  LastOf(ords, S) \in S /\ \A p \in S \ {LastOf(ords, S)} :
                                       Before(ords, p, LastOf(ords, S))
<1> DEFINE days == {ords[o].at : o \in S}
<1>1. /\ Len(ords) \in Nat /\ DOMAIN ords = 1 .. Len(ords)
      /\ \A o \in DOMAIN ords : ords[o] \in OrderType
  BY LenProperties, ElementOfSeq DEF OrdersOK
<1>2. \A o \in DOMAIN ords : ords[o].at \in 1 .. LastDay /\ ords[o].side \in {"buy", "sell"}
  BY <1>1 DEF OrderType, Days
<1>3. PICK d \in days : \A e \in days : e <= d
  <2>1. days \in SUBSET (1 .. LastDay) /\ days # {} /\ LastDay \in Nat
    BY <1>2, RepairAssumption
  <2> HIDE DEF days
  <2> QED BY <2>1, SomeLast
<1> DEFINE L == {o \in S : ords[o].at = d}
           M == {o \in L : ords[o].side = "sell"}
           T == IF M = {} THEN L ELSE M
<1>4. T # {} /\ T \in SUBSET (1 .. Len(ords)) /\ T \subseteq S
  BY <1>1
<1>5. PICK o \in T : \A p \in T : p <= o
  <2> HIDE DEF T
  <2> QED BY <1>1, <1>4, SomeLast
<1>6. ASSUME NEW p \in S \ {o} PROVE Before(ords, p, o)
  <2>1. ords[p].at \in days /\ ords[p].at <= d /\ ords[o].at = d
    BY <1>3, <1>5
  <2>2. ords[p].at \in Int /\ ords[o].at \in Int /\ p \in Nat /\ o \in Nat
    BY <1>1, <1>2, <1>4, <1>5
  <2>3. CASE ords[p].at # d
    BY <2>1, <2>2, <2>3 DEF Before
  <2>4. CASE ords[p].at = d /\ p \in T
    <3>1. ords[p].side = ords[o].side
      <4>1. CASE M = {}
        BY <1>2, <1>4, <1>5, <2>4, <4>1
      <4>2. CASE M # {}
        BY <1>5, <2>4, <4>2
      <4> QED BY <4>1, <4>2
    <3>2. p < o
      BY <1>5, <2>2, <2>4
    <3> QED BY <2>1, <2>4, <3>1, <3>2 DEF Before
  <2>5. CASE ords[p].at = d /\ p \notin T
    <3>1. p \in L /\ M # {} /\ p \notin M /\ o \in M
      BY <1>5, <2>5
    <3>2. ords[p].side = "buy" /\ ords[o].side = "sell"
      BY <1>2, <3>1
    <3> QED BY <2>1, <2>5, <3>2 DEF Before
  <2> QED BY <2>3, <2>4, <2>5
<1>7. \E x \in S : \A p \in S \ {x} : Before(ords, p, x)
  BY <1>4, <1>5, <1>6
<1> QED BY <1>7 DEF LastOf

(* The lots left after a part of the timeline, one order more at a time.   *)
LotsStep(ords, S, before) ==
    LET o == LastOf(ords, S) IN
    IF ords[o].side = "buy"
    THEN Append(before, [buy |-> o, qty |-> ords[o].exe, px |-> ords[o].px])
    ELSE FifoMatchSell(before, ords[o].px, ords[o].exe).rest

(* One order of the timeline turns lots into lots.                         *)
LEMMA LotsStepType ==
    ASSUME NEW ords, OrdersOK(ords), NEW S \in SUBSET DOMAIN ords, S # {},
           \A o \in S : ords[o].exe > 0,
           NEW before \in Seq(LotType)
    PROVE  LotsStep(ords, S, before) \in Seq(LotType)
<1> DEFINE o == LastOf(ords, S)
<1>1. /\ DOMAIN ords = 1 .. Len(ords) /\ Len(ords) \in Nat
      /\ \A p \in DOMAIN ords : ords[p] \in OrderType
  BY LenProperties, ElementOfSeq DEF OrdersOK
<1>2. o \in S
  BY LastOfIs
<1> HIDE DEF o
<1>3. o \in Nat /\ ords[o].exe \in Nat /\ ords[o].exe # 0 /\ ords[o].px \in Nat
  BY <1>1, <1>2 DEF OrderType
<1>4. Append(before, [buy |-> o, qty |-> ords[o].exe, px |-> ords[o].px]) \in Seq(LotType)
  <2>1. [buy |-> o, qty |-> ords[o].exe, px |-> ords[o].px] \in LotType
    BY <1>3 DEF LotType
  <2> QED BY <2>1, AppendProperties
<1>5. FifoMatchSell(before, ords[o].px, ords[o].exe).rest \in Seq(LotType)
  BY <1>3, FifoType DEF TakenType
<1> QED BY <1>4, <1>5 DEF LotsStep, o

(* What LotsAfter is on every part of the orders it may be asked about.    *)
LEMMA LotsAfterIs ==
    ASSUME NEW ords, OrdersOK(ords), NEW U \in SUBSET DOMAIN ords,
           \A o \in U : ords[o].exe > 0
    PROVE  LET g == LotsAfter(ords, U) IN
           /\ g \in [SUBSET U -> Seq(LotType)]
           /\ g[{}] = <<>>
           /\ \A S \in SUBSET U :
                 S # {} => g[S] = LotsStep(ords, S, g[S \ {LastOf(ords, S)}])
<1> DEFINE X == [SUBSET U -> Seq(LotType)]
           N == Cardinality(U)
           none == [S \in SUBSET U |-> <<>>]
           Pass(h) == [S \in SUBSET U |->
                         IF S = {} THEN <<>>
                         ELSE LotsStep(ords, S, h[S \ {LastOf(ords, S)}])]
           body == [p \in (1 .. N) \X X |-> Pass(p[2])]
           P(g) == g = [S \in SUBSET U |->
                          IF S = {} THEN <<>>
                          ELSE LotsStep(ords, S, g[S \ {LastOf(ords, S)}])]
           g == CHOOSE g : P(g)
<1>1. IsFiniteSet(U) /\ N \in Nat
  <2>1. DOMAIN ords = 1 .. Len(ords) /\ Len(ords) \in Nat
    BY LenProperties DEF OrdersOK
  <2>2. IsFiniteSet(1 .. Len(ords))
    BY <2>1, FS_Interval
  <2> QED BY <2>1, <2>2, FS_Subset, FS_CardinalityType
<1>2. ASSUME NEW S \in SUBSET U, S # {}
      PROVE  /\ LastOf(ords, S) \in S /\ S \ {LastOf(ords, S)} \in SUBSET U
             /\ \A before \in Seq(LotType) : LotsStep(ords, S, before) \in Seq(LotType)
  <2>1. S \in SUBSET DOMAIN ords /\ \A o \in S : ords[o].exe > 0
    OBVIOUS
  <2>2. LastOf(ords, S) \in S
    BY <1>2, <2>1, LastOfIs
  <2> QED BY <1>2, <2>1, <2>2, LotsStepType
<1>3. <<>> \in Seq(LotType)
  BY EmptySeq
<1>4. \A h \in X : Pass(h) \in X
  <2> TAKE h \in X
  <2>1. \A S \in SUBSET U :
           (IF S = {} THEN <<>> ELSE LotsStep(ords, S, h[S \ {LastOf(ords, S)}]))
              \in Seq(LotType)
    <3> TAKE S \in SUBSET U
    <3>1. S # {} => h[S \ {LastOf(ords, S)}] \in Seq(LotType)
      BY <1>2
    <3> QED BY <1>2, <1>3, <3>1
  <2> QED BY <2>1
<1>5. none \in X
  BY <1>3
<1>6. PICK h : Loops(h, X, N, none, body)
  <2> HIDE DEF X, none, Pass, N
  <2>1. Steps(X, N, body)
    BY <1>4 DEF Steps
  <2> HIDE DEF body
  <2> QED BY <1>1, <1>5, <2>1, LoopExists
<1>7. /\ h \in [0 .. N -> X] /\ h[0] = none
      /\ \A t \in 1 .. N : h[t] = Pass(h[t - 1])
  <2>1. h \in [0 .. N -> X] /\ h[0] = none
    <3> HIDE DEF X, none, Pass, N
    <3> QED BY <1>6 DEF Loops
  <2>2. ASSUME NEW t \in 1 .. N PROVE h[t] = Pass(h[t - 1])
    <3> HIDE DEF X, none, Pass, N
    <3>1. h[t - 1] \in X
      BY <1>1, <2>1
    <3>2. body[<<t, h[t - 1]>>] = Pass(h[t - 1])
      BY <3>1
    <3> HIDE DEF body
    <3> QED BY <1>6, <3>2 DEF Loops
  <2> QED BY <2>1, <2>2
<1> DEFINE G == [S \in SUBSET U |-> h[Cardinality(S)][S]]
<1>8. ASSUME NEW S \in SUBSET U
      PROVE  Cardinality(S) \in 0 .. N /\ IsFiniteSet(S)
  BY <1>1, FS_Subset, FS_CardinalityType
<1>9. \A S \in SUBSET U : G[S] = h[Cardinality(S)][S]
  OBVIOUS
<1>10. G[{}] = <<>>
  <2>1. Cardinality({}) = 0 /\ {} \in SUBSET U
    BY FS_EmptySet
  <2>2. none[{}] = <<>>
    BY <2>1
  <2> HIDE DEF none, G
  <2> QED BY <1>7, <1>9, <2>1, <2>2
<1>11. ASSUME NEW S \in SUBSET U, S # {}
       PROVE  G[S] = LotsStep(ords, S, G[S \ {LastOf(ords, S)}])
  <2> DEFINE R == S \ {LastOf(ords, S)}
             c == Cardinality(S)
  <2>1. R \in SUBSET U /\ LastOf(ords, S) \in S
    BY <1>2, <1>11
  <2>2. Cardinality(R) = c - 1
    BY <1>8, <2>1, FS_RemoveElement
  <2>3. Cardinality(R) \in 0 .. N /\ c \in 0 .. N
    BY <1>8, <2>1
  <2>4. c \in 1 .. N
    <3> HIDE DEF R, c, N
    <3> QED BY <1>1, <2>2, <2>3
  <2>5. h[c] = Pass(h[c - 1])
    <3> HIDE DEF R, c, N, Pass
    <3> QED BY <1>7, <2>4
  <2>6. Pass(h[c - 1])[S] = LotsStep(ords, S, h[c - 1][R])
    BY <1>11
  <2>7. G[S] = h[c][S] /\ G[R] = h[c - 1][R]
    <3> HIDE DEF R, N, G
    <3> QED BY <1>9, <2>1, <2>2
  <2> HIDE DEF G, Pass, c
  <2> QED BY <2>5, <2>6, <2>7
<1>12. P(G)
  <2>1. G = [S \in SUBSET U |-> G[S]]
    OBVIOUS
  <2>2. \A S \in SUBSET U :
           G[S] = IF S = {} THEN <<>>
                  ELSE LotsStep(ords, S, G[S \ {LastOf(ords, S)}])
    <3> HIDE DEF G
    <3> QED BY <1>10, <1>11
  <2> HIDE DEF G
  <2> QED BY <2>1, <2>2
<1>13. P(g)
  <2> HIDE DEF P, G
  <2> QED BY <1>12
<1>14. /\ DOMAIN g = SUBSET U /\ g = [S \in SUBSET U |-> g[S]]
       /\ \A S \in SUBSET U : g[S] = IF S = {} THEN <<>>
                  ELSE LotsStep(ords, S, g[S \ {LastOf(ords, S)}])
  <2> HIDE DEF g
  <2> QED BY <1>13
<1>15. \A S \in SUBSET U : g[S] \in Seq(LotType)
  <2> HIDE DEF g, P, N, none, body, X, Pass, G
  <2> DEFINE Q == {t \in Nat : \A S \in SUBSET U :
                                  Cardinality(S) = t => g[S] \in Seq(LotType)}
  <2>1. 0 \in Q
    <3>1. ASSUME NEW S \in SUBSET U, Cardinality(S) = 0 PROVE g[S] \in Seq(LotType)
      <4>1. S = {}
        BY <1>8, <3>1, FS_EmptySet
      <4> QED BY <1>3, <1>14, <4>1
    <3> QED BY <3>1
  <2>2. \A k \in 0 .. (N - 1) : k \in Q => k + 1 \in Q
    <3> TAKE k \in 0 .. (N - 1)
    <3> HAVE k \in Q
    <3>1. ASSUME NEW S \in SUBSET U, Cardinality(S) = k + 1
          PROVE  g[S] \in Seq(LotType)
      <4> DEFINE R == S \ {LastOf(ords, S)}
      <4>1. S # {}
        <5>1. k + 1 # 0
          OBVIOUS
        <5> QED BY <3>1, <5>1, FS_EmptySet
      <4>2. R \in SUBSET U /\ LastOf(ords, S) \in S
        BY <1>2, <4>1
      <4>3. Cardinality(R) = k
        <5>1. Cardinality(R) = Cardinality(S) - 1
          BY <1>8, <4>2, FS_RemoveElement
        <5> HIDE DEF R
        <5> QED BY <3>1, <5>1
      <4>4. g[R] \in Seq(LotType)
        <5> HIDE DEF R
        <5> QED BY <4>2, <4>3
      <4>5. g[S] = LotsStep(ords, S, g[R])
        BY <1>14, <4>1
      <4>6. \A before \in Seq(LotType) : LotsStep(ords, S, before) \in Seq(LotType)
        BY <1>2, <4>1
      <4> HIDE DEF R
      <4> QED BY <4>4, <4>5, <4>6
    <3> QED BY <3>1
  <2>3. Q \in SUBSET Nat
    OBVIOUS
  <2>4. \A k \in 0 .. N : k \in Q
    <3> HIDE DEF Q
    <3> QED BY <1>1, <2>1, <2>2, <2>3, UpTo
  <2> TAKE S \in SUBSET U
  <2>5. Cardinality(S) \in Q
    <3> HIDE DEF Q
    <3> QED BY <1>8, <2>4
  <2> QED BY <2>5
<1>16. g = LotsAfter(ords, U)
  BY DEF LotsAfter, LotsStep
<1> HIDE DEF g
<1>17. /\ g \in [SUBSET U -> Seq(LotType)]
       /\ g[{}] = <<>>
       /\ \A S \in SUBSET U :
             S # {} => g[S] = LotsStep(ords, S, g[S \ {LastOf(ords, S)}])
  BY <1>14, <1>15
<1> QED BY <1>16, <1>17

-----------------------------------------------------------------------------
(* The orders come day by day. *)
ByDay(ords) == \A o, p \in DOMAIN ords : o <= p => ords[o].at <= ords[p].at

(* Shares asked for by the sells, by order. *)
Asked(ords) ==
    [o \in DOMAIN ords |-> IF ords[o].side = "sell" THEN ords[o].qty ELSE 0]
DoneIn(ords, side) ==
    [o \in DOMAIN ords |-> IF ords[o].side = side THEN ords[o].exe ELSE 0]

(* At no point had more been asked to sell than was bought.                *)
SoldFromBought(ords) ==
    \A n \in 0 .. Len(ords) : Sum(Asked(ords), n) <= Sum(DoneIn(ords, "buy"), n)

(* What the repair has read: the first orders, and an execution as it is.  *)
ReadBefore(read, ords) ==
    /\ Len(read) <= Len(ords)
    /\ \A o \in DOMAIN read :
          /\ read[o].side = ords[o].side
          /\ read[o].exe > 0 => read[o] = ords[o]

(* A buy that is to be corrected has been executed.                        *)
DueOK(buys, ords) ==
    \A b \in buys : b \in DOMAIN ords /\ ords[b].side = "buy" /\ Executed(ords[b])

RepairInv ==
    /\ OrdersOK(orders) /\ RecordsOK(records, orders)
    /\ OrdersOK(tool.kis) /\ RecordsOK(tool.rows, tool.kis)
    /\ ByDay(orders) /\ SoldFromBought(orders) /\ ReadBefore(tool.kis, orders)
    /\ others \subseteq DOMAIN orders /\ DueOK(due, orders)

(* What OrdersOK says of one order.                                        *)
LEMMA OrdersAre ==
    ASSUME NEW ords, OrdersOK(ords)
    PROVE  /\ Len(ords) \in Nat /\ DOMAIN ords = 1 .. Len(ords)
           /\ \A o \in 1 .. Len(ords) :
                 /\ ords[o] \in OrderType
                 /\ ords[o].side \in {"buy", "sell"} /\ ords[o].at \in 1 .. LastDay
                 /\ ords[o].qty \in Nat \ {0} /\ ords[o].exe \in 0 .. ords[o].qty
                 /\ ords[o].timed \in BOOLEAN /\ ords[o].px \in Nat
                 /\ ords[o].exe > 0 => ords[o].px \in Nat \ {0}
                 /\ ords[o].exe = 0 => ords[o].px = 0
<1>1. /\ Len(ords) \in Nat /\ DOMAIN ords = 1 .. Len(ords)
      /\ \A o \in 1 .. Len(ords) : ords[o] \in OrderType
  BY LenProperties, ElementOfSeq DEF OrdersOK
<1>2. \A o \in 1 .. Len(ords) :
         /\ ords[o].side \in {"buy", "sell"} /\ ords[o].at \in 1 .. LastDay
         /\ ords[o].qty \in Nat \ {0} /\ ords[o].exe \in Nat
         /\ ords[o].timed \in BOOLEAN /\ ords[o].px \in Nat
  BY <1>1 DEF OrderType, Days
<1>3. Prices("buy") \subseteq Nat \ {0} /\ Prices("sell") \subseteq Nat \ {0}
  BY RepairAssumption DEF Prices
<1>4. \A o \in 1 .. Len(ords) :
         /\ ords[o].exe <= ords[o].qty
         /\ ords[o].exe > 0 => ords[o].px \in Prices(ords[o].side)
         /\ ~(ords[o].exe > 0) => ords[o].px = 0
  BY <1>1 DEF OrdersOK
<1> QED BY <1>1, <1>2, <1>3, <1>4

(* The account holds what its open sells ask for.                          *)
LEMMA HeldIs ==
    ASSUME OrdersOK(orders), SoldFromBought(orders)
    PROVE  /\ Held \in Int /\ Promised \in Int /\ Held >= Promised
           /\ Held - Promised = Sum(DoneIn(orders, "buy"), Len(orders))
                                   - Sum(Asked(orders), Len(orders))
<1> DEFINE n == Len(orders)
           b == Filled("buy")
           s == Filled("sell")
           t == ToSell
           a == Asked(orders)
<1>1. n \in Nat /\ DOMAIN orders = 1 .. n
  BY OrdersAre
<1>2. Ints(b, n) /\ Ints(s, n) /\ Ints(t, n)
  BY OrdersAre DEF Ints, Filled, ToSell
<1>3. \A i \in 1 .. n : a[i] = s[i] + t[i]
  BY OrdersAre DEF Asked, Filled, ToSell
<1>4. b = DoneIn(orders, "buy")
  BY DEF Filled, DoneIn
<1> HIDE DEF b, s, t, a
<1>5. n \in 0 .. n
  BY <1>1
<1>6. \A i \in 0 .. n : Sum(a, i) = Sum(s, i) + Sum(t, i)
  <2> HIDE DEF n
  <2>1. n \in Nat
    BY <1>1
  <2>2. Ints(s, n) /\ Ints(t, n)
    BY <1>2
  <2> QED BY <2>1, <2>2, <1>3, SumPlus, SMTT(30)
<1>7. Sum(a, n) = Sum(s, n) + Sum(t, n)
  BY <1>5, <1>6
<1>8. Sum(s, n) \in Int /\ Sum(t, n) \in Int /\ Sum(b, n) \in Int
  <2> HIDE DEF n
  <2> QED BY <1>1, <1>2, <1>5, SumIs
<1>9. Sum(a, n) <= Sum(b, n)
  BY <1>4, <1>5 DEF SoldFromBought, a
<1>10. Held = Sum(b, n) - Sum(s, n) /\ Promised = Sum(t, n)
  BY DEF Held, Promised, b, s, t
<1> HIDE DEF n
<1>11. Held \in Int /\ Promised \in Int /\ Held >= Promised
       /\ Held - Promised = Sum(b, n) - Sum(a, n)
  BY <1>7, <1>8, <1>9, <1>10
<1> QED BY <1>4, <1>11 DEF n, a

(* The invariant is at least the type invariant that the run checks.       *)
LEMMA RepairInvType ==
    ASSUME RepairInv
    PROVE  RepairTypeOK
<1>1. Held >= Promised
  BY HeldIs DEF RepairInv
<1> QED BY <1>1 DEF RepairInv, RepairTypeOK, DueOK

(* It holds before the first order.                                        *)
LEMMA RepairInitInv ==
    ASSUME RepairInit
    PROVE  RepairInv
<1>1. OrdersOK(<<>>)
  <2>1. <<>> \in Seq(OrderType) /\ DOMAIN <<>> = {}
    BY EmptySeq
  <2> QED BY <2>1 DEF OrdersOK
<1>2. RecordsOK(<<>>, <<>>)
  <2>1. DOMAIN <<>> = {}
    OBVIOUS
  <2>2. <<>> \in [DOMAIN <<>> -> RecordType]
    <3>1. <<>> = [x \in {} |-> <<>>[x]]
      OBVIOUS
    <3> QED BY <3>1, <2>1
  <2> QED BY <2>1, <2>2 DEF RecordsOK
<1>3. ByDay(<<>>) /\ ReadBefore(<<>>, <<>>)
  BY DEF ByDay, ReadBefore
<1>4. SoldFromBought(<<>>)
  <2>1. Ints(Asked(<<>>), 0) /\ Ints(DoneIn(<<>>, "buy"), 0)
    BY DEF Ints
  <2>2. Sum(Asked(<<>>), 0) = 0 /\ Sum(DoneIn(<<>>, "buy"), 0) = 0
    BY <2>1, SumIs
  <2>3. 0 .. Len(<<>>) = {0}
    OBVIOUS
  <2> QED BY <2>2, <2>3 DEF SoldFromBought
<1>5. orders = <<>> /\ records = <<>> /\ tool.kis = <<>> /\ tool.rows = <<>> /\ others = {}
  BY DEF RepairInit, NoTool
<1>6. DueOK(due, orders)
  BY DEF RepairInit, DueOK
<1> QED BY <1>1, <1>2, <1>3, <1>4, <1>5, <1>6 DEF RepairInv

(* The first and the last of some orders by time are among them.           *)
LEMMA ExtremesIn ==
    ASSUME OrdersOK(orders), ByDay(orders), NEW S \in SUBSET DOMAIN orders, S # {}
    PROVE  Earliest(S) \in S /\ Latest(S) \in S
<1>1. /\ Len(orders) \in Nat /\ DOMAIN orders = 1 .. Len(orders)
      /\ \A o \in DOMAIN orders : orders[o].at \in Int
  BY OrdersAre
<1>2. PICK f \in S : \A k \in S : f <= k
  <2>1. S \in SUBSET Nat
    BY <1>1
  <2> QED BY <2>1, SomeFirst
<1>3. PICK l \in S : \A k \in S : k <= l
  BY <1>1, SomeLast
<1>4. \A c \in S : After(c, f)
  BY <1>1, <1>2 DEF After, ByDay
<1>5. \A c \in S : After(l, c)
  BY <1>1, <1>3 DEF After, ByDay
<1>6. Earliest(S) \in S
  BY <1>2, <1>4 DEF Earliest
<1>7. Latest(S) \in S
  BY <1>3, <1>5 DEF Latest
<1> QED BY <1>6, <1>7

(* A row stays in order when its order is executed: the row does not       *)
(* change, and has not yet a price of the execution.                       *)
LEMMA RecordsStay ==
    ASSUME NEW table, NEW ords, NEW newer, RecordsOK(table, ords),
           DOMAIN ords \subseteq DOMAIN newer,
           \A o \in DOMAIN ords :
              /\ newer[o].side = ords[o].side
              /\ \/ newer[o] = ords[o]
                 \/ ords[o].exe = 0 /\ ords[o].px = 0 /\ newer[o].exe \in Nat
    PROVE  RecordsOK(table, newer)
<1>1. /\ DOMAIN table \subseteq DOMAIN ords /\ table \in [DOMAIN table -> RecordType]
      /\ \A o \in DOMAIN table :
          /\ table[o].price \in Quotes \cup {ords[o].px}
          /\ table[o].exe <= ords[o].exe
          /\ ords[o].side = "buy" => table[o].pnl = 0
          /\ table[o].note.px \in {0, ords[o].px}
          /\ table[o].note.px > 0 => table[o].aware /\ table[o].status = "executed"
  BY DEF RecordsOK
<1>2. ASSUME NEW o \in DOMAIN table
      PROVE  /\ table[o].price \in Quotes \cup {newer[o].px}
             /\ table[o].exe <= newer[o].exe
             /\ newer[o].side = "buy" => table[o].pnl = 0
             /\ table[o].note.px \in {0, newer[o].px}
  <2>1. table[o].price \in Nat \ {0} /\ table[o].exe \in Nat
    BY <1>1 DEF RecordType
  <2>2. CASE newer[o] = ords[o]
    BY <1>1, <2>2
  <2>3. CASE ords[o].exe = 0 /\ ords[o].px = 0 /\ newer[o].exe \in Nat
    BY <1>1, <2>1, <2>3
  <2> QED BY <1>1, <2>2, <2>3
<1> QED BY <1>1, <1>2 DEF RecordsOK

(* One order more leaves what was asked for and what was done as it was.   *)
LEMMA OneMore ==
    ASSUME NEW ords, OrdersOK(ords), NEW k \in OrderType,
           k.exe = 0, k.px = 0, k.qty \in Shares(k.side),
           \A o \in DOMAIN ords : ords[o].at <= k.at,
           ByDay(ords), SoldFromBought(ords),
           k.side = "sell" =>
              Sum(DoneIn(ords, "buy"), Len(ords)) - Sum(Asked(ords), Len(ords)) >= k.qty
    PROVE  /\ OrdersOK(Append(ords, k))
           /\ ByDay(Append(ords, k)) /\ SoldFromBought(Append(ords, k))
           /\ DOMAIN ords \subseteq DOMAIN Append(ords, k)
           /\ \A o \in DOMAIN ords : Append(ords, k)[o] = ords[o]
           /\ Len(Append(ords, k)) = Len(ords) + 1
           /\ Append(ords, k)[Len(ords) + 1] = k
<1> DEFINE n == Len(ords)
           next == Append(ords, k)
           a == Asked(ords)
           b == DoneIn(ords, "buy")
           a1 == Asked(next)
           b1 == DoneIn(next, "buy")
<1>1. n \in Nat /\ DOMAIN ords = 1 .. n
  BY OrdersAre
<1>2. /\ next \in Seq(OrderType) /\ Len(next) = n + 1
      /\ \A i \in 1 .. n : next[i] = ords[i]
      /\ next[n + 1] = k
  BY AppendProperties DEF OrdersOK
<1>3. DOMAIN next = 1 .. n + 1
  BY <1>1, <1>2, LenProperties
<1> HIDE DEF next
<1>4. OrdersOK(next)
  <2>1. ASSUME NEW o \in 1 .. n + 1
        PROVE  /\ next[o].exe <= next[o].qty /\ next[o].qty \in Shares(next[o].side)
               /\ IF next[o].exe > 0 THEN next[o].px \in Prices(next[o].side)
                                     ELSE next[o].px = 0
    <3>1. CASE o = n + 1
      BY <1>2, <3>1 DEF OrderType
    <3>2. CASE o \in 1 .. n
      BY <1>1, <1>2, <3>2 DEF OrdersOK
    <3> QED BY <1>1, <3>1, <3>2
  <2> QED BY <1>2, <1>3, <2>1 DEF OrdersOK
<1>5. ByDay(next)
  <2>1. ASSUME NEW o \in 1 .. n + 1, NEW p \in 1 .. n + 1, o <= p
        PROVE  next[o].at <= next[p].at
    <3>1. k.at \in Nat
      BY DEF OrderType, Days
    <3>2. CASE p = n + 1 /\ o = n + 1
      BY <1>2, <3>1, <3>2
    <3>3. CASE p = n + 1 /\ o \in 1 .. n
      BY <1>1, <1>2, <3>3
    <3>4. CASE o \in 1 .. n /\ p \in 1 .. n
      BY <1>1, <1>2, <2>1, <3>4 DEF ByDay
    <3> QED BY <1>1, <2>1, <3>2, <3>3, <3>4
  <2> QED BY <1>3, <2>1 DEF ByDay
<1>6. Ints(a, n) /\ Ints(b, n)
  BY OrdersAre DEF Ints, Asked, DoneIn
<1>7. /\ \A i \in 1 .. n : a1[i] = a[i] /\ b1[i] = b[i]
      /\ a1[n + 1] = IF k.side = "sell" THEN k.qty ELSE 0
      /\ b1[n + 1] = 0
  BY <1>1, <1>2, <1>3 DEF Asked, DoneIn
<1>8. k.qty \in Nat
  BY DEF OrderType
<1> HIDE DEF a, b, a1, b1, n
<1>9. /\ \A i \in 0 .. n : Sum(a1, i) = Sum(a, i) /\ Sum(b1, i) = Sum(b, i)
      /\ Sum(a, n) \in Int /\ Sum(b, n) \in Int
  <2>1. n \in 0 .. n
    BY <1>1
  <2>2. Sum(a, n) \in Int /\ Sum(b, n) \in Int
    BY <1>1, <1>6, <2>1, SumIs
  <2>3. \A i \in 0 .. n : Sum(a1, i) = Sum(a, i)
    BY <1>1, <1>6, <1>7, SumSame
  <2>4. \A i \in 0 .. n : Sum(b1, i) = Sum(b, i)
    BY <1>1, <1>6, <1>7, SumSame
  <2> QED BY <2>2, <2>3, <2>4
<1>10. /\ Sum(a1, n + 1) = Sum(a, n) + a1[n + 1]
       /\ Sum(b1, n + 1) = Sum(b, n)
  <2>1. Ints(a1, n + 1) /\ Ints(b1, n + 1)
    <3>1. ASSUME NEW i \in 1 .. n + 1 PROVE a1[i] \in Int /\ b1[i] \in Int
      <4>1. i \in 1 .. n \/ i = n + 1
        BY <1>1
      <4> QED BY <1>6, <1>7, <1>8, <4>1 DEF Ints
    <3> QED BY <3>1 DEF Ints
  <2>2. n + 1 \in Nat /\ n + 1 \in 1 .. n + 1 /\ (n + 1) - 1 = n /\ n \in 0 .. n
    BY <1>1
  <2>3. Sum(a1, n + 1) = Sum(a1, n) + a1[n + 1] /\ Sum(b1, n + 1) = Sum(b1, n) + b1[n + 1]
    BY <2>1, <2>2, SumIs
  <2> QED BY <1>7, <1>9, <2>2, <2>3
<1>11. /\ \A i \in 0 .. n : Sum(a, i) <= Sum(b, i)
       /\ k.side = "sell" => Sum(b, n) - Sum(a, n) >= k.qty
  BY DEF SoldFromBought, a, b, n
<1>12. \A i \in 0 .. n + 1 : Sum(a1, i) <= Sum(b1, i)
  <2> TAKE i \in 0 .. n + 1
  <2>1. CASE i \in 0 .. n
    BY <1>9, <1>11, <2>1
  <2>2. CASE i = n + 1
    <3>1. n \in 0 .. n
      BY <1>1
    <3> QED BY <1>7, <1>8, <1>9, <1>10, <1>11, <2>2, <3>1
  <2> QED BY <1>1, <2>1, <2>2
<1>13. SoldFromBought(next)
  BY <1>2, <1>12 DEF SoldFromBought, a1, b1, n
<1> QED BY <1>1, <1>2, <1>3, <1>4, <1>5, <1>13 DEF next, n

(* What RecordsOK says of one row. *)
RowOK(r, k) ==
    /\ r \in RecordType
    /\ r.price \in Quotes \cup {k.px}
    /\ r.exe <= k.exe
    /\ k.side = "buy" => r.pnl = 0
    /\ r.note.px \in {0, k.px}
    /\ r.note.px > 0 => r.aware /\ r.status = "executed"

(* A table in order has its rows in order.                                 *)
LEMMA RecordsAre ==
    ASSUME NEW table, NEW ords, RecordsOK(table, ords)
    PROVE  /\ DOMAIN table \subseteq DOMAIN ords
           /\ \A o \in DOMAIN table : RowOK(table[o], ords[o])
BY DEF RecordsOK, RowOK

(* Rows in order make a table in order.                                    *)
LEMMA RecordsMade ==
    ASSUME NEW table, NEW ords, NEW D, D \subseteq DOMAIN ords,
           DOMAIN table = D, table = [o \in D |-> table[o]],
           \A o \in D : RowOK(table[o], ords[o])
    PROVE  RecordsOK(table, ords)
<1>1. table \in [D -> RecordType]
  BY DEF RowOK
<1> QED BY <1>1 DEF RecordsOK, RowOK

(* A row without a note has no price of an execution.                      *)
LEMMA NoNoteType == NoNote \in NoteType /\ NoNote.px = 0
<1>1. <<>> \in Seq(Nat \X Nat)
  BY EmptySeq
<1> QED BY <1>1 DEF NoNote, NoteType

(* A product of differences of prices is a number.                         *)
LEMMA Profit ==
    ASSUME NEW p \in Nat, NEW q \in Nat, NEW n \in Nat
    PROVE  (p - q) * n \in Int
OBVIOUS

(* An order more, recorded or not (the trader and the risk manager).       *)
LEMMA TradeInv ==
    ASSUME RepairInv, NEW side \in {"buy", "sell"}, NEW at \in Days,
           NEW timed \in BOOLEAN, NEW price \in Quotes, NEW qty \in Shares(side),
           Trade(side, qty, at, timed, price)
    PROVE  RepairInv'
<1> DEFINE k == [side |-> side, qty |-> qty, at |-> at, timed |-> timed,
                 exe |-> 0, px |-> 0]
           n == Len(orders)
<1>1. OrdersOK(orders) /\ ByDay(orders) /\ SoldFromBought(orders)
      /\ RecordsOK(records, orders) /\ ReadBefore(tool.kis, orders)
  BY DEF RepairInv
<1>2. n \in Nat /\ DOMAIN orders = 1 .. n
  BY <1>1, OrdersAre
<1>3. k \in OrderType /\ qty \in Nat /\ price \in Nat \ {0}
  <2>1. qty \in Nat \ {0} /\ price \in Nat \ {0}
    BY RepairAssumption DEF Shares
  <2> QED BY <2>1 DEF OrderType
<1>4. /\ orders' = Append(orders, k) /\ tool' = tool
      /\ \A p \in DOMAIN orders : orders[p].at <= at
      /\ side = "sell" => Held - Promised >= qty
  BY DEF Trade
<1>5. /\ OrdersOK(orders') /\ ByDay(orders') /\ SoldFromBought(orders')
      /\ DOMAIN orders \subseteq DOMAIN orders'
      /\ \A o \in DOMAIN orders : orders'[o] = orders[o]
      /\ Len(orders') = n + 1 /\ orders'[n + 1] = k
  <2>1. side = "sell" =>
           Sum(DoneIn(orders, "buy"), Len(orders)) - Sum(Asked(orders), Len(orders)) >= qty
    BY <1>1, <1>4, HeldIs
  <2>2. k.side = side /\ k.qty = qty /\ k.exe = 0 /\ k.px = 0 /\ k.at = at
    OBVIOUS
  <2> HIDE DEF k
  <2> QED BY <1>1, <1>3, <1>4, <2>1, <2>2, OneMore
<1>6. ReadBefore(tool'.kis, orders')
  <2>1. \A o \in DOMAIN tool.kis : o \in DOMAIN orders
    <3>1. DOMAIN tool.kis = 1 .. Len(tool.kis) /\ Len(tool.kis) \in Nat
      BY OrdersAre DEF RepairInv
    <3> QED BY <1>1, <1>2, <3>1 DEF ReadBefore
  <2>2. Len(tool.kis) \in Nat
    BY OrdersAre DEF RepairInv
  <2> QED BY <1>1, <1>2, <1>4, <1>5, <2>1, <2>2 DEF ReadBefore
<1>7. RecordsOK(records, orders')
  BY <1>1, <1>5, RecordsStay
<1>8. n + 1 \in DOMAIN orders' /\ n + 1 \notin DOMAIN records
  <2>1. DOMAIN orders' = 1 .. n + 1
    BY <1>5, OrdersAre
  <2> QED BY <1>1, <1>2, <2>1 DEF RecordsOK
<1>9. RecordsOK(records', orders') /\ others' \subseteq DOMAIN orders'
  <2>1. others \subseteq DOMAIN orders'
    BY <1>5 DEF RepairInv
  <2>2. CASE UNCHANGED <<records, others>>
    BY <1>7, <2>1, <2>2
  <2> DEFINE pnl == IF side = "sell" THEN RecordedPnl(price, qty) ELSE 0
             r == NewRecord(price, pnl)
  <2>3. CASE PutRecord(n + 1, r)
    <3>1. RecordedPnl(price, qty) \in Int
      <4>1. CASE BuyRows = {}
        BY <4>1 DEF RecordedPnl
      <4>2. CASE BuyRows # {}
        <5>1. BuyRows \in SUBSET DOMAIN orders
          BY <1>1 DEF BuyRows, RecordsOK
        <5>2. Earliest(BuyRows) \in DOMAIN records
          BY <1>1, <4>2, <5>1, ExtremesIn DEF BuyRows
        <5>3. records[Earliest(BuyRows)].price \in Nat
          BY <1>1, <5>2, RecordsAre DEF RowOK, RecordType
        <5> QED BY <1>3, <4>2, <5>3, Profit DEF RecordedPnl
      <4> QED BY <4>1, <4>2
    <3>2. pnl \in Int /\ (side = "buy" => pnl = 0)
      BY <3>1
    <3> HIDE DEF pnl
    <3>3. /\ r.price = price /\ r.exe = 0 /\ r.pnl = pnl /\ r.note = NoNote
          /\ r \in RecordType
      BY <1>3, <3>2, NoNoteType DEF NewRecord, RecordType
    <3> HIDE DEF r
    <3>4. RowOK(r, k)
      BY <3>2, <3>3, NoNoteType DEF RowOK
    <3>5. records' = [p \in DOMAIN records \cup {n + 1} |->
                          IF p = n + 1 THEN r ELSE records[p]]
      BY <2>3 DEF PutRecord
    <3>6. /\ DOMAIN records' = DOMAIN records \cup {n + 1}
          /\ records' = [p \in DOMAIN records \cup {n + 1} |-> records'[p]]
          /\ records'[n + 1] = r
          /\ \A p \in DOMAIN records : records'[p] = records[p]
      BY <1>8, <3>5
    <3>7. \A p \in DOMAIN records \cup {n + 1} : RowOK(records'[p], orders'[p])
      BY <1>5, <1>7, <3>4, <3>6, RecordsAre
    <3>8. DOMAIN records \cup {n + 1} \subseteq DOMAIN orders'
      BY <1>7, <1>8 DEF RecordsOK
    <3>9. RecordsOK(records', orders')
      <4> DEFINE D == DOMAIN records \cup {n + 1}
      <4>1. /\ D \subseteq DOMAIN orders' /\ DOMAIN records' = D
            /\ records' = [p \in D |-> records'[p]]
            /\ \A p \in D : RowOK(records'[p], orders'[p])
        BY <3>6, <3>7, <3>8
      <4> HIDE DEF D
      <4> QED BY <4>1, RecordsMade
    <3>10. others' \subseteq others \cup {n + 1}
      <4>1. \/ others' = others
            \/ others' = others \cup {n + 1}
        BY <1>4, <2>3 DEF Trade, PutRecord
      <4> QED BY <4>1
    <3> QED BY <1>8, <2>1, <3>9, <3>10
  <2>4. UNCHANGED <<records, others>> \/ PutRecord(n + 1, r)
    BY DEF Trade
  <2> HIDE DEF r
  <2> QED BY <2>2, <2>3, <2>4
<1>10. DueOK(due', orders')
  <2>1. due' = due /\ DueOK(due, orders)
    BY DEF Trade, RepairInv
  <2>2. ASSUME NEW b \in due
        PROVE  b \in DOMAIN orders' /\ orders'[b].side = "buy" /\ Executed(orders'[b])
    <3>1. b \in DOMAIN orders /\ orders[b].side = "buy" /\ Executed(orders[b])
      BY <2>1 DEF DueOK
    <3>2. b \in DOMAIN orders' /\ orders'[b] = orders[b]
      BY <1>5, <3>1
    <3> QED BY <3>1, <3>2
  <2> QED BY <2>1, <2>2 DEF DueOK
<1> QED BY <1>4, <1>5, <1>6, <1>9, <1>10 DEF RepairInv

(* An execution: only now the order has a price, and more was bought.      *)
LEMMA ExecuteInv ==
    ASSUME RepairInv, NEW o \in DOMAIN orders, NEW qty \in 1 .. orders[o].qty,
           NEW price \in Prices(orders[o].side), Execute(o, qty, price)
    PROVE  RepairInv'
<1> DEFINE n == Len(orders)
           k == [orders[o] EXCEPT !.exe = qty, !.px = price]
<1>1. OrdersOK(orders) /\ ByDay(orders) /\ SoldFromBought(orders)
      /\ RecordsOK(records, orders) /\ ReadBefore(tool.kis, orders)
      /\ RecordsOK(tool.rows, tool.kis) /\ OrdersOK(tool.kis)
      /\ others \subseteq DOMAIN orders
  BY DEF RepairInv
<1>2. n \in Nat /\ DOMAIN orders = 1 .. n /\ orders \in Seq(OrderType)
      /\ orders[o] \in OrderType /\ orders[o].qty \in Nat
  BY <1>1, OrdersAre DEF OrdersOK
<1>3. /\ orders[o].exe = 0 /\ orders[o].px = 0
      /\ orders' = [orders EXCEPT ![o].exe = qty, ![o].px = price]
      /\ UNCHANGED <<records, due, tool, others>>
  BY <1>1, <1>2, OrdersAre DEF Execute
<1>4. price \in Nat \ {0}
  BY <1>2, RepairAssumption DEF Prices, OrderType
<1>5. /\ k \in OrderType /\ k.exe = qty /\ k.px = price /\ k.side = orders[o].side
      /\ k.qty = orders[o].qty /\ k.at = orders[o].at
  <2>1. qty \in Nat
    BY <1>2
  <2>2. orders[o] \in [side : {"buy", "sell"}, qty : Nat \ {0}, at : Days,
                       timed : BOOLEAN, exe : Nat, px : Nat]
    BY <1>2 DEF OrderType
  <2> QED BY <1>4, <2>1, <2>2 DEF OrderType
<1>6. orders' = [orders EXCEPT ![o] = k]
  BY <1>3
<1> HIDE DEF k
<1>7. /\ orders' \in Seq(OrderType) /\ Len(orders') = n /\ DOMAIN orders' = 1 .. n
      /\ orders'[o] = k
      /\ \A p \in 1 .. n : p # o => orders'[p] = orders[p]
  <2>1. orders' \in Seq(OrderType) /\ Len(orders') = Len(orders)
    BY <1>2, <1>5, <1>6, ExceptSeq
  <2> QED BY <1>2, <1>6, <2>1, LenProperties
<1>8. OrdersOK(orders')
  <2>1. ASSUME NEW p \in 1 .. n
        PROVE  /\ orders'[p].exe <= orders'[p].qty
               /\ orders'[p].qty \in Shares(orders'[p].side)
               /\ IF orders'[p].exe > 0 THEN orders'[p].px \in Prices(orders'[p].side)
                                        ELSE orders'[p].px = 0
    <3>1. CASE p = o
      BY <1>1, <1>2, <1>5, <1>7, <3>1 DEF OrdersOK
    <3>2. CASE p # o
      BY <1>1, <1>2, <1>7, <3>2 DEF OrdersOK
    <3> QED BY <3>1, <3>2
  <2> QED BY <1>7, <2>1 DEF OrdersOK
<1>9. \A p \in 1 .. n : /\ orders'[p].at = orders[p].at /\ orders'[p].side = orders[p].side
                        /\ orders'[p].qty = orders[p].qty
  BY <1>5, <1>7
<1>10. ByDay(orders')
  BY <1>1, <1>2, <1>7, <1>9 DEF ByDay
<1>11. SoldFromBought(orders')
  <2> DEFINE a == Asked(orders)
             b == DoneIn(orders, "buy")
             a1 == Asked(orders')
             b1 == DoneIn(orders', "buy")
  <2>1. Ints(a, n) /\ Ints(b, n) /\ Ints(b1, n)
    BY <1>1, <1>7, <1>8, OrdersAre DEF Ints, Asked, DoneIn
  <2>2. \A i \in 1 .. n : a1[i] = a[i]
    BY <1>2, <1>7, <1>9 DEF Asked
  <2>3. \A i \in 1 .. n : b[i] <= b1[i]
    <3> TAKE i \in 1 .. n
    <3>1. CASE i = o
      BY <1>2, <1>3, <1>5, <1>7, <3>1 DEF DoneIn
    <3>2. CASE i # o
      <4>1. orders[i].exe \in Int
        BY <1>1, <1>2, OrdersAre
      <4>2. orders'[i] = orders[i]
        BY <1>7, <3>2
      <4> QED BY <1>2, <1>7, <4>1, <4>2 DEF DoneIn
    <3> QED BY <3>1, <3>2
  <2>4. \A i \in 0 .. n : Sum(a, i) <= Sum(b, i)
    BY <1>1 DEF SoldFromBought
  <2> HIDE DEF a, b, a1, b1, n
  <2>5. \A i \in 0 .. n : Sum(a1, i) = Sum(a, i)
    BY <1>2, <2>1, <2>2, SumSame
  <2>6. \A i \in 0 .. n : Sum(b, i) <= Sum(b1, i)
    BY <1>2, <2>1, <2>3, SumGrows
  <2>7. \A i \in 0 .. n : Sum(a, i) \in Int /\ Sum(b, i) \in Int /\ Sum(b1, i) \in Int
    BY <1>2, <2>1, SumIs
  <2>8. \A i \in 0 .. n : Sum(a1, i) <= Sum(b1, i)
    BY <2>4, <2>5, <2>6, <2>7
  <2> QED BY <1>7, <2>8 DEF SoldFromBought, a1, b1, n
<1>12. ReadBefore(tool.kis, orders')
  <2>1. DOMAIN tool.kis = 1 .. Len(tool.kis) /\ Len(tool.kis) \in Nat
        /\ \A p \in DOMAIN tool.kis : tool.kis[p].exe \in Nat
    BY <1>1, OrdersAre
  <2>2. Len(tool.kis) <= n
    BY <1>1 DEF ReadBefore
  <2>3. ASSUME NEW p \in DOMAIN tool.kis
        PROVE  /\ tool.kis[p].side = orders'[p].side
               /\ tool.kis[p].exe > 0 => tool.kis[p] = orders'[p]
    <3>1. p \in 1 .. n
      BY <1>2, <2>1, <2>2
    <3>2. /\ tool.kis[p].side = orders[p].side
          /\ tool.kis[p].exe > 0 => tool.kis[p] = orders[p]
      BY <1>1 DEF ReadBefore
    <3>3. CASE p = o
      <4>1. tool.kis[p].exe > 0 => tool.kis[p].exe = 0
        BY <1>3, <3>2, <3>3
      <4>2. ~(tool.kis[p].exe > 0)
        BY <2>1, <4>1
      <4> QED BY <1>9, <3>1, <3>2, <4>2
    <3>4. CASE p # o
      BY <1>7, <1>9, <3>1, <3>2, <3>4
    <3> QED BY <3>3, <3>4
  <2> QED BY <1>7, <2>2, <2>3 DEF ReadBefore
<1>13. RecordsOK(records, orders')
  <2>1. /\ DOMAIN orders \subseteq DOMAIN orders'
        /\ \A p \in DOMAIN orders :
              /\ orders'[p].side = orders[p].side
              /\ \/ orders'[p] = orders[p]
                 \/ orders[p].exe = 0 /\ orders[p].px = 0 /\ orders'[p].exe \in Nat
    BY <1>2, <1>3, <1>5, <1>7, <1>9
  <2> QED BY <1>1, <2>1, RecordsStay
<1>14. DueOK(due', orders')
  <2>1. ASSUME NEW b \in due
        PROVE  b \in DOMAIN orders' /\ orders'[b].side = "buy" /\ Executed(orders'[b])
    <3>1. b \in 1 .. n /\ orders[b].side = "buy" /\ orders[b].exe = orders[b].qty
      BY <1>2 DEF RepairInv, DueOK, Executed
    <3>2. orders[o].exe # orders[o].qty
      BY <1>2, <1>3 DEF OrderType
    <3>3. b # o
      BY <3>1, <3>2
    <3> QED BY <1>7, <3>1, <3>3 DEF Executed
  <2> QED BY <1>3, <2>1 DEF DueOK
<1> QED
  BY <1>1, <1>2, <1>3, <1>7, <1>8, <1>10, <1>11, <1>12, <1>13, <1>14 DEF RepairInv

(* The reconciler: a row follows KIS.                                      *)
LEMMA SettleInv ==
    ASSUME RepairInv, NEW o \in DOMAIN orders, Settle(o)
    PROVE  RepairInv'
<1> DEFINE k == orders[o]
           p == IF k.side = "sell" /\ Executed(k) /\ Comparable(o)
                THEN Recomputed(o, k.exe) ELSE records[o].pnl
           r == [records[o] EXCEPT !.status = KisStatus(k), !.exe = k.exe, !.pnl = p]
<1>1. OrdersOK(orders) /\ ByDay(orders) /\ RecordsOK(records, orders)
  BY DEF RepairInv
<1>2. /\ o \in DOMAIN records /\ records[o].status # "executed"
      /\ UNCHANGED <<orders, due, tool, others>>
      /\ records' = [records EXCEPT ![o] = r]
  BY DEF Settle
<1>3. RowOK(records[o], k) /\ k.exe \in Nat /\ k.side \in {"buy", "sell"}
  BY <1>1, <1>2, RecordsAre, OrdersAre
<1>4. Recomputed(o, k.exe) \in Int
  <2>1. CASE BuysUpTo(o) = {}
    BY <2>1 DEF Recomputed
  <2>2. CASE BuysUpTo(o) # {}
    <3>1. BuysUpTo(o) \in SUBSET DOMAIN orders /\ BuysUpTo(o) \subseteq DOMAIN records
      BY <1>1 DEF BuysUpTo, BuyRows, RecordsOK
    <3>2. Latest(BuysUpTo(o)) \in DOMAIN records
      BY <1>1, <2>2, <3>1, ExtremesIn
    <3>3. records[Latest(BuysUpTo(o))].price \in Nat /\ records[o].price \in Nat
      BY <1>1, <1>2, <3>2, RecordsAre DEF RowOK, RecordType
    <3> QED BY <1>3, <2>2, <3>3, Profit DEF Recomputed
  <2> QED BY <2>1, <2>2
<1>5. p \in Int /\ (k.side = "buy" => p = 0)
  BY <1>3, <1>4 DEF RowOK, RecordType
<1>6. KisStatus(k) \in {"pending", "partial", "executed"}
  BY DEF KisStatus
<1> HIDE DEF p
<1>7. RowOK(r, k)
  <2>1. /\ r \in RecordType /\ r.price = records[o].price /\ r.note = records[o].note
        /\ r.exe = k.exe /\ r.pnl = p
    BY <1>3, <1>5, <1>6 DEF RowOK, RecordType
  <2>2. records[o].note.px = 0
    <3>1. records[o].note.px \in Nat
      BY <1>3 DEF RowOK, RecordType, NoteType
    <3> QED BY <1>2, <1>3, <3>1 DEF RowOK
  <2> HIDE DEF r
  <2> QED BY <1>3, <1>5, <2>1, <2>2 DEF RowOK
<1>8. RecordsOK(records', orders)
  <2>1. records \in [DOMAIN records -> RecordType] /\ DOMAIN records \subseteq DOMAIN orders
    BY <1>1 DEF RecordsOK
  <2> HIDE DEF r
  <2>2. /\ DOMAIN records' = DOMAIN records
        /\ records' = [q \in DOMAIN records |-> records'[q]]
        /\ \A q \in DOMAIN records : records'[q] = IF q = o THEN r ELSE records[q]
    BY <1>2, <2>1
  <2>3. \A q \in DOMAIN records : RowOK(records'[q], orders[q])
    BY <1>1, <1>7, <2>2, RecordsAre
  <2> QED BY <2>1, <2>2, <2>3, RecordsMade
<1> QED BY <1>2, <1>8 DEF RepairInv

(* The reconciler: a row for an order without one, whose buy is executed.  *)
LEMMA BackfillInv ==
    ASSUME RepairInv, NEW o \in DOMAIN orders, BackfillRecord(o)
    PROVE  RepairInv'
<1> DEFINE k == orders[o]
           sell == k.side = "sell" /\ MatchingBuys(o) # {}
           b == Latest(MatchingBuys(o))
           gross == IF sell THEN (k.px - orders[b].px) * k.qty ELSE 0
           note == [NoNote EXCEPT !.px = k.px, !.gross = gross, !.complete = sell]
           new == [price |-> k.px, pnl |-> gross, exe |-> k.exe, status |-> "executed",
                   aware |-> TRUE, note |-> note]
           D == DOMAIN records \cup {o}
<1>1. OrdersOK(orders) /\ ByDay(orders) /\ RecordsOK(records, orders)
  BY DEF RepairInv
<1>2. /\ o \notin DOMAIN records /\ k.exe = k.qty
      /\ UNCHANGED <<orders, tool, others>> /\ due' = IF sell THEN {b} ELSE {}
      /\ records' = [p \in D |-> IF p = o THEN new ELSE records[p]]
  BY DEF BackfillRecord, PutRecord, Executed
<1>3. /\ k.exe \in Nat \ {0} /\ k.px \in Nat \ {0} /\ k.qty \in Nat
      /\ k.side \in {"buy", "sell"}
  <2>1. /\ k.qty \in Nat \ {0} /\ k.side \in {"buy", "sell"}
        /\ k.exe > 0 => k.px \in Nat \ {0}
    BY <1>1, OrdersAre
  <2>2. k.exe = k.qty
    BY <1>2
  <2> HIDE DEF k
  <2>3. k.exe \in Nat \ {0} /\ k.exe > 0
    BY <2>1, <2>2
  <2> QED BY <2>1, <2>2, <2>3
<1>4. ASSUME sell
      PROVE  /\ b \in DOMAIN orders /\ orders[b].side = "buy"
             /\ orders[b].exe = orders[b].qty /\ orders[b].px \in Nat \ {0}
  <2>1. MatchingBuys(o) \in SUBSET DOMAIN orders
    BY DEF MatchingBuys
  <2>2. b \in MatchingBuys(o)
    BY <1>1, <1>4, <2>1, ExtremesIn
  <2>3. b \in DOMAIN orders /\ orders[b].side = "buy" /\ orders[b].exe = orders[b].qty
    BY <2>2 DEF MatchingBuys, Executed
  <2> HIDE DEF b
  <2> QED BY <1>1, <2>3, OrdersAre
<1>5. gross \in Int /\ (k.side = "buy" => gross = 0)
  <2>1. CASE sell
    <3>1. orders[b].px \in Nat /\ k.px \in Nat
      BY <1>3, <1>4, <2>1
    <3> HIDE DEF b
    <3>2. (k.px - orders[b].px) * k.qty \in Int
      BY <1>3, <3>1, Profit
    <3> QED BY <2>1, <3>2
  <2>2. CASE ~sell
    BY <2>2
  <2> QED BY <2>1, <2>2
<1>6. note \in NoteType /\ note.px = k.px
  <2>1. sell \in BOOLEAN
    OBVIOUS
  <2> HIDE DEF gross, sell
  <2> QED BY <1>3, <1>5, <2>1, NoNoteType DEF NoteType, NoNote
<1> HIDE DEF note, gross
<1>7. RowOK(new, k)
  <2>1. new \in RecordType
    BY <1>3, <1>5, <1>6 DEF RecordType
  <2> QED BY <1>3, <1>5, <1>6, <2>1 DEF RowOK
<1> HIDE DEF new
<1>8. DueOK(due', orders)
  <2> HIDE DEF sell, b
  <2> QED BY <1>2, <1>4 DEF DueOK, Executed
<1>9. RecordsOK(records', orders)
  <2>1. D \subseteq DOMAIN orders
    BY <1>1 DEF RecordsOK
  <2> HIDE DEF sell, b
  <2>2. /\ DOMAIN records' = D /\ records' = [p \in D |-> records'[p]]
        /\ records'[o] = new
        /\ \A p \in DOMAIN records : records'[p] = records[p]
    BY <1>2
  <2>3. ASSUME NEW p \in D PROVE RowOK(records'[p], orders[p])
    <3>1. CASE p = o
      BY <1>7, <2>2, <3>1
    <3>2. CASE p \in DOMAIN records
      <4>1. records'[p] = records[p]
        BY <2>2, <3>2
      <4> QED BY <1>1, <3>2, <4>1, RecordsAre
    <3> QED BY <3>1, <3>2
  <2> HIDE DEF D
  <2> QED BY <2>1, <2>2, <2>3, RecordsMade
<1> QED BY <1>2, <1>8, <1>9 DEF RepairInv

(* The reconciler: the row of a buy at the price of its execution.         *)
LEMMA CorrectInv ==
    ASSUME RepairInv, NEW b \in DOMAIN orders, CorrectBuy(b)
    PROVE  RepairInv'
<1> DEFINE r == Corrected(records[b], orders[b])
           e == IF records[b].exe > 0 THEN records[b].exe ELSE orders[b].qty
<1>1. OrdersOK(orders) /\ RecordsOK(records, orders) /\ DueOK(due, orders)
  BY DEF RepairInv
<1>2. /\ b \in due /\ due' = due \ {b} /\ UNCHANGED <<orders, tool, others>>
      /\ \/ b \in DOMAIN records /\ PutRecord(b, r)
         \/ records' = records
  BY DEF CorrectBuy
<1>3. DueOK(due', orders)
  BY <1>1, <1>2 DEF DueOK
<1>4. /\ orders[b].side = "buy" /\ orders[b].exe = orders[b].qty
      /\ orders[b].px \in Nat \ {0} /\ orders[b].qty \in Nat
  <2>1. orders[b].side = "buy" /\ orders[b].exe = orders[b].qty
    BY <1>1, <1>2 DEF DueOK, Executed
  <2> QED BY <1>1, <2>1, OrdersAre
<1>5. ASSUME b \in DOMAIN records PROVE RowOK(r, orders[b])
  <2>1. RowOK(records[b], orders[b])
    BY <1>1, <1>5, RecordsAre
  <2>2. records[b] \in RecordType /\ records[b].note \in NoteType
    BY <2>1 DEF RowOK, RecordType
  <2>3. [records[b].note EXCEPT !.px = orders[b].px] \in NoteType
        /\ [records[b].note EXCEPT !.px = orders[b].px].px = orders[b].px
    BY <1>4, <2>2 DEF NoteType
  <2>4. r = [records[b] EXCEPT !.price = orders[b].px, !.status = "executed",
               !.aware = TRUE, !.exe = e,
               !.note = [records[b].note EXCEPT !.px = orders[b].px]]
    BY <2>2 DEF Corrected, RecordType
  <2>5. e \in Nat /\ e <= orders[b].exe
    <3>1. records[b].exe \in Nat /\ records[b].exe <= orders[b].exe
      BY <2>1 DEF RowOK, RecordType
    <3> QED BY <1>4, <3>1
  <2> HIDE DEF r, e
  <2>6. /\ r \in RecordType /\ r.price = orders[b].px
        /\ r.exe \in Nat /\ r.exe <= orders[b].exe
        /\ r.pnl = records[b].pnl /\ r.note.px = orders[b].px
        /\ r.aware /\ r.status = "executed"
    BY <1>4, <2>2, <2>3, <2>4, <2>5 DEF RecordType
  <2> QED BY <2>1, <2>6 DEF RowOK
<1> HIDE DEF r
<1>6. RecordsOK(records', orders)
  <2>1. CASE records' = records
    BY <1>1, <2>1
  <2>2. CASE b \in DOMAIN records /\ PutRecord(b, r)
    <3>1. DOMAIN records \subseteq DOMAIN orders /\ DOMAIN records \cup {b} = DOMAIN records
      BY <1>1, <2>2 DEF RecordsOK
    <3>2. /\ DOMAIN records' = DOMAIN records
          /\ records' = [p \in DOMAIN records |-> records'[p]]
          /\ \A p \in DOMAIN records : records'[p] = IF p = b THEN r ELSE records[p]
      BY <2>2, <3>1 DEF PutRecord
    <3>3. \A p \in DOMAIN records : RowOK(records'[p], orders[p])
      BY <1>1, <1>5, <2>2, <3>2, RecordsAre
    <3> QED BY <3>1, <3>2, <3>3, RecordsMade
  <2> QED BY <1>2, <2>1, <2>2
<1> QED BY <1>2, <1>3, <1>6 DEF RepairInv

(* The repair reads, and leaves.                                           *)
LEMMA ReadInv ==
    ASSUME RepairInv, NEW from \in Days, NEW to \in Days, Read(from, to)
    PROVE  RepairInv'
<1>1. /\ tool'.kis = orders /\ tool'.rows = records
      /\ UNCHANGED <<orders, records, due, others>>
  BY DEF Read
<1>2. ReadBefore(orders, orders)
  <2>1. Len(orders) \in Nat
    BY OrdersAre DEF RepairInv
  <2> QED BY <2>1 DEF ReadBefore
<1> QED BY <1>1, <1>2 DEF RepairInv

(* A repair that is over leaves nothing it has read.                       *)
LEMMA OverInv ==
    ASSUME RepairInv, tool' = NoTool, UNCHANGED <<orders, due, others>>,
           RecordsOK(records', orders)
    PROVE  RepairInv'
<1>1. tool'.kis = <<>> /\ tool'.rows = <<>>
  BY DEF NoTool
<1>2. OrdersOK(<<>>)
  <2>1. <<>> \in Seq(OrderType) /\ DOMAIN <<>> = {}
    BY EmptySeq
  <2> QED BY <2>1 DEF OrdersOK
<1>3. RecordsOK(<<>>, <<>>)
  <2>1. DOMAIN <<>> = {}
    OBVIOUS
  <2>2. <<>> \in [DOMAIN <<>> -> RecordType]
    <3>1. <<>> = [x \in {} |-> <<>>[x]]
      OBVIOUS
    <3> QED BY <3>1, <2>1
  <2> QED BY <2>1, <2>2 DEF RecordsOK
<1>4. ReadBefore(<<>>, orders)
  <2>1. Len(orders) \in Nat
    BY OrdersAre DEF RepairInv
  <2> QED BY <2>1 DEF ReadBefore
<1> QED BY <1>1, <1>2, <1>3, <1>4 DEF RepairInv

-----------------------------------------------------------------------------
MatchType == [gross : Int, complete : BOOLEAN, lots : Seq(Nat \X Nat)]

(* What a sell is matched with has its type, whatever the orders.          *)
LEMMA MatchOfType ==
    ASSUME NEW ords, OrdersOK(ords), NEW U \in SUBSET DOMAIN ords,
           \A p \in U : ords[p].exe > 0, NEW o \in U
    PROVE  MatchOf(ords, U, o) \in MatchType
<1> DEFINE before == LotsAfter(ords, U)[{p \in U : Before(ords, p, o)}]
           m == FifoMatchSell(before, ords[o].px, ords[o].exe)
<1>1. before \in Seq(LotType)
  <2>1. LotsAfter(ords, U) \in [SUBSET U -> Seq(LotType)]
    BY LotsAfterIs
  <2>2. {p \in U : Before(ords, p, o)} \in SUBSET U
    OBVIOUS
  <2> QED BY <2>1, <2>2
<1>2. ords[o].px \in Nat /\ ords[o].exe \in Nat
  BY OrdersAre
<1>3. MatchOf(ords, U, o) = [gross |-> IF m.left = 0 THEN m.gross ELSE 0,
                             complete |-> m.left = 0, lots |-> m.used]
  BY DEF MatchOf
<1> HIDE DEF before
<1>4. m \in TakenType
  BY <1>1, <1>2, FifoType
<1> HIDE DEF m
<1> QED BY <1>3, <1>4 DEF TakenType, MatchType

(* Usable orders are executed.                                             *)
LEMMA UsableIs ==
    ASSUME NEW w, OrdersOK(w.kis)
    PROVE  /\ Usable(w) \in SUBSET DOMAIN w.kis
           /\ \A o \in Usable(w) : w.kis[o].exe > 0 /\ w.kis[o].px \in Nat \ {0}
<1>1. \A o \in Usable(w) : o \in DOMAIN w.kis /\ w.kis[o].exe = w.kis[o].qty
  BY DEF Usable, Executed
<1> QED BY <1>1, OrdersAre

(* The row of a usable order after the repair.                             *)
LEMMA NewFieldsOK ==
    ASSUME NEW w, OrdersOK(w.kis), RecordsOK(w.rows, w.kis),
           NEW o \in Usable(w) \cap DOMAIN w.rows
    PROVE  RowOK(NewFields(w, o), w.kis[o])
<1> DEFINE k == w.kis[o]
           r == w.rows[o]
           U == Usable(w)
           m == IF k.side = "sell" THEN Matches(w.kis, U)[o] ELSE NoNote
           f == AfterFields(r, k, m)
<1>1. /\ U \in SUBSET DOMAIN w.kis /\ \A p \in U : w.kis[p].exe > 0
      /\ k.px \in Nat \ {0} /\ k.exe \in Nat /\ k.side \in {"buy", "sell"}
  BY UsableIs, OrdersAre
<1>2. RowOK(r, k)
  BY RecordsAre
<1>3. k.side = "sell" => m \in MatchType
  <2>1. k.side = "sell" => m = MatchOf(w.kis, U, o)
    BY DEF Matches
  <2>2. MatchOf(w.kis, U, o) \in MatchType
    <3> HIDE DEF U
    <3>1. o \in U
      BY DEF U
    <3> QED BY <1>1, <3>1, MatchOfType
  <2> QED BY <2>1, <2>2
<1>4. NewFields(w, o) = f
  BY DEF NewFields
<1> HIDE DEF m
<1>5. /\ r.pnl \in Int /\ r.note \in NoteType
      /\ k.side = "buy" => r.pnl = 0
  BY <1>2 DEF RowOK, RecordType
<1>6. /\ f.price = k.px /\ f.exe = k.exe /\ f.status = "executed" /\ f.aware = TRUE
      /\ f.note = IF k.side = "buy" THEN [r.note EXCEPT !.px = k.px]
                  ELSE [px |-> k.px, gross |-> m.gross, complete |-> m.complete,
                        lots |-> m.lots]
      /\ f.pnl = IF k.side = "sell" /\ m.complete THEN m.gross ELSE r.pnl
      /\ f = [price |-> f.price, pnl |-> f.pnl, exe |-> f.exe, status |-> f.status,
              aware |-> f.aware, note |-> f.note]
  BY DEF AfterFields
<1>7. f.pnl \in Int /\ (k.side = "buy" => f.pnl = 0)
  BY <1>3, <1>5, <1>6 DEF MatchType
<1>8. f.note \in NoteType /\ f.note.px = k.px
  <2>1. CASE k.side = "buy"
    BY <1>1, <1>5, <1>6, <2>1 DEF NoteType
  <2>2. CASE k.side # "buy"
    BY <1>1, <1>3, <1>6, <2>2 DEF MatchType, NoteType
  <2> QED BY <2>1, <2>2
<1> HIDE DEF f
<1>9. f \in RecordType
  <2>1. [price |-> f.price, pnl |-> f.pnl, exe |-> f.exe, status |-> f.status,
              aware |-> f.aware, note |-> f.note] \in RecordType
    BY <1>1, <1>6, <1>7, <1>8 DEF RecordType
  <2> QED BY <1>6, <2>1, Zenon
<1>10. RowOK(f, k)
  BY <1>1, <1>6, <1>7, <1>8, <1>9 DEF RowOK
<1> QED BY <1>4, <1>10

(* The repair writes: a row it changes is of an order it has read as it is.*)
LEMMA ApplyInv ==
    ASSUME RepairInv, Apply
    PROVE  RepairInv'
<1> DEFINE f(o) == NewFields(tool, o)
           C == Changed(tool)
<1>1. /\ OrdersOK(orders) /\ RecordsOK(records, orders)
      /\ OrdersOK(tool.kis) /\ RecordsOK(tool.rows, tool.kis)
      /\ ReadBefore(tool.kis, orders)
  BY DEF RepairInv
<1>2. tool' = NoTool /\ UNCHANGED <<orders, due, others>>
  BY DEF Apply
<1>3. /\ DOMAIN records \subseteq DOMAIN orders
      /\ records \in [DOMAIN records -> RecordType]
  BY <1>1 DEF RecordsOK
<1>4. ASSUME NEW o \in C PROVE RowOK(f(o), orders[o])
  <2>1. o \in Usable(tool) \cap DOMAIN tool.rows
    BY DEF Changed
  <2>2. RowOK(f(o), tool.kis[o])
    <3> HIDE DEF C
    <3> QED BY <1>1, <2>1, NewFieldsOK
  <2>3. tool.kis[o] = orders[o]
    BY <1>1, <2>1, UsableIs DEF ReadBefore
  <2> HIDE DEF f
  <2> QED BY <2>2, <2>3
<1>5. RecordsOK(records', orders)
  <2>1. CASE DOMAIN records # DOMAIN tool.rows
    <3>1. records' = records
      BY <2>1 DEF Apply
    <3> QED BY <1>1, <3>1
  <2>2. CASE DOMAIN records = DOMAIN tool.rows
    <3>1. records' = [o \in DOMAIN records |->
                         IF o \in DOMAIN Proposed(tool) THEN Proposed(tool)[o]
                         ELSE records[o]]
      BY <2>2 DEF Apply
    <3>2. DOMAIN Proposed(tool) = C /\ \A o \in C : Proposed(tool)[o] = f(o)
      BY DEF Proposed
    <3> HIDE DEF f, C
    <3>3. /\ DOMAIN records' = DOMAIN records
          /\ records' = [o \in DOMAIN records |-> records'[o]]
          /\ \A o \in DOMAIN records :
                records'[o] = IF o \in C THEN f(o) ELSE records[o]
      BY <3>1, <3>2
    <3>4. \A o \in DOMAIN records : RowOK(records'[o], orders[o])
      BY <1>1, <1>4, <3>3, RecordsAre
    <3> QED BY <1>3, <3>3, <3>4, RecordsMade
  <2> QED BY <2>1, <2>2
<1> QED BY <1>2, <1>5, OverInv

(* No step of any of the programs breaks the invariant.                    *)
LEMMA RepairNextInv ==
    ASSUME RepairInv, [RepairNext]_repairvars
    PROVE  RepairInv'
<1>1. CASE UNCHANGED repairvars
  BY <1>1 DEF RepairInv, repairvars
<1>2. CASE \E side \in {"buy", "sell"}, at \in Days, timed \in BOOLEAN, price \in Quotes :
              \E qty \in Shares(side) : Trade(side, qty, at, timed, price)
  BY <1>2, TradeInv
<1>3. CASE \E o \in DOMAIN orders : \E qty \in 1 .. orders[o].qty,
              price \in Prices(orders[o].side) : Execute(o, qty, price)
  BY <1>3, ExecuteInv
<1>4. CASE \E o \in DOMAIN orders : Settle(o)
  BY <1>4, SettleInv
<1>5. CASE \E o \in DOMAIN orders : BackfillRecord(o)
  BY <1>5, BackfillInv
<1>9. CASE \E b \in DOMAIN orders : CorrectBuy(b)
  BY <1>9, CorrectInv
<1>6. CASE \E from, to \in Days : Read(from, to)
  BY <1>6, ReadInv
<1>7. CASE Apply
  BY <1>7, ApplyInv
<1>8. CASE Leave
  <2>1. /\ tool' = NoTool /\ UNCHANGED <<orders, records, due, others>>
        /\ RecordsOK(records', orders)
    BY <1>8 DEF Leave, RepairInv
  <2> QED BY <2>1, OverInv
<1> QED BY <1>1, <1>2, <1>3, <1>4, <1>5, <1>6, <1>7, <1>8, <1>9 DEF RepairNext

(* RepairInv holds in every state, whatever the programs do and in         *)
(* whatever order: the rows fit their orders, those that the repair has    *)
(* read are the first orders with their executions as they still are, and  *)
(* at no point had more been asked to sell than was bought.                *)
THEOREM RepairInvHolds == RepairSpec => []RepairInv
<1>1. RepairInit => RepairInv
  BY RepairInitInv
<1>2. RepairInv /\ [RepairNext]_repairvars => RepairInv'
  BY RepairNextInv
<1> QED BY <1>1, <1>2, PTL DEF RepairSpec

(* In every state the orders and the rows, and those the repair has read,  *)
(* fit their types and each other, and the account holds what its open     *)
(* sells ask for.                                                          *)
THEOREM RepairTypeHolds == RepairSpec => []RepairTypeOK
<1>1. RepairInv => RepairTypeOK
  BY RepairInvType
<1> QED BY <1>1, RepairInvHolds, PTL

-----------------------------------------------------------------------------
(* With every order executed, and bought before it was sold.               *)
AllExecuted ==
    /\ OrdersOK(orders) /\ ByDay(orders) /\ SoldFromBought(orders)
    /\ \A o \in DOMAIN orders : Executed(orders[o])

Bought(n) == Sum(Filled("buy"), n)
Sold(n)   == Sum(Filled("sell"), n)

(* The totals order by order, and never more sold than bought.             *)
LEMMA BoughtSold ==
    ASSUME AllExecuted
    PROVE  /\ Bought(0) = 0 /\ Sold(0) = 0
           /\ \A n \in 0 .. Len(orders) :
                 Bought(n) \in Nat /\ Sold(n) \in Nat /\ Sold(n) <= Bought(n)
           /\ \A n \in 1 .. Len(orders) :
                 /\ Bought(n) = Bought(n - 1)
                       + (IF orders[n].side = "buy" THEN orders[n].exe ELSE 0)
                 /\ Sold(n) = Sold(n - 1)
                       + (IF orders[n].side = "sell" THEN orders[n].exe ELSE 0)
<1> DEFINE N == Len(orders)
           b == Filled("buy")
           s == Filled("sell")
           a == Asked(orders)
<1>1. OrdersOK(orders) /\ N \in Nat /\ DOMAIN orders = 1 .. N
  BY OrdersAre DEF AllExecuted
<1>2. \A i \in 1 .. N : b[i] \in Nat /\ s[i] \in Nat /\ a[i] = s[i]
  BY <1>1, OrdersAre DEF AllExecuted, Executed, Filled, Asked
<1>3. /\ \A i \in 1 .. N : b[i] = IF orders[i].side = "buy" THEN orders[i].exe ELSE 0
      /\ \A i \in 1 .. N : s[i] = IF orders[i].side = "sell" THEN orders[i].exe ELSE 0
  BY <1>1 DEF Filled
<1>4. \A i \in 0 .. N : Sum(a, i) <= Sum(b, i)
  BY DEF AllExecuted, SoldFromBought, Filled, DoneIn
<1> HIDE DEF b, s, a
<1>5. Ints(b, N) /\ Ints(s, N)
  BY <1>2 DEF Ints
<1> HIDE DEF N
<1>6. /\ Sum(b, 0) = 0 /\ Sum(s, 0) = 0
      /\ \A i \in 0 .. N : Sum(b, i) \in Int /\ Sum(s, i) \in Int
      /\ \A i \in 1 .. N : Sum(b, i) = Sum(b, i - 1) + b[i] /\ Sum(s, i) = Sum(s, i - 1) + s[i]
  BY <1>1, <1>5, SumIs
<1>7. \A i \in 0 .. N : Sum(a, i) = Sum(s, i)
  BY <1>1, <1>2, <1>5, SumSame
<1>8. \A i \in 0 .. N : Sum(b, i) >= 0 /\ Sum(s, i) >= 0
  <2> DEFINE Q == {i \in Nat : i <= N => Sum(b, i) >= 0 /\ Sum(s, i) >= 0}
  <2>1. 0 \in Q
    BY <1>6
  <2>2. \A k \in 0 .. (N - 1) : k \in Q => k + 1 \in Q
    <3> TAKE k \in 0 .. (N - 1)
    <3>1. k \in Nat /\ k <= N /\ k \in 0 .. N /\ k + 1 \in 1 .. N /\ (k + 1) - 1 = k
      BY <1>1
    <3>2. Sum(b, k + 1) = Sum(b, k) + b[k + 1] /\ Sum(s, k + 1) = Sum(s, k) + s[k + 1]
      BY <1>6, <3>1
    <3>3. b[k + 1] \in Nat /\ s[k + 1] \in Nat /\ Sum(b, k) \in Int /\ Sum(s, k) \in Int
      BY <1>2, <1>6, <3>1
    <3> QED BY <3>1, <3>2, <3>3
  <2>3. \A k \in 0 .. N : k \in Q
    <3> HIDE DEF Q
    <3>1. Q \in SUBSET Nat
      BY DEF Q
    <3> QED BY <1>1, <2>1, <2>2, <3>1, UpTo
  <2> QED BY <1>1, <2>3
<1>9. \A n \in 0 .. N : Sum(b, n) \in Nat /\ Sum(s, n) \in Nat /\ Sum(s, n) <= Sum(b, n)
  BY <1>4, <1>6, <1>7, <1>8
<1> QED BY <1>3, <1>6, <1>9 DEF Bought, Sold, b, s, N

(* The totals only grow.                                                   *)
LEMMA TotalsGrow ==
    ASSUME AllExecuted, NEW m \in 0 .. Len(orders), NEW n \in m .. Len(orders)
    PROVE  Bought(m) <= Bought(n) /\ Sold(m) <= Sold(n)
<1> DEFINE Q == {i \in Nat : m + i <= Len(orders) =>
                                Bought(m) <= Bought(m + i) /\ Sold(m) <= Sold(m + i)}
<1>1. Len(orders) \in Nat /\ m \in Nat /\ n \in Nat /\ n - m \in Nat
  <2>1. Len(orders) \in Nat
    BY OrdersAre DEF AllExecuted
  <2> QED BY <2>1
<1>2. 0 \in Q
  <2>1. Bought(m) \in Nat /\ Sold(m) \in Nat
    BY BoughtSold
  <2> QED BY <1>1, <2>1
<1>3. \A k \in 0 .. (n - m) - 1 : k \in Q => k + 1 \in Q
  <2> TAKE k \in 0 .. (n - m) - 1
  <2>1. /\ m + k \in 0 .. Len(orders) /\ m + (k + 1) \in 1 .. Len(orders)
        /\ (m + (k + 1)) - 1 = m + k
    BY <1>1
  <2>2. /\ Bought(m + (k + 1)) = Bought(m + k)
              + (IF orders[m + (k + 1)].side = "buy" THEN orders[m + (k + 1)].exe ELSE 0)
        /\ Sold(m + (k + 1)) = Sold(m + k)
              + (IF orders[m + (k + 1)].side = "sell" THEN orders[m + (k + 1)].exe ELSE 0)
    BY <2>1, BoughtSold
  <2>3. Bought(m + k) \in Nat /\ Sold(m + k) \in Nat /\ Bought(m) \in Nat /\ Sold(m) \in Nat
    BY <2>1, BoughtSold
  <2>4. \A i \in 1 .. Len(orders) : orders[i].exe \in Nat
    BY OrdersAre DEF AllExecuted
  <2>5. orders[m + (k + 1)].exe \in Nat
    BY <2>1, <2>4
  <2> QED BY <1>1, <2>1, <2>2, <2>3, <2>5
<1>4. n - m \in Q
  <2> HIDE DEF Q
  <2>1. Q \in SUBSET Nat /\ n - m \in 0 .. n - m
    BY <1>1 DEF Q
  <2> QED BY <1>1, <1>2, <1>3, <2>1, UpTo
<1> QED BY <1>1, <1>4

(* The buy of a share is the one between whose totals its number lies.     *)
LEMMA BuyOfIs ==
    ASSUME AllExecuted, NEW b \in DOMAIN orders, orders[b].side = "buy",
           NEW n \in Nat, Bought(b - 1) < n, n <= Bought(b)
    PROVE  BuyOf(n) = b
<1>1. Len(orders) \in Nat /\ DOMAIN orders = 1 .. Len(orders)
  BY OrdersAre DEF AllExecuted
<1> DEFINE Of(c) == orders[c].side = "buy" /\ Bought(c - 1) < n /\ n <= Bought(c)
<1>2. ASSUME NEW c \in DOMAIN orders, Of(c) PROVE c = b
  <2>1. /\ Bought(c - 1) \in Nat /\ Bought(c) \in Nat
        /\ Bought(b - 1) \in Nat /\ Bought(b) \in Nat
    <3>1. c - 1 \in 0 .. Len(orders) /\ c \in 0 .. Len(orders)
          /\ b - 1 \in 0 .. Len(orders) /\ b \in 0 .. Len(orders)
      BY <1>1
    <3> QED BY <3>1, BoughtSold
  <2>2. ~(c < b)
    <3>1. SUFFICES ASSUME c < b PROVE FALSE
      OBVIOUS
    <3>2. c \in 0 .. Len(orders) /\ b - 1 \in c .. Len(orders)
      BY <1>1, <3>1
    <3>3. Bought(c) <= Bought(b - 1)
      BY <3>2, TotalsGrow
    <3> QED BY <1>2, <2>1, <3>3
  <2>3. ~(b < c)
    <3>1. SUFFICES ASSUME b < c PROVE FALSE
      OBVIOUS
    <3>2. b \in 0 .. Len(orders) /\ c - 1 \in b .. Len(orders)
      BY <1>1, <3>1
    <3>3. Bought(b) <= Bought(c - 1)
      BY <3>2, TotalsGrow
    <3> QED BY <1>2, <2>1, <3>3
  <2> QED BY <1>1, <2>2, <2>3
<1>3. Of(b)
  OBVIOUS
<1>4. BuyOf(n) = CHOOSE c \in DOMAIN orders : Of(c)
  BY DEF BuyOf, Bought
<1> HIDE DEF Of
<1> QED BY <1>2, <1>3, <1>4

-----------------------------------------------------------------------------
(* Over a stretch of equal terms a sum grows by a product.                 *)
LEMMA SumStretch ==
    ASSUME NEW f, NEW n \in Nat, Ints(f, n), NEW u \in 0 .. n, NEW v \in u .. n,
           NEW c \in Int, \A j \in u + 1 .. v : f[j] = c
    PROVE  Sum(f, v) = Sum(f, u) + c * (v - u)
<1> DEFINE Q == {i \in Nat : u + i <= v => Sum(f, u + i) = Sum(f, u) + c * i}
<1>1. u \in Nat /\ v \in Nat /\ v - u \in Nat /\ u + (v - u) = v
  OBVIOUS
<1>2. Sum(f, u) \in Int
  BY SumIs
<1>3. 0 \in Q
  <2>1. u + 0 = u /\ c * 0 = 0
    BY <1>1
  <2> QED BY <1>2, <2>1
<1>4. \A k \in 0 .. (v - u) - 1 : k \in Q => k + 1 \in Q
  <2> TAKE k \in 0 .. (v - u) - 1
  <2> HAVE k \in Q
  <2>1. /\ u + (k + 1) \in u + 1 .. v /\ u + (k + 1) \in 1 .. n
        /\ (u + (k + 1)) - 1 = u + k /\ k \in Nat /\ u + k <= v
    BY <1>1
  <2>2. Sum(f, u + (k + 1)) = Sum(f, u + k) + f[u + (k + 1)]
    BY <2>1, SumIs
  <2>3. f[u + (k + 1)] = c
    BY <2>1
  <2>4. Sum(f, u + k) = Sum(f, u) + c * k
    BY <2>1
  <2>5. c * (k + 1) = c * k + c /\ c * k \in Int
    BY <2>1
  <2>6. Sum(f, u + (k + 1)) = Sum(f, u) + c * (k + 1)
    <3> DEFINE x == c * k
               y == c * (k + 1)
    <3>1. y = x + c /\ x \in Int /\ Sum(f, u + k) = Sum(f, u) + x
      BY <2>4, <2>5
    <3> HIDE DEF x, y
    <3>2. Sum(f, u + (k + 1)) = Sum(f, u) + y
      BY <1>2, <2>2, <2>3, <3>1
    <3> QED BY <3>2 DEF y
  <2>7. k + 1 \in Nat
    BY <2>1
  <2> QED BY <2>6, <2>7
<1>5. v - u \in Q
  <2> HIDE DEF Q
  <2>1. Q \in SUBSET Nat /\ v - u \in 0 .. v - u
    BY <1>1 DEF Q
  <2> QED BY <1>1, <1>3, <1>4, <2>1, UpTo
<1> QED BY <1>1, <1>5

(* The lots l are the shares bought from number q + 1 to number t: lot j   *)
(* ends at number e[j], inside the shares of its buy.                      *)
Covers(l, e, q, t) ==
    /\ e \in [0 .. Len(l) -> Nat] /\ e[0] = q /\ e[Len(l)] = t
    /\ \A j \in 1 .. Len(l) :
          /\ e[j] = e[j - 1] + l[j].qty
          /\ l[j].buy \in DOMAIN orders /\ orders[l[j].buy].side = "buy"
          /\ l[j].px = orders[l[j].buy].px
          /\ Bought(l[j].buy - 1) <= e[j - 1] /\ e[j] <= Bought(l[j].buy)
Covering(l, q, t) == l \in Seq(LotType) /\ \E e : Covers(l, e, q, t)

(* No lots are no shares.                                                  *)
LEMMA CoverNothing ==
    ASSUME NEW q \in Nat
    PROVE  Covering(<<>>, q, q)
<1> DEFINE e == [j \in 0 .. 0 |-> q]
<1>1. Len(<<>>) = 0 /\ <<>> \in Seq(LotType)
  BY EmptySeq
<1>2. Covers(<<>>, e, q, q)
  BY <1>1 DEF Covers
<1> HIDE DEF e
<1> QED BY <1>1, <1>2 DEF Covering

(* One lot more is the next shares bought.                                 *)
LEMMA CoverMore ==
    ASSUME NEW l, NEW q \in Nat, NEW t \in Nat, Covering(l, q, t),
           NEW x \in LotType, x.buy \in DOMAIN orders, orders[x.buy].side = "buy",
           x.px = orders[x.buy].px,
           Bought(x.buy - 1) <= t, t + x.qty <= Bought(x.buy)
    PROVE  Covering(Append(l, x), q, t + x.qty)
<1>1. l \in Seq(LotType) /\ Len(l) \in Nat /\ x.qty \in Nat
  BY LenProperties DEF Covering, LotType
<1>2. PICK e : Covers(l, e, q, t)
  BY DEF Covering
<1> DEFINE n == Len(l)
           k == Append(l, x)
           d == [j \in 0 .. n + 1 |-> IF j = n + 1 THEN t + x.qty ELSE e[j]]
<1>3. /\ k \in Seq(LotType) /\ Len(k) = n + 1 /\ k[n + 1] = x
      /\ \A j \in 1 .. n : k[j] = l[j]
  BY <1>1, AppendProperties
<1>4. n \in Nat /\ e \in [0 .. n -> Nat] /\ e[0] = q /\ e[n] = t
  BY <1>1, <1>2 DEF Covers
<1>5. /\ d \in [0 .. n + 1 -> Nat] /\ d[n + 1] = t + x.qty
      /\ \A j \in 0 .. n : d[j] = e[j]
  <2> HIDE DEF n
  <2> QED BY <1>1, <1>4
<1> HIDE DEF k, d
<1>6. ASSUME NEW j \in 1 .. n + 1
      PROVE  /\ d[j] = d[j - 1] + k[j].qty
             /\ k[j].buy \in DOMAIN orders /\ orders[k[j].buy].side = "buy"
             /\ k[j].px = orders[k[j].buy].px
             /\ Bought(k[j].buy - 1) <= d[j - 1] /\ d[j] <= Bought(k[j].buy)
  <2>1. CASE j = n + 1
    <3>1. j - 1 = n /\ n \in 0 .. n
      BY <1>4, <2>1
    <3>2. d[j - 1] = t /\ d[j] = t + x.qty /\ k[j] = x
      BY <1>3, <1>4, <1>5, <2>1, <3>1
    <3> QED BY <3>2
  <2>2. CASE j \in 1 .. n
    <3>1. j \in 0 .. n /\ j - 1 \in 0 .. n
      BY <1>4, <2>2
    <3>2. d[j - 1] = e[j - 1] /\ d[j] = e[j] /\ k[j] = l[j]
      BY <1>3, <1>5, <2>2, <3>1
    <3> QED BY <1>2, <2>2, <3>2 DEF Covers
  <2> QED BY <1>4, <2>1, <2>2
<1>7. Covers(k, d, q, t + x.qty)
  <2>1. 0 \in 0 .. n
    BY <1>4
  <2>2. d[0] = q
    BY <1>4, <1>5, <2>1
  <2> QED BY <1>3, <1>5, <1>6, <2>2 DEF Covers
<1> QED BY <1>3, <1>7 DEF Covering, k

-----------------------------------------------------------------------------
(* The profit of each of n shares sold from number q + 1 on.               *)
GainOf(q, price, n) == [i \in 1 .. n |-> price - orders[BuyOf(q + i)].px]

(* A sell of n shares that has used the lots up to number d: it needs more,*)
(* or it has all, and the shares after its last are left.                  *)
Needs(a, q, price, n, d) ==
    /\ d - q <= n /\ a.left = n - (d - q) /\ a.rest = <<>>
    /\ Ints(GainOf(q, price, n), d - q)
    /\ a.gross = Sum(GainOf(q, price, n), d - q)
HasAll(a, q, price, n, d) ==
    /\ n <= d - q /\ a.left = 0 /\ Covering(a.rest, q + n, d)
    /\ Ints(GainOf(q, price, n), n)
    /\ a.gross = Sum(GainOf(q, price, n), n)

(* The shares of one lot have one gain.                                    *)
LEMMA GainStretch ==
    ASSUME AllExecuted, NEW b \in DOMAIN orders, orders[b].side = "buy",
           NEW q \in Nat, NEW price \in Nat, NEW n \in Nat,
           NEW u \in 0 .. n, NEW v \in u .. n, Ints(GainOf(q, price, n), u),
           Bought(b - 1) <= q + u, q + v <= Bought(b)
    PROVE  /\ Ints(GainOf(q, price, n), v)
           /\ Sum(GainOf(q, price, n), v)
                 = Sum(GainOf(q, price, n), u) + (price - orders[b].px) * (v - u)
<1> DEFINE F == GainOf(q, price, n)
           c == price - orders[b].px
<1>1. c \in Int
  <2>1. orders[b].px \in Nat
    BY OrdersAre DEF AllExecuted
  <2> QED BY <2>1
<1>2. ASSUME NEW j \in u + 1 .. v PROVE F[j] = c
  <2>1. j \in 1 .. n /\ q + j \in Nat /\ q + u < q + j /\ q + j <= q + v
    OBVIOUS
  <2>2. Bought(b - 1) \in Nat /\ Bought(b) \in Nat
    <3>1. b - 1 \in 0 .. Len(orders) /\ b \in 0 .. Len(orders)
      BY OrdersAre DEF AllExecuted
    <3> QED BY <3>1, BoughtSold
  <2>3. Bought(b - 1) < q + j /\ q + j <= Bought(b)
    BY <2>1, <2>2
  <2>4. BuyOf(q + j) = b
    BY <2>1, <2>3, BuyOfIs
  <2> QED BY <2>1, <2>4 DEF GainOf
<1> HIDE DEF F, c
<1>3. Ints(F, v)
  <2>1. ASSUME NEW j \in 1 .. v PROVE F[j] \in Int
    <3>1. j \in 1 .. u \/ j \in u + 1 .. v
      OBVIOUS
    <3>2. Ints(F, u)
      BY DEF F
    <3> QED BY <1>1, <1>2, <3>1, <3>2 DEF Ints
  <2> QED BY <2>1 DEF Ints
<1>4. Sum(F, v) = Sum(F, u) + c * (v - u)
  <2>1. v \in Nat /\ u \in 0 .. v /\ v \in u .. v
    OBVIOUS
  <2> QED BY <1>1, <1>2, <1>3, <2>1, SumStretch
<1> QED BY <1>3, <1>4 DEF F, c

(* The next lot.                                                           *)
LEMMA MatchStep ==
    ASSUME AllExecuted, NEW a \in TakenType, NEW x \in LotType,
           NEW q \in Nat, NEW price \in Nat, NEW n \in Nat, NEW d \in Nat, q <= d,
           x.buy \in DOMAIN orders, orders[x.buy].side = "buy",
           x.px = orders[x.buy].px,
           Bought(x.buy - 1) <= d, d + x.qty <= Bought(x.buy),
           Needs(a, q, price, n, d) \/ HasAll(a, q, price, n, d)
    PROVE  LET c == Take(a, x, price) IN
           Needs(c, q, price, n, d + x.qty) \/ HasAll(c, q, price, n, d + x.qty)
<1> DEFINE c == Take(a, x, price)
           m == IF x.qty < a.left THEN x.qty ELSE a.left
           F == GainOf(q, price, n)
           b == x.buy
<1>1. /\ x.qty \in Nat \ {0} /\ a.left \in Nat /\ a.gross \in Int
      /\ x.px \in Nat /\ a.rest \in Seq(LotType)
  BY DEF LotType, TakenType
<1>2. /\ c.left = a.left - m /\ c.gross = a.gross + (price - x.px) * m
      /\ c.rest = IF m = x.qty THEN a.rest ELSE Append(a.rest, [x EXCEPT !.qty = @ - m])
  BY DEF Take
<1>3. m \in Nat /\ m <= x.qty /\ m <= a.left /\ (m = x.qty \/ m = a.left)
  BY <1>1
<1>4. m # x.qty => m = a.left
  BY <1>1
<1>5. Bought(b - 1) \in Nat /\ Bought(b) \in Nat
  <2>1. b - 1 \in 0 .. Len(orders) /\ b \in 0 .. Len(orders)
    BY OrdersAre DEF AllExecuted
  <2> QED BY <2>1, BoughtSold
<1> HIDE DEF c, m, F, b
<1> DEFINE y == [x EXCEPT !.qty = @ - m]
<1>6. ASSUME m # x.qty
      PROVE  y \in LotType /\ y.buy = x.buy /\ y.px = x.px /\ y.qty = x.qty - m
  <2>1. x.qty - m \in Nat \ {0}
    BY <1>1, <1>3, <1>6
  <2> QED BY <2>1 DEF LotType
<1> HIDE DEF y
<1>7. CASE Needs(a, q, price, n, d)
  <2> DEFINE u == d - q
             v == u + m
  <2>1. /\ u <= n /\ a.left = n - u /\ a.rest = <<>>
        /\ Ints(F, u) /\ a.gross = Sum(F, u)
    BY <1>7 DEF Needs, F
  <2>2. u \in 0 .. n /\ v \in u .. n /\ v - u = m /\ q + u = d /\ q + v = d + m
    <3>1. u \in Nat /\ q + u = d
      OBVIOUS
    <3> HIDE DEF u
    <3> QED BY <1>3, <2>1, <3>1
  <2> HIDE DEF u, v
  <2>3. Bought(b - 1) <= q + u /\ q + v <= Bought(b)
    <3>1. Bought(b - 1) <= d /\ d + x.qty <= Bought(b)
      BY DEF b
    <3> QED BY <1>1, <1>3, <1>5, <2>2, <3>1
  <2>4. b \in DOMAIN orders /\ orders[b].side = "buy" /\ x.px = orders[b].px
    BY DEF b
  <2>5. Ints(F, v) /\ Sum(F, v) = Sum(F, u) + (price - x.px) * m
    <3>1. /\ Ints(F, v)
          /\ Sum(F, v) = Sum(F, u) + (price - orders[b].px) * (v - u)
      <4>1. \A i \in 0 .. n : \A j \in i .. n :
               Ints(F, i) /\ Bought(b - 1) <= q + i /\ q + j <= Bought(b)
               => /\ Ints(F, j)
                  /\ Sum(F, j) = Sum(F, i) + (price - orders[b].px) * (j - i)
        BY <2>4, GainStretch DEF F
      <4> QED BY <2>1, <2>2, <2>3, <4>1
    <3> QED BY <2>2, <2>4, <3>1
  <2>6. c.gross = Sum(F, v)
    BY <1>2, <2>1, <2>5
  <2>7. CASE m = x.qty
    <3>1. (d + x.qty) - q = v
      BY <2>2, <2>7 DEF u, v
    <3>2. c.left = n - v /\ c.rest = <<>>
      BY <1>2, <2>1, <2>2, <2>7 DEF v
    <3>3. v <= n
      BY <2>2
    <3>4. Needs(c, q, price, n, d + x.qty)
      BY <2>5, <2>6, <3>1, <3>2, <3>3 DEF Needs, F
    <3> QED BY <3>4 DEF c
  <2>8. CASE m # x.qty
    <3>1. m = a.left /\ v = n /\ c.left = 0
      <4>1. m = a.left
        BY <1>4, <2>8
      <4>2. v = n
        BY <1>1, <2>1, <2>2, <4>1
      <4>3. c.left = 0
        BY <1>1, <1>2, <4>1
      <4> QED BY <4>1, <4>2, <4>3
    <3>2. c.rest = Append(<<>>, y)
      BY <1>2, <2>1, <2>8 DEF y
    <3>3. /\ y \in LotType /\ y.buy = x.buy /\ y.px = x.px /\ y.qty = x.qty - m
      BY <1>6, <2>8
    <3>4. q + n \in Nat /\ q + n = d + m /\ (q + n) + y.qty = d + x.qty
      BY <1>1, <1>3, <2>2, <3>1, <3>3
    <3>5. Bought(b - 1) <= q + n /\ (q + n) + y.qty <= Bought(b)
      <4>1. Bought(b - 1) <= d /\ d + x.qty <= Bought(b)
        BY DEF b
      <4> QED BY <1>1, <1>3, <1>5, <3>4, <4>1
    <3>6. Covering(<<>>, q + n, q + n)
      BY <3>4, CoverNothing
    <3>7. Covering(Append(<<>>, y), q + n, (q + n) + y.qty)
      BY <2>4, <3>3, <3>4, <3>5, <3>6, CoverMore DEF b
    <3>8. n <= (d + x.qty) - q
      BY <1>1, <1>3, <2>2, <3>1
    <3>9. HasAll(c, q, price, n, d + x.qty)
      BY <2>5, <2>6, <3>1, <3>2, <3>4, <3>7, <3>8 DEF HasAll, F
    <3> QED BY <3>9 DEF c
  <2> QED BY <2>7, <2>8
<1>8. CASE HasAll(a, q, price, n, d)
  <2>1. /\ n <= d - q /\ a.left = 0 /\ Covering(a.rest, q + n, d)
        /\ Ints(F, n) /\ a.gross = Sum(F, n)
    BY <1>8 DEF HasAll, F
  <2>2. m = 0 /\ m # x.qty
    BY <1>1, <1>3, <2>1
  <2>3. c.left = 0 /\ c.gross = Sum(F, n)
    <3>1. (price - x.px) * m = 0
      BY <1>1, <2>2
    <3> QED BY <1>1, <1>2, <2>1, <2>2, <3>1
  <2>4. c.rest = Append(a.rest, y)
    BY <1>2, <2>2 DEF y
  <2>5. y \in LotType /\ y.buy = x.buy /\ y.px = x.px /\ y.qty = x.qty
    BY <1>1, <1>6, <2>2
  <2>6. Covering(c.rest, q + n, d + x.qty)
    <3>1. q + n \in Nat
      OBVIOUS
    <3>2. Covering(Append(a.rest, y), q + n, d + y.qty)
      BY <2>1, <2>5, <3>1, CoverMore
    <3> QED BY <2>4, <2>5, <3>2
  <2>7. n <= (d + x.qty) - q
    BY <1>1, <2>1
  <2>8. HasAll(c, q, price, n, d + x.qty)
    BY <2>1, <2>3, <2>6, <2>7 DEF HasAll, F
  <2> QED BY <2>8 DEF c
<1> QED BY <1>7, <1>8

(* A sell for which there are lots is matched in full, share by share, and *)
(* leaves the shares after its last.                                       *)
LEMMA MatchCovered ==
    ASSUME AllExecuted, NEW l, NEW q \in Nat, NEW t \in Nat, Covering(l, q, t),
           NEW price \in Nat, NEW n \in Nat, q + n <= t
    PROVE  LET m == FifoMatchSell(l, price, n) IN
           /\ m.left = 0 /\ Covering(m.rest, q + n, t)
           /\ m.gross = Sum(GainOf(q, price, n), n)
<1> DEFINE m == FifoMatchSell(l, price, n)
           len == Len(l)
<1>1. l \in Seq(LotType) /\ len \in Nat /\ \A j \in 1 .. len : l[j] \in LotType
  BY LenProperties, ElementOfSeq DEF Covering
<1>2. PICK e : Covers(l, e, q, t)
  BY DEF Covering
<1>3. PICK g \in [0 .. len -> TakenType] :
         /\ g[0] = Untaken(n)
         /\ \A i \in 1 .. len : g[i] = Take(g[i - 1], l[i], price)
         /\ m = g[len]
  BY <1>1, FifoLoop
<1>4. /\ e \in [0 .. len -> Nat] /\ e[0] = q /\ e[len] = t
      /\ \A j \in 1 .. len :
          /\ e[j] = e[j - 1] + l[j].qty
          /\ l[j].buy \in DOMAIN orders /\ orders[l[j].buy].side = "buy"
          /\ l[j].px = orders[l[j].buy].px
          /\ Bought(l[j].buy - 1) <= e[j - 1] /\ e[j] <= Bought(l[j].buy)
  BY <1>2 DEF Covers
<1> HIDE DEF m, len
<1> DEFINE Good(a, d) == Needs(a, q, price, n, d) \/ HasAll(a, q, price, n, d)
           Q == {i \in Nat : i <= len => q <= e[i] /\ Good(g[i], e[i])}
<1>5. 0 \in Q
  <2>1. /\ g[0].left = n /\ g[0].rest = <<>> /\ g[0].gross = 0
    BY <1>3 DEF Untaken
  <2>2. Ints(GainOf(q, price, n), 0)
    BY DEF Ints
  <2>3. Sum(GainOf(q, price, n), 0) = 0
    BY <2>2, SumIs
  <2>4. q - q = 0 /\ n - 0 = n /\ 0 <= n
    OBVIOUS
  <2>5. Needs(g[0], q, price, n, q)
    BY <2>1, <2>2, <2>3, <2>4 DEF Needs
  <2>6. q <= e[0] /\ Good(g[0], e[0])
    BY <1>4, <2>5
  <2> QED BY <2>6
<1>6. \A k \in 0 .. (len - 1) : k \in Q => k + 1 \in Q
  <2> TAKE k \in 0 .. (len - 1)
  <2> HAVE k \in Q
  <2>1. /\ k \in 0 .. len /\ k + 1 \in 1 .. len /\ (k + 1) - 1 = k /\ k <= len
        /\ k + 1 \in 0 .. len
    BY <1>1
  <2>2. q <= e[k] /\ Good(g[k], e[k])
    BY <2>1
  <2>3. g[k + 1] = Take(g[k], l[k + 1], price) /\ g[k] \in TakenType
    BY <1>3, <2>1
  <2>4. /\ e[k + 1] = e[k] + l[k + 1].qty /\ e[k] \in Nat /\ e[k + 1] \in Nat
        /\ l[k + 1].buy \in DOMAIN orders /\ orders[l[k + 1].buy].side = "buy"
        /\ l[k + 1].px = orders[l[k + 1].buy].px
        /\ Bought(l[k + 1].buy - 1) <= e[k] /\ e[k + 1] <= Bought(l[k + 1].buy)
        /\ l[k + 1] \in LotType
    BY <1>1, <1>4, <2>1
  <2>5. Good(Take(g[k], l[k + 1], price), e[k] + l[k + 1].qty)
    <3> DEFINE x == l[k + 1]
               a == g[k]
               d == e[k]
    <3>1. /\ a \in TakenType /\ x \in LotType /\ d \in Nat /\ q <= d
          /\ x.buy \in DOMAIN orders /\ orders[x.buy].side = "buy"
          /\ x.px = orders[x.buy].px
          /\ Bought(x.buy - 1) <= d /\ d + x.qty <= Bought(x.buy)
          /\ Needs(a, q, price, n, d) \/ HasAll(a, q, price, n, d)
      BY <2>2, <2>3, <2>4
    <3> HIDE DEF x, a, d
    <3>2. Needs(Take(a, x, price), q, price, n, d + x.qty)
             \/ HasAll(Take(a, x, price), q, price, n, d + x.qty)
      BY <3>1, MatchStep
    <3> QED BY <3>2 DEF x, a, d
  <2>6. q <= e[k + 1]
    <3>1. l[k + 1].qty \in Nat
      BY <2>4 DEF LotType
    <3> QED BY <2>2, <2>4, <3>1
  <2> HIDE DEF Good
  <2>7. Good(g[k + 1], e[k + 1])
    BY <2>3, <2>4, <2>5
  <2> QED BY <2>1, <2>6, <2>7
<1>7. Good(m, t)
  <2>1. len \in Q
    <3> HIDE DEF Q
    <3>1. Q \in SUBSET Nat /\ len \in 0 .. len
      BY <1>1 DEF Q
    <3> QED BY <1>1, <1>5, <1>6, <3>1, UpTo
  <2>2. Good(g[len], e[len])
    BY <1>1, <2>1
  <2> HIDE DEF Good
  <2> QED BY <1>3, <1>4, <2>2
<1>8. m \in TakenType
  <2>1. len \in 0 .. len
    BY <1>1
  <2> QED BY <1>3, <2>1
<1>9. m.left = 0 /\ Covering(m.rest, q + n, t) /\ m.gross = Sum(GainOf(q, price, n), n)
  <2>1. CASE Needs(m, q, price, n, t)
    <3>1. /\ t - q <= n /\ m.left = n - (t - q) /\ m.rest = <<>>
          /\ m.gross = Sum(GainOf(q, price, n), t - q)
      BY <2>1 DEF Needs
    <3>2. t - q = n /\ n - n = 0 /\ q + n = t
      BY <3>1
    <3>3. Covering(<<>>, t, t)
      BY CoverNothing
    <3> QED BY <3>1, <3>2, <3>3
  <2>2. CASE HasAll(m, q, price, n, t)
    BY <2>2 DEF HasAll
  <2> QED BY <1>7, <2>1, <2>2
<1> QED BY <1>9 DEF m

-----------------------------------------------------------------------------
(* A first part of the timeline: the sells up to s and the buys up to b.   *)
Part(s, b) ==
    {p \in DOMAIN orders : IF orders[p].side = "sell" THEN p <= s ELSE p <= b}

(* Its last order is its last sell, or else its last buy, which then comes *)
(* after all its sells.                                                    *)
LEMMA LastOfPart ==
    ASSUME AllExecuted, NEW s \in 0 .. Len(orders), NEW b \in 0 .. Len(orders),
           s > 0 \/ b > 0,
           s > 0 => orders[s].side = "sell", b > 0 => orders[b].side = "buy"
    PROVE  LET o == LastOf(orders, Part(s, b)) IN
           \/ s > 0 /\ o = s /\ Part(s, b) \ {o} = Part(s - 1, b)
           \/ b > 0 /\ o = b /\ Part(s, b) \ {o} = Part(s, b - 1) /\ s < b
<1> DEFINE P == Part(s, b)
           o == LastOf(orders, P)
<1>1. /\ Len(orders) \in Nat /\ DOMAIN orders = 1 .. Len(orders)
      /\ OrdersOK(orders) /\ ByDay(orders)
      /\ \A p \in DOMAIN orders : orders[p].side \in {"buy", "sell"} /\ orders[p].at \in Nat
  BY OrdersAre DEF AllExecuted
<1>2. /\ P \in SUBSET DOMAIN orders
      /\ \A p \in DOMAIN orders :
            p \in P <=> IF orders[p].side = "sell" THEN p <= s ELSE p <= b
  BY DEF Part
<1>3. s > 0 => s \in P
  BY <1>1, <1>2
<1>4. b > 0 => b \in P
  BY <1>1, <1>2
<1> HIDE DEF P
<1>5. o \in P /\ \A p \in P \ {o} : Before(orders, p, o)
  <2>1. P # {}
    BY <1>3, <1>4
  <2> QED BY <1>1, <1>2, <2>1, LastOfIs
<1> HIDE DEF o
<1>6. o \in DOMAIN orders /\ o \in Nat
  BY <1>1, <1>2, <1>5
<1>7. CASE orders[o].side = "sell"
  <2>1. o <= s /\ s > 0 /\ s \in P /\ s \in DOMAIN orders /\ orders[s].side = "sell"
    BY <1>1, <1>2, <1>3, <1>5, <1>6, <1>7
  <2>2. o = s
    <3>1. SUFFICES ASSUME o # s PROVE FALSE
      OBVIOUS
    <3>2. Before(orders, s, o)
      BY <1>5, <2>1, <3>1
    <3>3. orders[o].at <= orders[s].at
      BY <1>1, <1>6, <2>1 DEF ByDay
    <3>4. orders[s].at = orders[o].at /\ s < o
      BY <1>1, <1>6, <1>7, <2>1, <3>2, <3>3 DEF Before
    <3> QED BY <1>1, <1>6, <2>1, <3>4
  <2>3. P \ {o} = Part(s - 1, b)
    <3>1. ASSUME NEW p \in DOMAIN orders
          PROVE  p \in P \ {s} <=> p \in Part(s - 1, b)
      <4>1. p \in Nat /\ s \in Nat
        BY <1>1
      <4>2. CASE orders[p].side = "sell"
        <5>1. p \in P <=> p <= s
          BY <1>2, <4>2
        <5>2. p \in Part(s - 1, b) <=> p <= s - 1
          BY <4>2 DEF Part
        <5> QED BY <4>1, <5>1, <5>2
      <4>3. CASE orders[p].side # "sell"
        <5>1. p # s
          BY <2>1, <4>3
        <5> QED BY <1>2, <4>3, <5>1 DEF Part
      <4> QED BY <4>2, <4>3
    <3>2. Part(s - 1, b) \subseteq DOMAIN orders
      BY DEF Part
    <3> QED BY <1>2, <2>2, <3>1, <3>2
  <2> QED BY <2>1, <2>2, <2>3 DEF o, P
<1>8. CASE orders[o].side # "sell"
  <2>1. /\ orders[o].side = "buy" /\ o <= b /\ b > 0 /\ b \in P
        /\ b \in DOMAIN orders /\ orders[b].side = "buy"
    BY <1>1, <1>2, <1>4, <1>5, <1>6, <1>8
  <2>2. o = b
    <3>1. SUFFICES ASSUME o # b PROVE FALSE
      OBVIOUS
    <3>2. Before(orders, b, o)
      BY <1>5, <2>1, <3>1
    <3>3. orders[o].at <= orders[b].at
      BY <1>1, <1>6, <2>1 DEF ByDay
    <3>4. orders[b].at = orders[o].at /\ b < o
      BY <1>1, <1>6, <1>8, <2>1, <3>2, <3>3 DEF Before
    <3> QED BY <1>1, <1>6, <2>1, <3>4
  <2>3. P \ {o} = Part(s, b - 1)
    <3>1. ASSUME NEW p \in DOMAIN orders
          PROVE  p \in P \ {b} <=> p \in Part(s, b - 1)
      <4>1. p \in Nat /\ b \in Nat
        BY <1>1
      <4>2. CASE orders[p].side # "sell"
        <5>1. p \in P <=> p <= b
          BY <1>2, <4>2
        <5>2. p \in Part(s, b - 1) <=> p <= b - 1
          BY <4>2 DEF Part
        <5> QED BY <4>1, <5>1, <5>2
      <4>3. CASE orders[p].side = "sell"
        <5>1. p # b
          BY <2>1, <4>3
        <5> QED BY <1>2, <4>3, <5>1 DEF Part
      <4> QED BY <4>2, <4>3
    <3>2. Part(s, b - 1) \subseteq DOMAIN orders
      BY DEF Part
    <3> QED BY <1>2, <2>2, <3>1, <3>2
  <2>4. s < b
    <3>1. CASE s = 0
      BY <2>1, <3>1
    <3>2. CASE s > 0
      <4>1. s \in P /\ s \in DOMAIN orders /\ orders[s].side = "sell" /\ s # b
        BY <1>1, <1>3, <2>1, <3>2
      <4>2. Before(orders, s, b)
        BY <1>5, <2>2, <4>1
      <4>3. orders[s].at < orders[b].at
        BY <1>1, <2>1, <4>1, <4>2 DEF Before
      <4>4. b <= s => orders[b].at <= orders[s].at
        BY <1>1, <2>1, <4>1 DEF ByDay
      <4> QED BY <1>1, <2>1, <4>1, <4>3, <4>4
    <3> QED BY <3>1, <3>2
  <2> QED BY <2>1, <2>2, <2>3, <2>4 DEF o, P
<1> QED BY <1>7, <1>8

(* The lots after a first part of the timeline are the shares bought in it *)
(* after the last share sold in it.                                        *)
LEMMA LotsCovered ==
    ASSUME AllExecuted
    PROVE  \A s, b \in 0 .. Len(orders) :
              Sold(s) <= Bought(b) =>
                 Covering(LotsAfter(orders, DOMAIN orders)[Part(s, b)], Sold(s), Bought(b))
<1> DEFINE N == Len(orders)
           U == DOMAIN orders
           lots == LotsAfter(orders, U)
           Fine(s, b) == Covering(lots[Part(s, b)], Sold(s), Bought(b))
           Q == {t \in Nat : \A s, b \in 0 .. N :
                                s + b = t /\ Sold(s) <= Bought(b) => Fine(s, b)}
<1>1. N \in Nat /\ U = 1 .. N /\ OrdersOK(orders)
      /\ \A p \in U : orders[p] \in OrderType /\ orders[p].side \in {"buy", "sell"}
                      /\ orders[p].exe \in Nat \ {0} /\ orders[p].px \in Nat
  <2>1. N \in Nat /\ U = 1 .. N /\ OrdersOK(orders)
    BY OrdersAre DEF AllExecuted
  <2>2. ASSUME NEW p \in U
        PROVE  orders[p] \in OrderType /\ orders[p].side \in {"buy", "sell"}
               /\ orders[p].exe \in Nat \ {0} /\ orders[p].px \in Nat
    <3>1. /\ orders[p] \in OrderType /\ orders[p].side \in {"buy", "sell"}
          /\ orders[p].qty \in Nat \ {0} /\ orders[p].px \in Nat
      BY <2>1, OrdersAre
    <3>2. orders[p].exe = orders[p].qty
      BY DEF AllExecuted, Executed
    <3> QED BY <3>1, <3>2
  <2> QED BY <2>1, <2>2
<1>2. /\ lots[{}] = <<>>
      /\ \A S \in SUBSET U :
            S # {} => lots[S] = LotsStep(orders, S, lots[S \ {LastOf(orders, S)}])
  <2>1. U \in SUBSET DOMAIN orders /\ \A p \in U : orders[p].exe > 0
    BY <1>1
  <2> QED BY <1>1, <2>1, LotsAfterIs
<1>3. \A s, b : Part(s, b) \in SUBSET U
  BY DEF Part
<1>4. /\ \A i \in 0 .. N : Bought(i) \in Nat /\ Sold(i) \in Nat /\ Sold(i) <= Bought(i)
      /\ \A i \in 1 .. N :
            /\ Bought(i) = Bought(i - 1)
                  + (IF orders[i].side = "buy" THEN orders[i].exe ELSE 0)
            /\ Sold(i) = Sold(i - 1)
                  + (IF orders[i].side = "sell" THEN orders[i].exe ELSE 0)
      /\ Bought(0) = 0 /\ Sold(0) = 0
  BY BoughtSold
<1> HIDE DEF N, U, lots
<1>5. 0 \in Q
  <2>1. ASSUME NEW s \in 0 .. N, NEW b \in 0 .. N, s + b = 0 PROVE Fine(s, b)
    <3>1. s = 0 /\ b = 0
      BY <1>1, <2>1
    <3>2. Part(0, 0) = {}
      <4>1. \A p \in U : ~(p <= 0)
        BY <1>1
      <4> QED BY <4>1 DEF Part, U
    <3>3. Covering(<<>>, 0, 0)
      BY CoverNothing
    <3> QED BY <1>2, <1>4, <3>1, <3>2, <3>3
  <2> QED BY <2>1
<1>6. \A k \in 0 .. (2 * N - 1) : k \in Q => k + 1 \in Q
  <2> TAKE k \in 0 .. (2 * N - 1)
  <2> HAVE k \in Q
  <2>0. k \in Nat /\ k + 1 \in Nat
    OBVIOUS
  <2>1. \A s, b \in 0 .. N : s + b = k /\ Sold(s) <= Bought(b) => Fine(s, b)
    OBVIOUS
  <2> HIDE DEF Q
  <2>2. ASSUME NEW s \in 0 .. N, NEW b \in 0 .. N, s + b = k + 1, Sold(s) <= Bought(b)
        PROVE  Fine(s, b)
    <3>1. CASE s > 0 /\ orders[s].side # "sell"
      <4>1. s - 1 \in 0 .. N /\ s \in 1 .. N /\ (s - 1) + b = k
        BY <1>1, <2>2, <3>1
      <4>2. Sold(s) = Sold(s - 1)
        BY <1>4, <3>1, <4>1
      <4>3. Part(s, b) = Part(s - 1, b)
        <5>1. ASSUME NEW p \in U, orders[p].side = "sell" PROVE p <= s <=> p <= s - 1
          <6>1. p # s /\ p \in Nat /\ s \in Nat
            BY <1>1, <3>1, <5>1
          <6> QED BY <6>1
        <5> QED BY <5>1 DEF Part, U
      <4>4. Fine(s - 1, b)
        BY <2>1, <2>2, <4>1, <4>2
      <4> QED BY <4>2, <4>3, <4>4
    <3>2. CASE b > 0 /\ orders[b].side # "buy"
      <4>1. b - 1 \in 0 .. N /\ b \in 1 .. N /\ s + (b - 1) = k
        BY <1>1, <2>2, <3>2
      <4>2. Bought(b) = Bought(b - 1)
        BY <1>4, <3>2, <4>1
      <4>3. Part(s, b) = Part(s, b - 1)
        <5>1. ASSUME NEW p \in U, orders[p].side # "sell" PROVE p <= b <=> p <= b - 1
          <6>1. p # b /\ p \in Nat /\ b \in Nat
            BY <1>1, <3>2, <4>1, <5>1
          <6> QED BY <6>1
        <5> QED BY <5>1 DEF Part, U
      <4>4. Fine(s, b - 1)
        BY <2>1, <2>2, <4>1, <4>2
      <4> QED BY <4>2, <4>3, <4>4
    <3>3. CASE (s > 0 => orders[s].side = "sell") /\ (b > 0 => orders[b].side = "buy")
      <4> DEFINE o == LastOf(orders, Part(s, b))
      <4>1. s > 0 \/ b > 0
        BY <2>0, <2>2
      <4>2. \/ s > 0 /\ o = s /\ Part(s, b) \ {o} = Part(s - 1, b)
            \/ b > 0 /\ o = b /\ Part(s, b) \ {o} = Part(s, b - 1) /\ s < b
        BY <3>3, <4>1, LastOfPart DEF N
      <4>3. Part(s, b) # {}
        <5>1. (s > 0 => s \in Part(s, b)) /\ (b > 0 => b \in Part(s, b))
          BY <1>1, <3>3 DEF Part, U
        <5> QED BY <4>1, <5>1
      <4>4. lots[Part(s, b)] = LotsStep(orders, Part(s, b), lots[Part(s, b) \ {o}])
        BY <1>2, <1>3, <4>3
      <4> HIDE DEF o
      <4>5. CASE s > 0 /\ o = s /\ Part(s, b) \ {o} = Part(s - 1, b)
        <5> DEFINE l == lots[Part(s - 1, b)]
                   q == Sold(s - 1)
                   t == Bought(b)
                   n == orders[s].exe
        <5>1. s - 1 \in 0 .. N /\ s \in 1 .. N /\ (s - 1) + b = k
              /\ orders[s].side = "sell"
          BY <1>1, <2>2, <3>3, <4>5
        <5>2. /\ q \in Nat /\ t \in Nat /\ n \in Nat /\ orders[s].px \in Nat
              /\ Sold(s) = q + n /\ q + n <= t /\ q <= t
          <6>1. q \in Nat /\ t \in Nat
            BY <1>4, <5>1
          <6>2. n \in Nat /\ orders[s].px \in Nat
            BY <1>1, <5>1
          <6>3. Sold(s) = q + n
            BY <1>4, <5>1
          <6>4. Sold(s) <= t
            BY <2>2
          <6> HIDE DEF q, t, n
          <6> QED BY <6>1, <6>2, <6>3, <6>4
        <5>3. Covering(l, q, t)
          BY <2>1, <5>1, <5>2
        <5>4. lots[Part(s, b)] = FifoMatchSell(l, orders[s].px, n).rest
          BY <4>4, <4>5, <5>1 DEF LotsStep, o
        <5> HIDE DEF l, q, t, n
        <5>5. Covering(FifoMatchSell(l, orders[s].px, n).rest, q + n, t)
          BY <5>2, <5>3, MatchCovered
        <5> QED BY <5>2, <5>4, <5>5 DEF t
      <4>6. CASE b > 0 /\ o = b /\ Part(s, b) \ {o} = Part(s, b - 1) /\ s < b
        <5> DEFINE l == lots[Part(s, b - 1)]
                   q == Sold(s)
                   t == Bought(b - 1)
                   n == orders[b].exe
                   x == [buy |-> b, qty |-> n, px |-> orders[b].px]
        <5>1. b - 1 \in 0 .. N /\ b \in 1 .. N /\ s + (b - 1) = k
              /\ orders[b].side = "buy" /\ b - 1 \in s .. N
          BY <1>1, <2>2, <3>3, <4>6
        <5>2. q \in Nat /\ t \in Nat /\ n \in Nat \ {0} /\ Bought(b) = t + n
          BY <1>1, <1>4, <5>1
        <5>3. q <= t
          <6>1. Bought(s) <= Bought(b - 1)
            BY <5>1, TotalsGrow DEF N
          <6>2. Sold(s) <= Bought(s) /\ Bought(s) \in Nat
            BY <1>4
          <6> QED BY <5>2, <6>1, <6>2
        <5>4. Covering(l, q, t)
          BY <2>1, <5>1, <5>3
        <5>5. lots[Part(s, b)] = Append(l, x)
          BY <4>4, <4>6, <5>1 DEF LotsStep, o
        <5>6. /\ x \in LotType /\ x.buy = b /\ x.qty = n /\ x.px = orders[b].px
              /\ b \in DOMAIN orders
          BY <1>1, <5>1, <5>2 DEF LotType, U
        <5>7. Bought(x.buy - 1) <= t /\ t + x.qty <= Bought(x.buy)
          BY <5>2, <5>6
        <5> HIDE DEF l, q, x, n
        <5>8. Covering(Append(l, x), q, t + x.qty)
          BY <5>1, <5>2, <5>4, <5>6, <5>7, CoverMore
        <5> QED BY <5>2, <5>5, <5>6, <5>8 DEF q
      <4> QED BY <4>2, <4>5, <4>6
    <3> QED BY <1>1, <3>1, <3>2, <3>3
  <2> QED BY <2>0, <2>2 DEF Q
<1>7. \A t \in 0 .. 2 * N : t \in Q
  <2>1. Q \in SUBSET Nat /\ 2 * N \in Nat
    BY <1>1
  <2> HIDE DEF Q
  <2> QED BY <1>5, <1>6, <2>1, UpTo
<1>8. ASSUME NEW s \in 0 .. N, NEW b \in 0 .. N, Sold(s) <= Bought(b) PROVE Fine(s, b)
  <2>1. s + b \in 0 .. 2 * N
    BY <1>1
  <2>2. s + b \in Q
    <3> HIDE DEF Q
    <3> QED BY <1>7, <2>1
  <2> QED BY <1>8, <2>2
<1> QED BY <1>8 DEF N, U, lots

(* A sell is given the profit of the very shares it sold.                  *)
LEMMA MatchIsTrue ==
    ASSUME AllExecuted, NEW o \in DOMAIN orders, orders[o].side = "sell"
    PROVE  LET m == MatchOf(orders, DOMAIN orders, o) IN
           m.complete = TRUE /\ m.gross = TrueGross(o)
<1> DEFINE N == Len(orders)
           E == {p \in DOMAIN orders : Before(orders, p, o)}
           D == {p \in 1 .. N : orders[p].at <= orders[o].at}
           l == LotsAfter(orders, DOMAIN orders)[E]
           m == FifoMatchSell(l, orders[o].px, orders[o].exe)
           q == Sold(o - 1)
           n == orders[o].exe
<1>1. /\ N \in Nat /\ DOMAIN orders = 1 .. N /\ ByDay(orders)
      /\ \A p \in DOMAIN orders : orders[p].side \in {"buy", "sell"} /\ orders[p].at \in Nat
      /\ n \in Nat /\ orders[o].px \in Nat
  BY OrdersAre DEF AllExecuted
<1>2. o \in D /\ D \in SUBSET (1 .. N)
  BY <1>1
<1>3. PICK b \in D : \A p \in D : p <= b
  <2> HIDE DEF D
  <2> QED BY <1>1, <1>2, SomeLast
<1>4. /\ b \in 1 .. N /\ o <= b /\ orders[b].at <= orders[o].at
      /\ \A p \in 1 .. N : orders[p].at <= orders[o].at => p <= b
  BY <1>2, <1>3
<1> HIDE DEF D
<1>5. E = Part(o - 1, b)
  <2>1. ASSUME NEW p \in DOMAIN orders
        PROVE  Before(orders, p, o) <=>
                  IF orders[p].side = "sell" THEN p <= o - 1 ELSE p <= b
    <3>1. p \in Nat /\ o \in Nat /\ p \in 1 .. N /\ o \in 1 .. N
      BY <1>1
    <3>2. (p <= o => orders[p].at <= orders[o].at) /\ (o <= p => orders[o].at <= orders[p].at)
          /\ (p <= b => orders[p].at <= orders[b].at)
      BY <1>1, <1>4 DEF ByDay
    <3>3. CASE orders[p].side = "sell"
      BY <1>1, <3>1, <3>2, <3>3 DEF Before
    <3>4. CASE orders[p].side # "sell"
      <4>1. Before(orders, p, o) <=> orders[p].at <= orders[o].at
        BY <1>1, <3>1, <3>4 DEF Before
      <4>2. orders[p].at <= orders[o].at <=> p <= b
        BY <1>1, <1>4, <3>1, <3>2
      <4> QED BY <3>4, <4>1, <4>2
    <3> QED BY <3>3, <3>4
  <2> QED BY <2>1 DEF Part
<1>6. /\ o - 1 \in 0 .. N /\ b \in 0 .. N /\ o \in 1 .. N /\ o \in 0 .. N /\ b \in o .. N
  BY <1>1, <1>4
<1>7. /\ q \in Nat /\ Bought(b) \in Nat /\ Sold(o) = q + n
      /\ Sold(o) <= Bought(o) /\ Bought(o) \in Nat
  BY <1>6, BoughtSold
<1>8. q + n <= Bought(b) /\ q <= Bought(b)
  <2>1. Bought(o) <= Bought(b)
    BY <1>6, TotalsGrow
  <2> QED BY <1>1, <1>7, <2>1
<1>9. Covering(l, q, Bought(b))
  BY <1>5, <1>6, <1>8, LotsCovered
<1> HIDE DEF l, q, n
<1>10. m.left = 0 /\ m.gross = Sum(GainOf(q, orders[o].px, n), n)
  BY <1>1, <1>7, <1>8, <1>9, MatchCovered DEF n
<1>11. TrueGross(o) = Sum(GainOf(q, orders[o].px, n), n)
  BY DEF TrueGross, GainOf, q, n, Sold
<1>12. MatchOf(orders, DOMAIN orders, o)
          = [gross |-> IF m.left = 0 THEN m.gross ELSE 0, complete |-> m.left = 0,
             lots |-> m.used]
  BY DEF MatchOf, l
<1> HIDE DEF m
<1>13. MatchOf(orders, DOMAIN orders, o)
          = [gross |-> m.gross, complete |-> TRUE, lots |-> m.used]
  <2>1. (m.left = 0) = TRUE
    BY <1>10
  <2> QED BY <1>12, <2>1
<1>14. m.gross = TrueGross(o)
  BY <1>10, <1>11, Zenon
<1> QED BY <1>13, <1>14

-----------------------------------------------------------------------------
(* A row repaired once more stays as it is.                                *)
LEMMA FieldsTwice ==
    ASSUME NEW r, NEW k, NEW m, r.note \in NoteType, k.px \in Nat
    PROVE  AfterFields(AfterFields(r, k, m), k, m) = AfterFields(r, k, m)
<1> DEFINE f == AfterFields(r, k, m)
           g == AfterFields(f, k, m)
           note(x) == IF k.side = "buy" THEN [x EXCEPT !.px = k.px]
                      ELSE [px |-> k.px, gross |-> m.gross, complete |-> m.complete,
                            lots |-> m.lots]
           pnl(x) == IF k.side = "sell" /\ m.complete THEN m.gross ELSE x
<1>1. f = [price |-> k.px, pnl |-> pnl(r.pnl), exe |-> k.exe, status |-> "executed",
           aware |-> TRUE, note |-> note(r.note)]
  BY DEF AfterFields
<1>2. g = [price |-> k.px, pnl |-> pnl(f.pnl), exe |-> k.exe, status |-> "executed",
           aware |-> TRUE, note |-> note(f.note)]
  BY DEF AfterFields
<1> HIDE DEF f, g
<1>3. pnl(f.pnl) = pnl(r.pnl)
  BY <1>1
<1>4. note(f.note) = note(r.note)
  <2>1. f.note = note(r.note)
    BY <1>1
  <2>2. note(note(r.note)) = note(r.note)
    BY DEF NoteType
  <2> HIDE DEF note
  <2> QED BY <2>1, <2>2
<1>5. g = f
  <2> HIDE DEF note, pnl
  <2> QED BY <1>1, <1>2, <1>3, <1>4
<1> QED BY <1>5 DEF f, g

(* With every order executed at a known time, a repair of all days uses    *)
(* them all.                                                               *)
LEMMA AllUsable ==
    ASSUME NEW w, OrdersOK(orders), w.kis = orders, w.from = 1, w.to = LastDay,
           \A o \in DOMAIN orders : Executed(orders[o]) /\ orders[o].timed
    PROVE  Usable(w) = DOMAIN orders
<1>1. \A o \in DOMAIN orders : orders[o].at \in 1 .. LastDay
  BY OrdersAre
<1> QED BY <1>1 DEF Usable

(* What RepairExact says of one repair.                                    *)
LEMMA RepairIsExact ==
    ASSUME RepairInv, Apply, tool.from = 1, tool.to = LastDay,
           tool.rows = records, tool.kis = orders,
           \A o \in DOMAIN orders : Executed(orders[o]) /\ orders[o].timed
    PROVE  LET sells == {o \in DOMAIN records : orders[o].side = "sell"} IN
           /\ \A o \in sells : records'[o].pnl = TrueGross(o)
           /\ GrossTotal(tool) = Total([o \in sells |-> records'[o].pnl])
           /\ Changed([from |-> 1, to |-> LastDay, kis |-> orders, rows |-> records']) = {}
<1> DEFINE U == DOMAIN orders
           sells == {o \in DOMAIN records : orders[o].side = "sell"}
           M == Matches(orders, U)
           m(o) == IF orders[o].side = "sell" THEN M[o] ELSE NoNote
           f(o) == AfterFields(records[o], orders[o], m(o))
           C == Changed(tool)
           w == [from |-> 1, to |-> LastDay, kis |-> orders, rows |-> records']
<1>1. AllExecuted /\ OrdersOK(orders) /\ RecordsOK(records, orders)
      /\ DOMAIN records \subseteq U
  BY DEF RepairInv, AllExecuted, RecordsOK
<1>2. Usable(tool) = U
  BY <1>1, AllUsable
<1>3. Usable(w) = U /\ w.kis = orders /\ w.rows = records'
  <2>1. w.kis = orders /\ w.from = 1 /\ w.to = LastDay /\ w.rows = records'
    OBVIOUS
  <2> HIDE DEF w
  <2> QED BY <1>1, <2>1, AllUsable
<1> HIDE DEF w
<1>4. \A o \in sells : M[o].complete = TRUE /\ M[o].gross = TrueGross(o)
  <2> TAKE o \in sells
  <2>1. o \in DOMAIN orders /\ orders[o].side = "sell"
    BY <1>1
  <2>2. M[o] = MatchOf(orders, DOMAIN orders, o)
    BY <2>1 DEF Matches
  <2> HIDE DEF M
  <2> QED BY <1>1, <2>1, <2>2, MatchIsTrue
<1>5. DOMAIN M \cap DOMAIN records = sells
  BY <1>1 DEF Matches
<1> HIDE DEF M
<1>6. /\ \A o : NewFields(tool, o) = f(o)
      /\ C = {o \in DOMAIN records : [f(o) EXCEPT !.aware = records[o].aware] # records[o]}
  <2>1. \A o : NewFields(tool, o) = f(o)
    BY <1>2 DEF NewFields, M
  <2> HIDE DEF f
  <2>2. C = {o \in Usable(tool) \cap DOMAIN records :
                [f(o) EXCEPT !.aware = records[o].aware] # records[o]}
    BY <2>1 DEF Changed
  <2> QED BY <1>1, <1>2, <2>1, <2>2
<1>7. /\ DOMAIN records' = DOMAIN records
      /\ \A o \in DOMAIN records : records'[o] = IF o \in C THEN f(o) ELSE records[o]
  <2>1. records' = [o \in DOMAIN records |->
                       IF o \in DOMAIN Proposed(tool) THEN Proposed(tool)[o]
                       ELSE records[o]]
    BY DEF Apply
  <2> HIDE DEF f
  <2>2. DOMAIN Proposed(tool) = C /\ \A o \in C : Proposed(tool)[o] = f(o)
    BY <1>6 DEF Proposed
  <2> HIDE DEF C
  <2> QED BY <2>1, <2>2
<1> HIDE DEF C
<1>8. ASSUME NEW o \in sells PROVE records'[o].pnl = TrueGross(o)
  <2>1. f(o).pnl = TrueGross(o)
    BY <1>4 DEF AfterFields
  <2>2. CASE o \in C
    <3> HIDE DEF f
    <3> QED BY <1>7, <2>1, <2>2
  <2>3. CASE o \notin C
    <3>1. [f(o) EXCEPT !.aware = records[o].aware] = records[o]
      BY <1>6, <2>3
    <3>2. [f(o) EXCEPT !.aware = records[o].aware].pnl = f(o).pnl
      BY DEF AfterFields
    <3> HIDE DEF f
    <3> QED BY <1>7, <2>1, <2>3, <3>1, <3>2
  <2> QED BY <2>2, <2>3
<1>9. GrossTotal(tool) = Total([o \in sells |-> records'[o].pnl])
  <2>1. GrossTotal(tool) = Total([o \in DOMAIN M \cap DOMAIN records |-> M[o].gross])
    BY <1>2 DEF GrossTotal, M
  <2>2. \A o \in sells : M[o].gross = records'[o].pnl
    BY <1>4, <1>8
  <2> HIDE DEF sells
  <2>3. [o \in DOMAIN M \cap DOMAIN records |-> M[o].gross]
           = [o \in sells |-> records'[o].pnl]
    BY <1>5, <2>2
  <2> QED BY <2>1, <2>3
<1>10. ASSUME NEW o \in DOMAIN records
       PROVE  [NewFields(w, o) EXCEPT !.aware = records'[o].aware] = records'[o]
  <2>1. NewFields(w, o) = AfterFields(records'[o], orders[o], m(o))
    BY <1>3 DEF NewFields, M
  <2>2. records[o].note \in NoteType /\ orders[o].px \in Nat
    <3>1. RowOK(records[o], orders[o]) /\ orders[o].px \in Nat
      BY <1>1, RecordsAre, OrdersAre
    <3> QED BY <3>1 DEF RowOK, RecordType
  <2> HIDE DEF m
  <2>3. CASE o \in C
    <3>1. records'[o] = f(o)
      BY <1>7, <2>3
    <3>2. NewFields(w, o) = f(o)
      BY <2>1, <2>2, <3>1, FieldsTwice
    <3>3. [f(o) EXCEPT !.aware = f(o).aware] = f(o)
      BY DEF AfterFields
    <3> HIDE DEF f
    <3> QED BY <3>1, <3>2, <3>3
  <2>4. CASE o \notin C
    <3>1. records'[o] = records[o]
      BY <1>7, <2>4
    <3>2. [f(o) EXCEPT !.aware = records[o].aware] = records[o]
      BY <1>6, <2>4
    <3>3. NewFields(w, o) = f(o)
      BY <2>1, <3>1
    <3> HIDE DEF f
    <3> QED BY <3>1, <3>2, <3>3
  <2> QED BY <2>3, <2>4
<1>11. Changed(w) = {}
  <2>1. Changed(w) = {o \in U \cap DOMAIN records' :
                        [NewFields(w, o) EXCEPT !.aware = records'[o].aware] # records'[o]}
    BY <1>3 DEF Changed
  <2> QED BY <1>7, <1>10, <2>1
<1> QED BY <1>8, <1>9, <1>11 DEF w

(* A repair of all days, with every order executed in full and nothing     *)
(* written since it read, gives each sell that has a row the profit of the *)
(* very shares it sold, reports their sum, and would change nothing if it  *)
(* ran again, for any number of orders, prices and quantities.             *)
THEOREM RepairIsExactAlways == RepairSpec => RepairExact
<1>1. RepairInv /\ [RepairNext]_repairvars =>
        [Apply /\ tool.from = 1 /\ tool.to = LastDay
         /\ tool.rows = records /\ tool.kis = orders
         /\ (\A o \in DOMAIN orders : Executed(orders[o]) /\ orders[o].timed)
         => LET sells == {o \in DOMAIN records : orders[o].side = "sell"} IN
            /\ \A o \in sells : records'[o].pnl = TrueGross(o)
            /\ GrossTotal(tool) = Total([o \in sells |-> records'[o].pnl])
            /\ Changed([from |-> 1, to |-> LastDay, kis |-> orders, rows |-> records']) = {}
        ]_repairvars
  BY RepairIsExact
<1> QED BY <1>1, RepairInvHolds, PTL DEF RepairExact, RepairSpec

==============================================================================
