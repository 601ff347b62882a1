---------------------------- MODULE RiskCycleProofs ----------------------------
(* Proofs about RiskCycle for any number of tickers, shares and faults.    *)
EXTENDS RiskCycle, TLAPS

(* What is still to be judged is listed in the balance file as it is, for  *)
(* the file is not written again before the cycle is over.                 *)
Listing == loop.at \in {"judge", "order"} => loop.todo \subseteq Listed(file)

(* The trade table calls no young holding old, unless it has a row of an   *)
(* earlier purchase only.                                                  *)
RowTells == \A t \in Ticker : age[t] = "young" /\ t \notin lost => row[t] # "old"

(* An order in hand for a whole young holding, outside an emergency, was   *)
(* judged of an earlier holding or by the row of one.                      *)
RipeOrder == loop.at = "order" /\ loop.kind = "whole" /\ age[loop.t] = "young" => loop.unaware

IInv == TypeOK /\ Listing /\ RowTells /\ RipeOrder

-----------------------------------------------------------------------------
(* Half of a holding is at least a share and at most the holding.          *)
LEMMA PartialQtyBounds ==
  ASSUME NEW n \in Nat \ {0}
  PROVE  PartialQty(n) \in 1 .. n
  BY DEF PartialQty

(* A judgement leads to the next ticker, the end of the cycle or an order. *)
LEMMA JudgeLeads ==
  ASSUME IInv, NEW t \in Ticker, Judge(t)
  PROVE  \/ loop' = Rest
         \/ loop' = Judging(loop.todo \ {t})
         \/ \E kind \in Decision, n \in 1 .. file.n[t] :
               ToOrder(t, n, kind) /\ (kind = "whole" => row[t] = "old")
<1> USE DEF Decision
<1>1. file.n[t] \in Nat \ {0}
  BY DEF IInv, TypeOK, Listing, Listed, Judge
<1>2. CASE Skip(t)
  BY <1>2 DEF Skip
<1>3. CASE \E p \in PriceOf(t), d \in Decision :
             /\ <<Situation(t, p), d>> \in Decided
             /\ CASE d = "fail" -> loop' = Rest
                  [] d \in {"emergency", "whole"} /\ CanSell(t, d) ->
                         ToOrder(t, file.n[t], d)
                  [] d = "part" /\ CanTakePart(t) ->
                         ToOrder(t, PartialQty(file.n[t]), d)
                  [] OTHER -> Skip(t)
  <2>1. PICK d \in Decision :
             CASE d = "fail" -> loop' = Rest
               [] d \in {"emergency", "whole"} /\ CanSell(t, d) ->
                      ToOrder(t, file.n[t], d)
               [] d = "part" /\ CanTakePart(t) ->
                      ToOrder(t, PartialQty(file.n[t]), d)
               [] OTHER -> Skip(t)
    BY <1>3
  <2>2. CASE d = "fail"
    BY <2>1, <2>2
  <2>3. CASE d \in {"emergency", "whole"} /\ CanSell(t, d)
    <3>1. ToOrder(t, file.n[t], d)
      BY <2>1, <2>3
    <3>2. d = "whole" => row[t] = "old"
      BY <2>3 DEF CanSell, Hours
    <3> QED BY <1>1, <3>1, <3>2
  <2>4. CASE d = "part" /\ CanTakePart(t)
    <3>1. ToOrder(t, PartialQty(file.n[t]), d)
      BY <2>1, <2>4
    <3> QED BY <1>1, <2>4, <3>1, PartialQtyBounds
  <2>5. CASE /\ d # "fail" /\ ~(d \in {"emergency", "whole"} /\ CanSell(t, d))
             /\ ~(d = "part" /\ CanTakePart(t))
    BY <2>1, <2>5 DEF Skip
  <2> QED BY <2>2, <2>3, <2>4, <2>5
<1> QED BY <1>2, <1>3 DEF Judge

(* No more is up for sale than is held, and no order is for less than a    *)
(* share or more than a lot.                                               *)
LEMMA TypeStep ==
  ASSUME IInv, [Next]_vars PROVE TypeOK'
<1> USE CycleAssumption
    DEF IInv, TypeOK, market, holding, table, Fault, Ages, Rest, Dead, Judging, Empty
<1>1. CASE Start
  <2>1. client' \in BOOLEAN
    BY <1>1 DEF Start
  <2>2. faults' \in 0 .. MaxFaults /\ loop' = Rest
    BY <1>1 DEF Start
  <2>3. UNCHANGED <<config, open, market, file, holding, table>>
    BY <1>1 DEF Start
  <2> QED BY <2>1, <2>2, <2>3
<1>2. CASE BeginCycle
  BY <1>2 DEF BeginCycle, Refresh, NothingListed, Listed
<1>3. CASE TraderEnds
  BY <1>3 DEF TraderEnds
<1>4. ASSUME NEW t \in Ticker, Judge(t) PROVE TypeOK'
  <2>1. UNCHANGED <<config, open, market, file, holding, table, client>> /\ faults' \in 0 .. MaxFaults
    BY <1>4 DEF Judge, Skip, ToOrder
  <2>2. CASE loop' = Rest \/ loop' = Judging(loop.todo \ {t})
    <3>1. loop.todo \subseteq Ticker
      BY <1>4 DEF Judge
    <3> QED BY <2>1, <2>2, <3>1
  <2>3. ASSUME NEW kind \in Decision, NEW n \in 1 .. file.n[t], ToOrder(t, n, kind)
        PROVE  TypeOK'
    <3>1. loop.todo \subseteq Ticker
      BY <1>4 DEF Judge
    <3>2. n \in 1 .. config.lot[t]
      BY <2>3
    <3> QED BY <2>1, <2>3, <3>1, <3>2 DEF ToOrder
  <2> QED BY <1>4, <2>2, <2>3, JudgeLeads
<1>5. CASE CycleEnds
  BY <1>5 DEF CycleEnds
<1>6. CASE Order
  BY <1>6 DEF Order, Accepted, Recorded, Free
<1>7. CASE OrderTooLate
  BY <1>7 DEF OrderTooLate
<1>8. CASE Crash
  BY <1>8 DEF Crash
<1>9. CASE Opens
  BY <1>9 DEF Opens
<1>10. CASE Closes
  <2>1. pending' = [t \in Ticker |-> 0] /\ open' = FALSE
    BY <1>10 DEF Closes
  <2>2. UNCHANGED <<config, qty, crashed, file, holding, table, loop, client, faults>>
    BY <1>10 DEF Closes
  <2>3. pending' \in [Ticker -> Nat] /\ \A t \in Ticker : pending'[t] <= qty[t]
    BY <2>1
  <2> HIDE DEF Empty
  <2> QED BY <2>1, <2>2, <2>3
<1>11. ASSUME NEW t \in Ticker, WeeksPass(t) PROVE TypeOK'
  BY <1>11 DEF WeeksPass
<1>12. ASSUME NEW t \in Ticker, Fill(t) PROVE TypeOK'
  BY <1>12 DEF Fill
<1>13. ASSUME NEW t \in Ticker, Reconcile(t) PROVE TypeOK'
  BY <1>13 DEF Reconcile
<1>14. ASSUME NEW t \in Ticker, Buy(t) PROVE TypeOK'
  <2>1. /\ UNCHANGED <<config, open, pending, crashed, file, sellRow, lock, flagged, client>>
        /\ qty' = [qty EXCEPT ![t] = config.lot[t]] /\ age' = [age EXCEPT ![t] = "young"]
        /\ row' \in {row, [row EXCEPT ![t] = "young"]} /\ lost' \subseteq Ticker
        /\ faults' \in 0 .. MaxFaults
    BY <1>14 DEF Buy
  <2>2. qty' \in [Ticker -> Nat] /\ \A u \in Ticker : qty'[u] <= config.lot[u] /\ pending'[u] <= qty'[u]
    BY <2>1
  <2>3. CASE Ordering(t)
    <3>1. loop' = [loop EXCEPT !.unaware = TRUE]
      BY <1>14, <2>3 DEF Buy
    <3>2. /\ loop'.at = "order" /\ loop'.todo = loop.todo /\ loop'.t = loop.t /\ loop'.n = loop.n
          /\ loop'.kind = loop.kind /\ loop'.unaware = TRUE
      BY <2>3, <3>1 DEF Ordering
    <3>3. /\ loop.todo \subseteq Ticker /\ loop.t \in Ticker
          /\ loop.n \in 1 .. config.lot[loop.t] /\ loop.kind \in Decision
      BY <2>3 DEF Ordering
    <3>4. /\ loop'.at = "order" /\ loop'.todo \subseteq Ticker /\ loop'.t \in Ticker
          /\ loop'.n \in 1 .. config'.lot[loop'.t] /\ loop'.kind \in Decision
          /\ loop'.unaware \in BOOLEAN
      BY <2>1, <3>2, <3>3
    <3> QED BY <2>1, <2>2, <3>4
  <2>4. CASE ~Ordering(t)
    <3>1. loop' = loop
      BY <1>14, <2>4 DEF Buy
    <3> QED BY <2>1, <2>2, <3>1
  <2> QED BY <2>3, <2>4
<1>15. ASSUME NEW t \in Ticker, PriceMoves(t) PROVE TypeOK'
  BY <1>15 DEF PriceMoves
<1>16. CASE UNCHANGED vars
  BY <1>16 DEF vars
<1> QED
  BY <1>1, <1>2, <1>3, <1>4, <1>5, <1>6, <1>7, <1>8, <1>9, <1>10, <1>11, <1>12, <1>13, <1>14, <1>15, <1>16 DEF Next, Loop

(* The balance file is only written between two cycles.                    *)
LEMMA ListingStep ==
  ASSUME IInv, [Next]_vars PROVE Listing'
<1> USE CycleAssumption
    DEF IInv, TypeOK, market, holding, table, Fault, Ages, Rest, Dead, Judging, Empty
<1> USE DEF Listing, Listed
<1>1. CASE Start
  BY <1>1 DEF Start
<1>2. CASE BeginCycle
  BY <1>2 DEF BeginCycle, Refresh, NothingListed, Listed
<1>3. CASE TraderEnds
  BY <1>3 DEF TraderEnds
<1>4. ASSUME NEW t \in Ticker, Judge(t) PROVE Listing'
  <2>1. file' = file /\ loop.todo \subseteq Listed(file)
    BY <1>4 DEF Judge
  <2> QED BY <1>4, <2>1, JudgeLeads DEF ToOrder
<1>5. CASE CycleEnds
  BY <1>5 DEF CycleEnds
<1>6. CASE Order
  BY <1>6 DEF Order, Accepted, Recorded, Free
<1>7. CASE OrderTooLate
  BY <1>7 DEF OrderTooLate
<1>8. CASE Crash
  BY <1>8 DEF Crash
<1>9. CASE Opens
  BY <1>9 DEF Opens
<1>10. CASE Closes
  BY <1>10 DEF Closes
<1>11. ASSUME NEW t \in Ticker, WeeksPass(t) PROVE Listing'
  BY <1>11 DEF WeeksPass
<1>12. ASSUME NEW t \in Ticker, Fill(t) PROVE Listing'
  BY <1>12 DEF Fill
<1>13. ASSUME NEW t \in Ticker, Reconcile(t) PROVE Listing'
  BY <1>13 DEF Reconcile
<1>14. ASSUME NEW t \in Ticker, Buy(t) PROVE Listing'
  BY <1>14 DEF Buy
<1>15. ASSUME NEW t \in Ticker, PriceMoves(t) PROVE Listing'
  BY <1>15 DEF PriceMoves
<1>16. CASE UNCHANGED vars
  BY <1>16 DEF vars
<1> QED
  BY <1>1, <1>2, <1>3, <1>4, <1>5, <1>6, <1>7, <1>8, <1>9, <1>10, <1>11, <1>12, <1>13, <1>14, <1>15, <1>16 DEF Next, Loop

(* A row is young as long as the holding bought with it.                   *)
LEMMA RowStep ==
  ASSUME IInv, [Next]_vars PROVE RowTells'
<1> USE CycleAssumption
    DEF IInv, TypeOK, market, holding, table, Fault, Ages, Rest, Dead, Judging, Empty
<1> USE DEF RowTells
<1>1. CASE Start
  BY <1>1 DEF Start
<1>2. CASE BeginCycle
  BY <1>2 DEF BeginCycle, Refresh, NothingListed, Listed
<1>3. CASE TraderEnds
  BY <1>3 DEF TraderEnds
<1>4. ASSUME NEW t \in Ticker, Judge(t) PROVE RowTells'
  BY <1>4 DEF Judge
<1>5. CASE CycleEnds
  BY <1>5 DEF CycleEnds
<1>6. CASE Order
  BY <1>6 DEF Order, Accepted, Recorded, Free
<1>7. CASE OrderTooLate
  BY <1>7 DEF OrderTooLate
<1>8. CASE Crash
  BY <1>8 DEF Crash
<1>9. CASE Opens
  BY <1>9 DEF Opens
<1>10. CASE Closes
  BY <1>10 DEF Closes
<1>11. ASSUME NEW t \in Ticker, WeeksPass(t) PROVE RowTells'
  BY <1>11 DEF WeeksPass
<1>12. ASSUME NEW t \in Ticker, Fill(t) PROVE RowTells'
  BY <1>12 DEF Fill
<1>13. ASSUME NEW t \in Ticker, Reconcile(t) PROVE RowTells'
  BY <1>13 DEF Reconcile
<1>14. ASSUME NEW t \in Ticker, Buy(t) PROVE RowTells'
  BY <1>14 DEF Buy, Ordering
<1>15. ASSUME NEW t \in Ticker, PriceMoves(t) PROVE RowTells'
  BY <1>15 DEF PriceMoves
<1>16. CASE UNCHANGED vars
  BY <1>16 DEF vars
<1> QED
  BY <1>1, <1>2, <1>3, <1>4, <1>5, <1>6, <1>7, <1>8, <1>9, <1>10, <1>11, <1>12, <1>13, <1>14, <1>15, <1>16 DEF Next, Loop

(* Only the judgement of a holding makes an order.                         *)
LEMMA RipeStep ==
  ASSUME IInv, [Next]_vars PROVE RipeOrder'
<1> USE CycleAssumption
    DEF IInv, TypeOK, market, holding, table, Fault, Ages, Rest, Dead, Judging, Empty
<1> USE DEF RipeOrder
<1>1. CASE Start
  BY <1>1 DEF Start
<1>2. CASE BeginCycle
  BY <1>2 DEF BeginCycle, Refresh, NothingListed, Listed
<1>3. CASE TraderEnds
  BY <1>3 DEF TraderEnds
<1>4. ASSUME NEW t \in Ticker, Judge(t) PROVE RipeOrder'
  <2>1. age' = age /\ (row[t] = "old" /\ age[t] = "young" => t \in lost)
    BY <1>4 DEF Judge, RowTells
  <2>2. CASE loop' = Rest \/ loop' = Judging(loop.todo \ {t})
    BY <2>2
  <2>3. ASSUME NEW kind \in Decision, NEW n \in 1 .. file.n[t], ToOrder(t, n, kind),
               kind = "whole" => row[t] = "old"
        PROVE  RipeOrder'
    BY <2>1, <2>3 DEF ToOrder
  <2> QED BY <1>4, <2>2, <2>3, JudgeLeads
<1>5. CASE CycleEnds
  BY <1>5 DEF CycleEnds
<1>6. CASE Order
  BY <1>6 DEF Order, Accepted, Recorded, Free
<1>7. CASE OrderTooLate
  BY <1>7 DEF OrderTooLate
<1>8. CASE Crash
  BY <1>8 DEF Crash
<1>9. CASE Opens
  BY <1>9 DEF Opens
<1>10. CASE Closes
  BY <1>10 DEF Closes
<1>11. ASSUME NEW t \in Ticker, WeeksPass(t) PROVE RipeOrder'
  BY <1>11 DEF WeeksPass
<1>12. ASSUME NEW t \in Ticker, Fill(t) PROVE RipeOrder'
  BY <1>12 DEF Fill
<1>13. ASSUME NEW t \in Ticker, Reconcile(t) PROVE RipeOrder'
  BY <1>13 DEF Reconcile
<1>14. ASSUME NEW t \in Ticker, Buy(t) PROVE RipeOrder'
  BY <1>14 DEF Buy, Ordering
<1>15. ASSUME NEW t \in Ticker, PriceMoves(t) PROVE RipeOrder'
  BY <1>15 DEF PriceMoves
<1>16. CASE UNCHANGED vars
  BY <1>16 DEF vars
<1> QED
  BY <1>1, <1>2, <1>3, <1>4, <1>5, <1>6, <1>7, <1>8, <1>9, <1>10, <1>11, <1>12, <1>13, <1>14, <1>15, <1>16 DEF Next, Loop

(* Only an order of the cycle puts shares up for sale, those of its ticker. *)
LEMMA OrderAlone ==
  ASSUME IInv, [Next]_vars, NEW u \in Ticker, pending'[u] > pending[u]
  PROVE  loop.at = "order" /\ loop.t = u
<1> USE CycleAssumption
    DEF IInv, TypeOK, market, holding, table, Fault, Ages, Rest, Dead, Judging, Empty
<1>1. CASE Start
  BY <1>1 DEF Start
<1>2. CASE BeginCycle
  BY <1>2 DEF BeginCycle, Refresh, NothingListed, Listed
<1>3. CASE TraderEnds
  BY <1>3 DEF TraderEnds
<1>4. ASSUME NEW t \in Ticker, Judge(t) PROVE loop.at = "order" /\ loop.t = u
  BY <1>4 DEF Judge
<1>5. CASE CycleEnds
  BY <1>5 DEF CycleEnds
<1>6. CASE Order
  BY <1>6 DEF Order, Accepted, Recorded, Free
<1>7. CASE OrderTooLate
  BY <1>7 DEF OrderTooLate
<1>8. CASE Crash
  BY <1>8 DEF Crash
<1>9. CASE Opens
  BY <1>9 DEF Opens
<1>10. CASE Closes
  BY <1>10 DEF Closes
<1>11. ASSUME NEW t \in Ticker, WeeksPass(t) PROVE loop.at = "order" /\ loop.t = u
  BY <1>11 DEF WeeksPass
<1>12. ASSUME NEW t \in Ticker, Fill(t) PROVE loop.at = "order" /\ loop.t = u
  BY <1>12 DEF Fill
<1>13. ASSUME NEW t \in Ticker, Reconcile(t) PROVE loop.at = "order" /\ loop.t = u
  BY <1>13 DEF Reconcile
<1>14. ASSUME NEW t \in Ticker, Buy(t) PROVE loop.at = "order" /\ loop.t = u
  BY <1>14 DEF Buy
<1>15. ASSUME NEW t \in Ticker, PriceMoves(t) PROVE loop.at = "order" /\ loop.t = u
  BY <1>15 DEF PriceMoves
<1>16. CASE UNCHANGED vars
  BY <1>16 DEF vars
<1> QED
  BY <1>1, <1>2, <1>3, <1>4, <1>5, <1>6, <1>7, <1>8, <1>9, <1>10, <1>11, <1>12, <1>13, <1>14, <1>15, <1>16 DEF Next, Loop

-----------------------------------------------------------------------------
THEOREM Invariance == Spec => []IInv
<1>1. Init => IInv
  <2> SUFFICES ASSUME Init PROVE IInv
    OBVIOUS
  <2> USE CycleAssumption DEF Init, Rest, Dead, Ages
  <2>1. /\ config \in Begin /\ config.lot \in [Ticker -> Nat]
        /\ open \in BOOLEAN /\ client \in BOOLEAN
    OBVIOUS
  <2>2. /\ pending = [t \in Ticker |-> 0]
        /\ file = [n |-> [t \in Ticker |-> 0], crashed |-> {}]
    BY DEF Empty
  <2>3. /\ qty \in [Ticker -> Nat] /\ \A t \in Ticker : qty[t] <= config.lot[t]
        /\ row \in [Ticker -> Ages \cup {"none"}]
    BY <2>1
  <2>4. /\ crashed = {} /\ sellRow = {} /\ flagged = {} /\ faults = 0 /\ loop = Dead
        /\ age = [t \in Ticker |-> "old"] /\ lost = {}
        /\ lock \in [Ticker -> {"none", "whole", "part"}]
    OBVIOUS
  <2>5. TypeOK
    BY <2>1, <2>2, <2>3, <2>4 DEF TypeOK
  <2> QED BY <2>4, <2>5 DEF IInv, Listing, RowTells, RipeOrder
<1>2. IInv /\ [Next]_vars => IInv'
  BY TypeStep, ListingStep, RowStep, RipeStep DEF IInv
<1> QED
  BY <1>1, <1>2, PTL DEF Spec

(* Type correctness: whatever the balance file said when a holding was     *)
(* judged, no more of a ticker is up for sale at KIS than is held.         *)
THEOREM TypeCorrect == Spec => []TypeOK
<1>1. IInv => TypeOK
  BY DEF IInv
<1> QED
  BY <1>1, Invariance, PTL

(* A holding is sold whole outside an emergency only after its minimum     *)
(* holding time, under any rules, prices and faults, unless the trade      *)
(* table has but an earlier purchase of it, or it was bought with the      *)
(* order in hand.                                                          *)
THEOREM YoungAreKept == Spec => YoungKept
<1>1. IInv /\ [Next]_vars => [\A t \in Ticker : Unripe(t) => loop.unaware]_vars
  BY OrderAlone DEF IInv, RipeOrder, Unripe
<1> QED
  BY <1>1, Invariance, PTL DEF YoungKept, Spec

=============================================================================
