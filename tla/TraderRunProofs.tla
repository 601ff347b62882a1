--------------------------- MODULE TraderRunProofs ---------------------------
(* Proofs about TraderRun for any number of tickers, shares and faults,    *)
(* any plans and any account the run may find.                             *)
EXTENDS TraderRun, FiniteSetTheorems, SequenceTheorems, TLAPS

(* The stages of a run: the sales, the extra buys, the rounds.             *)
SellPhase  == {"start", "started", "weigh", "reduce", "again", "rebalanced", "hours",
               "sells", "sent", "compare", "sold"}
RebuyPhase == {"first", "rebuy", "size", "limit", "limited", "spent", "fallback1", "market1",
               "again1", "fallback2", "market2"}
RoundPhase == {"next", "synced", "sizing", "capped", "placed", "late", "marketable", "crossed",
               "market", "market order", "confirm", "confirming", "bought"}
BuyPhase   == RebuyPhase \cup RoundPhase
PreBuy     == SellPhase \cup {"gates"}

(* There is a plan in hand wherever one is worked on, and tries counts     *)
(* where something is awaited.                                             *)
Staged ==
    /\ pc \in PreBuy \cup BuyPhase \cup {"over"}
    /\ pc \in BuyPhase \ {"first", "rebuy", "next"} => queue # <<>>
    /\ pc \in {"sent", "compare"} => cur \in Ticker
    /\ pc \notin {"sold", "confirm", "confirming"} => tries = 0
    /\ pc = "confirm" => tries < Tries

(* An order that is waited for has what is left of it live.                *)
OrderLive ==
    Answered =>
        /\ ord.done <= ord.q
        /\ ord.side = "buy"  => ord.q - ord.done <= liveBuy[ord.t]
        /\ ord.side = "sell" => ord.q - ord.done <= liveSell[ord.t] /\ ord.done <= sold[ord.t]

TypesOK == TypeOK /\ Events <= MaxEvents /\ Staged /\ OrderLive

(* The snapshot shows no more to sell than there is, of whatever may still *)
(* be sold by it.                                                          *)
Known(t) == t \in changed \/ seen.sell[t] <= Sellable(t)
SellsKnown ==
    /\ pc \in {"weigh", "again", "rebalanced", "hours"} => \A t \in Ticker : Known(t)
    /\ pc = "reduce" /\ ~adjusted => \A t \in Ticker : Known(t)
    /\ pc \in {"reduce", "sells", "sent", "compare"} => \A t \in todo : Known(t)

(* A ticker is recorded once, after it was taken from the list; and shares *)
(* leave the account of KIS by a sale only.                                *)
RecordedOnce ==
    /\ pc \in {"start", "started", "weigh", "reduce", "again", "rebalanced", "hours"} =>
         \A t \in Ticker : recSold[t] = 0
    /\ pc \in {"sells", "sent", "compare"} => \A t \in todo : recSold[t] = 0
    /\ pc \in {"sent", "compare"} => cur \notin todo /\ recSold[cur] = 0
    /\ pc = "sent" /\ Answered => ord.side = "sell" /\ ord.t = cur
    /\ fails + gaps = 0 =>
         /\ pc \in SellPhase \ {"start"} => seen.ok
         /\ pc \in SellPhase =>
              \A t \in Ticker : hs[t] <= hold[t] + sold[t] /\ seen.hold[t] <= hold[t] + sold[t]
         /\ pc = "compare" => hs[cur] <= seen.hold[cur] + sold[cur]
         /\ \A t \in Ticker : recSold[t] <= sold[t]

(* What the snapshot says can be spent is there when an order is made from *)
(* it, and nothing was spent since the quantity was capped.                *)
CashKnown ==
    /\ pc \in {"limit", "market1", "market2", "capped", "market order"} => seen.cash <= cash
    /\ lost = 0 /\ pc \in {"late", "marketable"} => q + Reserve <= cash
    /\ lost = 0 /\ pc = "placed" /\ ~Answered => q + Reserve <= cash

(* The sequences of plans hold every ticker once; what is planned as a new *)
(* position is not held, what is bought again is.                          *)
Listed(s)       == {s[i] : i \in DOMAIN s}
OnePlace(s)     == \A i, j \in DOMAIN s : s[i] = s[j] => i = j

RebuyLists(tg, qu, fa, nw, bk) ==
    /\ fa = <<>> /\ OnePlace(tg) /\ OnePlace(qu) /\ OnePlace(nw)
    /\ Listed(qu) \subseteq bk /\ Listed(tg) \subseteq bk /\ Listed(nw) \cap bk = {}

RoundLists(tg, qu, fa) ==
    /\ OnePlace(tg) /\ OnePlace(qu) /\ OnePlace(fa)
    /\ Listed(qu) \subseteq Listed(tg) /\ Listed(qu) \cap Listed(fa) = {}

Planned ==
    /\ pc \in PreBuy => queue = <<>> /\ failed = <<>>
    /\ pc \in RebuyPhase => RebuyLists(targets, queue, failed, new, book)
    /\ pc \in RoundPhase => RoundLists(targets, queue, failed)

(* Nothing was bought of a ticker yet, unless an order for it was given up.*)
Unbought(t) == t \in loose \/ Taken(t) <= 0

(* The plan in hand may have been bought.                                  *)
Spending ==
    \/ pc \in {"spent", "bought"}
    \/ pc \in {"limited", "placed", "crossed", "confirm", "confirming"} /\ Answered

InHand == IF Spending THEN {Top} ELSE {}

(* The tickers still to be bought, in this round or a later one.           *)
Wanted(t) ==
    \/ pc = "first" /\ t \in Listed(targets)
    \/ pc \in RebuyPhase /\ t \in (Listed(queue) \ InHand) \cup Listed(new)
    \/ pc \in RoundPhase /\ t \in (Listed(targets) \ InHand) \cup Listed(failed)

(* No quantity is more than an order's worth, and what is still to be      *)
(* bought was not bought.                                                  *)
Amounts ==
    /\ q <= MaxShares
    /\ pc \in {"market1", "market2"} => pre <= MaxShares
    /\ pc \in {"late", "marketable", "market", "market order", "fallback1"} => ~Answered
    /\ pc \in PreBuy => \A t \in Ticker : Taken(t) <= 0
    /\ lost = 0 =>
         /\ \A t \in Ticker \ loose : Taken(t) <= MaxShares
         /\ \A t \in Ticker : Wanted(t) => Unbought(t)

(* The positions are those of the start, then those the trader was told    *)
(* of, then those and the ones that fill the free slots.                   *)
Extra == Positions \ start.early
PreSlots ==
    /\ \A t \in Ticker \ start.early : liveBuy[t] = 0
    /\ Extra \subseteq Held(start.hold) /\ Held(seen.hold) \ start.early \subseteq Held(start.hold)
    /\ gaps = 0 /\ ~blocked /\ pc # "start" => seen.ok /\ Extra \subseteq Held(seen.hold)
    /\ gaps = 0 /\ ~blocked /\ pc \notin {"start", "started"} => Extra \subseteq book
RebuySlots == eff <= start.slots /\ (gaps = 0 => Extra \subseteq book)
RoundSlots ==
    \E W \in SUBSET Ticker :
        /\ Cardinality(W) <= Max({0, start.slots - Cardinality(book)})
        /\ Listed(targets) \cup Listed(failed) \subseteq W
        /\ gaps = 0 => Extra \subseteq book \cup W
Slots ==
    /\ pc \in PreBuy => PreSlots
    /\ book \ start.early \subseteq Held(start.hold)
    /\ pc \in RebuyPhase => RebuySlots
    /\ pc \in RoundPhase => RoundSlots
    /\ SlotsRespected

IInv == /\ TypesOK /\ SellsKnown /\ oversold = {} /\ RecordedOnce
        /\ CashKnown /\ ReserveKept /\ Planned /\ Amounts /\ Slots

-----------------------------------------------------------------------------
(* The smaller and the larger of two numbers.                              *)
LEMMA MinOf ==
  ASSUME NEW a \in Int, NEW b \in Int
  PROVE  Min({a, b}) \in {a, b} /\ Min({a, b}) <= a /\ Min({a, b}) <= b
<1>1. \E x \in {a, b} : \A y \in {a, b} : x <= y
  OBVIOUS
<1> DEFINE m == CHOOSE x \in {a, b} : \A y \in {a, b} : x <= y
<1>2. m \in {a, b} /\ \A y \in {a, b} : m <= y
  BY <1>1
<1>3. Min({a, b}) = m
  BY DEF Min
<1> HIDE DEF m
<1> QED BY <1>2, <1>3

LEMMA MaxOf ==
  ASSUME NEW a \in Int, NEW b \in Int
  PROVE  Max({a, b}) \in {a, b} /\ Max({a, b}) >= a /\ Max({a, b}) >= b
<1>1. \E x \in {a, b} : \A y \in {a, b} : x >= y
  OBVIOUS
<1> DEFINE m == CHOOSE x \in {a, b} : \A y \in {a, b} : x >= y
<1>2. m \in {a, b} /\ \A y \in {a, b} : m >= y
  BY <1>1
<1>3. Max({a, b}) = m
  BY DEF Max
<1> HIDE DEF m
<1> QED BY <1>2, <1>3

(* The types of the account, one by one.                                   *)
LEMMA AccountTypes ==
  ASSUME AccountOK
  PROVE  /\ hold \in [Ticker -> Nat] /\ liveBuy \in [Ticker -> Nat]
         /\ liveSell \in [Ticker -> Nat] /\ sold \in [Ticker -> Nat]
         /\ \A t \in Ticker : liveSell[t] <= hold[t]
         /\ cash \in Nat /\ premium \in Nat
         /\ start.hold \in [Ticker -> Nat] /\ start.early \subseteq Ticker
         /\ start.slots \in Nat /\ start.cash \in Nat /\ start.rebuy \in BOOLEAN
         /\ seen.ok \in BOOLEAN /\ seen.hold \in [Ticker -> Nat]
         /\ seen.sell \in [Ticker -> Nat] /\ seen.cash \in Nat
         /\ Answered => /\ ord.side \in {"buy", "sell"} /\ ord.t \in Ticker
                        /\ ord.q \in Nat /\ ord.done \in Nat
         /\ lost \in Nat /\ fails \in Nat /\ gaps \in Nat /\ risks \in Nat
         /\ MaxEvents \in Nat /\ Reserve \in Nat /\ blocked \in BOOLEAN
  BY AccountAssumption DEF AccountOK, Share, Order, Answered

LEMMA ClampFacts ==
  ASSUME AccountOK, NEW t \in Ticker, NEW n \in Nat
  PROVE  Clamp(t, n) \in Nat /\ Clamp(t, n) <= n /\ Clamp(t, n) <= seen.sell[t]
<1>1. seen.sell[t] \in Int /\ n \in Int /\ seen.sell[t] \in Nat
  BY AccountTypes
<1>2. Min({n, seen.sell[t]}) \in {n, seen.sell[t]} /\ Min({n, seen.sell[t]}) <= n
      /\ Min({n, seen.sell[t]}) <= seen.sell[t]
  BY <1>1, MinOf
<1> QED BY <1>1, <1>2 DEF Clamp

LEMMA SyncedFacts ==
  ASSUME AccountOK, NEW n \in Nat
  PROVE  Synced(n) \in Nat
<1>1. Orderable \in Nat
  BY AccountTypes DEF Orderable
<1> QED BY <1>1, MinOf DEF Synced

LEMMA CappedFacts ==
  ASSUME AccountOK, NEW n \in Nat
  PROVE  /\ Capped(n) \in Nat /\ Capped(n) <= n
         /\ Capped(n) > 0 => Capped(n) + Reserve <= seen.cash
<1> DEFINE m == Min({n, Orderable - Reserve})
<1>1. Orderable = seen.cash /\ Orderable \in Nat /\ Reserve \in Nat
  BY AccountTypes DEF Orderable
<1>2. m \in Int /\ m <= n /\ m <= Orderable - Reserve
  <2>1. n \in Int /\ Orderable - Reserve \in Int
    BY <1>1
  <2>2. m \in {n, Orderable - Reserve} /\ m <= n /\ m <= Orderable - Reserve
    BY <2>1, MinOf
  <2> QED BY <2>1, <2>2
<1> HIDE DEF m
<1>3. Max({0, m}) \in {0, m} /\ Max({0, m}) >= 0 /\ Max({0, m}) >= m
  BY <1>2, MaxOf
<1>4. Capped(n) = Max({0, m})
  BY DEF Capped, m
<1> QED BY <1>1, <1>2, <1>3, <1>4

(* A load of the snapshot, whatever KIS answers.                           *)
LEMMA LoadFacts ==
  ASSUME AccountOK, Events <= MaxEvents, NEW doubt \in BOOLEAN, LoadUnless(doubt)
  PROVE  /\ seen' \in [ok : BOOLEAN, hold : [Ticker -> Share], sell : [Ticker -> Share], cash : Share]
         /\ blocked' \in BOOLEAN /\ (blocked => blocked') /\ changed' \in SUBSET Ticker
         /\ fails' \in Nat /\ gaps' \in Nat /\ fails' + gaps' + lost + risks <= MaxEvents
         /\ fails' >= fails /\ gaps' >= gaps
         /\ \A t \in Ticker : t \in changed' \/ seen'.sell[t] <= Sellable(t)
         /\ \A t \in Ticker : seen'.hold[t] <= hold[t]
         /\ seen'.cash <= cash
         /\ gaps' = 0 /\ (fails' = 0 \/ ~blocked') => seen' = Account
<1> DEFINE Snap == [ok : BOOLEAN, hold : [Ticker -> Nat], sell : [Ticker -> Nat], cash : Nat]
<1>1. /\ hold \in [Ticker -> Nat] /\ liveSell \in [Ticker -> Nat] /\ cash \in Nat
      /\ \A t \in Ticker : liveSell[t] <= hold[t]
      /\ lost \in Nat /\ fails \in Nat /\ gaps \in Nat /\ risks \in Nat
      /\ MaxEvents \in Nat /\ blocked \in BOOLEAN /\ Events = fails + gaps + lost + risks
      /\ changed \in SUBSET Ticker
  BY AccountTypes DEF Events, AccountOK
<1>2. \A t \in Ticker : Sellable(t) \in Nat /\ Sellable(t) <= hold[t]
  BY <1>1 DEF Sellable
<1>3. /\ Account \in Snap /\ Account.hold = hold /\ Account.cash = cash
      /\ \A t \in Ticker : Account.sell[t] = Sellable(t)
  BY <1>1, <1>2 DEF Account
<1>4. /\ Failed \in Snap /\ Failed.cash = 0
      /\ \A t \in Ticker : Failed.sell[t] = 0 /\ Failed.hold[t] = 0
  BY DEF Failed, None
<1>5. /\ Implausible \in Snap /\ Implausible.hold = hold /\ Implausible.cash = cash
      /\ Implausible.sell = Account.sell
  BY <1>3 DEF Implausible
<1>6. ASSUME NEW s \in Incomplete
      PROVE  s \in Snap /\ s.cash <= cash /\ \A t \in Ticker : s.hold[t] <= hold[t]
  <2>1. CASE s \in {[Account EXCEPT !.hold[t] = 0, !.sell[t] = 0] : t \in Ticker}
    <3>1. PICK t \in Ticker : s = [Account EXCEPT !.hold[t] = 0, !.sell[t] = 0]
      BY <2>1
    <3>2. s = [Account EXCEPT !.hold = [Account.hold EXCEPT ![t] = 0],
                              !.sell = [Account.sell EXCEPT ![t] = 0]]
      BY <3>1
    <3> HIDE DEF Account
    <3>3. /\ s.hold = [Account.hold EXCEPT ![t] = 0] /\ s.sell = [Account.sell EXCEPT ![t] = 0]
          /\ s.cash = Account.cash /\ s \in Snap
      BY <1>3, <3>2
    <3> QED BY <1>1, <1>3, <3>3
  <2>2. CASE s \in {[Account EXCEPT !.sell[t] = hold[t]] : t \in Ticker}
    <3>1. PICK t \in Ticker : s = [Account EXCEPT !.sell[t] = hold[t]]
      BY <2>2
    <3>2. s = [Account EXCEPT !.sell = [Account.sell EXCEPT ![t] = hold[t]]]
      BY <3>1
    <3> QED BY <1>1, <1>3, <3>2
  <2>3. CASE s = [Account EXCEPT !.cash = 0]
    BY <1>1, <1>3, <2>3
  <2> QED BY <1>6, <2>1, <2>2, <2>3 DEF Incomplete
<1> HIDE DEF Account, Failed, Implausible, Incomplete
<1>7. CASE /\ seen' = Account /\ changed' = {} /\ blocked' = (blocked \/ doubt)
           /\ UNCHANGED <<fails, gaps>>
  <2>1. blocked' \in BOOLEAN /\ (blocked => blocked')
    BY <1>7
  <2> QED BY <1>1, <1>2, <1>3, <1>7, <2>1 DEF Share
<1>8. CASE /\ Events < MaxEvents /\ fails' = fails + 1
           /\ seen' \in {Failed, Implausible} /\ blocked' = TRUE /\ UNCHANGED <<changed, gaps>>
  BY <1>1, <1>2, <1>3, <1>4, <1>5, <1>8 DEF Share
<1>9. CASE /\ Events < MaxEvents /\ gaps' = gaps + 1
           /\ seen' \in Incomplete \ {Account}
           /\ changed' = {t \in Ticker : seen'.sell[t] > Sellable(t)}
           /\ blocked' = (blocked \/ doubt) /\ UNCHANGED fails
  <2>1. blocked' \in BOOLEAN /\ (blocked => blocked')
    BY <1>9
  <2>2. seen' \in Snap /\ seen'.cash <= cash /\ \A t \in Ticker : seen'.hold[t] <= hold[t]
    BY <1>6, <1>9
  <2>3. \A t \in Ticker : t \in changed' \/ seen'.sell[t] <= Sellable(t)
    BY <1>2, <1>9, <2>2
  <2> QED BY <1>1, <1>9, <2>1, <2>2, <2>3 DEF Share
<1> QED BY <1>7, <1>8, <1>9 DEF LoadUnless

(* Cash and premiums, as numbers.                                          *)
LEMMA PaidAtMost ==
  ASSUME NEW c \in Nat, NEW d \in Nat, NEW p \in Nat, NEW n \in Nat, NEW over \in Nat,
         d = c - (n + over), over <= p
  PROVE  c <= d + n + p
OBVIOUS

LEMMA PaidNothing ==
  ASSUME NEW c \in Nat, NEW d \in Nat, NEW p \in Nat, NEW n \in Nat, d = c
  PROVE  c <= d + n + p
OBVIOUS

LEMMA SumGrows ==
  ASSUME NEW c \in Nat, NEW d \in Nat, NEW o \in Nat, NEW p \in Nat, c <= d, o <= p
  PROVE  c + o <= d + p
OBVIOUS

LEMMA SumFrom ==
  ASSUME NEW c \in Nat, NEW o \in Nat, NEW d \in Nat, NEW p \in Nat, NEW m \in Int,
         c + o >= m, c + o <= d + p
  PROVE  d + p >= m
OBVIOUS

LEMMA LeavesReserve ==
  ASSUME NEW c \in Nat, NEW d \in Nat, NEW p \in Nat, NEW n \in Nat, NEW r \in Nat,
         n + r <= c, c <= d + n + p
  PROVE  d + p >= r
OBVIOUS

(* An order, with the copies that retries may leave.                       *)
Sends(side, t, n, answered, m, k) ==
    /\ m \in Nat /\ k \in Nat
    /\ lost' = lost + k /\ fails + gaps + lost' + risks <= MaxEvents
    /\ k = 0 => m = IF answered THEN n ELSE 0
    /\ answered => m >= n
    /\ UNCHANGED <<hold, sold, known, risks>>
    /\ premium' \in Nat /\ premium <= premium'
    /\ side = "buy" =>
         /\ cash' \in Nat
         /\ k = 0 => cash <= cash' + n + premium' /\ (~answered => cash' = cash)
         /\ liveBuy' = [liveBuy EXCEPT ![t] = @ + m]
         /\ UNCHANGED <<liveSell, changed, oversold>>
    /\ side = "sell" =>
         /\ m <= Sellable(t) /\ liveSell' = [liveSell EXCEPT ![t] = @ + m]
         /\ UNCHANGED <<cash, liveBuy>>
         /\ changed' = IF k > 0 THEN changed \cup {t} ELSE changed
         /\ oversold' = IF n > Sellable(t) /\ t \notin changed THEN oversold \cup {t} ELSE oversold

LEMMA SendFacts ==
  ASSUME AccountOK, Events <= MaxEvents, NEW side \in {"buy", "sell"}, NEW t \in Ticker, NEW n \in Nat,
         NEW over \in Nat, NEW answered \in BOOLEAN, Send(side, t, n, over, answered)
  PROVE  \E m \in Nat, k \in Nat : Sends(side, t, n, answered, m, k)
<1>1. PICK k \in 0 .. MaxEvents - Events :
      LET copies == k + IF answered THEN 1 ELSE 0
          m      == n * copies
          cost   == (n + over) * copies
          sells  == side = "sell"
      IN
      /\ IF sells THEN m <= Sellable(t) ELSE cost <= cash
      /\ lost' = lost + k
      /\ liveSell' = IF sells THEN [liveSell EXCEPT ![t] = @ + m] ELSE liveSell
      /\ liveBuy'  = IF sells THEN liveBuy ELSE [liveBuy EXCEPT ![t] = @ + m]
      /\ cash' = IF sells THEN cash ELSE cash - cost
      /\ premium' = IF copies = 0 THEN premium ELSE Max({premium, over})
      /\ oversold' = IF sells /\ n > Sellable(t) /\ t \notin changed
                     THEN oversold \cup {t} ELSE oversold
      /\ changed' = IF sells /\ k > 0 THEN changed \cup {t} ELSE changed
      /\ UNCHANGED <<hold, sold, known, risks>>
  BY DEF Send
<1> DEFINE c == k + IF answered THEN 1 ELSE 0
           m == n * c
           cost == (n + over) * c
<1>2. /\ lost \in Nat /\ fails \in Nat /\ gaps \in Nat /\ risks \in Nat /\ MaxEvents \in Nat
      /\ Events = fails + gaps + lost + risks /\ cash \in Nat /\ premium \in Nat
  BY AccountTypes DEF Events
<1>3. k \in Nat /\ k <= MaxEvents - Events
  BY <1>2
<1>4. c \in Nat /\ (k = 0 => c = IF answered THEN 1 ELSE 0) /\ (answered => c >= 1)
  BY <1>3
<1> HIDE DEF c
<1>5. m \in Nat
  BY <1>4
<1>6. answered => m >= n
  <2> SUFFICES ASSUME answered PROVE m >= n
    OBVIOUS
  <2>1. c - 1 \in Nat
    BY <1>4
  <2>2. n * (c - 1) \in Nat
    BY <2>1
  <2>3. m = n * (c - 1) + n
    BY <1>4
  <2> QED BY <2>2, <2>3
<1>7. k = 0 => m = IF answered THEN n ELSE 0
  BY <1>4
<1> HIDE DEF m
<1>11. cost \in Nat /\ (k = 0 => cost = IF answered THEN n + over ELSE 0)
  <2>1. n + over \in Nat
    OBVIOUS
  <2> QED BY <1>4, <2>1
<1> HIDE DEF cost
<1>12. /\ premium' \in Nat /\ premium <= premium' /\ (answered => over <= premium')
  <2>1. Max({premium, over}) \in {premium, over} /\ Max({premium, over}) >= premium
        /\ Max({premium, over}) >= over
    BY <1>2, MaxOf
  <2>2. premium' = IF c = 0 THEN premium ELSE Max({premium, over})
    BY <1>1 DEF c
  <2> QED BY <1>2, <1>4, <2>1, <2>2
<1>8. lost' = lost + k /\ fails + gaps + lost' + risks <= MaxEvents
  BY <1>1, <1>2, <1>3
<1>9. /\ IF side = "sell" THEN m <= Sellable(t) ELSE cost <= cash
      /\ liveSell' = IF side = "sell" THEN [liveSell EXCEPT ![t] = @ + m] ELSE liveSell
      /\ liveBuy'  = IF side = "sell" THEN liveBuy ELSE [liveBuy EXCEPT ![t] = @ + m]
      /\ cash' = IF side = "sell" THEN cash ELSE cash - cost
  BY <1>1 DEF m, c, cost
<1>13. side = "buy" => /\ cash' \in Nat
                       /\ k = 0 => cash <= cash' + n + premium' /\ (~answered => cash' = cash)
  <2> SUFFICES ASSUME side = "buy"
               PROVE  /\ cash' \in Nat
                      /\ k = 0 => cash <= cash' + n + premium' /\ (~answered => cash' = cash)
    OBVIOUS
  <2>1. cost <= cash /\ cash' = cash - cost
    BY <1>9
  <2>2. cash \in Nat /\ cost \in Nat /\ premium' \in Nat /\ n \in Nat /\ over \in Nat
    BY <1>2, <1>11, <1>12
  <2> DEFINE d == cash'
             p == premium'
  <2>5. d \in Nat /\ p \in Nat /\ d = cash - cost
    BY <2>1, <2>2
  <2>7. answered => over <= p
    BY <1>12
  <2> DEFINE Paid == d \in Nat /\ (k = 0 => cash <= d + n + p /\ (~answered => d = cash))
  <2> HIDE DEF d, p, Paid
  <2>3. ASSUME answered PROVE Paid
    <3>1. over <= p /\ (k = 0 => cost = n + over)
      BY <1>11, <2>3, <2>7
    <3>2. k = 0 => d = cash - (n + over)
      BY <2>5, <3>1
    <3>3. k = 0 => cash <= d + n + p
      BY <2>2, <2>5, <3>1, <3>2, PaidAtMost
    <3> QED BY <2>3, <2>5, <3>3 DEF Paid
  <2>4. ASSUME ~answered PROVE Paid
    <3>1. k = 0 => cost = 0
      BY <1>11, <2>4
    <3>2. k = 0 => d = cash
      BY <2>2, <2>5, <3>1
    <3>3. k = 0 => cash <= d + n + p
      BY <2>2, <2>5, <3>2, PaidNothing
    <3> QED BY <2>5, <3>2, <3>3 DEF Paid
  <2>6. Paid
    BY <2>3, <2>4
  <2> QED BY <2>6 DEF Paid, d, p
<1>10. Sends(side, t, n, answered, m, k)
  BY <1>1, <1>3, <1>5, <1>6, <1>7, <1>8, <1>9, <1>12, <1>13 DEF Sends
<1> QED BY <1>3, <1>5, <1>10

-----------------------------------------------------------------------------
(* What a step may do with the account.                                    *)
Loads ==
    /\ \E doubt \in BOOLEAN : LoadUnless(doubt)
    /\ UNCHANGED <<kis, lost, risks, oversold>> /\ ord' \in {ord, NoOrd}

Still == UNCHANGED <<kis, known, lost, risks, changed, oversold>> /\ ord' \in {ord, NoOrd}

Orders(side, t, n) ==
    \E answered \in BOOLEAN, m \in Nat, k \in Nat :
        Sends(side, t, n, answered, m, k) /\ (ord' = ord \/ Await(side, t, n, answered))

AccountSound == AccountOK /\ Events <= MaxEvents /\ OrderLive

LEMMA SumBound ==
  ASSUME NEW a \in Nat, NEW b \in Nat, NEW c \in Nat, NEW d \in Nat, NEW m \in Nat, a + b + c + d <= m
  PROVE  {a, b, c, d} \subseteq 0 .. m
  OBVIOUS

LEMMA SoundAgain ==
  ASSUME /\ start' \in Starts
         /\ hold' \in [Ticker -> Nat] /\ liveBuy' \in [Ticker -> Nat]
         /\ liveSell' \in [Ticker -> Nat] /\ sold' \in [Ticker -> Nat]
         /\ \A t \in Ticker : liveSell'[t] <= hold'[t]
         /\ cash' \in Nat /\ premium' \in Nat /\ ord' \in Order \cup {NoOrd}
         /\ seen' \in [ok : BOOLEAN, hold : [Ticker -> Share], sell : [Ticker -> Share], cash : Share]
         /\ blocked' \in BOOLEAN
         /\ lost' \in Nat /\ fails' \in Nat /\ gaps' \in Nat /\ risks' \in Nat
         /\ fails' + gaps' + lost' + risks' <= MaxEvents
         /\ changed' \in SUBSET Ticker /\ oversold' \in SUBSET Ticker
         /\ OrderLive'
  PROVE  AccountSound'
<1>1. MaxEvents \in Nat
  BY AccountAssumption
<1> DEFINE a == fails'
           b == gaps'
           c == lost'
           d == risks'
<1>2. a \in Nat /\ b \in Nat /\ c \in Nat /\ d \in Nat /\ a + b + c + d <= MaxEvents
  OBVIOUS
<1> HIDE DEF a, b, c, d
<1>3. {a, b, c, d} \subseteq 0 .. MaxEvents
  BY <1>1, <1>2, SumBound
<1>4. {fails', gaps', lost', risks'} \subseteq 0 .. MaxEvents
  BY <1>3 DEF a, b, c, d
<1>5. {lost', fails', gaps', risks'} = {fails', gaps', lost', risks'}
  OBVIOUS
<1> QED BY <1>4, <1>5 DEF AccountSound, AccountOK, Share, Events

LEMMA LoadsSound ==
  ASSUME AccountSound, Loads, start' = start PROVE AccountSound'
<1> USE DEF AccountSound
<1>1. PICK doubt \in BOOLEAN : LoadUnless(doubt)
  BY DEF Loads
<1>2. /\ seen' \in [ok : BOOLEAN, hold : [Ticker -> Share], sell : [Ticker -> Share], cash : Share]
      /\ blocked' \in BOOLEAN /\ changed' \in SUBSET Ticker
      /\ fails' \in Nat /\ gaps' \in Nat /\ fails' + gaps' + lost + risks <= MaxEvents
  BY <1>1, LoadFacts
<1>3. UNCHANGED <<hold, liveBuy, liveSell, cash, premium, sold, lost, risks, oversold>> /\ ord' \in {ord, NoOrd}
  BY DEF Loads, kis
<1>4. OrderLive'
  BY <1>3 DEF OrderLive, Answered
<1>5. start \in Starts /\ ord \in Order \cup {NoOrd} /\ oversold \in SUBSET Ticker
  BY DEF AccountOK
<1> HIDE DEF AccountSound
<1> QED BY <1>2, <1>3, <1>4, <1>5, AccountTypes, SoundAgain DEF AccountSound

LEMMA StillSound ==
  ASSUME AccountSound, Still, start' = start PROVE AccountSound'
<1>1. /\ UNCHANGED <<hold, liveBuy, liveSell, cash, premium, sold, seen, blocked, fails, gaps, lost, risks, changed, oversold>>
      /\ ord' \in {ord, NoOrd}
  BY DEF Still, kis, known
<1>2. OrderLive'
  BY <1>1 DEF OrderLive, Answered, AccountSound
<1>3. AccountOK'
  BY <1>1 DEF AccountOK, AccountSound
<1> QED BY <1>1, <1>2, <1>3 DEF AccountSound, Events

LEMMA OrdersSound ==
  ASSUME AccountSound, NEW side \in {"buy", "sell"}, NEW t \in Ticker, NEW n \in Nat,
         Orders(side, t, n), start' = start
  PROVE  AccountSound'
<1> USE DEF AccountSound
<1>1. PICK answered \in BOOLEAN, m \in Nat, k \in Nat :
        Sends(side, t, n, answered, m, k) /\ (ord' = ord \/ Await(side, t, n, answered))
  BY DEF Orders
<1>2. /\ lost' = lost + k /\ fails + gaps + lost' + risks <= MaxEvents
      /\ answered => m >= n
      /\ UNCHANGED <<hold, sold, seen, blocked, fails, gaps, risks>>
      /\ premium' \in Nat
      /\ side = "buy" =>
           /\ cash' \in Nat
           /\ liveBuy' = [liveBuy EXCEPT ![t] = @ + m]
           /\ UNCHANGED <<liveSell, changed, oversold>>
      /\ side = "sell" =>
           /\ m <= Sellable(t) /\ liveSell' = [liveSell EXCEPT ![t] = @ + m]
           /\ UNCHANGED <<cash, liveBuy>>
           /\ changed' \in SUBSET Ticker /\ oversold' \in SUBSET Ticker
  <2>1. changed \in SUBSET Ticker /\ oversold \in SUBSET Ticker
    BY DEF AccountOK
  <2> QED BY <1>1, <2>1 DEF Sends, known
<1>3. /\ hold \in [Ticker -> Nat] /\ liveBuy \in [Ticker -> Nat]
      /\ liveSell \in [Ticker -> Nat] /\ sold \in [Ticker -> Nat]
      /\ \A u \in Ticker : liveSell[u] <= hold[u]
      /\ cash \in Nat /\ premium \in Nat
      /\ lost \in Nat /\ fails \in Nat /\ gaps \in Nat /\ risks \in Nat
      /\ blocked \in BOOLEAN
      /\ Answered => /\ ord.side \in {"buy", "sell"} /\ ord.t \in Ticker /\ ord.q \in Nat /\ ord.done \in Nat
  BY AccountTypes
<1>4. /\ start \in Starts /\ ord \in Order \cup {NoOrd}
      /\ changed \in SUBSET Ticker /\ oversold \in SUBSET Ticker
      /\ seen \in [ok : BOOLEAN, hold : [Ticker -> Share], sell : [Ticker -> Share], cash : Share]
  BY DEF AccountOK
<1>5. /\ liveBuy' \in [Ticker -> Nat] /\ \A u \in Ticker : liveBuy'[u] >= liveBuy[u]
      /\ side = "buy" => liveBuy'[t] = liveBuy[t] + m
  BY <1>2, <1>3
<1>6. /\ liveSell' \in [Ticker -> Nat] /\ \A u \in Ticker : liveSell'[u] >= liveSell[u]
      /\ side = "sell" => liveSell'[t] = liveSell[t] + m
      /\ \A u \in Ticker : liveSell'[u] <= hold[u]
  BY <1>2, <1>3 DEF Sellable
<1>7. ord' \in Order \cup {NoOrd} /\ OrderLive'
  <2>1. CASE ord' = ord
    BY <1>2, <1>3, <1>4, <1>5, <1>6, <2>1 DEF OrderLive, Answered
  <2>2. CASE Await(side, t, n, answered) /\ ~answered
    BY <2>2 DEF Await, OrderLive, Answered
  <2>3. CASE Await(side, t, n, answered) /\ answered
    <3>1. ord' = [side |-> side, t |-> t, q |-> n, done |-> 0]
      BY <2>3 DEF Await
    <3>2. ord' \in Order
      BY <3>1 DEF Order, Share
    <3>3. side = "buy" => n <= liveBuy'[t]
      BY <1>2, <1>3, <1>5, <2>3
    <3>4. side = "sell" => n <= liveSell'[t]
      BY <1>2, <1>3, <1>6, <2>3
    <3>5. sold'[t] \in Nat
      BY <1>2, <1>3
    <3> QED BY <3>1, <3>2, <3>3, <3>4, <3>5 DEF OrderLive, Answered
  <2> QED BY <1>1, <2>1, <2>2, <2>3
<1>8. cash' \in Nat /\ lost' \in Nat
  BY <1>2, <1>3
<1> HIDE DEF AccountSound
<1>9. changed' \in SUBSET Ticker /\ oversold' \in SUBSET Ticker
  BY <1>2, <1>4
<1> QED BY <1>2, <1>3, <1>4, <1>5, <1>6, <1>7, <1>8, <1>9, SoundAgain

(* A share that is filled moves between the account and what is live.      *)
Filled(t) ==
    \/ /\ hold' = [hold EXCEPT ![t] = @ + 1] /\ liveBuy[t] >= 1
       /\ liveBuy' = [liveBuy EXCEPT ![t] = @ - 1] /\ UNCHANGED <<liveSell, cash, sold>>
    \/ /\ hold' = [hold EXCEPT ![t] = @ - 1] /\ liveSell[t] >= 1
       /\ liveSell' = [liveSell EXCEPT ![t] = @ - 1]
       /\ cash' = cash + 1 /\ sold' = [sold EXCEPT ![t] = @ + 1] /\ UNCHANGED liveBuy

LEMMA FillFacts ==
  ASSUME AccountSound, FillBuy \/ FillSell, start' = start
  PROVE  /\ AccountSound' /\ UNCHANGED <<premium, known, lost, risks, changed, oversold>>
         /\ (Answered' <=> Answered)
         /\ Answered => ord'.side = ord.side /\ ord'.t = ord.t
         /\ \E t \in Ticker : Filled(t)
<1> USE DEF AccountSound
<1>1. /\ hold \in [Ticker -> Nat] /\ liveBuy \in [Ticker -> Nat]
      /\ liveSell \in [Ticker -> Nat] /\ sold \in [Ticker -> Nat]
      /\ \A u \in Ticker : liveSell[u] <= hold[u]
      /\ cash \in Nat /\ premium \in Nat
      /\ lost \in Nat /\ fails \in Nat /\ gaps \in Nat /\ risks \in Nat
      /\ blocked \in BOOLEAN
      /\ Answered => /\ ord.side \in {"buy", "sell"} /\ ord.t \in Ticker /\ ord.q \in Nat /\ ord.done \in Nat
  BY AccountTypes
<1>2. /\ start \in Starts /\ ord \in Order \cup {NoOrd}
      /\ changed \in SUBSET Ticker /\ oversold \in SUBSET Ticker
      /\ seen \in [ok : BOOLEAN, hold : [Ticker -> Share], sell : [Ticker -> Share], cash : Share]
      /\ OrderLive /\ Events <= MaxEvents
  BY DEF AccountOK
<1>3. PICK side \in {"buy", "sell"}, t \in Ticker, mine \in BOOLEAN :
      LET live == IF side = "buy" THEN liveBuy ELSE liveSell
          waits == Answered /\ ord.side = side /\ ord.t = t
          left  == IF waits THEN ord.q - ord.done ELSE 0
      IN
      /\ IF mine THEN left > 0 ELSE live[t] > left
      /\ ord' = IF mine THEN [ord EXCEPT !.done = @ + 1] ELSE ord
      /\ IF side = "buy"
         THEN /\ hold' = [hold EXCEPT ![t] = @ + 1]
              /\ liveBuy' = [liveBuy EXCEPT ![t] = @ - 1]
              /\ UNCHANGED <<liveSell, cash, sold>>
         ELSE /\ hold' = [hold EXCEPT ![t] = @ - 1]
              /\ liveSell' = [liveSell EXCEPT ![t] = @ - 1]
              /\ cash' = cash + 1
              /\ sold' = [sold EXCEPT ![t] = @ + 1]
              /\ UNCHANGED liveBuy
      /\ UNCHANGED <<premium, known, lost, risks, changed, oversold>>
  BY DEF FillBuy, FillSell, Fill
<1> DEFINE live == IF side = "buy" THEN liveBuy ELSE liveSell
           waits == Answered /\ ord.side = side /\ ord.t = t
           left  == IF waits THEN ord.q - ord.done ELSE 0
<1>4. waits => left = ord.q - ord.done /\ left <= live[t] /\ left \in Nat
  BY <1>1, <1>2 DEF OrderLive
<1>5. ~waits => left = 0
  OBVIOUS
<1>6. live[t] >= 1 /\ (mine => waits /\ left > 0) /\ (~mine => live[t] > left)
  <2>1. live[t] \in Nat
    BY <1>1
  <2>2. IF mine THEN left > 0 ELSE live[t] > left
    BY <1>3
  <2> HIDE DEF left, live
  <2> QED BY <1>4, <1>5, <2>1, <2>2
<1> HIDE DEF left
<1>7. ord' = IF mine THEN [ord EXCEPT !.done = @ + 1] ELSE ord
  BY <1>3
<1>8. /\ ord' \in Order \cup {NoOrd} /\ (Answered' <=> Answered)
      /\ Answered => ord'.side = ord.side /\ ord'.t = ord.t /\ ord'.q = ord.q
                     /\ ord'.done = IF mine THEN ord.done + 1 ELSE ord.done
  <2>1. CASE mine
    <3>1. ord \in Order /\ Answered
      BY <1>2, <1>6, <2>1 DEF Answered
    <3>2. ord' = [ord EXCEPT !.done = ord.done + 1] /\ ord.done + 1 \in Nat
      BY <1>1, <1>7, <2>1, <3>1
    <3>3. ord' \in Order
      BY <3>1, <3>2 DEF Order, Share
    <3>4. ord'.side = ord.side /\ ord'.t = ord.t /\ ord'.q = ord.q /\ ord'.done = ord.done + 1
      BY <3>1, <3>2 DEF Order
    <3>5. ord' # NoOrd
      BY <3>3, <3>4, <1>1, <3>1 DEF NoOrd
    <3> QED BY <2>1, <3>1, <3>3, <3>4, <3>5 DEF Answered
  <2>2. CASE ~mine
    BY <1>2, <1>7, <2>2 DEF Answered
  <2> QED BY <2>1, <2>2
<1>9. CASE side = "buy"
  <2>1. /\ hold' = [hold EXCEPT ![t] = @ + 1] /\ liveBuy' = [liveBuy EXCEPT ![t] = @ - 1]
        /\ UNCHANGED <<liveSell, cash, sold>> /\ UNCHANGED <<premium, known, lost, risks, changed, oversold>>
    BY <1>3, <1>9
  <2>2. liveBuy[t] >= 1
    BY <1>6, <1>9
  <2>3. /\ hold' \in [Ticker -> Nat] /\ liveBuy' \in [Ticker -> Nat]
        /\ \A u \in Ticker : hold'[u] >= hold[u]
        /\ liveBuy'[t] = liveBuy[t] - 1 /\ \A u \in Ticker \ {t} : liveBuy'[u] = liveBuy[u]
    BY <1>1, <2>1, <2>2
  <2>4. \A u \in Ticker : liveSell[u] <= hold'[u]
    BY <1>1, <2>3
  <2>5. OrderLive'
    <3> SUFFICES ASSUME Answered
                 PROVE  /\ ord'.done <= ord'.q
                        /\ ord'.side = "buy"  => ord'.q - ord'.done <= liveBuy'[ord'.t]
                        /\ ord'.side = "sell" => ord'.q - ord'.done <= liveSell'[ord'.t] /\ ord'.done <= sold'[ord'.t]
      BY <1>8 DEF OrderLive
    <3>1. CASE mine
      BY <1>1, <1>2, <1>4, <1>6, <1>8, <1>9, <2>1, <2>3, <3>1 DEF OrderLive
    <3>2. CASE ~mine /\ waits
      BY <1>1, <1>2, <1>4, <1>6, <1>8, <1>9, <2>1, <2>3, <3>2 DEF OrderLive
    <3>3. CASE ~mine /\ ~waits
      BY <1>1, <1>2, <1>8, <1>9, <2>1, <2>3, <3>3 DEF OrderLive
    <3> QED BY <3>1, <3>2, <3>3
  <2>6. UNCHANGED <<seen, blocked, fails, gaps>>
    BY <2>1 DEF known
  <2>7. fails' + gaps' + lost' + risks' <= MaxEvents
    BY <1>2, <2>1, <2>6 DEF Events
  <2>8. AccountSound'
    BY <1>1, <1>2, <1>8, <2>1, <2>3, <2>4, <2>5, <2>6, <2>7, SoundAgain
  <2> QED BY <1>8, <2>1, <2>2, <2>8 DEF Filled
<1>10. CASE side = "sell"
  <2>1. /\ hold' = [hold EXCEPT ![t] = @ - 1] /\ liveSell' = [liveSell EXCEPT ![t] = @ - 1]
        /\ cash' = cash + 1 /\ sold' = [sold EXCEPT ![t] = @ + 1] /\ UNCHANGED liveBuy
        /\ UNCHANGED <<premium, known, lost, risks, changed, oversold>>
    BY <1>3, <1>10
  <2>2. liveSell[t] >= 1 /\ hold[t] >= 1
    BY <1>1, <1>6, <1>10
  <2>3. /\ hold' \in [Ticker -> Nat] /\ liveSell' \in [Ticker -> Nat] /\ sold' \in [Ticker -> Nat]
        /\ liveSell'[t] = liveSell[t] - 1 /\ \A u \in Ticker \ {t} : liveSell'[u] = liveSell[u]
        /\ sold'[t] = sold[t] + 1 /\ \A u \in Ticker \ {t} : sold'[u] = sold[u]
    BY <1>1, <2>1, <2>2
  <2>4. \A u \in Ticker : liveSell'[u] <= hold'[u]
    BY <1>1, <2>1, <2>2
  <2>5. OrderLive'
    <3> SUFFICES ASSUME Answered
                 PROVE  /\ ord'.done <= ord'.q
                        /\ ord'.side = "buy"  => ord'.q - ord'.done <= liveBuy'[ord'.t]
                        /\ ord'.side = "sell" => ord'.q - ord'.done <= liveSell'[ord'.t] /\ ord'.done <= sold'[ord'.t]
      BY <1>8 DEF OrderLive
    <3>1. CASE mine
      BY <1>1, <1>2, <1>4, <1>6, <1>8, <1>10, <2>1, <2>3, <3>1 DEF OrderLive
    <3>2. CASE ~mine /\ waits
      BY <1>1, <1>2, <1>4, <1>6, <1>8, <1>10, <2>1, <2>3, <3>2 DEF OrderLive
    <3>3. CASE ~mine /\ ~waits
      BY <1>1, <1>2, <1>8, <1>10, <2>1, <2>3, <3>3 DEF OrderLive
    <3> QED BY <3>1, <3>2, <3>3
  <2>6. UNCHANGED <<seen, blocked, fails, gaps>>
    BY <2>1 DEF known
  <2>7. fails' + gaps' + lost' + risks' <= MaxEvents /\ cash' \in Nat
    BY <1>1, <1>2, <2>1, <2>6 DEF Events
  <2>8. AccountSound'
    BY <1>1, <1>2, <1>8, <2>1, <2>3, <2>4, <2>5, <2>6, <2>7, SoundAgain
  <2> QED BY <1>8, <2>1, <2>2, <2>8 DEF Filled
<1> QED BY <1>9, <1>10

-----------------------------------------------------------------------------
(* Lists of plans.                                                         *)
LEMMA TailFacts ==
  ASSUME NEW s \in Seq(Ticker), s # <<>>, OnePlace(s)
  PROVE  /\ Head(s) \in Ticker /\ Head(s) \in Listed(s)
         /\ Tail(s) \in Seq(Ticker) /\ OnePlace(Tail(s))
         /\ Listed(Tail(s)) = Listed(s) \ {Head(s)}
<1>1. /\ Len(s) \in Nat /\ Len(s) >= 1 /\ DOMAIN s = 1 .. Len(s) /\ Head(s) = s[1]
      /\ Tail(s) \in Seq(Ticker) /\ DOMAIN Tail(s) = 1 .. Len(s) - 1
      /\ \A i \in 1 .. Len(s) - 1 : Tail(s)[i] = s[i + 1]
      /\ \A i \in 1 .. Len(s) : s[i] \in Ticker
  OBVIOUS
<1>2. OnePlace(Tail(s))
  BY <1>1 DEF OnePlace
<1>3. ASSUME NEW i \in DOMAIN Tail(s) PROVE Tail(s)[i] \in Listed(s) \ {Head(s)}
  <2>1. i \in 1 .. Len(s) - 1 /\ i + 1 \in DOMAIN s /\ 1 \in DOMAIN s /\ i + 1 # 1
    BY <1>1
  <2> QED BY <1>1, <2>1 DEF OnePlace, Listed
<1>4. ASSUME NEW i \in DOMAIN s, s[i] # Head(s) PROVE s[i] \in Listed(Tail(s))
  <2>1. i \in 2 .. Len(s)
    BY <1>1, <1>4
  <2>2. i - 1 \in DOMAIN Tail(s) /\ Tail(s)[i - 1] = s[i]
    BY <1>1, <2>1
  <2> QED BY <2>2 DEF Listed
<1>5. Head(s) \in Ticker /\ Head(s) \in Listed(s)
  BY <1>1 DEF Listed
<1> QED BY <1>1, <1>2, <1>3, <1>4, <1>5 DEF Listed

LEMMA AppendFacts ==
  ASSUME NEW s \in Seq(Ticker), NEW t \in Ticker, OnePlace(s), t \notin Listed(s)
  PROVE  /\ Append(s, t) \in Seq(Ticker) /\ OnePlace(Append(s, t))
         /\ Listed(Append(s, t)) = Listed(s) \cup {t}
<1> DEFINE a == Append(s, t)
<1>1. /\ Len(s) \in Nat /\ DOMAIN s = 1 .. Len(s) /\ DOMAIN a = 1 .. Len(s) + 1
      /\ \A i \in 1 .. Len(s) : a[i] = s[i]
      /\ a[Len(s) + 1] = t /\ a \in Seq(Ticker)
  OBVIOUS
<1> HIDE DEF a
<1>2. \A i \in DOMAIN a : i \in DOMAIN s \/ i = Len(s) + 1
  BY <1>1
<1>3. OnePlace(a)
  BY <1>1, <1>2 DEF OnePlace, Listed
<1>4. Listed(a) \subseteq Listed(s) \cup {t}
  BY <1>1, <1>2 DEF Listed
<1>5. \A i \in DOMAIN s : i \in DOMAIN a /\ a[i] = s[i]
  BY <1>1
<1>6. Len(s) + 1 \in DOMAIN a
  BY <1>1
<1>7. Listed(s) \cup {t} \subseteq Listed(a)
  BY <1>1, <1>5, <1>6 DEF Listed
<1> QED BY <1>1, <1>3, <1>4, <1>7 DEF a

LEMMA WithoutFacts ==
  ASSUME NEW s \in Seq(Ticker), NEW t \in Listed(s), OnePlace(s)
  PROVE  /\ Without(s, t) \in Seq(Ticker) /\ OnePlace(Without(s, t))
         /\ Listed(Without(s, t)) = Listed(s) \ {t}
<1> DEFINE k == CHOOSE i \in DOMAIN s : s[i] = t
           w == SubSeq(s, 1, k - 1) \o SubSeq(s, k + 1, Len(s))
           n == Len(s)
<1>1. \E i \in DOMAIN s : s[i] = t
  BY DEF Listed
<1>2. k \in DOMAIN s /\ s[k] = t
  BY <1>1
<1>3. Without(s, t) = w
  BY DEF Without, RemoveAt
<1> HIDE DEF k
<1>4. n \in Nat /\ DOMAIN s = 1 .. n /\ k \in 1 .. n /\ \A i \in 1 .. n : s[i] \in Ticker
  BY <1>2
<1>5. /\ SubSeq(s, 1, k - 1) \in Seq(Ticker) /\ Len(SubSeq(s, 1, k - 1)) = k - 1
      /\ \A i \in 1 .. k - 1 : SubSeq(s, 1, k - 1)[i] = s[i]
  BY <1>4
<1>6. /\ SubSeq(s, k + 1, n) \in Seq(Ticker) /\ Len(SubSeq(s, k + 1, n)) = n - k
      /\ \A i \in 1 .. n - k : SubSeq(s, k + 1, n)[i] = s[i + k]
  <2>1. k + 1 \in Int /\ n \in Int /\ \A i \in k + 1 .. n : s[i] \in Ticker
    BY <1>4
  <2> HIDE DEF n
  <2>2. /\ SubSeq(s, k + 1, n) \in Seq(Ticker)
        /\ Len(SubSeq(s, k + 1, n)) = IF k + 1 <= n THEN n - (k + 1) + 1 ELSE 0
        /\ \A i \in 1 .. n - (k + 1) + 1 : SubSeq(s, k + 1, n)[i] = s[(k + 1) + i - 1]
    BY <2>1, SubSeqProperties
  <2>3. n - (k + 1) + 1 = n - k /\ (~(k + 1 <= n) => n - k = 0)
    BY <1>4
  <2>4. \A i \in 1 .. n - k : (k + 1) + i - 1 = i + k
    BY <1>4
  <2> QED BY <2>2, <2>3, <2>4
<1>7. /\ w \in Seq(Ticker) /\ DOMAIN w = 1 .. n - 1
      /\ \A i \in 1 .. n - 1 : w[i] = IF i < k THEN s[i] ELSE s[i + 1]
  <2> DEFINE x == SubSeq(s, 1, k - 1)
             y == SubSeq(s, k + 1, n)
  <2>1. /\ x \in Seq(Ticker) /\ y \in Seq(Ticker) /\ Len(x) = k - 1 /\ Len(y) = n - k
        /\ \A i \in 1 .. k - 1 : x[i] = s[i]
        /\ \A i \in 1 .. n - k : y[i] = s[i + k]
    BY <1>5, <1>6
  <2>2. w = x \o y
    OBVIOUS
  <2> HIDE DEF x, y, w, n
  <2>3. /\ w \in Seq(Ticker) /\ Len(w) = Len(x) + Len(y)
        /\ \A i \in 1 .. Len(x) + Len(y) : w[i] = IF i <= Len(x) THEN x[i] ELSE y[i - Len(x)]
    BY <2>1, <2>2, ConcatProperties
  <2>4. w \in Seq(Ticker) /\ Len(w) = n - 1 /\ DOMAIN w = 1 .. n - 1
    <3>1. Len(x) + Len(y) = n - 1
      BY <1>4, <2>1
    <3>2. DOMAIN w = 1 .. Len(w)
      BY <2>3
    <3> QED BY <2>3, <3>1, <3>2
  <2>5. \A i \in 1 .. k - 1 : w[i] = x[i]
    BY <1>4, <2>3, <2>1
  <2>6. \A i \in k .. n - 1 : w[i] = y[i - k + 1]
    BY <1>4, <2>3, <2>1
  <2>7. ASSUME NEW i \in k .. n - 1 PROVE w[i] = s[i + 1]
    <3>1. i - k + 1 \in 1 .. n - k /\ (i - k + 1) + k = i + 1
      BY <1>4
    <3>2. y[i - k + 1] = s[(i - k + 1) + k]
      BY <2>1, <3>1
    <3> QED BY <2>6, <3>1, <3>2
  <2> QED BY <1>4, <2>1, <2>4, <2>5, <2>7
<1> HIDE DEF w, n
<1> DEFINE f(i) == IF i < k THEN i ELSE i + 1
<1>8. \A i \in 1 .. n - 1 : f(i) \in 1 .. n /\ f(i) # k /\ w[i] = s[f(i)]
  BY <1>4, <1>7
<1>9. \A i, j \in 1 .. n - 1 : f(i) = f(j) => i = j
  BY <1>4
<1>10. \A j \in 1 .. n : j # k => \E i \in 1 .. n - 1 : f(i) = j
  <2> SUFFICES ASSUME NEW j \in 1 .. n, j # k PROVE \E i \in 1 .. n - 1 : f(i) = j
    OBVIOUS
  <2>1. CASE j < k
    <3>1. j \in 1 .. n - 1 /\ f(j) = j
      BY <1>4, <2>1
    <3> QED BY <3>1
  <2>2. CASE j > k
    <3>1. j - 1 \in 1 .. n - 1 /\ f(j - 1) = j
      BY <1>4, <2>2
    <3> QED BY <3>1
  <2> QED BY <1>4, <2>1, <2>2
<1> HIDE DEF f
<1>11. OnePlace(w)
  <2> SUFFICES ASSUME NEW i \in 1 .. n - 1, NEW j \in 1 .. n - 1, w[i] = w[j] PROVE i = j
    BY <1>7 DEF OnePlace
  <2>1. f(i) \in DOMAIN s /\ f(j) \in DOMAIN s /\ s[f(i)] = s[f(j)]
    BY <1>4, <1>8
  <2> QED BY <1>9, <2>1 DEF OnePlace
<1>12. Listed(w) = Listed(s) \ {t}
  <2>1. ASSUME NEW i \in DOMAIN w PROVE w[i] \in Listed(s) \ {t}
    <3>1. i \in 1 .. n - 1 /\ f(i) \in DOMAIN s /\ f(i) # k /\ w[i] = s[f(i)]
      BY <1>4, <1>7, <1>8
    <3> QED BY <1>2, <3>1 DEF OnePlace, Listed
  <2>2. ASSUME NEW j \in DOMAIN s, s[j] # t PROVE s[j] \in Listed(w)
    <3>1. j \in 1 .. n /\ j # k
      BY <1>2, <1>4, <2>2
    <3>2. PICK i \in 1 .. n - 1 : f(i) = j
      BY <1>10, <3>1
    <3>3. i \in DOMAIN w /\ w[i] = s[j]
      BY <1>7, <1>8, <3>2
    <3> QED BY <3>3 DEF Listed
  <2> QED BY <2>1, <2>2 DEF Listed
<1> QED BY <1>3, <1>7, <1>11, <1>12

LEMMA PlansForFacts ==
  ASSUME NEW S \in SUBSET Ticker, NEW s \in PlansFor(S)
  PROVE  s \in Seq(Ticker) /\ OnePlace(s) /\ Listed(s) \subseteq S
<1>1. PICK n \in 0 .. Len(Plans) : s \in [1 .. n -> S]
  BY DEF PlansFor
<1>2. PICK at \in [DOMAIN s -> DOMAIN Plans] :
            /\ \A i \in DOMAIN s : s[i] = Plans[at[i]]
            /\ \A i, j \in DOMAIN s : i < j => at[i] < at[j]
  BY DEF PlansFor
<1>3. /\ DOMAIN s = 1 .. n /\ n \in Nat
      /\ DOMAIN Plans = 1 .. Len(Plans) /\ Len(Plans) \in Nat /\ IsInjective(Plans)
  BY <1>1, BuysAssumption
<1>4. ASSUME NEW i \in 1 .. n, NEW j \in 1 .. n, s[i] = s[j] PROVE i = j
  <2>1. at[i] \in DOMAIN Plans /\ at[j] \in DOMAIN Plans /\ Plans[at[i]] = Plans[at[j]]
    BY <1>2, <1>3, <1>4
  <2>2. at[i] = at[j]
    BY <1>3, <2>1 DEF IsInjective
  <2>3. at[i] \in Int
    BY <1>3, <2>1
  <2> QED BY <1>2, <1>3, <2>2, <2>3
<1>5. s \in Seq(Ticker)
  BY <1>1, <1>3
<1> QED BY <1>1, <1>3, <1>4, <1>5 DEF OnePlace, Listed

(* The best of a list are some of it, and no more than were asked for.     *)
LEMMA PrefixFacts ==
  ASSUME NEW s \in Seq(Ticker), OnePlace(s), NEW n \in 0 .. Len(s)
  PROVE  /\ SubSeq(s, 1, n) \in Seq(Ticker) /\ OnePlace(SubSeq(s, 1, n))
         /\ Listed(SubSeq(s, 1, n)) \subseteq Listed(s)
         /\ Cardinality(Listed(SubSeq(s, 1, n))) <= n
<1> DEFINE p == SubSeq(s, 1, n)
<1>1. /\ Len(s) \in Nat /\ DOMAIN s = 1 .. Len(s) /\ n \in Nat /\ n <= Len(s)
      /\ p \in Seq(Ticker) /\ DOMAIN p = 1 .. n /\ \A i \in 1 .. n : p[i] = s[i]
  OBVIOUS
<1> HIDE DEF p
<1>2. OnePlace(p) /\ Listed(p) \subseteq Listed(s)
  BY <1>1 DEF OnePlace, Listed
<1>3. p \in Surjection(1 .. n, Listed(p))
  BY <1>1 DEF Surjection, Listed
<1>4. IsFiniteSet(1 .. n) /\ Cardinality(1 .. n) = n
  BY <1>1, FS_Interval
<1>5. Cardinality(Listed(p)) <= n
  BY <1>3, <1>4, FS_Surjection
<1> QED BY <1>1, <1>2, <1>5 DEF p

-----------------------------------------------------------------------------
(* A load, an order and the types of the sales, fact by fact.              *)
LEMMA ReloadLoads ==
  ASSUME NEW to, Reload(to) PROVE Loads /\ pc' = to /\ ord' = ord
BY DEF Reload, Load, Quiet, Loads

LEMMA ValidatedLoads ==
  ASSUME NEW to, Validated(to) PROVE Loads /\ pc' = to /\ ord' = ord
BY DEF Validated, Quiet, Loads

LEMMA LoadsFacts ==
  ASSUME AccountSound, Loads
  PROVE  /\ UNCHANGED <<hold, liveBuy, liveSell, cash, premium, sold, lost, risks, oversold>>
         /\ blocked' \in BOOLEAN /\ (blocked => blocked')
         /\ fails' \in Nat /\ gaps' \in Nat /\ fails' >= fails /\ gaps' >= gaps
         /\ \A t \in Ticker : t \in changed' \/ seen'.sell[t] <= Sellable(t)
         /\ \A t \in Ticker : seen'.hold[t] <= hold[t] /\ seen'.hold[t] \in Nat
         /\ seen'.cash <= cash /\ seen'.cash \in Nat
         /\ gaps' = 0 /\ (fails' = 0 \/ ~blocked') => seen' = Account
<1>1. PICK doubt \in BOOLEAN : LoadUnless(doubt)
  BY DEF Loads
<1>2. UNCHANGED <<hold, liveBuy, liveSell, cash, premium, sold, lost, risks, oversold>>
  BY DEF Loads, kis
<1>3. seen' \in [ok : BOOLEAN, hold : [Ticker -> Nat], sell : [Ticker -> Nat], cash : Nat]
  BY <1>1, LoadFacts DEF AccountSound, Share
<1>4. seen'.cash \in Nat /\ \A t \in Ticker : seen'.hold[t] \in Nat
  BY <1>3
<1>5. /\ blocked' \in BOOLEAN /\ (blocked => blocked')
      /\ fails' \in Nat /\ gaps' \in Nat /\ fails' >= fails /\ gaps' >= gaps
      /\ \A t \in Ticker : t \in changed' \/ seen'.sell[t] <= Sellable(t)
      /\ \A t \in Ticker : seen'.hold[t] <= hold[t]
      /\ seen'.cash <= cash
      /\ gaps' = 0 /\ (fails' = 0 \/ ~blocked') => seen' = Account
  BY <1>1, LoadFacts DEF AccountSound
<1> QED BY <1>2, <1>4, <1>5

LEMMA SendOrders ==
  ASSUME AccountSound, NEW side \in {"buy", "sell"}, NEW t \in Ticker, NEW n \in Nat,
         NEW over \in Nat, NEW answered \in BOOLEAN, Send(side, t, n, over, answered),
         ord' = ord \/ Await(side, t, n, answered)
  PROVE  Orders(side, t, n)
BY SendFacts DEF AccountSound, Orders

(* A buy, capped or not, is such an order.                                 *)
LEMMA BuySends ==
  ASSUME AccountSound, NEW t \in Ticker, NEW n \in Nat, NEW dear \in Nat,
         NEW answered \in BOOLEAN, Buy(t, n, dear, answered)
  PROVE  \E m \in Nat, k \in Nat : Sends("buy", t, n, answered, m, k)
<1>1. PICK over \in 0 .. n * dear : Send("buy", t, n, over, answered)
  BY DEF Buy
<1>2. over \in Nat
  OBVIOUS
<1> QED BY <1>1, <1>2, SendFacts DEF AccountSound

LEMMA SellTypes ==
  ASSUME SellsOK
  PROVE  /\ hs \in [Ticker -> Nat] /\ recSold \in [Ticker -> Nat]
         /\ book \subseteq Ticker /\ todo \subseteq Ticker /\ rowSell \subseteq Ticker /\ open \subseteq Ticker
         /\ cur \in Ticker \cup {NoTicker} /\ money \in Nat
         /\ Tries \in Nat \ {0} /\ tries \in Nat /\ tries <= Tries
         /\ adjusted \in BOOLEAN /\ executed \in BOOLEAN
BY TriesAssumption DEF SellsOK, Share

LEMMA SellsAgain ==
  ASSUME /\ hs' \in [Ticker -> Nat] /\ recSold' \in [Ticker -> Nat]
         /\ book' \subseteq Ticker /\ todo' \subseteq Ticker /\ rowSell' \subseteq Ticker /\ open' \subseteq Ticker
         /\ cur' \in Ticker \cup {NoTicker} /\ money' \in Nat
         /\ tries' \in Nat /\ tries' <= Tries
         /\ adjusted' \in BOOLEAN /\ executed' \in BOOLEAN
  PROVE  SellsOK'
<1>1. tries' \in 0 .. Tries
  BY TriesAssumption
<1>2. {adjusted', executed'} \subseteq BOOLEAN
  OBVIOUS
<1> QED BY <1>1, <1>2 DEF SellsOK, Share

(* What the snapshot says, as the run reads it.                            *)
LEMMA ReadFacts ==
  ASSUME AccountOK
  PROVE  /\ Holdings \in [Ticker -> Nat] /\ Cash \in Nat /\ None \in [Ticker -> Nat]
         /\ \A t \in Ticker : Holding(t) \in Nat /\ Holdings[t] = Holding(t)
         /\ \A t \in Ticker : None[t] = 0
<1>1. seen.ok \in BOOLEAN /\ seen.hold \in [Ticker -> Nat] /\ seen.cash \in Nat
  BY AccountTypes
<1>2. \A t \in Ticker : Holding(t) \in Nat
  BY <1>1 DEF Holding
<1>3. Cash \in Nat
  BY <1>1 DEF Cash
<1> QED BY <1>2, <1>3 DEF Holdings, None

-----------------------------------------------------------------------------
(* What a step of the sales does with the account.                         *)
LEMMA SellClass ==
  ASSUME AccountSound, SellsOK, Staged, SellStep
  PROVE  Still \/ Loads \/ \E t \in Ticker, n \in Nat : Orders("sell", t, n)
<1>1. AccountOK
  BY DEF AccountSound
<1>2. hs \in [Ticker -> Nat] /\ todo \subseteq Ticker
  BY SellTypes
<1>3. ASSUME UNCHANGED account PROVE Still
  BY <1>3 DEF Still, account
<1>4. CASE Start
  BY <1>4, ValidatedLoads DEF Start
<1>5. CASE ReadHoldings
  BY <1>3, <1>5, ReloadLoads DEF ReadHoldings
<1>6. CASE Weigh
  BY <1>6, ReloadLoads DEF Weigh
<1>7. CASE Reduced
  BY <1>3, <1>7, ReloadLoads DEF Reduced
<1>8. CASE LoadAgain
  BY <1>8, ReloadLoads DEF LoadAgain
<1>9. CASE TakeRebalanced \/ Closed \/ ReadOpen \/ AllSeen \/ EndSales
  BY <1>3, <1>9 DEF TakeRebalanced, Closed, ReadOpen, AllSeen, EndSales
<1>10. CASE CheckSale
  <2>1. CASE UNCHANGED <<kis, known, lost, risks, changed, oversold>> /\ ord' = NoOrd
    BY <2>1 DEF Still
  <2>2. CASE Reload("compare")
    BY <2>2, ReloadLoads
  <2> QED BY <1>10, <2>1, <2>2 DEF CheckSale
<1>11. CASE CompareHoldings
  BY <1>11 DEF CompareHoldings, Still
<1>12. CASE AwaitCash
  BY <1>12, ValidatedLoads DEF AwaitCash
<1>13. ASSUME NEW t \in Ticker, Reduce(t) PROVE Still \/ \E n \in Nat : Orders("sell", t, n)
  <2>1. PICK n \in 0 .. hs[t] - 1, answered \in BOOLEAN :
         LET c == Clamp(t, n) IN
         IF c = 0
         THEN adjusted' = (adjusted \/ n = 0) /\ UNCHANGED <<account, executed>>
         ELSE /\ Send("sell", t, c, 0, answered)
              /\ adjusted' = (adjusted \/ answered) /\ executed' = (executed \/ answered)
              /\ UNCHANGED ord
    BY <1>13 DEF Reduce
  <2>2. n \in Nat
    BY <1>2
  <2>3. Clamp(t, n) \in Nat
    BY <1>1, <2>2, ClampFacts
  <2>4. CASE Clamp(t, n) = 0
    BY <1>3, <2>1, <2>4
  <2>5. CASE Clamp(t, n) # 0
    <3>1. Send("sell", t, Clamp(t, n), 0, answered) /\ ord' = ord
      BY <2>1, <2>5
    <3>2. Orders("sell", t, Clamp(t, n))
      BY <2>3, <3>1, SendOrders
    <3> QED BY <2>3, <3>2
  <2> QED BY <2>4, <2>5
<1>14. ASSUME NEW t \in Ticker, Keep(t) PROVE Still
  BY <1>3, <1>14 DEF Keep
<1>15. ASSUME NEW t \in Ticker, SellPart(t) PROVE \E n \in Nat : Orders("sell", t, n)
  <2>1. Half(hs[t]) \in Nat
    <3>1. hs[t] \in Nat
      BY <1>2
    <3>2. hs[t] \div 2 \in Nat
      BY <3>1
    <3> QED BY <3>1, <3>2 DEF Half
  <2>2. Clamp(t, Half(hs[t])) \in Nat
    BY <1>1, <2>1, ClampFacts
  <2>3. PICK answered \in BOOLEAN : Send("sell", t, Clamp(t, Half(hs[t])), 0, answered) /\ ord' = ord
    BY <1>15 DEF SellPart
  <2>4. Orders("sell", t, Clamp(t, Half(hs[t])))
    BY <2>2, <2>3, SendOrders
  <2> QED BY <2>2, <2>4
<1>16. ASSUME NEW t \in Ticker, SellAll(t) PROVE \E n \in Nat : Orders("sell", t, n)
  <2>1. Clamp(t, hs[t]) \in Nat
    BY <1>1, <1>2, ClampFacts
  <2>2. PICK answered \in BOOLEAN :
        Send("sell", t, Clamp(t, hs[t]), 0, answered) /\ Await("sell", t, Clamp(t, hs[t]), answered)
    BY <1>16 DEF SellAll
  <2>3. Orders("sell", t, Clamp(t, hs[t]))
    BY <2>1, <2>2, SendOrders
  <2> QED BY <2>1, <2>3
<1> QED BY <1>4, <1>5, <1>6, <1>7, <1>8, <1>9, <1>10, <1>11, <1>12, <1>13, <1>14, <1>15, <1>16 DEF SellStep

LEMMA SellSound ==
  ASSUME AccountSound, SellsOK, Staged, SellStep, start' = start
  PROVE  /\ AccountSound' /\ UNCHANGED <<hold, liveBuy, sold, cash>> /\ premium <= premium'
         /\ fails' >= fails /\ gaps' >= gaps /\ lost' >= lost /\ (blocked => blocked')
         /\ fails' \in Nat /\ gaps' \in Nat /\ lost' \in Nat
<1>1. /\ lost \in Nat /\ fails \in Nat /\ gaps \in Nat /\ premium \in Nat
  BY AccountTypes DEF AccountSound
<1>2. CASE Still
  <2>1. UNCHANGED <<hold, liveBuy, sold, cash, premium, fails, gaps, lost, blocked>>
    BY <1>2 DEF Still, kis, known
  <2> QED BY <1>1, <1>2, <2>1, StillSound
<1>3. CASE Loads
  BY <1>1, <1>3, LoadsSound, LoadsFacts
<1>4. ASSUME NEW t \in Ticker, NEW n \in Nat, Orders("sell", t, n)
      PROVE  /\ AccountSound' /\ UNCHANGED <<hold, liveBuy, sold, cash>> /\ premium <= premium'
             /\ fails' >= fails /\ gaps' >= gaps /\ lost' >= lost /\ (blocked => blocked')
             /\ fails' \in Nat /\ gaps' \in Nat /\ lost' \in Nat
  <2>1. PICK answered \in BOOLEAN, m \in Nat, k \in Nat : Sends("sell", t, n, answered, m, k)
    BY <1>4 DEF Orders
  <2>2. UNCHANGED <<hold, liveBuy, sold, cash, fails, gaps, blocked>> /\ lost' = lost + k /\ premium <= premium'
    BY <2>1 DEF Sends, known
  <2>3. AccountSound'
    BY <1>4, OrdersSound
  <2> QED BY <1>1, <2>2, <2>3
<1> QED BY <1>2, <1>3, <1>4, SellClass

(* Types and stages in the sales.                                          *)
LEMMA SellControl ==
  ASSUME AccountSound, SellsOK, Staged, SellStep, UNCHANGED buyvars
  PROVE  SellsOK' /\ Staged'
<1>1. /\ hs \in [Ticker -> Nat] /\ recSold \in [Ticker -> Nat]
      /\ book \subseteq Ticker /\ todo \subseteq Ticker /\ rowSell \subseteq Ticker /\ open \subseteq Ticker
      /\ cur \in Ticker \cup {NoTicker} /\ money \in Nat
      /\ Tries \in Nat \ {0} /\ tries \in Nat /\ tries <= Tries
      /\ adjusted \in BOOLEAN /\ executed \in BOOLEAN
  BY SellTypes
<1>2. /\ Holdings \in [Ticker -> Nat] /\ Cash \in Nat /\ None \in [Ticker -> Nat]
      /\ \A t \in Ticker : Holding(t) \in Nat
  BY ReadFacts DEF AccountSound
<1>3. \A h : Held(h) \subseteq Ticker
  BY DEF Held
<1> DEFINE Quietly == UNCHANGED <<hs, book, money, todo, cur, open, adjusted, rowSell, executed, tries, recSold>>
<1>4. CASE Start
  <2>1. pc = "start" /\ pc' = "started" /\ Quietly
    BY <1>4, ValidatedLoads DEF Start, selling, decided
  <2> QED BY <1>1, <2>1, SellsAgain DEF Staged, PreBuy, SellPhase, BuyPhase, RebuyPhase, RoundPhase
<1>5. CASE ReadHoldings
  <2>1. /\ pc = "started" /\ pc' \in {"weigh", "gates"}
        /\ book' = Held(Holdings) /\ money' = Cash /\ hs' = Holdings
        /\ UNCHANGED <<todo, cur, open, adjusted, rowSell, executed, tries, recSold>>
    BY <1>5, ReloadLoads DEF ReadHoldings
  <2>2. SellsOK'
    BY <1>1, <1>2, <1>3, <2>1, SellsAgain
  <2> QED BY <2>1, <2>2 DEF Staged, PreBuy, SellPhase, BuyPhase, RebuyPhase, RoundPhase
<1>6. CASE Weigh
  <2>1. /\ pc = "weigh" /\ pc' = "reduce" /\ todo' \subseteq Held(hs)
        /\ UNCHANGED <<hs, book, money, cur, open, adjusted, rowSell, executed, tries, recSold>>
    BY <1>6, ReloadLoads DEF Weigh, decided
  <2>2. SellsOK'
    BY <1>1, <1>3, <2>1, SellsAgain
  <2> QED BY <2>1, <2>2 DEF Staged, PreBuy, SellPhase, BuyPhase, RebuyPhase, RoundPhase
<1>7. CASE Reduced
  <2>1. pc = "reduce" /\ pc' \in {"again", "hours"} /\ Quietly
    BY <1>7, ReloadLoads DEF Reduced, selling, decided
  <2> QED BY <1>1, <2>1, SellsAgain DEF Staged, PreBuy, SellPhase, BuyPhase, RebuyPhase, RoundPhase
<1>8. CASE LoadAgain
  <2>1. pc = "again" /\ pc' = "rebalanced" /\ Quietly
    BY <1>8, ReloadLoads DEF LoadAgain, selling, decided
  <2> QED BY <1>1, <2>1, SellsAgain DEF Staged, PreBuy, SellPhase, BuyPhase, RebuyPhase, RoundPhase
<1>9. CASE TakeRebalanced
  <2>1. /\ pc = "rebalanced" /\ pc' = "hours" /\ hs' = Holdings
        /\ UNCHANGED <<book, money, todo, cur, open, adjusted, rowSell, executed, tries, recSold>>
    BY <1>9 DEF TakeRebalanced, decided
  <2>2. SellsOK'
    BY <1>1, <1>2, <2>1, SellsAgain
  <2> QED BY <2>1, <2>2 DEF Staged, PreBuy, SellPhase, BuyPhase, RebuyPhase, RoundPhase
<1>10. CASE Closed
  <2>1. pc = "hours" /\ pc' = "sold" /\ Quietly
    BY <1>10 DEF Closed, selling, decided
  <2> QED BY <1>1, <2>1, SellsAgain DEF Staged, PreBuy, SellPhase, BuyPhase, RebuyPhase, RoundPhase
<1>11. CASE ReadOpen
  <2>1. /\ pc = "hours" /\ pc' = "sells" /\ open' \in {rowSell, {}} /\ todo' = Held(hs)
        /\ UNCHANGED <<hs, book, money, cur, adjusted, rowSell, executed, tries, recSold>>
    BY <1>11 DEF ReadOpen, OpenRows, decided
  <2>2. SellsOK'
    BY <1>1, <1>3, <2>1, SellsAgain
  <2> QED BY <2>1, <2>2 DEF Staged, PreBuy, SellPhase, BuyPhase, RebuyPhase, RoundPhase
<1>12. CASE CheckSale
  <2>1. /\ pc = "sent" /\ cur \in Ticker
        /\ UNCHANGED <<hs, book, money, todo, open, adjusted, rowSell, tries>>
        /\ \/ /\ pc' = "sells" /\ ord # NoOrd /\ cur' = NoTicker /\ executed' = TRUE
              /\ recSold' = [recSold EXCEPT ![cur] = @ + ord.done]
           \/ pc' = "compare" /\ UNCHANGED <<recSold, executed, cur>>
    BY <1>12, ReloadLoads DEF CheckSale, decided, ExecutedById, Answered, Staged
  <2>2. ord # NoOrd => ord.done \in Nat
    BY AccountTypes DEF Answered, AccountSound
  <2>3. recSold' \in [Ticker -> Nat] /\ cur' \in Ticker \cup {NoTicker} /\ executed' \in BOOLEAN
    <3>1. executed' \in BOOLEAN /\ cur' \in Ticker \cup {NoTicker}
      BY <1>1, <2>1
    <3>2. CASE ord # NoOrd /\ recSold' = [recSold EXCEPT ![cur] = @ + ord.done]
      <4> DEFINE d == ord.done
      <4>1. d \in Nat
        BY <2>2, <3>2
      <4> HIDE DEF d
      <4>2. recSold' = [recSold EXCEPT ![cur] = @ + d]
        BY <3>2 DEF d
      <4>3. recSold' \in [Ticker -> Nat]
        BY <1>1, <2>1, <4>1, <4>2
      <4> QED BY <3>1, <4>3
    <3>3. CASE UNCHANGED <<recSold, executed, cur>>
      BY <1>1, <3>1, <3>3
    <3> QED BY <2>1, <3>2, <3>3
  <2>4. SellsOK'
    BY <1>1, <2>1, <2>3, SellsAgain
  <2> QED BY <2>1, <2>4 DEF Staged, PreBuy, SellPhase, BuyPhase, RebuyPhase, RoundPhase
<1>13. CASE CompareHoldings
  <2> DEFINE filled == Max({0, hs[cur] - Holding(cur)})
  <2>1. /\ pc = "compare" /\ pc' = "sells" /\ cur \in Ticker
        /\ UNCHANGED <<hs, book, money, todo, open, adjusted, rowSell, tries>>
        /\ recSold' = [recSold EXCEPT ![cur] = @ + filled] /\ cur' = NoTicker
    BY <1>13 DEF CompareHoldings, decided, Staged
  <2>2. executed' = (executed \/ Answered \/ filled > 0)
    BY <1>13 DEF CompareHoldings
  <2>3. filled \in Nat
    <3> DEFINE d == hs[cur] - Holding(cur)
    <3>1. d \in Int
      BY <1>1, <1>2, <2>1
    <3> HIDE DEF d
    <3>2. Max({0, d}) \in {0, d} /\ Max({0, d}) >= 0
      BY <3>1, MaxOf
    <3>3. filled = Max({0, d})
      BY DEF d
    <3> QED BY <3>1, <3>2, <3>3
  <2> HIDE DEF filled
  <2>4. executed' \in BOOLEAN
    BY <2>2
  <2>5. recSold' \in [Ticker -> Nat]
    BY <1>1, <2>1, <2>3
  <2>6. SellsOK'
    BY <1>1, <2>1, <2>4, <2>5, SellsAgain
  <2> QED BY <2>1, <2>6 DEF Staged, PreBuy, SellPhase, BuyPhase, RebuyPhase, RoundPhase
<1>14. CASE AllSeen
  <2>1. pc = "sells" /\ pc' = "sold" /\ Quietly
    BY <1>14 DEF AllSeen, selling, decided
  <2> QED BY <1>1, <2>1, SellsAgain DEF Staged, PreBuy, SellPhase, BuyPhase, RebuyPhase, RoundPhase
<1>15. CASE AwaitCash
  <2>1. /\ pc = "sold" /\ pc' = "sold" /\ tries' = tries + 1 /\ (tries = 0 \/ tries < Tries)
        /\ UNCHANGED <<hs, book, money, todo, cur, open, adjusted, rowSell, executed, recSold>>
    BY <1>15, ValidatedLoads DEF AwaitCash, selling, decided
  <2>2. tries' \in Nat /\ tries' <= Tries
    BY <1>1, <2>1
  <2>3. SellsOK'
    BY <1>1, <2>1, <2>2, SellsAgain
  <2> QED BY <2>1, <2>3 DEF Staged, PreBuy, SellPhase, BuyPhase, RebuyPhase, RoundPhase
<1>16. CASE EndSales
  <2>1. /\ pc = "sold" /\ pc' = "gates" /\ tries' = 0 /\ hs' = None /\ open' = {}
        /\ adjusted' = FALSE /\ executed' = FALSE /\ UNCHANGED <<todo, cur, rowSell, recSold>>
    BY <1>16 DEF EndSales
  <2>2. book' \subseteq Ticker /\ money' \in Nat
    <3>1. \/ book' = Held(Holdings) /\ money' = Cash
          \/ book' = book /\ money' = money
      BY <1>16 DEF EndSales, decided
    <3> QED BY <1>1, <1>2, <1>3, <3>1
  <2>3. adjusted' \in BOOLEAN /\ executed' \in BOOLEAN
    BY <2>1
  <2>4. SellsOK'
    BY <1>1, <1>2, <2>1, <2>2, <2>3, SellsAgain
  <2> QED BY <2>1, <2>4 DEF Staged, PreBuy, SellPhase, BuyPhase, RebuyPhase, RoundPhase
<1>17. ASSUME NEW t \in Ticker, Reduce(t) PROVE SellsOK' /\ Staged'
  <2>1. /\ pc = "reduce" /\ pc' = "reduce" /\ todo' = todo \ {t}
        /\ UNCHANGED <<hs, book, money, cur, open, rowSell, tries, recSold>>
    BY <1>17 DEF Reduce, decided
  <2>2. PICK n \in 0 .. hs[t] - 1, answered \in BOOLEAN :
         \/ adjusted' = (adjusted \/ n = 0) /\ executed' = executed
         \/ adjusted' = (adjusted \/ answered) /\ executed' = (executed \/ answered)
    BY <1>17 DEF Reduce
  <2>3. adjusted' \in BOOLEAN
    BY <2>2
  <2>4. executed' \in BOOLEAN
    BY <1>1, <2>2
  <2>5. SellsOK'
    BY <1>1, <2>1, <2>3, <2>4, SellsAgain
  <2> QED BY <2>1, <2>5 DEF Staged, PreBuy, SellPhase, BuyPhase, RebuyPhase, RoundPhase
<1>18. ASSUME NEW t \in Ticker, Keep(t) PROVE SellsOK' /\ Staged'
  <2>1. /\ pc = "sells" /\ pc' = "sells" /\ todo' = todo \ {t}
        /\ UNCHANGED <<hs, book, money, cur, open, adjusted, rowSell, executed, tries, recSold>>
    BY <1>18 DEF Keep, decided
  <2>2. SellsOK'
    BY <1>1, <2>1, SellsAgain
  <2> QED BY <2>1, <2>2 DEF Staged, PreBuy, SellPhase, BuyPhase, RebuyPhase, RoundPhase
<1>19. ASSUME NEW t \in Ticker, SellPart(t) PROVE SellsOK' /\ Staged'
  <2>1. /\ pc = "sells" /\ pc' = "sells" /\ todo' = todo \ {t}
        /\ UNCHANGED <<hs, book, money, cur, open, adjusted, rowSell, tries, recSold>>
    BY <1>19 DEF SellPart, decided
  <2>2. \E answered \in BOOLEAN : executed' = (executed \/ answered)
    BY <1>19 DEF SellPart
  <2>3. executed' \in BOOLEAN
    BY <2>2
  <2>4. SellsOK'
    BY <1>1, <2>1, <2>3, SellsAgain
  <2> QED BY <2>1, <2>4 DEF Staged, PreBuy, SellPhase, BuyPhase, RebuyPhase, RoundPhase
<1>20. ASSUME NEW t \in Ticker, SellAll(t) PROVE SellsOK' /\ Staged'
  <2>1. /\ pc = "sells" /\ pc' = "sent" /\ todo' = todo \ {t} /\ cur' = t
        /\ UNCHANGED <<hs, book, money, open, adjusted, rowSell, executed, tries, recSold>>
    BY <1>20 DEF SellAll, decided
  <2>2. SellsOK'
    BY <1>1, <2>1, SellsAgain
  <2> QED BY <2>1, <2>2 DEF Staged, PreBuy, SellPhase, BuyPhase, RebuyPhase, RoundPhase
<1> QED BY <1>4, <1>5, <1>6, <1>7, <1>8, <1>9, <1>10, <1>11, <1>12, <1>13, <1>14, <1>15, <1>16, <1>17,
           <1>18, <1>19, <1>20 DEF SellStep

(* What may still be sold stays known, and a sale leaves the other tickers *)
(* alone; without an answer it is found out at the latest with a copy.     *)
LEMMA KnownByLoad ==
  ASSUME AccountSound, Loads PROVE (\A t \in Ticker : Known(t)') /\ oversold' = oversold
BY LoadsFacts DEF Known, Sellable

LEMMA KnownStill ==
  ASSUME Still PROVE (\A t \in Ticker : Known(t) => Known(t)') /\ oversold' = oversold
BY DEF Still, kis, known, Known, Sellable

LEMMA KnownBySale ==
  ASSUME AccountSound, NEW t \in Ticker, NEW n \in Nat, n <= seen.sell[t], Known(t),
         NEW answered \in BOOLEAN, Send("sell", t, n, 0, answered)
  PROVE  /\ oversold' = oversold
         /\ \A u \in Ticker \ {t} : Known(u) => Known(u)'
         /\ ~answered => Known(t)'
<1>1. PICK m \in Nat, k \in Nat : Sends("sell", t, n, answered, m, k)
  BY SendFacts DEF AccountSound
<1>2. /\ UNCHANGED <<hold, seen>>
      /\ k = 0 => m = IF answered THEN n ELSE 0
      /\ liveSell' = [liveSell EXCEPT ![t] = @ + m]
      /\ changed' = IF k > 0 THEN changed \cup {t} ELSE changed
      /\ oversold' = IF n > Sellable(t) /\ t \notin changed THEN oversold \cup {t} ELSE oversold
  BY <1>1 DEF Sends, known
<1>3. /\ hold \in [Ticker -> Nat] /\ liveSell \in [Ticker -> Nat] /\ seen.sell \in [Ticker -> Nat]
  BY AccountTypes DEF AccountSound
<1>4. ~(n > Sellable(t) /\ t \notin changed)
  BY <1>3 DEF Known, Sellable
<1>5. ASSUME NEW u \in Ticker \ {t}, Known(u) PROVE Known(u)'
  <2>1. liveSell'[u] = liveSell[u] /\ (u \in changed => u \in changed')
    BY <1>2, <1>3
  <2> QED BY <1>2, <1>5, <2>1 DEF Known, Sellable
<1>6. ASSUME ~answered PROVE Known(t)'
  <2>1. CASE k > 0
    BY <1>2, <2>1 DEF Known
  <2>2. CASE k = 0
    <3>1. m = 0 /\ liveSell'[t] = liveSell[t] /\ changed' = changed
      BY <1>2, <1>3, <1>6, <2>2
    <3> QED BY <1>2, <3>1 DEF Known, Sellable
  <2> QED BY <2>1, <2>2
<1> QED BY <1>2, <1>4, <1>5, <1>6

LEMMA SellKnown ==
  ASSUME AccountSound, SellsOK, Staged, SellsKnown, oversold = {}, SellStep
  PROVE  SellsKnown' /\ oversold' = {}
<1>1. AccountOK
  BY DEF AccountSound
<1>2. hs \in [Ticker -> Nat] /\ todo \subseteq Ticker /\ adjusted \in BOOLEAN
  BY SellTypes
<1>3. \A h : Held(h) \subseteq Ticker
  BY DEF Held
<1>4. ASSUME UNCHANGED account PROVE (\A t \in Ticker : Known(t) => Known(t)') /\ oversold' = oversold
  BY <1>4, KnownStill DEF Still, account
<1>5. CASE Start
  BY <1>5, ValidatedLoads, KnownByLoad DEF Start, SellsKnown
<1>6. CASE ReadHoldings
  <2>1. CASE pc' = "gates" /\ UNCHANGED account
    BY <1>4, <2>1 DEF SellsKnown
  <2>2. CASE Reload("weigh")
    BY <2>2, ReloadLoads, KnownByLoad DEF SellsKnown
  <2> QED BY <1>6, <2>1, <2>2 DEF ReadHoldings
<1>7. CASE Weigh
  <2>1. (\A t \in Ticker : Known(t)') /\ oversold' = oversold /\ todo' \subseteq Ticker
    BY <1>3, <1>7, ReloadLoads, KnownByLoad DEF Weigh
  <2> QED BY <2>1 DEF SellsKnown
<1>8. CASE Reduced
  <2>1. CASE adjusted /\ Reload("again")
    BY <2>1, ReloadLoads, KnownByLoad DEF SellsKnown
  <2>2. CASE ~adjusted /\ pc' = "hours" /\ UNCHANGED account
    <3>1. \A t \in Ticker : Known(t)
      BY <1>8, <2>2 DEF SellsKnown, Reduced
    <3> QED BY <1>4, <2>2, <3>1 DEF SellsKnown
  <2> QED BY <1>8, <2>1, <2>2 DEF Reduced
<1>9. CASE LoadAgain
  BY <1>9, ReloadLoads, KnownByLoad DEF LoadAgain, SellsKnown
<1>10. CASE TakeRebalanced
  <2>1. pc = "rebalanced" /\ pc' = "hours" /\ UNCHANGED account
    BY <1>10 DEF TakeRebalanced
  <2> QED BY <1>4, <2>1 DEF SellsKnown
<1>11. CASE ReadOpen
  <2>1. pc = "hours" /\ pc' = "sells" /\ UNCHANGED account /\ todo' \subseteq Ticker
    BY <1>3, <1>11 DEF ReadOpen
  <2> QED BY <1>4, <2>1 DEF SellsKnown
<1>12. CASE Closed \/ AllSeen \/ EndSales
  <2>1. pc' \in {"sold", "gates"} /\ UNCHANGED account
    BY <1>12 DEF Closed, AllSeen, EndSales
  <2> QED BY <1>4, <2>1 DEF SellsKnown
<1>13. CASE CheckSale
  <2>1. CASE /\ pc' = "sells"
             /\ UNCHANGED <<kis, known, lost, risks, changed, oversold>> /\ ord' = NoOrd
    <3>1. (\A t \in Ticker : Known(t) => Known(t)') /\ oversold' = oversold
      BY <2>1, KnownStill DEF Still
    <3>2. pc = "sent" /\ todo' = todo
      BY <1>13 DEF CheckSale
    <3> QED BY <1>2, <2>1, <3>1, <3>2 DEF SellsKnown
  <2>2. CASE Reload("compare")
    <3>1. todo' = todo
      BY <1>13 DEF CheckSale
    <3> QED BY <1>2, <2>2, <3>1, ReloadLoads, KnownByLoad DEF SellsKnown
  <2> QED BY <1>13, <2>1, <2>2 DEF CheckSale
<1>14. CASE CompareHoldings
  <2>1. /\ pc = "compare" /\ pc' = "sells" /\ todo' = todo /\ ord' = NoOrd
        /\ UNCHANGED <<kis, known, lost, risks, changed, oversold>>
    BY <1>14 DEF CompareHoldings
  <2>2. (\A t \in Ticker : Known(t) => Known(t)') /\ oversold' = oversold
    BY <2>1, KnownStill DEF Still
  <2> QED BY <1>2, <2>1, <2>2 DEF SellsKnown
<1>15. CASE AwaitCash
  BY <1>15, ValidatedLoads, KnownByLoad DEF AwaitCash, SellsKnown
<1>16. ASSUME NEW t \in Ticker, Reduce(t) PROVE SellsKnown' /\ oversold' = {}
  <2>1. /\ pc = "reduce" /\ pc' = "reduce" /\ t \in todo /\ todo' = todo \ {t}
    BY <1>16 DEF Reduce
  <2>2. PICK n \in 0 .. hs[t] - 1, answered \in BOOLEAN :
         LET c == Clamp(t, n) IN
         IF c = 0
         THEN adjusted' = (adjusted \/ n = 0) /\ UNCHANGED <<account, executed>>
         ELSE /\ Send("sell", t, c, 0, answered)
              /\ adjusted' = (adjusted \/ answered) /\ executed' = (executed \/ answered)
              /\ UNCHANGED ord
    BY <1>16 DEF Reduce
  <2>3. n \in Nat
    BY <1>2
  <2>4. Clamp(t, n) \in Nat /\ Clamp(t, n) <= seen.sell[t]
    BY <1>1, <2>3, ClampFacts
  <2>5. Known(t) /\ \A u \in todo' : Known(u)
    BY <2>1 DEF SellsKnown
  <2>6. CASE Clamp(t, n) = 0
    <3>1. UNCHANGED account /\ (~adjusted' => ~adjusted)
      BY <2>2, <2>6
    <3> QED BY <1>2, <1>4, <2>1, <2>5, <3>1 DEF SellsKnown
  <2>7. CASE Clamp(t, n) # 0
    <3>1. Send("sell", t, Clamp(t, n), 0, answered) /\ (~adjusted' => ~adjusted /\ ~answered)
      BY <2>2, <2>7
    <3>2. /\ oversold' = oversold
          /\ \A u \in Ticker \ {t} : Known(u) => Known(u)'
          /\ ~answered => Known(t)'
      BY <2>4, <2>5, <3>1, KnownBySale
    <3>3. \A u \in todo' : Known(u)'
      BY <1>2, <2>1, <2>5, <3>2
    <3>4. ~adjusted' => \A u \in Ticker : Known(u)'
      BY <2>1, <3>1, <3>2 DEF SellsKnown
    <3> QED BY <2>1, <3>2, <3>3, <3>4 DEF SellsKnown
  <2> QED BY <2>6, <2>7
<1>17. ASSUME NEW t \in Ticker, Keep(t) PROVE SellsKnown' /\ oversold' = {}
  <2>1. pc = "sells" /\ pc' = "sells" /\ todo' = todo \ {t} /\ UNCHANGED account
    BY <1>17 DEF Keep
  <2> QED BY <1>2, <1>4, <2>1 DEF SellsKnown
<1>18. ASSUME NEW t \in Ticker, SellPart(t) PROVE SellsKnown' /\ oversold' = {}
  <2>1. pc = "sells" /\ pc' = "sells" /\ t \in todo /\ todo' = todo \ {t}
    BY <1>18 DEF SellPart
  <2>2. Half(hs[t]) \in Nat
    <3>1. hs[t] \in Nat
      BY <1>2
    <3>2. hs[t] \div 2 \in Nat
      BY <3>1
    <3> QED BY <3>1, <3>2 DEF Half
  <2>3. Clamp(t, Half(hs[t])) \in Nat /\ Clamp(t, Half(hs[t])) <= seen.sell[t]
    BY <1>1, <2>2, ClampFacts
  <2>4. PICK answered \in BOOLEAN : Send("sell", t, Clamp(t, Half(hs[t])), 0, answered)
    BY <1>18 DEF SellPart
  <2>5. Known(t) /\ \A u \in todo' : Known(u)
    BY <2>1 DEF SellsKnown
  <2>6. oversold' = oversold /\ \A u \in Ticker \ {t} : Known(u) => Known(u)'
    BY <2>3, <2>4, <2>5, KnownBySale
  <2> QED BY <1>2, <2>1, <2>5, <2>6 DEF SellsKnown
<1>19. ASSUME NEW t \in Ticker, SellAll(t) PROVE SellsKnown' /\ oversold' = {}
  <2>1. pc = "sells" /\ pc' = "sent" /\ t \in todo /\ todo' = todo \ {t}
    BY <1>19 DEF SellAll
  <2>2. Clamp(t, hs[t]) \in Nat /\ Clamp(t, hs[t]) <= seen.sell[t]
    BY <1>1, <1>2, ClampFacts
  <2>3. PICK answered \in BOOLEAN : Send("sell", t, Clamp(t, hs[t]), 0, answered)
    BY <1>19 DEF SellAll
  <2>4. Known(t) /\ \A u \in todo' : Known(u)
    BY <2>1 DEF SellsKnown
  <2>5. oversold' = oversold /\ \A u \in Ticker \ {t} : Known(u) => Known(u)'
    BY <2>2, <2>3, <2>4, KnownBySale
  <2> QED BY <1>2, <2>1, <2>4, <2>5 DEF SellsKnown
<1> QED BY <1>5, <1>6, <1>7, <1>8, <1>9, <1>10, <1>11, <1>12, <1>13, <1>14, <1>15, <1>16, <1>17, <1>18,
           <1>19 DEF SellStep

(* The rows of the sales.  Flawless says that every snapshot was loaded    *)
(* and complete; then the snapshot and what the run took from it are no    *)
(* more than what is held and what was sold.                               *)
Flawless == fails + gaps = 0
Shown ==
    /\ seen.ok
    /\ \A t \in Ticker : hs[t] <= hold[t] + sold[t] /\ seen.hold[t] <= hold[t] + sold[t]

LEMMA FewerFaults ==
  ASSUME fails \in Nat, gaps \in Nat, fails' \in Nat, gaps' \in Nat,
         fails' >= fails, gaps' >= gaps, Flawless'
  PROVE  Flawless /\ fails' = 0 /\ gaps' = 0
<1> DEFINE a == fails'
           b == gaps'
<1>1. a \in Nat /\ b \in Nat /\ a >= fails /\ b >= gaps /\ a + b = 0
  BY DEF Flawless
<1> HIDE DEF a, b
<1>2. a = 0 /\ b = 0 /\ fails + gaps = 0
  BY <1>1
<1> QED BY <1>2 DEF Flawless, a, b

LEMMA LoadShows ==
  ASSUME AccountSound, Loads, Flawless'
  PROVE  /\ Flawless /\ seen'.ok /\ UNCHANGED <<hold, sold>>
         /\ \A t \in Ticker : seen'.hold[t] = hold[t]
<1>1. /\ fails' \in Nat /\ gaps' \in Nat /\ fails' >= fails /\ gaps' >= gaps
      /\ gaps' = 0 /\ (fails' = 0 \/ ~blocked') => seen' = Account
      /\ UNCHANGED <<hold, sold>>
  BY LoadsFacts
<1>2. fails \in Nat /\ gaps \in Nat
  BY AccountTypes DEF AccountSound
<1>3. fails' = 0 /\ gaps' = 0 /\ Flawless
  BY <1>1, <1>2, FewerFaults
<1> QED BY <1>1, <1>3 DEF Account

LEMMA SellRecorded ==
  ASSUME AccountSound, SellsOK, Staged, RecordedOnce, SellStep, UNCHANGED start
  PROVE  RecordedOnce'
<1>1. /\ hs \in [Ticker -> Nat] /\ recSold \in [Ticker -> Nat]
      /\ book \subseteq Ticker /\ todo \subseteq Ticker /\ cur \in Ticker \cup {NoTicker}
  BY SellTypes
<1>2. /\ Holdings \in [Ticker -> Nat] /\ None \in [Ticker -> Nat] /\ \A t \in Ticker : None[t] = 0
      /\ \A t \in Ticker : Holding(t) \in Nat /\ Holdings[t] = Holding(t)
  BY ReadFacts DEF AccountSound
<1>3. /\ hold \in [Ticker -> Nat] /\ sold \in [Ticker -> Nat] /\ seen.hold \in [Ticker -> Nat]
      /\ fails \in Nat /\ gaps \in Nat
  BY AccountTypes DEF AccountSound
<1>4. \A h : Held(h) \subseteq Ticker
  BY DEF Held
<1>5. UNCHANGED <<hold, sold>> /\ (Flawless' => Flawless)
  <2>1. /\ UNCHANGED <<hold, sold>> /\ fails' >= fails /\ gaps' >= gaps
        /\ fails' \in Nat /\ gaps' \in Nat
    BY SellSound
  <2> QED BY <1>3, <2>1, FewerFaults
<1>6. Flawless => \A t \in Ticker : recSold[t] <= sold[t]
  BY DEF RecordedOnce, Flawless
<1>7. Flawless /\ pc \in SellPhase \ {"start"} => Shown
  BY DEF RecordedOnce, Flawless, Shown
<1>8. Flawless /\ pc = "start" => \A t \in Ticker : hs[t] <= hold[t] + sold[t]
  BY DEF RecordedOnce, Flawless, SellPhase
<1>9. ASSUME UNCHANGED seen, UNCHANGED hs, Flawless', pc \in SellPhase \ {"start"} PROVE Shown'
  BY <1>5, <1>7, <1>9 DEF Shown
<1>10. ASSUME Loads, UNCHANGED hs, Flawless', pc \in SellPhase PROVE Shown'
  <2>1. seen'.ok /\ \A t \in Ticker : seen'.hold[t] = hold[t]
    BY <1>10, LoadShows
  <2>2. \A t \in Ticker : hs[t] <= hold[t] + sold[t]
    BY <1>5, <1>7, <1>8, <1>10 DEF Shown
  <2> QED BY <1>3, <1>5, <1>10, <2>1, <2>2 DEF Shown
<1>11. ASSUME NEW to \in {"started", "weigh", "reduce", "again", "rebalanced", "hours", "sells", "sold", "gates"},
              pc' = to, UNCHANGED recSold,
              to \in {"started", "weigh", "reduce", "again", "rebalanced", "hours"} =>
                \A t \in Ticker : recSold[t] = 0,
              to = "sells" => \A t \in todo' : recSold[t] = 0,
              Flawless' /\ to # "gates" => Shown'
       PROVE  RecordedOnce'
  <2>1. Flawless' => \A t \in Ticker : recSold'[t] <= sold'[t]
    BY <1>5, <1>6, <1>11
  <2> QED BY <1>11, <2>1 DEF RecordedOnce, Flawless, Shown, SellPhase
<1>12. CASE Start
  <2>1. pc = "start" /\ pc' = "started" /\ Loads /\ UNCHANGED <<hs, recSold>>
    BY <1>12, ValidatedLoads DEF Start, selling
  <2>2. \A t \in Ticker : recSold[t] = 0
    BY <2>1 DEF RecordedOnce
  <2>3. Flawless' => Shown'
    BY <1>10, <2>1 DEF SellPhase
  <2> QED BY <1>11, <2>1, <2>2, <2>3
<1>13. CASE ReadHoldings
  <2>1. pc = "started" /\ hs' = Holdings /\ UNCHANGED recSold
    BY <1>13 DEF ReadHoldings
  <2>2. \A t \in Ticker : recSold[t] = 0
    BY <2>1 DEF RecordedOnce
  <2>3. CASE pc' = "gates"
    BY <1>11, <2>1, <2>2, <2>3
  <2>4. CASE Reload("weigh")
    <3>1. Loads /\ pc' = "weigh"
      BY <2>4, ReloadLoads
    <3>2. ASSUME Flawless' PROVE Shown'
      <4>1. seen'.ok /\ \A t \in Ticker : seen'.hold[t] = hold[t]
        BY <3>1, <3>2, LoadShows
      <4>2. seen.ok /\ \A t \in Ticker : seen.hold[t] <= hold[t] + sold[t]
        BY <1>5, <1>7, <2>1, <3>2 DEF Shown, SellPhase
      <4>3. \A t \in Ticker : hs'[t] <= hold[t] + sold[t]
        BY <1>2, <2>1, <4>2 DEF Holding
      <4> QED BY <1>3, <1>5, <4>1, <4>3 DEF Shown
    <3> QED BY <1>11, <2>1, <2>2, <3>1, <3>2
  <2> QED BY <1>13, <2>3, <2>4 DEF ReadHoldings
<1>14. CASE Weigh
  <2>1. pc = "weigh" /\ pc' = "reduce" /\ Loads /\ UNCHANGED <<hs, recSold>>
    BY <1>14, ReloadLoads DEF Weigh
  <2>2. \A t \in Ticker : recSold[t] = 0
    BY <2>1 DEF RecordedOnce
  <2>3. Flawless' => Shown'
    BY <1>10, <2>1 DEF SellPhase
  <2> QED BY <1>11, <2>1, <2>2, <2>3
<1>15. CASE Reduced
  <2>1. pc = "reduce" /\ UNCHANGED <<hs, recSold>>
    BY <1>15 DEF Reduced, selling
  <2>2. \A t \in Ticker : recSold[t] = 0
    BY <2>1 DEF RecordedOnce
  <2>3. CASE Loads /\ pc' = "again"
    BY <1>10, <1>11, <2>1, <2>2, <2>3 DEF SellPhase
  <2>4. CASE pc' = "hours" /\ UNCHANGED account
    <3>1. UNCHANGED seen
      BY <2>4 DEF account, known
    <3> QED BY <1>9, <1>11, <2>1, <2>2, <2>4, <3>1 DEF SellPhase
  <2> QED BY <1>15, <2>3, <2>4, ReloadLoads DEF Reduced
<1>16. CASE LoadAgain
  <2>1. pc = "again" /\ pc' = "rebalanced" /\ Loads /\ UNCHANGED <<hs, recSold>>
    BY <1>16, ReloadLoads DEF LoadAgain, selling
  <2>2. \A t \in Ticker : recSold[t] = 0
    BY <2>1 DEF RecordedOnce
  <2>3. Flawless' => Shown'
    BY <1>10, <2>1 DEF SellPhase
  <2> QED BY <1>11, <2>1, <2>2, <2>3
<1>17. CASE TakeRebalanced
  <2>1. pc = "rebalanced" /\ pc' = "hours" /\ hs' = Holdings /\ UNCHANGED <<seen, recSold>>
    BY <1>17 DEF TakeRebalanced, account, known
  <2>2. \A t \in Ticker : recSold[t] = 0
    BY <2>1 DEF RecordedOnce
  <2>3. ASSUME Flawless' PROVE Shown'
    <3>1. Shown
      BY <1>5, <1>7, <2>1, <2>3 DEF SellPhase
    <3>2. \A t \in Ticker : hs'[t] <= hold[t] + sold[t]
      BY <1>2, <2>1, <3>1 DEF Holding, Shown
    <3> QED BY <1>5, <2>1, <3>1, <3>2 DEF Shown
  <2> QED BY <1>11, <2>1, <2>2, <2>3
<1>18. CASE Closed \/ AllSeen
  <2>1. pc \in {"hours", "sells"} /\ pc' = "sold" /\ UNCHANGED <<seen, hs, recSold>>
    BY <1>18 DEF Closed, AllSeen, account, known, selling
  <2> QED BY <1>9, <1>11, <2>1 DEF SellPhase
<1>19. CASE ReadOpen
  <2>1. /\ pc = "hours" /\ pc' = "sells" /\ UNCHANGED <<seen, hs, recSold>> /\ todo' \subseteq Ticker
    BY <1>4, <1>19 DEF ReadOpen, account, known
  <2>2. \A t \in Ticker : recSold[t] = 0
    BY <2>1 DEF RecordedOnce
  <2> QED BY <1>9, <1>11, <2>1, <2>2 DEF SellPhase
<1>20. CASE CheckSale
  <2>1. pc = "sent" /\ UNCHANGED <<hs, todo>> /\ cur \in Ticker
    BY <1>20 DEF CheckSale, Staged
  <2>2. /\ \A t \in todo : recSold[t] = 0
        /\ cur \notin todo /\ recSold[cur] = 0
        /\ Answered => ord.side = "sell" /\ ord.t = cur
    BY <2>1 DEF RecordedOnce
  <2>3. CASE /\ Answered /\ recSold' = [recSold EXCEPT ![cur] = @ + ord.done] /\ pc' = "sells"
             /\ UNCHANGED <<kis, known, lost, risks, changed, oversold>>
    <3> DEFINE d == ord.done
    <3>1. d \in Nat /\ d <= sold[cur]
      BY <2>2, <2>3, AccountTypes DEF AccountSound, OrderLive
    <3>2. recSold' = [recSold EXCEPT ![cur] = @ + d] /\ UNCHANGED seen
      BY <2>3 DEF known
    <3> HIDE DEF d
    <3>3. recSold'[cur] = d /\ \A t \in Ticker \ {cur} : recSold'[t] = recSold[t]
      BY <1>1, <2>1, <2>2, <3>1, <3>2
    <3>4. Flawless' => \A t \in Ticker : recSold'[t] <= sold'[t]
      BY <1>3, <1>5, <1>6, <3>1, <3>3
    <3>5. \A t \in todo' : recSold'[t] = 0
      BY <1>1, <2>1, <2>2, <3>3
    <3>6. Flawless' => Shown'
      BY <1>9, <2>1, <3>2 DEF SellPhase
    <3> QED BY <2>3, <3>4, <3>5, <3>6 DEF RecordedOnce, Flawless, Shown, SellPhase
  <2>4. CASE Reload("compare") /\ UNCHANGED <<recSold, cur>>
    <3>1. Loads /\ pc' = "compare"
      BY <2>4, ReloadLoads
    <3>2. ASSUME Flawless' PROVE Shown' /\ hs'[cur'] <= seen'.hold[cur'] + sold'[cur']
      <4>1. Shown' /\ \A t \in Ticker : seen'.hold[t] = hold[t]
        BY <1>10, <2>1, <3>1, <3>2, LoadShows DEF SellPhase
      <4>2. hs[cur] <= hold[cur] + sold[cur]
        BY <1>5, <1>7, <2>1, <3>2 DEF Shown, SellPhase
      <4> QED BY <1>5, <2>1, <2>4, <4>1, <4>2
    <3>3. Flawless' => \A t \in Ticker : recSold'[t] <= sold'[t]
      BY <1>5, <1>6, <2>4
    <3> QED BY <2>1, <2>2, <2>4, <3>1, <3>2, <3>3 DEF RecordedOnce, Flawless, Shown, SellPhase
  <2> QED BY <1>20, <2>3, <2>4 DEF CheckSale, ExecutedById
<1>21. CASE CompareHoldings
  <2> DEFINE d == hs[cur] - Holding(cur)
             filled == Max({0, d})
  <2>1. /\ pc = "compare" /\ pc' = "sells" /\ cur \in Ticker /\ UNCHANGED <<hs, todo, seen>>
        /\ recSold' = [recSold EXCEPT ![cur] = @ + filled]
    BY <1>21 DEF CompareHoldings, Staged, known
  <2>2. d \in Int
    BY <1>1, <1>2, <2>1
  <2>3. Flawless => d <= sold[cur]
    <3>1. SUFFICES ASSUME Flawless PROVE d <= sold[cur]
      OBVIOUS
    <3>2. seen.ok /\ hs[cur] <= seen.hold[cur] + sold[cur]
      BY <2>1, <3>1 DEF RecordedOnce, Flawless, SellPhase
    <3>3. Holding(cur) = seen.hold[cur]
      BY <3>2 DEF Holding
    <3>4. seen.hold[cur] \in Nat /\ hs[cur] \in Nat /\ sold[cur] \in Nat
      BY <1>1, <1>3, <2>1
    <3> QED BY <3>2, <3>3, <3>4
  <2> HIDE DEF d
  <2>4. filled \in Nat /\ (filled = 0 \/ filled = d)
    BY <2>2, MaxOf
  <2> HIDE DEF filled
  <2>5. /\ \A t \in todo : recSold[t] = 0
        /\ cur \notin todo /\ recSold[cur] = 0
    BY <2>1 DEF RecordedOnce
  <2>6. recSold'[cur] = filled /\ \A t \in Ticker \ {cur} : recSold'[t] = recSold[t]
    BY <1>1, <2>1, <2>4, <2>5
  <2>7. Flawless' => \A t \in Ticker : recSold'[t] <= sold'[t]
    BY <1>3, <1>5, <1>6, <2>1, <2>3, <2>4, <2>6
  <2>8. \A t \in todo' : recSold'[t] = 0
    BY <1>1, <2>1, <2>5, <2>6
  <2>9. Flawless' => Shown'
    BY <1>9, <2>1 DEF SellPhase
  <2> QED BY <2>1, <2>7, <2>8, <2>9 DEF RecordedOnce, Flawless, Shown, SellPhase
<1>22. CASE AwaitCash
  <2>1. pc = "sold" /\ pc' = "sold" /\ Loads /\ UNCHANGED <<hs, recSold>>
    BY <1>22, ValidatedLoads DEF AwaitCash, selling
  <2>2. Flawless' => Shown'
    BY <1>10, <2>1 DEF SellPhase
  <2> QED BY <1>11, <2>1, <2>2
<1>23. CASE EndSales
  <2>1. pc' = "gates" /\ UNCHANGED recSold
    BY <1>23 DEF EndSales
  <2> QED BY <1>11, <2>1
<1>24. ASSUME NEW t \in Ticker, Reduce(t) PROVE RecordedOnce'
  <2>1. pc = "reduce" /\ pc' = "reduce" /\ UNCHANGED <<hs, recSold, seen>>
    BY <1>24 DEF Reduce, account, known, Send
  <2>2. \A u \in Ticker : recSold[u] = 0
    BY <2>1 DEF RecordedOnce
  <2>3. Flawless' => Shown'
    BY <1>9, <2>1 DEF SellPhase
  <2> QED BY <1>11, <2>1, <2>2, <2>3
<1>25. ASSUME NEW t \in Ticker, Keep(t) \/ SellPart(t) PROVE RecordedOnce'
  <2>1. /\ pc = "sells" /\ pc' = "sells" /\ UNCHANGED <<hs, recSold, seen>> /\ todo' \subseteq todo
    BY <1>25 DEF Keep, SellPart, account, known, Send
  <2>2. \A u \in todo' : recSold[u] = 0
    BY <2>1 DEF RecordedOnce
  <2>3. Flawless' => Shown'
    BY <1>9, <2>1 DEF SellPhase
  <2> QED BY <1>11, <2>1, <2>2, <2>3
<1>26. ASSUME NEW t \in Ticker, SellAll(t) PROVE RecordedOnce'
  <2>1. /\ pc = "sells" /\ pc' = "sent" /\ UNCHANGED <<hs, recSold, seen>>
        /\ t \in todo /\ todo' = todo \ {t} /\ cur' = t
    BY <1>26 DEF SellAll, known, Send
  <2>2. \E answered \in BOOLEAN : \E n : Await("sell", t, n, answered)
    BY <1>26 DEF SellAll
  <2>3. Answered' => ord'.side = "sell" /\ ord'.t = t
    BY <2>2 DEF Await, Answered
  <2>4. \A u \in todo : recSold[u] = 0
    BY <2>1 DEF RecordedOnce
  <2>5. Flawless' => Shown'
    BY <1>9, <2>1 DEF SellPhase
  <2>6. Flawless' => \A u \in Ticker : recSold'[u] <= sold'[u]
    BY <1>5, <1>6, <2>1
  <2> QED BY <1>1, <2>1, <2>3, <2>4, <2>5, <2>6 DEF RecordedOnce, Flawless, Shown, SellPhase
<1> QED BY <1>12, <1>13, <1>14, <1>15, <1>16, <1>17, <1>18, <1>19, <1>20, <1>21, <1>22, <1>23, <1>24, <1>25,
           <1>26 DEF SellStep

-----------------------------------------------------------------------------
(* The types of the buys, fact by fact, and what happens to the lists.     *)
LEMMA BuyTypes ==
  ASSUME BuysOK
  PROVE  /\ targets \in Seq(Ticker) /\ queue \in Seq(Ticker) /\ failed \in Seq(Ticker) /\ new \in Seq(Ticker)
         /\ round \in 0 .. 3 /\ success \in BOOLEAN
         /\ remaining \in Nat /\ q \in Nat /\ pre \in Nat /\ eff \in Nat
         /\ loose \subseteq Ticker
         /\ MaxShares \in Nat \ {0} /\ MinOrder \in Nat \ {0}
         /\ queue # <<>> => Top \in Ticker
<1>1. queue \in Seq(Ticker)
  BY DEF BuysOK
<1>2. queue # <<>> => Top \in Ticker
  BY <1>1 DEF Top
<1> QED BY <1>2, BuysAssumption DEF BuysOK, Share

LEMMA BuysAgain ==
  ASSUME /\ targets' \in Seq(Ticker) /\ queue' \in Seq(Ticker) /\ failed' \in Seq(Ticker) /\ new' \in Seq(Ticker)
         /\ round' \in 0 .. 3 /\ success' \in BOOLEAN
         /\ remaining' \in Nat /\ q' \in Nat /\ pre' \in Nat /\ eff' \in Nat
         /\ loose' \subseteq Ticker
  PROVE  BuysOK'
BY DEF BuysOK, Share

LEMMA SellsStay ==
  ASSUME SellsOK, UNCHANGED <<hs, book, money, todo, cur, open, adjusted, rowSell, executed, recSold>>,
         tries' \in Nat, tries' <= Tries
  PROVE  SellsOK'
BY SellTypes, SellsAgain

LEMMA EmptyList == <<>> \in Seq(Ticker) /\ OnePlace(<<>>) /\ Listed(<<>>) = {}
BY DEF OnePlace, Listed

LEMMA RebuyTail ==
  ASSUME NEW tg, NEW qu \in Seq(Ticker), NEW fa, NEW nw, NEW bk, qu # <<>>, RebuyLists(tg, qu, fa, nw, bk)
  PROVE  Tail(qu) \in Seq(Ticker) /\ RebuyLists(tg, Tail(qu), fa, nw, bk)
BY TailFacts DEF RebuyLists

LEMMA RoundMiss ==
  ASSUME NEW tg, NEW qu \in Seq(Ticker), NEW fa \in Seq(Ticker), qu # <<>>, RoundLists(tg, qu, fa)
  PROVE  /\ Tail(qu) \in Seq(Ticker) /\ Append(fa, Head(qu)) \in Seq(Ticker)
         /\ RoundLists(tg, Tail(qu), Append(fa, Head(qu)))
         /\ Listed(Append(fa, Head(qu))) = Listed(fa) \cup {Head(qu)}
<1>1. /\ Head(qu) \in Ticker /\ Head(qu) \in Listed(qu) /\ Tail(qu) \in Seq(Ticker) /\ OnePlace(Tail(qu))
      /\ Listed(Tail(qu)) = Listed(qu) \ {Head(qu)}
  BY TailFacts DEF RoundLists
<1>2. OnePlace(fa) /\ Head(qu) \notin Listed(fa)
  BY <1>1 DEF RoundLists
<1>3. /\ Append(fa, Head(qu)) \in Seq(Ticker) /\ OnePlace(Append(fa, Head(qu)))
      /\ Listed(Append(fa, Head(qu))) = Listed(fa) \cup {Head(qu)}
  BY <1>1, <1>2, AppendFacts
<1> HIDE DEF OnePlace, Listed
<1> QED BY <1>1, <1>3 DEF RoundLists

LEMMA RoundKeep ==
  ASSUME NEW tg \in Seq(Ticker), NEW qu \in Seq(Ticker), NEW fa, qu # <<>>, RoundLists(tg, qu, fa)
  PROVE  /\ Tail(qu) \in Seq(Ticker) /\ Without(tg, Head(qu)) \in Seq(Ticker)
         /\ RoundLists(Without(tg, Head(qu)), Tail(qu), fa)
         /\ Listed(Without(tg, Head(qu))) = Listed(tg) \ {Head(qu)}
<1>1. /\ Head(qu) \in Listed(qu) /\ Tail(qu) \in Seq(Ticker) /\ OnePlace(Tail(qu))
      /\ Listed(Tail(qu)) = Listed(qu) \ {Head(qu)}
  BY TailFacts DEF RoundLists
<1>2. OnePlace(tg) /\ Head(qu) \in Listed(tg)
  BY <1>1 DEF RoundLists
<1>3. /\ Without(tg, Head(qu)) \in Seq(Ticker) /\ OnePlace(Without(tg, Head(qu)))
      /\ Listed(Without(tg, Head(qu))) = Listed(tg) \ {Head(qu)}
  BY <1>2, WithoutFacts
<1> QED BY <1>1, <1>3 DEF RoundLists

LEMMA SlotsOf ==
  ASSUME AccountOK, NEW c \in Nat
  PROVE  EffectiveSlots(c) \in Nat /\ EffectiveSlots(c) <= start.slots
<1>1. start.slots \in Nat /\ MinOrder \in Nat \ {0}
  BY AccountTypes, BuysAssumption
<1> DEFINE d == c \div MinOrder
           s == start.slots
<1>2. d \in Nat /\ s \in Nat
  BY <1>1
<1> HIDE DEF d, s
<1>3. Min({s, d}) \in {s, d} /\ Min({s, d}) <= s
  BY <1>2, MinOf
<1> QED BY <1>2, <1>3 DEF EffectiveSlots, d, s

LEMMA AffordableFacts ==
  ASSUME NEW c \in Nat, NEW n \in Affordable(c)
  PROVE  n \in Nat /\ n <= MaxShares
<1>1. MinOrder \in Nat /\ MaxShares \in Nat
  BY BuysAssumption
<1>2. Min({c, MaxShares}) \in {c, MaxShares} /\ Min({c, MaxShares}) <= MaxShares
  BY <1>1, MinOf
<1>3. n \in MinOrder .. Min({c, MaxShares})
  BY DEF Affordable
<1> QED BY <1>1, <1>2, <1>3

(* The new positions are the best of the plans, as many as slots are free. *)
LEMMA TargetsFacts ==
  ASSUME BuysOK, SellsOK, IsFiniteSet(Ticker), OnePlace(new)
  PROVE  /\ Targets \in Seq(Ticker) /\ OnePlace(Targets) /\ Listed(Targets) \subseteq Listed(new)
         /\ Cardinality(Listed(Targets)) <= Max({0, eff - Cardinality(book)})
         /\ Cardinality(book) \in Nat /\ Max({0, eff - Cardinality(book)}) \in Nat
<1>1. new \in Seq(Ticker) /\ eff \in Nat /\ book \subseteq Ticker
  BY BuyTypes, SellTypes
<1>2. Cardinality(book) \in Nat
  BY <1>1, FS_Subset, FS_CardinalityType
<1> DEFINE d == eff - Cardinality(book)
           m == Max({0, d})
           n == Min({Len(new), m})
<1>3. d \in Int
  BY <1>1, <1>2
<1> HIDE DEF d
<1>4. m \in {0, d} /\ m >= 0
  BY <1>3, MaxOf
<1>5. m \in Nat
  BY <1>3, <1>4
<1> HIDE DEF m
<1>6. Len(new) \in Nat
  BY <1>1
<1>7. n \in {Len(new), m} /\ n <= Len(new) /\ n <= m
  BY <1>5, <1>6, MinOf
<1>8. n \in 0 .. Len(new)
  BY <1>5, <1>6, <1>7
<1> HIDE DEF n
<1>9. /\ SubSeq(new, 1, n) \in Seq(Ticker) /\ OnePlace(SubSeq(new, 1, n))
      /\ Listed(SubSeq(new, 1, n)) \subseteq Listed(new)
      /\ Cardinality(Listed(SubSeq(new, 1, n))) <= n
  BY <1>1, <1>8, PrefixFacts
<1>10. Targets = SubSeq(new, 1, n)
  BY DEF Targets, n, m, d
<1>11. Cardinality(Listed(Targets)) \in Nat
  <2>1. Listed(Targets) \subseteq Ticker
    <3>1. \A i \in DOMAIN Targets : Targets[i] \in Ticker
      BY <1>9, <1>10
    <3> QED BY <3>1 DEF Listed
  <2> QED BY <2>1, FS_Subset, FS_CardinalityType
<1>12. Cardinality(Listed(Targets)) <= m
  BY <1>5, <1>6, <1>7, <1>9, <1>10, <1>11
<1> QED BY <1>2, <1>5, <1>9, <1>10, <1>12 DEF m, d

-----------------------------------------------------------------------------
(* What a step of the buys does with the account.                          *)
LEMMA BuyClass ==
  ASSUME AccountSound, BuysOK, Staged, BuyStep
  PROVE  \/ Still \/ Loads
         \/ queue # <<>> /\ Top \in Ticker /\ \E n \in Nat : Orders("buy", Top, n)
<1>1. AccountOK
  BY DEF AccountSound
<1>2. q \in Nat /\ pre \in Nat /\ Dear \in Nat /\ (queue # <<>> => Top \in Ticker)
  BY BuyTypes, AccountAssumption
<1>3. ASSUME UNCHANGED account PROVE Still
  BY <1>3 DEF Still, account
<1>4. ASSUME UNCHANGED <<kis, known, lost, risks, changed, oversold>>, ord' \in {ord, NoOrd} PROVE Still
  BY <1>4 DEF Still
<1>5. ASSUME NEW n \in Nat, NEW dear \in Nat, NEW answered \in BOOLEAN, Buy(Top, n, dear, answered),
             ord' = ord \/ Await("buy", Top, n, answered),
             pc \in {"limit", "market1", "market2", "capped", "marketable", "market order"}
      PROVE  queue # <<>> /\ Top \in Ticker /\ \E i \in Nat : Orders("buy", Top, i)
  <2>1. queue # <<>> /\ Top \in Ticker
    BY <1>2, <1>5 DEF Staged, BuyPhase, RebuyPhase, RoundPhase
  <2>2. Orders("buy", Top, n)
    BY <1>5, <2>1, BuySends DEF Orders
  <2> QED BY <2>1, <2>2
<1>6. CASE Gated \/ StartBatch \/ StartRounds
  BY <1>3, <1>6 DEF Gated, StartBatch, StartRounds, Next1
<1>7. CASE OpenBuys \/ SyncRebuy \/ Again1 \/ SyncPlan \/ BeforeMarket \/ Poll
  BY <1>7, ReloadLoads DEF OpenBuys, SyncRebuy, Again1, SyncPlan, BeforeMarket, Poll
<1>8. CASE SizeRebuy
  BY <1>3, <1>8, ReloadLoads DEF SizeRebuy
<1>9. CASE LimitRebuy
  <2>1. pc = "limit" /\ q' = Capped(q) /\ q' \in Nat
    BY <1>1, <1>2, <1>9, CappedFacts DEF LimitRebuy
  <2>2. CASE UNCHANGED account
    BY <1>3, <2>2
  <2>3. CASE \E answered \in BOOLEAN : Buy(Top, q', 0, answered) /\ Await("buy", Top, q', answered)
    BY <1>5, <2>1, <2>3
  <2> QED BY <1>9, <2>2, <2>3 DEF LimitRebuy
<1>10. CASE CheckRebuy \/ Crossed
  <2>1. Load /\ UNCHANGED <<kis, lost, risks, oversold>> /\ ord' = NoOrd
    BY <1>10 DEF CheckRebuy, Crossed
  <2> QED BY <2>1 DEF Load, Loads
<1>11. CASE SpentRebuy
  BY <1>3, <1>11 DEF SpentRebuy
<1>12. CASE FallBack("fallback1", "market1") \/ FallBack("fallback2", "market2")
  BY <1>12, ReloadLoads DEF FallBack
<1>13. ASSUME NEW from \in {"market1", "market2"}, MarketRebuy(from)
       PROVE  Still \/ Loads \/ (queue # <<>> /\ Top \in Ticker /\ \E n \in Nat : Orders("buy", Top, n))
  <2>1. pc = from /\ ord' = ord /\ Capped(pre) \in Nat
    BY <1>1, <1>2, <1>13, CappedFacts DEF MarketRebuy
  <2>2. CASE UNCHANGED <<kis, known, lost, risks, changed, oversold>>
    BY <1>4, <2>1, <2>2
  <2>3. CASE \E answered \in BOOLEAN : Buy(Top, Capped(pre), Dear, answered)
    BY <1>2, <1>5, <2>1, <2>3
  <2>4. CASE Load /\ UNCHANGED <<kis, lost, risks, oversold>>
    BY <2>1, <2>4 DEF Load, Loads
  <2>5. \/ UNCHANGED <<kis, known, lost, risks, changed, oversold>>
        \/ Load /\ UNCHANGED <<kis, lost, risks, oversold>>
        \/ \E answered \in BOOLEAN : Buy(Top, Capped(pre), Dear, answered)
    BY <1>13 DEF MarketRebuy
  <2> QED BY <2>2, <2>3, <2>4, <2>5
<1>14. CASE Market1 \/ Market2
  BY <1>13, <1>14 DEF Market1, Market2
<1>15. CASE TakePlan
  BY <1>3, <1>15, ReloadLoads DEF TakePlan, Next1
<1>16. CASE SizePlan
  BY <1>4, <1>16, ReloadLoads DEF SizePlan, Missed
<1>17. CASE LimitOrder
  <2>1. pc = "capped" /\ q' = Capped(q) /\ q' \in Nat
    BY <1>1, <1>2, <1>17, CappedFacts DEF LimitOrder
  <2>2. CASE Missed /\ UNCHANGED <<kis, known, lost, risks, changed, oversold>>
    BY <1>4, <2>2 DEF Missed
  <2>3. CASE \E answered \in BOOLEAN : Buy(Top, q', 0, answered) /\ Await("buy", Top, q', answered)
    BY <1>5, <2>1, <2>3
  <2> QED BY <1>17, <2>2, <2>3 DEF LimitOrder
<1>18. CASE Placed
  BY <1>18, ReloadLoads DEF Placed, Bought
<1>19. CASE LateFill
  BY <1>3, <1>19, ReloadLoads DEF LateFill, Bought, Next1
<1>20. CASE MarketableOrder
  <2>1. CASE UNCHANGED <<kis, known, ord, lost, risks, changed, oversold>>
    BY <1>4, <2>1
  <2>2. CASE \E answered \in BOOLEAN : Buy(Top, q, Dear, answered) /\ Await("buy", Top, q, answered)
    BY <1>2, <1>5, <1>20, <2>2 DEF MarketableOrder
  <2> QED BY <1>20, <2>1, <2>2 DEF MarketableOrder
<1>21. CASE MarketOrder
  <2>1. CASE Missed /\ UNCHANGED <<kis, known, lost, risks, changed, oversold>>
    BY <1>4, <2>1 DEF Missed
  <2>2. CASE \E answered \in BOOLEAN : Buy(Top, Capped(q), Dear, answered) /\ Await("buy", Top, Capped(q), answered)
    <3>1. Capped(q) \in Nat
      BY <1>1, <1>2, CappedFacts
    <3> QED BY <1>2, <1>5, <1>21, <2>2, <3>1 DEF MarketOrder
  <2> QED BY <1>21, <2>1, <2>2 DEF MarketOrder
<1>22. CASE Confirm
  <2>1. CASE Bought
    BY <2>1, ReloadLoads DEF Bought
  <2>2. CASE Next1("confirm")
    BY <1>3, <2>2 DEF Next1
  <2>3. CASE Missed /\ UNCHANGED <<kis, known, lost, risks, changed, oversold>>
    BY <1>4, <2>3 DEF Missed
  <2> QED BY <1>22, <2>1, <2>2, <2>3 DEF Confirm
<1>23. CASE KeepBought
  BY <1>4, <1>23 DEF KeepBought
<1>24. CASE EndRound
  BY <1>3, <1>24 DEF EndRound, Next1
<1> QED BY <1>6, <1>7, <1>8, <1>9, <1>10, <1>11, <1>12, <1>14, <1>15, <1>16, <1>17, <1>18, <1>19, <1>20,
           <1>21, <1>22, <1>23, <1>24 DEF BuyStep

LEMMA BuySound ==
  ASSUME AccountSound, BuysOK, Staged, BuyStep, start' = start
  PROVE  /\ AccountSound' /\ UNCHANGED <<hold, sold, oversold>>
         /\ fails' >= fails /\ gaps' >= gaps /\ lost' >= lost /\ (blocked => blocked')
         /\ fails' \in Nat /\ gaps' \in Nat /\ lost' \in Nat
<1>1. /\ lost \in Nat /\ fails \in Nat /\ gaps \in Nat
  BY AccountTypes DEF AccountSound
<1>2. CASE Still
  <2>1. UNCHANGED <<hold, sold, oversold, fails, gaps, lost, blocked>>
    BY <1>2 DEF Still, kis, known
  <2> QED BY <1>1, <1>2, <2>1, StillSound
<1>3. CASE Loads
  BY <1>1, <1>3, LoadsSound, LoadsFacts
<1>4. ASSUME Top \in Ticker, NEW n \in Nat, Orders("buy", Top, n)
      PROVE  /\ AccountSound' /\ UNCHANGED <<hold, sold, oversold>>
             /\ fails' >= fails /\ gaps' >= gaps /\ lost' >= lost /\ (blocked => blocked')
             /\ fails' \in Nat /\ gaps' \in Nat /\ lost' \in Nat
  <2>1. PICK answered \in BOOLEAN, m \in Nat, k \in Nat : Sends("buy", Top, n, answered, m, k)
    BY <1>4 DEF Orders
  <2>2. UNCHANGED <<hold, sold, oversold, fails, gaps, blocked>> /\ lost' = lost + k
    BY <2>1 DEF Sends, known
  <2>3. AccountSound'
    BY <1>4, OrdersSound
  <2> QED BY <1>1, <2>2, <2>3
<1> QED BY <1>2, <1>3, <1>4, BuyClass

(* Types, stages and lists in the buys.                                    *)
LEMMA BuyControl ==
  ASSUME AccountSound, SellsOK, BuysOK, Staged, Planned, BuyStep
  PROVE  SellsOK' /\ BuysOK' /\ Staged' /\ Planned'
<1>1. /\ AccountOK /\ SellsOK /\ Tries \in Nat \ {0} /\ tries \in Nat /\ tries <= Tries
      /\ book \subseteq Ticker /\ money \in Nat
      /\ Cash \in Nat /\ \A t \in Ticker : Holding(t) \in Nat
  BY SellTypes, ReadFacts DEF AccountSound
<1>2. /\ targets \in Seq(Ticker) /\ queue \in Seq(Ticker) /\ failed \in Seq(Ticker) /\ new \in Seq(Ticker)
      /\ round \in 0 .. 3 /\ success \in BOOLEAN
      /\ remaining \in Nat /\ q \in Nat /\ pre \in Nat /\ eff \in Nat
      /\ loose \subseteq Ticker /\ (queue # <<>> => Top \in Ticker)
  BY BuyTypes
<1>3. CASE Gated
  <2>1. /\ pc = "gates" /\ pc' = "over"
        /\ UNCHANGED <<targets, queue, failed, round, success, new, remaining, q, pre, eff, loose>>
    BY <1>3 DEF Gated, Next1, buyvars, plan, hand
  <2>2. UNCHANGED <<hs, book, money, todo, cur, open, adjusted, rowSell, executed, recSold, tries>>
    BY <1>3 DEF Gated, Next1, buyvars, plan, hand, rest, selling, decided
  <2>3. SellsOK'
    BY <1>1, <2>2, SellsStay
  <2>4. BuysOK'
    BY <1>1, <1>2, <2>1, BuysAgain
  <2>5. Staged'
    BY <2>1, <2>2 DEF Staged, PreBuy, SellPhase, BuyPhase, RebuyPhase, RoundPhase
  <2>6. Planned'
    BY <2>1, <2>2 DEF Planned, PreBuy, SellPhase, RebuyPhase, RoundPhase
  <2> QED BY <2>3, <2>4, <2>5, <2>6
<1>4. CASE OpenBuys
  <2>1. /\ pc = "gates" /\ pc' = "first"
        /\ UNCHANGED <<queue, failed, round, success, remaining, q, pre, loose>>
        /\ targets' \in PlansFor(book) \/ targets' = <<>>
        /\ new' \in PlansFor(Ticker \ book)
        /\ eff' = EffectiveSlots(money)
    BY <1>4, ReloadLoads DEF OpenBuys, hand
  <2>2. UNCHANGED <<hs, book, money, todo, cur, open, adjusted, rowSell, executed, recSold, tries>>
    BY <1>4 DEF OpenBuys, hand, rest, selling, decided
  <2>3. SellsOK'
    BY <1>1, <2>2, SellsStay
  <2>4. /\ targets' \in Seq(Ticker) /\ OnePlace(targets') /\ Listed(targets') \subseteq book
        /\ new' \in Seq(Ticker) /\ OnePlace(new') /\ Listed(new') \subseteq Ticker \ book
    BY <1>1, <2>1, PlansForFacts, EmptyList
  <2>5. eff' \in Nat
    BY <1>1, <2>1, SlotsOf
  <2>6. RebuyLists(targets', queue', failed', new', book)
    BY <2>1, <2>4, EmptyList DEF Planned, PreBuy, RebuyLists
  <2>7. BuysOK'
    BY <1>1, <1>2, <2>1, <2>4, <2>5, BuysAgain
  <2>8. Staged'
    BY <2>1, <2>2, <2>4, <2>5 DEF Staged, PreBuy, SellPhase, BuyPhase, RebuyPhase, RoundPhase
  <2>9. Planned'
    BY <2>1, <2>2, <2>6 DEF Planned, PreBuy, SellPhase, RebuyPhase, RoundPhase
  <2> QED BY <2>3, <2>7, <2>8, <2>9
<1>5. CASE StartBatch
  <2>1. /\ pc = "first" /\ pc' = "rebuy"
        /\ UNCHANGED <<targets, failed, round, success, new, q, pre, eff, loose>>
        /\ remaining' = Synced(money)
        /\ queue' \in {<<>>, targets}
    BY <1>5 DEF StartBatch, Next1, hand
  <2>2. UNCHANGED <<hs, book, money, todo, cur, open, adjusted, rowSell, executed, recSold, tries>>
    BY <1>5 DEF StartBatch, Next1, hand, rest, selling, decided
  <2>3. SellsOK'
    BY <1>1, <2>2, SellsStay
  <2>4. remaining' \in Nat /\ queue' \in Seq(Ticker)
    BY <1>1, <1>2, <2>1, SyncedFacts, EmptyList
  <2>5. RebuyLists(targets, queue', failed, new, book)
    BY <2>1, EmptyList DEF RebuyLists, Planned, RebuyPhase
  <2>6. BuysOK'
    BY <1>1, <1>2, <2>1, <2>4, BuysAgain
  <2>7. Staged'
    BY <2>1, <2>2, <2>4 DEF Staged, PreBuy, SellPhase, BuyPhase, RebuyPhase, RoundPhase
  <2>8. Planned'
    BY <2>1, <2>2, <2>5 DEF Planned, PreBuy, SellPhase, RebuyPhase, RoundPhase
  <2> QED BY <2>3, <2>6, <2>7, <2>8
<1>6. CASE SyncRebuy
  <2>1. /\ pc = "rebuy" /\ pc' = "size"
        /\ UNCHANGED <<targets, queue, failed, round, success, new, remaining, q, pre, eff, loose>>
        /\ queue # <<>>
    BY <1>6, ReloadLoads DEF SyncRebuy, buyvars, plan, hand
  <2>2. UNCHANGED <<hs, book, money, todo, cur, open, adjusted, rowSell, executed, recSold, tries>>
    BY <1>6 DEF SyncRebuy, buyvars, plan, hand, rest, selling, decided
  <2>3. SellsOK'
    BY <1>1, <2>2, SellsStay
  <2>4. BuysOK'
    BY <1>1, <1>2, <2>1, BuysAgain
  <2>5. Staged'
    BY <2>1, <2>2 DEF Staged, PreBuy, SellPhase, BuyPhase, RebuyPhase, RoundPhase
  <2>6. Planned'
    BY <2>1, <2>2 DEF Planned, PreBuy, SellPhase, RebuyPhase, RoundPhase
  <2> QED BY <2>3, <2>4, <2>5, <2>6
<1>7. CASE SizeRebuy
  <2>1. /\ pc = "size" /\ pc' \in {"rebuy", "limit"}
        /\ UNCHANGED <<targets, failed, round, success, new, pre, loose>>
        /\ remaining' = Synced(remaining) /\ eff' = EffectiveSlots(remaining')
        /\ queue' \in {queue, Tail(queue)}
        /\ pc' = "limit" => queue' = queue
        /\ q' = q \/ q' \in Affordable(remaining')
    BY <1>7, ReloadLoads DEF SizeRebuy, NextRebuy
  <2>2. UNCHANGED <<hs, book, money, todo, cur, open, adjusted, rowSell, executed, recSold, tries>>
    BY <1>7 DEF SizeRebuy, NextRebuy, rest, selling, decided
  <2>3. SellsOK'
    BY <1>1, <2>2, SellsStay
  <2>4. queue # <<>>
    BY <2>1 DEF Staged, PreBuy, SellPhase, BuyPhase, RebuyPhase, RoundPhase
  <2>5. queue' \in Seq(Ticker) /\ RebuyLists(targets, queue', failed, new, book)
    BY <1>2, <2>1, <2>4, RebuyTail DEF Planned, RebuyPhase
  <2>6. remaining' \in Nat /\ eff' \in Nat /\ q' \in Nat
    <3>1. remaining' \in Nat
      BY <1>1, <1>2, <2>1, SyncedFacts
    <3> QED BY <1>1, <1>2, <2>1, <3>1, SlotsOf, AffordableFacts
  <2>7. BuysOK'
    BY <1>1, <1>2, <2>1, <2>4, <2>5, <2>6, BuysAgain
  <2>8. Staged'
    BY <2>1, <2>2, <2>4, <2>5, <2>6 DEF Staged, PreBuy, SellPhase, BuyPhase, RebuyPhase, RoundPhase
  <2>9. Planned'
    BY <2>1, <2>2, <2>5 DEF Planned, PreBuy, SellPhase, RebuyPhase, RoundPhase
  <2> QED BY <2>3, <2>7, <2>8, <2>9
<1>8. CASE LimitRebuy
  <2>1. /\ pc = "limit" /\ pc' \in {"rebuy", "limited"}
        /\ UNCHANGED <<targets, failed, round, success, new, remaining, pre, eff, loose>>
        /\ q' = Capped(q)
        /\ queue' \in {queue, Tail(queue)}
        /\ pc' = "limited" => queue' = queue
    BY <1>8 DEF LimitRebuy, NextRebuy
  <2>2. UNCHANGED <<hs, book, money, todo, cur, open, adjusted, rowSell, executed, recSold, tries>>
    BY <1>8 DEF LimitRebuy, NextRebuy, rest, selling, decided
  <2>3. SellsOK'
    BY <1>1, <2>2, SellsStay
  <2>4. queue # <<>>
    BY <2>1 DEF Staged, PreBuy, SellPhase, BuyPhase, RebuyPhase, RoundPhase
  <2>5. queue' \in Seq(Ticker) /\ RebuyLists(targets, queue', failed, new, book)
    BY <1>2, <2>1, <2>4, RebuyTail DEF Planned, RebuyPhase
  <2>6. q' \in Nat
    BY <1>1, <1>2, <2>1, CappedFacts
  <2>7. BuysOK'
    BY <1>1, <1>2, <2>1, <2>4, <2>5, <2>6, BuysAgain
  <2>8. Staged'
    BY <2>1, <2>2, <2>4, <2>5, <2>6 DEF Staged, PreBuy, SellPhase, BuyPhase, RebuyPhase, RoundPhase
  <2>9. Planned'
    BY <2>1, <2>2, <2>5 DEF Planned, PreBuy, SellPhase, RebuyPhase, RoundPhase
  <2> QED BY <2>3, <2>7, <2>8, <2>9
<1>9. CASE CheckRebuy
  <2>1. /\ pc = "limited" /\ pc' \in {"spent", "fallback1"}
        /\ UNCHANGED <<targets, queue, failed, round, success, new, remaining, q, pre, eff>>
        /\ loose' \in {loose, loose \cup {Top}}
    BY <1>9 DEF CheckRebuy, plan, hand
  <2>2. UNCHANGED <<hs, book, money, todo, cur, open, adjusted, rowSell, executed, recSold, tries>>
    BY <1>9 DEF CheckRebuy, plan, hand, rest, selling, decided
  <2>3. SellsOK'
    BY <1>1, <2>2, SellsStay
  <2>4. queue # <<>> /\ Top \in Ticker
    BY <1>2, <2>1 DEF Staged, PreBuy, SellPhase, BuyPhase, RebuyPhase, RoundPhase
  <2>5. loose' \subseteq Ticker
    BY <1>2, <2>1, <2>4
  <2>6. BuysOK'
    BY <1>1, <1>2, <2>1, <2>4, <2>5, BuysAgain
  <2>7. Staged'
    BY <2>1, <2>2, <2>4, <2>5 DEF Staged, PreBuy, SellPhase, BuyPhase, RebuyPhase, RoundPhase
  <2>8. Planned'
    BY <2>1, <2>2 DEF Planned, PreBuy, SellPhase, RebuyPhase, RoundPhase
  <2> QED BY <2>3, <2>6, <2>7, <2>8
<1>10. CASE SpentRebuy
  <2>1. /\ pc = "spent" /\ pc' = "rebuy"
        /\ UNCHANGED <<targets, failed, round, success, new, q, pre, eff, loose>>
        /\ queue' \in {queue, Tail(queue)}
        /\ remaining' = Cash
    BY <1>10 DEF SpentRebuy, NextRebuy, hand
  <2>2. UNCHANGED <<hs, book, money, todo, cur, open, adjusted, rowSell, executed, recSold, tries>>
    BY <1>10 DEF SpentRebuy, NextRebuy, hand, rest, selling, decided
  <2>3. SellsOK'
    BY <1>1, <2>2, SellsStay
  <2>4. queue # <<>>
    BY <2>1 DEF Staged, PreBuy, SellPhase, BuyPhase, RebuyPhase, RoundPhase
  <2>5. queue' \in Seq(Ticker) /\ RebuyLists(targets, queue', failed, new, book)
    BY <1>2, <2>1, <2>4, RebuyTail DEF Planned, RebuyPhase
  <2>6. BuysOK'
    BY <1>1, <1>2, <2>1, <2>4, <2>5, BuysAgain
  <2>7. Staged'
    BY <2>1, <2>2, <2>4, <2>5 DEF Staged, PreBuy, SellPhase, BuyPhase, RebuyPhase, RoundPhase
  <2>8. Planned'
    BY <2>1, <2>2, <2>5 DEF Planned, PreBuy, SellPhase, RebuyPhase, RoundPhase
  <2> QED BY <2>3, <2>6, <2>7, <2>8
<1>11. CASE FallBack("fallback1", "market1")
  <2>1. /\ pc = "fallback1" /\ pc' = "market1"
        /\ UNCHANGED <<targets, queue, failed, round, success, new, remaining, q, eff, loose>>
        /\ pre' = Max({0, q - Holding(Top)})
    BY <1>11, ReloadLoads DEF FallBack, plan
  <2>2. UNCHANGED <<hs, book, money, todo, cur, open, adjusted, rowSell, executed, recSold, tries>>
    BY <1>11 DEF FallBack, plan, rest, selling, decided
  <2>3. SellsOK'
    BY <1>1, <2>2, SellsStay
  <2>4. queue # <<>> /\ Top \in Ticker
    BY <1>2, <2>1 DEF Staged, PreBuy, SellPhase, BuyPhase, RebuyPhase, RoundPhase
  <2>5. pre' \in Nat
    <3> DEFINE d == q - Holding(Top)
    <3>1. d \in Int
      BY <1>1, <1>2, <2>4
    <3> HIDE DEF d
    <3>2. Max({0, d}) \in {0, d} /\ Max({0, d}) >= 0
      BY <3>1, MaxOf
    <3>3. pre' = Max({0, d})
      BY <2>1 DEF d
    <3> QED BY <3>1, <3>2, <3>3
  <2>6. BuysOK'
    BY <1>1, <1>2, <2>1, <2>4, <2>5, BuysAgain
  <2>7. Staged'
    BY <2>1, <2>2, <2>4, <2>5 DEF Staged, PreBuy, SellPhase, BuyPhase, RebuyPhase, RoundPhase
  <2>8. Planned'
    BY <2>1, <2>2 DEF Planned, PreBuy, SellPhase, RebuyPhase, RoundPhase
  <2> QED BY <2>3, <2>6, <2>7, <2>8
<1>12. CASE FallBack("fallback2", "market2")
  <2>1. /\ pc = "fallback2" /\ pc' = "market2"
        /\ UNCHANGED <<targets, queue, failed, round, success, new, remaining, q, eff, loose>>
        /\ pre' = Max({0, q - Holding(Top)})
    BY <1>12, ReloadLoads DEF FallBack, plan
  <2>2. UNCHANGED <<hs, book, money, todo, cur, open, adjusted, rowSell, executed, recSold, tries>>
    BY <1>12 DEF FallBack, plan, rest, selling, decided
  <2>3. SellsOK'
    BY <1>1, <2>2, SellsStay
  <2>4. queue # <<>> /\ Top \in Ticker
    BY <1>2, <2>1 DEF Staged, PreBuy, SellPhase, BuyPhase, RebuyPhase, RoundPhase
  <2>5. pre' \in Nat
    <3> DEFINE d == q - Holding(Top)
    <3>1. d \in Int
      BY <1>1, <1>2, <2>4
    <3> HIDE DEF d
    <3>2. Max({0, d}) \in {0, d} /\ Max({0, d}) >= 0
      BY <3>1, MaxOf
    <3>3. pre' = Max({0, d})
      BY <2>1 DEF d
    <3> QED BY <3>1, <3>2, <3>3
  <2>6. BuysOK'
    BY <1>1, <1>2, <2>1, <2>4, <2>5, BuysAgain
  <2>7. Staged'
    BY <2>1, <2>2, <2>4, <2>5 DEF Staged, PreBuy, SellPhase, BuyPhase, RebuyPhase, RoundPhase
  <2>8. Planned'
    BY <2>1, <2>2 DEF Planned, PreBuy, SellPhase, RebuyPhase, RoundPhase
  <2> QED BY <2>3, <2>6, <2>7, <2>8
<1>13. CASE Market1
  <2>1. /\ pc = "market1" /\ pc' = "again1"
        /\ UNCHANGED <<targets, queue, failed, round, success, new, q, pre, eff>>
        /\ remaining' = remaining \/ (Load /\ UNCHANGED <<kis, lost, risks, oversold>> /\ remaining' \in {remaining, seen'.cash})
        /\ ord' = ord
        /\ loose' \in {loose, loose \cup {Top}}
    BY <1>13 DEF Market1, MarketRebuy, hand
  <2>10. remaining' \in Nat
    <3>1. CASE remaining' = remaining
      BY <1>2, <3>1
    <3>2. CASE Load /\ UNCHANGED <<kis, lost, risks, oversold>> /\ remaining' \in {remaining, seen'.cash}
      <4>1. Loads
        BY <2>1, <3>2 DEF Load, Loads
      <4> QED BY <1>2, <3>2, <4>1, LoadsFacts
    <3> QED BY <2>1, <3>1, <3>2
  <2>2. UNCHANGED <<hs, book, money, todo, cur, open, adjusted, rowSell, executed, recSold, tries>>
    BY <1>13 DEF Market1, MarketRebuy, hand, rest, selling, decided
  <2>3. SellsOK'
    BY <1>1, <2>2, SellsStay
  <2>4. queue # <<>> /\ Top \in Ticker
    BY <1>2, <2>1 DEF Staged, PreBuy, SellPhase, BuyPhase, RebuyPhase, RoundPhase
  <2>5. loose' \subseteq Ticker
    BY <1>2, <2>1, <2>4
  <2>6. BuysOK'
    BY <1>1, <1>2, <2>1, <2>10, <2>4, <2>5, BuysAgain
  <2>7. Staged'
    BY <2>1, <2>2, <2>4, <2>5 DEF Staged, PreBuy, SellPhase, BuyPhase, RebuyPhase, RoundPhase
  <2>8. Planned'
    BY <2>1, <2>2 DEF Planned, PreBuy, SellPhase, RebuyPhase, RoundPhase
  <2> QED BY <2>3, <2>6, <2>7, <2>8
<1>14. CASE Again1
  <2>1. /\ pc = "again1" /\ pc' = "fallback2"
        /\ UNCHANGED <<targets, queue, failed, round, success, new, remaining, q, pre, eff, loose>>
    BY <1>14, ReloadLoads DEF Again1, buyvars, plan, hand
  <2>2. UNCHANGED <<hs, book, money, todo, cur, open, adjusted, rowSell, executed, recSold, tries>>
    BY <1>14 DEF Again1, buyvars, plan, hand, rest, selling, decided
  <2>3. SellsOK'
    BY <1>1, <2>2, SellsStay
  <2>4. BuysOK'
    BY <1>1, <1>2, <2>1, BuysAgain
  <2>5. Staged'
    BY <2>1, <2>2 DEF Staged, PreBuy, SellPhase, BuyPhase, RebuyPhase, RoundPhase
  <2>6. Planned'
    BY <2>1, <2>2 DEF Planned, PreBuy, SellPhase, RebuyPhase, RoundPhase
  <2> QED BY <2>3, <2>4, <2>5, <2>6
<1>15. CASE Market2
  <2>1. /\ pc = "market2" /\ pc' = "rebuy"
        /\ UNCHANGED <<targets, failed, round, success, new, q, pre, eff>>
        /\ remaining' = remaining \/ (Load /\ UNCHANGED <<kis, lost, risks, oversold>> /\ remaining' \in {remaining, seen'.cash})
        /\ ord' = ord
        /\ loose' \in {loose, loose \cup {Top}}
        /\ queue' = Tail(queue)
    BY <1>15 DEF Market2, MarketRebuy, NextRebuy, hand
  <2>10. remaining' \in Nat
    <3>1. CASE remaining' = remaining
      BY <1>2, <3>1
    <3>2. CASE Load /\ UNCHANGED <<kis, lost, risks, oversold>> /\ remaining' \in {remaining, seen'.cash}
      <4>1. Loads
        BY <2>1, <3>2 DEF Load, Loads
      <4> QED BY <1>2, <3>2, <4>1, LoadsFacts
    <3> QED BY <2>1, <3>1, <3>2
  <2>2. UNCHANGED <<hs, book, money, todo, cur, open, adjusted, rowSell, executed, recSold, tries>>
    BY <1>15 DEF Market2, MarketRebuy, NextRebuy, hand, rest, selling, decided
  <2>3. SellsOK'
    BY <1>1, <2>2, SellsStay
  <2>4. queue # <<>>
    BY <2>1 DEF Staged, PreBuy, SellPhase, BuyPhase, RebuyPhase, RoundPhase
  <2>5. queue' \in Seq(Ticker) /\ RebuyLists(targets, queue', failed, new, book)
    BY <1>2, <2>1, <2>4, RebuyTail DEF Planned, RebuyPhase
  <2>6. loose' \subseteq Ticker
    BY <1>2, <2>1, <2>4
  <2>7. BuysOK'
    BY <1>1, <1>2, <2>1, <2>10, <2>4, <2>5, <2>6, BuysAgain
  <2>8. Staged'
    BY <2>1, <2>2, <2>4, <2>5, <2>6 DEF Staged, PreBuy, SellPhase, BuyPhase, RebuyPhase, RoundPhase
  <2>9. Planned'
    BY <2>1, <2>2, <2>5 DEF Planned, PreBuy, SellPhase, RebuyPhase, RoundPhase
  <2> QED BY <2>3, <2>7, <2>8, <2>9
<1>16. CASE StartRounds
  <2>1. /\ pc = "rebuy" /\ pc' = "next"
        /\ UNCHANGED <<failed, loose>>
        /\ targets' = Targets /\ queue' = Targets /\ new' = <<>>
        /\ round' = 1 /\ success' = FALSE
        /\ eff' = 0 /\ remaining' = money /\ q' = 0 /\ pre' = 0
    BY <1>16 DEF StartRounds, Next1
  <2>2. UNCHANGED <<hs, book, money, todo, cur, open, adjusted, rowSell, executed, recSold, tries>>
    BY <1>16 DEF StartRounds, Next1, rest, selling, decided
  <2>3. SellsOK'
    BY <1>1, <2>2, SellsStay
  <2>4. round' \in 0 .. 3 /\ eff' \in Nat /\ q' \in Nat /\ pre' \in Nat
    BY <2>1
  <2>5. success' \in BOOLEAN
    BY <2>1
  <2>6. Targets \in Seq(Ticker) /\ OnePlace(Targets) /\ <<>> \in Seq(Ticker)
    BY <2>1, AccountAssumption, TargetsFacts, EmptyList DEF Planned, RebuyPhase, RebuyLists
  <2>7. RoundLists(targets', queue', failed')
    BY <2>1, <2>6, EmptyList DEF Planned, RebuyPhase, RebuyLists, RoundLists
  <2>8. BuysOK'
    BY <1>1, <1>2, <2>1, <2>6, <2>4, <2>5, BuysAgain
  <2>9. Staged'
    BY <2>1, <2>2, <2>6, <2>4, <2>5 DEF Staged, PreBuy, SellPhase, BuyPhase, RebuyPhase, RoundPhase
  <2>10. Planned'
    BY <2>1, <2>2, <2>7 DEF Planned, PreBuy, SellPhase, RebuyPhase, RoundPhase
  <2> QED BY <2>3, <2>8, <2>9, <2>10
<1>17. CASE SyncPlan
  <2>1. /\ pc = "next" /\ pc' = "synced"
        /\ UNCHANGED <<targets, queue, failed, round, success, new, remaining, q, pre, eff, loose>>
        /\ queue # <<>>
    BY <1>17, ReloadLoads DEF SyncPlan, buyvars, plan, hand
  <2>2. UNCHANGED <<hs, book, money, todo, cur, open, adjusted, rowSell, executed, recSold, tries>>
    BY <1>17 DEF SyncPlan, buyvars, plan, hand, rest, selling, decided
  <2>3. SellsOK'
    BY <1>1, <2>2, SellsStay
  <2>4. BuysOK'
    BY <1>1, <1>2, <2>1, BuysAgain
  <2>5. Staged'
    BY <2>1, <2>2 DEF Staged, PreBuy, SellPhase, BuyPhase, RebuyPhase, RoundPhase
  <2>6. Planned'
    BY <2>1, <2>2 DEF Planned, PreBuy, SellPhase, RebuyPhase, RoundPhase
  <2> QED BY <2>3, <2>4, <2>5, <2>6
<1>18. CASE TakePlan
  <2>1. /\ pc = "synced" /\ pc' \in {"next", "sizing"}
        /\ UNCHANGED <<targets, failed, round, success, new, q, pre, eff, loose>>
        /\ remaining' = Synced(remaining)
        /\ queue' \in {queue, <<>>}
        /\ pc' = "sizing" => queue' = queue
    BY <1>18, ReloadLoads DEF TakePlan, Next1, hand
  <2>2. UNCHANGED <<hs, book, money, todo, cur, open, adjusted, rowSell, executed, recSold, tries>>
    BY <1>18 DEF TakePlan, Next1, hand, rest, selling, decided
  <2>3. SellsOK'
    BY <1>1, <2>2, SellsStay
  <2>4. queue # <<>>
    BY <2>1 DEF Staged, PreBuy, SellPhase, BuyPhase, RebuyPhase, RoundPhase
  <2>5. remaining' \in Nat /\ queue' \in Seq(Ticker)
    BY <1>1, <1>2, <2>1, SyncedFacts, EmptyList
  <2>6. RoundLists(targets, queue', failed)
    BY <2>1, EmptyList DEF Planned, RoundPhase, RoundLists
  <2>7. BuysOK'
    BY <1>1, <1>2, <2>1, <2>4, <2>5, BuysAgain
  <2>8. Staged'
    BY <2>1, <2>2, <2>4, <2>5 DEF Staged, PreBuy, SellPhase, BuyPhase, RebuyPhase, RoundPhase
  <2>9. Planned'
    BY <2>1, <2>2, <2>6 DEF Planned, PreBuy, SellPhase, RebuyPhase, RoundPhase
  <2> QED BY <2>3, <2>7, <2>8, <2>9
<1>19. CASE SizePlan
  <2>1. /\ pc = "sizing" /\ pc' \in {"next", "capped"}
        /\ UNCHANGED <<targets, round, success, new, remaining, eff, loose>>
        /\ pre' = Holding(Top)
        /\ q' = 0 \/ q' \in Affordable(remaining)
        /\ \/ pc' # "next" /\ UNCHANGED <<queue, failed>>
           \/ pc' = "next" /\ queue' = Tail(queue) /\ failed' = Append(failed, Top)
    BY <1>19, ReloadLoads DEF SizePlan, Missed, NoMiss
  <2>2. UNCHANGED <<hs, book, money, todo, cur, open, adjusted, rowSell, executed, recSold, tries>>
    BY <1>19 DEF SizePlan, Missed, NoMiss, rest, selling, decided
  <2>3. SellsOK'
    BY <1>1, <2>2, SellsStay
  <2>4. queue # <<>> /\ Top \in Ticker
    BY <1>2, <2>1 DEF Staged, PreBuy, SellPhase, BuyPhase, RebuyPhase, RoundPhase
  <2>5. queue' \in Seq(Ticker) /\ failed' \in Seq(Ticker) /\ RoundLists(targets, queue', failed')
    <3>1. RoundLists(targets, queue, failed)
      BY <2>1 DEF Planned, RoundPhase
    <3>2. /\ Tail(queue) \in Seq(Ticker) /\ Append(failed, Top) \in Seq(Ticker)
          /\ RoundLists(targets, Tail(queue), Append(failed, Top))
      BY <1>2, <2>4, <3>1, RoundMiss DEF Top
    <3> QED BY <1>2, <2>1, <3>1, <3>2
  <2>6. pre' \in Nat /\ q' \in Nat
    BY <1>1, <1>2, <2>1, <2>4, AffordableFacts
  <2>7. BuysOK'
    BY <1>1, <1>2, <2>1, <2>4, <2>5, <2>6, BuysAgain
  <2>8. Staged'
    BY <2>1, <2>2, <2>4, <2>5, <2>6 DEF Staged, PreBuy, SellPhase, BuyPhase, RebuyPhase, RoundPhase
  <2>9. Planned'
    BY <2>1, <2>2, <2>5 DEF Planned, PreBuy, SellPhase, RebuyPhase, RoundPhase
  <2> QED BY <2>3, <2>7, <2>8, <2>9
<1>20. CASE LimitOrder
  <2>1. /\ pc = "capped" /\ pc' \in {"next", "placed"}
        /\ UNCHANGED <<targets, round, success, new, remaining, pre, eff, loose>>
        /\ q' = Capped(q)
        /\ \/ pc' # "next" /\ UNCHANGED <<queue, failed>>
           \/ pc' = "next" /\ queue' = Tail(queue) /\ failed' = Append(failed, Top)
    BY <1>20 DEF LimitOrder, Missed, NoMiss
  <2>2. UNCHANGED <<hs, book, money, todo, cur, open, adjusted, rowSell, executed, recSold, tries>>
    BY <1>20 DEF LimitOrder, Missed, NoMiss, rest, selling, decided
  <2>3. SellsOK'
    BY <1>1, <2>2, SellsStay
  <2>4. queue # <<>> /\ Top \in Ticker
    BY <1>2, <2>1 DEF Staged, PreBuy, SellPhase, BuyPhase, RebuyPhase, RoundPhase
  <2>5. queue' \in Seq(Ticker) /\ failed' \in Seq(Ticker) /\ RoundLists(targets, queue', failed')
    <3>1. RoundLists(targets, queue, failed)
      BY <2>1 DEF Planned, RoundPhase
    <3>2. /\ Tail(queue) \in Seq(Ticker) /\ Append(failed, Top) \in Seq(Ticker)
          /\ RoundLists(targets, Tail(queue), Append(failed, Top))
      BY <1>2, <2>4, <3>1, RoundMiss DEF Top
    <3> QED BY <1>2, <2>1, <3>1, <3>2
  <2>6. q' \in Nat
    BY <1>1, <1>2, <2>1, CappedFacts
  <2>7. BuysOK'
    BY <1>1, <1>2, <2>1, <2>4, <2>5, <2>6, BuysAgain
  <2>8. Staged'
    BY <2>1, <2>2, <2>4, <2>5, <2>6 DEF Staged, PreBuy, SellPhase, BuyPhase, RebuyPhase, RoundPhase
  <2>9. Planned'
    BY <2>1, <2>2, <2>5 DEF Planned, PreBuy, SellPhase, RebuyPhase, RoundPhase
  <2> QED BY <2>3, <2>7, <2>8, <2>9
<1>21. CASE Placed
  <2>1. /\ pc = "placed" /\ pc' \in {"bought", "late"}
        /\ UNCHANGED <<targets, queue, failed, round, success, new, remaining, q, pre, eff, loose>>
    BY <1>21, ReloadLoads DEF Placed, Bought, buyvars, plan, hand
  <2>2. UNCHANGED <<hs, book, money, todo, cur, open, adjusted, rowSell, executed, recSold, tries>>
    BY <1>21 DEF Placed, Bought, buyvars, plan, hand, rest, selling, decided
  <2>3. SellsOK'
    BY <1>1, <2>2, SellsStay
  <2>4. BuysOK'
    BY <1>1, <1>2, <2>1, BuysAgain
  <2>5. Staged'
    BY <2>1, <2>2 DEF Staged, PreBuy, SellPhase, BuyPhase, RebuyPhase, RoundPhase
  <2>6. Planned'
    BY <2>1, <2>2 DEF Planned, PreBuy, SellPhase, RebuyPhase, RoundPhase
  <2> QED BY <2>3, <2>4, <2>5, <2>6
<1>22. CASE LateFill
  <2>1. /\ pc = "late" /\ pc' \in {"bought", "marketable"}
        /\ UNCHANGED <<targets, queue, failed, round, success, new, remaining, q, pre, eff, loose>>
    BY <1>22, ReloadLoads DEF LateFill, Bought, Next1, buyvars, plan, hand
  <2>2. UNCHANGED <<hs, book, money, todo, cur, open, adjusted, rowSell, executed, recSold, tries>>
    BY <1>22 DEF LateFill, Bought, Next1, buyvars, plan, hand, rest, selling, decided
  <2>3. SellsOK'
    BY <1>1, <2>2, SellsStay
  <2>4. BuysOK'
    BY <1>1, <1>2, <2>1, BuysAgain
  <2>5. Staged'
    BY <2>1, <2>2 DEF Staged, PreBuy, SellPhase, BuyPhase, RebuyPhase, RoundPhase
  <2>6. Planned'
    BY <2>1, <2>2 DEF Planned, PreBuy, SellPhase, RebuyPhase, RoundPhase
  <2> QED BY <2>3, <2>4, <2>5, <2>6
<1>23. CASE MarketableOrder
  <2>1. /\ pc = "marketable" /\ pc' = "crossed"
        /\ UNCHANGED <<targets, queue, failed, round, success, new, remaining, q, pre, eff, loose>>
    BY <1>23 DEF MarketableOrder, buyvars, plan, hand
  <2>2. UNCHANGED <<hs, book, money, todo, cur, open, adjusted, rowSell, executed, recSold, tries>>
    BY <1>23 DEF MarketableOrder, buyvars, plan, hand, rest, selling, decided
  <2>3. SellsOK'
    BY <1>1, <2>2, SellsStay
  <2>4. BuysOK'
    BY <1>1, <1>2, <2>1, BuysAgain
  <2>5. Staged'
    BY <2>1, <2>2 DEF Staged, PreBuy, SellPhase, BuyPhase, RebuyPhase, RoundPhase
  <2>6. Planned'
    BY <2>1, <2>2 DEF Planned, PreBuy, SellPhase, RebuyPhase, RoundPhase
  <2> QED BY <2>3, <2>4, <2>5, <2>6
<1>24. CASE Crossed
  <2>1. /\ pc = "crossed" /\ pc' \in {"bought", "market"}
        /\ UNCHANGED <<targets, queue, failed, round, success, new, remaining, q, pre, eff>>
        /\ loose' \in {loose, loose \cup {Top}}
    BY <1>24 DEF Crossed, plan, hand
  <2>2. UNCHANGED <<hs, book, money, todo, cur, open, adjusted, rowSell, executed, recSold, tries>>
    BY <1>24 DEF Crossed, plan, hand, rest, selling, decided
  <2>3. SellsOK'
    BY <1>1, <2>2, SellsStay
  <2>4. queue # <<>> /\ Top \in Ticker
    BY <1>2, <2>1 DEF Staged, PreBuy, SellPhase, BuyPhase, RebuyPhase, RoundPhase
  <2>5. loose' \subseteq Ticker
    BY <1>2, <2>1, <2>4
  <2>6. BuysOK'
    BY <1>1, <1>2, <2>1, <2>4, <2>5, BuysAgain
  <2>7. Staged'
    BY <2>1, <2>2, <2>4, <2>5 DEF Staged, PreBuy, SellPhase, BuyPhase, RebuyPhase, RoundPhase
  <2>8. Planned'
    BY <2>1, <2>2 DEF Planned, PreBuy, SellPhase, RebuyPhase, RoundPhase
  <2> QED BY <2>3, <2>6, <2>7, <2>8
<1>25. CASE BeforeMarket
  <2>1. /\ pc = "market" /\ pc' = "market order"
        /\ UNCHANGED <<targets, queue, failed, round, success, new, remaining, q, eff, loose>>
        /\ pre' = Holding(Top)
    BY <1>25, ReloadLoads DEF BeforeMarket, plan
  <2>2. UNCHANGED <<hs, book, money, todo, cur, open, adjusted, rowSell, executed, recSold, tries>>
    BY <1>25 DEF BeforeMarket, plan, rest, selling, decided
  <2>3. SellsOK'
    BY <1>1, <2>2, SellsStay
  <2>4. queue # <<>> /\ Top \in Ticker
    BY <1>2, <2>1 DEF Staged, PreBuy, SellPhase, BuyPhase, RebuyPhase, RoundPhase
  <2>5. pre' \in Nat
    BY <1>1, <2>1, <2>4
  <2>6. BuysOK'
    BY <1>1, <1>2, <2>1, <2>4, <2>5, BuysAgain
  <2>7. Staged'
    BY <2>1, <2>2, <2>4, <2>5 DEF Staged, PreBuy, SellPhase, BuyPhase, RebuyPhase, RoundPhase
  <2>8. Planned'
    BY <2>1, <2>2 DEF Planned, PreBuy, SellPhase, RebuyPhase, RoundPhase
  <2> QED BY <2>3, <2>6, <2>7, <2>8
<1>26. CASE MarketOrder
  <2>1. /\ pc = "market order" /\ pc' \in {"next", "confirm"}
        /\ UNCHANGED <<targets, round, success, new, remaining, q, pre, eff, loose>>
        /\ \/ pc' # "next" /\ UNCHANGED <<queue, failed>>
           \/ pc' = "next" /\ queue' = Tail(queue) /\ failed' = Append(failed, Top)
    BY <1>26 DEF MarketOrder, Missed, NoMiss
  <2>2. UNCHANGED <<hs, book, money, todo, cur, open, adjusted, rowSell, executed, recSold, tries>>
    BY <1>26 DEF MarketOrder, Missed, NoMiss, rest, selling, decided
  <2>3. SellsOK'
    BY <1>1, <2>2, SellsStay
  <2>4. queue # <<>> /\ Top \in Ticker
    BY <1>2, <2>1 DEF Staged, PreBuy, SellPhase, BuyPhase, RebuyPhase, RoundPhase
  <2>5. queue' \in Seq(Ticker) /\ failed' \in Seq(Ticker) /\ RoundLists(targets, queue', failed')
    <3>1. RoundLists(targets, queue, failed)
      BY <2>1 DEF Planned, RoundPhase
    <3>2. /\ Tail(queue) \in Seq(Ticker) /\ Append(failed, Top) \in Seq(Ticker)
          /\ RoundLists(targets, Tail(queue), Append(failed, Top))
      BY <1>2, <2>4, <3>1, RoundMiss DEF Top
    <3> QED BY <1>2, <2>1, <3>1, <3>2
  <2>6. tries = 0
    BY <2>1 DEF Staged
  <2>7. 0 < Tries
    BY <1>1
  <2>8. BuysOK'
    BY <1>1, <1>2, <2>1, <2>4, <2>5, <2>6, <2>7, BuysAgain
  <2>9. Staged'
    BY <2>1, <2>2, <2>4, <2>5, <2>6, <2>7 DEF Staged, PreBuy, SellPhase, BuyPhase, RebuyPhase, RoundPhase
  <2>10. Planned'
    BY <2>1, <2>2, <2>5 DEF Planned, PreBuy, SellPhase, RebuyPhase, RoundPhase
  <2> QED BY <2>3, <2>8, <2>9, <2>10
<1>27. CASE Poll
  <2>1. /\ pc = "confirm" /\ pc' = "confirming"
        /\ UNCHANGED <<targets, queue, failed, round, success, new, remaining, q, pre, eff, loose>>
    BY <1>27, ReloadLoads DEF Poll, buyvars, plan, hand
  <2>2. UNCHANGED <<hs, book, money, todo, cur, open, adjusted, rowSell, executed, recSold>>
    BY <1>27 DEF Poll, selling, decided
  <2>3. tries' \in Nat /\ tries' <= Tries
    BY <1>1, <1>27 DEF Poll, Staged
  <2>4. SellsOK'
    BY <1>1, <2>2, <2>3, SellsStay
  <2>5. BuysOK'
    BY <1>1, <1>2, <2>1, BuysAgain
  <2>6. Staged'
    BY <2>1, <2>2 DEF Staged, PreBuy, SellPhase, BuyPhase, RebuyPhase, RoundPhase
  <2>7. Planned'
    BY <2>1, <2>2 DEF Planned, PreBuy, SellPhase, RebuyPhase, RoundPhase
  <2> QED BY <2>4, <2>5, <2>6, <2>7
<1>28. CASE Confirm
  <2>1. /\ pc = "confirming" /\ pc' \in {"bought", "confirm", "next"}
        /\ UNCHANGED <<targets, round, success, new, remaining, q, pre, eff>>
        /\ \/ pc' # "next" /\ UNCHANGED <<queue, failed>>
           \/ pc' = "next" /\ queue' = Tail(queue) /\ failed' = Append(failed, Top)
        /\ loose' \in {loose, loose \cup {Top}}
    BY <1>28, ReloadLoads DEF Confirm, Bought, Next1, Missed, NoMiss, hand
  <2>2. UNCHANGED <<hs, book, money, todo, cur, open, adjusted, rowSell, executed, recSold>>
    BY <1>28 DEF Confirm, selling, decided
  <2>3. /\ tries' \in Nat /\ tries' <= Tries
        /\ pc' = "confirm" => tries' < Tries
        /\ pc' # "confirm" => tries' = 0
    BY <1>1, <1>28, ReloadLoads DEF Confirm, Bought, Next1, Missed, Staged
  <2>4. SellsOK'
    BY <1>1, <2>2, <2>3, SellsStay
  <2>5. queue # <<>> /\ Top \in Ticker
    BY <1>2, <2>1 DEF Staged, PreBuy, SellPhase, BuyPhase, RebuyPhase, RoundPhase
  <2>6. queue' \in Seq(Ticker) /\ failed' \in Seq(Ticker) /\ RoundLists(targets, queue', failed')
    <3>1. RoundLists(targets, queue, failed)
      BY <2>1 DEF Planned, RoundPhase
    <3>2. /\ Tail(queue) \in Seq(Ticker) /\ Append(failed, Top) \in Seq(Ticker)
          /\ RoundLists(targets, Tail(queue), Append(failed, Top))
      BY <1>2, <2>5, <3>1, RoundMiss DEF Top
    <3> QED BY <1>2, <2>1, <3>1, <3>2
  <2>7. loose' \subseteq Ticker
    BY <1>2, <2>1, <2>5
  <2>8. BuysOK'
    BY <1>1, <1>2, <2>1, <2>5, <2>6, <2>3, <2>7, BuysAgain
  <2>9. Staged'
    BY <2>1, <2>2, <2>5, <2>6, <2>3, <2>7 DEF Staged, PreBuy, SellPhase, BuyPhase, RebuyPhase, RoundPhase
  <2>10. Planned'
    BY <2>1, <2>2, <2>6 DEF Planned, PreBuy, SellPhase, RebuyPhase, RoundPhase
  <2> QED BY <2>4, <2>8, <2>9, <2>10
<1>29. CASE KeepBought
  <2>1. /\ pc = "bought" /\ pc' = "next"
        /\ UNCHANGED <<failed, round, new, q, pre, eff, loose>>
        /\ queue' = Tail(queue) /\ targets' = Without(targets, Top)
        /\ success' = TRUE /\ remaining' = Cash
    BY <1>29 DEF KeepBought, hand
  <2>2. UNCHANGED <<hs, book, money, todo, cur, open, adjusted, rowSell, executed, recSold, tries>>
    BY <1>29 DEF KeepBought, hand, rest, selling, decided
  <2>3. SellsOK'
    BY <1>1, <2>2, SellsStay
  <2>4. queue # <<>> /\ Top \in Ticker
    BY <1>2, <2>1 DEF Staged, PreBuy, SellPhase, BuyPhase, RebuyPhase, RoundPhase
  <2>5. /\ queue' \in Seq(Ticker) /\ targets' \in Seq(Ticker)
        /\ RoundLists(targets', queue', failed)
    BY <1>2, <2>1, <2>4, RoundKeep DEF Planned, RoundPhase, Top
  <2>6. success' \in BOOLEAN
    BY <2>1
  <2>7. BuysOK'
    BY <1>1, <1>2, <2>1, <2>4, <2>5, <2>6, BuysAgain
  <2>8. Staged'
    BY <2>1, <2>2, <2>4, <2>5, <2>6 DEF Staged, PreBuy, SellPhase, BuyPhase, RebuyPhase, RoundPhase
  <2>9. Planned'
    BY <2>1, <2>2, <2>5 DEF Planned, PreBuy, SellPhase, RebuyPhase, RoundPhase
  <2> QED BY <2>3, <2>7, <2>8, <2>9
<1>30. CASE EndRound
  <2>1. /\ pc = "next" /\ pc' \in {"next", "over"}
        /\ UNCHANGED <<new, q, pre, remaining, loose, eff>>
        /\ \/ UNCHANGED <<targets, queue, failed, round, success>> /\ pc' = "over"
           \/ /\ round # 3 /\ round' = round + 1 /\ success' = FALSE /\ failed' = <<>>
              /\ targets' = queue' /\ queue' \in {targets, failed}
    BY <1>2, <1>30 DEF EndRound, Next1, buyvars, plan, hand
  <2>2. UNCHANGED <<hs, book, money, todo, cur, open, adjusted, rowSell, executed, recSold, tries>>
    BY <1>30 DEF EndRound, Next1, buyvars, plan, hand, rest, selling, decided
  <2>3. SellsOK'
    BY <1>1, <2>2, SellsStay
  <2>4. /\ targets' \in Seq(Ticker) /\ queue' \in Seq(Ticker) /\ failed' \in Seq(Ticker)
        /\ success' \in BOOLEAN
    BY <1>2, <2>1, EmptyList
  <2>5. round' \in 0 .. 3
    BY <1>2, <2>1
  <2>6. pc' = "next" => RoundLists(targets', queue', failed')
    BY <2>1, EmptyList DEF Planned, RoundPhase, RoundLists
  <2>7. BuysOK'
    BY <1>1, <1>2, <2>1, <2>4, <2>5, BuysAgain
  <2>8. Staged'
    BY <2>1, <2>2, <2>4, <2>5 DEF Staged, PreBuy, SellPhase, BuyPhase, RebuyPhase, RoundPhase
  <2>9. Planned'
    BY <2>1, <2>2, <2>6 DEF Planned, PreBuy, SellPhase, RebuyPhase, RoundPhase
  <2> QED BY <2>3, <2>7, <2>8, <2>9
<1> QED BY <1>3, <1>4, <1>5, <1>6, <1>7, <1>8, <1>9, <1>10, <1>11, <1>12, <1>13, <1>14, <1>15, <1>16, <1>17, <1>18, <1>19, <1>20, <1>21, <1>22, <1>23, <1>24, <1>25, <1>26, <1>27, <1>28, <1>29, <1>30 DEF BuyStep

-----------------------------------------------------------------------------
(* KIS and the risk manager: nothing of the run changes but the rows, what *)
(* is known to be free to sell stays known, no share and no cash is lost.  *)
Outside ==
    /\ AccountSound' /\ UNCHANGED start
    /\ UNCHANGED <<pc, hs, book, money, todo, cur, open, adjusted, executed, tries, recSold>>
    /\ UNCHANGED <<targets, queue, failed, round, success, new, remaining, q, pre, eff, loose>>
    /\ UNCHANGED <<seen, blocked, lost, fails, gaps, oversold>>
    /\ rowSell' \subseteq Ticker /\ cash <= cash' /\ UNCHANGED premium
    /\ \A t \in Ticker : Known(t) => Known(t)'
    /\ \A t \in Ticker : /\ hold[t] + sold[t] <= hold'[t] + sold'[t] /\ sold[t] <= sold'[t]
                         /\ hold'[t] + sold'[t] + liveBuy'[t] = hold[t] + sold[t] + liveBuy[t]
                         /\ liveBuy'[t] <= liveBuy[t]
    /\ Positions' \subseteq Positions
    /\ (Answered' <=> Answered) /\ (Answered => ord'.side = ord.side /\ ord'.t = ord.t)

LEMMA BrokerOutside ==
  ASSUME AccountSound, SellsOK, Broker PROVE Outside
<1>1. /\ hold \in [Ticker -> Nat] /\ liveBuy \in [Ticker -> Nat] /\ cash \in Nat
      /\ liveSell \in [Ticker -> Nat] /\ sold \in [Ticker -> Nat] /\ seen.sell \in [Ticker -> Nat]
      /\ \A t \in Ticker : liveSell[t] <= hold[t]
  BY AccountTypes DEF AccountSound
<1>2. /\ FillBuy \/ FillSell
      /\ UNCHANGED <<start, pc, hs, book, money, todo, cur, open, adjusted, rowSell, executed, tries, recSold>>
      /\ UNCHANGED <<targets, queue, failed, round, success, new, remaining, q, pre, eff, loose>>
  BY DEF Broker, sellvars, selling, decided, buyvars, plan, hand
<1>3. /\ AccountSound' /\ UNCHANGED <<premium, known, lost, risks, changed, oversold>>
      /\ (Answered' <=> Answered)
      /\ Answered => ord'.side = ord.side /\ ord'.t = ord.t
      /\ \E t \in Ticker : Filled(t)
  BY <1>2, FillFacts
<1>4. PICK t \in Ticker : Filled(t)
  BY <1>3
<1>5. UNCHANGED <<seen, blocked, fails, gaps>>
  BY <1>3 DEF known
<1>6. rowSell' \subseteq Ticker
  BY <1>2, SellTypes
<1>7. CASE /\ hold' = [hold EXCEPT ![t] = @ + 1] /\ liveBuy[t] >= 1
           /\ liveBuy' = [liveBuy EXCEPT ![t] = @ - 1] /\ UNCHANGED <<liveSell, cash, sold>>
  <2>1. /\ hold'[t] = hold[t] + 1 /\ liveBuy'[t] = liveBuy[t] - 1
        /\ \A u \in Ticker \ {t} : hold'[u] = hold[u] /\ liveBuy'[u] = liveBuy[u]
    BY <1>1, <1>7
  <2>2. \A u \in Ticker : Known(u) => Known(u)'
    BY <1>1, <1>3, <1>5, <1>7, <2>1 DEF Known, Sellable
  <2>3. Positions' \subseteq Positions
    BY <1>1, <1>7, <2>1 DEF Positions, Held
  <2>4. \A u \in Ticker : /\ hold[u] + sold[u] <= hold'[u] + sold'[u] /\ sold[u] <= sold'[u]
                          /\ hold'[u] + sold'[u] + liveBuy'[u] = hold[u] + sold[u] + liveBuy[u]
                          /\ liveBuy'[u] <= liveBuy[u]
    BY <1>1, <1>7, <2>1
  <2> QED BY <1>1, <1>2, <1>3, <1>5, <1>6, <1>7, <2>2, <2>3, <2>4 DEF Outside
<1>8. CASE /\ hold' = [hold EXCEPT ![t] = @ - 1] /\ liveSell[t] >= 1
           /\ liveSell' = [liveSell EXCEPT ![t] = @ - 1]
           /\ cash' = cash + 1 /\ sold' = [sold EXCEPT ![t] = @ + 1] /\ UNCHANGED liveBuy
  <2>1. /\ hold'[t] = hold[t] - 1 /\ liveSell'[t] = liveSell[t] - 1 /\ sold'[t] = sold[t] + 1
        /\ \A u \in Ticker \ {t} : /\ hold'[u] = hold[u] /\ liveSell'[u] = liveSell[u]
                                   /\ sold'[u] = sold[u]
    BY <1>1, <1>8
  <2>2. \A u \in Ticker : Known(u) => Known(u)'
    BY <1>1, <1>3, <1>5, <1>8, <2>1 DEF Known, Sellable
  <2>3. Positions' \subseteq Positions
    BY <1>1, <1>8, <2>1 DEF Positions, Held
  <2>4. \A u \in Ticker : /\ hold[u] + sold[u] <= hold'[u] + sold'[u] /\ sold[u] <= sold'[u]
                          /\ hold'[u] + sold'[u] + liveBuy'[u] = hold[u] + sold[u] + liveBuy[u]
                          /\ liveBuy'[u] <= liveBuy[u]
    BY <1>1, <1>8, <2>1
  <2>5. cash <= cash'
    BY <1>1, <1>8
  <2> QED BY <1>2, <1>3, <1>5, <1>6, <2>2, <2>3, <2>4, <2>5 DEF Outside
<1> QED BY <1>4, <1>7, <1>8 DEF Filled

LEMMA RiskOutside ==
  ASSUME AccountSound, SellsOK, Risk PROVE Outside
<1>1. /\ hold \in [Ticker -> Nat] /\ liveBuy \in [Ticker -> Nat] /\ cash \in Nat
      /\ liveSell \in [Ticker -> Nat] /\ sold \in [Ticker -> Nat] /\ premium \in Nat
      /\ \A t \in Ticker : liveSell[t] <= hold[t]
      /\ lost \in Nat /\ fails \in Nat /\ gaps \in Nat /\ risks \in Nat /\ blocked \in BOOLEAN
      /\ Answered => ord.side \in {"buy", "sell"} /\ ord.t \in Ticker /\ ord.q \in Nat /\ ord.done \in Nat
  BY AccountTypes DEF AccountSound
<1>2. PICK t \in Ticker : RiskSell(t)
  BY DEF Risk
<1>3. PICK n \in 1 .. Sellable(t) : liveSell' = [liveSell EXCEPT ![t] = @ + n]
  BY <1>2 DEF RiskSell
<1>4. /\ Events < MaxEvents /\ risks' = risks + 1 /\ UNCHANGED start
      /\ rowSell' = rowSell \cup {t} /\ changed' = changed \cup {t}
      /\ UNCHANGED <<hold, liveBuy, cash, premium, sold, seen, blocked, fails, gaps, ord, lost, oversold>>
      /\ UNCHANGED <<pc, hs, book, money, todo, cur, open, adjusted, executed, tries, recSold>>
      /\ UNCHANGED <<targets, queue, failed, round, success, new, remaining, q, pre, eff, loose>>
  BY <1>2 DEF Risk, RiskSell, known, selling, decided, buyvars, plan, hand
<1>5. n \in Nat /\ n <= hold[t] - liveSell[t]
  BY <1>1 DEF Sellable
<1>6. /\ liveSell'[t] = liveSell[t] + n /\ liveSell' \in [Ticker -> Nat]
      /\ \A u \in Ticker \ {t} : liveSell'[u] = liveSell[u]
  BY <1>1, <1>3, <1>5
<1>7. \A u \in Ticker : liveSell'[u] <= hold'[u] /\ liveSell[u] <= liveSell'[u]
  BY <1>1, <1>4, <1>5, <1>6
<1>8. start \in Starts /\ ord \in Order \cup {NoOrd} /\ OrderLive
      /\ changed \in SUBSET Ticker /\ oversold \in SUBSET Ticker /\ Events <= MaxEvents
      /\ seen \in [ok : BOOLEAN, hold : [Ticker -> Share], sell : [Ticker -> Share], cash : Share]
  BY DEF AccountSound, AccountOK
<1>9. OrderLive'
  <2> SUFFICES ASSUME Answered
               PROVE  /\ ord.done <= ord.q
                      /\ ord.side = "buy"  => ord.q - ord.done <= liveBuy[ord.t]
                      /\ ord.side = "sell" => ord.q - ord.done <= liveSell'[ord.t] /\ ord.done <= sold[ord.t]
    BY <1>4 DEF OrderLive, Answered
  <2>1. liveSell[ord.t] \in Nat /\ liveSell'[ord.t] \in Nat /\ liveSell[ord.t] <= liveSell'[ord.t]
    BY <1>1, <1>6, <1>7
  <2> QED BY <1>1, <1>8, <2>1 DEF OrderLive
<1>10. risks' \in Nat /\ fails' + gaps' + lost' + risks' <= MaxEvents
  <2>1. MaxEvents \in Nat
    BY AccountTypes DEF AccountSound
  <2> QED BY <1>1, <1>4, <2>1 DEF Events
<1>11. AccountSound'
  BY <1>1, <1>4, <1>6, <1>7, <1>8, <1>9, <1>10, SoundAgain
<1>12. \A u \in Ticker : Known(u) => Known(u)'
  <2> SUFFICES ASSUME NEW u \in Ticker, Known(u), u # t PROVE Known(u)'
    BY <1>4 DEF Known
  <2> QED BY <1>4, <1>6 DEF Known, Sellable
<1>13. Positions' \subseteq Positions
  BY <1>4 DEF Positions, Held
<1>14. rowSell' \subseteq Ticker
  BY <1>4, SellTypes
<1>15. \A u \in Ticker : /\ hold[u] + sold[u] <= hold'[u] + sold'[u] /\ sold[u] <= sold'[u]
                         /\ hold'[u] + sold'[u] + liveBuy'[u] = hold[u] + sold[u] + liveBuy[u]
                         /\ liveBuy'[u] <= liveBuy[u]
  BY <1>1, <1>4
<1> QED BY <1>1, <1>4, <1>11, <1>12, <1>13, <1>14, <1>15 DEF Outside, Answered

LEMMA OutsideControl ==
  ASSUME AccountSound, SellsOK, BuysOK, Staged, Planned, SellsKnown, RecordedOnce, Outside
  PROVE  SellsOK' /\ BuysOK' /\ Staged' /\ Planned' /\ SellsKnown' /\ RecordedOnce'
<1>1. /\ UNCHANGED <<pc, hs, book, money, todo, cur, open, adjusted, executed, tries, recSold>>
      /\ UNCHANGED <<targets, queue, failed, round, success, new, remaining, q, pre, eff, loose>>
      /\ UNCHANGED <<seen, fails, gaps>> /\ rowSell' \subseteq Ticker
      /\ \A t \in Ticker : Known(t) => Known(t)'
      /\ (Answered' <=> Answered) /\ (Answered => ord'.side = ord.side /\ ord'.t = ord.t)
  BY DEF Outside
<1>2. SellsOK'
  BY <1>1, SellTypes, SellsAgain
<1>3. BuysOK'
  BY <1>1 DEF BuysOK
<1>4. Staged'
  BY <1>1 DEF Staged
<1>5. Planned'
  BY <1>1 DEF Planned
<1>6. SellsKnown'
  <2>1. todo \subseteq Ticker
    BY SellTypes
  <2> QED BY <1>1, <2>1 DEF SellsKnown
<1>7. RecordedOnce'
  <2>1. /\ hs \in [Ticker -> Nat] /\ recSold \in [Ticker -> Nat] /\ seen.hold \in [Ticker -> Nat]
        /\ hold \in [Ticker -> Nat] /\ sold \in [Ticker -> Nat]
    BY AccountTypes, SellTypes DEF AccountSound
  <2>2. hold' \in [Ticker -> Nat] /\ sold' \in [Ticker -> Nat]
    BY DEF Outside, AccountSound, AccountOK, Share
  <2>3. \A t \in Ticker : hold[t] + sold[t] <= hold'[t] + sold'[t] /\ sold[t] <= sold'[t]
    BY DEF Outside
  <2>4. \A t \in Ticker : hs[t] <= hold[t] + sold[t] => hs[t] <= hold'[t] + sold'[t]
    BY <2>1, <2>2, <2>3
  <2>5. \A t \in Ticker : seen.hold[t] <= hold[t] + sold[t] => seen.hold[t] <= hold'[t] + sold'[t]
    BY <2>1, <2>2, <2>3
  <2>6. \A t \in Ticker : /\ recSold[t] <= sold[t] => recSold[t] <= sold'[t]
                          /\ hs[t] <= seen.hold[t] + sold[t] => hs[t] <= seen.hold[t] + sold'[t]
    BY <2>1, <2>2, <2>3
  <2>7. pc = "compare" => cur \in Ticker
    BY DEF Staged
  <2>8. Flawless' => Flawless
    BY <1>1 DEF Flawless
  <2> DEFINE Rows == /\ pc \in SellPhase \ {"start"} => seen.ok
                     /\ pc \in SellPhase =>
                          \A t \in Ticker : hs[t] <= hold[t] + sold[t] /\ seen.hold[t] <= hold[t] + sold[t]
                     /\ pc = "compare" => hs[cur] <= seen.hold[cur] + sold[cur]
                     /\ \A t \in Ticker : recSold[t] <= sold[t]
  <2>9. Flawless => Rows
    BY DEF RecordedOnce, Flawless
  <2>10. Rows => Rows'
    BY <1>1, <2>4, <2>5, <2>6, <2>7
  <2>11. Flawless' => Rows'
    BY <2>8, <2>9, <2>10
  <2> QED BY <1>1, <2>11 DEF RecordedOnce, Flawless
<1> QED BY <1>2, <1>3, <1>4, <1>5, <1>6, <1>7

-----------------------------------------------------------------------------
(* Where a step leads.                                                     *)
LEMMA BuyStage ==
  ASSUME BuyStep
  PROVE  /\ \/ pc = "gates" /\ pc' \in {"over", "first"}
            \/ pc \in RebuyPhase /\ pc' \in RebuyPhase \ {"first"}
            \/ StartRounds /\ pc = "rebuy" /\ pc' = "next"
            \/ pc \in RoundPhase /\ pc' \in RoundPhase \cup {"over"}
         /\ UNCHANGED <<book, money, recSold>> /\ loose \subseteq loose'
<1>1. CASE Gated \/ OpenBuys \/ StartBatch
  BY <1>1, ReloadLoads DEF Gated, OpenBuys, StartBatch, Next1, rest, decided, buyvars, RebuyPhase
<1>2. CASE SyncRebuy \/ SizeRebuy \/ LimitRebuy
  BY <1>2, ReloadLoads DEF SyncRebuy, SizeRebuy, LimitRebuy, NextRebuy, rest, decided, buyvars, RebuyPhase
<1>3. CASE CheckRebuy \/ SpentRebuy \/ Again1
  BY <1>3, ReloadLoads DEF CheckRebuy, SpentRebuy, NextRebuy, Again1, rest, decided, buyvars, RebuyPhase
<1>4. CASE FallBack("fallback1", "market1") \/ FallBack("fallback2", "market2")
  BY <1>4, ReloadLoads DEF FallBack, rest, decided, RebuyPhase
<1>5. CASE Market1 \/ Market2
  BY <1>5 DEF Market1, Market2, MarketRebuy, NextRebuy, rest, decided, RebuyPhase
<1>6. CASE StartRounds
  BY <1>6 DEF StartRounds, Next1, rest, decided, buyvars, RebuyPhase
<1>7. CASE SyncPlan \/ TakePlan \/ SizePlan
  BY <1>7, ReloadLoads DEF SyncPlan, TakePlan, SizePlan, Missed, Next1, rest, decided, buyvars, RoundPhase
<1>8. CASE LimitOrder \/ Placed \/ LateFill
  BY <1>8, ReloadLoads DEF LimitOrder, Placed, LateFill, Missed, Bought, Next1, rest, decided, buyvars, RoundPhase
<1>9. CASE MarketableOrder \/ Crossed \/ BeforeMarket
  BY <1>9, ReloadLoads DEF MarketableOrder, Crossed, BeforeMarket, rest, decided, buyvars, RoundPhase
<1>10. CASE MarketOrder
  BY <1>10 DEF MarketOrder, Missed, rest, decided, RoundPhase
<1>11. CASE Poll
  BY <1>11, ReloadLoads DEF Poll, decided, buyvars, RoundPhase
<1>12. CASE Confirm
  BY <1>12, ReloadLoads DEF Confirm, Bought, Missed, Next1, decided, RoundPhase
<1>13. CASE KeepBought
  BY <1>13 DEF KeepBought, rest, decided, RoundPhase
<1>14. CASE EndRound
  BY <1>14 DEF EndRound, Next1, rest, decided, buyvars, RoundPhase
<1> QED BY <1>1, <1>2, <1>3, <1>4, <1>5, <1>6, <1>7, <1>8, <1>9, <1>10, <1>11, <1>12, <1>13, <1>14 DEF BuyStep

LEMMA SellStage ==
  ASSUME SellStep PROVE pc \in SellPhase /\ pc' \in PreBuy
<1>1. CASE Start \/ ReadHoldings \/ Weigh \/ Reduced \/ LoadAgain \/ TakeRebalanced
  BY <1>1, ReloadLoads, ValidatedLoads
     DEF Start, ReadHoldings, Weigh, Reduced, LoadAgain, TakeRebalanced, PreBuy, SellPhase
<1>2. CASE Closed \/ ReadOpen \/ CheckSale \/ CompareHoldings \/ AllSeen \/ AwaitCash \/ EndSales
  BY <1>2, ReloadLoads, ValidatedLoads
     DEF Closed, ReadOpen, CheckSale, CompareHoldings, AllSeen, AwaitCash, EndSales, PreBuy, SellPhase
<1>3. ASSUME NEW t \in Ticker, Reduce(t) \/ Keep(t) \/ SellPart(t) \/ SellAll(t)
      PROVE  pc \in SellPhase /\ pc' \in PreBuy
  BY <1>3 DEF Reduce, Keep, SellPart, SellAll, PreBuy, SellPhase
<1> QED BY <1>1, <1>2, <1>3 DEF SellStep

(* The sales are over when the buys begin.                                 *)
LEMMA BuyLeavesSales ==
  ASSUME AccountSound, BuysOK, Staged, RecordedOnce, BuyStep, UNCHANGED start
  PROVE  SellsKnown' /\ RecordedOnce'
<1>1. pc' \in BuyPhase \cup {"over"} /\ UNCHANGED recSold
  BY BuyStage DEF BuyPhase, RebuyPhase, RoundPhase
<1>2. /\ UNCHANGED sold /\ fails' >= fails /\ gaps' >= gaps
      /\ fails' \in Nat /\ gaps' \in Nat
  BY BuySound
<1>3. fails \in Nat /\ gaps \in Nat
  BY AccountTypes DEF AccountSound
<1>4. Flawless' => Flawless
  BY <1>2, <1>3, FewerFaults
<1>5. Flawless' => \A t \in Ticker : recSold'[t] <= sold'[t]
  BY <1>1, <1>2, <1>4 DEF RecordedOnce, Flawless
<1>6. SellsKnown'
  BY <1>1 DEF SellsKnown, BuyPhase, RebuyPhase, RoundPhase
<1> QED BY <1>1, <1>5, <1>6 DEF RecordedOnce, Flawless, SellPhase, BuyPhase, RebuyPhase, RoundPhase

-----------------------------------------------------------------------------
(* The reserve.  What is capped leaves it in place, and so does an order   *)
(* for what was capped.                                                    *)
LEMMA ReserveBound ==
  ASSUME AccountOK', cash' + premium' >= Reserve PROVE ReserveKept'
<1> DEFINE c == start'.cash
<1>1. c \in Nat /\ Reserve \in Nat /\ cash' \in Nat /\ premium' \in Nat
  BY AccountAssumption DEF AccountOK, Share
<1> HIDE DEF c
<1>4. Reserve \in Int /\ c \in Int
  BY <1>1
<1>2. Min({Reserve, c}) \in {Reserve, c} /\ Min({Reserve, c}) <= Reserve
  BY <1>4, MinOf
<1> DEFINE m == Min({Reserve, c})
<1>5. m \in Int /\ m <= Reserve
  BY <1>2, <1>4
<1> HIDE DEF m
<1> DEFINE d == cash'
           p == premium'
<1>7. d \in Nat /\ p \in Nat /\ d + p >= Reserve
  BY <1>1
<1> HIDE DEF d, p
<1>8. d + p >= m
  BY <1>1, <1>5, <1>7
<1>6. cash' + premium' >= m
  BY <1>8 DEF d, p
<1>3. cash' + premium' >= Min({Reserve, c})
  BY <1>6 DEF m
<1> QED BY <1>3 DEF ReserveKept, c

LEMMA ReserveStays ==
  ASSUME AccountSound, AccountSound', ReserveKept, UNCHANGED start, cash <= cash', premium <= premium', lost' >= lost
  PROVE  ReserveKept'
<1>1. /\ Reserve \in Nat /\ start.cash \in Nat /\ cash \in Nat /\ lost \in Nat
      /\ cash' \in Nat /\ premium \in Nat /\ premium' \in Nat
  BY AccountTypes DEF AccountSound, AccountOK, Share
<1>2. lost' \in Nat
  <2>1. lost' \in 0 .. MaxEvents /\ MaxEvents \in Nat
    BY AccountTypes DEF AccountSound, AccountOK
  <2> QED BY <2>1
<1> DEFINE c == start.cash
           m == Min({Reserve, c})
<1>3. m \in Nat
  <2>1. c \in Nat
    BY <1>1
  <2> HIDE DEF c
  <2>2. Reserve \in Int /\ c \in Int
    BY <1>1, <2>1
  <2>3. Min({Reserve, c}) \in {Reserve, c}
    BY <2>2, MinOf
  <2> QED BY <1>1, <2>1, <2>3
<1>4. m' = m
  OBVIOUS
<1>5. lost = 0 => cash + premium >= m
  BY DEF ReserveKept
<1> HIDE DEF m
<1>7. lost' = 0 => lost = 0
  BY <1>1, <1>2
<1>8. cash + premium <= cash' + premium'
  BY <1>1, SumGrows
<1> DEFINE d == cash'
           p == premium'
<1>9. d \in Nat /\ p \in Nat /\ cash + premium <= d + p
  BY <1>1, <1>8
<1> HIDE DEF d, p
<1>10. lost' = 0 => d + p >= m
  BY <1>1, <1>3, <1>5, <1>7, <1>9, SumFrom
<1>6. lost' = 0 => cash' + premium' >= m
  BY <1>10 DEF d, p
<1> QED BY <1>4, <1>6 DEF ReserveKept, m

LEMMA BuyKeepsReserve ==
  ASSUME AccountSound, NEW t \in Ticker, NEW n \in Nat, NEW dear \in Nat, NEW answered \in BOOLEAN,
         Buy(t, n, dear, answered), lost = 0 => n + Reserve <= cash
  PROVE  /\ lost' = 0 => lost = 0 /\ cash' + premium' >= Reserve /\ (~answered => cash' = cash)
         /\ UNCHANGED <<seen, hold>>
<1>1. PICK m \in Nat, k \in Nat : Sends("buy", t, n, answered, m, k)
  BY BuySends
<1>2. /\ lost' = lost + k /\ cash' \in Nat /\ premium' \in Nat
      /\ k = 0 => cash <= cash' + n + premium' /\ (~answered => cash' = cash)
      /\ UNCHANGED <<seen, hold>>
  BY <1>1 DEF Sends, known
<1>3. lost \in Nat /\ cash \in Nat /\ Reserve \in Nat
  BY AccountTypes DEF AccountSound
<1>4. lost' = 0 => lost = 0 /\ k = 0
  BY <1>1, <1>2, <1>3
<1>5. ASSUME lost' = 0 PROVE cash' + premium' >= Reserve
  <2>1. n + Reserve <= cash /\ cash <= cash' + n + premium'
    BY <1>2, <1>4, <1>5
  <2> QED BY <1>2, <1>3, <2>1, LeavesReserve
<1> QED BY <1>2, <1>4, <1>5

LEMMA BuyCash ==
  ASSUME AccountSound, BuysOK, Staged, CashKnown, ReserveKept, BuyStep, UNCHANGED start
  PROVE  CashKnown' /\ ReserveKept'
<1>1. /\ AccountSound' /\ AccountOK /\ AccountOK' /\ lost' >= lost
      /\ lost \in Nat /\ lost' \in Nat /\ cash \in Nat /\ premium \in Nat
      /\ Reserve \in Nat /\ Dear \in Nat /\ seen.cash \in Nat
      /\ q \in Nat /\ pre \in Nat /\ (queue # <<>> => Top \in Ticker)
  BY BuySound, BuyTypes, AccountTypes, AccountAssumption DEF AccountSound
<1>2. ASSUME Loads \/ Still PROVE UNCHANGED <<cash, lost>> /\ ReserveKept'
  <2>1. UNCHANGED <<cash, premium, lost>>
    BY <1>2 DEF Loads, Still, kis
  <2> QED BY <1>1, <2>1, ReserveStays
<1>3. ASSUME Loads, pc' \in {"limit", "market1", "market2", "capped", "market order"}
      PROVE  CashKnown' /\ ReserveKept'
  <2>1. seen'.cash <= cash' /\ ReserveKept'
    BY <1>2, <1>3, LoadsFacts
  <2> QED BY <1>3, <2>1 DEF CashKnown
<1>4. ASSUME pc' \notin {"limit", "market1", "market2", "capped", "market order", "late", "marketable", "placed"}
      PROVE  CashKnown'
  BY <1>4 DEF CashKnown
<1>5. ASSUME Loads \/ Still,
             pc' \notin {"limit", "market1", "market2", "capped", "market order", "late", "marketable", "placed"}
      PROVE  CashKnown' /\ ReserveKept'
  BY <1>2, <1>4, <1>5
<1>6. ASSUME UNCHANGED <<kis, known, lost, risks, changed, oversold>>, ord' \in {ord, NoOrd} PROVE Still
  BY <1>6 DEF Still
<1>7. ASSUME UNCHANGED account PROVE Still
  BY <1>7 DEF Still, account
<1>8. ASSUME NEW n \in Nat, NEW dear \in Nat, NEW answered \in BOOLEAN, Buy(Top, n, dear, answered), Top \in Ticker,
             lost = 0 => n + Reserve <= cash
      PROVE  ReserveKept' /\ (lost' = 0 => lost = 0 /\ (~answered => cash' = cash))
  <2>1. lost' = 0 => lost = 0 /\ cash' + premium' >= Reserve /\ (~answered => cash' = cash)
    BY <1>1, <1>8, BuyKeepsReserve
  <2>2. cash' + premium' >= Reserve => ReserveKept'
    <3>1. AccountOK'
      BY <1>1
    <3> QED BY <3>1, ReserveBound
  <2> QED BY <2>1, <2>2 DEF ReserveKept
<1>9. ASSUME NEW n \in Nat, Capped(n) > 0, pc \in {"limit", "market1", "market2", "capped", "market order"}
      PROVE  Capped(n) \in Nat /\ Capped(n) + Reserve <= cash
  <2>1. seen.cash <= cash
    BY <1>9 DEF CashKnown
  <2>2. Capped(n) \in Nat /\ Capped(n) + Reserve <= seen.cash
    BY <1>1, <1>9, CappedFacts
  <2> QED BY <1>1, <2>1, <2>2
<1>10. \A n \in Nat : Capped(n) \in Nat
  BY <1>1, CappedFacts
<1>11. pc \in {"limit", "market1", "market2", "capped", "marketable", "market order"} => Top \in Ticker
  BY <1>1 DEF Staged, BuyPhase, RebuyPhase, RoundPhase
<1>12. CASE Gated \/ StartBatch \/ SpentRebuy \/ StartRounds \/ EndRound
  <2>1. UNCHANGED account /\ pc' \in {"over", "rebuy", "next"}
    BY <1>12 DEF Gated, StartBatch, SpentRebuy, NextRebuy, StartRounds, EndRound, Next1
  <2> QED BY <1>5, <1>7, <2>1
<1>13. CASE OpenBuys \/ SyncRebuy \/ Again1 \/ SyncPlan \/ Poll
  <2>1. Loads /\ pc' \in {"first", "size", "fallback2", "synced", "confirming"}
    BY <1>13, ReloadLoads DEF OpenBuys, SyncRebuy, Again1, SyncPlan, Poll
  <2> QED BY <1>5, <2>1
<1>14. CASE SizeRebuy
  <2>1. CASE NextRebuy /\ UNCHANGED account
    BY <1>5, <1>7, <2>1 DEF NextRebuy
  <2>2. CASE Reload("limit")
    BY <1>3, <2>2, ReloadLoads
  <2> QED BY <1>14, <2>1, <2>2 DEF SizeRebuy
<1>15. CASE LimitRebuy
  <2>1. pc = "limit" /\ q' = Capped(q)
    BY <1>15 DEF LimitRebuy
  <2>2. CASE NextRebuy /\ UNCHANGED account
    BY <1>5, <1>7, <2>2 DEF NextRebuy
  <2>3. CASE /\ q' # 0 /\ pc' = "limited"
             /\ \E answered \in BOOLEAN : Buy(Top, q', 0, answered) /\ Await("buy", Top, q', answered)
    <3>1. Capped(q) \in Nat /\ Capped(q) > 0
      BY <1>1, <1>10, <2>1, <2>3
    <3>2. Capped(q) + Reserve <= cash
      BY <1>1, <1>9, <2>1, <3>1
    <3>3. PICK answered \in BOOLEAN : Buy(Top, Capped(q), 0, answered)
      BY <2>1, <2>3
    <3>4. ReserveKept'
      BY <1>8, <1>11, <2>1, <3>1, <3>2, <3>3
    <3> QED BY <1>4, <2>3, <3>4
  <2> QED BY <1>15, <2>1, <2>2, <2>3 DEF LimitRebuy
<1>16. CASE CheckRebuy \/ Crossed
  <2>1. Load /\ UNCHANGED <<kis, lost, risks, oversold>> /\ ord' = NoOrd
        /\ pc' \in {"spent", "fallback1", "bought", "market"}
    BY <1>16 DEF CheckRebuy, Crossed
  <2> QED BY <1>5, <2>1 DEF Load, Loads
<1>17. CASE FallBack("fallback1", "market1") \/ FallBack("fallback2", "market2")
  BY <1>3, <1>17, ReloadLoads DEF FallBack
<1>18. ASSUME NEW from \in {"market1", "market2"}, MarketRebuy(from), pc' \in {"again1", "rebuy"}
       PROVE  CashKnown' /\ ReserveKept'
  <2>1. pc = from /\ ord' = ord
    BY <1>18 DEF MarketRebuy
  <2>2. CASE UNCHANGED <<kis, known, lost, risks, changed, oversold>>
    BY <1>5, <1>6, <1>18, <2>1, <2>2
  <2>3. CASE Capped(pre) # 0 /\ \E answered \in BOOLEAN : Buy(Top, Capped(pre), Dear, answered)
    <3>1. Capped(pre) \in Nat /\ Capped(pre) > 0
      BY <1>1, <1>10, <2>3
    <3>2. Capped(pre) + Reserve <= cash
      BY <1>1, <1>9, <1>18, <2>1, <3>1
    <3>3. PICK answered \in BOOLEAN : Buy(Top, Capped(pre), Dear, answered)
      BY <2>3
    <3>4. ReserveKept'
      BY <1>1, <1>8, <1>11, <1>18, <2>1, <3>1, <3>2, <3>3
    <3> QED BY <1>4, <1>18, <3>4
  <2>4. CASE Load /\ UNCHANGED <<kis, lost, risks, oversold>>
    BY <1>5, <1>18, <2>1, <2>4 DEF Load, Loads
  <2>5. \/ UNCHANGED <<kis, known, lost, risks, changed, oversold>>
        \/ Load /\ UNCHANGED <<kis, lost, risks, oversold>>
        \/ Capped(pre) # 0 /\ \E answered \in BOOLEAN : Buy(Top, Capped(pre), Dear, answered)
    BY <1>18 DEF MarketRebuy
  <2> QED BY <2>2, <2>3, <2>4, <2>5
<1>19. CASE Market1 \/ Market2
  BY <1>18, <1>19 DEF Market1, Market2, NextRebuy
<1>20. CASE TakePlan
  <2>1. CASE Next1("next")
    BY <1>5, <1>7, <2>1 DEF Next1
  <2>2. CASE Reload("sizing")
    <3>1. Loads /\ pc' = "sizing"
      BY <2>2, ReloadLoads
    <3> QED BY <1>5, <3>1
  <2> QED BY <1>20, <2>1, <2>2 DEF TakePlan
<1>21. ASSUME Missed, UNCHANGED <<kis, known, lost, risks, changed, oversold>> PROVE CashKnown' /\ ReserveKept'
  <2>1. pc' = "next" /\ ord' = NoOrd
    BY <1>21 DEF Missed
  <2> QED BY <1>5, <1>6, <1>21, <2>1
<1>22. CASE SizePlan
  BY <1>3, <1>21, <1>22, ReloadLoads DEF SizePlan
<1>23. CASE LimitOrder
  <2>1. pc = "capped" /\ q' = Capped(q)
    BY <1>23 DEF LimitOrder
  <2>2. CASE Missed /\ UNCHANGED <<kis, known, lost, risks, changed, oversold>>
    BY <1>21, <2>2
  <2>3. CASE /\ q' # 0 /\ pc' = "placed"
             /\ \E answered \in BOOLEAN : Buy(Top, q', 0, answered) /\ Await("buy", Top, q', answered)
    <3>1. Capped(q) \in Nat /\ Capped(q) > 0
      BY <1>1, <1>10, <2>1, <2>3
    <3>2. Capped(q) + Reserve <= cash
      BY <1>1, <1>9, <2>1, <3>1
    <3>3. PICK answered \in BOOLEAN : Buy(Top, Capped(q), 0, answered) /\ Await("buy", Top, Capped(q), answered)
      BY <2>1, <2>3
    <3>4. ReserveKept' /\ (lost' = 0 => lost = 0 /\ (~answered => cash' = cash))
      BY <1>8, <1>11, <2>1, <3>1, <3>2, <3>3
    <3>5. ~Answered' => ~answered
      <4> SUFFICES ASSUME answered PROVE Answered'
        OBVIOUS
      <4>1. ord' = [side |-> "buy", t |-> Top, q |-> Capped(q), done |-> 0]
        BY <3>3 DEF Await
      <4>2. ord'.side = "buy" /\ NoOrd.side = "none"
        BY <4>1 DEF NoOrd
      <4> QED BY <4>2 DEF Answered
    <3>6. lost' = 0 /\ ~Answered' => q' + Reserve <= cash'
      BY <2>1, <3>2, <3>4, <3>5
    <3> QED BY <2>3, <3>4, <3>6 DEF CashKnown
  <2> QED BY <1>23, <2>1, <2>2, <2>3 DEF LimitOrder
<1>24. CASE Placed
  <2>1. CASE Bought
    <3>1. Loads /\ pc' = "bought"
      BY <2>1, ReloadLoads DEF Bought
    <3> QED BY <1>5, <3>1
  <2>2. CASE ~Answered /\ Reload("late")
    <3>1. UNCHANGED <<cash, lost>> /\ ReserveKept' /\ pc' = "late"
      BY <1>2, <2>2, ReloadLoads
    <3>2. pc = "placed" /\ UNCHANGED q
      BY <1>24 DEF Placed, buyvars, hand
    <3> QED BY <2>2, <3>1, <3>2 DEF CashKnown
  <2> QED BY <1>24, <2>1, <2>2 DEF Placed
<1>25. CASE LateFill
  <2>1. CASE Bought
    <3>1. Loads /\ pc' = "bought"
      BY <2>1, ReloadLoads DEF Bought
    <3> QED BY <1>5, <3>1
  <2>2. CASE Next1("marketable")
    <3>1. UNCHANGED <<cash, lost>> /\ ReserveKept' /\ pc' = "marketable"
      BY <1>2, <1>7, <2>2 DEF Next1
    <3>2. pc = "late" /\ UNCHANGED q
      BY <1>25 DEF LateFill, buyvars, hand
    <3> QED BY <3>1, <3>2 DEF CashKnown
  <2> QED BY <1>25, <2>1, <2>2 DEF LateFill
<1>26. CASE MarketableOrder
  <2>1. pc = "marketable" /\ pc' = "crossed"
    BY <1>26 DEF MarketableOrder
  <2>2. CASE UNCHANGED <<kis, known, ord, lost, risks, changed, oversold>>
    BY <1>5, <1>6, <2>1, <2>2
  <2>3. CASE \E answered \in BOOLEAN : Buy(Top, q, Dear, answered)
    <3>1. PICK answered \in BOOLEAN : Buy(Top, q, Dear, answered)
      BY <2>3
    <3>2. lost = 0 => q + Reserve <= cash
      BY <2>1 DEF CashKnown
    <3>3. ReserveKept'
      BY <1>1, <1>8, <1>11, <2>1, <3>1, <3>2
    <3> QED BY <1>4, <2>1, <3>3
  <2> QED BY <1>26, <2>2, <2>3 DEF MarketableOrder
<1>27. CASE BeforeMarket
  BY <1>3, <1>27, ReloadLoads DEF BeforeMarket
<1>28. CASE MarketOrder
  <2>1. pc = "market order"
    BY <1>28 DEF MarketOrder
  <2>2. CASE Missed /\ UNCHANGED <<kis, known, lost, risks, changed, oversold>>
    BY <1>21, <2>2
  <2>3. CASE /\ Capped(q) > 0 /\ pc' = "confirm"
             /\ \E answered \in BOOLEAN : Buy(Top, Capped(q), Dear, answered)
    <3>1. Capped(q) \in Nat /\ Capped(q) + Reserve <= cash
      BY <1>1, <1>9, <2>1, <2>3
    <3>2. PICK answered \in BOOLEAN : Buy(Top, Capped(q), Dear, answered)
      BY <2>3
    <3>3. ReserveKept'
      BY <1>1, <1>8, <1>11, <2>1, <3>1, <3>2
    <3> QED BY <1>4, <2>3, <3>3
  <2> QED BY <1>28, <2>2, <2>3 DEF MarketOrder
<1>29. CASE Confirm
  <2>1. CASE Bought
    <3>1. Loads /\ pc' = "bought"
      BY <2>1, ReloadLoads DEF Bought
    <3> QED BY <1>5, <3>1
  <2>2. CASE Next1("confirm")
    BY <1>5, <1>7, <2>2 DEF Next1
  <2>3. CASE Missed /\ UNCHANGED <<kis, known, lost, risks, changed, oversold>>
    BY <1>21, <2>3
  <2> QED BY <1>29, <2>1, <2>2, <2>3 DEF Confirm
<1>30. CASE KeepBought
  <2>1. UNCHANGED <<kis, known, lost, risks, changed, oversold>> /\ ord' = NoOrd /\ pc' = "next"
    BY <1>30 DEF KeepBought
  <2> QED BY <1>5, <1>6, <2>1
<1> QED BY <1>12, <1>13, <1>14, <1>15, <1>16, <1>17, <1>19, <1>20, <1>22, <1>23, <1>24, <1>25, <1>26,
           <1>27, <1>28, <1>29, <1>30 DEF BuyStep

-----------------------------------------------------------------------------
(* What is bought of a ticker.                                             *)
LEMMA TakenType ==
  ASSUME AccountOK, NEW t \in Ticker PROVE Taken(t) \in Int
BY AccountTypes DEF Taken

LEMMA QuietTaken ==
  ASSUME AccountSound, Loads \/ Still
  PROVE  UNCHANGED <<hold, sold, liveBuy, cash, lost>>
BY LoadsFacts DEF Still, kis

(* An order raises what is taken of its ticker by what was asked for, once *)
(* it is answered, and leaves the others alone.                            *)
LEMMA OrderTaken ==
  ASSUME AccountSound, UNCHANGED start, NEW t \in Ticker, NEW n \in Nat, NEW dear \in Nat, NEW answered \in BOOLEAN,
         Buy(t, n, dear, answered)
  PROVE  /\ \A u \in Ticker \ {t} : Taken(u)' = Taken(u)
         /\ lost' = 0 => lost = 0 /\ Taken(t)' = Taken(t) + IF answered THEN n ELSE 0
<1>1. PICK m \in Nat, k \in Nat : Sends("buy", t, n, answered, m, k)
  BY BuySends
<1>2. /\ lost' = lost + k /\ (k = 0 => m = IF answered THEN n ELSE 0)
      /\ liveBuy' = [liveBuy EXCEPT ![t] = @ + m] /\ UNCHANGED <<hold, sold>>
  BY <1>1 DEF Sends
<1>3. /\ lost \in Nat /\ liveBuy \in [Ticker -> Nat] /\ hold \in [Ticker -> Nat] /\ sold \in [Ticker -> Nat]
      /\ start.hold \in [Ticker -> Nat]
  BY AccountTypes DEF AccountSound
<1>4. lost' = 0 => lost = 0 /\ k = 0
  BY <1>2, <1>3
<1>5. liveBuy'[t] = liveBuy[t] + m /\ \A u \in Ticker \ {t} : liveBuy'[u] = liveBuy[u]
  BY <1>2, <1>3
<1>6. \A u \in Ticker \ {t} : Taken(u)' = Taken(u)
  BY <1>2, <1>5 DEF Taken
<1>7. Taken(t)' = Taken(t) + m
  BY <1>2, <1>3, <1>5 DEF Taken
<1> QED BY <1>2, <1>4, <1>6, <1>7

LEMMA SellAmounts ==
  ASSUME AccountSound, SellsOK, BuysOK, Staged, Amounts, SellStep, UNCHANGED <<buyvars, start>>
  PROVE  Amounts'
<1>1. pc \in SellPhase /\ pc' \in PreBuy
  BY SellStage
<1>2. UNCHANGED <<hold, sold, liveBuy, start>>
  BY SellSound
<1>3. UNCHANGED q
  BY DEF buyvars, hand
<1>4. \A t \in Ticker : Taken(t)' = Taken(t)
  BY <1>2 DEF Taken
<1>5. \A t \in Ticker : Taken(t) \in Int /\ Taken(t) <= 0
  BY <1>1, TakenType DEF Amounts, AccountSound, PreBuy
<1>6. MaxShares \in Nat
  BY BuysAssumption
<1>7. \A t \in Ticker : Taken(t)' <= MaxShares /\ Unbought(t)' /\ Taken(t)' <= 0
  BY <1>4, <1>5, <1>6 DEF Unbought
<1> QED BY <1>1, <1>3, <1>7 DEF Amounts, PreBuy, SellPhase

LEMMA OutsideAmounts ==
  ASSUME AccountSound, BuysOK, Amounts, Outside PROVE Amounts'
<1>1. /\ UNCHANGED <<pc, start, lost, targets, queue, failed, new, q, pre, loose>>
      /\ (Answered' <=> Answered)
      /\ \A t \in Ticker : hold'[t] + sold'[t] + liveBuy'[t] = hold[t] + sold[t] + liveBuy[t]
  BY DEF Outside
<1>2. \A t \in Ticker : Taken(t)' = Taken(t)
  <2> TAKE t \in Ticker
  <2> DEFINE e == IF t \in start.early THEN 1 ELSE 0
  <2>1. /\ hold[t] \in Nat /\ sold[t] \in Nat /\ liveBuy[t] \in Nat /\ start.hold[t] \in Nat
        /\ e \in Nat
    BY AccountTypes DEF AccountSound
  <2>2. hold'[t] \in Nat /\ sold'[t] \in Nat /\ liveBuy'[t] \in Nat
    BY DEF Outside, AccountSound, AccountOK, Share
  <2>3. Taken(t) = hold[t] + sold[t] + liveBuy[t] - start.hold[t] - e
    BY DEF Taken
  <2>4. Taken(t)' = hold'[t] + sold'[t] + liveBuy'[t] - start.hold[t] - e
    BY <1>1 DEF Taken
  <2> HIDE DEF e
  <2> QED BY <1>1, <2>1, <2>2, <2>3, <2>4
<1>3. \A t \in Ticker : (Wanted(t)' <=> Wanted(t)) /\ (Unbought(t)' <=> Unbought(t))
  BY <1>1, <1>2 DEF Wanted, InHand, Spending, Top, Unbought
<1> QED BY <1>1, <1>2, <1>3 DEF Amounts

(* What a step of the buys does with the amounts.                          *)
LEMMA BuyAmounts ==
  ASSUME AccountSound, SellsOK, BuysOK, Staged, Planned, Amounts, BuyStep, UNCHANGED start
  PROVE  Amounts'
<1>1. /\ AccountOK /\ AccountOK' /\ MaxShares \in Nat /\ lost \in Nat /\ lost' \in Nat /\ lost' >= lost /\ Dear \in Nat
      /\ q \in Nat /\ pre \in Nat /\ q <= MaxShares /\ remaining \in Nat
  BY BuySound, BuyTypes, AccountTypes, AccountAssumption DEF AccountSound, Amounts
<1>2. ASSUME UNCHANGED <<kis, known, lost, risks, changed, oversold>>, ord' \in {ord, NoOrd} PROVE Still
  BY <1>2 DEF Still
<1>3. ASSUME UNCHANGED account PROVE Still
  BY <1>3 DEF Still, account
<1>4. ASSUME Loads \/ Still, pc \in BuyPhase, pc' \in BuyPhase \cup {"over"}, loose \subseteq loose',
             \A t \in Ticker : Wanted(t)' => Wanted(t) \/ t \in loose', q' <= MaxShares,
             pc' \in {"market1", "market2"} => pre' <= MaxShares,
             pc' \in {"late", "marketable", "market", "market order", "fallback1"} => ~Answered'
      PROVE  Amounts'
  <2>1. \A t \in Ticker : Taken(t)' = Taken(t)
    BY <1>4, QuietTaken DEF Taken
  <2>2. UNCHANGED lost
    BY <1>4, QuietTaken
  <2>3. pc' \notin PreBuy
    BY <1>4 DEF PreBuy, SellPhase, BuyPhase, RebuyPhase, RoundPhase
  <2>4. lost' = 0 => /\ \A t \in Ticker \ loose' : Taken(t)' <= MaxShares
                     /\ \A t \in Ticker : Wanted(t)' => Unbought(t)'
    BY <1>4, <2>1, <2>2 DEF Amounts, Unbought
  <2> QED BY <1>4, <2>3, <2>4 DEF Amounts
<1>5. pc \in RebuyPhase /\ queue # <<>> => Listed(Tail(queue)) = Listed(queue) \ {Top} /\ Top \in Listed(queue)
  BY BuyTypes, TailFacts DEF Planned, RebuyLists, Top
<1>6. pc \in RoundPhase /\ queue # <<>> =>
        /\ Listed(Append(failed, Top)) = Listed(failed) \cup {Top} /\ Top \in Listed(targets)
        /\ Listed(Without(targets, Top)) = Listed(targets) \ {Top} /\ Top \notin Listed(failed)
  <2> SUFFICES ASSUME pc \in RoundPhase, queue # <<>>
               PROVE  /\ Listed(Append(failed, Top)) = Listed(failed) \cup {Top} /\ Top \in Listed(targets)
                      /\ Listed(Without(targets, Top)) = Listed(targets) \ {Top} /\ Top \notin Listed(failed)
    OBVIOUS
  <2>1. /\ RoundLists(targets, queue, failed)
        /\ targets \in Seq(Ticker) /\ queue \in Seq(Ticker) /\ failed \in Seq(Ticker)
    BY BuyTypes DEF Planned
  <2>2. Top \in Listed(targets) /\ Top \notin Listed(failed)
    BY <2>1, TailFacts DEF RoundLists, Top
  <2> QED BY <2>1, <2>2, RoundMiss, RoundKeep DEF Top
<1>7. pc \in BuyPhase \ {"first", "rebuy", "next"} => queue # <<>> /\ Top \in Ticker /\ Holding(Top) \in Nat
  BY BuyTypes, ReadFacts DEF Staged, AccountSound
<1>8. MaxShares \in Nat /\ 0 <= MaxShares
  BY <1>1
<1>9. ASSUME NEW n \in Nat, n <= MaxShares, NEW dear \in Nat, NEW answered \in BOOLEAN,
             NEW x \in Ticker, Buy(x, n, dear, answered), Wanted(x), pc \in BuyPhase, pc' \in BuyPhase, loose \subseteq loose',
             \A t \in Ticker \ {x} : Wanted(t)' => Wanted(t), answered => ~Wanted(x)' \/ x \in loose',
             q' <= MaxShares, pc' \notin {"market1", "market2"},
             pc' \notin {"late", "marketable", "market", "market order", "fallback1"}
      PROVE  Amounts'
  <2>1. /\ \A u \in Ticker \ {x} : Taken(u)' = Taken(u)
        /\ lost' = 0 => lost = 0 /\ Taken(x)' = Taken(x) + IF answered THEN n ELSE 0
    BY <1>9, OrderTaken
  <2>2. pc' \notin PreBuy
    BY <1>9 DEF PreBuy, SellPhase, BuyPhase, RebuyPhase, RoundPhase
  <2>3. Taken(x) \in Int
    BY <1>1, <1>9, TakenType
  <2>4. ASSUME lost' = 0
        PROVE  /\ \A t \in Ticker \ loose' : Taken(t)' <= MaxShares
               /\ \A t \in Ticker : Wanted(t)' => Unbought(t)'
    <3> DEFINE a == Taken(x)
               b == Taken(x)'
    <3>1. (x \in loose \/ a <= 0) /\ b = a + (IF answered THEN n ELSE 0) /\ a \in Int
      BY <1>9, <2>1, <2>3, <2>4 DEF Amounts, Unbought
    <3>2. \A t \in Ticker \ {x} : Wanted(t)' => Unbought(t)'
      BY <1>9, <2>1, <2>4 DEF Amounts, Unbought
    <3>3. \A t \in Ticker \ {x} : t \in loose' \/ Taken(t)' <= MaxShares
      BY <1>9, <2>1, <2>4 DEF Amounts
    <3>4. Unbought(x)' <=> x \in loose' \/ b <= 0
      BY DEF Unbought
    <3> HIDE DEF a, b
    <3>5. CASE answered
      <4>1. b = a + n
        BY <3>1, <3>5
      <4>2. n <= MaxShares
        BY <1>9
      <4>3. a <= 0 => b <= MaxShares
        BY <1>1, <3>1, <4>1, <4>2
      <4> QED BY <1>9, <3>1, <3>2, <3>3, <3>4, <3>5, <4>3 DEF b
    <3>6. CASE ~answered
      <4>1. b = a
        BY <3>1, <3>6
      <4>2. a <= 0 => b <= MaxShares /\ b <= 0
        BY <1>1, <3>1, <4>1
      <4> QED BY <1>9, <3>1, <3>2, <3>3, <3>4, <4>2 DEF b
    <3> QED BY <3>5, <3>6
  <2> QED BY <1>9, <2>2, <2>4 DEF Amounts
<1>10. CASE Gated
  <2>1. pc' = "over" /\ UNCHANGED <<account, q, loose>> /\ pc = "gates"
    BY <1>10 DEF Gated, Next1, buyvars, hand
  <2>2. \A t \in Ticker : Taken(t)' = Taken(t) /\ Taken(t) <= 0 /\ Taken(t) \in Int
    BY <1>1, <2>1, TakenType DEF Taken, account, kis, Amounts, PreBuy
  <2>3. \A t \in Ticker : Taken(t)' <= MaxShares /\ ~Wanted(t)'
    BY <1>1, <2>1, <2>2 DEF Wanted, RebuyPhase, RoundPhase
  <2> QED BY <1>1, <2>1, <2>3 DEF Amounts, PreBuy, SellPhase
<1>11. CASE OpenBuys
  <2>1. pc' = "first" /\ Loads /\ UNCHANGED <<q, loose>> /\ pc = "gates"
    BY <1>11, ReloadLoads DEF OpenBuys, hand
  <2>2. \A t \in Ticker : Taken(t)' = Taken(t) /\ Taken(t) <= 0 /\ Taken(t) \in Int
    BY <1>1, <2>1, TakenType, QuietTaken DEF Taken, Amounts, PreBuy
  <2>3. \A t \in Ticker : Taken(t)' <= MaxShares /\ Unbought(t)'
    BY <1>1, <2>2 DEF Unbought
  <2> QED BY <1>1, <2>1, <2>3 DEF Amounts, PreBuy, SellPhase
<1>12. CASE StartBatch
  <2>1. /\ pc = "first" /\ pc' = "rebuy"
        /\ UNCHANGED <<targets, failed, new, loose, q>> /\ queue' \in {<<>>, targets}
    BY <1>12 DEF StartBatch, Next1, hand
  <2>2. Loads \/ Still
    BY <1>12, <1>2, <1>3 DEF StartBatch, Next1, hand
  <2>3. \A t \in Ticker : Wanted(t)' => Wanted(t) \/ t \in loose'
    BY <2>1, EmptyList DEF Wanted, InHand, Spending, Top, Answered, RebuyPhase, RoundPhase
  <2> QED BY <1>1, <1>4, <2>1, <2>2, <2>3 DEF BuyPhase, RebuyPhase, RoundPhase
<1>13. CASE SyncRebuy
  <2>1. /\ pc = "rebuy" /\ pc' = "size"
        /\ UNCHANGED <<targets, queue, failed, new, loose, q>>
    BY <1>13, ReloadLoads DEF SyncRebuy, plan, hand, buyvars
  <2>2. Loads \/ Still
    BY <1>13, <1>2, <1>3, ReloadLoads DEF SyncRebuy, plan, hand, buyvars
  <2>3. \A t \in Ticker : Wanted(t)' => Wanted(t) \/ t \in loose'
    BY <2>1 DEF Wanted, InHand, Spending, Top, Answered, RebuyPhase, RoundPhase
  <2> QED BY <1>1, <1>4, <2>1, <2>2, <2>3 DEF BuyPhase, RebuyPhase, RoundPhase
<1>14. CASE SizeRebuy
  <2>1. /\ pc = "size" /\ pc' \in {"rebuy", "limit"}
        /\ UNCHANGED <<targets, failed, new, loose>>
        /\ queue' \in {queue, Tail(queue)}
        /\ q' = q \/ q' \in Affordable(Synced(remaining))
    BY <1>14, ReloadLoads DEF SizeRebuy, NextRebuy
  <2>2. Loads \/ Still
    BY <1>14, <1>2, <1>3, ReloadLoads DEF SizeRebuy, NextRebuy
  <2>3. queue' \in {queue, Tail(queue)} /\ Listed(queue') \subseteq Listed(queue)
    BY <1>5, <1>7, <2>1 DEF BuyPhase, RebuyPhase, RoundPhase
  <2>4. q' <= MaxShares
    BY <1>1, <1>8, <2>1, SyncedFacts, AffordableFacts
  <2>5. \A t \in Ticker : Wanted(t)' => Wanted(t) \/ t \in loose'
    BY <2>1, <2>3 DEF Wanted, InHand, Spending, Top, Answered, RebuyPhase, RoundPhase
  <2> QED BY <1>1, <1>4, <2>1, <2>2, <2>5, <2>4 DEF BuyPhase, RebuyPhase, RoundPhase
<1>15. CASE CheckRebuy
  <2>1. /\ pc = "limited" /\ pc' \in {"spent", "fallback1"}
        /\ UNCHANGED <<targets, queue, failed, new, q>> /\ ord' = NoOrd
        /\ loose' = IF Answered /\ pc' = "fallback1" THEN loose \cup {Top} ELSE loose
    BY <1>15 DEF CheckRebuy, Load, Loads, ExecutedById, plan, hand
  <2>2. Loads \/ Still
    BY <1>15, <1>2, <1>3 DEF CheckRebuy, Load, Loads, ExecutedById, plan, hand
  <2>3. ~Answered' /\ loose \subseteq loose'
    BY <2>1 DEF Answered
  <2>4. \A t \in Ticker : Wanted(t)' => Wanted(t) \/ t \in loose'
    BY <2>1 DEF Wanted, InHand, Spending, Top, Answered, RebuyPhase, RoundPhase
  <2> QED BY <1>1, <1>4, <2>1, <2>2, <2>4, <2>3 DEF BuyPhase, RebuyPhase, RoundPhase
<1>16. CASE SpentRebuy
  <2>1. /\ pc = "spent" /\ pc' = "rebuy"
        /\ UNCHANGED <<targets, failed, new, loose, q>> /\ queue' = Tail(queue)
    BY <1>16 DEF SpentRebuy, NextRebuy, hand
  <2>2. Loads \/ Still
    BY <1>16, <1>2, <1>3 DEF SpentRebuy, NextRebuy, hand
  <2>3. Listed(queue') = Listed(queue) \ {Top}
    BY <1>5, <1>7, <2>1 DEF BuyPhase, RebuyPhase, RoundPhase
  <2>4. \A t \in Ticker : Wanted(t)' => Wanted(t) \/ t \in loose'
    BY <2>1, <2>3 DEF Wanted, InHand, Spending, Top, Answered, RebuyPhase, RoundPhase
  <2> QED BY <1>1, <1>4, <2>1, <2>2, <2>4 DEF BuyPhase, RebuyPhase, RoundPhase
<1>17. CASE FallBack("fallback1", "market1")
  <2>1. /\ pc = "fallback1" /\ pc' = "market1"
        /\ UNCHANGED <<targets, queue, failed, new, loose, q>>
        /\ pre' = Max({0, q - Holding(Top)})
    BY <1>17, ReloadLoads DEF FallBack, plan
  <2>2. Loads \/ Still
    BY <1>17, <1>2, <1>3, ReloadLoads DEF FallBack, plan
  <2>3. pre' <= MaxShares
    <3> DEFINE d == q - Holding(Top)
    <3>1. Holding(Top) \in Nat
      BY <1>1, <1>7, <2>1 DEF BuyPhase, RebuyPhase
    <3>2. d \in Int /\ d <= q
      BY <1>1, <3>1
    <3>3. pre' = Max({0, d})
      BY <2>1 DEF d
    <3> HIDE DEF d
    <3>4. d \in Int /\ 0 \in Int
      BY <3>2
    <3>5. Max({0, d}) \in {0, d}
      BY <3>4, MaxOf
    <3> QED BY <1>1, <3>2, <3>5, <3>3
  <2>4. \A t \in Ticker : Wanted(t)' => Wanted(t) \/ t \in loose'
    BY <2>1 DEF Wanted, InHand, Spending, Top, Answered, RebuyPhase, RoundPhase
  <2> QED BY <1>1, <1>4, <2>1, <2>2, <2>4, <2>3 DEF BuyPhase, RebuyPhase, RoundPhase
<1>18. CASE FallBack("fallback2", "market2")
  <2>1. /\ pc = "fallback2" /\ pc' = "market2"
        /\ UNCHANGED <<targets, queue, failed, new, loose, q>>
        /\ pre' = Max({0, q - Holding(Top)})
    BY <1>18, ReloadLoads DEF FallBack, plan
  <2>2. Loads \/ Still
    BY <1>18, <1>2, <1>3, ReloadLoads DEF FallBack, plan
  <2>3. pre' <= MaxShares
    <3> DEFINE d == q - Holding(Top)
    <3>1. Holding(Top) \in Nat
      BY <1>1, <1>7, <2>1 DEF BuyPhase, RebuyPhase
    <3>2. d \in Int /\ d <= q
      BY <1>1, <3>1
    <3>3. pre' = Max({0, d})
      BY <2>1 DEF d
    <3> HIDE DEF d
    <3>4. d \in Int /\ 0 \in Int
      BY <3>2
    <3>5. Max({0, d}) \in {0, d}
      BY <3>4, MaxOf
    <3> QED BY <1>1, <3>2, <3>5, <3>3
  <2>4. \A t \in Ticker : Wanted(t)' => Wanted(t) \/ t \in loose'
    BY <2>1 DEF Wanted, InHand, Spending, Top, Answered, RebuyPhase, RoundPhase
  <2> QED BY <1>1, <1>4, <2>1, <2>2, <2>4, <2>3 DEF BuyPhase, RebuyPhase, RoundPhase
<1>19. CASE Again1
  <2>1. /\ pc = "again1" /\ pc' = "fallback2"
        /\ UNCHANGED <<targets, queue, failed, new, loose, q>>
    BY <1>19, ReloadLoads DEF Again1, plan, hand, buyvars
  <2>2. Loads \/ Still
    BY <1>19, <1>2, <1>3, ReloadLoads DEF Again1, plan, hand, buyvars
  <2>3. \A t \in Ticker : Wanted(t)' => Wanted(t) \/ t \in loose'
    BY <2>1 DEF Wanted, InHand, Spending, Top, Answered, RebuyPhase, RoundPhase
  <2> QED BY <1>1, <1>4, <2>1, <2>2, <2>3 DEF BuyPhase, RebuyPhase, RoundPhase
<1>20. CASE StartRounds
  <2>1. /\ pc = "rebuy" /\ pc' = "next"
        /\ targets' = Targets /\ queue' = Targets /\ new' = <<>> /\ q' = 0
        /\ UNCHANGED <<failed, loose>>
    BY <1>20 DEF StartRounds, Next1
  <2>2. Loads \/ Still
    BY <1>20, <1>2, <1>3 DEF StartRounds, Next1
  <2>3. Listed(Targets) \subseteq Listed(new) /\ Listed(failed) = {}
    BY <2>1, AccountAssumption, TargetsFacts, EmptyList DEF Planned, RebuyPhase, RebuyLists
  <2>4. \A t \in Ticker : Wanted(t)' => Wanted(t) \/ t \in loose'
    BY <2>1, <2>3 DEF Wanted, InHand, Spending, Top, Answered, RebuyPhase, RoundPhase
  <2> QED BY <1>1, <1>4, <2>1, <2>2, <2>4 DEF BuyPhase, RebuyPhase, RoundPhase
<1>21. CASE SyncPlan
  <2>1. /\ pc = "next" /\ pc' = "synced"
        /\ UNCHANGED <<targets, queue, failed, new, loose, q>>
    BY <1>21, ReloadLoads DEF SyncPlan, plan, hand, buyvars
  <2>2. Loads \/ Still
    BY <1>21, <1>2, <1>3, ReloadLoads DEF SyncPlan, plan, hand, buyvars
  <2>3. \A t \in Ticker : Wanted(t)' => Wanted(t) \/ t \in loose'
    BY <2>1 DEF Wanted, InHand, Spending, Top, Answered, RebuyPhase, RoundPhase
  <2> QED BY <1>1, <1>4, <2>1, <2>2, <2>3 DEF BuyPhase, RebuyPhase, RoundPhase
<1>22. CASE TakePlan
  <2>1. /\ pc = "synced" /\ pc' \in {"next", "sizing"}
        /\ UNCHANGED <<targets, failed, new, loose, q>>
    BY <1>22, ReloadLoads DEF TakePlan, Next1, hand
  <2>2. Loads \/ Still
    BY <1>22, <1>2, <1>3, ReloadLoads DEF TakePlan, Next1, hand
  <2>3. \A t \in Ticker : Wanted(t)' => Wanted(t) \/ t \in loose'
    BY <2>1 DEF Wanted, InHand, Spending, Top, Answered, RebuyPhase, RoundPhase
  <2> QED BY <1>1, <1>4, <2>1, <2>2, <2>3 DEF BuyPhase, RebuyPhase, RoundPhase
<1>23. CASE SizePlan
  <2>1. /\ pc = "sizing" /\ pc' \in {"next", "capped"}
        /\ UNCHANGED <<targets, new, loose>>
        /\ q' = 0 \/ q' \in Affordable(remaining)
        /\ \/ pc' # "next" /\ UNCHANGED failed
           \/ pc' = "next" /\ failed' = Append(failed, Top) /\ ord' = NoOrd
    BY <1>23, ReloadLoads DEF SizePlan, Missed, NoMiss
  <2>2. Loads \/ Still
    BY <1>23, <1>2, <1>3, ReloadLoads DEF SizePlan, Missed, NoMiss
  <2>3. Listed(failed') \subseteq Listed(failed) \cup {Top} /\ Top \in Listed(targets)
    BY <1>6, <1>7, <2>1 DEF BuyPhase, RoundPhase
  <2>4. q' <= MaxShares
    BY <1>1, <1>8, <2>1, AffordableFacts
  <2>5. \A t \in Ticker : Wanted(t)' => Wanted(t) \/ t \in loose'
    BY <2>1, <2>3 DEF Wanted, InHand, Spending, Top, Answered, RebuyPhase, RoundPhase
  <2> QED BY <1>1, <1>4, <2>1, <2>2, <2>5, <2>4 DEF BuyPhase, RebuyPhase, RoundPhase
<1>24. CASE Placed
  <2>1. /\ pc = "placed" /\ pc' \in {"bought", "late"}
        /\ UNCHANGED <<targets, queue, failed, new, loose, q>>
        /\ pc' = "late" => ~Answered
        /\ ord' = ord
    BY <1>24, ReloadLoads DEF Placed, Bought, plan, hand, buyvars
  <2>2. Loads \/ Still
    BY <1>24, <1>2, <1>3, ReloadLoads DEF Placed, Bought, plan, hand, buyvars
  <2>3. (Answered' <=> Answered) /\ (pc' = "late" => ~Answered')
    BY <2>1 DEF Answered
  <2>4. \A t \in Ticker : Wanted(t)' => Wanted(t) \/ t \in loose'
    BY <2>1, <2>3 DEF Wanted, InHand, Spending, Top, Answered, RebuyPhase, RoundPhase
  <2> QED BY <1>1, <1>4, <2>1, <2>2, <2>4, <2>3 DEF BuyPhase, RebuyPhase, RoundPhase
<1>25. CASE LateFill
  <2>1. /\ pc = "late" /\ pc' \in {"bought", "marketable"}
        /\ UNCHANGED <<targets, queue, failed, new, loose, q>>
        /\ ord' = ord
    BY <1>25, ReloadLoads DEF LateFill, Bought, Next1, account, plan, hand, buyvars
  <2>2. Loads \/ Still
    BY <1>25, <1>2, <1>3, ReloadLoads DEF LateFill, Bought, Next1, account, plan, hand, buyvars
  <2>3. ~Answered'
    BY <2>1 DEF Amounts, Answered
  <2>4. \A t \in Ticker : Wanted(t)' => Wanted(t) \/ t \in loose'
    BY <2>1 DEF Wanted, InHand, Spending, Top, Answered, RebuyPhase, RoundPhase
  <2> QED BY <1>1, <1>4, <2>1, <2>2, <2>4, <2>3 DEF BuyPhase, RebuyPhase, RoundPhase
<1>26. CASE Crossed
  <2>1. /\ pc = "crossed" /\ pc' \in {"bought", "market"}
        /\ UNCHANGED <<targets, queue, failed, new, q>> /\ ord' = NoOrd
        /\ loose' = IF Answered /\ pc' = "market" THEN loose \cup {Top} ELSE loose
    BY <1>26 DEF Crossed, Load, Loads, ExecutedById, plan, hand
  <2>2. Loads \/ Still
    BY <1>26, <1>2, <1>3 DEF Crossed, Load, Loads, ExecutedById, plan, hand
  <2>3. ~Answered' /\ loose \subseteq loose'
    BY <2>1 DEF Answered
  <2>4. \A t \in Ticker : Wanted(t)' => Wanted(t) \/ t \in loose'
    BY <2>1 DEF Wanted, InHand, Spending, Top, Answered, RebuyPhase, RoundPhase
  <2> QED BY <1>1, <1>4, <2>1, <2>2, <2>4, <2>3 DEF BuyPhase, RebuyPhase, RoundPhase
<1>27. CASE BeforeMarket
  <2>1. /\ pc = "market" /\ pc' = "market order"
        /\ UNCHANGED <<targets, queue, failed, new, loose, q>>
        /\ ord' = ord
    BY <1>27, ReloadLoads DEF BeforeMarket, plan
  <2>2. Loads \/ Still
    BY <1>27, <1>2, <1>3, ReloadLoads DEF BeforeMarket, plan
  <2>3. ~Answered'
    BY <2>1 DEF Amounts, Answered
  <2>4. \A t \in Ticker : Wanted(t)' => Wanted(t) \/ t \in loose'
    BY <2>1 DEF Wanted, InHand, Spending, Top, Answered, RebuyPhase, RoundPhase
  <2> QED BY <1>1, <1>4, <2>1, <2>2, <2>4, <2>3 DEF BuyPhase, RebuyPhase, RoundPhase
<1>28. CASE Poll
  <2>1. /\ pc = "confirm" /\ pc' = "confirming"
        /\ UNCHANGED <<targets, queue, failed, new, loose, q>>
        /\ ord' = ord
    BY <1>28, ReloadLoads DEF Poll, plan, hand, buyvars
  <2>2. Loads \/ Still
    BY <1>28, <1>2, <1>3, ReloadLoads DEF Poll, plan, hand, buyvars
  <2>3. \A t \in Ticker : Wanted(t)' => Wanted(t) \/ t \in loose'
    BY <2>1 DEF Wanted, InHand, Spending, Top, Answered, RebuyPhase, RoundPhase
  <2> QED BY <1>1, <1>4, <2>1, <2>2, <2>3 DEF BuyPhase, RebuyPhase, RoundPhase
<1>29. CASE Confirm
  <2>1. /\ pc = "confirming" /\ pc' \in {"bought", "confirm", "next"}
        /\ UNCHANGED <<targets, new, q>>
        /\ pc' # "next" => ord' = ord /\ UNCHANGED <<queue, failed, loose>>
        /\ pc' = "next" => failed' = Append(failed, Top) /\ loose' = IF Answered THEN loose \cup {Top} ELSE loose
        /\ loose \subseteq loose'
    BY <1>29, ReloadLoads DEF Confirm, Bought, Next1, Missed, NoMiss, account, hand
  <2>2. Loads \/ Still
    BY <1>29, <1>2, <1>3, ReloadLoads DEF Confirm, Bought, Next1, Missed, NoMiss, account, hand
  <2>3. pc' = "next" => Listed(failed') \subseteq Listed(failed) \cup {Top} /\ Top \in Listed(targets)
    BY <1>6, <1>7, <2>1 DEF BuyPhase, RoundPhase
  <2>4. \A t \in Ticker : Wanted(t)' => Wanted(t) \/ t \in loose'
    BY <2>1, <2>3 DEF Wanted, InHand, Spending, Top, Answered, RebuyPhase, RoundPhase
  <2> QED BY <1>1, <1>4, <2>1, <2>2, <2>4 DEF BuyPhase, RebuyPhase, RoundPhase
<1>30. CASE KeepBought
  <2>1. /\ pc = "bought" /\ pc' = "next"
        /\ UNCHANGED <<failed, new, loose, q>> /\ targets' = Without(targets, Top)
    BY <1>30 DEF KeepBought, hand
  <2>2. Loads \/ Still
    BY <1>30, <1>2, <1>3 DEF KeepBought, hand
  <2>3. Listed(targets') = Listed(targets) \ {Top}
    BY <1>6, <1>7, <2>1 DEF BuyPhase, RoundPhase
  <2>4. \A t \in Ticker : Wanted(t)' => Wanted(t) \/ t \in loose'
    BY <2>1, <2>3 DEF Wanted, InHand, Spending, Top, Answered, RebuyPhase, RoundPhase
  <2> QED BY <1>1, <1>4, <2>1, <2>2, <2>4 DEF BuyPhase, RebuyPhase, RoundPhase
<1>31. CASE EndRound
  <2>1. /\ pc = "next" /\ pc' \in {"next", "over"}
        /\ UNCHANGED <<new, q, loose>>
        /\ pc' = "next" => targets' \in {targets, failed} /\ failed' \in {failed, <<>>}
    BY <1>31 DEF EndRound, Next1, plan, hand, buyvars
  <2>2. Loads \/ Still
    BY <1>31, <1>2, <1>3 DEF EndRound, Next1, plan, hand, buyvars
  <2>3. \A t \in Ticker : Wanted(t)' => Wanted(t) \/ t \in loose'
    BY <2>1, EmptyList DEF Wanted, InHand, Spending, Top, Answered, RebuyPhase, RoundPhase
  <2> QED BY <1>1, <1>4, <2>1, <2>2, <2>3 DEF BuyPhase, RebuyPhase, RoundPhase
<1>32. CASE LimitRebuy
  <2>1. /\ pc = "limit" /\ pc' \in {"rebuy", "limited"} /\ q' = Capped(q)
        /\ UNCHANGED <<targets, failed, new, loose>>
    BY <1>32 DEF LimitRebuy, NextRebuy
  <2>2. Top \in Ticker /\ Top \in Listed(queue) /\ Top \notin Listed(new)
    BY <1>5, <1>7, <2>1 DEF Planned, RebuyLists, BuyPhase, RebuyPhase, RoundPhase
  <2>3. q' <= MaxShares
    BY <1>1, <2>1, CappedFacts
  <2>4. Listed(Tail(queue)) \subseteq Listed(queue)
    BY <1>5, <1>7, <2>1 DEF BuyPhase, RebuyPhase, RoundPhase
  <2>5. ASSUME Loads \/ Still, pc' = "rebuy" /\ queue' = Tail(queue) PROVE Amounts'
    <3>1. \A t \in Ticker : Wanted(t)' => Wanted(t) \/ t \in loose'
      BY <2>1, <2>2, <2>5, <2>4 DEF Wanted, InHand, Spending, Top, Answered, RebuyPhase, RoundPhase
    <3> QED BY <1>4, <2>1, <2>3, <2>5, <3>1 DEF BuyPhase, RebuyPhase, RoundPhase
  <2>6. ASSUME NEW answered \in BOOLEAN, NEW x \in Ticker, x = Top, Buy(Top, q', 0, answered),
               pc' = "limited", Await("buy", Top, q', answered), UNCHANGED queue
        PROVE  Amounts'
    <3>1. q' \in Nat /\ q' <= MaxShares
      BY <1>1, <2>1, CappedFacts
    <3>2. Wanted(x)
      BY <2>1, <2>2, <2>6 DEF Wanted, InHand, Spending, Top, Answered, RebuyPhase, RoundPhase
    <3>3. answered => Answered'
      BY <2>6 DEF Await, Answered, NoOrd
    <3>4. answered => ~Wanted(x)'
      BY <2>1, <2>2, <2>6, <3>3 DEF Wanted, InHand, Spending, Top, RebuyPhase, RoundPhase
    <3>5. \A t \in Ticker \ {x} : Wanted(t)' => Wanted(t)
      BY <2>1, <2>2, <2>6 DEF Wanted, InHand, Spending, Top, Answered, RebuyPhase, RoundPhase
    <3> QED BY <1>1, <1>9, <2>1, <2>2, <2>3, <2>6, <3>1, <3>2, <3>4, <3>5 DEF BuyPhase, RebuyPhase, RoundPhase
  <2>7. \/ (Loads \/ Still) /\ pc' = "rebuy" /\ queue' = Tail(queue)
        \/ \E answered \in BOOLEAN : Buy(Top, q', 0, answered) /\ pc' = "limited" /\ Await("buy", Top, q', answered) /\ UNCHANGED queue
    BY <1>32, <1>2, <1>3, <2>1 DEF LimitRebuy, NextRebuy, account
  <2> QED BY <2>2, <2>5, <2>6, <2>7
<1>33. CASE Market1
  <2>1. /\ pc = "market1" /\ pc' = "again1" /\ ord' = ord
        /\ UNCHANGED <<targets, queue, failed, new, q>> /\ loose \subseteq loose'
    BY <1>33 DEF Market1, MarketRebuy, plan, hand
  <2>2. Top \in Ticker /\ Top \in Listed(queue) /\ Top \notin Listed(new)
    BY <1>5, <1>7, <2>1 DEF Planned, RebuyLists, BuyPhase, RebuyPhase, RoundPhase
  <2>3. q' <= MaxShares
    BY <1>1, <2>1
  <2>4. ASSUME Loads \/ Still, TRUE PROVE Amounts'
    <3>1. \A t \in Ticker : Wanted(t)' => Wanted(t) \/ t \in loose'
      BY <2>1, <2>2, <2>4 DEF Wanted, InHand, Spending, Top, Answered, RebuyPhase, RoundPhase
    <3> QED BY <1>4, <2>1, <2>3, <2>4, <3>1 DEF BuyPhase, RebuyPhase, RoundPhase
  <2>5. ASSUME NEW answered \in BOOLEAN, NEW x \in Ticker, x = Top, Buy(Top, Capped(pre), Dear, answered),
               loose' = IF answered THEN loose \cup {Top} ELSE loose
        PROVE  Amounts'
    <3>1. Capped(pre) \in Nat /\ Capped(pre) <= MaxShares
      BY <1>1, <2>1, CappedFacts DEF Amounts
    <3>2. Wanted(x)
      BY <2>1, <2>2, <2>5 DEF Wanted, InHand, Spending, Top, Answered, RebuyPhase, RoundPhase
    <3>3. answered => x \in loose'
      BY <2>5
    <3>4. \A t \in Ticker \ {x} : Wanted(t)' => Wanted(t)
      BY <2>1, <2>2, <2>5 DEF Wanted, InHand, Spending, Top, Answered, RebuyPhase, RoundPhase
    <3> QED BY <1>1, <1>9, <2>1, <2>2, <2>3, <2>5, <3>1, <3>2, <3>3, <3>4 DEF BuyPhase, RebuyPhase, RoundPhase
  <2>6. \/ (Loads \/ Still) /\ TRUE
        \/ \E answered \in BOOLEAN : Buy(Top, Capped(pre), Dear, answered) /\ loose' = IF answered THEN loose \cup {Top} ELSE loose
    BY <1>33, <1>2, <1>3, <2>1 DEF Market1, MarketRebuy, plan, hand, account, Load, Loads
  <2> QED BY <2>2, <2>4, <2>5, <2>6
<1>34. CASE Market2
  <2>1. /\ pc = "market2" /\ pc' = "rebuy" /\ ord' = ord
        /\ UNCHANGED <<targets, failed, new, q>> /\ queue' = Tail(queue) /\ loose \subseteq loose'
    BY <1>34 DEF Market2, MarketRebuy, NextRebuy, hand
  <2>2. Top \in Ticker /\ Top \in Listed(queue) /\ Top \notin Listed(new)
    BY <1>5, <1>7, <2>1 DEF Planned, RebuyLists, BuyPhase, RebuyPhase, RoundPhase
  <2>3. q' <= MaxShares
    BY <1>1, <2>1
  <2>4. Listed(Tail(queue)) \subseteq Listed(queue)
    BY <1>5, <1>7, <2>1 DEF BuyPhase, RebuyPhase, RoundPhase
  <2>5. ASSUME Loads \/ Still, TRUE PROVE Amounts'
    <3>1. \A t \in Ticker : Wanted(t)' => Wanted(t) \/ t \in loose'
      BY <2>1, <2>2, <2>5, <2>4 DEF Wanted, InHand, Spending, Top, Answered, RebuyPhase, RoundPhase
    <3> QED BY <1>4, <2>1, <2>3, <2>5, <3>1 DEF BuyPhase, RebuyPhase, RoundPhase
  <2>6. ASSUME NEW answered \in BOOLEAN, NEW x \in Ticker, x = Top, Buy(Top, Capped(pre), Dear, answered),
               loose' = IF answered THEN loose \cup {Top} ELSE loose
        PROVE  Amounts'
    <3>1. Capped(pre) \in Nat /\ Capped(pre) <= MaxShares
      BY <1>1, <2>1, CappedFacts DEF Amounts
    <3>2. Wanted(x)
      BY <2>1, <2>2, <2>6 DEF Wanted, InHand, Spending, Top, Answered, RebuyPhase, RoundPhase
    <3>3. answered => x \in loose'
      BY <2>6
    <3>4. \A t \in Ticker \ {x} : Wanted(t)' => Wanted(t)
      BY <2>1, <2>2, <2>6, <2>4 DEF Wanted, InHand, Spending, Top, Answered, RebuyPhase, RoundPhase
    <3> QED BY <1>1, <1>9, <2>1, <2>2, <2>3, <2>6, <3>1, <3>2, <3>3, <3>4 DEF BuyPhase, RebuyPhase, RoundPhase
  <2>7. \/ (Loads \/ Still) /\ TRUE
        \/ \E answered \in BOOLEAN : Buy(Top, Capped(pre), Dear, answered) /\ loose' = IF answered THEN loose \cup {Top} ELSE loose
    BY <1>34, <1>2, <1>3, <2>1 DEF Market2, MarketRebuy, NextRebuy, hand, account, Load, Loads
  <2> QED BY <2>2, <2>5, <2>6, <2>7
<1>35. CASE LimitOrder
  <2>1. /\ pc = "capped" /\ pc' \in {"next", "placed"} /\ q' = Capped(q)
        /\ UNCHANGED <<targets, new, loose>>
    BY <1>35 DEF LimitOrder, Missed, NoMiss
  <2>2. Top \in Ticker /\ Top \in Listed(targets) /\ Top \notin Listed(failed)
    BY <1>6, <1>7, <2>1 DEF BuyPhase, RebuyPhase, RoundPhase
  <2>3. q' <= MaxShares
    BY <1>1, <2>1, CappedFacts
  <2>4. Listed(Append(failed, Top)) = Listed(failed) \cup {Top}
    BY <1>6, <1>7, <2>1 DEF BuyPhase, RebuyPhase, RoundPhase
  <2>5. ASSUME Loads \/ Still, pc' = "next" /\ failed' = Append(failed, Top) PROVE Amounts'
    <3>1. \A t \in Ticker : Wanted(t)' => Wanted(t) \/ t \in loose'
      BY <2>1, <2>2, <2>5, <2>4 DEF Wanted, InHand, Spending, Top, Answered, RebuyPhase, RoundPhase
    <3> QED BY <1>4, <2>1, <2>3, <2>5, <3>1 DEF BuyPhase, RebuyPhase, RoundPhase
  <2>6. ASSUME NEW answered \in BOOLEAN, NEW x \in Ticker, x = Top, Buy(Top, q', 0, answered),
               pc' = "placed", Await("buy", Top, q', answered), UNCHANGED <<queue, failed>>
        PROVE  Amounts'
    <3>1. q' \in Nat /\ q' <= MaxShares
      BY <1>1, <2>1, CappedFacts
    <3>2. Wanted(x)
      BY <2>1, <2>2, <2>6 DEF Wanted, InHand, Spending, Top, Answered, RebuyPhase, RoundPhase
    <3>3. answered => Answered'
      BY <2>6 DEF Await, Answered, NoOrd
    <3>4. answered => ~Wanted(x)'
      BY <2>1, <2>2, <2>6, <3>3 DEF Wanted, InHand, Spending, Top, RebuyPhase, RoundPhase
    <3>5. \A t \in Ticker \ {x} : Wanted(t)' => Wanted(t)
      BY <2>1, <2>2, <2>6 DEF Wanted, InHand, Spending, Top, Answered, RebuyPhase, RoundPhase
    <3> QED BY <1>1, <1>9, <2>1, <2>2, <2>3, <2>6, <3>1, <3>2, <3>4, <3>5 DEF BuyPhase, RebuyPhase, RoundPhase
  <2>7. \/ (Loads \/ Still) /\ pc' = "next" /\ failed' = Append(failed, Top)
        \/ \E answered \in BOOLEAN : Buy(Top, q', 0, answered) /\ pc' = "placed" /\ Await("buy", Top, q', answered) /\ UNCHANGED <<queue, failed>>
    BY <1>35, <1>2, <1>3, <2>1 DEF LimitOrder, Missed, NoMiss, account
  <2> QED BY <2>2, <2>5, <2>6, <2>7
<1>36. CASE MarketableOrder
  <2>1. /\ pc = "marketable" /\ pc' = "crossed"
        /\ UNCHANGED <<targets, queue, failed, new, loose, q>>
    BY <1>36 DEF MarketableOrder, plan, hand, buyvars
  <2>2. Top \in Ticker /\ Top \in Listed(targets) /\ Top \notin Listed(failed)
    BY <1>6, <1>7, <2>1 DEF BuyPhase, RebuyPhase, RoundPhase
  <2>3. q' <= MaxShares
    BY <1>1, <2>1
  <2>4. ASSUME Loads \/ Still, ord' = ord PROVE Amounts'
    <3>1. \A t \in Ticker : Wanted(t)' => Wanted(t) \/ t \in loose'
      BY <2>1, <2>2, <2>4 DEF Wanted, InHand, Spending, Top, Answered, RebuyPhase, RoundPhase
    <3> QED BY <1>4, <2>1, <2>3, <2>4, <3>1 DEF BuyPhase, RebuyPhase, RoundPhase
  <2>5. ASSUME NEW answered \in BOOLEAN, NEW x \in Ticker, x = Top, Buy(Top, q, Dear, answered),
               Await("buy", Top, q, answered)
        PROVE  Amounts'
    <3>1. q \in Nat /\ q <= MaxShares
      BY <1>1
    <3>2. Wanted(x)
      BY <2>1, <2>2, <2>5 DEF Wanted, InHand, Spending, Top, Answered, RebuyPhase, RoundPhase
    <3>3. answered => Answered'
      BY <2>5 DEF Await, Answered, NoOrd
    <3>4. answered => ~Wanted(x)'
      BY <2>1, <2>2, <2>5, <3>3 DEF Wanted, InHand, Spending, Top, RebuyPhase, RoundPhase
    <3>5. \A t \in Ticker \ {x} : Wanted(t)' => Wanted(t)
      BY <2>1, <2>2, <2>5 DEF Wanted, InHand, Spending, Top, Answered, RebuyPhase, RoundPhase
    <3> QED BY <1>1, <1>9, <2>1, <2>2, <2>3, <2>5, <3>1, <3>2, <3>4, <3>5 DEF BuyPhase, RebuyPhase, RoundPhase
  <2>6. \/ (Loads \/ Still) /\ ord' = ord
        \/ \E answered \in BOOLEAN : Buy(Top, q, Dear, answered) /\ Await("buy", Top, q, answered)
    BY <1>36, <1>2, <1>3, <2>1 DEF MarketableOrder, plan, hand, buyvars, account
  <2> QED BY <2>2, <2>4, <2>5, <2>6
<1>37. CASE MarketOrder
  <2>1. /\ pc = "market order" /\ pc' \in {"next", "confirm"}
        /\ UNCHANGED <<targets, new, loose, q>>
    BY <1>37 DEF MarketOrder, Missed, NoMiss
  <2>2. Top \in Ticker /\ Top \in Listed(targets) /\ Top \notin Listed(failed)
    BY <1>6, <1>7, <2>1 DEF BuyPhase, RebuyPhase, RoundPhase
  <2>3. q' <= MaxShares
    BY <1>1, <2>1
  <2>4. Listed(Append(failed, Top)) = Listed(failed) \cup {Top}
    BY <1>6, <1>7, <2>1 DEF BuyPhase, RebuyPhase, RoundPhase
  <2>5. ASSUME Loads \/ Still, pc' = "next" /\ failed' = Append(failed, Top) PROVE Amounts'
    <3>1. \A t \in Ticker : Wanted(t)' => Wanted(t) \/ t \in loose'
      BY <2>1, <2>2, <2>5, <2>4 DEF Wanted, InHand, Spending, Top, Answered, RebuyPhase, RoundPhase
    <3> QED BY <1>4, <2>1, <2>3, <2>5, <3>1 DEF BuyPhase, RebuyPhase, RoundPhase
  <2>6. ASSUME NEW answered \in BOOLEAN, NEW x \in Ticker, x = Top, Buy(Top, Capped(q), Dear, answered),
               pc' = "confirm", Await("buy", Top, Capped(q), answered), UNCHANGED <<queue, failed>>
        PROVE  Amounts'
    <3>1. Capped(q) \in Nat /\ Capped(q) <= MaxShares
      BY <1>1, CappedFacts
    <3>2. Wanted(x)
      BY <2>1, <2>2, <2>6 DEF Wanted, InHand, Spending, Top, Answered, RebuyPhase, RoundPhase
    <3>3. answered => Answered'
      BY <2>6 DEF Await, Answered, NoOrd
    <3>4. answered => ~Wanted(x)'
      BY <2>1, <2>2, <2>6, <3>3 DEF Wanted, InHand, Spending, Top, RebuyPhase, RoundPhase
    <3>5. \A t \in Ticker \ {x} : Wanted(t)' => Wanted(t)
      BY <2>1, <2>2, <2>6 DEF Wanted, InHand, Spending, Top, Answered, RebuyPhase, RoundPhase
    <3> QED BY <1>1, <1>9, <2>1, <2>2, <2>3, <2>6, <3>1, <3>2, <3>4, <3>5 DEF BuyPhase, RebuyPhase, RoundPhase
  <2>7. \/ (Loads \/ Still) /\ pc' = "next" /\ failed' = Append(failed, Top)
        \/ \E answered \in BOOLEAN : Buy(Top, Capped(q), Dear, answered) /\ pc' = "confirm" /\ Await("buy", Top, Capped(q), answered) /\ UNCHANGED <<queue, failed>>
    BY <1>37, <1>2, <1>3, <2>1 DEF MarketOrder, Missed, NoMiss, account
  <2> QED BY <2>2, <2>5, <2>6, <2>7
<1> QED BY <1>10, <1>11, <1>12, <1>13, <1>14, <1>15, <1>16, <1>17, <1>18, <1>19, <1>20, <1>21, <1>22, <1>23, <1>24, <1>25, <1>26, <1>27, <1>28, <1>29, <1>30, <1>31, <1>32, <1>33, <1>34, <1>35, <1>36, <1>37 DEF BuyStep

-----------------------------------------------------------------------------
(* The slots.                                                              *)
LEMMA FitsSlots ==
  ASSUME NEW B \in SUBSET Ticker, NEW H \in SUBSET Ticker, NEW W \in SUBSET Ticker, NEW E \in SUBSET Ticker,
         NEW early, NEW s \in Nat, B \ early \subseteq H, E \cap early = {}, E \subseteq B \cup W,
         Cardinality(W) <= Max({0, s - Cardinality(B)})
  PROVE  Cardinality(E) <= Max({s, Cardinality(H)})
<1> DEFINE b == Cardinality(B)
           h == Cardinality(H)
           w == Cardinality(W)
           e == Cardinality(E)
           d == s - b
<1>1. /\ IsFiniteSet(Ticker) /\ IsFiniteSet(B) /\ IsFiniteSet(H) /\ IsFiniteSet(W) /\ IsFiniteSet(E)
  BY AccountAssumption, FS_Subset
<1>2. b \in Nat /\ h \in Nat /\ w \in Nat /\ e \in Nat
  BY <1>1, FS_CardinalityType
<1>3. IsFiniteSet(B \cup W) /\ Cardinality(B \cup W) <= b + w
  <2>1. /\ IsFiniteSet(B \cup W)
        /\ Cardinality(B \cup W) = Cardinality(B) + Cardinality(W) - Cardinality(B \cap W)
    BY <1>1, FS_Union
  <2>2. Cardinality(B \cap W) \in Nat
    BY <1>1, FS_Subset, FS_CardinalityType
  <2> QED BY <1>2, <2>1, <2>2
<1>4. e <= Cardinality(B \cup W) /\ Cardinality(B \cup W) \in Nat
  BY <1>3, FS_Subset, FS_CardinalityType
<1>5. W = {} => e <= h
  <2>1. W = {} => E \subseteq H
    OBVIOUS
  <2> QED BY <1>1, <2>1, FS_Subset
<1>6. w = 0 => W = {}
  BY <1>1, FS_EmptySet
<1>7. w <= Max({0, d})
  OBVIOUS
<1>8. d \in Int /\ d = s - b
  BY <1>2
<1> HIDE DEF b, h, w, e, d
<1>9. d \in Int /\ 0 \in Int
  BY <1>8
<1>10. Max({0, d}) \in {0, d}
  BY <1>9, MaxOf
<1>11. e <= b + w
  BY <1>2, <1>3, <1>4
<1>12. e <= s \/ e <= h
  BY <1>2, <1>5, <1>6, <1>7, <1>8, <1>10, <1>11
<1>13. s \in Int /\ h \in Int
  BY <1>2
<1>14. Max({s, h}) \in {s, h} /\ Max({s, h}) >= s /\ Max({s, h}) >= h
  BY <1>13, MaxOf
<1>15. e <= Max({s, h})
  BY <1>2, <1>12, <1>14
<1> QED BY <1>15 DEF e, h

(* What the parts say of the slots, each of them.                          *)
LEMMA PartsRespect ==
  ASSUME start' = start, start.early \subseteq Ticker, start.slots \in Nat, book' \in SUBSET Ticker,
         book' \ start.early \subseteq Held(start.hold),
         gaps' = 0 => \E W \in SUBSET Ticker : /\ Cardinality(W) <= Max({0, start.slots - Cardinality(book')})
                                               /\ Extra' \subseteq book' \cup W
  PROVE  SlotsRespected'
<1> SUFFICES ASSUME gaps' = 0
             PROVE  Cardinality(Extra') <= Max({start.slots, Cardinality(Held(start.hold))})
  BY DEF SlotsRespected, Extra
<1>1. PICK W \in SUBSET Ticker : /\ Cardinality(W) <= Max({0, start.slots - Cardinality(book')})
                                 /\ Extra' \subseteq book' \cup W
  OBVIOUS
<1>2. /\ Extra' \in SUBSET Ticker /\ Extra' \cap start.early = {}
      /\ Held(start.hold) \in SUBSET Ticker
  BY DEF Extra, Positions, Held
<1> DEFINE E == Extra'
           H == Held(start.hold)
           B == book'
           s == start.slots
           early == start.early
<1>3. /\ B \in SUBSET Ticker /\ H \in SUBSET Ticker /\ E \in SUBSET Ticker /\ s \in Nat
      /\ B \ early \subseteq H /\ E \cap early = {} /\ E \subseteq B \cup W
      /\ Cardinality(W) <= Max({0, s - Cardinality(B)})
  BY <1>1, <1>2
<1> HIDE DEF E, H, B, s, early
<1>4. Cardinality(E) <= Max({s, Cardinality(H)})
  BY <1>3, FitsSlots
<1> QED BY <1>4 DEF E, H, s

(* No slot is needed for no target.                                        *)
LEMMA NoTarget ==
  ASSUME NEW B \in SUBSET Ticker, NEW s \in Nat
  PROVE  {} \in SUBSET Ticker /\ Cardinality({}) <= Max({0, s - Cardinality(B)})
<1> DEFINE d == s - Cardinality(B)
<1>1. d \in Int
  BY AccountAssumption, FS_Subset, FS_CardinalityType
<1> HIDE DEF d
<1>2. d \in Int /\ 0 \in Int
  BY <1>1
<1>3. Max({0, d}) >= 0 /\ Max({0, d}) \in {0, d}
  BY <1>2, MaxOf
<1>4. Cardinality({}) = 0
  BY FS_EmptySet
<1> QED BY <1>2, <1>3, <1>4 DEF d

(* Fewer positions need no more slots.                                     *)
LEMMA FewerPositions ==
  ASSUME AccountOK, SlotsRespected, start' = start, Extra' \subseteq Extra, gaps' = 0 => gaps = 0
  PROVE  SlotsRespected'
<1> SUFFICES ASSUME gaps' = 0
             PROVE  Cardinality(Extra') <= Max({start.slots, Cardinality(Held(start.hold))})
  BY DEF SlotsRespected, Extra
<1> DEFINE m == Max({start.slots, Cardinality(Held(start.hold))})
<1>1. Cardinality(Extra) <= m
  BY DEF SlotsRespected, Extra
<1>2. IsFiniteSet(Extra)
  <2>1. Extra \subseteq Ticker
    BY DEF Extra, Positions, Held
  <2> QED BY <2>1, AccountAssumption, FS_Subset
<1>3. Cardinality(Extra') <= Cardinality(Extra) /\ Cardinality(Extra) \in Nat /\ Cardinality(Extra') \in Nat
  BY <1>2, FS_Subset, FS_CardinalityType
<1>4. m \in Int
  <2> DEFINE s == start.slots
             h == Cardinality(Held(start.hold))
  <2>1. Held(start.hold) \subseteq Ticker
    BY DEF Held
  <2>2. s \in Nat /\ h \in Nat
    BY <2>1, AccountAssumption, AccountTypes, FS_Subset, FS_CardinalityType
  <2>3. s \in Int /\ h \in Int
    BY <2>2
  <2> HIDE DEF s, h
  <2>4. Max({s, h}) \in {s, h}
    BY <2>3, MaxOf
  <2> QED BY <2>3, <2>4 DEF s, h
<1> HIDE DEF m
<1>5. Cardinality(Extra') <= m
  BY <1>1, <1>3, <1>4
<1> QED BY <1>5 DEF m

(* What the sales tell the buys.                                           *)
LEMMA SellBook ==
  ASSUME SellStep
  PROVE  \/ pc = "start" /\ pc' = "started" /\ Loads /\ book' = book
         \/ pc \notin {"start", "started"} /\ book' = book
         \/ pc # "start" /\ book' = Held(Holdings)
<1>1. CASE Start
  BY <1>1, ValidatedLoads DEF Start, decided
<1>2. CASE ReadHoldings
  BY <1>2 DEF ReadHoldings
<1>3. CASE EndSales
  BY <1>3 DEF EndSales, decided
<1>4. CASE Weigh \/ Reduced \/ LoadAgain \/ TakeRebalanced \/ Closed \/ ReadOpen
  BY <1>4 DEF Weigh, Reduced, LoadAgain, TakeRebalanced, Closed, ReadOpen, decided
<1>5. CASE CheckSale \/ CompareHoldings \/ AllSeen \/ AwaitCash
  BY <1>5 DEF CheckSale, CompareHoldings, AllSeen, AwaitCash, decided
<1>6. ASSUME NEW t \in Ticker, Reduce(t) \/ Keep(t) \/ SellPart(t) \/ SellAll(t)
      PROVE  pc \notin {"start", "started"} /\ book' = book
  BY <1>6 DEF Reduce, Keep, SellPart, SellAll, decided
<1> QED BY <1>1, <1>2, <1>3, <1>4, <1>5, <1>6 DEF SellStep

LEMMA SellSlots ==
  ASSUME AccountSound, SellsOK, Staged, Slots, SellStep, UNCHANGED <<buyvars, start>>
  PROVE  Slots'
<1>1. pc \in PreBuy /\ pc' \in PreBuy
  BY SellStage DEF PreBuy
<1>2. /\ UNCHANGED <<hold, liveBuy>> /\ (blocked => blocked') /\ gaps' >= gaps /\ gaps' \in Nat
      /\ AccountSound'
  BY SellSound
<1>3. /\ AccountOK /\ gaps \in Nat /\ blocked \in BOOLEAN /\ start.early \subseteq Ticker /\ start.slots \in Nat
      /\ hold \in [Ticker -> Nat] /\ liveBuy \in [Ticker -> Nat] /\ seen.hold \in [Ticker -> Nat]
  BY AccountTypes DEF AccountSound
<1>4. Extra' = Extra
  BY <1>2 DEF Extra, Positions
<1>5. gaps' = 0 => gaps = 0
  BY <1>2, <1>3
<1>6. PreSlots
  BY <1>1 DEF Slots
<1>7. ASSUME Loads
      PROVE  /\ Held(seen'.hold) \ start.early \subseteq Held(start.hold)
             /\ gaps' = 0 /\ ~blocked' => seen'.ok /\ Extra \subseteq Held(seen'.hold)
  <2>1. \A t \in Ticker : seen'.hold[t] <= hold[t] /\ seen'.hold[t] \in Nat
    BY <1>7, LoadsFacts
  <2>2. Held(seen'.hold) \subseteq Held(hold)
    BY <1>3, <2>1 DEF Held
  <2>3. Held(hold) \ start.early = Extra
    BY <1>6 DEF PreSlots, Extra, Positions, Held
  <2>4. Held(seen'.hold) \ start.early \subseteq Held(start.hold)
    BY <1>6, <2>2, <2>3 DEF PreSlots
  <2>5. gaps' = 0 /\ ~blocked' => seen'.ok /\ Extra \subseteq Held(seen'.hold)
    <3> SUFFICES ASSUME gaps' = 0, ~blocked' PROVE seen'.ok /\ Extra \subseteq Held(seen'.hold)
      OBVIOUS
    <3>1. seen' = Account
      BY <1>7, LoadsFacts
    <3>2. seen'.ok /\ seen'.hold = hold
      BY <3>1 DEF Account
    <3> QED BY <2>3, <3>2
  <2> QED BY <2>4, <2>5
<1>8. ASSUME UNCHANGED known, pc # "start"
      PROVE  /\ Held(seen'.hold) \ start.early \subseteq Held(start.hold)
             /\ gaps' = 0 /\ ~blocked' => seen'.ok /\ Extra \subseteq Held(seen'.hold)
  <2>1. seen' = seen /\ blocked' = blocked /\ gaps' = gaps
    BY <1>8 DEF known
  <2> QED BY <1>6, <1>8, <2>1 DEF PreSlots
<1>9. Loads \/ UNCHANGED known
  <2>1. ASSUME NEW t \in Ticker, NEW n \in Nat, Orders("sell", t, n) PROVE UNCHANGED known
    BY <2>1 DEF Orders, Sends
  <2>2. Still => UNCHANGED known
    BY DEF Still
  <2> QED BY <2>1, <2>2, SellClass
<1>10. /\ Held(seen'.hold) \ start.early \subseteq Held(start.hold)
       /\ gaps' = 0 /\ ~blocked' /\ pc' # "start" => seen'.ok /\ Extra \subseteq Held(seen'.hold)
  <2>1. CASE Loads
    BY <1>7, <2>1
  <2>2. CASE UNCHANGED known /\ pc # "start"
    BY <1>8, <2>2
  <2>3. pc = "start" => Loads
    BY SellBook
  <2> QED BY <1>9, <2>1, <2>2, <2>3
<1>11. Held(Holdings) \subseteq Held(seen.hold) /\ (seen.ok => Held(Holdings) = Held(seen.hold))
  BY <1>3, ReadFacts DEF Held, Holdings, Holding
<1>12. gaps' = 0 /\ ~blocked' /\ pc' \notin {"start", "started"} => Extra \subseteq book'
  <2>1. gaps' = 0 /\ ~blocked' => gaps = 0 /\ ~blocked
    BY <1>2, <1>5
  <2> QED BY <1>6, <1>11, <2>1, SellBook DEF PreSlots
<1>13. book' \ start.early \subseteq Held(start.hold)
  BY <1>6, <1>11, SellBook DEF PreSlots, Slots
<1>14. PreSlots'
  BY <1>2, <1>4, <1>6, <1>10, <1>12 DEF PreSlots
<1>15. SlotsRespected'
  BY <1>3, <1>4, <1>5, FewerPositions DEF Slots
<1> QED BY <1>1, <1>13, <1>14, <1>15 DEF Slots, PreBuy, SellPhase, RebuyPhase, RoundPhase

LEMMA OutsideSlots ==
  ASSUME AccountSound, Slots, Outside PROVE Slots'
<1>1. /\ UNCHANGED <<start, pc, book, targets, failed, eff, seen, blocked, gaps>>
      /\ Positions' \subseteq Positions /\ \A t \in Ticker : liveBuy'[t] <= liveBuy[t]
  BY DEF Outside
<1>2. AccountOK /\ liveBuy \in [Ticker -> Nat]
  BY AccountTypes DEF AccountSound
<1>3. liveBuy' \in [Ticker -> Nat]
  BY DEF Outside, AccountSound, AccountOK, Share
<1>4. Extra' \subseteq Extra
  BY <1>1 DEF Extra
<1>5. PreSlots => PreSlots'
  <2>1. ASSUME NEW t \in Ticker, liveBuy[t] = 0 PROVE liveBuy'[t] = 0
    BY <1>1, <1>2, <1>3, <2>1
  <2> QED BY <1>1, <1>4, <2>1 DEF PreSlots
<1>6. RebuySlots => RebuySlots'
  BY <1>1, <1>4 DEF RebuySlots
<1>7. RoundSlots => RoundSlots'
  BY <1>1, <1>4 DEF RoundSlots
<1>8. SlotsRespected'
  BY <1>1, <1>2, <1>4, FewerPositions DEF Slots
<1> QED BY <1>1, <1>5, <1>6, <1>7, <1>8 DEF Slots

(* A buy adds the plan in hand to the positions, or nothing.               *)
LEMMA BuyExtra ==
  ASSUME AccountSound, BuysOK, Staged, BuyStep, UNCHANGED start
  PROVE  Extra' = Extra \/ (queue # <<>> /\ Extra' \subseteq Extra \cup {Top})
<1>1. UNCHANGED hold /\ liveBuy \in [Ticker -> Nat]
  BY BuySound, AccountTypes DEF AccountSound
<1>2. CASE Still \/ Loads
  BY <1>1, <1>2, QuietTaken DEF Extra, Positions
<1>3. ASSUME queue # <<>>, Top \in Ticker, NEW n \in Nat, Orders("buy", Top, n)
      PROVE  queue # <<>> /\ Extra' \subseteq Extra \cup {Top}
  <2>1. PICK answered \in BOOLEAN, m \in Nat, k \in Nat : Sends("buy", Top, n, answered, m, k)
    BY <1>3 DEF Orders
  <2>2. liveBuy' = [liveBuy EXCEPT ![Top] = @ + m]
    BY <2>1 DEF Sends
  <2>3. \A t \in Ticker \ {Top} : liveBuy'[t] = liveBuy[t]
    BY <1>1, <2>2
  <2> QED BY <1>1, <1>3, <2>3 DEF Extra, Positions, Held
<1> QED BY <1>2, <1>3, BuyClass

(* The extra buys may count the slots again.                               *)
LEMMA BuyEff ==
  ASSUME BuyStep, pc \in RebuyPhase, pc' \in RebuyPhase
  PROVE  eff' = eff \/ eff' = EffectiveSlots(remaining')
<1>1. CASE Gated \/ OpenBuys \/ StartBatch \/ SyncRebuy
  BY <1>1 DEF Gated, OpenBuys, StartBatch, SyncRebuy, buyvars, RebuyPhase
<1>2. CASE SizeRebuy \/ LimitRebuy \/ CheckRebuy \/ SpentRebuy \/ Again1
  BY <1>2 DEF SizeRebuy, LimitRebuy, CheckRebuy, SpentRebuy, Again1, buyvars
<1>3. CASE FallBack("fallback1", "market1") \/ FallBack("fallback2", "market2") \/ Market1 \/ Market2
  BY <1>3 DEF FallBack, Market1, Market2, MarketRebuy
<1>4. CASE StartRounds
  BY <1>4 DEF StartRounds, Next1, RebuyPhase
<1>5. CASE SyncPlan \/ TakePlan \/ SizePlan \/ LimitOrder \/ Placed \/ LateFill
  BY <1>5 DEF SyncPlan, TakePlan, SizePlan, LimitOrder, Placed, LateFill, RebuyPhase
<1>6. CASE MarketableOrder \/ Crossed \/ BeforeMarket \/ MarketOrder \/ Poll \/ Confirm
  BY <1>6 DEF MarketableOrder, Crossed, BeforeMarket, MarketOrder, Poll, Confirm, RebuyPhase
<1>7. CASE KeepBought \/ EndRound
  BY <1>7 DEF KeepBought, EndRound, RebuyPhase
<1> QED BY <1>1, <1>2, <1>3, <1>4, <1>5, <1>6, <1>7 DEF BuyStep

(* The rounds never go back to a plan they are done with.                  *)
LEMMA BuyLists ==
  ASSUME BuysOK, Staged, Planned, BuyStep, pc \in RoundPhase
  PROVE  Listed(targets') \cup Listed(failed') \subseteq Listed(targets) \cup Listed(failed)
<1>1. /\ RoundLists(targets, queue, failed)
      /\ targets \in Seq(Ticker) /\ queue \in Seq(Ticker) /\ failed \in Seq(Ticker)
  BY BuyTypes DEF Planned
<1>2. pc # "next" => queue # <<>>
  BY DEF Staged, BuyPhase, RebuyPhase, RoundPhase
<1>3. queue # <<>> => /\ Listed(Append(failed, Top)) = Listed(failed) \cup {Top} /\ Top \in Listed(targets)
                      /\ Listed(Without(targets, Top)) = Listed(targets) \ {Top}
  <2> SUFFICES ASSUME queue # <<>>
               PROVE  /\ Listed(Append(failed, Top)) = Listed(failed) \cup {Top} /\ Top \in Listed(targets)
                      /\ Listed(Without(targets, Top)) = Listed(targets) \ {Top}
    OBVIOUS
  <2>1. Top \in Listed(targets)
    BY <1>1, TailFacts DEF RoundLists, Top
  <2> QED BY <1>1, <2>1, RoundMiss, RoundKeep DEF Top
<1>4. CASE SyncPlan \/ TakePlan \/ Placed \/ LateFill
  BY <1>4 DEF SyncPlan, TakePlan, Placed, LateFill, buyvars, plan
<1>5. CASE MarketableOrder \/ Crossed \/ BeforeMarket \/ Poll
  BY <1>5 DEF MarketableOrder, Crossed, BeforeMarket, Poll, buyvars, plan
<1>6. CASE SizePlan \/ LimitOrder \/ MarketOrder \/ Confirm
  <2>1. UNCHANGED targets /\ (failed' = failed \/ failed' = Append(failed, Top)) /\ pc # "next"
    BY <1>6 DEF SizePlan, LimitOrder, MarketOrder, Confirm, Missed, NoMiss
  <2> QED BY <1>2, <1>3, <2>1
<1>7. CASE KeepBought
  <2>1. targets' = Without(targets, Top) /\ UNCHANGED failed /\ pc # "next"
    BY <1>7 DEF KeepBought
  <2> QED BY <1>2, <1>3, <2>1
<1>8. CASE EndRound
  <2>1. targets' \in {targets, failed} /\ failed' \in {failed, <<>>}
    BY <1>8 DEF EndRound, buyvars, plan
  <2> QED BY <2>1, EmptyList
<1>9. CASE \/ Gated \/ OpenBuys \/ StartBatch \/ SyncRebuy \/ SizeRebuy \/ LimitRebuy \/ CheckRebuy
           \/ SpentRebuy \/ FallBack("fallback1", "market1") \/ Market1 \/ Again1
           \/ FallBack("fallback2", "market2") \/ Market2 \/ StartRounds
  BY <1>9 DEF Gated, OpenBuys, StartBatch, SyncRebuy, SizeRebuy, LimitRebuy, CheckRebuy, SpentRebuy,
              FallBack, Market1, Market2, MarketRebuy, Again1, StartRounds, RoundPhase
<1> QED BY <1>4, <1>5, <1>6, <1>7, <1>8, <1>9 DEF BuyStep

LEMMA BuySlots ==
  ASSUME AccountSound, SellsOK, BuysOK, Staged, Planned, Slots, BuyStep, UNCHANGED start, BuysOK'
  PROVE  Slots'
<1>1. /\ \/ pc = "gates" /\ pc' \in {"over", "first"}
         \/ pc \in RebuyPhase /\ pc' \in RebuyPhase \ {"first"}
         \/ StartRounds /\ pc = "rebuy" /\ pc' = "next"
         \/ pc \in RoundPhase /\ pc' \in RoundPhase \cup {"over"}
      /\ book' = book
  BY BuyStage
<1>2. AccountOK /\ gaps \in Nat /\ start.early \subseteq Ticker /\ start.slots \in Nat
  BY AccountTypes DEF AccountSound
<1>3. gaps' \in Nat /\ gaps' >= gaps
  BY BuySound
<1>4. gaps' = 0 => gaps = 0
  BY <1>2, <1>3
<1>5. book \in SUBSET Ticker /\ money \in Nat /\ remaining' \in Nat
  BY SellTypes DEF BuysOK, Share
<1>6. Extra' = Extra \/ (queue # <<>> /\ Extra' \subseteq Extra \cup {Top})
  BY BuyExtra
<1>7. book' \ start'.early \subseteq Held(start'.hold)
  BY <1>1 DEF Slots
<1>8. ASSUME gaps' = 0 => \E W \in SUBSET Ticker :
                 /\ Cardinality(W) <= Max({0, start.slots - Cardinality(book')})
                 /\ Extra' \subseteq book' \cup W
      PROVE  SlotsRespected'
  BY <1>1, <1>2, <1>5, <1>7, <1>8, PartsRespect
<1>9. CASE pc = "gates" /\ pc' \in {"over", "first"}
  <2>1. queue = <<>> /\ PreSlots
    BY <1>9 DEF Planned, Slots, PreBuy
  <2>2. Extra' = Extra
    BY <1>6, <2>1
  <2>3. SlotsRespected'
    BY <1>2, <1>4, <2>2, FewerPositions DEF Slots
  <2>4. pc' = "first" => RebuySlots'
    <3> SUFFICES ASSUME pc' = "first" PROVE RebuySlots'
      OBVIOUS
    <3>1. OpenBuys
      BY <1>9 DEF BuyStep, Gated, OpenBuys, StartBatch, SyncRebuy, SizeRebuy, LimitRebuy, CheckRebuy,
                  SpentRebuy, FallBack, Market1, Market2, MarketRebuy, Again1, StartRounds, SyncPlan, TakePlan,
                  SizePlan, LimitOrder, Placed, LateFill, MarketableOrder, Crossed, BeforeMarket, MarketOrder,
                  Poll, Confirm, KeepBought, EndRound, Next1
    <3>2. ~blocked /\ eff' = EffectiveSlots(money)
      BY <3>1 DEF OpenBuys
    <3>3. eff' <= start'.slots
      BY <1>2, <1>5, <3>2, SlotsOf
    <3>4. gaps' = 0 => Extra' \subseteq book'
      BY <1>1, <1>4, <1>9, <2>1, <2>2, <3>2 DEF PreSlots
    <3> QED BY <3>3, <3>4 DEF RebuySlots
  <2> QED BY <1>7, <1>9, <2>3, <2>4 DEF Slots, PreBuy, SellPhase, RebuyPhase, RoundPhase
<1>10. CASE pc \in RebuyPhase /\ pc' \in RebuyPhase \ {"first"}
  <2>1. RebuySlots /\ RebuyLists(targets, queue, failed, new, book)
    BY <1>10 DEF Slots, Planned
  <2>2. eff' <= start'.slots
    <3>1. CASE eff' = eff
      BY <2>1, <3>1 DEF RebuySlots
    <3>2. CASE eff' = EffectiveSlots(remaining')
      BY <1>2, <1>5, <3>2, SlotsOf
    <3> QED BY <1>10, <3>1, <3>2, BuyEff
  <2>3. queue # <<>> => Top \in book
    <3>1. queue # <<>> => Top \in Listed(queue)
      BY <2>1, BuyTypes, TailFacts DEF RebuyLists, Top
    <3> QED BY <2>1, <3>1 DEF RebuyLists
  <2>4. gaps' = 0 => Extra' \subseteq book'
    BY <1>1, <1>4, <1>6, <2>1, <2>3 DEF RebuySlots
  <2>5. {} \in SUBSET Ticker /\ Cardinality({}) <= Max({0, start.slots - Cardinality(book)})
    BY <1>2, <1>5, NoTarget
  <2>6. SlotsRespected'
    BY <1>1, <1>8, <2>4, <2>5
  <2> QED BY <1>7, <1>10, <2>2, <2>4, <2>6
          DEF Slots, RebuySlots, PreBuy, SellPhase, RebuyPhase, RoundPhase
<1>11. CASE StartRounds /\ pc = "rebuy" /\ pc' = "next"
  <2>1. RebuySlots /\ RebuyLists(targets, queue, failed, new, book)
    BY <1>11 DEF Slots, Planned, RebuyPhase
  <2>2. queue = <<>> /\ targets' = Targets /\ failed' = <<>>
    BY <1>11, <2>1 DEF StartRounds, RebuyLists
  <2>3. /\ Targets \in Seq(Ticker) /\ Cardinality(Listed(Targets)) <= Max({0, eff - Cardinality(book)})
        /\ Cardinality(book) \in Nat
    BY <2>1, AccountAssumption, TargetsFacts DEF RebuyLists
  <2> DEFINE W == Listed(Targets)
             w == Cardinality(W)
             b == Cardinality(book)
             d == eff - b
             s == start.slots
             x == s - b
  <2>4. W \in SUBSET Ticker
    <3>1. \A i \in DOMAIN Targets : Targets[i] \in Ticker
      BY <2>3
    <3> QED BY <3>1 DEF Listed
  <2>5. w \in Nat
    BY <2>4, AccountAssumption, FS_Subset, FS_CardinalityType
  <2>6. eff \in Nat /\ eff <= s /\ s \in Nat /\ b \in Nat
    BY <1>2, <2>1, <2>3, BuyTypes DEF RebuySlots
  <2>7. w <= Max({0, d})
    BY <2>3
  <2>8. d \in Int /\ x \in Int /\ d <= x /\ 0 \in Int
    BY <2>6
  <2> HIDE DEF W, w, b, d, s, x
  <2>9. Max({0, d}) \in {0, d} /\ Max({0, x}) >= 0 /\ Max({0, x}) >= x /\ Max({0, x}) \in {0, x}
    BY <2>8, MaxOf
  <2>10. w <= Max({0, x})
    BY <2>5, <2>7, <2>8, <2>9
  <2>11. W \in SUBSET Ticker /\ Cardinality(W) <= Max({0, start'.slots - Cardinality(book')})
    BY <1>1, <2>4, <2>10 DEF w, x, s, b
  <2>12. gaps' = 0 => Extra' \subseteq book' \cup W
    BY <1>1, <1>4, <1>6, <2>1, <2>2 DEF RebuySlots
  <2>13. Listed(targets') \cup Listed(failed') \subseteq W
    BY <2>2, EmptyList DEF W
  <2>14. RoundSlots'
    BY <2>11, <2>12, <2>13 DEF RoundSlots
  <2>15. SlotsRespected'
    BY <1>8, <2>11, <2>12
  <2> QED BY <1>7, <1>11, <2>14, <2>15 DEF Slots, PreBuy, SellPhase, RebuyPhase, RoundPhase
<1>12. CASE pc \in RoundPhase /\ pc' \in RoundPhase \cup {"over"}
  <2>1. RoundSlots /\ RoundLists(targets, queue, failed)
    BY <1>12 DEF Slots, Planned
  <2>2. PICK W \in SUBSET Ticker :
            /\ Cardinality(W) <= Max({0, start.slots - Cardinality(book)})
            /\ Listed(targets) \cup Listed(failed) \subseteq W
            /\ gaps = 0 => Extra \subseteq book \cup W
    BY <2>1 DEF RoundSlots
  <2>3. queue # <<>> => Top \in W
    <3>1. queue # <<>> => Top \in Listed(queue)
      BY <2>1, BuyTypes, TailFacts DEF RoundLists, Top
    <3> QED BY <2>1, <2>2, <3>1 DEF RoundLists
  <2>4. gaps' = 0 => Extra' \subseteq book' \cup W
    BY <1>1, <1>4, <1>6, <2>2, <2>3
  <2>5. Listed(targets') \cup Listed(failed') \subseteq W
    BY <1>12, <2>2, BuyLists
  <2>6. Cardinality(W) <= Max({0, start'.slots - Cardinality(book')})
    BY <1>1, <2>2
  <2>7. RoundSlots'
    BY <2>4, <2>5, <2>6 DEF RoundSlots
  <2>8. SlotsRespected'
    BY <1>8, <2>4, <2>6
  <2> QED BY <1>7, <1>12, <2>7, <2>8 DEF Slots, PreBuy, SellPhase, RebuyPhase, RoundPhase
<1> QED BY <1>1, <1>9, <1>10, <1>11, <1>12

-----------------------------------------------------------------------------
(* Cash and plans beside the buys.                                         *)
LEMMA SellCash ==
  ASSUME AccountSound, SellsOK, Staged, ReserveKept, Planned, SellStep, UNCHANGED <<buyvars, start>>
  PROVE  CashKnown' /\ ReserveKept' /\ Planned'
<1>1. pc \in PreBuy /\ pc' \in PreBuy
  BY SellStage DEF PreBuy
<1>2. AccountSound' /\ UNCHANGED cash /\ premium <= premium' /\ lost' >= lost /\ cash \in Nat
  BY SellSound, AccountTypes DEF AccountSound
<1>3. cash <= cash'
  BY <1>2
<1>4. ReserveKept'
  BY <1>2, <1>3, ReserveStays
<1>5. CashKnown'
  BY <1>1 DEF CashKnown, PreBuy, SellPhase
<1>6. UNCHANGED <<queue, failed>>
  BY DEF buyvars, plan
<1>7. Planned'
  BY <1>1, <1>6 DEF Planned, PreBuy, SellPhase, RebuyPhase, RoundPhase
<1> QED BY <1>4, <1>5, <1>7

LEMMA OutsideCash ==
  ASSUME AccountSound, BuysOK, CashKnown, ReserveKept, Outside
  PROVE  CashKnown' /\ ReserveKept'
<1>1. /\ AccountSound' /\ UNCHANGED <<start, pc, seen, lost, q, premium>> /\ cash <= cash'
      /\ (Answered' <=> Answered)
  BY DEF Outside
<1>2. cash \in Nat /\ premium \in Nat /\ seen.cash \in Nat /\ Reserve \in Nat /\ q \in Nat /\ lost \in Nat
  BY AccountTypes, BuyTypes DEF AccountSound
<1>3. cash' \in Nat
  BY <1>1 DEF AccountSound, AccountOK, Share
<1>4. lost' >= lost /\ premium <= premium'
  BY <1>1, <1>2
<1>5. ReserveKept'
  BY <1>1, <1>4, ReserveStays
<1>6. seen.cash <= cash => seen.cash <= cash'
  BY <1>1, <1>2, <1>3
<1>7. q + Reserve <= cash => q + Reserve <= cash'
  BY <1>1, <1>2, <1>3
<1>8. CashKnown'
  BY <1>1, <1>6, <1>7 DEF CashKnown
<1> QED BY <1>5, <1>8

-----------------------------------------------------------------------------
(* The inductive invariant.                                                *)
LEMMA InitTypes ==
  ASSUME Init PROVE TypesOK
<1>1. /\ start.hold \in [Ticker -> Nat] /\ start.early \subseteq Ticker /\ start.cash \in Nat
      /\ start.slots \in Nat /\ MaxEvents \in Nat /\ Reserve \in Nat
  BY AccountAssumption DEF Init
<1>2. None \in [Ticker -> Nat] /\ \A t \in Ticker : None[t] = 0
  BY DEF None
<1>3. liveBuy \in [Ticker -> Nat]
  BY DEF Init
<1>4. seen \in [ok : BOOLEAN, hold : [Ticker -> Nat], sell : [Ticker -> Nat], cash : Nat]
  BY <1>2 DEF Init, Failed
<1>5. AccountOK
  <2>1. \A t \in Ticker : liveSell[t] <= hold[t]
    BY <1>1, <1>2 DEF Init
  <2>2. {lost, fails, gaps, risks} \subseteq 0 .. MaxEvents
    BY <1>1 DEF Init
  <2> QED BY <1>1, <1>2, <1>3, <1>4, <2>1, <2>2 DEF Init, AccountOK, Share
<1>6. SellsOK
  <2>1. {hs, recSold} \subseteq [Ticker -> Nat] /\ {book, todo, rowSell, open} \subseteq SUBSET Ticker
    BY <1>2 DEF Init
  <2>2. money \in Nat /\ tries \in 0 .. Tries /\ cur \in Ticker \cup {NoTicker}
    BY TriesAssumption DEF Init
  <2>3. {adjusted, executed} \subseteq BOOLEAN
    BY Zenon DEF Init
  <2> QED BY <2>1, <2>2, <2>3 DEF SellsOK, Share
<1>7. BuysOK
  <2>1. {targets, queue, failed, new} \subseteq Seq(Ticker) /\ loose \subseteq Ticker
    BY DEF Init
  <2>2. round \in 0 .. 3 /\ {remaining, q, pre} \subseteq Nat /\ eff \in Nat
    BY DEF Init
  <2>3. success \in BOOLEAN
    BY Zenon DEF Init
  <2> QED BY <2>1, <2>2, <2>3 DEF BuysOK, Share
<1>8. Events <= MaxEvents
  BY <1>1 DEF Init, Events
<1>9. Staged
  BY DEF Init, Staged, PreBuy, SellPhase, BuyPhase, RebuyPhase, RoundPhase
<1>10. OrderLive
  BY DEF Init, OrderLive, Answered
<1> QED BY <1>5, <1>6, <1>7, <1>8, <1>9, <1>10 DEF TypesOK, TypeOK

LEMMA InitSlots ==
  ASSUME Init, AccountOK PROVE Slots
<1>1. /\ start.hold \in [Ticker -> Nat] /\ start.early \subseteq Ticker /\ start.slots \in Nat
  BY AccountTypes
<1>2. \A t \in Ticker \ start.early : liveBuy[t] = 0
  BY DEF Init
<1>3. Extra \subseteq Held(start.hold)
  BY <1>2 DEF Init, Extra, Positions, Held
<1>4. Held(seen.hold) = {}
  BY DEF Init, Failed, None, Held
<1>5. PreSlots
  BY <1>2, <1>3, <1>4 DEF PreSlots, Init
<1>6. SlotsRespected
  <2> DEFINE B == Held(start.hold)
             s == start.slots
             early == start.early
  <2>1. /\ B \in SUBSET Ticker /\ s \in Nat /\ Extra \in SUBSET Ticker
        /\ B \ early \subseteq B /\ Extra \cap early = {} /\ Extra \subseteq B \cup {}
    BY <1>1, <1>3 DEF Held, Extra, Positions
  <2> HIDE DEF B, s, early
  <2>2. {} \in SUBSET Ticker /\ Cardinality({}) <= Max({0, s - Cardinality(B)})
    BY <2>1, NoTarget
  <2>3. Cardinality(Extra) <= Max({s, Cardinality(B)})
    BY <2>1, <2>2, FitsSlots
  <2> QED BY <2>3 DEF SlotsRespected, Extra, B, s
<1> QED BY <1>5, <1>6 DEF Slots, Init, PreBuy, SellPhase, RebuyPhase, RoundPhase

LEMMA InitInv ==
  ASSUME Init PROVE IInv
<1>1. TypesOK /\ AccountOK
  BY InitTypes DEF TypesOK, TypeOK
<1>2. SellsKnown
  BY DEF Init, SellsKnown
<1>3. RecordedOnce
  <2>1. \A t \in Ticker : None[t] = 0 /\ hold[t] \in Nat
    BY <1>1, AccountTypes DEF None
  <2>2. \A t \in Ticker : hs[t] <= hold[t] + sold[t] /\ seen.hold[t] <= hold[t] + sold[t] /\ recSold[t] <= sold[t]
    BY <2>1 DEF Init, Failed
  <2> QED BY <2>1, <2>2 DEF Init, RecordedOnce, SellPhase
<1>4. CashKnown
  BY DEF Init, CashKnown
<1>5. ReserveKept
  <2> DEFINE c == start.cash
  <2>1. c \in Int /\ Reserve \in Int
    BY <1>1, AccountTypes
  <2> HIDE DEF c
  <2>2. Min({Reserve, c}) <= c /\ Min({Reserve, c}) \in {Reserve, c}
    BY <2>1, MinOf
  <2>3. cash = c
    BY DEF Init, c
  <2>4. cash + premium >= Min({Reserve, c})
    BY <2>1, <2>2, <2>3 DEF Init
  <2> QED BY <2>4 DEF ReserveKept, c
<1>6. Planned
  BY DEF Init, Planned, PreBuy, SellPhase, RebuyPhase, RoundPhase
<1>7. Amounts
  <2>1. MaxShares \in Nat
    BY BuysAssumption
  <2>2. \A t \in Ticker : Taken(t) = 0
    <3> TAKE t \in Ticker
    <3> DEFINE e == IF t \in start.early THEN 1 ELSE 0
    <3>1. hold[t] \in Nat /\ e \in Nat
      BY <1>1, AccountTypes
    <3>2. hold[t] = start.hold[t] /\ liveBuy[t] = e /\ sold[t] = 0
      BY DEF Init, None
    <3>3. Taken(t) = hold[t] + sold[t] + liveBuy[t] - start.hold[t] - e
      BY DEF Taken
    <3> HIDE DEF e
    <3> QED BY <3>1, <3>2, <3>3
  <2>3. \A t \in Ticker : Taken(t) <= 0 /\ Taken(t) <= MaxShares
    BY <2>1, <2>2
  <2> QED BY <2>1, <2>3 DEF Init, Amounts, Unbought
<1>8. Slots
  BY <1>1, InitSlots
<1>9. oversold = {}
  BY DEF Init
<1> QED BY <1>1, <1>2, <1>3, <1>4, <1>5, <1>6, <1>7, <1>8, <1>9 DEF IInv

LEMMA StutterInv ==
  ASSUME IInv, UNCHANGED vars PROVE IInv'
<1>1. /\ UNCHANGED <<start, hold, liveBuy, liveSell, cash, premium, sold, seen, blocked, fails, gaps, ord, lost, risks,
                     changed, oversold>>
      /\ UNCHANGED <<pc, hs, todo, cur, open, adjusted, book, money, rowSell, executed, tries, recSold>>
      /\ UNCHANGED <<targets, queue, failed, round, success, new, q, pre, eff, remaining, loose>>
  BY DEF vars, account, kis, known, sellvars, selling, decided, buyvars, plan, hand
<1>2. TypesOK'
  BY <1>1 DEF IInv, TypesOK, TypeOK, AccountOK, SellsOK, BuysOK, Events, Staged, OrderLive, Answered
<1>3. SellsKnown' /\ oversold' = {} /\ RecordedOnce'
  BY <1>1 DEF IInv, SellsKnown, Known, Sellable, RecordedOnce, Answered
<1>4. CashKnown' /\ ReserveKept' /\ Planned'
  BY <1>1 DEF IInv, CashKnown, ReserveKept, Planned, Answered
<1>5. Amounts'
  BY <1>1 DEF IInv, Amounts, Unbought, Taken, Wanted, InHand, Spending, Top, Answered
<1>6. Slots'
  BY <1>1 DEF IInv, Slots, PreSlots, RebuySlots, RoundSlots, Extra, Positions, SlotsRespected
<1> QED BY <1>2, <1>3, <1>4, <1>5, <1>6 DEF IInv

LEMMA StepInv ==
  ASSUME IInv, Next PROVE IInv'
<1>1. /\ AccountSound /\ SellsOK /\ BuysOK /\ Staged /\ SellsKnown /\ oversold = {} /\ RecordedOnce
      /\ CashKnown /\ ReserveKept /\ Planned /\ Amounts /\ Slots
  BY DEF IInv, TypesOK, TypeOK, AccountSound
<1>2. ASSUME AccountSound', SellsOK', BuysOK', Staged', SellsKnown', oversold' = {}, RecordedOnce',
             CashKnown', ReserveKept', Planned', Amounts', Slots'
      PROVE  IInv'
  BY <1>2 DEF IInv, TypesOK, TypeOK, AccountSound
<1>3. CASE Sells
  <2>1. SellStep /\ UNCHANGED <<buyvars, start>>
    BY <1>3 DEF Sells
  <2>2. AccountSound'
    BY <1>1, <2>1, SellSound
  <2>3. SellsOK' /\ Staged'
    BY <1>1, <2>1, SellControl
  <2>4. BuysOK'
    BY <1>1, <2>1 DEF BuysOK, buyvars, plan, hand
  <2>5. SellsKnown' /\ oversold' = {}
    BY <1>1, <2>1, SellKnown
  <2>6. RecordedOnce'
    BY <1>1, <2>1, SellRecorded
  <2>7. CashKnown' /\ ReserveKept' /\ Planned'
    BY <1>1, <2>1, SellCash
  <2>8. Amounts'
    BY <1>1, <2>1, SellAmounts
  <2>9. Slots'
    BY <1>1, <2>1, SellSlots
  <2> QED BY <1>2, <2>2, <2>3, <2>4, <2>5, <2>6, <2>7, <2>8, <2>9
<1>4. CASE Buys
  <2>1. BuyStep /\ UNCHANGED start
    BY <1>4 DEF Buys
  <2>2. AccountSound' /\ oversold' = {}
    BY <1>1, <2>1, BuySound
  <2>3. SellsOK' /\ BuysOK' /\ Staged' /\ Planned'
    BY <1>1, <2>1, BuyControl
  <2>4. SellsKnown' /\ RecordedOnce'
    BY <1>1, <2>1, BuyLeavesSales
  <2>5. CashKnown' /\ ReserveKept'
    BY <1>1, <2>1, BuyCash
  <2>6. Amounts'
    BY <1>1, <2>1, BuyAmounts
  <2>7. Slots'
    BY <1>1, <2>1, <2>3, BuySlots
  <2> QED BY <1>2, <2>2, <2>3, <2>4, <2>5, <2>6, <2>7
<1>5. ASSUME Outside PROVE IInv'
  <2>1. AccountSound' /\ oversold' = {}
    BY <1>1, <1>5 DEF Outside
  <2>2. SellsOK' /\ BuysOK' /\ Staged' /\ Planned' /\ SellsKnown' /\ RecordedOnce'
    BY <1>1, <1>5, OutsideControl
  <2>3. CashKnown' /\ ReserveKept'
    BY <1>1, <1>5, OutsideCash
  <2>4. Amounts'
    BY <1>1, <1>5, OutsideAmounts
  <2>5. Slots'
    BY <1>1, <1>5, OutsideSlots
  <2> QED BY <1>2, <2>1, <2>2, <2>3, <2>4, <2>5
<1>6. CASE Broker
  BY <1>1, <1>5, <1>6, BrokerOutside
<1>7. CASE Risk
  BY <1>1, <1>5, <1>7, RiskOutside
<1> QED BY <1>3, <1>4, <1>6, <1>7 DEF Next

THEOREM Invariance == Spec => []IInv
<1>1. Init => IInv
  BY InitInv
<1>2. IInv /\ [Next]_vars => IInv'
  BY StepInv, StutterInv
<1> QED BY <1>1, <1>2, PTL DEF Spec

-----------------------------------------------------------------------------
(* What must hold, of any account and any plans                            *)

(* Every variable of the account, the sales and the buys has its type.     *)
THEOREM TypeCorrect == Spec => []TypeOK
<1>1. IInv => TypeOK
  BY DEF IInv, TypesOK
<1> QED BY <1>1, Invariance, PTL

(* _clamp_sell_qty and the loads before each batch of sales: the trader    *)
(* never asks KIS to sell more than is free to be sold, unless something   *)
(* took it since the snapshot was loaded.                                  *)
THEOREM NeverOversells == Spec => []OversellOnlyRaced
<1>1. IInv => OversellOnlyRaced
  BY DEF IInv, OversellOnlyRaced
<1> QED BY <1>1, Invariance, PTL

(* _enhanced_execution_check and the rows of the run: without a failed or  *)
(* incomplete snapshot no row says more was sold than was.                 *)
THEOREM RecordsOnlySales == Spec => []SalesRecordedHappened
<1>1. IInv => SalesRecordedHappened
  BY DEF IInv, RecordedOnce, SalesRecordedHappened
<1> QED BY <1>1, Invariance, PTL

(* _compute_effective_slots and _cap_buy_to_orderable: however many         *)
(* rounds, fallbacks and copies of the ladder it goes through, a run ends  *)
(* up with no more positions than there are slots or were before, and cuts *)
(* into the reserve by no more than the premium of one order.              *)
THEOREM LimitsKept == Spec => []BuyLimits
<1>1. IInv => BuyLimits
  BY DEF IInv, Slots, BuyLimits
<1> QED BY <1>1, Invariance, PTL

(* The ladder of orders, its fallbacks and the three rounds: of a ticker   *)
(* no more is bought in a run than one order is for, unless an answer was  *)
(* lost or an accepted order was given up on.                              *)
THEOREM OneOrderWorth == Spec => []BoughtAsPlanned
<1>1. IInv => BoughtAsPlanned
  BY DEF IInv, Amounts, BoughtAsPlanned
<1> QED BY <1>1, Invariance, PTL
=============================================================================
