------------------------ MODULE ScreenerSelectionProofs ------------------------
(***************************************************************************)
(* Proofs about ScreenerSelection, for a master of any length, any issuers *)
(* and sectors and any settings of ConfigType.                             *)
(*                                                                         *)
(* IInv is the invariant: the funnel recorded so far is the first stages   *)
(* in order, none starting from more stocks than the one before left; the  *)
(* candidates are WellChosen from the stocks that pass every test; the     *)
(* stages of the selection are Told, that is they say where the last stock *)
(* was lost; and the notes and the reason follow from both.  What a loop   *)
(* of the code computes (diversify_by_sector, sanitize_for_storage) is     *)
(* followed pass by pass: LoopExists and UpTo.                             *)
(***************************************************************************)
EXTENDS ScreenerSelection, FiniteSetTheorems, SequenceTheorems, WellFoundedInduction, TLAPS

(* What holds at 0 and goes from each number below n to the next one holds *)
(* up to n.                                                                *)
LEMMA UpTo ==
    ASSUME NEW P \in SUBSET Nat, NEW n \in Nat, 0 \in P,
           \A k \in 0 .. (n - 1) : k \in P => k + 1 \in P
    PROVE  \A k \in 0 .. n : k \in P
<1> DEFINE B == {k \in 0 .. n : k \notin P}
<1>1. SUFFICES ASSUME B # {} PROVE FALSE
  OBVIOUS
<1>2. PICK m \in B : \A k \in B : m <= k
  <2>1. B \in SUBSET Nat
    OBVIOUS
  <2> DEFINE R == OpToRel(<, Nat)
  <2>2. PICK m \in B : \A k \in B : <<k, m>> \notin R
    <3>1. IsWellFoundedOn(R, Nat)
      BY NatLessThanWellFounded
    <3> HIDE DEF R, B
    <3> QED BY <1>1, <2>1, <3>1, WFMin
  <2>3. \A k \in B : ~(k < m)
    BY <2>1, <2>2 DEF OpToRel
  <2> QED BY <2>1, <2>3
<1>3. m # 0 /\ m \in 0 .. n /\ m \notin P
  OBVIOUS
<1>4. m - 1 \in 0 .. (n - 1) /\ m - 1 \notin B
  BY <1>2, <1>3
<1>5. m - 1 \in P
  BY <1>4
<1> QED BY <1>3, <1>4, <1>5

(* A loop over 1 .. N, whose body is given as a function, has a result     *)
(* after every pass: g.                                                    *)
Steps(X, N, body) == body \in [(1 .. N) \X X -> X]
Loops(g, X, N, first, body) ==
    /\ g \in [0 .. N -> X] /\ g[0] = first
    /\ \A t \in 1 .. N : g[t] = body[<<t, g[t - 1]>>]

(* Such a loop always has its results: the list of diversify_by_sector     *)
(* after every stock, the rebuilt funnel after every stage.                *)
LEMMA LoopExists ==
    ASSUME NEW X, NEW N \in Nat, NEW first \in X, NEW body, Steps(X, N, body)
    PROVE  \E g : Loops(g, X, N, first, body)
<1> USE DEF Steps
<1> DEFINE Done(g, n) == Loops(g, X, n, first, body)
           P == {n \in Nat : \E g : Done(g, n)}
<1>1. 0 \in P
  <2>1. Done([t \in 0 .. 0 |-> first], 0)
    BY DEF Loops
  <2> HIDE DEF Done
  <2> QED BY <2>1
<1>2. ASSUME NEW n \in 0 .. (N - 1), n \in P PROVE n + 1 \in P
  <2>1. PICK g : Done(g, n)
    BY <1>2
  <2> DEFINE h == [t \in 0 .. (n + 1) |->
                      IF t <= n THEN g[t] ELSE body[<<n + 1, g[n]>>]]
  <2>2. g[n] \in X /\ n + 1 \in 1 .. N
    BY <2>1 DEF Loops
  <2>3. body[<<n + 1, g[n]>>] \in X
    BY <2>2
  <2>4. h \in [0 .. (n + 1) -> X]
    BY <2>1, <2>3 DEF Loops
  <2>5. h[0] = first
    BY <2>1 DEF Loops
  <2>6. \A t \in 1 .. (n + 1) : h[t] = body[<<t, h[t - 1]>>]
    <3> TAKE t \in 1 .. (n + 1)
    <3>1. CASE t = n + 1
      <4>1. /\ t \in 0 .. (n + 1) /\ ~(t <= n)
            /\ t - 1 \in 0 .. (n + 1) /\ t - 1 <= n /\ t - 1 = n
        BY <3>1
      <4>2. h[t] = body[<<n + 1, g[n]>>] /\ h[t - 1] = g[n]
        BY <4>1
      <4> HIDE DEF h
      <4> QED BY <3>1, <4>2
    <3>2. CASE t \in 1 .. n
      <4>1. /\ t \in 0 .. (n + 1) /\ t <= n
            /\ t - 1 \in 0 .. (n + 1) /\ t - 1 <= n
        BY <3>2
      <4>2. h[t] = g[t] /\ h[t - 1] = g[t - 1]
        BY <4>1
      <4> HIDE DEF h
      <4> QED BY <2>1, <3>2, <4>2 DEF Loops
    <3> QED BY <3>1, <3>2
  <2>7. Done(h, n + 1)
    BY <2>4, <2>5, <2>6 DEF Loops
  <2> HIDE DEF Done
  <2> QED BY <2>7
<1>3. N \in P
  <2> HIDE DEF P
  <2>1. P \in SUBSET Nat
    BY DEF P
  <2> QED BY <1>1, <1>2, <2>1, UpTo
<1> QED BY <1>3

(* After every stock, the list is what the loop of diversify_by_sector     *)
(* makes of the list before it.                                            *)
LEMMA TakingIs ==
    ASSUME NEW S, NEW top, Stocks \in Nat
    PROVE  /\ Taking(S, top)[0] = {}
           /\ \A t \in Stock :
                Taking(S, top)[t] =
                    IF t \in S /\ HasRoom(Taking(S, top)[t - 1], t, top)
                    THEN Taking(S, top)[t - 1] \cup {t}
                    ELSE Taking(S, top)[t - 1]
<1> DEFINE body == [p \in Stock \X SUBSET Stock |->
                       IF p[1] \in S /\ HasRoom(p[2], p[1], top)
                       THEN p[2] \cup {p[1]} ELSE p[2]]
           Loop(g) == [t \in 0 .. Stocks |->
                         IF t = 0 THEN {}
                         ELSE IF t \in S /\ HasRoom(g[t - 1], t, top)
                              THEN g[t - 1] \cup {t}
                              ELSE g[t - 1]]
<1>1. body \in [(1 .. Stocks) \X SUBSET Stock -> SUBSET Stock]
  BY DEF Stock
<1>2. PICK g \in [0 .. Stocks -> SUBSET Stock] :
          g[0] = {} /\ \A t \in 1 .. Stocks : g[t] = body[<<t, g[t - 1]>>]
  <2> DEFINE X == SUBSET Stock
             none == {}
  <2>1. none \in X /\ Steps(X, Stocks, body)
    BY <1>1 DEF Steps
  <2>2. \E g : Loops(g, X, Stocks, none, body)
    <3> HIDE DEF body, X, none
    <3> QED BY <2>1, LoopExists
  <2> HIDE DEF body
  <2> QED BY <2>2 DEF Loops
<1>3. \A t \in 1 .. Stocks :
          g[t] = IF t \in S /\ HasRoom(g[t - 1], t, top)
                 THEN g[t - 1] \cup {t} ELSE g[t - 1]
  <2> TAKE t \in 1 .. Stocks
  <2>1. g[t - 1] \in SUBSET Stock
    BY <1>2
  <2>2. <<t, g[t - 1]>> \in Stock \X SUBSET Stock
    BY <2>1 DEF Stock
  <2>3. \A l \in SUBSET Stock :
            body[<<t, l>>] = IF t \in S /\ HasRoom(l, t, top)
                             THEN l \cup {t} ELSE l
    BY DEF Stock
  <2> HIDE DEF body
  <2> QED BY <1>2, <2>1, <2>3
<1>4. g = Loop(g)
  <2>1. g[0] = Loop(g)[0]
    BY <1>2
  <2>2. ASSUME NEW t \in 1 .. Stocks PROVE g[t] = Loop(g)[t]
    <3>1. Loop(g)[t] = IF t \in S /\ HasRoom(g[t - 1], t, top)
                       THEN g[t - 1] \cup {t} ELSE g[t - 1]
      OBVIOUS
    <3> HIDE DEF Loop
    <3> QED BY <1>3, <3>1
  <2>3. \A t \in 0 .. Stocks : g[t] = Loop(g)[t]
    <3> HIDE DEF Loop
    <3> QED BY <2>1, <2>2
  <2> QED BY <1>2, <2>3
<1> DEFINE T == Taking(S, top)
<1>5. T = Loop(T)
  BY <1>4 DEF Taking
<1> HIDE DEF T
<1>6. T[0] = {}
  BY <1>5
<1>7. \A t \in Stock : T[t] = IF t \in S /\ HasRoom(T[t - 1], t, top)
                              THEN T[t - 1] \cup {t} ELSE T[t - 1]
  <2> TAKE t \in Stock
  <2>1. t \in 0 .. Stocks /\ t # 0
    BY DEF Stock
  <2>2. Loop(T)[t] = IF t \in S /\ HasRoom(T[t - 1], t, top)
                     THEN T[t - 1] \cup {t} ELSE T[t - 1]
    BY <2>1
  <2> HIDE DEF Loop
  <2> QED BY <1>5, <2>2
<1> QED BY <1>6, <1>7 DEF T

(* A stock more of the sector of a stock is one more in its count.         *)
LEMMA SectorCount ==
    ASSUME NEW g, IsFiniteSet(g), NEW t, t \notin g, NEW u
    PROVE  /\ InSector(g, u) \in Nat
           /\ tags[t].sector = tags[u].sector =>
                InSector(g \cup {t}, u) = InSector(g, u) + 1
           /\ tags[t].sector # tags[u].sector =>
                InSector(g \cup {t}, u) = InSector(g, u)
<1> DEFINE same(X) == {x \in X : tags[x].sector = tags[u].sector}
<1>1. IsFiniteSet(same(g)) /\ t \notin same(g)
  BY FS_Subset
<1>2. Cardinality(same(g)) \in Nat
  BY <1>1, FS_CardinalityType
<1>3. CASE tags[t].sector = tags[u].sector
  <2>1. same(g \cup {t}) = same(g) \cup {t}
    BY <1>3
  <2>2. Cardinality(same(g) \cup {t}) = Cardinality(same(g)) + 1
    <3> HIDE DEF same
    <3> QED BY <1>1, FS_AddElement
  <2> QED BY <1>2, <1>3, <2>1, <2>2 DEF InSector
<1>4. CASE tags[t].sector # tags[u].sector
  <2>1. same(g \cup {t}) = same(g)
    BY <1>4
  <2> QED BY <1>2, <1>4, <2>1 DEF InSector
<1> QED BY <1>3, <1>4

(* max_per_sector: a sector may always take at least one stock.            *)
LEMMA ShareIsPositive ==
    ASSUME NEW top \in Nat, cfg.cap \in Nat
    PROVE  PerSector(top) \in Nat /\ PerSector(top) >= 1
<1>1. top * cfg.cap \in Nat
  OBVIOUS
<1> DEFINE n == top * cfg.cap + 99
<1>2. n \in Nat
  BY <1>1
<1>3. n \div 100 \in Int
  <2> HIDE DEF n
  <2> QED BY <1>2
<1> DEFINE up == n \div 100
<1>4. PerSector(top) = IF up < 1 THEN 1 ELSE up
  BY DEF PerSector
<1> HIDE DEF up
<1> QED BY <1>3, <1>4 DEF up

Below(T, t) == {u \in T : u < t}

(* The list after the stocks 1 .. n: clean of every overrun, and what it   *)
(* was after k of them is its part up to k.                                *)
GoodList(T, S, top, n) ==
    /\ T \subseteq S /\ T \subseteq 1 .. n
    /\ IsFiniteSet(T) /\ Cardinality(T) <= top
    /\ \A u \in T : InSector(T, u) <= PerSector(top)

(* The list is good after every stock, and before a stock it is the part   *)
(* of every later one that is better than the stock.                       *)
LEMMA TakingKeeps ==
    ASSUME NEW S, NEW top \in Nat, Stocks \in Nat, cfg.cap \in Nat,
           NEW n \in 0 .. Stocks
    PROVE  /\ GoodList(Taking(S, top)[n], S, top, n)
           /\ \A k \in 0 .. n : Taking(S, top)[k] = Below(Taking(S, top)[n], k + 1)
<1> DEFINE T == Taking(S, top)
           Good(k) == /\ GoodList(T[k], S, top, k)
                      /\ \A j \in 0 .. k : T[j] = Below(T[k], j + 1)
           P == {k \in Nat : k <= n => Good(k)}
<1>0. /\ T[0] = {}
      /\ \A t \in Stock : T[t] = IF t \in S /\ HasRoom(T[t - 1], t, top)
                                 THEN T[t - 1] \cup {t} ELSE T[t - 1]
  BY TakingIs
<1> HIDE DEF T
<1>1. 0 \in P
  <2>1. IsFiniteSet({}) /\ Cardinality({}) = 0
    BY FS_EmptySet
  <2>2. T[0] = Below(T[0], 1)
    BY <1>0 DEF Below
  <2>3. GoodList(T[0], S, top, 0)
    BY <1>0, <2>1 DEF GoodList
  <2>4. Good(0)
    BY <2>2, <2>3
  <2> QED BY <2>4
<1>2. ASSUME NEW k \in 0 .. (n - 1), k \in P PROVE k + 1 \in P
  <2> DEFINE t == k + 1
             g == T[k]
  <2>1. /\ GoodList(g, S, top, k)
        /\ \A j \in 0 .. k : T[j] = Below(g, j + 1)
    BY <1>2
  <2>2. t \in Stock /\ t - 1 = k /\ t \in Nat
    BY DEF Stock
  <2>3. T[t] = IF t \in S /\ HasRoom(g, t, top) THEN g \cup {t} ELSE g
    BY <1>0, <2>2
  <2>4. CASE ~(t \in S /\ HasRoom(g, t, top))
    <3>1. T[t] = g
      BY <2>3, <2>4
    <3>2. g = Below(g, t + 1)
      BY <2>1, <2>2 DEF GoodList, Below
    <3>3. GoodList(g, S, top, t)
      BY <2>1 DEF GoodList
    <3>4. \A j \in 0 .. t : T[j] = Below(T[t], j + 1)
      BY <2>1, <3>1, <3>2
    <3> HIDE DEF t, g
    <3>5. Good(t)
      BY <3>1, <3>3, <3>4
    <3> QED BY <2>2, <3>5 DEF t
  <2>5. CASE t \in S /\ HasRoom(g, t, top)
    <3>1. T[t] = g \cup {t}
      BY <2>3, <2>5
    <3>2. /\ g \subseteq S /\ g \subseteq 1 .. k /\ IsFiniteSet(g)
          /\ \A u \in g : InSector(g, u) <= PerSector(top)
      BY <2>1 DEF GoodList
    <3>3. t \notin g /\ g \cup {t} \subseteq S /\ g \cup {t} \subseteq 1 .. t
      BY <2>2, <2>5, <3>2
    <3>4. IsFiniteSet(g \cup {t}) /\ Cardinality(g \cup {t}) <= top
      <4>1. Cardinality(g) < top
        BY <2>5 DEF HasRoom
      <4>2. Cardinality(g) \in Nat
        BY <3>2, FS_CardinalityType
      <4>3. /\ IsFiniteSet(g \cup {t})
            /\ Cardinality(g \cup {t}) = Cardinality(g) + 1
        <5> HIDE DEF t, g
        <5> QED BY <3>2, <3>3, FS_AddElement
      <4> QED BY <4>1, <4>2, <4>3
    <3>5. ASSUME NEW u \in g \cup {t}
          PROVE  InSector(g \cup {t}, u) <= PerSector(top)
      <4>1. InSector(g, t) < PerSector(top)
        BY <2>5 DEF HasRoom
      <4>2. PerSector(top) \in Nat
        BY ShareIsPositive
      <4>3. InSector(g, u) \in Nat
        BY <3>2, <3>3, SectorCount
      <4>4. CASE tags[t].sector = tags[u].sector
        <5>1. InSector(g, u) = InSector(g, t)
          BY <4>4 DEF InSector
        <5>2. InSector(g \cup {t}, u) = InSector(g, u) + 1
          BY <3>2, <3>3, <4>4, SectorCount
        <5> QED BY <4>1, <4>2, <4>3, <5>1, <5>2
      <4>5. CASE tags[t].sector # tags[u].sector
        <5>1. u \in g
          BY <3>5, <4>5
        <5>2. InSector(g \cup {t}, u) = InSector(g, u)
          BY <3>2, <3>3, <4>5, SectorCount
        <5> QED BY <3>2, <5>1, <5>2
      <4> QED BY <4>4, <4>5
    <3>6. GoodList(T[t], S, top, t)
      BY <3>1, <3>3, <3>4, <3>5 DEF GoodList
    <3>7. ASSUME NEW j \in 0 .. t PROVE T[j] = Below(T[t], j + 1)
      <4>1. CASE j = t
        BY <3>1, <3>3, <4>1 DEF Below
      <4>2. CASE j \in 0 .. k
        <5>1. T[j] = Below(g, j + 1)
          BY <2>1, <4>2
        <5>2. Below(g, j + 1) = Below(g \cup {t}, j + 1)
          BY <4>2, <2>2 DEF Below
        <5> QED BY <3>1, <5>1, <5>2
      <4> QED BY <4>1, <4>2
    <3> HIDE DEF t, g
    <3>8. Good(t)
      BY <3>6, <3>7
    <3> QED BY <2>2, <3>8 DEF t
  <2> QED BY <2>4, <2>5
<1>3. n \in P
  <2>1. P \in SUBSET Nat /\ n \in Nat
    OBVIOUS
  <2> HIDE DEF P
  <2> QED BY <1>1, <1>2, <2>1, UpTo
<1>4. Good(n)
  BY <1>3
<1> QED BY <1>4 DEF T

(* diversify_by_sector, the stocks in order of their scores: a list of     *)
(* top_n at most, no sector over its share, and whoever is left out was    *)
(* left out for better ones.                                               *)
LEMMA TakenIs ==
    ASSUME NEW S, NEW top \in Nat, Stocks \in Nat, cfg.cap \in Nat
    PROVE  /\ Taken(S, top) \subseteq S \cap Stock
           /\ Cardinality(Taken(S, top)) <= top
           /\ \A u \in Taken(S, top) : InSector(Taken(S, top), u) <= PerSector(top)
           /\ \A t \in (S \cap Stock) \ Taken(S, top) :
                \/ Cardinality(Below(Taken(S, top), t)) = top
                \/ InSector(Below(Taken(S, top), t), t) = PerSector(top)
<1> DEFINE T == Taking(S, top)
           L == Taken(S, top)
<1>1. L = T[Stocks]
  BY DEF Taken
<1>2. /\ GoodList(L, S, top, Stocks)
      /\ \A k \in 0 .. Stocks : T[k] = Below(L, k + 1)
  BY <1>1, TakingKeeps
<1>3. \A t \in Stock : /\ T[t] = IF t \in S /\ HasRoom(T[t - 1], t, top)
                                 THEN T[t - 1] \cup {t} ELSE T[t - 1]
                       /\ GoodList(T[t - 1], S, top, t - 1)
  <2>1. \A t \in Stock : t - 1 \in 0 .. Stocks
    BY DEF Stock
  <2>2. \A t \in Stock : GoodList(T[t - 1], S, top, t - 1)
    BY <2>1, TakingKeeps
  <2> HIDE DEF T
  <2>3. \A t \in Stock : T[t] = IF t \in S /\ HasRoom(T[t - 1], t, top)
                               THEN T[t - 1] \cup {t} ELSE T[t - 1]
    BY TakingIs DEF T
  <2> QED BY <2>2, <2>3
<1> HIDE DEF T, L
<1>4. ASSUME NEW t \in (S \cap Stock) \ L
      PROVE  \/ Cardinality(Below(L, t)) = top
             \/ InSector(Below(L, t), t) = PerSector(top)
  <2> DEFINE g == T[t - 1]
  <2>1. g = Below(L, t)
    <3>1. t \in Nat /\ t - 1 \in 0 .. Stocks /\ (t - 1) + 1 = t
      BY DEF Stock
    <3> QED BY <1>2, <3>1
  <2>2. t \notin T[t]
    <3>1. t \in 0 .. Stocks
      BY DEF Stock
    <3> QED BY <1>2, <3>1 DEF Below
  <2>3. ~HasRoom(g, t, top)
    BY <1>3, <2>2
  <2>4. /\ IsFiniteSet(g) /\ Cardinality(g) <= top /\ t \notin g
        /\ \A u \in g : InSector(g, u) <= PerSector(top)
    BY <1>3, <2>1 DEF GoodList, Below, Stock
  <2> HIDE DEF g
  <2>5. CASE ~(Cardinality(g) < top)
    BY <2>1, <2>4, <2>5, FS_CardinalityType
  <2>6. CASE ~(InSector(g, t) < PerSector(top))
    <3>1. PerSector(top) \in Nat /\ PerSector(top) >= 1
      BY ShareIsPositive
    <3>2. InSector(g, t) \in Nat
      BY <2>4, SectorCount
    <3>3. PICK u \in g : tags[u].sector = tags[t].sector
      <4>1. SUFFICES ASSUME {u \in g : tags[u].sector = tags[t].sector} = {}
                     PROVE  FALSE
        OBVIOUS
      <4>2. InSector(g, t) = 0
        BY <4>1, FS_EmptySet DEF InSector
      <4> QED BY <2>6, <3>1, <4>2
    <3>4. InSector(g, u) = InSector(g, t)
      BY <3>3 DEF InSector
    <3>5. InSector(g, t) = PerSector(top)
      BY <2>4, <2>6, <3>1, <3>2, <3>4
    <3> QED BY <2>1, <3>5
  <2> QED BY <2>3, <2>5, <2>6 DEF HasRoom
<1> QED BY <1>2, <1>4 DEF L, GoodList, Stock

(* Of the stocks below a place, the best n are all there are, or n.        *)
LEMMA BestBelow ==
    ASSUME NEW S, S \subseteq Stock, NEW n \in Nat, Stocks \in Nat,
           NEW m \in 0 .. (Stocks + 1)
    PROVE  Cardinality(Below(BestOf(S, n), m)) =
               IF Cardinality(Below(S, m)) < n THEN Cardinality(Below(S, m)) ELSE n
<1> DEFINE B == BestOf(S, n)
           Same(k) == Cardinality(Below(B, k)) =
               IF Cardinality(Below(S, k)) < n THEN Cardinality(Below(S, k)) ELSE n
           P == {k \in Nat : k <= m => Same(k)}
<1>0. /\ IsFiniteSet(S) /\ IsFiniteSet(B) /\ B \subseteq S
      /\ \A t \in S : t \in B <=> Cardinality(Below(S, t)) < n
  <2>1. IsFiniteSet(Stock)
    BY FS_Interval DEF Stock
  <2>2. IsFiniteSet(S)
    BY <2>1, FS_Subset
  <2>3. B \subseteq S /\ \A t \in S : t \in B <=> Cardinality(Below(S, t)) < n
    BY DEF BestOf, Below
  <2>4. IsFiniteSet(B)
    <3> HIDE DEF B
    <3> QED BY <2>2, <2>3, FS_Subset
  <2> QED BY <2>2, <2>3, <2>4
<1> HIDE DEF B
<1>1. 0 \in P
  <2>1. Below(S, 0) = {} /\ Below(B, 0) = {}
    <3>1. \A u \in S : ~(u < 0)
      BY DEF Stock
    <3> QED BY <1>0, <3>1 DEF Below
  <2>2. Same(0)
    BY <2>1, FS_EmptySet
  <2> QED BY <2>2
<1>2. ASSUME NEW k \in 0 .. (m - 1), k \in P PROVE k + 1 \in P
  <2> DEFINE X == Below(S, k)
             Y == Below(B, k)
  <2>1. Same(k) /\ k + 1 \in Nat
    BY <1>2
  <2>2. /\ IsFiniteSet(X) /\ IsFiniteSet(Y) /\ k \notin X /\ k \notin Y
    <3>1. X \subseteq S /\ Y \subseteq B /\ k \notin X /\ k \notin Y
      BY DEF Below
    <3> HIDE DEF X, Y
    <3> QED BY <1>0, <3>1, FS_Subset
  <2>3. Cardinality(X) \in Nat /\ Cardinality(Y) \in Nat
    <3> HIDE DEF X, Y
    <3> QED BY <2>2, FS_CardinalityType
  <2>4. /\ Below(S, k + 1) = IF k \in S THEN X \cup {k} ELSE X
        /\ Below(B, k + 1) = IF k \in B THEN Y \cup {k} ELSE Y
    <3>1. \A u \in S : u < k + 1 <=> u < k \/ u = k
      BY DEF Stock
    <3>2. k < k + 1
      OBVIOUS
    <3>3. ASSUME NEW A, A \subseteq S
          PROVE  Below(A, k + 1) = IF k \in A THEN Below(A, k) \cup {k}
                                   ELSE Below(A, k)
      BY <3>1, <3>2, <3>3 DEF Below
    <3> QED BY <1>0, <3>3
  <2>5. /\ Cardinality(X \cup {k}) = Cardinality(X) + 1
        /\ Cardinality(Y \cup {k}) = Cardinality(Y) + 1
    <3> HIDE DEF X, Y
    <3> QED BY <2>2, FS_AddElement
  <2>6. Same(k + 1)
    <3> DEFINE x == Cardinality(X)
               y == Cardinality(Y)
    <3>1. y = IF x < n THEN x ELSE n
      BY <2>1
    <3>2. /\ Cardinality(Below(S, k + 1)) = IF k \in S THEN x + 1 ELSE x
          /\ Cardinality(Below(B, k + 1)) = IF k \in B THEN y + 1 ELSE y
      BY <2>4, <2>5
    <3>3. k \in B <=> k \in S /\ x < n
      BY <1>0
    <3>4. x \in Nat /\ y \in Nat
      BY <2>3
    <3> HIDE DEF x, y
    <3> QED BY <3>1, <3>2, <3>3, <3>4
  <2> QED BY <2>1, <2>6
<1>3. m \in P
  <2>1. P \in SUBSET Nat /\ m \in Nat
    OBVIOUS
  <2> HIDE DEF P
  <2> QED BY <1>1, <1>2, <2>1, UpTo
<1> QED BY <1>3 DEF B

(* The best n: at most n, and n better ones for whoever is not among them. *)
LEMMA BestOfIs ==
    ASSUME NEW S, S \subseteq Stock, NEW n \in Nat, Stocks \in Nat
    PROVE  /\ BestOf(S, n) \subseteq S
           /\ Cardinality(BestOf(S, n)) <= n
           /\ \A t \in S \ BestOf(S, n) : Cardinality(Below(BestOf(S, n), t)) = n
<1> DEFINE B == BestOf(S, n)
<1>1. B \subseteq S /\ \A t \in S : t \in B <=> Cardinality(Below(S, t)) < n
  BY DEF BestOf, Below
<1>2. \A t \in 0 .. (Stocks + 1) :
         /\ Cardinality(Below(S, t)) \in Nat
         /\ Cardinality(Below(B, t)) =
              IF Cardinality(Below(S, t)) < n THEN Cardinality(Below(S, t)) ELSE n
  <2>1. IsFiniteSet(S)
    <3>1. IsFiniteSet(Stock)
      BY FS_Interval DEF Stock
    <3> QED BY <3>1, FS_Subset
  <2>2. \A t : Below(S, t) \in SUBSET S
    BY DEF Below
  <2>3. \A t : Cardinality(Below(S, t)) \in Nat
    BY <2>1, <2>2, FS_Subset, FS_CardinalityType
  <2> QED BY <2>3, BestBelow
<1> HIDE DEF B
<1>3. B = Below(B, Stocks + 1)
  <2>1. \A u \in B : u < Stocks + 1
    BY <1>1 DEF Stock
  <2> QED BY <2>1 DEF Below
<1>4. Cardinality(B) <= n
  BY <1>2, <1>3
<1>5. \A t \in S \ B : Cardinality(Below(B, t)) = n
  BY <1>1, <1>2 DEF Stock
<1> QED BY <1>1, <1>4, <1>5 DEF B

-----------------------------------------------------------------------------
(* The stocks that pass every test, and what a good list of them is.       *)
Passes(S, b) ==
    {t \in S : /\ t <= b /\ ~Excluded(t)
               /\ (cfg.momentum => tags[t].momentum)
               /\ (cfg.volatility => tags[t].volatility)}

WellChosen(C, S, b, top) ==
    /\ C \subseteq Deduped(Passes(S, b)) /\ Cardinality(C) <= top
    /\ \A t \in C : cfg.cap # 0 => InSector(C, t) <= PerSector(top)
    /\ \A t \in Passes(S, b) \ C :
         \/ \E u \in Passes(S, b) : u < t /\ tags[u].issuer = tags[t].issuer
         \/ Cardinality(Below(C, t)) = top
         \/ cfg.cap # 0 /\ InSector(Below(C, t), t) = PerSector(top)

(* select_candidates_pipeline keeps after its tests the stocks that pass   *)
(* them all.                                                               *)
LEMMA KeptIs ==
    ASSUME NEW S, NEW b, NEW top
    PROVE  /\ Kept(S, b, top)[1] = MinScore(S, b)
           /\ Kept(S, b, top)[2] = Momentum(MinScore(S, b))
           /\ Kept(S, b, top)[3] = Volatility(Momentum(MinScore(S, b)))
           /\ Kept(S, b, top)[4] = Passes(S, b)
           /\ Kept(S, b, top)[5] = Deduped(Passes(S, b))
           /\ Kept(S, b, top)[6] = Eligible(Diversified(Deduped(Passes(S, b)), top))
<1>1. Eligible(Volatility(Momentum(MinScore(S, b)))) = Passes(S, b)
  BY DEF Eligible, Volatility, Momentum, MinScore, Passes
<1> QED BY <1>1 DEF Kept

(* select_candidates_pipeline chooses the candidates well, with and without*)
(* a share for each sector.                                                *)
LEMMA SelectedIs ==
    ASSUME NEW S, S \subseteq Stock, NEW b, NEW top \in Nat, Stocks \in Nat,
           cfg.cap \in Nat
    PROVE  WellChosen(Selected(S, b, top), S, b, top)
<1> DEFINE passed == Passes(S, b)
           D == Deduped(passed)
           C == Selected(S, b, top)
<1>1. D \subseteq passed /\ passed \subseteq S /\ \A t \in D : ~Excluded(t)
  BY DEF Deduped, Passes
<1>2. C = Eligible(Diversified(D, top))
  BY KeptIs DEF Selected
<1>3. {t \in D : ~Excluded(t)} = D /\ {t \in D : Excluded(t)} = {}
  BY <1>1
<1>4. \A t \in passed \ D : \E u \in passed : u < t /\ tags[u].issuer = tags[t].issuer
  <2> SUFFICES ASSUME NEW t \in passed, t \notin D
               PROVE  \E u \in passed : u < t /\ tags[u].issuer = tags[t].issuer
    OBVIOUS
  <2>1. PICK u \in passed : tags[u].issuer = tags[t].issuer /\ ~(t <= u)
    BY DEF Deduped
  <2>2. u \in Nat /\ t \in Nat
    BY <1>1 DEF Stock
  <2> HIDE DEF passed
  <2> QED BY <2>1, <2>2
<1> HIDE DEF passed, D, C
<1>5. CASE cfg.cap = 0
  <2>1. C = BestOf(D, top)
    BY <1>1, <1>2, <1>5 DEF Diversified, Eligible, BestOf
  <2>2. /\ C \subseteq D /\ Cardinality(C) <= top
        /\ \A t \in D \ C : Cardinality(Below(C, t)) = top
    BY <1>1, <2>1, BestOfIs
  <2> QED BY <1>1, <1>4, <1>5, <2>2 DEF WellChosen, passed, D, C
<1>6. CASE cfg.cap # 0
  <2>1. C = Taken(D, top)
    <3>1. \A n : BestOf({}, n) = {}
      BY DEF BestOf
    <3>2. Diversified(D, top) = Taken(D, top)
      BY <1>3, <1>6, <3>1 DEF Diversified
    <3>3. Taken(D, top) \subseteq D
      BY TakenIs
    <3> QED BY <1>1, <1>2, <3>2, <3>3 DEF Eligible
  <2>2. /\ C \subseteq D /\ Cardinality(C) <= top
        /\ \A t \in C : InSector(C, t) <= PerSector(top)
        /\ \A t \in D \ C : \/ Cardinality(Below(C, t)) = top
                            \/ InSector(Below(C, t), t) = PerSector(top)
    BY <1>1, <2>1, TakenIs
  <2> QED BY <1>1, <1>4, <1>6, <2>2 DEF WellChosen, passed, D, C
<1> QED BY <1>5, <1>6

-----------------------------------------------------------------------------
(* The sets the selection works on, from the scored stocks to the          *)
(* candidates: each is a part of the one before.                           *)
KeptSets(S, b, top) == <<S>> \o Kept(S, b, top)
Off(k) == \/ k = 2 /\ ~cfg.momentum
          \/ k = 3 /\ ~cfg.volatility

(* A sequence of one followed by one of six is a sequence of seven.        *)
LEMMA OneBefore ==
    ASSUME NEW a, NEW a1, NEW a2, NEW a3, NEW a4, NEW a5, NEW a6
    PROVE  <<a>> \o <<a1, a2, a3, a4, a5, a6>> = <<a, a1, a2, a3, a4, a5, a6>>
<1> DEFINE X == {a, a1, a2, a3, a4, a5, a6}
           s == <<a>>
           t == <<a1, a2, a3, a4, a5, a6>>
           u == <<a, a1, a2, a3, a4, a5, a6>>
<1>1. s \in Seq(X) /\ t \in Seq(X) /\ u \in Seq(X)
  OBVIOUS
<1>2. Len(s) = 1 /\ Len(t) = 6 /\ Len(u) = 7
  OBVIOUS
<1>3. s[1] = u[1] /\ t[1] = u[2] /\ t[2] = u[3] /\ t[3] = u[4] /\ t[4] = u[5]
      /\ t[5] = u[6] /\ t[6] = u[7]
  OBVIOUS
<1> HIDE DEF X, s, t, u
<1>4. /\ s \o t \in Seq(X) /\ Len(s \o t) = 7
      /\ \A i \in 1 .. 7 : (s \o t)[i] = IF i <= 1 THEN s[i] ELSE t[i - 1]
  <2>1. /\ s \o t \in Seq(X) /\ Len(s \o t) = Len(s) + Len(t)
        /\ \A i \in 1 .. Len(s) + Len(t) :
             (s \o t)[i] = IF i <= Len(s) THEN s[i] ELSE t[i - Len(s)]
    BY <1>1, ConcatProperties
  <2> QED BY <1>2, <2>1
<1> DEFINE h == s \o t
<1>5. ASSUME NEW i \in 1 .. 7 PROVE h[i] = u[i]
  <2>1. i = 1 \/ i = 2 \/ i = 3 \/ i = 4 \/ i = 5 \/ i = 6 \/ i = 7
    OBVIOUS
  <2>2. \A k \in 1 .. 7 : h[k] = IF k <= 1 THEN s[k] ELSE t[k - 1]
    BY <1>4
  <2> HIDE DEF h
  <2>3. h[1] = s[1] /\ h[2] = t[1] /\ h[3] = t[2] /\ h[4] = t[3]
    BY <2>2
  <2>4. h[5] = t[4] /\ h[6] = t[5] /\ h[7] = t[6]
    BY <2>2
  <2> QED BY <1>3, <2>1, <2>3, <2>4
<1>6. s \o t = u
  BY <1>1, <1>2, <1>4, <1>5, SeqEqual
<1> QED BY <1>6 DEF s, t, u

Shrink(K, S, b, top) ==
    /\ K[1] = S /\ K[2] = MinScore(S, b)
    /\ K[4] = Volatility(Momentum(MinScore(S, b)))
    /\ K[5] = Passes(S, b) /\ K[6] = Deduped(Passes(S, b))
    /\ K[7] = Selected(S, b, top)
    /\ \A k \in 1 .. 6 : K[k + 1] \subseteq K[k] /\ (Off(k) => K[k + 1] = K[k])

(* Every stage of select_candidates_pipeline keeps a part of its input, and*)
(* all of it when it is switched off.                                      *)
LEMMA KeptShrink ==
    ASSUME NEW S, S \subseteq Stock, NEW b, NEW top \in Nat, Stocks \in Nat,
           cfg.cap \in Nat
    PROVE  Shrink(KeptSets(S, b, top), S, b, top)
<1> DEFINE s1 == MinScore(S, b)
           s2 == Momentum(s1)
           s3 == Volatility(s2)
           s4 == Passes(S, b)
           s5 == Deduped(s4)
           s6 == Selected(S, b, top)
           K == KeptSets(S, b, top)
<1>1. Kept(S, b, top) = <<s1, s2, s3, s4, s5, s6>>
  <2>1. Eligible(s3) = s4
    BY DEF Eligible, Volatility, Momentum, MinScore, Passes
  <2> QED BY <2>1 DEF Kept, Selected
<1>2. /\ s1 \subseteq S /\ s2 \subseteq s1 /\ s3 \subseteq s2
      /\ ~cfg.momentum => s2 = s1
      /\ ~cfg.volatility => s3 = s2
  BY DEF MinScore, Momentum, Volatility
<1>3. s4 \subseteq s3 /\ s5 \subseteq s4
  BY DEF MinScore, Momentum, Volatility, Passes, Deduped
<1>4. s6 \subseteq s5
  BY SelectedIs DEF WellChosen
<1> HIDE DEF s1, s2, s3, s4, s5, s6
<1>5. /\ K[1] = S /\ K[2] = s1 /\ K[3] = s2 /\ K[4] = s3 /\ K[5] = s4
      /\ K[6] = s5 /\ K[7] = s6
  <2>1. KeptSets(S, b, top) = <<S, s1, s2, s3, s4, s5, s6>>
    BY <1>1, OneBefore DEF KeptSets
  <2> QED BY <2>1
<1> HIDE DEF K
<1>6. ASSUME NEW k \in 1 .. 6
      PROVE  K[k + 1] \subseteq K[k] /\ (Off(k) => K[k + 1] = K[k])
  <2>1. k = 1 \/ k = 2 \/ k = 3 \/ k = 4 \/ k = 5 \/ k = 6
    OBVIOUS
  <2> QED BY <1>2, <1>3, <1>4, <1>5, <2>1 DEF Off
<1> QED BY <1>5, <1>6 DEF Shrink, K, s1, s2, s3, s4, s5, s6

(* A part of the master list has so many stocks, and a part of it fewer.   *)
LEMMA Counts ==
    ASSUME NEW A, A \subseteq Stock, NEW B, B \subseteq A, Stocks \in Nat
    PROVE  /\ IsFiniteSet(A) /\ Cardinality(A) \in 0 .. Stocks
           /\ Cardinality(B) \in 0 .. Stocks /\ Cardinality(B) <= Cardinality(A)
           /\ Cardinality(A) = 0 <=> A = {}
           /\ Cardinality(Stock) = Stocks
<1>1. IsFiniteSet(Stock) /\ Cardinality(Stock) = Stocks
  BY FS_Interval DEF Stock
<1>2. IsFiniteSet(A) /\ Cardinality(A) <= Stocks
  BY <1>1, FS_Subset
<1>3. IsFiniteSet(B) /\ Cardinality(B) <= Cardinality(A)
  BY <1>2, FS_Subset
<1>4. Cardinality(A) \in Nat /\ Cardinality(B) \in Nat
  BY <1>2, <1>3, FS_CardinalityType
<1>5. Cardinality(A) = 0 <=> A = {}
  BY <1>2, FS_EmptySet
<1> QED BY <1>1, <1>2, <1>3, <1>4, <1>5

(* What the pipeline records of its stages: how many stocks each found and *)
(* left.                                                                   *)
Accounts(P, K) ==
    /\ P = [k \in 1 .. 6 |-> P[k]]
    /\ \A k \in 1 .. 6 :
         P[k] = [stage  |-> StageNames[k + 4],
                 status |-> IF K[k] = {} THEN "NOT_RUN"
                            ELSE IF Off(k) THEN "SKIPPED" ELSE "APPLIED",
                 in     |-> Cardinality(K[k]),
                 out    |-> Cardinality(K[k + 1])]

(* What select_candidates_pipeline records of a stage is how many stocks   *)
(* came in and were kept, not run where none came in.                      *)
LEMMA PipelineIs ==
    ASSUME NEW S, S \subseteq Stock, NEW b, NEW top \in Nat, Stocks \in Nat,
           cfg.cap \in Nat
    PROVE  Accounts(PipelineStages(S, b, top), KeptSets(S, b, top))
<1> DEFINE P == PipelineStages(S, b, top)
           K == KeptSets(S, b, top)
           on == <<TRUE, cfg.momentum, cfg.volatility, TRUE, TRUE, TRUE>>
<1>1. P = [k \in 1 .. 6 |->
             IF Cardinality(K[k]) = 0 THEN NotRun(StageNames[k + 4])
             ELSE IF on[k]
                  THEN Applied(StageNames[k + 4], Cardinality(K[k]), Cardinality(K[k + 1]))
                  ELSE Skipped(StageNames[k + 4], Cardinality(K[k]))]
  BY DEF PipelineStages, KeptSets
<1>2. ASSUME NEW k \in 1 .. 6
      PROVE  /\ Cardinality(K[k]) \in Nat /\ Cardinality(K[k + 1]) \in Nat
             /\ Cardinality(K[k + 1]) <= Cardinality(K[k])
             /\ Cardinality(K[k]) = 0 <=> K[k] = {}
             /\ Off(k) => K[k + 1] = K[k]
             /\ on[k] <=> ~Off(k)
  <2>1. /\ K[1] = S
        /\ \A j \in 1 .. 6 : K[j + 1] \subseteq K[j] /\ (Off(j) => K[j + 1] = K[j])
    <3>1. Shrink(K, S, b, top)
      BY KeptShrink
    <3> HIDE DEF K
    <3> QED BY <3>1 DEF Shrink
  <2> HIDE DEF K
  <2>2. K[1] \subseteq Stock /\ K[2] \subseteq Stock /\ K[3] \subseteq Stock
    BY <2>1
  <2>3. K[4] \subseteq Stock /\ K[5] \subseteq Stock /\ K[6] \subseteq Stock
    BY <2>1, <2>2
  <2>4. k = 1 \/ k = 2 \/ k = 3 \/ k = 4 \/ k = 5 \/ k = 6
    OBVIOUS
  <2>5. K[k] \subseteq Stock /\ K[k + 1] \subseteq K[k]
    BY <2>1, <2>2, <2>3, <2>4
  <2>6. on[k] <=> ~Off(k)
    <3>1. CASE k = 1
      BY <3>1 DEF Off
    <3>2. CASE k = 2
      BY <3>2 DEF Off
    <3>3. CASE k = 3
      BY <3>3 DEF Off
    <3>4. CASE k = 4
      BY <3>4 DEF Off
    <3>5. CASE k = 5
      BY <3>5 DEF Off
    <3>6. CASE k = 6
      BY <3>6 DEF Off
    <3> QED BY <2>4, <3>1, <3>2, <3>3, <3>4, <3>5, <3>6
  <2> QED BY <2>1, <2>5, <2>6, Counts
<1> HIDE DEF K, on
<1>3. ASSUME NEW k \in 1 .. 6
      PROVE  P[k] = [stage  |-> StageNames[k + 4],
                     status |-> IF K[k] = {} THEN "NOT_RUN"
                                ELSE IF Off(k) THEN "SKIPPED" ELSE "APPLIED",
                     in     |-> Cardinality(K[k]),
                     out    |-> Cardinality(K[k + 1])]
  <2>1. P[k] = IF Cardinality(K[k]) = 0 THEN NotRun(StageNames[k + 4])
             ELSE IF on[k]
                  THEN Applied(StageNames[k + 4], Cardinality(K[k]), Cardinality(K[k + 1]))
                  ELSE Skipped(StageNames[k + 4], Cardinality(K[k]))
    BY <1>1
  <2> HIDE DEF P
  <2>2. CASE K[k] = {}
    <3>1. Cardinality(K[k]) = 0 /\ Cardinality(K[k + 1]) = 0
      BY <1>2, <2>2
    <3> QED BY <2>1, <2>2, <3>1 DEF NotRun, Stage
  <2>3. CASE K[k] # {} /\ Off(k)
    BY <1>2, <2>1, <2>3 DEF Skipped, Stage
  <2>4. CASE K[k] # {} /\ ~Off(k)
    BY <1>2, <2>1, <2>4 DEF Applied, Stage
  <2> QED BY <2>2, <2>3, <2>4
<1>4. P = [k \in 1 .. 6 |-> P[k]]
  BY <1>1
<1> HIDE DEF P
<1> QED BY <1>3, <1>4 DEF P, K, Accounts

-----------------------------------------------------------------------------
(* The inductive invariant.  The recorded stages are the first ones, in    *)
(* order, and none starts from more stocks than the one before left; a run *)
(* that did not come to the selection offers and notes nothing.            *)
StageRecord == [stage : Range(StageNames),
                status : {"APPLIED", "SKIPPED", "NOT_RUN"},
                in : 0 .. Stocks, out : 0 .. Stocks]

Ordered(f) ==
    /\ f \in Seq(StageRecord)
    /\ \A i \in 1 .. Len(f) :
         /\ f[i].stage = StageNames[i] /\ f[i].out <= f[i].in
         /\ f[i].status = "SKIPPED" => f[i].out = f[i].in
         /\ i > 1 => f[i].in <= f[i - 1].out

Length == [universe |-> 0, marcap |-> 1, amount |-> 2, lists |-> 3, score |-> 3,
           enrich |-> 4, select |-> 4, shadow |-> 10, annotate |-> 10,
           classify |-> 10, store |-> 10, done |-> 10]

Filtering == pc \in {"marcap", "amount", "lists", "score", "enrich", "select"}
Unscored  == \/ pc \in {"universe", "marcap", "amount", "lists", "score", "enrich"}
             \/ pc \in {"store", "done"} /\ cur = {}

Typed ==
    /\ pc \in DOMAIN Length /\ cfg \in Config
    /\ bar \in 0 .. Stocks /\ shadowbar \in 0 .. Stocks
    /\ \A S \in {cur, cands, shadow, eligshadow} : S \subseteq Stock
    /\ status \in {"", "SUCCESS", "SUCCESS_WITH_WARNINGS"}
    /\ Unscored => /\ tags = <<>> /\ bar = 0
                   /\ cands = {} /\ shadow = {} /\ eligshadow = {} /\ notes = NoNotes
    /\ ~Unscored => /\ cur # {} /\ tags \in [cur -> Tags]
                    /\ \A t \in cur : /\ ~cfg.momentum => tags[t].momentum
                                      /\ ~cfg.volatility => tags[t].volatility
    /\ pc = "select" => /\ cands = {} /\ shadow = {} /\ eligshadow = {}
                        /\ notes = NoNotes

FunnelKept ==
    /\ Ordered(funnel) /\ Len(funnel) = Length[pc]
    /\ Filtering => cur # {} /\ Cardinality(cur) <= funnel[Len(funnel)].out
    /\ pc \in {"store", "done"} => funnel[10].out = Cardinality(cands)
    /\ pc = "store" => funnel[10].status # "SKIPPED"
    /\ pc = "done" => Chained(funnel)

(* What the stages of the selection say is whether a stock was left.       *)
Told(f, S, b, C) ==
    /\ f[5].out = 0 => MinScore(S, b) = {}
    /\ f[8].out = 0 => Passes(S, b) = {}
    /\ f[8].status # "APPLIED" => Passes(S, b) = {}
    /\ f[9].status = "APPLIED" <=> Passes(S, b) # {}
    /\ f[9].status = "APPLIED" => f[9].out # 0
    /\ f[10].status = "APPLIED" <=> Passes(S, b) # {}
    /\ f[10].out = Cardinality(C) /\ f[10].status # "SKIPPED"

Selecting == pc \in {"shadow", "annotate", "classify"}
Chosen    == Selecting \/ (pc \in {"store", "done"} /\ cur # {})

NotesTrue ==
    /\ cands \cap eligshadow = {}
    /\ notes.elig \subseteq 1 .. bar
    /\ Unfiltered => cands = notes.issuer \ notes.sectordrop
    /\ Unfiltered => notes.elig = notes.issuer \cup notes.issuerdrop

ReasonFits ==
    LET passers == MinScore(cur, bar) IN
    /\ (reason = "") <=> (cands # {})
    /\ reason = "MIN_SCORE_THRESHOLD_NOT_MET" => passers = {}
    /\ reason # "ALL_ELIGIBLE_REMOVED_BY_ISSUER_DEDUP"
    /\ reason = "ALL_ELIGIBLE_REMOVED_BY_SECTOR_CAP" => cfg.top = 0
    /\ reason = "ALL_THRESHOLD_PASSERS_ALREADY_HELD" =>
         \A t \in passers : tags[t].out = "held"
    /\ reason = "ALL_THRESHOLD_PASSERS_INELIGIBLE" /\ Unfiltered =>
         \A t \in passers : Excluded(t)

IInv ==
    /\ Typed /\ FunnelKept
    /\ Chosen => WellChosen(cands, cur, bar, cfg.top)
    /\ Selecting => Told(funnel, cur, bar, cands)
    /\ pc = "annotate" => cands \cap eligshadow = {}
    /\ pc \in {"classify", "store", "done"} => NotesTrue
    /\ pc \in {"store", "done"} /\ cur # {} => ReasonFits

-----------------------------------------------------------------------------
(* The lemmas about the recorded stages                                    *)
LEMMA TenStages ==
    /\ \A i \in 1 .. 10 : StageNames[i] \in Range(StageNames)
    /\ \A i \in 1 .. 10 : /\ StageNames[i] = "MIN_SCORE" <=> i = 5
                          /\ StageNames[i] = "ELIGIBILITY" <=> i = 8
                          /\ StageNames[i] = "ISSUER_DEDUP" <=> i = 9
                          /\ StageNames[i] = "SECTOR_DIVERSIFICATION" <=> i = 10
    /\ Len(StageNames) = 10
<1>1. DOMAIN StageNames = 1 .. 10 /\ Len(StageNames) = 10
  BY DEF StageNames
<1>2. \A i \in 1 .. 10 : StageNames[i] \in Range(StageNames)
  BY <1>1 DEF Range
<1>3. /\ StageNames[1] = "UNIVERSE" /\ StageNames[2] = "MARKET_CAP"
      /\ StageNames[3] = "AMOUNT5D" /\ StageNames[4] = "SCORING"
      /\ StageNames[5] = "MIN_SCORE" /\ StageNames[6] = "MOMENTUM"
      /\ StageNames[7] = "VOLATILITY" /\ StageNames[8] = "ELIGIBILITY"
      /\ StageNames[9] = "ISSUER_DEDUP" /\ StageNames[10] = "SECTOR_DIVERSIFICATION"
  BY DEF StageNames
<1>4. ASSUME NEW i \in 1 .. 10
      PROVE  /\ StageNames[i] = "MIN_SCORE" <=> i = 5
             /\ StageNames[i] = "ELIGIBILITY" <=> i = 8
             /\ StageNames[i] = "ISSUER_DEDUP" <=> i = 9
             /\ StageNames[i] = "SECTOR_DIVERSIFICATION" <=> i = 10
  <2>1. \/ i = 1 \/ i = 2 \/ i = 3 \/ i = 4 \/ i = 5
        \/ i = 6 \/ i = 7 \/ i = 8 \/ i = 9 \/ i = 10
    OBVIOUS
  <2> QED BY <1>3, <2>1
<1> QED BY <1>1, <1>2, <1>4

(* The stage a funnel is asked for is the one at its place.                *)
LEMMA Looked ==
    ASSUME NEW f, Ordered(f), Len(f) = 10
    PROVE  /\ OutOf(f, "MIN_SCORE") = f[5].out
           /\ OutOf(f, "ELIGIBILITY") = f[8].out
           /\ StatusOf(f, "ELIGIBILITY") = f[8].status
           /\ OutOf(f, "ISSUER_DEDUP") = f[9].out
           /\ StatusOf(f, "ISSUER_DEDUP") = f[9].status
           /\ OutOf(f, "SECTOR_DIVERSIFICATION") = f[10].out
           /\ StatusOf(f, "SECTOR_DIVERSIFICATION") = f[10].status
<1>1. DOMAIN f = 1 .. 10 /\ \A i \in 1 .. 10 : f[i].stage = StageNames[i]
  BY DEF Ordered
<1>2. \A name, k : {i \in DOMAIN f : f[i].stage = name} = {k} =>
          OutOf(f, name) = f[k].out /\ StatusOf(f, name) = f[k].status
  <2> TAKE name, k
  <2> DEFINE at == {i \in DOMAIN f : f[i].stage = name}
  <2> HAVE at = {k}
  <2>1. at # {} /\ (CHOOSE i \in at : TRUE) = k
    OBVIOUS
  <2> HIDE DEF at
  <2>2. /\ OutOf(f, name) = IF at = {} THEN 0 ELSE f[CHOOSE i \in at : TRUE].out
        /\ StatusOf(f, name) = IF at = {} THEN "" ELSE f[CHOOSE i \in at : TRUE].status
    BY DEF OutOf, StatusOf, at
  <2> QED BY <2>1, <2>2
<1>3. /\ {i \in DOMAIN f : f[i].stage = "MIN_SCORE"} = {5}
      /\ {i \in DOMAIN f : f[i].stage = "ELIGIBILITY"} = {8}
      /\ {i \in DOMAIN f : f[i].stage = "ISSUER_DEDUP"} = {9}
      /\ {i \in DOMAIN f : f[i].stage = "SECTOR_DIVERSIFICATION"} = {10}
  BY <1>1, TenStages
<1> QED BY <1>2, <1>3

(* Stages go on where a funnel ends.                                       *)
GoesOn(f, g) ==
    /\ Ordered(f) /\ Len(f) >= 1 /\ g \in Seq(StageRecord)
    /\ \A j \in 1 .. Len(g) :
         /\ g[j].stage = StageNames[Len(f) + j] /\ g[j].out <= g[j].in
         /\ g[j].status = "SKIPPED" => g[j].out = g[j].in
         /\ g[j].in <= IF j = 1 THEN f[Len(f)].out ELSE g[j - 1].out

(* Stages that go on where a funnel ends make a longer one.                *)
LEMMA Prolonged ==
    ASSUME NEW f, NEW g, GoesOn(f, g)
    PROVE  /\ Ordered(f \o g) /\ Len(f \o g) = Len(f) + Len(g)
           /\ \A j \in 1 .. Len(g) : (f \o g)[Len(f) + j] = g[j]
<1> DEFINE h == f \o g
           n == Len(f)
           m == Len(g)
<1>0. /\ f \in Seq(StageRecord) /\ g \in Seq(StageRecord)
      /\ n \in Nat /\ m \in Nat /\ n >= 1
  BY DEF GoesOn, Ordered
<1>1. /\ h \in Seq(StageRecord) /\ Len(h) = n + m
      /\ \A i \in 1 .. (n + m) : h[i] = IF i <= n THEN f[i] ELSE g[i - n]
  BY <1>0, ConcatProperties
<1>2. \A j \in 1 .. m : h[n + j] = g[j]
  <2> HIDE DEF h, n, m
  <2> QED BY <1>0, <1>1
<1>3. \A i \in 1 .. n : h[i] = f[i]
  <2> HIDE DEF h, n, m
  <2> QED BY <1>0, <1>1
<1>4. ASSUME NEW i \in 1 .. (n + m)
      PROVE  /\ h[i].stage = StageNames[i] /\ h[i].out <= h[i].in
             /\ h[i].status = "SKIPPED" => h[i].out = h[i].in
             /\ i > 1 => h[i].in <= h[i - 1].out
  <2>1. CASE i \in 1 .. n
    <3>1. h[i] = f[i] /\ (i > 1 => h[i - 1] = f[i - 1])
      BY <1>0, <1>3, <2>1
    <3>2. /\ f[i].stage = StageNames[i] /\ f[i].out <= f[i].in
          /\ f[i].status = "SKIPPED" => f[i].out = f[i].in
          /\ i > 1 => f[i].in <= f[i - 1].out
      BY <2>1 DEF GoesOn, Ordered
    <3> HIDE DEF h
    <3> QED BY <3>1, <3>2
  <2>2. CASE i > n
    <3> DEFINE j == i - n
    <3>1. j \in 1 .. m /\ i = n + j
      BY <1>0, <2>2
    <3> HIDE DEF j
    <3>2. h[i] = g[j]
      BY <1>2, <3>1
    <3>3. i > 1 => h[i - 1] = IF j = 1 THEN f[n] ELSE g[j - 1]
      <4>1. CASE j = 1
        BY <1>0, <1>3, <3>1, <4>1
      <4>2. CASE j # 1
        <5>1. j - 1 \in 1 .. m /\ i - 1 = n + (j - 1)
          BY <1>0, <3>1, <4>2
        <5> QED BY <1>2, <4>2, <5>1
      <4> QED BY <4>1, <4>2
    <3>4. /\ g[j].stage = StageNames[n + j] /\ g[j].out <= g[j].in
          /\ g[j].status = "SKIPPED" => g[j].out = g[j].in
          /\ g[j].in <= IF j = 1 THEN f[n].out ELSE g[j - 1].out
      BY <3>1 DEF GoesOn
    <3> HIDE DEF h, n
    <3> QED BY <3>1, <3>2, <3>3, <3>4
  <2> QED BY <1>0, <2>1, <2>2
<1> HIDE DEF h
<1> QED BY <1>1, <1>2, <1>4 DEF Ordered, h

(* A function on 1 .. n with values of a set is a sequence of it.          *)
LEMMA Listed ==
    ASSUME NEW X, NEW n \in Nat, NEW g, g = [k \in 1 .. n |-> g[k]],
           \A k \in 1 .. n : g[k] \in X
    PROVE  g \in Seq(X) /\ Len(g) = n
<1>1. g \in [1 .. n -> X]
  OBVIOUS
<1> QED BY <1>1

(* The stages of a funnel in order are records of stages.                  *)
LEMMA OrderedSeq ==
    ASSUME NEW f, Ordered(f)
    PROVE  /\ f \in Seq(StageRecord) /\ Len(f) \in Nat
           /\ \A k \in 1 .. Len(f) : f[k] \in StageRecord /\ f[k].out \in 0 .. Stocks
<1>1. f \in Seq(StageRecord)
  BY DEF Ordered
<1>2. \A k \in 1 .. Len(f) : f[k] \in StageRecord
  BY <1>1, ElementOfSeq
<1>3. \A x \in StageRecord : x.out \in 0 .. Stocks
  BY DEF StageRecord
<1> QED BY <1>1, <1>2, <1>3, LenProperties

(* One more stage, of the stocks it found and left.                        *)
Longer(g, n, o) == Ordered(g) /\ Len(g) = n /\ g[n].out = o
MayFollow(f, n, st, i, o) ==
    /\ Ordered(f) /\ n \in 1 .. 9 /\ Len(f) = n
    /\ st \in {"APPLIED", "SKIPPED", "NOT_RUN"} /\ (st = "SKIPPED" => o = i)
    /\ i \in 0 .. Stocks /\ o \in 0 .. Stocks /\ o <= i /\ i <= f[n].out

(* FunnelRecorder.record: a stage that may follow the last one of a funnel *)
(* is appended, and the funnel stays in order.                             *)
LEMMA Recorded ==
    ASSUME NEW f, NEW n, NEW st, NEW i, NEW o, Stocks \in Nat,
           MayFollow(f, n, st, i, o)
    PROVE  Longer(Append(f, Stage(StageNames[n + 1], st, i, o)), n + 1, o)
<1> DEFINE s == Stage(StageNames[n + 1], st, i, o)
           g == <<s>>
<1>a. /\ Ordered(f) /\ n \in 1 .. 9 /\ Len(f) = n
      /\ st \in {"APPLIED", "SKIPPED", "NOT_RUN"} /\ (st = "SKIPPED" => o = i)
      /\ i \in 0 .. Stocks /\ o \in 0 .. Stocks /\ o <= i /\ i <= f[n].out
  BY DEF MayFollow
<1>0. f \in Seq(StageRecord)
  BY <1>a, OrderedSeq
<1>1. s = [stage |-> StageNames[n + 1], status |-> st, in |-> i, out |-> o]
  BY <1>a DEF Stage
<1>2. s \in StageRecord
  <2>1. n + 1 \in 1 .. 10
    BY <1>a
  <2> HIDE DEF s
  <2> QED BY <1>1, <1>a, <2>1, TenStages DEF StageRecord
<1> HIDE DEF s
<1>3. g \in Seq(StageRecord) /\ Len(g) = 1 /\ g[1] = s
  BY <1>2
<1>4. Append(f, s) = f \o g
  BY <1>0, <1>2, AppendIsConcat
<1>5. s.stage = StageNames[n + 1] /\ s.status = st /\ s.in = i /\ s.out = o
  BY <1>1
<1> HIDE DEF g
<1>6. \A j \in 1 .. Len(g) :
        /\ g[j].stage = StageNames[Len(f) + j] /\ g[j].out <= g[j].in
        /\ g[j].status = "SKIPPED" => g[j].out = g[j].in
        /\ g[j].in <= IF j = 1 THEN f[Len(f)].out ELSE g[j - 1].out
  BY <1>3, <1>5, <1>a
<1>7. /\ Ordered(f \o g) /\ Len(f \o g) = Len(f) + Len(g)
      /\ \A j \in 1 .. Len(g) : (f \o g)[Len(f) + j] = g[j]
  <2>1. Len(f) >= 1
    BY <1>a
  <2>2. GoesOn(f, g)
    BY <1>3, <1>6, <1>a, <2>1 DEF GoesOn
  <2> QED BY <2>2, Prolonged
<1>8. Len(f \o g) = n + 1 /\ (f \o g)[n + 1] = s
  BY <1>3, <1>7, <1>a
<1> QED BY <1>4, <1>5, <1>7, <1>8 DEF s, Longer

(* The run that ends early: the remaining stages are recorded as not run.  *)
LEMMA EndedEarly ==
    ASSUME NEW f, Ordered(f), NEW n \in 1 .. 9, Len(f) = n, Stocks \in Nat
    PROVE  /\ Ordered(f \o NotRunFrom(n + 1)) /\ Len(f \o NotRunFrom(n + 1)) = 10
           /\ (f \o NotRunFrom(n + 1))[10].out = 0
           /\ (f \o NotRunFrom(n + 1))[10].status = "NOT_RUN"
<1> DEFINE g == NotRunFrom(n + 1)
           m == 10 - n
<1>0. m \in Nat /\ m \in 1 .. m /\ n + m = 10 /\ 11 - (n + 1) = m
  OBVIOUS
<1>1. g = [j \in 1 .. m |-> NotRun(StageNames[n + j])]
  <2>1. \A j \in 1 .. m : n + 1 + j - 1 = n + j
    OBVIOUS
  <2> HIDE DEF m
  <2> QED BY <1>0, <2>1 DEF NotRunFrom
<1>2. \A j \in 1 .. m : n + j \in 1 .. 10
  OBVIOUS
<1> HIDE DEF g, m
<1>3. ASSUME NEW j \in 1 .. m
      PROVE  /\ g[j].stage = StageNames[n + j] /\ g[j].status = "NOT_RUN"
             /\ g[j].in = 0 /\ g[j].out = 0 /\ g[j] \in StageRecord
  <2>1. g[j] = [stage |-> StageNames[n + j], status |-> "NOT_RUN", in |-> 0, out |-> 0]
    BY <1>1 DEF NotRun, Stage
  <2>2. StageNames[n + j] \in Range(StageNames)
    BY <1>2, TenStages
  <2>3. 0 \in 0 .. Stocks
    OBVIOUS
  <2> QED BY <2>1, <2>2, <2>3 DEF StageRecord
<1>4. g \in Seq(StageRecord) /\ Len(g) = m
  <2>1. g \in [1 .. m -> StageRecord]
    BY <1>1, <1>3
  <2> QED BY <1>0, <2>1
<1>5. f[n].out \in 0 .. Stocks
  BY OrderedSeq
<1>6. \A j \in 1 .. Len(g) :
        /\ g[j].stage = StageNames[Len(f) + j] /\ g[j].out <= g[j].in
        /\ g[j].status = "SKIPPED" => g[j].out = g[j].in
        /\ g[j].in <= IF j = 1 THEN f[Len(f)].out ELSE g[j - 1].out
  <2> TAKE j \in 1 .. Len(g)
  <2>1. j \in 1 .. m /\ (j # 1 => j - 1 \in 1 .. m)
    BY <1>0, <1>4
  <2> QED BY <1>3, <1>5, <2>1
<1>7. /\ Ordered(f \o g) /\ Len(f \o g) = Len(f) + Len(g)
      /\ \A j \in 1 .. Len(g) : (f \o g)[Len(f) + j] = g[j]
  <2>1. Len(f) >= 1
    OBVIOUS
  <2>2. GoesOn(f, g)
    BY <1>4, <1>6, <2>1 DEF GoesOn
  <2> QED BY <2>2, Prolonged
<1>8. Len(f \o g) = 10 /\ (f \o g)[10] = g[m]
  BY <1>0, <1>4, <1>7
<1> QED BY <1>0, <1>3, <1>7, <1>8 DEF g

(* sanitize_for_storage rebuilds stage after stage.                        *)
LEMMA ChainIs ==
    ASSUME NEW f \in Seq(StageRecord), Stocks \in Nat, Len(f) >= 1
    PROVE  /\ Chain(f) = [k \in 1 .. Len(f) |-> Chain(f)[k]]
           /\ Chain(f)[1] = Rebuilt(f[1], f[1].in)
           /\ \A k \in 2 .. Len(f) : Chain(f)[k] = Rebuilt(f[k], Chain(f)[k - 1].out)
<1> DEFINE n == Len(f)
           X == StageRecord
           body == [p \in (1 .. n) \X X |->
                       Rebuilt(f[p[1]], IF p[1] = 1 THEN f[1].in ELSE p[2].out)]
           Pass(d) == [k \in DOMAIN f |->
                         Rebuilt(f[k], IF k = 1 THEN f[1].in ELSE d[k - 1].out)]
<1>0. n \in Nat /\ DOMAIN f = 1 .. n /\ 1 \in 1 .. n /\ f[1] \in X
      /\ \A k \in 1 .. n : f[k] \in X
  OBVIOUS
<1>1. \A k \in 1 .. n, i \in 0 .. Stocks : Rebuilt(f[k], i) \in X
  <2> TAKE k \in 1 .. n, i \in 0 .. Stocks
  <2>1. f[k] \in StageRecord
    BY <1>0
  <2> HIDE DEF n
  <2> QED BY <2>1 DEF Rebuilt, Stage, StageRecord
<1>2. ASSUME NEW k \in 1 .. n, NEW x \in X PROVE body[<<k, x>>] \in X
  <2>1. body[<<k, x>>] = Rebuilt(f[k], IF k = 1 THEN f[1].in ELSE x.out)
    OBVIOUS
  <2>2. (IF k = 1 THEN f[1].in ELSE x.out) \in 0 .. Stocks
    BY <1>0 DEF StageRecord
  <2> QED BY <1>1, <2>1, <2>2
<1>3. Steps(X, n, body)
  BY <1>2 DEF Steps
<1>4. PICK g : Loops(g, X, n, f[1], body)
  <2> HIDE DEF body, X, n
  <2> QED BY <1>0, <1>3, LoopExists
<1> DEFINE d == [k \in 1 .. n |-> g[k]]
<1>5. d = Pass(d)
  <2>1. ASSUME NEW k \in 1 .. n
        PROVE  d[k] = Rebuilt(f[k], IF k = 1 THEN f[1].in ELSE d[k - 1].out)
    <3>1. g[k] = body[<<k, g[k - 1]>>] /\ g[k - 1] \in X
      <4>1. k - 1 \in 0 .. n
        BY <1>0
      <4> HIDE DEF body, X, n
      <4> QED BY <1>4, <4>1 DEF Loops
    <3>2. body[<<k, g[k - 1]>>] =
             Rebuilt(f[k], IF k = 1 THEN f[1].in ELSE g[k - 1].out)
      BY <3>1
    <3>3. k # 1 => d[k - 1] = g[k - 1]
      OBVIOUS
    <3> HIDE DEF body
    <3> QED BY <3>1, <3>2, <3>3
  <2> QED BY <1>0, <2>1
<1> DEFINE c == Chain(f)
<1>6. c = Pass(c)
  <2> HIDE DEF d
  <2> QED BY <1>5 DEF Chain
<1> HIDE DEF c
<1>7. c = [k \in 1 .. n |-> c[k]] /\ \A k \in 1 .. n :
         c[k] = Rebuilt(f[k], IF k = 1 THEN f[1].in ELSE c[k - 1].out)
  BY <1>0, <1>6
<1>8. c[1] = Rebuilt(f[1], f[1].in)
  BY <1>0, <1>7
<1>9. ASSUME NEW k \in 2 .. n PROVE c[k] = Rebuilt(f[k], c[k - 1].out)
  <2>1. k \in 1 .. n /\ k # 1
    BY <1>0
  <2> QED BY <1>7, <2>1
<1> QED BY <1>7, <1>8, <1>9 DEF c

(* A rebuilt funnel is in order and each stage starts from what the one    *)
(* before left; the last one, never skipped, keeps its count.              *)
LEMMA SanitizedIs ==
    ASSUME NEW f, Ordered(f), Len(f) = 10, Stocks \in Nat,
           f[10].status # "SKIPPED"
    PROVE  /\ Ordered(Sanitized(f)) /\ Len(Sanitized(f)) = 10
           /\ Chained(Sanitized(f)) /\ Sanitized(f)[10].out = f[10].out
<1>1. CASE Chained(f)
  BY <1>1 DEF Sanitized
<1>2. CASE ~Chained(f)
  <2> DEFINE c == Chain(f)
  <2>1. Sanitized(f) = c
    BY <1>2 DEF Sanitized
  <2>2. /\ f \in Seq(StageRecord)
        /\ \A k \in 1 .. 10 :
             /\ f[k] \in StageRecord /\ f[k].in \in 0 .. Stocks /\ f[k].out \in 0 .. Stocks
             /\ f[k].stage = StageNames[k] /\ f[k].out <= f[k].in
             /\ f[k].status = "SKIPPED" => f[k].out = f[k].in
             /\ k > 1 => f[k].in <= f[k - 1].out
    <3>1. f \in Seq(StageRecord) /\ \A k \in 1 .. 10 : f[k] \in StageRecord
      BY OrderedSeq
    <3>2. \A x \in StageRecord : x.in \in 0 .. Stocks /\ x.out \in 0 .. Stocks
      BY DEF StageRecord
    <3>3. \A k \in 1 .. 10 : /\ f[k].stage = StageNames[k] /\ f[k].out <= f[k].in
                             /\ f[k].status = "SKIPPED" => f[k].out = f[k].in
                             /\ k > 1 => f[k].in <= f[k - 1].out
      BY DEF Ordered
    <3> QED BY <3>1, <3>2, <3>3
  <2>3. /\ c = [k \in 1 .. 10 |-> c[k]]
        /\ c[1] = Rebuilt(f[1], f[1].in)
        /\ \A k \in 2 .. 10 : c[k] = Rebuilt(f[k], c[k - 1].out)
    <3>1. f \in Seq(StageRecord) /\ Len(f) >= 1
      BY <2>2
    <3>2. /\ c = [k \in 1 .. Len(f) |-> c[k]]
          /\ c[1] = Rebuilt(f[1], f[1].in)
          /\ \A k \in 2 .. Len(f) : c[k] = Rebuilt(f[k], c[k - 1].out)
      BY <3>1, ChainIs
    <3> HIDE DEF c
    <3> QED BY <3>2
  <2> HIDE DEF c
  <2> DEFINE Good(k) ==
               /\ c[k] \in StageRecord /\ c[k].stage = f[k].stage
               /\ c[k].status = f[k].status
               /\ c[k].out \in 0 .. Stocks /\ c[k].out <= c[k].in
               /\ c[k].status = "SKIPPED" => c[k].out = c[k].in
               /\ c[k].out >= f[k].out
               /\ c[k].status # "SKIPPED" => c[k].out = f[k].out
  <2>4. ASSUME NEW k \in 1 .. 10, NEW i \in 0 .. Stocks, i >= f[k].in,
               c[k] = Rebuilt(f[k], i)
        PROVE  Good(k) /\ c[k].in = i
    <3> DEFINE o == IF f[k].status = "SKIPPED" THEN i ELSE f[k].out
    <3>1. c[k] = Stage(f[k].stage, f[k].status, i, o)
      BY <2>4 DEF Rebuilt
    <3>2. o \in 0 .. Stocks /\ o <= i /\ o >= f[k].out
      <4>1. f[k].in \in 0 .. Stocks /\ f[k].out \in 0 .. Stocks /\ f[k].out <= f[k].in
        BY <2>2
      <4> QED BY <2>4, <4>1
    <3>3. f[k].status # "SKIPPED" => o = f[k].out
      OBVIOUS
    <3>4. f[k].status = "SKIPPED" => o = i
      OBVIOUS
    <3> HIDE DEF o
    <3>5. c[k] = [stage |-> f[k].stage, status |-> f[k].status, in |-> i, out |-> o]
      BY <3>1, <3>2 DEF Stage
    <3>6. c[k] \in StageRecord
      <4>1. f[k] \in StageRecord
        BY <2>2
      <4> QED BY <3>2, <3>5, <4>1 DEF StageRecord
    <3>7. /\ c[k].stage = f[k].stage /\ c[k].status = f[k].status
          /\ c[k].in = i /\ c[k].out = o
      BY <3>5
    <3> QED BY <3>2, <3>3, <3>4, <3>6, <3>7
  <2>5. Good(1)
    <3>1. f[1].in \in 0 .. Stocks /\ 1 \in 1 .. 10
      BY <2>2
    <3> HIDE DEF Good
    <3> QED BY <2>3, <2>4, <3>1
  <2>6. ASSUME NEW k \in 2 .. 10, Good(k - 1)
        PROVE  Good(k) /\ c[k].in = c[k - 1].out
    <3> DEFINE i == c[k - 1].out
    <3>1. k \in 1 .. 10 /\ k - 1 \in 1 .. 10 /\ k > 1
      OBVIOUS
    <3>2. i \in 0 .. Stocks /\ i >= f[k - 1].out
      BY <2>6
    <3>3. f[k].in <= f[k - 1].out /\ f[k].in \in Int /\ f[k - 1].out \in Int
      <4>1. f[k].in <= f[k - 1].out /\ f[k].in \in 0 .. Stocks
        BY <2>2, <3>1
      <4>2. f[k - 1].out \in 0 .. Stocks
        BY <2>2, <3>1
      <4> QED BY <4>1, <4>2
    <3>4. c[k] = Rebuilt(f[k], i)
      BY <2>3
    <3> HIDE DEF Good, i
    <3>5. i >= f[k].in
      BY <3>2, <3>3
    <3>6. Good(k) /\ c[k].in = i
      BY <2>4, <3>1, <3>2, <3>4, <3>5
    <3> QED BY <3>6 DEF i
  <2>7. \A k \in 1 .. 10 : Good(k)
    <3> DEFINE P == {k \in Nat : k \in 0 .. 9 => Good(k + 1)}
    <3>1. 0 \in P /\ P \in SUBSET Nat
      BY <2>5
    <3>2. ASSUME NEW k \in 0 .. (9 - 1), k \in P PROVE k + 1 \in P
      <4>1. Good(k + 1) /\ k + 2 \in 2 .. 10 /\ (k + 2) - 1 = k + 1
        BY <3>2
      <4> HIDE DEF Good
      <4>2. Good(k + 2)
        BY <2>6, <4>1
      <4>3. k + 1 \in Nat /\ (k + 1) + 1 = k + 2
        OBVIOUS
      <4> QED BY <4>2, <4>3
    <3> HIDE DEF P
    <3>3. \A k \in 0 .. 9 : k \in P
      BY <3>1, <3>2, UpTo
    <3> HIDE DEF Good
    <3>4. ASSUME NEW k \in 1 .. 10 PROVE Good(k)
      <4>1. k - 1 \in 0 .. 9 /\ (k - 1) + 1 = k
        OBVIOUS
      <4> QED BY <3>3, <4>1 DEF P
    <3> QED BY <3>4
  <2>8. \A k \in 2 .. 10 : c[k].in = c[k - 1].out
    <3> TAKE k \in 2 .. 10
    <3>1. k - 1 \in 1 .. 10
      OBVIOUS
    <3> HIDE DEF Good
    <3> QED BY <2>6, <2>7, <3>1
  <2>9. c \in Seq(StageRecord) /\ Len(c) = 10
    <3>1. \A k \in 1 .. 10 : c[k] \in StageRecord
      BY <2>7
    <3> HIDE DEF Good
    <3> QED BY <2>3, <3>1, Listed
  <2>10. Ordered(c)
    <3>1. \A k \in 1 .. 10 : /\ c[k].stage = StageNames[k] /\ c[k].out <= c[k].in
                             /\ c[k].status = "SKIPPED" => c[k].out = c[k].in
      BY <2>2, <2>7
    <3>2. \A k \in 1 .. 10 : k > 1 => c[k].in <= c[k - 1].out
      <4> TAKE k \in 1 .. 10
      <4> HAVE k > 1
      <4>1. k \in 2 .. 10 /\ k - 1 \in 1 .. 10
        OBVIOUS
      <4>2. c[k - 1].out \in 0 .. Stocks
        BY <2>7, <4>1
      <4> QED BY <2>8, <4>1, <4>2
    <3> HIDE DEF Good
    <3> QED BY <2>9, <3>1, <3>2 DEF Ordered
  <2>11. c[10].out = f[10].out
    <3>1. c[10].status = f[10].status
      BY <2>7
    <3>2. c[10].status # "SKIPPED" => c[10].out = f[10].out
      BY <2>7
    <3> QED BY <3>1, <3>2
  <2>12. Chained(c)
    BY <2>8, <2>9 DEF Chained
  <2> HIDE DEF Good
  <2> QED BY <2>1, <2>9, <2>10, <2>11, <2>12
<1> QED BY <1>1, <1>2

(* Of the stocks of a set, the best one is never dropped for its issuer.   *)
LEMMA BestStays ==
    ASSUME NEW A, A \subseteq Stock, A # {}, Stocks \in Nat
    PROVE  Deduped(A) # {} /\ \E t \in A : \A u \in A : t <= u
<1>1. PICK t \in A : \A u \in A : <<u, t>> \notin OpToRel(<, Nat)
  <2>1. A \subseteq Nat
    BY DEF Stock
  <2> QED BY <2>1, NatLessThanWellFounded, WFMin
<1>2. \A u \in A : t <= u
  <2> TAKE u \in A
  <2>1. u \in Nat /\ t \in Nat
    BY DEF Stock
  <2>2. ~(u < t)
    BY <1>1, <2>1 DEF OpToRel
  <2> QED BY <2>1, <2>2
<1>3. t \in Deduped(A)
  BY <1>2 DEF Deduped
<1> QED BY <1>2, <1>3

(* The stages of the selection prolong the funnel of the filters, and say  *)
(* where the last stock was lost.                                          *)
LEMMA SelectionTold ==
    ASSUME NEW f, Ordered(f), Len(f) = 4, NEW S, S \subseteq Stock, S # {},
           NEW b, NEW top \in Nat, Stocks \in Nat, cfg.cap \in Nat,
           Cardinality(S) <= f[4].out
    PROVE  /\ Ordered(f \o PipelineStages(S, b, top))
           /\ Len(f \o PipelineStages(S, b, top)) = 10
           /\ Told(f \o PipelineStages(S, b, top), S, b, Selected(S, b, top))
<1> DEFINE P == PipelineStages(S, b, top)
           K == KeptSets(S, b, top)
           h == f \o P
<1>1. Shrink(K, S, b, top)
  BY KeptShrink
<1>2. Accounts(P, K)
  BY PipelineIs
<1> HIDE DEF P, K
<1>3. ASSUME NEW k \in 1 .. 6
      PROVE  /\ Cardinality(K[k]) \in 0 .. Stocks
             /\ Cardinality(K[k + 1]) \in 0 .. Stocks
             /\ Cardinality(K[k + 1]) <= Cardinality(K[k])
             /\ Cardinality(K[k]) = 0 <=> K[k] = {}
             /\ Cardinality(K[k + 1]) = 0 <=> K[k + 1] = {}
             /\ Off(k) => K[k + 1] = K[k]
  <2>1. \A j \in 1 .. 6 : K[j + 1] \subseteq K[j] /\ (Off(j) => K[j + 1] = K[j])
    BY <1>1 DEF Shrink
  <2>2. K[1] \subseteq Stock /\ K[2] \subseteq Stock /\ K[3] \subseteq Stock
    BY <1>1, <2>1 DEF Shrink
  <2>3. K[4] \subseteq Stock /\ K[5] \subseteq Stock /\ K[6] \subseteq Stock
    BY <2>1, <2>2
  <2>4. k = 1 \/ k = 2 \/ k = 3 \/ k = 4 \/ k = 5 \/ k = 6
    OBVIOUS
  <2>5. K[k] \subseteq Stock /\ K[k + 1] \subseteq K[k]
    BY <2>1, <2>2, <2>3, <2>4
  <2>6. K[k + 1] \subseteq Stock
    BY <2>5
  <2> QED BY <2>1, <2>5, <2>6, Counts
<1>4. ASSUME NEW k \in 1 .. 6
      PROVE  /\ P[k] \in StageRecord /\ P[k].stage = StageNames[4 + k]
             /\ P[k].in = Cardinality(K[k]) /\ P[k].out = Cardinality(K[k + 1])
             /\ P[k].out <= P[k].in
             /\ P[k].status = "SKIPPED" => P[k].out = P[k].in
             /\ P[k].status = "APPLIED" <=> K[k] # {} /\ ~Off(k)
             /\ P[k].status = "SKIPPED" => Off(k)
  <2> DEFINE st == IF K[k] = {} THEN "NOT_RUN"
                   ELSE IF Off(k) THEN "SKIPPED" ELSE "APPLIED"
  <2>1. P[k] = [stage |-> StageNames[k + 4], status |-> st,
                in |-> Cardinality(K[k]), out |-> Cardinality(K[k + 1])]
    BY <1>2 DEF Accounts
  <2>2. /\ st \in {"APPLIED", "SKIPPED", "NOT_RUN"}
        /\ st = "SKIPPED" => Off(k)
        /\ st = "APPLIED" <=> K[k] # {} /\ ~Off(k)
    OBVIOUS
  <2> HIDE DEF st
  <2>3. StageNames[k + 4] \in Range(StageNames) /\ k + 4 = 4 + k
    <3>1. k + 4 \in 1 .. 10 /\ k + 4 = 4 + k
      OBVIOUS
    <3> QED BY <3>1, TenStages
  <2>4. P[k] \in StageRecord
    BY <1>3, <2>1, <2>2, <2>3 DEF StageRecord
  <2>5. /\ P[k].stage = StageNames[4 + k] /\ P[k].status = st
        /\ P[k].in = Cardinality(K[k]) /\ P[k].out = Cardinality(K[k + 1])
    BY <2>1, <2>3
  <2> QED BY <1>3, <2>2, <2>4, <2>5
<1>5. P \in Seq(StageRecord) /\ Len(P) = 6
  <2>1. P = [k \in 1 .. 6 |-> P[k]] /\ \A k \in 1 .. 6 : P[k] \in StageRecord
    BY <1>2, <1>4 DEF Accounts
  <2> QED BY <2>1, Listed
<1>6. \A j \in 1 .. Len(P) :
        /\ P[j].stage = StageNames[Len(f) + j] /\ P[j].out <= P[j].in
        /\ P[j].status = "SKIPPED" => P[j].out = P[j].in
        /\ P[j].in <= IF j = 1 THEN f[Len(f)].out ELSE P[j - 1].out
  <2> TAKE j \in 1 .. Len(P)
  <2>1. j \in 1 .. 6
    BY <1>5
  <2>2. CASE j = 1
    BY <1>1, <1>4, <2>1, <2>2 DEF Shrink
  <2>3. CASE j # 1
    <3>1. j - 1 \in 1 .. 6 /\ (j - 1) + 1 = j
      BY <2>1, <2>3
    <3>2. P[j].in = P[j - 1].out /\ P[j].in \in 0 .. Stocks
      <4>1. P[j - 1].out = Cardinality(K[(j - 1) + 1])
        BY <1>4, <3>1
      <4>2. P[j].in = Cardinality(K[j]) /\ Cardinality(K[j]) \in 0 .. Stocks
        BY <1>3, <1>4, <2>1
      <4> QED BY <3>1, <4>1, <4>2
    <3>3. P[j].in <= P[j - 1].out
      BY <3>2
    <3>4. /\ P[j].stage = StageNames[Len(f) + j] /\ P[j].out <= P[j].in
          /\ P[j].status = "SKIPPED" => P[j].out = P[j].in
      BY <1>4, <2>1
    <3> QED BY <2>3, <3>3, <3>4
  <2> QED BY <2>2, <2>3
<1>7. /\ Ordered(h) /\ Len(h) = Len(f) + Len(P)
      /\ \A j \in 1 .. Len(P) : h[Len(f) + j] = P[j]
  <2>1. Len(f) >= 1
    OBVIOUS
  <2>2. GoesOn(f, P)
    BY <1>5, <1>6, <2>1, Zenon DEF GoesOn
  <2>3. \A g : GoesOn(f, g) =>
                /\ Ordered(f \o g) /\ Len(f \o g) = Len(f) + Len(g)
                /\ \A j \in 1 .. Len(g) : (f \o g)[Len(f) + j] = g[j]
    BY Prolonged
  <2> QED BY <2>2, <2>3
<1> HIDE DEF h
<1>8. /\ Ordered(h) /\ Len(h) = 10
      /\ h[5] = P[1] /\ h[8] = P[4] /\ h[9] = P[5] /\ h[10] = P[6]
  BY <1>5, <1>7
<1>9. Told(h, S, b, Selected(S, b, top))
  <2>1. /\ K[2] = MinScore(S, b) /\ K[5] = Passes(S, b)
        /\ K[6] = Deduped(Passes(S, b)) /\ K[7] = Selected(S, b, top)
        /\ K[5] \subseteq K[4] /\ K[6] \subseteq K[5]
    BY <1>1 DEF Shrink
  <2>2. ~Off(4) /\ ~Off(5) /\ ~Off(6)
    BY DEF Off
  <2>3. K[5] # {} <=> K[6] # {}
    <3>1. K[5] \subseteq Stock
      BY <2>1 DEF Passes
    <3> QED BY <2>1, <3>1, BestStays
  <2>4. /\ P[1].out = 0 => K[2] = {}
        /\ P[4].out = 0 => K[5] = {}
        /\ P[5].out = 0 => K[6] = {}
        /\ P[6].out = Cardinality(K[7])
    BY <1>3, <1>4
  <2>5. /\ P[4].status = "APPLIED" <=> K[4] # {}
        /\ P[5].status = "APPLIED" <=> K[5] # {}
        /\ P[6].status = "APPLIED" <=> K[6] # {}
        /\ P[6].status # "SKIPPED"
    <3>1. \A k \in 1 .. 6 : /\ P[k].status = "APPLIED" <=> K[k] # {} /\ ~Off(k)
                            /\ P[k].status = "SKIPPED" => Off(k)
      BY <1>4
    <3> QED BY <2>2, <3>1
  <2> HIDE DEF K, P
  <2> QED BY <1>8, <2>1, <2>3, <2>4, <2>5 DEF Told
<1> QED BY <1>8, <1>9 DEF h, P

-----------------------------------------------------------------------------
(* The steps                                                               *)
(* The settings a run finds are numbers, and the master lists a stock.     *)
LEMMA Settings ==
    ASSUME cfg \in Config
    PROVE  /\ cfg.top \in Nat /\ cfg.cap \in Nat /\ cfg.shadowtop \in Nat
           /\ Stocks \in Nat /\ Stocks >= 1
BY SelectionAssumption DEF SelectionAssumption, ConfigType

(* No stock counts for none.                                               *)
LEMMA NothingCounted == Cardinality({}) = 0
BY FS_EmptySet

(* The invariant holds before a run: nothing recorded, nothing offered.    *)
THEOREM InitTyped == Init => IInv
<1> SUFFICES ASSUME Init PROVE IInv
  OBVIOUS
<1>0. /\ pc = "universe" /\ cfg \in Config /\ cur = {} /\ tags = <<>> /\ bar = 0
      /\ shadowbar = 0 /\ funnel = <<>> /\ cands = {} /\ shadow = {}
      /\ eligshadow = {} /\ notes = NoNotes /\ status = ""
  BY DEF Init
<1>1. Typed
  <2>1. 0 \in 0 .. Stocks
    BY SelectionAssumption DEF SelectionAssumption
  <2>2. pc \in DOMAIN Length /\ Unscored /\ pc # "select"
    BY <1>0 DEF Length, Unscored
  <2> QED BY <1>0, <2>1, <2>2 DEF Typed
<1>2. FunnelKept
  <2>1. <<>> \in Seq(StageRecord) /\ Len(<<>>) = 0
    BY EmptySeq
  <2>2. Ordered(<<>>)
    <3>1. \A i \in 1 .. Len(<<>>) : FALSE
      BY <2>1
    <3> QED BY <2>1, <3>1, Zenon DEF Ordered
  <2>3. Length["universe"] = 0
    BY DEF Length
  <2> QED BY <1>0, <2>1, <2>2, <2>3 DEF FunnelKept, Filtering
<1> QED BY <1>0, <1>1, <1>2 DEF IInv, Chosen, Selecting

(* A step before the selection keeps the invariant when it goes on with    *)
(* the stocks that are left, and when it ends the run without any.         *)
LEMMA BeforeSelection ==
    ASSUME IInv, UNCHANGED <<inputs, cands, shadow, eligshadow, notes, status>>,
           pc \in {"universe", "marcap", "amount", "lists", "score"},
           cur' \subseteq Stock, Ordered(funnel'),
           \/ /\ pc' \in {"marcap", "amount", "lists", "score", "enrich"}
              /\ cur' # {} /\ Len(funnel') = Length[pc']
              /\ Cardinality(cur') <= funnel'[Length[pc']].out
           \/ /\ pc' = "store" /\ cur' = {} /\ Len(funnel') = 10
              /\ funnel'[10].out = 0 /\ funnel'[10].status = "NOT_RUN"
    PROVE  IInv'
<1>1. Typed /\ Unscored
  BY DEF IInv, Unscored
<1>2. UNCHANGED <<cfg, tags, bar, shadowbar>>
  BY DEF inputs
<1>3. pc' \in DOMAIN Length /\ Unscored' /\ pc' # "select"
  BY DEF Length, Unscored
<1>4. Typed'
  BY <1>1, <1>2, <1>3 DEF Typed, NoNotes
<1>5. FunnelKept'
  <2>1. CASE pc' = "store"
    <3>1. Length["store"] = 10
      BY DEF Length
    <3>2. cands' = {} /\ cur' = {}
      BY <1>1, <2>1 DEF Typed
    <3> QED BY <2>1, <3>1, <3>2, NothingCounted DEF FunnelKept, Filtering
  <2>2. CASE pc' # "store"
    BY <2>2 DEF FunnelKept, Filtering
  <2> QED BY <2>1, <2>2
<1>6. ~Chosen' /\ ~Selecting' /\ pc' # "annotate"
  BY DEF Chosen, Selecting
<1>7. NotesTrue'
  <2>1. cands' = {} /\ eligshadow' = {} /\ notes' = NoNotes
    BY <1>1 DEF Typed
  <2>2. /\ notes'.elig = {} /\ notes'.issuer = {} /\ notes'.issuerdrop = {}
        /\ notes'.sectordrop = {}
    BY <2>1 DEF NoNotes
  <2> QED BY <2>1, <2>2 DEF NotesTrue
<1>8. ~(pc' \in {"store", "done"} /\ cur' # {})
  OBVIOUS
<1> QED BY <1>4, <1>5, <1>6, <1>7, <1>8 DEF IInv

(* The reading of the master: every stock, or the exit without any.        *)
LEMMA UniverseKeeps ==
    ASSUME IInv, Universe PROVE IInv'
<1>1. /\ pc = "universe" /\ Ordered(funnel) /\ Len(funnel) = 0
      /\ UNCHANGED <<inputs, cands, shadow, eligshadow, notes, status>>
  <2>1. pc = "universe" /\ UNCHANGED <<inputs, cands, shadow, eligshadow, notes, status>>
    BY DEF Universe
  <2>2. Length["universe"] = 0
    BY DEF Length
  <2> QED BY <2>1, <2>2 DEF IInv, FunnelKept
<1>2. Stocks \in Nat /\ Stocks >= 1
  BY SelectionAssumption DEF SelectionAssumption
<1>3. /\ StageNames[1] = "UNIVERSE" /\ StageNames[2] = "MARKET_CAP"
      /\ StageNames[3] = "AMOUNT5D"
  BY DEF StageNames
<1>4. \A i \in 1 .. 3 : StageNames[i] \in Range(StageNames)
  BY TenStages
<1>5. CASE /\ cur' = Stock /\ Record(Applied("UNIVERSE", Stocks, Stocks))
           /\ Goto("marcap")
  <2> DEFINE s == Applied("UNIVERSE", Stocks, Stocks)
  <2>1. s = [stage |-> StageNames[1], status |-> "APPLIED", in |-> Stocks, out |-> Stocks]
    BY <1>2, <1>3 DEF Applied, Stage
  <2>2. s \in StageRecord
    BY <1>2, <1>4, <2>1 DEF StageRecord
  <2>3. /\ s.stage = StageNames[1] /\ s.out = Stocks /\ s.in = Stocks
        /\ s.status = "APPLIED"
    BY <2>1
  <2> HIDE DEF s
  <2>4. funnel' = <<s>>
    <3>1. funnel = <<>>
      BY <1>1, EmptySeq DEF Ordered
    <3> QED BY <1>5, <3>1 DEF Record, s
  <2>5. Len(<<s>>) = 1 /\ <<s>>[1] = s /\ <<s>> \in Seq(StageRecord)
    BY <2>2
  <2>6. Ordered(funnel')
    <3>1. \A i \in 1 .. Len(<<s>>) : i = 1
      BY <2>5
    <3> QED BY <1>2, <2>3, <2>4, <2>5, <3>1 DEF Ordered
  <2>7. /\ cur' \subseteq Stock /\ cur' # {} /\ pc' = "marcap"
        /\ Cardinality(cur') = Stocks
    <3>1. 1 \in Stock
      BY <1>2 DEF Stock
    <3>2. Cardinality(Stock) = Stocks
      BY <1>2, Counts
    <3> QED BY <1>5, <3>1, <3>2 DEF Goto
  <2>8. Length["marcap"] = 1
    BY DEF Length
  <2>9. /\ Len(funnel') = Length[pc']
        /\ Cardinality(cur') <= funnel'[Length[pc']].out
    BY <1>2, <2>3, <2>4, <2>5, <2>7, <2>8
  <2> QED BY <1>1, <2>6, <2>7, <2>9, BeforeSelection
<1>6. CASE /\ cur' = {}
           /\ EmptyRun(<<Applied("UNIVERSE", 0, 0), Skipped("MARKET_CAP", 0),
                         NotRun("AMOUNT5D")>>, "EMPTY_DATA_QUALITY")
  <2> DEFINE s1 == Applied("UNIVERSE", 0, 0)
             s2 == Skipped("MARKET_CAP", 0)
             s3 == NotRun("AMOUNT5D")
             f  == <<s1, s2, s3>>
  <2>1. /\ s1 = [stage |-> StageNames[1], status |-> "APPLIED", in |-> 0, out |-> 0]
        /\ s2 = [stage |-> StageNames[2], status |-> "SKIPPED", in |-> 0, out |-> 0]
        /\ s3 = [stage |-> StageNames[3], status |-> "NOT_RUN", in |-> 0, out |-> 0]
    BY <1>3 DEF Applied, Skipped, NotRun, Stage
  <2>2. s1 \in StageRecord /\ s2 \in StageRecord /\ s3 \in StageRecord
    <3>1. 0 \in 0 .. Stocks
      BY <1>2
    <3> HIDE DEF s1, s2, s3
    <3> QED BY <1>4, <2>1, <3>1 DEF StageRecord
  <2>3. /\ s1.stage = StageNames[1] /\ s1.in = 0 /\ s1.out = 0
        /\ s2.stage = StageNames[2] /\ s2.in = 0 /\ s2.out = 0
        /\ s3.stage = StageNames[3] /\ s3.in = 0 /\ s3.out = 0
    BY <2>1
  <2>4. EmptyRun(f, "EMPTY_DATA_QUALITY")
    BY <1>6
  <2> HIDE DEF s1, s2, s3
  <2>5. f \in Seq(StageRecord) /\ Len(f) = 3 /\ f[1] = s1 /\ f[2] = s2 /\ f[3] = s3
    BY <2>2
  <2> HIDE DEF f
  <2>6. Ordered(f)
    <3>1. ASSUME NEW i \in 1 .. Len(f)
          PROVE  /\ f[i].stage = StageNames[i] /\ f[i].in = 0 /\ f[i].out = 0
                 /\ i > 1 => f[i - 1].out = 0
      <4>1. i = 1 \/ i = 2 \/ i = 3
        BY <2>5
      <4> QED BY <2>3, <2>5, <4>1
    <3> QED BY <2>5, <3>1 DEF Ordered
  <2>7. funnel' = f \o NotRunFrom(4) /\ pc' = "store" /\ cur' = {}
    BY <1>6, <2>4, <2>5 DEF EmptyRun, Goto
  <2>8. /\ Ordered(f \o NotRunFrom(3 + 1)) /\ Len(f \o NotRunFrom(3 + 1)) = 10
        /\ (f \o NotRunFrom(3 + 1))[10].out = 0
        /\ (f \o NotRunFrom(3 + 1))[10].status = "NOT_RUN"
    BY <1>2, <2>5, <2>6, EndedEarly
  <2> QED BY <1>1, <2>7, <2>8, BeforeSelection
<1> QED BY <1>5, <1>6 DEF Universe

(* The exit of a filter that leaves no stock.                              *)
LEMMA EmptyExit ==
    ASSUME IInv, UNCHANGED <<inputs, cands, shadow, eligshadow, notes, status>>,
           pc \in {"universe", "marcap", "amount", "lists", "score"}, cur' = {},
           NEW f, Ordered(f), Len(f) \in 1 .. 9, NEW why, EmptyRun(f, why)
    PROVE  IInv'
<1> DEFINE n == Len(f)
<1>1. funnel' = f \o NotRunFrom(n + 1) /\ pc' = "store"
  BY DEF EmptyRun, Goto
<1>2. /\ Ordered(f \o NotRunFrom(n + 1)) /\ Len(f \o NotRunFrom(n + 1)) = 10
      /\ (f \o NotRunFrom(n + 1))[10].out = 0
      /\ (f \o NotRunFrom(n + 1))[10].status = "NOT_RUN"
  <2>1. Stocks \in Nat
    BY SelectionAssumption DEF SelectionAssumption
  <2> QED BY <2>1, EndedEarly
<1> QED BY <1>1, <1>2, BeforeSelection

(* A filter records the stocks it found and those it leaves.               *)
FilterStage(S, st, n, name) ==
    /\ pc \in {"marcap", "amount", "score"} /\ S \subseteq cur
    /\ st \in {"APPLIED", "SKIPPED"} /\ (st = "SKIPPED" => S = cur)
    /\ n \in 1 .. 9 /\ n = Length[pc] /\ name = StageNames[n + 1]

(* What a filter records of the stocks it keeps goes on from what the stage*)
(* before left.                                                            *)
LEMMA FilterRecords ==
    ASSUME IInv, NEW S, NEW st, NEW n, NEW name, FilterStage(S, st, n, name)
    PROVE  /\ Longer(Append(funnel, Stage(name, st, Cardinality(cur), Cardinality(S))),
                     n + 1, Cardinality(S))
           /\ S \subseteq Stock /\ Cardinality(S) \in 0 .. Stocks
<1>0. /\ pc \in {"marcap", "amount", "score"} /\ S \subseteq cur
      /\ st \in {"APPLIED", "SKIPPED", "NOT_RUN"} /\ (st = "SKIPPED" => S = cur)
      /\ n \in 1 .. 9 /\ n = Length[pc] /\ name = StageNames[n + 1]
  BY DEF FilterStage
<1>1. /\ cur \subseteq Stock /\ S \subseteq Stock
      /\ Ordered(funnel) /\ Len(funnel) = n
      /\ Cardinality(cur) <= funnel[n].out
  <2>1. cur \subseteq Stock
    BY DEF IInv, Typed
  <2>2. Ordered(funnel) /\ Len(funnel) = n /\ Cardinality(cur) <= funnel[n].out
    BY <1>0 DEF IInv, FunnelKept, Filtering
  <2> QED BY <1>0, <2>1, <2>2
<1>2. Stocks \in Nat
  BY SelectionAssumption DEF SelectionAssumption
<1>3. /\ Cardinality(cur) \in 0 .. Stocks /\ Cardinality(S) \in 0 .. Stocks
      /\ Cardinality(S) <= Cardinality(cur)
  BY <1>0, <1>1, <1>2, Counts
<1> DEFINE i == Cardinality(cur)
           o == Cardinality(S)
<1>4. st = "SKIPPED" => o = i
  BY <1>0
<1> HIDE DEF i, o
<1>5. i \in 0 .. Stocks /\ o \in 0 .. Stocks /\ o <= i /\ i <= funnel[n].out
  BY <1>1, <1>3 DEF i, o
<1>6. MayFollow(funnel, n, st, i, o)
  BY <1>0, <1>1, <1>4, <1>5 DEF MayFollow
<1>7. Longer(Append(funnel, Stage(StageNames[n + 1], st, i, o)), n + 1, o)
  BY <1>2, <1>6, Recorded
<1> QED BY <1>0, <1>1, <1>3, <1>7 DEF o, i

(* How many stages a filter finds recorded, and the name of the next one.  *)
LEMMA PlacesOfFilters ==
    /\ Length["marcap"] = 1 /\ Length["amount"] = 2 /\ Length["lists"] = 3
    /\ Length["score"] = 3 /\ Length["enrich"] = 4 /\ Length["select"] = 4
    /\ StageNames[2] = "MARKET_CAP" /\ StageNames[3] = "AMOUNT5D"
    /\ StageNames[4] = "SCORING"
BY DEF Length, StageNames

(* The market cap filter, applied or skipped for missing data.             *)
LEMMA MarketCapKeeps ==
    ASSUME IInv, MarketCap PROVE IInv'
<1> DEFINE n == Cardinality(cur)
<1>1. /\ pc = "marcap" /\ Length[pc] = 1 /\ StageNames[1 + 1] = "MARKET_CAP"
      /\ UNCHANGED <<inputs, cands, shadow, eligshadow, notes, status>>
  BY PlacesOfFilters DEF MarketCap
<1>2. cur # {} /\ cur \subseteq Stock
  BY <1>1 DEF IInv, FunnelKept, Filtering, Typed
<1>3. CASE Record(Skipped("MARKET_CAP", n)) /\ Goto("amount") /\ cur' = cur
  <2>1. funnel' = Append(funnel, Stage("MARKET_CAP", "SKIPPED", n, n)) /\ pc' = "amount"
    BY <1>3 DEF Record, Goto, Skipped
  <2>2. Ordered(funnel') /\ Len(funnel') = 1 + 1 /\ funnel'[1 + 1].out = n
    <3>1. FilterStage(cur, "SKIPPED", 1, "MARKET_CAP")
      BY <1>1 DEF FilterStage
    <3> QED BY <2>1, <3>1, FilterRecords DEF Longer
  <2>3. n <= funnel'[2].out
    <3>1. n \in 0 .. Stocks
      BY <1>2, Counts, SelectionAssumption DEF SelectionAssumption
    <3> QED BY <2>2, <3>1
  <2> QED BY <1>1, <1>2, <1>3, <2>1, <2>2, <2>3, BeforeSelection, PlacesOfFilters
<1>4. ASSUME NEW S \in SUBSET cur, cur' = S,
             LET f == Append(funnel, Applied("MARKET_CAP", n, Cardinality(S)))
             IN  IF S = {}
                 THEN EmptyRun(f, "AMOUNT5D_DATA_UNAVAILABLE")
                 ELSE funnel' = f /\ Goto("amount") /\ UNCHANGED reason
      PROVE  IInv'
  <2> DEFINE f == Append(funnel, Applied("MARKET_CAP", n, Cardinality(S)))
  <2>1. f = Append(funnel, Stage("MARKET_CAP", "APPLIED", n, Cardinality(S)))
    BY DEF Applied
  <2>2. IF S = {} THEN EmptyRun(f, "AMOUNT5D_DATA_UNAVAILABLE")
                  ELSE funnel' = f /\ Goto("amount")
    BY <1>4
  <2> HIDE DEF f
  <2>3. /\ Ordered(f) /\ Len(f) = 1 + 1 /\ f[1 + 1].out = Cardinality(S)
        /\ S \subseteq Stock
    <3>1. FilterStage(S, "APPLIED", 1, "MARKET_CAP")
      BY <1>1 DEF FilterStage
    <3> QED BY <2>1, <3>1, FilterRecords DEF Longer
  <2>4. CASE S = {}
    BY <1>1, <1>4, <2>2, <2>3, <2>4, EmptyExit
  <2>5. CASE S # {}
    <3>1. Cardinality(S) \in 0 .. Stocks
      BY <2>3, Counts, SelectionAssumption DEF SelectionAssumption
    <3>2. Cardinality(cur') <= funnel'[2].out /\ pc' = "amount"
      BY <1>4, <2>2, <2>3, <2>5, <3>1 DEF Goto
    <3> QED BY <1>1, <1>4, <2>2, <2>3, <2>5, <3>2, BeforeSelection, PlacesOfFilters
  <2> QED BY <2>4, <2>5
<1> QED BY <1>3, <1>4 DEF MarketCap

(* The turnover filter, and its exit when no value could be fetched.       *)
LEMMA Amount5DKeeps ==
    ASSUME IInv, Amount5D PROVE IInv'
<1> DEFINE n == Cardinality(cur)
<1>1. /\ pc = "amount" /\ Length[pc] = 2 /\ StageNames[2 + 1] = "AMOUNT5D"
      /\ UNCHANGED <<inputs, cands, shadow, eligshadow, notes, status>>
  BY PlacesOfFilters DEF Amount5D
<1>2. PICK v \in Turnover(cur) :
         LET S == v.ok \cap v.high
             f == Append(funnel, Applied("AMOUNT5D", n, Cardinality(S))) IN
         /\ cur' = S
         /\ IF S = {} THEN EmptyRun(f, "AMOUNT5D_DATA_UNAVAILABLE")
                      ELSE funnel' = f /\ Goto("lists")
  BY DEF Amount5D
<1> DEFINE S == v.ok \cap v.high
           f == Append(funnel, Applied("AMOUNT5D", n, Cardinality(S)))
<1>3. S \subseteq cur
  BY DEF Turnover
<1>4. f = Append(funnel, Stage("AMOUNT5D", "APPLIED", n, Cardinality(S)))
  BY DEF Applied
<1>5. /\ cur' = S
      /\ IF S = {} THEN EmptyRun(f, "AMOUNT5D_DATA_UNAVAILABLE")
                   ELSE funnel' = f /\ Goto("lists")
  BY <1>2
<1> HIDE DEF f, S
<1>6. /\ Ordered(f) /\ Len(f) = 2 + 1 /\ f[2 + 1].out = Cardinality(S)
      /\ S \subseteq Stock
  <2>1. FilterStage(S, "APPLIED", 2, "AMOUNT5D")
    BY <1>1, <1>3 DEF FilterStage
  <2> QED BY <1>4, <2>1, FilterRecords DEF Longer
<1>7. CASE S = {}
  BY <1>1, <1>5, <1>6, <1>7, EmptyExit
<1>8. CASE S # {}
  <2>1. Cardinality(S) \in 0 .. Stocks
    BY <1>6, Counts, SelectionAssumption DEF SelectionAssumption
  <2>2. Cardinality(cur') <= funnel'[3].out /\ pc' = "lists"
    BY <1>5, <1>6, <1>8, <2>1 DEF Goto
  <2> QED BY <1>1, <1>5, <1>6, <1>8, <2>2, BeforeSelection, PlacesOfFilters
<1> QED BY <1>7, <1>8

(* The lists drop stocks that no stage records: the next stage starts from *)
(* fewer than the last one left.                                           *)
LEMMA ListsKeeps ==
    ASSUME IInv, Lists PROVE IInv'
<1>1. /\ pc = "lists" /\ Length[pc] = 3
      /\ UNCHANGED <<inputs, cands, shadow, eligshadow, notes, status>>
  BY PlacesOfFilters DEF Lists
<1>2. PICK S \in SUBSET cur :
         /\ cur' = S
         /\ IF S = {} THEN \E why \in {"AMOUNT5D_DATA_UNAVAILABLE", "SCORING_FAILURE_ALL"} :
                             EmptyRun(funnel, why)
                      ELSE Goto("score") /\ UNCHANGED <<funnel, reason>>
  BY DEF Lists
<1>3. /\ cur \subseteq Stock /\ Ordered(funnel) /\ Len(funnel) = 3
      /\ Cardinality(cur) <= funnel[3].out
  BY <1>1 DEF IInv, Typed, FunnelKept, Filtering
<1>4. /\ Cardinality(S) \in 0 .. Stocks /\ Cardinality(S) <= Cardinality(cur)
      /\ Cardinality(cur) \in 0 .. Stocks /\ funnel[3].out \in 0 .. Stocks
  <2>1. Stocks \in Nat
    BY SelectionAssumption DEF SelectionAssumption
  <2>2. funnel[3].out \in 0 .. Stocks
    BY <1>3, OrderedSeq
  <2> QED BY <1>2, <1>3, <2>1, <2>2, Counts
<1>5. CASE S = {}
  <2>1. PICK why \in {"AMOUNT5D_DATA_UNAVAILABLE", "SCORING_FAILURE_ALL"} :
           EmptyRun(funnel, why)
    BY <1>2, <1>5
  <2> QED BY <1>1, <1>2, <1>3, <1>5, <2>1, EmptyExit
<1>6. CASE S # {}
  <2>1. pc' = "score" /\ funnel' = funnel /\ Cardinality(cur') <= funnel'[3].out
    BY <1>2, <1>3, <1>4, <1>6 DEF Goto
  <2> QED BY <1>1, <1>2, <1>3, <1>6, <2>1, BeforeSelection, PlacesOfFilters
<1> QED BY <1>5, <1>6

(* The scoring, and its exit when no stock got a score.                    *)
LEMMA ScoreKeeps ==
    ASSUME IInv, Score PROVE IInv'
<1> DEFINE n == Cardinality(cur)
<1>1. /\ pc = "score" /\ Length[pc] = 3 /\ StageNames[3 + 1] = "SCORING"
      /\ UNCHANGED <<inputs, cands, shadow, eligshadow, notes, status>>
  BY PlacesOfFilters DEF Score
<1>2. PICK S \in Scorings(cur) :
         LET f == Append(funnel, Applied("SCORING", n, Cardinality(S))) IN
         /\ cur' = S
         /\ IF S = {} THEN EmptyRun(f, "SCORING_FAILURE_ALL")
                      ELSE funnel' = f /\ Goto("enrich")
  BY DEF Score
<1> DEFINE f == Append(funnel, Applied("SCORING", n, Cardinality(S)))
<1>3. S \subseteq cur
  BY DEF Scorings
<1>4. f = Append(funnel, Stage("SCORING", "APPLIED", n, Cardinality(S)))
  BY DEF Applied
<1>5. /\ cur' = S
      /\ IF S = {} THEN EmptyRun(f, "SCORING_FAILURE_ALL")
                   ELSE funnel' = f /\ Goto("enrich")
  BY <1>2
<1> HIDE DEF f
<1>6. /\ Ordered(f) /\ Len(f) = 3 + 1 /\ f[3 + 1].out = Cardinality(S)
      /\ S \subseteq Stock
  <2>1. FilterStage(S, "APPLIED", 3, "SCORING")
    BY <1>1, <1>3 DEF FilterStage
  <2> QED BY <1>4, <2>1, FilterRecords DEF Longer
<1>7. CASE S = {}
  BY <1>1, <1>5, <1>6, <1>7, EmptyExit
<1>8. CASE S # {}
  <2>1. Cardinality(S) \in 0 .. Stocks
    BY <1>6, Counts, SelectionAssumption DEF SelectionAssumption
  <2>2. Cardinality(cur') <= funnel'[4].out /\ pc' = "enrich"
    BY <1>5, <1>6, <1>8, <2>1 DEF Goto
  <2> QED BY <1>1, <1>5, <1>6, <1>8, <2>2, BeforeSelection, PlacesOfFilters
<1> QED BY <1>7, <1>8

(* A list well chosen stays so while what it was chosen from does.         *)
LEMMA StillChosen ==
    ASSUME NEW C, cands' = C, UNCHANGED <<cfg, tags, cur, bar>>,
           WellChosen(C, cur, bar, cfg.top)
    PROVE  WellChosen(cands, cur, bar, cfg.top)'
<1>1. Passes(cur, bar)' = Passes(cur, bar)
  BY DEF Passes, Excluded
<1>2. Deduped(Passes(cur, bar))' = Deduped(Passes(cur, bar))
  BY <1>1 DEF Deduped
<1>3. \A T, t : InSector(T, t)' = InSector(T, t)
  BY DEF InSector
<1>4. PerSector(cfg.top)' = PerSector(cfg.top)
  BY DEF PerSector
<1> QED BY <1>1, <1>2, <1>3, <1>4 DEF WellChosen, Below

(* What the stages say stays true while the stocks they count do.          *)
LEMMA StillTold ==
    ASSUME NEW C, cands' = C, NEW f, funnel' = f, UNCHANGED <<cfg, tags, cur, bar>>,
           Told(f, cur, bar, C)
    PROVE  Told(funnel, cur, bar, cands)'
<1>1. Passes(cur, bar)' = Passes(cur, bar)
  BY DEF Passes, Excluded
<1>2. MinScore(cur, bar)' = MinScore(cur, bar)
  BY DEF MinScore
<1> QED BY <1>1, <1>2 DEF Told

(* Enriching the scored stocks: who of them is held or excluded is known   *)
(* from here on.                                                           *)
LEMMA EnrichKeeps ==
    ASSUME IInv, Enrich PROVE IInv'
<1>1. /\ pc = "enrich" /\ pc' = "select" /\ tags' \in Enriched
      /\ bar' \in 0 .. Stocks /\ shadowbar' \in 0 .. Stocks
      /\ UNCHANGED <<cfg, cur, funnel>>
      /\ UNCHANGED <<cands, shadow, eligshadow, notes, status>>
  BY DEF Enrich, Goto, results
<1>2. Typed /\ FunnelKept /\ Unscored
  BY <1>1 DEF IInv, Unscored
<1>3. cur # {} /\ Cardinality(cur) <= funnel[Len(funnel)].out /\ Len(funnel) = 4
  BY <1>1, <1>2, PlacesOfFilters DEF FunnelKept, Filtering
<1>4. Typed'
  <2>1. pc' \in DOMAIN Length /\ ~Unscored'
    BY <1>1 DEF Length, Unscored
  <2>2. /\ tags' \in [cur -> Tags]
        /\ \A t \in cur : /\ ~cfg.momentum => tags'[t].momentum
                          /\ ~cfg.volatility => tags'[t].volatility
    BY <1>1 DEF Enriched
  <2> QED BY <1>1, <1>2, <1>3, <2>1, <2>2 DEF Typed
<1>5. FunnelKept'
  BY <1>1, <1>2, <1>3, PlacesOfFilters DEF FunnelKept, Filtering
<1> QED BY <1>1, <1>4, <1>5 DEF IInv, Chosen, Selecting

(* The selection: its list is well chosen and its stages say so.           *)
LEMMA SelectKeeps ==
    ASSUME IInv, Select PROVE IInv'
<1>1. /\ pc = "select" /\ pc' = "shadow"
      /\ cands' = Selected(cur, bar, cfg.top)
      /\ funnel' = funnel \o PipelineStages(cur, bar, cfg.top)
      /\ UNCHANGED <<cfg, tags, bar, shadowbar, cur, shadow, eligshadow, notes, status>>
  BY DEF Select, Goto, inputs
<1>2. /\ Typed /\ ~Unscored /\ Ordered(funnel) /\ Len(funnel) = 4
      /\ cur # {} /\ cur \subseteq Stock /\ Cardinality(cur) <= funnel[4].out
  BY <1>1, PlacesOfFilters DEF IInv, Typed, FunnelKept, Filtering, Unscored
<1>3. cfg.top \in Nat /\ cfg.cap \in Nat /\ Stocks \in Nat
  BY <1>2, Settings DEF Typed
<1>4. WellChosen(Selected(cur, bar, cfg.top), cur, bar, cfg.top)
  BY <1>2, <1>3, SelectedIs
<1>5. /\ Ordered(funnel') /\ Len(funnel') = 10
      /\ Told(funnel', cur, bar, cands')
  BY <1>1, <1>2, <1>3, SelectionTold
<1>6. WellChosen(cands, cur, bar, cfg.top)'
  BY <1>1, <1>4, StillChosen
<1>7. Told(funnel, cur, bar, cands)'
  BY <1>1, <1>5, StillTold
<1>8. Typed'
  <2>1. pc' \in DOMAIN Length /\ ~Unscored'
    BY <1>1 DEF Length, Unscored
  <2>2. cands' \subseteq cur
    BY <1>1, <1>4 DEF WellChosen, Deduped, Passes
  <2> QED BY <1>1, <1>2, <2>1, <2>2 DEF Typed
<1>9. FunnelKept'
  <2>1. Length["shadow"] = 10
    BY DEF Length
  <2> QED BY <1>1, <1>5, <2>1 DEF FunnelKept, Filtering
<1> QED BY <1>1, <1>6, <1>7, <1>8, <1>9 DEF IInv, Chosen, Selecting

(* diversify_by_sector never offers a stock it was not given.              *)
LEMMA DiversifiedPart ==
    ASSUME NEW S, S \subseteq Stock, NEW top, top \in Nat, Stocks \in Nat, cfg.cap \in Nat
    PROVE  Diversified(S, top) \subseteq S
<1>1. \A X, n : BestOf(X, n) \subseteq X
  BY DEF BestOf
<1>2. Taken({t \in S : ~Excluded(t)}, top) \subseteq {t \in S : ~Excluded(t)}
  BY TakenIs
<1> QED BY <1>1, <1>2 DEF Diversified

(* The shadows take stocks of the run and none of the candidates.          *)
LEMMA ShadowsKeeps ==
    ASSUME IInv, Shadows PROVE IInv'
<1>1. /\ pc = "shadow" /\ pc' = "annotate"
      /\ shadow' = Selected(cur, shadowbar, cfg.shadowtop)
      /\ eligshadow' \in {EligibleShadow(cur, shadowbar), {}}
      /\ UNCHANGED <<cfg, tags, bar, shadowbar, cur, funnel, cands, notes, status>>
  BY DEF Shadows, Goto, inputs
<1>2. /\ Typed /\ ~Unscored /\ FunnelKept /\ cur # {} /\ cur \subseteq Stock
      /\ WellChosen(cands, cur, bar, cfg.top) /\ Told(funnel, cur, bar, cands)
  BY <1>1 DEF IInv, Typed, Unscored, Chosen, Selecting
<1>3. cfg.shadowtop \in Nat /\ cfg.cap \in Nat /\ Stocks \in Nat
  BY <1>2, Settings DEF Typed
<1>4. shadow' \subseteq cur
  BY <1>1, <1>2, <1>3, SelectedIs DEF WellChosen, Deduped, Passes
<1>5. eligshadow' \subseteq cur /\ cands \cap eligshadow' = {}
  <2> DEFINE clean == Deduped(Eligible(cur))
             n     == Cardinality(clean)
             top   == IF n < cfg.shadowtop THEN cfg.shadowtop ELSE n
             work  == Diversified(clean, top)
  <2>1. clean \subseteq cur
    BY DEF Deduped, Eligible
  <2>2. top \in Nat
    <3> HIDE DEF clean
    <3>1. n \in Nat
      BY <1>2, <1>3, <2>1, Counts
    <3> QED BY <1>3, <3>1
  <2>3. work \subseteq clean
    <3> HIDE DEF clean, top
    <3> QED BY <1>2, <1>3, <2>1, <2>2, DiversifiedPart
  <2>4. EligibleShadow(cur, shadowbar) =
            BestOf(MinScore(work, shadowbar) \ cands, cfg.shadowtop)
    BY DEF EligibleShadow
  <2> HIDE DEF work, clean
  <2>5. BestOf(MinScore(work, shadowbar) \ cands, cfg.shadowtop) \subseteq work \ cands
    BY DEF BestOf, MinScore
  <2> QED BY <1>1, <2>1, <2>3, <2>4, <2>5
<1>6. Typed'
  <2>1. pc' \in DOMAIN Length /\ ~Unscored'
    BY <1>1 DEF Length, Unscored
  <2> QED BY <1>1, <1>2, <1>4, <1>5, <2>1 DEF Typed
<1>7. FunnelKept'
  <2>1. Length["shadow"] = 10 /\ Length["annotate"] = 10
    BY DEF Length
  <2> QED BY <1>1, <1>2, <2>1 DEF FunnelKept, Filtering
<1>8. WellChosen(cands, cur, bar, cfg.top)'
  BY <1>1, <1>2, StillChosen
<1>9. Told(funnel, cur, bar, cands)'
  BY <1>1, <1>2, StillTold
<1> QED BY <1>1, <1>5, <1>6, <1>7, <1>8, <1>9 DEF IInv, Chosen, Selecting

(* What the notes say of the selection, recomputed from the scored rows.   *)
LEMMA AnnotateKeeps ==
    ASSUME IInv, Annotate PROVE IInv'
<1>1. /\ pc = "annotate" /\ pc' = "classify" /\ notes' = PassSets
      /\ UNCHANGED <<cfg, tags, bar, shadowbar, cur, funnel, cands, shadow,
                     eligshadow, status>>
  BY DEF Annotate, Goto, inputs
<1>2. /\ Typed /\ ~Unscored /\ FunnelKept /\ cur # {} /\ cur \subseteq Stock
      /\ WellChosen(cands, cur, bar, cfg.top) /\ Told(funnel, cur, bar, cands)
      /\ cands \cap eligshadow = {}
  BY <1>1 DEF IInv, Typed, Unscored, Chosen, Selecting
<1>3. Ordered(funnel) /\ Len(funnel) = 10
  <2>1. Length["annotate"] = 10
    BY DEF Length
  <2> QED BY <1>1, <1>2, <2>1 DEF FunnelKept
<1> DEFINE passed  == Passes(cur, bar)
           above   == Eligible(MinScore(cur, bar))
           elig    == IF funnel[8].status = "APPLIED" THEN above ELSE {}
           issuers == IF funnel[9].status = "APPLIED" THEN Deduped(elig) ELSE {}
           idrop   == IF funnel[9].status = "APPLIED" THEN elig \ issuers ELSE {}
           sdrop   == IF funnel[10].status = "APPLIED" THEN issuers \ cands ELSE {}
<1>4. /\ notes'.elig = elig /\ notes'.issuer = issuers
      /\ notes'.issuerdrop = idrop /\ notes'.sectordrop = sdrop
  <2>1. /\ StatusOf(funnel, "ELIGIBILITY") = funnel[8].status
        /\ StatusOf(funnel, "ISSUER_DEDUP") = funnel[9].status
        /\ StatusOf(funnel, "SECTOR_DIVERSIFICATION") = funnel[10].status
    BY <1>3, Looked
  <2>2. Passed = elig
    BY <2>1 DEF Passed
  <2>3. PassSets = [elig |-> elig, issuer |-> issuers, issuerdrop |-> idrop,
                    sectordrop |-> sdrop]
    BY <2>1, <2>2 DEF PassSets
  <2> HIDE DEF elig, issuers, idrop, sdrop
  <2> QED BY <1>1, <2>3
<1>5. above \subseteq 1 .. bar
  <2>1. bar \in 0 .. Stocks
    BY <1>2 DEF Typed
  <2>2. \A t \in cur : t \in Nat /\ t >= 1
    BY <1>2 DEF Stock
  <2> QED BY <2>1, <2>2 DEF Eligible, MinScore
<1>6. Unfiltered => above = passed
  BY DEF Unfiltered, Eligible, MinScore, Passes
<1>7. cands \subseteq Deduped(passed) /\ Deduped(passed) \subseteq passed
  BY <1>2 DEF WellChosen, Deduped
<1> DEFINE on8  == funnel[8].status = "APPLIED"
           on9  == funnel[9].status = "APPLIED"
           on10 == funnel[10].status = "APPLIED"
<1>8. (~on8 => passed = {}) /\ (on9 <=> passed # {}) /\ (on10 <=> passed # {})
  BY <1>2 DEF Told
<1> HIDE DEF passed, above
<1>9. NotesTrue'
  <2>1. elig \subseteq above
    OBVIOUS
  <2>2. Unfiltered => cands = issuers \ sdrop /\ elig = issuers \cup idrop
    <3> HAVE Unfiltered
    <3>1. CASE passed = {}
      BY <1>6, <1>7, <1>8, <3>1
    <3>2. CASE passed # {}
      <4>1. on8 /\ on9 /\ on10
        BY <1>8, <3>2
      <4>2. elig = passed /\ issuers = Deduped(passed)
        BY <1>6, <4>1
      <4>3. idrop = passed \ Deduped(passed) /\ sdrop = Deduped(passed) \ cands
        BY <4>1, <4>2
      <4> HIDE DEF elig, issuers, idrop, sdrop
      <4> QED BY <1>7, <4>2, <4>3
    <3> QED BY <3>1, <3>2
  <2> HIDE DEF elig, issuers, idrop, sdrop
  <2>3. Unfiltered' <=> Unfiltered
    BY <1>1 DEF Unfiltered
  <2> QED BY <1>1, <1>2, <1>4, <1>5, <2>1, <2>2, <2>3 DEF NotesTrue
<1>10. Typed'
  <2>1. pc' \in DOMAIN Length /\ ~Unscored'
    BY <1>1 DEF Length, Unscored
  <2> QED BY <1>1, <1>2, <2>1 DEF Typed
<1>11. FunnelKept'
  <2>1. Length["annotate"] = 10 /\ Length["classify"] = 10
    BY DEF Length
  <2> QED BY <1>1, <1>2, <2>1 DEF FunnelKept, Filtering
<1>12. WellChosen(cands, cur, bar, cfg.top)'
  BY <1>1, <1>2, StillChosen
<1>13. Told(funnel, cur, bar, cands)'
  BY <1>1, <1>2, StillTold
<1> QED BY <1>1, <1>9, <1>10, <1>11, <1>12, <1>13 DEF IInv, Chosen, Selecting

(* A stock that passed everything leaves the list empty only when the list *)
(* may hold none.                                                          *)
LEMMA EmptyOnlyForNoRoom ==
    ASSUME WellChosen({}, cur, bar, cfg.top), Passes(cur, bar) # {}, Typed
    PROVE  cfg.top = 0
<1>1. cur \subseteq Stock /\ cfg.cap \in Nat /\ cfg.top \in Nat /\ Stocks \in Nat
  BY Settings DEF Typed
<1>2. Passes(cur, bar) \subseteq Stock
  BY <1>1 DEF Passes
<1>3. PICK t \in Passes(cur, bar) : \A u \in Passes(cur, bar) : t <= u
  BY <1>1, <1>2, BestStays
<1>4. \A u \in Passes(cur, bar) : ~(u < t)
  BY <1>2, <1>3 DEF Stock
<1>5. Below({}, t) = {} /\ Cardinality({}) = 0
  BY NothingCounted DEF Below
<1>6. InSector({}, t) = 0
  <2>1. {u \in {} : tags[u].sector = tags[t].sector} = {}
    OBVIOUS
  <2> QED BY <1>5, <2>1 DEF InSector
<1>7. PerSector(cfg.top) \in Nat /\ PerSector(cfg.top) >= 1
  BY <1>1, ShareIsPositive
<1>8. \/ \E u \in Passes(cur, bar) : u < t /\ tags[u].issuer = tags[t].issuer
      \/ Cardinality(Below({}, t)) = cfg.top
      \/ InSector(Below({}, t), t) = PerSector(cfg.top)
  BY <1>3 DEF WellChosen
<1> QED BY <1>4, <1>5, <1>6, <1>7, <1>8

(* The reason given for an empty list: what the tests of                   *)
(* classify_empty_result_v2 read from the stages is true of the stocks.    *)
LEMMA ClassifyKeeps ==
    ASSUME IInv, Classify PROVE IInv'
<1>1. /\ pc = "classify" /\ pc' = "store" /\ reason' = EmptyReason
      /\ UNCHANGED <<cfg, tags, bar, shadowbar, cur, funnel, cands, shadow,
                     eligshadow, notes, status>>
  BY DEF Classify, Goto, inputs
<1>2. /\ Typed /\ ~Unscored /\ FunnelKept /\ cur # {} /\ cur \subseteq Stock
      /\ WellChosen(cands, cur, bar, cfg.top) /\ Told(funnel, cur, bar, cands)
      /\ NotesTrue
  BY <1>1 DEF IInv, Typed, Unscored, Chosen, Selecting
<1>3. Ordered(funnel) /\ Len(funnel) = 10
  <2>1. Length["classify"] = 10
    BY DEF Length
  <2> QED BY <1>1, <1>2, <2>1 DEF FunnelKept
<1> DEFINE passers == MinScore(cur, bar)
           passed  == Passes(cur, bar)
<1>4. EmptyReason =
        IF cands # {} THEN ""
        ELSE IF funnel[5].out = 0 THEN "MIN_SCORE_THRESHOLD_NOT_MET"
        ELSE IF funnel[8].out = 0
             THEN IF \A t \in passers : tags[t].out = "held"
                  THEN "ALL_THRESHOLD_PASSERS_ALREADY_HELD"
                  ELSE "ALL_THRESHOLD_PASSERS_INELIGIBLE"
        ELSE IF funnel[9].status = "APPLIED" /\ funnel[9].out = 0
             THEN "ALL_ELIGIBLE_REMOVED_BY_ISSUER_DEDUP"
        ELSE IF funnel[10].status = "APPLIED" /\ funnel[10].out = 0
             THEN "ALL_ELIGIBLE_REMOVED_BY_SECTOR_CAP"
        ELSE "NO_ELIGIBLE_NEW_BUY_CANDIDATES"
  <2>1. /\ OutOf(funnel, "MIN_SCORE") = funnel[5].out
        /\ OutOf(funnel, "ELIGIBILITY") = funnel[8].out
        /\ OutOf(funnel, "ISSUER_DEDUP") = funnel[9].out
        /\ StatusOf(funnel, "ISSUER_DEDUP") = funnel[9].status
        /\ OutOf(funnel, "SECTOR_DIVERSIFICATION") = funnel[10].out
        /\ StatusOf(funnel, "SECTOR_DIVERSIFICATION") = funnel[10].status
    BY <1>3, Looked
  <2> QED BY <2>1 DEF EmptyReason
<1>5. /\ funnel[5].out = 0 => passers = {}
      /\ funnel[8].out = 0 => passed = {}
      /\ funnel[9].status = "APPLIED" => funnel[9].out # 0
      /\ funnel[10].status = "APPLIED" <=> passed # {}
  BY <1>2 DEF Told
<1>6. cands = {} /\ passed # {} => cfg.top = 0
  BY <1>2, EmptyOnlyForNoRoom
<1>7. Unfiltered /\ passed = {} => \A t \in passers : Excluded(t)
  BY DEF Unfiltered, Passes, MinScore
<1> HIDE DEF passers, passed
<1>8. /\ (EmptyReason = "") <=> (cands # {})
      /\ EmptyReason = "MIN_SCORE_THRESHOLD_NOT_MET" => passers = {}
      /\ EmptyReason # "ALL_ELIGIBLE_REMOVED_BY_ISSUER_DEDUP"
      /\ EmptyReason = "ALL_ELIGIBLE_REMOVED_BY_SECTOR_CAP" => cfg.top = 0
      /\ EmptyReason = "ALL_THRESHOLD_PASSERS_ALREADY_HELD" =>
           \A t \in passers : tags[t].out = "held"
      /\ EmptyReason = "ALL_THRESHOLD_PASSERS_INELIGIBLE" /\ Unfiltered =>
           \A t \in passers : Excluded(t)
  BY <1>4, <1>5, <1>6, <1>7
<1>9. ReasonFits'
  <2>1. MinScore(cur, bar)' = passers
    BY <1>1 DEF MinScore, passers
  <2>2. Unfiltered' <=> Unfiltered
    BY <1>1 DEF Unfiltered
  <2>3. \A t : Excluded(t)' <=> Excluded(t)
    BY <1>1 DEF Excluded
  <2> HIDE DEF passers
  <2> QED BY <1>1, <1>8, <2>1, <2>2, <2>3 DEF ReasonFits
<1>10. Typed'
  <2>1. pc' \in DOMAIN Length /\ ~Unscored'
    BY <1>1, <1>2 DEF Length, Unscored
  <2> QED BY <1>1, <1>2, <2>1 DEF Typed
<1>11. FunnelKept'
  <2>1. Length["store"] = 10
    BY DEF Length
  <2>2. funnel[10].out = Cardinality(cands) /\ funnel[10].status # "SKIPPED"
    BY <1>2 DEF Told
  <2> QED BY <1>1, <1>2, <1>3, <2>1, <2>2 DEF FunnelKept, Filtering
<1>12. WellChosen(cands, cur, bar, cfg.top)'
  BY <1>1, <1>2, StillChosen
<1>13. NotesTrue'
  BY <1>1, <1>2 DEF NotesTrue, Unfiltered
<1> QED BY <1>1, <1>9, <1>10, <1>11, <1>12, <1>13 DEF IInv, Chosen, Selecting

(* The stored funnel tells what the recorded one does, and follows on.     *)
LEMMA StoreKeeps ==
    ASSUME IInv, Store PROVE IInv'
<1>1. /\ pc = "store" /\ pc' = "done" /\ funnel' = Sanitized(funnel)
      /\ status' \in {"SUCCESS", "SUCCESS_WITH_WARNINGS"}
      /\ UNCHANGED <<cfg, tags, bar, shadowbar, cur, cands, shadow, eligshadow,
                     notes, reason>>
  BY DEF Store, Goto, inputs
<1>2. /\ Typed /\ FunnelKept /\ NotesTrue
      /\ cur # {} => WellChosen(cands, cur, bar, cfg.top) /\ ReasonFits
  BY <1>1 DEF IInv, Chosen, Selecting
<1>3. /\ Ordered(funnel) /\ Len(funnel) = 10
      /\ funnel[10].status # "SKIPPED" /\ funnel[10].out = Cardinality(cands)
  <2>1. Length["store"] = 10
    BY DEF Length
  <2> QED BY <1>1, <1>2, <2>1 DEF FunnelKept
<1>4. Typed'
  <2>1. pc' \in DOMAIN Length /\ (Unscored' <=> Unscored)
    BY <1>1 DEF Length, Unscored
  <2> QED BY <1>1, <1>2, <2>1 DEF Typed
<1>5. FunnelKept'
  <2>1. Length["done"] = 10 /\ Stocks \in Nat
    BY SelectionAssumption DEF Length, SelectionAssumption
  <2>2. /\ Ordered(funnel') /\ Len(funnel') = 10 /\ Chained(funnel')
        /\ funnel'[10].out = Cardinality(cands)
    BY <1>1, <1>3, <2>1, SanitizedIs
  <2>3. Chained(funnel)'
    BY <2>2 DEF Chained
  <2> QED BY <1>1, <2>1, <2>2, <2>3 DEF FunnelKept, Filtering
<1>6. cur # {} => WellChosen(cands, cur, bar, cfg.top)'
  BY <1>1, <1>2, StillChosen
<1>7. NotesTrue'
  BY <1>1, <1>2 DEF NotesTrue, Unfiltered
<1>8. cur # {} => ReasonFits'
  <2>1. \A t : Excluded(t)' <=> Excluded(t)
    BY <1>1 DEF Excluded
  <2>2. MinScore(cur, bar)' = MinScore(cur, bar) /\ (Unfiltered' <=> Unfiltered)
    BY <1>1 DEF MinScore, Unfiltered
  <2> QED BY <1>1, <1>2, <2>1, <2>2 DEF ReasonFits
<1> QED BY <1>1, <1>4, <1>5, <1>6, <1>7, <1>8 DEF IInv, Chosen, Selecting

(* Nothing the invariant says changes when nothing changes.                *)
LEMMA StutterKeeps ==
    ASSUME IInv, UNCHANGED vars PROVE IInv'
<1>1. UNCHANGED <<pc, cfg, tags, bar, shadowbar, cur, funnel, cands, shadow,
                  eligshadow, notes, reason, status>>
  BY DEF vars, inputs, results
<1>2. Typed => Typed'
  BY <1>1 DEF Typed, Unscored
<1>3. FunnelKept => FunnelKept'
  BY <1>1 DEF FunnelKept, Filtering, Chained
<1>4. /\ WellChosen(cands, cur, bar, cfg.top) => WellChosen(cands, cur, bar, cfg.top)'
      /\ Told(funnel, cur, bar, cands) => Told(funnel, cur, bar, cands)'
  BY <1>1, StillChosen, StillTold
<1>5. NotesTrue => NotesTrue'
  BY <1>1 DEF NotesTrue, Unfiltered
<1>6. ReasonFits => ReasonFits'
  <2>1. \A t : Excluded(t)' <=> Excluded(t)
    BY <1>1 DEF Excluded
  <2>2. MinScore(cur, bar)' = MinScore(cur, bar) /\ (Unfiltered' <=> Unfiltered)
    BY <1>1 DEF MinScore, Unfiltered
  <2> QED BY <1>1, <2>1, <2>2 DEF ReasonFits
<1>7. (Chosen' <=> Chosen) /\ (Selecting' <=> Selecting)
  BY <1>1 DEF Chosen, Selecting
<1> QED BY <1>1, <1>2, <1>3, <1>4, <1>5, <1>6, <1>7 DEF IInv

(* Every stage of a run keeps the invariant.                               *)
THEOREM NextKeeps == IInv /\ [Next]_vars => IInv'
<1> SUFFICES ASSUME IInv, [Next]_vars PROVE IInv'
  OBVIOUS
<1>1. CASE Universe
  BY <1>1, UniverseKeeps
<1>2. CASE MarketCap
  BY <1>2, MarketCapKeeps
<1>3. CASE Amount5D
  BY <1>3, Amount5DKeeps
<1>4. CASE Lists
  BY <1>4, ListsKeeps
<1>5. CASE Score
  BY <1>5, ScoreKeeps
<1>6. CASE Enrich
  BY <1>6, EnrichKeeps
<1>7. CASE Select
  BY <1>7, SelectKeeps
<1>8. CASE Shadows
  BY <1>8, ShadowsKeeps
<1>9. CASE Annotate
  BY <1>9, AnnotateKeeps
<1>10. CASE Classify
  BY <1>10, ClassifyKeeps
<1>11. CASE Store
  BY <1>11, StoreKeeps
<1>12. CASE UNCHANGED vars
  BY <1>12, StutterKeeps
<1> QED BY <1>1, <1>2, <1>3, <1>4, <1>5, <1>6, <1>7, <1>8, <1>9, <1>10, <1>11,
           <1>12 DEF Next

(* The invariant holds in every state a run of the screener can reach.     *)
THEOREM Inductive == Spec => []IInv
<1> QED BY InitTyped, NextKeeps, PTL DEF Spec

-----------------------------------------------------------------------------
(* The properties                                                          *)

(* Every recorded stage is one of the ten, and no stage lets out more      *)
(* stocks than it took in; the sets of a run are stocks of the master and  *)
(* its settings those it found.                                            *)
THEOREM SelectionTypeOK == Spec => []TypeOK
<1>1. IInv => TypeOK
  <2> SUFFICES ASSUME IInv PROVE TypeOK
    OBVIOUS
  <2>1. Typed /\ Ordered(funnel)
    BY DEF IInv, FunnelKept
  <2>2. tags \in [DOMAIN tags -> Tags]
    <3>1. CASE Unscored
      <4>1. tags = <<>>
        BY <2>1, <3>1 DEF Typed
      <4>2. <<>> \in Seq(Tags)
        BY EmptySeq
      <4>3. <<>> \in [DOMAIN <<>> -> Tags]
        BY <4>2
      <4> QED BY <4>1, <4>3
    <3>2. CASE ~Unscored
      BY <2>1, <3>2 DEF Typed
    <3> QED BY <3>1, <3>2
  <2>3. ASSUME NEW i \in DOMAIN funnel
        PROVE  /\ funnel[i].stage \in Range(StageNames)
               /\ funnel[i].status \in {"APPLIED", "SKIPPED", "NOT_RUN"}
               /\ funnel[i].out \in 0 .. funnel[i].in /\ funnel[i].in \in 0 .. Stocks
    <3>1. i \in 1 .. Len(funnel) /\ funnel[i] \in StageRecord
      BY <2>1 DEF Ordered
    <3>2. funnel[i].out <= funnel[i].in
      BY <2>1, <3>1 DEF Ordered
    <3>3. /\ funnel[i].stage \in Range(StageNames)
          /\ funnel[i].status \in {"APPLIED", "SKIPPED", "NOT_RUN"}
          /\ funnel[i].in \in 0 .. Stocks /\ funnel[i].out \in 0 .. Stocks
      BY <3>1 DEF StageRecord
    <3> DEFINE o == funnel[i].out
               n == funnel[i].in
    <3>4. o \in 0 .. n
      <4>1. Stocks \in Nat /\ o \in 0 .. Stocks /\ n \in 0 .. Stocks /\ o <= n
        BY <3>2, <3>3, SelectionAssumption DEF SelectionAssumption
      <4> HIDE DEF o, n
      <4> QED BY <4>1
    <3> QED BY <3>3, <3>4
  <2> QED BY <2>1, <2>2, <2>3 DEF TypeOK, Typed
<1> QED BY <1>1, Inductive, PTL

(* select_candidates_pipeline offers the trader the best list there is: of *)
(* stocks that reached the threshold and passed every test, one of an      *)
(* issuer, no sector over its share; and a stock that passed is left out   *)
(* only for better ones.                                                   *)
THEOREM OffersBestList == Spec => []BestList
<1>1. IInv => BestList
  <2> SUFFICES ASSUME IInv PROVE BestList
    OBVIOUS
  <2> DEFINE passed == Passes(cur, bar)
  <2>1. Kept(cur, bar, cfg.top)[4] = passed
    BY KeptIs
  <2>2. Typed /\ cfg.top \in Nat /\ Cardinality({}) = 0
    BY NothingCounted, Settings DEF IInv, Typed
  <2>3. CASE ~Chosen
    <3>1. cands = {}
      BY <2>2, <2>3 DEF Typed, Chosen, Selecting, Unscored, Length
    <3>2. pc = "done" => passed = {}
      BY <2>3 DEF Chosen, Passes
    <3>3. cands \subseteq cur \cap (1 .. bar) /\ Cardinality(cands) <= cfg.top
      BY <2>2, <3>1
    <3> HIDE DEF passed
    <3> QED BY <2>1, <3>1, <3>2, <3>3 DEF BestList
  <2>4. CASE Chosen
    <3>1. /\ cands \subseteq Deduped(passed) /\ Cardinality(cands) <= cfg.top
          /\ \A t \in cands : cfg.cap # 0 => InSector(cands, t) <= PerSector(cfg.top)
          /\ \A t \in passed \ cands :
               \/ \E u \in passed : u < t /\ tags[u].issuer = tags[t].issuer
               \/ Cardinality(Below(cands, t)) = cfg.top
               \/ cfg.cap # 0 /\ InSector(Below(cands, t), t) = PerSector(cfg.top)
      BY <2>4 DEF IInv, WellChosen
    <3>2. /\ cur \subseteq Stock /\ bar \in 0 .. Stocks
          /\ \A t \in cur : /\ ~cfg.momentum => tags[t].momentum
                            /\ ~cfg.volatility => tags[t].volatility
      BY <2>2, <2>4 DEF Typed, Chosen, Selecting, Unscored
    <3>3. cands \subseteq passed /\ \A t \in passed : t \in cur /\ t \in 1 .. bar
      <4>1. \A t \in cur : t \in Nat /\ t >= 1
        BY <3>2 DEF Stock
      <4>2. passed \subseteq cur /\ \A t \in passed : t <= bar
        BY DEF Passes
      <4> HIDE DEF passed
      <4> QED BY <3>1, <3>2, <4>1, <4>2 DEF Deduped
    <3>4. \A t \in cands : ~Excluded(t) /\ tags[t].momentum /\ tags[t].volatility
      <4>1. \A t \in passed : /\ ~Excluded(t)
                              /\ cfg.momentum => tags[t].momentum
                              /\ cfg.volatility => tags[t].volatility
        BY DEF Passes
      <4> HIDE DEF passed
      <4> QED BY <3>2, <3>3, <4>1
    <3>5. ASSUME NEW t \in cands, NEW u \in cands, tags[u].issuer = tags[t].issuer
          PROVE  u = t
      <4>1. t <= u /\ u <= t
        BY <3>1, <3>3, <3>5 DEF Deduped
      <4>2. t \in Nat /\ u \in Nat
        BY <3>2, <3>3 DEF Stock
      <4> QED BY <4>1, <4>2
    <3> HIDE DEF passed
    <3> QED BY <2>1, <3>1, <3>3, <3>4, <3>5 DEF BestList, Below
  <2> QED BY <2>3, <2>4
<1> QED BY <1>1, Inductive, PTL

(* The score rows and the stored funnel account for what the selection     *)
(* did: extract_pipeline_pass_sets recomputes it truly, and whatever       *)
(* sanitize_for_storage rebuilds has every stage in order, each from what  *)
(* the one before left, up to the candidates.                              *)
THEOREM RunAccountsForItself == Spec => []AccountedFor
<1>1. IInv => AccountedFor
  <2> SUFFICES ASSUME IInv PROVE AccountedFor
    OBVIOUS
  <2>1. pc \in {"classify", "store", "done"} => NotesTrue
    BY DEF IInv
  <2>2. ASSUME pc = "done"
        PROVE  /\ Len(funnel) = Len(StageNames)
               /\ \A i \in DOMAIN funnel : funnel[i].stage = StageNames[i]
               /\ Chained(funnel)
               /\ Last(funnel).out = Cardinality(cands)
    <3>1. /\ Ordered(funnel) /\ Len(funnel) = 10 /\ Chained(funnel)
          /\ funnel[10].out = Cardinality(cands)
      <4>1. Length["done"] = 10
        BY DEF Length
      <4> QED BY <2>2, <4>1 DEF IInv, FunnelKept
    <3>2. DOMAIN funnel = 1 .. Len(funnel)
      BY <3>1 DEF Ordered
    <3> QED BY <3>1, <3>2, TenStages DEF Ordered, Last
  <2> QED BY <2>1, <2>2 DEF AccountedFor, NotesTrue
<1> QED BY <1>1, Inductive, PTL

(* classify_empty_result_v2 blames the stage that emptied the list.        *)
THEOREM ReasonIsTrue == Spec => []ReasonTrue
<1>1. IInv => ReasonTrue
  BY DEF IInv, ReasonFits, ReasonTrue
<1> QED BY <1>1, Inductive, PTL
================================================================================
