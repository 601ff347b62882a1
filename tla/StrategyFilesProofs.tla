------------------------- MODULE StrategyFilesProofs -------------------------
(* Proofs about StrategyFiles for every set of tickers and every length of *)
(* the two periods and of the clock.                                       *)
EXTENDS StrategyFiles, TLAPS

(* A process that has read the flags for a decision, until it has written  *)
(* what follows from it.                                                   *)
InSection(p) == job[p] \in FlagJobs \cup {"sell", "cool", "exit_cool"}
EditsFlags(p) == job[p] \in FlagJobs /\ at[p] # "load"
EditsCool(p)  == job[p] \in CoolJobs /\ at[p] # "load"

Expired(t) == last[t] = 0 \/ now - last[t] > FlagTTL

(* Every entry of the flag file, and of a map about to replace it, is of a *)
(* ticker that was sold.                                                   *)
FlagsSold ==
    /\ \A t \in Ticker : Load(flags)[t] # 0 => t \in sold
    /\ \A p \in Proc :
          /\ job[p] = "mark" => tk[p] \in sold
          /\ EditsFlags(p) => \A t \in Ticker : buf[p][t] # 0 => t \in sold

(* The flag of the last partial sell of t is in the file, or on its way.   *)
FlagOnWay(t) ==
    \/ \E p \in Proc :
          \/ job[p] = "mark" /\ at[p] = "load" /\ tk[p] = t
          \/ /\ EditsFlags(p) /\ last[t] <= buf[p][t]
             /\ at[p] = "open" /\ tk[p] # t => flags # Torn /\ flags[t] = buf[p][t]
    \/ /\ \A p \in Proc : ~EditsFlags(p)
       /\ flags # Torn /\ last[t] <= flags[t]

FlagOf(t) ==
    /\ ~(InSection("risk") /\ InSection("trader"))
    /\ \A p \in Proc :
          /\ EditsFlags(p) /\ at[p] = "dump" => flags = Torn
          /\ job[p] \in {"clear", "sell"} /\ tk[p] = t => Expired(t)
          /\ job[p] \in {"exit_cool", "exit_clear"} /\ tk[p] = t => last[t] = 0
    /\ last[t] <= now /\ (Expired(t) \/ FlagOnWay(t))

FlagInv == \A t \in Ticker : t \notin noflag => FlagOf(t)

(* No cooldown ends later than PeriodDays from today, wherever it is kept. *)
CoolBounded ==
    \A t \in Ticker :
        /\ mem[t] <= now + PeriodDays /\ Load(cool)[t] <= now + PeriodDays
        /\ promised[t] <= now + PeriodDays
        /\ \A p \in Proc : EditsCool(p) => buf[p][t] <= now + PeriodDays

(* The trader writes its own copy. *)
OwnCopy == EditsCool("trader") => buf["trader"] = mem

Kept(t, m) == promised[t] <= now \/ promised[t] <= m[t]

(* Who runs decides which map holds the cooldown a partial sell promised.  *)
CoolOf(t) ==
    /\ \A p \in Proc : EditsCool(p) /\ at[p] = "dump" => cool = Torn
    /\ EditsCool("risk") => job["trader"] = "off" /\ Kept(t, buf["risk"])
    /\ job["trader"] # "off" =>
          /\ Kept(t, mem)
          /\ EditsCool("trader") => at["trader"] = "dump" \/ tk["trader"] = t
                                       \/ Load(cool)[t] = mem[t]
          /\ ~EditsCool("trader") => Load(cool)[t] = mem[t]
    /\ job["trader"] = "off" =>
          Kept(t, Load(cool)) \/ (EditsCool("risk") /\ at["risk"] = "dump")

CoolInv == /\ CoolBounded /\ OwnCopy
           /\ \A t \in Ticker : t \notin nocool => CoolOf(t)

IInv == /\ TypeOK /\ again \subseteq noflag /\ early \subseteq nocool
        /\ FlagsSold /\ FlagInv /\ CoolInv

-----------------------------------------------------------------------------
(* Every step keeps the types. *)
LEMMA TypeStep == TypeOK /\ [Next]_vars => TypeOK'
<1> USE StrategyAssumption
    DEF Proc, Day, Map, FlagJobs, CoolJobs, files, control, history, Empty, Load,
        Later
<1> SUFFICES ASSUME TypeOK, [Next]_vars PROVE TypeOK'
  OBVIOUS
<1> USE DEF TypeOK
<1>1. ASSUME NEW p \in Proc, NEW t \in Ticker, Check(p, t) PROVE TypeOK'
  BY <1>1 DEF Check, Take, Do, LoseFlags, Other, Busy
<1>2. ASSUME NEW p \in Proc, SellPart(p) PROVE TypeOK'
  BY <1>2 DEF SellPart, Take, Do, Sold
<1>3. ASSUME NEW p \in Proc, LoadFlags(p) PROVE TypeOK'
  BY <1>3 DEF LoadFlags, Continue, Rest, Do, Take, Hold
<1>4. ASSUME NEW p \in Proc, LoadCool(p) PROVE TypeOK'
  BY <1>4 DEF LoadCool, Do, Hold, LoseCool
<1>5. ASSUME NEW p \in Proc, OpenFile(p) PROVE TypeOK'
  BY <1>5 DEF OpenFile, Do, Busy
<1>6. ASSUME NEW p \in Proc, DumpFile(p) PROVE TypeOK'
  BY <1>6 DEF DumpFile, Continue, Rest, Do, Take, Hold, LoseCool, Busy
<1>7. ASSUME NEW p \in Proc, Kill(p) PROVE TypeOK'
  BY <1>7 DEF Kill, Do, Take, Hold, Busy
<1>8. ASSUME NEW t \in Ticker, FullExit(t) PROVE TypeOK'
  BY <1>8 DEF FullExit, Do, Take, LoseFlags, Busy, Other
<1>9. ASSUME NEW t \in Ticker, CooldownFailed(t) PROVE TypeOK'
  BY <1>9 DEF CooldownFailed, Save, Do, Take, Hold
<1>10. ASSUME NEW t \in Ticker, CooldownEnded(t) PROVE TypeOK'
  BY <1>10 DEF CooldownEnded, Save, Do, Take, Hold
<1>11. ASSUME NEW t \in Ticker, Buy(t) PROVE TypeOK'
  BY <1>11 DEF Buy
<1>12. ASSUME NEW t \in Ticker, Settle(t) PROVE TypeOK'
  BY <1>12 DEF Settle
<1>13. CASE TraderStart
  BY <1>13 DEF TraderStart, Rest, Do, Take, Hold
<1>14. CASE TraderEnd
  BY <1>14 DEF TraderEnd
<1>15. CASE Tick
  BY <1>15 DEF Tick
<1>16. CASE UNCHANGED vars
  BY <1>16 DEF vars
<1> QED
  BY <1>1, <1>2, <1>3, <1>4, <1>5, <1>6, <1>7, <1>8, <1>9, <1>10, <1>11, <1>12, <1>13, <1>14, <1>15, <1>16 DEF Next

(* Type correctness: each file and copy is a map of days or torn, and a    *)
(* process inside an edit has the ticker of the edit in hand.              *)
THEOREM TypeCorrect == Spec => []TypeOK
<1>1. Init => TypeOK
  BY StrategyAssumption
     DEF Init, TypeOK, Proc, Day, Map, Empty, FlagJobs, CoolJobs
<1> QED
  BY <1>1, TypeStep, PTL DEF Spec

(* No edit brings a flag of a ticker that was not sold. *)
LEMMA SoldStep == TypeOK /\ TypeOK' /\ FlagsSold /\ [Next]_vars => FlagsSold'
<1> USE StrategyAssumption, TornAssumption
    DEF Proc, Day, Map, FlagJobs, CoolJobs, files, control, history, Empty, Load,
        Later, EditsFlags, EditsCool
<1> SUFFICES ASSUME TypeOK, TypeOK', FlagsSold, [Next]_vars PROVE FlagsSold'
  OBVIOUS
<1> USE DEF TypeOK, FlagsSold
<1>1. ASSUME NEW p \in Proc, NEW t \in Ticker, Check(p, t) PROVE FlagsSold'
  BY <1>1 DEF Check, Take, Do, LoseFlags, Other, Busy
<1>2. ASSUME NEW p \in Proc, SellPart(p) PROVE FlagsSold'
  BY <1>2 DEF SellPart, Take, Do, Sold
<1>3. ASSUME NEW p \in Proc, LoadFlags(p) PROVE FlagsSold'
  BY <1>3 DEF LoadFlags, Continue, Rest, Do, Take, Hold
<1>4. ASSUME NEW p \in Proc, LoadCool(p) PROVE FlagsSold'
  BY <1>4 DEF LoadCool, Do, Hold, LoseCool
<1>5. ASSUME NEW p \in Proc, OpenFile(p) PROVE FlagsSold'
  BY <1>5 DEF OpenFile, Do, Busy
<1>6. ASSUME NEW p \in Proc, DumpFile(p) PROVE FlagsSold'
  BY <1>6 DEF DumpFile, Continue, Rest, Do, Take, Hold, LoseCool, Busy
<1>7. ASSUME NEW p \in Proc, Kill(p) PROVE FlagsSold'
  BY <1>7 DEF Kill, Do, Take, Hold, Busy
<1>8. ASSUME NEW t \in Ticker, FullExit(t) PROVE FlagsSold'
  BY <1>8 DEF FullExit, Do, Take, LoseFlags, Busy, Other
<1>9. ASSUME NEW t \in Ticker, CooldownFailed(t) PROVE FlagsSold'
  BY <1>9 DEF CooldownFailed, Save, Do, Take, Hold
<1>10. ASSUME NEW t \in Ticker, CooldownEnded(t) PROVE FlagsSold'
  BY <1>10 DEF CooldownEnded, Save, Do, Take, Hold
<1>11. ASSUME NEW t \in Ticker, Buy(t) PROVE FlagsSold'
  BY <1>11 DEF Buy
<1>12. ASSUME NEW t \in Ticker, Settle(t) PROVE FlagsSold'
  BY <1>12 DEF Settle
<1>13. CASE TraderStart
  BY <1>13 DEF TraderStart, Rest, Do, Take, Hold
<1>14. CASE TraderEnd
  BY <1>14 DEF TraderEnd
<1>15. CASE Tick
  BY <1>15 DEF Tick
<1>16. CASE UNCHANGED vars
  BY <1>16 DEF vars
<1> QED
  BY <1>1, <1>2, <1>3, <1>4, <1>5, <1>6, <1>7, <1>8, <1>9, <1>10, <1>11, <1>12, <1>13, <1>14, <1>15, <1>16 DEF Next

(* A sell that was not excused keeps its flag until the flag expires or the *)
(* ticker is sold in full.                                                 *)
LEMMA FlagStep == TypeOK /\ TypeOK' /\ FlagInv /\ [Next]_vars => FlagInv'
<1> USE StrategyAssumption, TornAssumption
    DEF Proc, Day, Map, FlagJobs, CoolJobs, files, control, history, Empty, Load,
        Later, EditsFlags, EditsCool
<1> SUFFICES ASSUME TypeOK, TypeOK', FlagInv, [Next]_vars PROVE FlagInv'
  OBVIOUS
<1> USE DEF TypeOK, FlagInv, FlagOf, FlagOnWay, Expired, InSection
<1>1. ASSUME NEW p \in Proc, NEW t \in Ticker, Check(p, t) PROVE FlagInv'
  BY <1>1 DEF Check, Take, Do, LoseFlags, Other, Busy
<1>2. ASSUME NEW p \in Proc, SellPart(p) PROVE FlagInv'
  BY <1>2 DEF SellPart, Take, Do, Sold
<1>3. ASSUME NEW p \in Proc, LoadFlags(p) PROVE FlagInv'
  BY <1>3 DEF LoadFlags, Continue, Rest, Do, Take, Hold
<1>4. ASSUME NEW p \in Proc, LoadCool(p) PROVE FlagInv'
  BY <1>4 DEF LoadCool, Do, Hold, LoseCool
<1>5. ASSUME NEW p \in Proc, OpenFile(p) PROVE FlagInv'
  BY <1>5 DEF OpenFile, Do, Busy
<1>6. ASSUME NEW p \in Proc, DumpFile(p) PROVE FlagInv'
  BY <1>6 DEF DumpFile, Continue, Rest, Do, Take, Hold, LoseCool, Busy
<1>7. ASSUME NEW p \in Proc, Kill(p) PROVE FlagInv'
  BY <1>7 DEF Kill, Do, Take, Hold, Busy
<1>8. ASSUME NEW t \in Ticker, FullExit(t) PROVE FlagInv'
  BY <1>8 DEF FullExit, Do, Take, LoseFlags, Busy, Other
<1>9. ASSUME NEW t \in Ticker, CooldownFailed(t) PROVE FlagInv'
  BY <1>9 DEF CooldownFailed, Save, Do, Take, Hold
<1>10. ASSUME NEW t \in Ticker, CooldownEnded(t) PROVE FlagInv'
  BY <1>10 DEF CooldownEnded, Save, Do, Take, Hold
<1>11. ASSUME NEW t \in Ticker, Buy(t) PROVE FlagInv'
  BY <1>11 DEF Buy
<1>12. ASSUME NEW t \in Ticker, Settle(t) PROVE FlagInv'
  BY <1>12 DEF Settle
<1>13. CASE TraderStart
  BY <1>13 DEF TraderStart, Rest, Do, Take, Hold
<1>14. CASE TraderEnd
  BY <1>14 DEF TraderEnd
<1>15. CASE Tick
  BY <1>15 DEF Tick
<1>16. CASE UNCHANGED vars
  BY <1>16 DEF vars
<1> QED
  BY <1>1, <1>2, <1>3, <1>4, <1>5, <1>6, <1>7, <1>8, <1>9, <1>10, <1>11, <1>12, <1>13, <1>14, <1>15, <1>16 DEF Next

(* No step plans a cooldown beyond the longer period. *)
LEMMA BoundStep == TypeOK /\ TypeOK' /\ CoolBounded /\ [Next]_vars => CoolBounded'
<1> USE StrategyAssumption, TornAssumption
    DEF Proc, Day, Map, FlagJobs, CoolJobs, files, control, history, Empty, Load,
        Later, EditsFlags, EditsCool
<1> SUFFICES ASSUME TypeOK, TypeOK', CoolBounded, [Next]_vars PROVE CoolBounded'
  OBVIOUS
<1> USE DEF TypeOK, CoolBounded
<1>1. ASSUME NEW p \in Proc, NEW t \in Ticker, Check(p, t) PROVE CoolBounded'
  BY <1>1 DEF Check, Take, Do, LoseFlags, Other, Busy
<1>2. ASSUME NEW p \in Proc, SellPart(p) PROVE CoolBounded'
  BY <1>2 DEF SellPart, Take, Do, Sold
<1>3. ASSUME NEW p \in Proc, LoadFlags(p) PROVE CoolBounded'
  BY <1>3 DEF LoadFlags, Continue, Rest, Do, Take, Hold
<1>4. ASSUME NEW p \in Proc, LoadCool(p) PROVE CoolBounded'
  BY <1>4 DEF LoadCool, Do, Hold, LoseCool
<1>5. ASSUME NEW p \in Proc, OpenFile(p) PROVE CoolBounded'
  BY <1>5 DEF OpenFile, Do, Busy
<1>6. ASSUME NEW p \in Proc, DumpFile(p) PROVE CoolBounded'
  <2>1. /\ at'[p] = "load" /\ job'[p] \notin {"off", "save"}
        /\ p = "trader" => job'[p] # "off"
        /\ \A q \in Proc \ {p} : /\ job'[q] = job[q] /\ at'[q] = at[q]
                                 /\ tk'[q] = tk[q] /\ buf'[q] = buf[q]
    BY <1>6 DEF DumpFile, Continue, Rest, Do, Take, Hold
  <2>2. CASE job[p] \in FlagJobs
    BY <1>6, <2>1, <2>2 DEF DumpFile, Busy
  <2>3. CASE job[p] \in CoolJobs
    BY <1>6, <2>1, <2>3 DEF DumpFile, Busy
  <2> QED BY <1>6, <2>2, <2>3 DEF DumpFile, Busy
<1>7. ASSUME NEW p \in Proc, Kill(p) PROVE CoolBounded'
  BY <1>7 DEF Kill, Do, Take, Hold, Busy
<1>8. ASSUME NEW t \in Ticker, FullExit(t) PROVE CoolBounded'
  BY <1>8 DEF FullExit, Do, Take, LoseFlags, Busy, Other
<1>9. ASSUME NEW t \in Ticker, CooldownFailed(t) PROVE CoolBounded'
  BY <1>9 DEF CooldownFailed, Save, Do, Take, Hold
<1>10. ASSUME NEW t \in Ticker, CooldownEnded(t) PROVE CoolBounded'
  BY <1>10 DEF CooldownEnded, Save, Do, Take, Hold
<1>11. ASSUME NEW t \in Ticker, Buy(t) PROVE CoolBounded'
  BY <1>11 DEF Buy
<1>12. ASSUME NEW t \in Ticker, Settle(t) PROVE CoolBounded'
  BY <1>12 DEF Settle
<1>13. CASE TraderStart
  BY <1>13 DEF TraderStart, Rest, Do, Take, Hold
<1>14. CASE TraderEnd
  BY <1>14 DEF TraderEnd
<1>15. CASE Tick
  BY <1>15 DEF Tick
<1>16. CASE UNCHANGED vars
  BY <1>16 DEF vars
<1> QED
  BY <1>1, <1>2, <1>3, <1>4, <1>5, <1>6, <1>7, <1>8, <1>9, <1>10, <1>11, <1>12, <1>13, <1>14, <1>15, <1>16 DEF Next

(* A cooldown that was not excused stays in the map that counts.           *)
LEMMA CoolStep == TypeOK /\ TypeOK' /\ CoolInv /\ CoolBounded' /\ [Next]_vars => CoolInv'
<1> USE StrategyAssumption, TornAssumption
    DEF Proc, Day, Map, FlagJobs, CoolJobs, files, control, history, Empty, Load,
        Later, EditsFlags, EditsCool
<1> SUFFICES ASSUME TypeOK, TypeOK', CoolInv, CoolBounded', [Next]_vars
             PROVE CoolInv'
  OBVIOUS
<1> USE DEF TypeOK, CoolInv, CoolOf, Kept, OwnCopy
<1>1. ASSUME NEW p \in Proc, NEW t \in Ticker, Check(p, t) PROVE CoolInv'
  BY <1>1 DEF Check, Take, Do, LoseFlags, Other, Busy
<1>2. ASSUME NEW p \in Proc, SellPart(p) PROVE CoolInv'
  BY <1>2 DEF SellPart, Take, Do, Sold
<1>3. ASSUME NEW p \in Proc, LoadFlags(p) PROVE CoolInv'
  BY <1>3 DEF LoadFlags, Continue, Rest, Do, Take, Hold
<1>4. ASSUME NEW p \in Proc, LoadCool(p) PROVE CoolInv'
  BY <1>4 DEF LoadCool, Do, Hold, LoseCool
<1>5. ASSUME NEW p \in Proc, OpenFile(p) PROVE CoolInv'
  <2>1. CASE job[p] \in FlagJobs
    BY <1>5, <2>1 DEF OpenFile, Do, Busy
  <2>2. CASE job[p] \in CoolJobs /\ p = "risk"
    BY <1>5, <2>2 DEF OpenFile, Do, Busy
  <2>3. CASE job[p] \in CoolJobs /\ p = "trader"
    BY <1>5, <2>3 DEF OpenFile, Do, Busy
  <2> QED BY <1>5, <2>1, <2>2, <2>3 DEF OpenFile, Busy
<1>6. ASSUME NEW p \in Proc, DumpFile(p) PROVE CoolInv'
  <2>1. /\ at'[p] = "load" /\ job'[p] \notin {"off", "save"}
        /\ p = "trader" => job'[p] # "off"
        /\ \A q \in Proc \ {p} : /\ job'[q] = job[q] /\ at'[q] = at[q]
                                 /\ tk'[q] = tk[q] /\ buf'[q] = buf[q]
    BY <1>6 DEF DumpFile, Continue, Rest, Do, Take, Hold
  <2>2. CASE job[p] \in FlagJobs
    BY <1>6, <2>1, <2>2 DEF DumpFile, Busy, LoseCool
  <2>3. CASE job[p] \in CoolJobs /\ p = "risk"
    BY <1>6, <2>1, <2>3 DEF DumpFile, Busy, LoseCool
  <2>4. CASE job[p] \in CoolJobs /\ p = "trader"
    BY <1>6, <2>1, <2>4 DEF DumpFile, Busy, LoseCool
  <2> QED BY <1>6, <2>2, <2>3, <2>4 DEF DumpFile, Busy
<1>7. ASSUME NEW p \in Proc, Kill(p) PROVE CoolInv'
  BY <1>7 DEF Kill, Do, Take, Hold, Busy
<1>8. ASSUME NEW t \in Ticker, FullExit(t) PROVE CoolInv'
  BY <1>8 DEF FullExit, Do, Take, LoseFlags, Busy, Other
<1>9. ASSUME NEW t \in Ticker, CooldownFailed(t) PROVE CoolInv'
  BY <1>9 DEF CooldownFailed, Save, Do, Take, Hold, CoolBounded
<1>10. ASSUME NEW t \in Ticker, CooldownEnded(t) PROVE CoolInv'
  BY <1>10 DEF CooldownEnded, Save, Do, Take, Hold
<1>11. ASSUME NEW t \in Ticker, Buy(t) PROVE CoolInv'
  BY <1>11 DEF Buy
<1>12. ASSUME NEW t \in Ticker, Settle(t) PROVE CoolInv'
  BY <1>12 DEF Settle
<1>13. CASE TraderStart
  BY <1>13 DEF TraderStart, Rest, Do, Take, Hold
<1>14. CASE TraderEnd
  BY <1>14 DEF TraderEnd
<1>15. CASE Tick
  BY <1>15 DEF Tick
<1>16. CASE UNCHANGED vars
  BY <1>16 DEF vars
<1> QED
  BY <1>1, <1>2, <1>3, <1>4, <1>5, <1>6, <1>7, <1>8, <1>9, <1>10, <1>11, <1>12, <1>13, <1>14, <1>15, <1>16 DEF Next

(* A second sell within the time of the flag, and a buy within a cooldown, *)
(* happen only to tickers that are excused.                                *)
LEMMA HistoryStep == TypeOK /\ IInv /\ TypeOK' /\ [Next]_vars => (again \subseteq noflag /\ early \subseteq nocool)'
<1> USE StrategyAssumption, TornAssumption
    DEF Proc, Day, Map, FlagJobs, CoolJobs, files, control, history, Empty, Load,
        Later, EditsFlags, EditsCool
<1> DEFINE Excused == again \subseteq noflag /\ early \subseteq nocool
<1> SUFFICES ASSUME TypeOK, IInv, TypeOK', [Next]_vars PROVE Excused'
  OBVIOUS
<1> USE DEF TypeOK
<1>1. ASSUME NEW p \in Proc, NEW t \in Ticker, Check(p, t) PROVE Excused'
  BY <1>1 DEF Check, Take, Do, LoseFlags, Other, Busy, IInv
<1>2. ASSUME NEW p \in Proc, SellPart(p) PROVE Excused'
  BY <1>2 DEF SellPart, Take, Do, Sold, IInv, FlagInv, FlagOf, Expired
<1>3. ASSUME NEW p \in Proc, LoadFlags(p) PROVE Excused'
  BY <1>3 DEF LoadFlags, Continue, Rest, Do, Take, Hold, IInv
<1>4. ASSUME NEW p \in Proc, LoadCool(p) PROVE Excused'
  BY <1>4 DEF LoadCool, Do, Hold, LoseCool, IInv
<1>5. ASSUME NEW p \in Proc, OpenFile(p) PROVE Excused'
  BY <1>5 DEF OpenFile, Do, Busy, IInv
<1>6. ASSUME NEW p \in Proc, DumpFile(p) PROVE Excused'
  BY <1>6 DEF DumpFile, Continue, Rest, Do, Take, Hold, LoseCool, Busy, IInv
<1>7. ASSUME NEW p \in Proc, Kill(p) PROVE Excused'
  BY <1>7 DEF Kill, Do, Take, Hold, Busy, IInv
<1>8. ASSUME NEW t \in Ticker, FullExit(t) PROVE Excused'
  BY <1>8 DEF FullExit, Do, Take, LoseFlags, Busy, Other, IInv
<1>9. ASSUME NEW t \in Ticker, CooldownFailed(t) PROVE Excused'
  BY <1>9 DEF CooldownFailed, Save, Do, Take, Hold, IInv
<1>10. ASSUME NEW t \in Ticker, CooldownEnded(t) PROVE Excused'
  BY <1>10 DEF CooldownEnded, Save, Do, Take, Hold, IInv
<1>11. ASSUME NEW t \in Ticker, Buy(t) PROVE Excused'
  BY <1>11 DEF Buy, IInv, CoolInv, CoolOf, Kept
<1>12. ASSUME NEW t \in Ticker, Settle(t) PROVE Excused'
  BY <1>12 DEF Settle, IInv
<1>13. CASE TraderStart
  BY <1>13 DEF TraderStart, Rest, Do, Take, Hold, IInv
<1>14. CASE TraderEnd
  BY <1>14 DEF TraderEnd, IInv
<1>15. CASE Tick
  BY <1>15 DEF Tick, IInv
<1>16. CASE UNCHANGED vars
  BY <1>16 DEF vars, IInv
<1> QED
  BY <1>1, <1>2, <1>3, <1>4, <1>5, <1>6, <1>7, <1>8, <1>9, <1>10, <1>11, <1>12, <1>13, <1>14, <1>15, <1>16 DEF Next

(* The inductive invariant. *)
THEOREM Invariance == Spec => []IInv
<1>1. Init => IInv
  BY StrategyAssumption, TornAssumption
     DEF Init, IInv, TypeOK, Proc, Day, Map, Empty, Load, FlagJobs, CoolJobs,
         FlagsSold, FlagInv, FlagOf, FlagOnWay, Expired, InSection, EditsFlags,
         EditsCool, CoolInv, CoolOf, CoolBounded, OwnCopy, Kept
<1>2. IInv /\ [Next]_vars => IInv'
  <2> SUFFICES ASSUME IInv, [Next]_vars PROVE IInv'
    OBVIOUS
  <2>1. TypeOK /\ TypeOK'
    BY TypeStep DEF IInv
  <2>2. FlagsSold' /\ FlagInv'
    BY <2>1, SoldStep, FlagStep DEF IInv
  <2>3. CoolBounded'
    BY <2>1, BoundStep DEF IInv, CoolInv
  <2>4. CoolInv'
    BY <2>1, <2>3, CoolStep DEF IInv
  <2>5. (again \subseteq noflag /\ early \subseteq nocool)'
    BY <2>1, HistoryStep
  <2> QED BY <2>1, <2>2, <2>4, <2>5 DEF IInv
<1> QED
  BY <1>1, <1>2, PTL DEF Spec

(* mark_partial_sell and had_partial_sell: for any tickers and any length  *)
(* of the flag's time, a ticker is sold in part twice within it only if it *)
(* is excused, and no flag is out of nothing.                              *)
THEOREM SoldOncePerWindow == Spec => []OnceUnlessUnflagged
<1>1. IInv => OnceUnlessUnflagged
  BY DEF IInv, OnceUnlessUnflagged, FlagsSold
<1> QED
  BY <1>1, Invariance, PTL

(* add_post_partial_buy_cooldown and _is_in_cooldown: for any tickers and  *)
(* periods, a buy within the cooldown of a partial sell needs an excuse.   *)
THEOREM NoEarlyRebuy == Spec => []RebuyBlockedUnlessStale
<1>1. IInv => RebuyBlockedUnlessStale
  BY DEF IInv, RebuyBlockedUnlessStale
<1> QED
  BY <1>1, Invariance, PTL
=============================================================================
