------------------------------- MODULE RiskRules -------------------------------
(***************************************************************************)
(* What risk_manager.py decides about one holding: keep it, sell it, sell  *)
(* a part of it, or fail.  Prices are in cents; the code reads whole       *)
(* dollars of them.  Shares of a price are in thousandths.                 *)
(***************************************************************************)
EXTENDS Integers, Sequences

CONSTANTS
    Average,    \* average purchase price of a holding
    CrashPrice, \* price of a holding that has crashed
    Prices,     \* prices of one that has not
    Core        \* stop and target levels the screener's core may return

ASSUME RulesAssumption ==
    /\ {Average, CrashPrice} \cup Prices \subseteq Nat \ {0}
    /\ Core \subseteq [stop : Nat \ {0}, target : Nat \ {0}]

(* config.json, and what an operator may switch on in it *)
Rulesets == [improved : BOOLEAN, whole : BOOLEAN, prevBreak : BOOLEAN]

EmergencyDrop == 130
PartialProfit == 25
MinProfit     == 12
StopPct       == 30
FixedProfit   == 60
RsiTakeProfit == 82
RsiEarly      == 85

(* What the data may say: the RSI; how many strategies say sell, of the    *)
(* crossing of the averages, the chart and the ATR (which only says so     *)
(* when it is less than the rounding of the average price), where three    *)
(* are as good as two; whether enough conditions confirm the RSI; and      *)
(* whether the price is below the last close.                              *)
RsiValues    == {50, 78, 83, 86}
Signals      == 0 .. 2
Confirmed(c) == {FALSE, c.improved}
Below(c)     == {FALSE, c.prevBreak}

(* Facts of one judgement: these, the price, the levels of the core if it  *)
(* found any, whether the sell window is open and whether the two minimum  *)
(* holding times are met.                                                  *)
NoLevels == [stop |-> 0, target |-> 0]
Facts(c, price, window, hours, days) ==
    [price : {price}, core : Core \cup {NoLevels}, rsi : RsiValues, signals : Signals,
     confirmed : Confirmed(c), below : Below(c),
     window : {window}, hours : {hours}, days : {days}]

-----------------------------------------------------------------------------
(* Prices                                                                  *)

(* _to_int cuts the cents off, round() rounds them. *)
Dollars(x) == x \div 100
Rounded(x) == (x + 50) \div 100

Seen(f) == 100 * Dollars(f.price)

(* a is at most, or at least, b and p thousandths of it. *)
AtMost(a, b, p)  == 1000 * a <= b * (1000 + p)
AtLeast(a, b, p) == 1000 * a >= b * (1000 + p)

(* The levels of compute_realtime_levels: the core's, else percentages of  *)
(* the average price, with a reward of three times the risk.               *)
Backup == [stop   |-> Rounded((Average * (1000 - StopPct)) \div 1000),
           target |-> Rounded((Average * (1000 + 3 * StopPct)) \div 1000)]
Levels(f) == IF f.core = NoLevels THEN Backup ELSE f.core

-----------------------------------------------------------------------------
(* The basic rules, in the order of the code: the first that applies       *)
(* decides.                                                                *)

Decision == {"keep", "emergency", "whole", "part", "fail"}
Rung(when, then) == [when |-> when, then |-> then]

(* The loss is KIS's own, of the exact price. *)
Emergency(f) ==
    <<Rung(f.window /\ AtMost(f.price, Average, -EmergencyDrop), "emergency")>>

TakePart(f) ==
    LET due == AtLeast(Seen(f), Average, PartialProfit) /\ Seen(f) < 100 * Levels(f).target
    IN <<Rung(due /\ ~f.window, "keep"), Rung(due, "part")>>

MinHours(f) == <<Rung(~f.hours, "keep")>>

StopLoss(f) ==
    LET hit == f.window /\ Dollars(f.price) <= Levels(f).stop
    IN <<Rung(hit /\ ~f.days, "keep"), Rung(hit, "whole")>>

TakeProfit(f) ==
    <<Rung(f.window /\ Dollars(f.price) >= Levels(f).target, "whole")>>

(* _check_improved_rsi_strategy: below its warning level of 75 it ends the *)
(* judgement, between 75 and 80 it leaves it to the rules that follow.     *)
ImprovedRsi(c, f) ==
    LET high == c.improved /\ f.rsi >= 80
    IN <<Rung(high /\ ~f.days, "keep"),
         Rung(high /\ ~f.confirmed, "keep"),
         Rung(high /\ c.whole, "whole"),
         Rung(high, "part"),
         Rung(c.improved /\ f.rsi < 75, "keep")>>

Rsi(f) ==
    LET high   == f.rsi >= RsiTakeProfit
        profit == 100 * Levels(f).target - Average
        early  == profit <= 0 \/ 2 * (Seen(f) - Average) < profit
    IN <<Rung(high /\ ~AtLeast(Seen(f), Average, MinProfit), "keep"),
         Rung(high /\ early /\ f.rsi < RsiEarly, "keep"),
         Rung(high /\ ~f.days, "keep"),
         Rung(high, "whole")>>

(* The rule calls a method the class does not have. *)
PrevClose(c, f) == <<Rung(c.prevBreak /\ f.window /\ f.below, "fail")>>

(* The rule on a longest holding time never applies: no entry date is      *)
(* ever given.                                                             *)
SlipRules(c, f) ==
    MinHours(f) \o Emergency(f) \o TakePart(f) \o StopLoss(f) \o TakeProfit(f)
        \o ImprovedRsi(c, f) \o Rsi(f) \o PrevClose(c, f) \o <<Rung(TRUE, "keep")>>

Rules(c, f) ==
    Emergency(f) \o TakePart(f) \o MinHours(f) \o StopLoss(f) \o TakeProfit(f)
        \o ImprovedRsi(c, f) \o Rsi(f) \o PrevClose(c, f) \o <<Rung(TRUE, "keep")>>

Basic(c, f) ==
    LET rules == Rules(c, f)
    IN rules[CHOOSE i \in DOMAIN rules :
                 rules[i].when /\ \A j \in 1 .. i - 1 : ~rules[j].when].then

-----------------------------------------------------------------------------
(* The strategies, asked whenever the basic rules keep the holding         *)

(* compute_realtime_levels is given the average purchase price: the fixed  *)
(* stop and profit of the strategies compare the average with itself,      *)
(* rounded to dollars.                                                     *)
Fixed == \/ AtMost(100 * Rounded(Average), Average, -StopPct)
         \/ AtLeast(100 * Rounded(Average), Average, FixedProfit)

(* Of the weights that can count, any two reach the threshold. *)
Mixer(c, f) ==
    Fixed \/ f.signals + (IF ~c.improved /\ f.rsi >= RsiTakeProfit THEN 1 ELSE 0) >= 2

(* At a loss below four fifths of the stop they are not listened to. *)
Suppressed(f) == Seen(f) < Average /\ ~AtMost(Seen(f), Average, -((4 * StopPct) \div 5))

Decide(c, f) ==
    LET basic == Basic(c, f)
    IN IF Dollars(f.price) = 0 THEN "keep"
       ELSE IF basic = "keep" /\ Mixer(c, f) /\ ~Suppressed(f)
            THEN "whole" ELSE basic

(* compute_partial_qty, of half the holding: a single share is sold. *)
SlipPartialQty(n) == n \div 2

PartialQty(n) == IF n = 1 THEN 1 ELSE n \div 2

=============================================================================
