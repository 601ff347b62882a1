------------------------------ MODULE MCRiskCycle ------------------------------
(* A share bought at 11.40, with prices that are cut to 11, 11 and 12       *)
(* dollars: two shares of one ticker under every set of rules, or a share  *)
(* of each of two under the rules of config.json.                          *)
EXTENDS RiskCycle

CONSTANTS a, b

MCPrices == {1125, 1160, 1230}
MCCore   == {[stop |-> 10, target |-> 13]}

Plain == [improved |-> FALSE, whole |-> FALSE, prevBreak |-> FALSE]
Lot(x, y) == [t \in Ticker |-> IF t = a THEN x ELSE y]

MCBegin ==
    {[rules |-> r, lot |-> Lot(2, 0)] : r \in Rulesets}
        \cup {[rules |-> Plain, lot |-> Lot(1, 1)]}
=============================================================================
