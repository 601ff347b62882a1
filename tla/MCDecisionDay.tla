----------------------------- MODULE MCDecisionDay -----------------------------
(* Small instances of DecisionDay: the manager's run and one of an operator. *)
EXTENDS DecisionDay

CONSTANTS cli
=============================================================================
