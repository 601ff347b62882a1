---------------------------- MODULE MCTradeLedger ----------------------------
(* Small instances of TradeLedger. *)
EXTENDS TradeLedger
=============================================================================
