--------------------------- MODULE MCStrategyFiles ---------------------------
(* Small instances of StrategyFiles. *)
EXTENDS StrategyFiles
=============================================================================
