--------------------------- MODULE MCLedgerRepair ----------------------------
(* Small instances of LedgerRepair. *)
EXTENDS LedgerRepair
=============================================================================
