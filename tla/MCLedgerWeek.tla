---------------------------- MODULE MCLedgerWeek ----------------------------
(* Small instances of LedgerWeek: a full week of sessions. *)
EXTENDS LedgerWeek

MCSessionNights == 0 .. 4
=============================================================================
