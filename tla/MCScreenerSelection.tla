------------------------- MODULE MCScreenerSelection -------------------------
(* Small instances of ScreenerSelection. *)
EXTENDS ScreenerSelection

Cfg(top, cap, m, v, stop) ==
    [top |-> top, cap |-> cap, momentum |-> m, volatility |-> v, shadowtop |-> stop]

MCConfig == {Cfg(2, 50, FALSE, FALSE, 2), Cfg(2, 0, TRUE, FALSE, 1),
             Cfg(1, 35, FALSE, TRUE, 2), Cfg(0, 35, FALSE, FALSE, 0)}

IssuersAndSectors == Permutations(Issuers) \cup Permutations(Sectors)
=============================================================================
