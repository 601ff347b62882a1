---------------------------- MODULE MCDailyBalance ----------------------------
(* Small instances of DailyBalance: the second of two trade dates up to    *)
(* its scheduled close, with files left of the first.                      *)
EXTENDS DailyBalance

Old(k, n, at, sha) ==
    [kind |-> k, name |-> n,
     snap |-> [date |-> 1, at |-> at, src |-> "file", status |-> "unmarked", sha |-> sha, fx |-> TRUE]]

\* The close of the first date under its own name, with a hash, or under
\* that of the next day and without one.
MCOlds == {Old("close", 1, 3, 3), Old("close", 2, 3, 0)}
=============================================================================
