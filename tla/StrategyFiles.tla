---------------------------- MODULE StrategyFiles ----------------------------
(***************************************************************************)
(* output/partial_sell_flags.json and output/cooldown.json, written by the *)
(* risk manager and by runs of the trader, and the partial sells and buys  *)
(* that ask them (partial_sell_state.py, risk_manager.py, trader.py).      *)
(*                                                                         *)
(* A file is a map from tickers to days, 0 for "no entry", or Torn between *)
(* open("w") and the end of json.dump; a torn file is loaded as an empty   *)
(* map.  An edit of a file is a load, an open and a dump, and the          *)
(* processes interleave between them.  The order in which a run of the     *)
(* trader visits its tickers, and sells and buys, is left open.            *)
(***************************************************************************)
EXTENDS Naturals

CONSTANTS
    Ticker,
    FlagTTL,        \* partial_sell_flag_ttl_days
    PartialDays,    \* post_partial_sell_buy_cooldown_days
    PeriodDays,     \* cooldown_period_days
    MaxDay,         \* bound of the clock
    NoTicker, Torn

ASSUME StrategyAssumption ==
    /\ FlagTTL \in Nat \ {0} /\ MaxDay \in Nat \ {0}
    /\ PartialDays \in Nat \ {0} /\ PeriodDays \in Nat
    /\ PartialDays <= PeriodDays    \* as configured: 5 and 20 days
    /\ NoTicker \notin Ticker

Proc == {"risk", "trader"}
Day  == 1 .. MaxDay
Map  == [Ticker -> 0 .. (MaxDay + PeriodDays)]

ASSUME TornAssumption == Torn \notin Map

VARIABLES
    now,        \* today
    flags,      \* partial_sell_flags.json
    cool,       \* cooldown.json
    mem,        \* Trader.cooldown_list
    open,       \* tickers with an open SELL row in trade_records
    job, at,    \* what each process is doing, and the next call of a file edit
    tk,         \* the ticker it is doing it for
    buf,        \* the map it is about to dump
    sold,       \* history: tickers KIS has sold in part
    last,       \* history: day of the last one since the last full exit
    again,      \* history: tickers sold in part twice within FlagTTL days
    promised,   \* history: end of the latest buy cooldown of a partial sell
    early,      \* history: tickers bought before that
    noflag,     \* history: tickers whose flag was not written, or may be lost
    nocool      \* history: the same for their cooldown

files   == <<flags, cool, mem>>
control == <<job, at, tk, buf>>
history == <<sold, last, again, promised, early, noflag, nocool>>
vars    == <<now, files, open, control, history>>

Empty        == [t \in Ticker |-> 0]
Load(f)      == IF f = Torn THEN Empty ELSE f
Later(a, b)  == IF a < b THEN b ELSE a

FlagJobs == {"clear", "mark", "exit_clear"}
CoolJobs == {"cool", "exit_cool", "save"}

TypeOK ==
    /\ now \in Day
    /\ flags \in Map \cup {Torn} /\ cool \in Map \cup {Torn} /\ mem \in Map
    /\ open \subseteq Ticker
    /\ job \in [Proc -> {"off", "idle", "sell"} \cup FlagJobs \cup CoolJobs]
    /\ job["risk"] \in {"idle", "sell", "clear", "mark", "cool"}
    /\ at \in [Proc -> {"load", "open", "dump"}]
    /\ tk \in [Proc -> Ticker \cup {NoTicker}]
    /\ \A p \in Proc :
          /\ job[p] \notin {"off", "idle"} => tk[p] \in Ticker
          /\ at[p] # "load" => job[p] \in FlagJobs \cup CoolJobs
    /\ buf \in [Proc -> Map]
    /\ last \in Map /\ promised \in Map
    /\ \A s \in {sold, again, early, noflag, nocool} : s \subseteq Ticker

Init ==
    /\ now = 1
    /\ flags = Empty /\ cool = Empty /\ mem = Empty /\ open = {}
    /\ job = [p \in Proc |-> IF p = "risk" THEN "idle" ELSE "off"]
    /\ at = [p \in Proc |-> "load"]
    /\ tk = [p \in Proc |-> NoTicker]
    /\ buf = [p \in Proc |-> Empty]
    /\ last = Empty /\ promised = Empty
    /\ sold = {} /\ again = {} /\ early = {} /\ noflag = {} /\ nocool = {}

Busy(p)       == job[p] \notin {"idle", "off"}
Other(p)      == IF p = "risk" THEN "trader" ELSE "risk"
Do(p, j, s)   == job' = [job EXCEPT ![p] = j] /\ at' = [at EXCEPT ![p] = s]
Take(p, t)    == tk' = [tk EXCEPT ![p] = t]
Hold(p, m)    == buf' = [buf EXCEPT ![p] = m]
(* Slip: the edit is over and the job is not. *)
SlipRest(p)   == Do(p, job[p], "load") /\ Take(p, NoTicker) /\ Hold(p, Empty)

Rest(p)       == Do(p, "idle", "load") /\ Take(p, NoTicker) /\ Hold(p, Empty)

(* Two processes inside their sections at once: any flag may get lost. *)
LoseFlags(p)  == noflag' = IF Busy(Other(p)) THEN Ticker ELSE noflag
(* The cooldown file and the copy of a running trader may now disagree. *)
LoseCool(p)   == nocool' = IF p = "risk" /\ job["trader"] # "off"
                           THEN Ticker ELSE nocool

-----------------------------------------------------------------------------
(* Partial sells                                                           *)

(* Slip: a flag of exactly partial_sell_flag_ttl_days counts as expired. *)
SlipCheck(p, t) ==
    LET raw == Load(flags)[t] IN
    /\ job[p] = "idle"
    /\ \/ raw = 0 /\ t \notin open /\ Do(p, "sell", "load")
       \/ raw # 0 /\ now - raw >= FlagTTL /\ Do(p, "clear", "load")
    /\ Take(p, t) /\ LoseFlags(p)
    /\ UNCHANGED <<now, files, open, buf, sold, last, again, promised, early,
                   nocool>>

(* had_partial_sell, then has_open_sell_order: a flag within its time or   *)
(* an open sell ends the attempt; an expired flag is cleared on the way.   *)
(* The other conditions of a partial sell only remove attempts.            *)
Check(p, t) ==
    LET raw == Load(flags)[t] IN
    /\ job[p] = "idle"
    /\ \/ raw = 0 /\ t \notin open /\ Do(p, "sell", "load")
       \/ raw # 0 /\ now - raw > FlagTTL /\ Do(p, "clear", "load")
    /\ Take(p, t) /\ LoseFlags(p)
    /\ UNCHANGED <<now, files, open, buf, sold, last, again, promised, early,
                   nocool>>

(* The order: KIS takes it and the caller knows (risk: with an open row),  *)
(* or KIS takes it and the caller does not learn it or cannot record it,   *)
(* or there is no order.                                                   *)
Sold(t) ==
    /\ sold' = sold \cup {t}
    /\ last' = [last EXCEPT ![t] = now]
    /\ again' = IF last[t] # 0 /\ now - last[t] <= FlagTTL
                THEN again \cup {t} ELSE again

SellPart(p) ==
    LET t == tk[p] IN
    /\ job[p] = "sell"
    /\ \/ /\ Sold(t) /\ Do(p, "mark", "load") /\ UNCHANGED <<tk, noflag, nocool>>
          /\ open' = IF p = "risk" THEN open \cup {t} ELSE open
       \/ /\ Sold(t) /\ Do(p, "idle", "load") /\ Take(p, NoTicker)
          /\ noflag' = noflag \cup {t} /\ nocool' = nocool \cup {t}
          /\ UNCHANGED open
       \/ /\ Do(p, "idle", "load") /\ Take(p, NoTicker)
          /\ UNCHANGED <<open, sold, last, again, noflag, nocool>>
    /\ UNCHANGED <<now, files, buf, promised, early>>

-----------------------------------------------------------------------------
(* Edits of the two files                                                  *)

(* After an edit: a cleared flag leads to the sell, a mark to the cooldown, *)
(* the cooldown of a full exit to the clearing of the flag.                *)
Continue(p) ==
    LET j == CASE job[p] = "clear" -> IF tk[p] \in open THEN "idle" ELSE "sell"
               [] job[p] = "mark" -> "cool"
               [] job[p] = "exit_cool" -> "exit_clear"
               [] OTHER -> "idle" IN
    IF j = "idle" THEN Rest(p)
                  ELSE Do(p, j, "load") /\ Hold(p, Empty) /\ UNCHANGED tk

(* mark_partial_sell, clear_partial_sell_flag: load and change; a flag      *)
(* that is no longer there is not cleared.                                 *)
LoadFlags(p) ==
    LET m == [Load(flags) EXCEPT ![tk[p]] = IF job[p] = "mark" THEN now ELSE 0] IN
    /\ job[p] \in FlagJobs /\ at[p] = "load"
    /\ IF job[p] = "mark" \/ Load(flags)[tk[p]] # 0
       THEN Do(p, job[p], "open") /\ Hold(p, m) /\ UNCHANGED tk
       ELSE Continue(p)
    /\ UNCHANGED <<now, files, open, history>>

(* Slip: the trader edits the file and not its own copy. *)
SlipOwnCopy(p) ==
    LET m == IF p = "risk" THEN Load(cool) ELSE mem
        n == [m EXCEPT ![tk[p]] = Later(@, now + PartialDays)] IN
    /\ job[p] \in {"cool", "exit_cool"} /\ at[p] = "load"
    /\ Do(p, job[p], "open") /\ Hold(p, n)
    /\ LoseCool(p)
    /\ UNCHANGED <<now, flags, cool, mem, open, tk, sold, last, again, promised,
                   early, noflag>>

(* add_post_partial_buy_cooldown edits what is in the file, the trader's   *)
(* _add_to_cooldown_for_days its own copy; both keep the later end.        *)
LoadCool(p) ==
    LET t == tk[p]
        m == IF p = "risk" THEN Load(cool) ELSE mem
        n == [m EXCEPT ![t] = Later(@, now + PartialDays)] IN
    /\ job[p] \in {"cool", "exit_cool"} /\ at[p] = "load"
    /\ Do(p, job[p], "open") /\ Hold(p, n)
    /\ mem' = IF p = "trader" THEN n ELSE mem
    /\ LoseCool(p)
    /\ UNCHANGED <<now, flags, cool, open, tk, sold, last, again, promised,
                   early, noflag>>

OpenFile(p) ==
    /\ Busy(p) /\ at[p] = "open"
    /\ IF job[p] \in FlagJobs THEN flags' = Torn /\ UNCHANGED cool
                              ELSE cool' = Torn /\ UNCHANGED flags
    /\ Do(p, job[p], "dump")
    /\ UNCHANGED <<now, mem, open, tk, buf, history>>

DumpFile(p) ==
    LET j == job[p] IN
    /\ Busy(p) /\ at[p] = "dump"
    /\ IF j \in FlagJobs THEN flags' = buf[p] /\ UNCHANGED cool
                         ELSE cool' = buf[p] /\ UNCHANGED flags
    /\ Continue(p)
    /\ promised' = IF j = "cool" THEN [promised EXCEPT ![tk[p]] = buf[p][tk[p]]]
                                 ELSE promised
    /\ LoseCool(p)
    /\ UNCHANGED <<now, mem, open, sold, last, again, early, noflag>>

-----------------------------------------------------------------------------
(* The trader's run                                                        *)

TraderStart ==
    /\ job["trader"] = "off"
    /\ mem' = Load(cool)
    /\ Rest("trader")
    /\ nocool' = IF job["risk"] = "cool" THEN Ticker ELSE nocool
    /\ UNCHANGED <<now, flags, cool, open, sold, last, again, promised, early,
                   noflag>>

TraderEnd ==
    /\ job["trader"] = "idle"
    /\ job' = [job EXCEPT !["trader"] = "off"]
    /\ mem' = Empty
    /\ UNCHANGED <<now, flags, cool, open, at, tk, buf, history>>

(* A full sell is filled: with a flag in force, buys are blocked anew and  *)
(* the flag is cleared; an expired flag is cleared.                        *)
FullExit(t) ==
    LET raw == Load(flags)[t] IN
    /\ job["trader"] = "idle"
    /\ last' = [last EXCEPT ![t] = 0]
    /\ \/ raw = 0 /\ UNCHANGED <<job, at, tk>>
       \/ /\ raw # 0 /\ now - raw <= FlagTTL
          /\ Do("trader", "exit_cool", "load") /\ Take("trader", t)
       \/ /\ raw # 0 /\ now - raw > FlagTTL
          /\ Do("trader", "exit_clear", "load") /\ Take("trader", t)
    /\ LoseFlags("trader")
    /\ UNCHANGED <<now, files, open, buf, sold, again, promised, early, nocool>>

Save(m, t) ==
    /\ mem' = m /\ Hold("trader", m)
    /\ Do("trader", "save", "open") /\ Take("trader", t)

(* _add_to_cooldown after repeated or permanent failures. *)
CooldownFailed(t) ==
    /\ job["trader"] = "idle"
    /\ Save([mem EXCEPT ![t] = now + PeriodDays], t)
    /\ UNCHANGED <<now, flags, cool, open, history>>

(* _is_in_cooldown with an entry that has ended. *)
CooldownEnded(t) ==
    /\ job["trader"] = "idle"
    /\ mem[t] # 0 /\ now >= mem[t]
    /\ Save([mem EXCEPT ![t] = 0], t)
    /\ UNCHANGED <<now, flags, cool, open, history>>

(* A buy passes _is_in_cooldown. *)
Buy(t) ==
    /\ job["trader"] = "idle"
    /\ mem[t] = 0
    /\ early' = IF now < promised[t] THEN early \cup {t} ELSE early
    /\ UNCHANGED <<now, files, open, control, sold, last, again, promised,
                   noflag, nocool>>

-----------------------------------------------------------------------------
(* A kill; a file left open is empty from then on. *)
Kill(p) ==
    /\ Busy(p)
    /\ Do(p, IF p = "risk" THEN "idle" ELSE "off", "load")
    /\ Take(p, NoTicker) /\ Hold(p, Empty)
    /\ mem' = IF p = "trader" THEN Empty ELSE mem
    /\ noflag' = IF flags = Torn THEN Ticker ELSE noflag \cup {tk[p]}
    /\ nocool' = IF cool = Torn THEN Ticker ELSE nocool \cup {tk[p]}
    /\ UNCHANGED <<now, flags, cool, open, sold, last, again, promised, early>>

(* An open sell row is filled, cancelled or expires. *)
Settle(t) ==
    /\ t \in open /\ open' = open \ {t}
    /\ UNCHANGED <<now, files, control, history>>

Tick ==
    /\ now < MaxDay /\ now' = now + 1
    /\ UNCHANGED <<files, open, control, history>>

Next ==
    \/ \E t \in Ticker : \/ \E p \in Proc : Check(p, t)
                         \/ FullExit(t) \/ CooldownFailed(t) \/ CooldownEnded(t)
                         \/ Buy(t) \/ Settle(t)
    \/ \E p \in Proc : \/ SellPart(p) \/ LoadFlags(p) \/ LoadCool(p)
                       \/ OpenFile(p) \/ DumpFile(p) \/ Kill(p)
    \/ TraderStart \/ TraderEnd \/ Tick

Spec == Init /\ [][Next]_vars

-----------------------------------------------------------------------------
(* Properties *)

(* Once per window: a ticker is sold in part twice within FlagTTL days     *)
(* only if a sell was not flagged (lost answer, failed record, kill), a    *)
(* kill left the file empty, or the two processes overlapped.  And no flag *)
(* out of nothing: whatever the two overwrite, an entry of the flag file   *)
(* follows a partial sell of its ticker that KIS took.                     *)
OnceUnlessUnflagged ==
    /\ again \subseteq noflag
    /\ \A t \in Ticker : Load(flags)[t] # 0 => t \in sold

(* No early rebuy: the trader buys within the cooldown of a partial sell   *)
(* only if the sell got no cooldown or the risk manager wrote the file     *)
(* during a run of the trader.                                             *)
RebuyBlockedUnlessStale == early \subseteq nocool
=============================================================================
