----------------------------- MODULE LedgerWeek -----------------------------
(***************************************************************************)
(* TradeLedger in the week of the scheduler (integrated_manager.py         *)
(* register_jobs, US market): the sessions of the nights, KST, the batch   *)
(* check and the reconciler on the mornings of Monday to Friday, and the   *)
(* 36 hours the scheduled reconciler looks back.  Night 0 is Monday's.     *)
(* The operator's own runs are left out here.                              *)
(***************************************************************************)
EXTENDS TradeLedger

CONSTANT SessionNights  \* nights of the week with a session

ASSUME WeekAssumption == SessionNights \subseteq 0 .. 4

VARIABLES
    night, hour,    \* the last evening's weekday; its session or its morning
    due,            \* the run of this morning is still to come
    age,            \* per row, the nights since its timestamp, at most Old
    outage          \* whether the last run failed: "no", "yes", "before"

calendar == <<night, hour, due, age, outage>>
weekvars == <<vars, calendar>>

(* --since-hours 36 at 06:10 reaches back to 18:10 of the day before the   *)
(* last evening: that night and the one before it.                         *)
Back == 1
Old  == Back + 1

(* Slip: the window is counted from the start of the last evening's day. *)
SlipReadable ==
    {rows[i].id : i \in {j \in RowsIn(Open) : age[j] < Back}} \ {NoOrder}

Readable ==
    {rows[i].id : i \in {j \in RowsIn(Open) : age[j] <= Back}} \ {NoOrder}

(* Jobs are registered for the mornings of weekdays, and a morning on      *)
(* which New York has no session (is_market_open_day) is skipped.          *)
RunNights == {n \in SessionNights : (n + 1) % 7 \in 0 .. 4}

WeekInit ==
    /\ Init /\ night = 0 /\ hour = "session" /\ due = FALSE
    /\ age = <<>> /\ outage = "no"

-----------------------------------------------------------------------------
(* The ledger's steps, each at its time of the day *)

Session ==
    /\ hour = "session" /\ night \in SessionNights
    /\ \E o \in Order : Fill(o) \/ \E p \in Proc : Submit(p, o)
    /\ UNCHANGED calendar

BatchCheck == due /\ BatchStart /\ UNCHANGED calendar

ScheduledRun ==
    /\ due /\ ReconStart /\ todo'["recon"] = Readable
    /\ due' = FALSE
    /\ outage' = IF outage = "yes" THEN "before" ELSE "no"
    /\ UNCHANGED <<night, hour, age>>

(* save_trade_record and the UPDATE of the upsert set the timestamp. *)
Stamp(p) ==
    /\ WriteRow(p)
    /\ age' = IF up[p].row = 0 THEN Append(age, 0)
                               ELSE [age EXCEPT ![up[p].row] = 0]
    /\ UNCHANGED <<night, hour, due, outage>>

(* Every other step of the ledger, at any time. *)
Elsewhen ==
    /\ \/ \E p \in Proc : SelectRow(p) \/ FailRow(p) \/ NoRecord(p)
                          \/ RecordPending(p) \/ (p # "recon" /\ Kill(p))
       \/ RecordExecuted \/ RecordOrphan \/ RecordByHoldings
       \/ BatchLoad \/ BatchEnd
       \/ ReconFetch \/ ReadOrphans \/ MatchOrphan \/ DetectBrokerOnly \/ ReconEnd
       \/ \E o \in Order : BatchOrder(o) \/ ReconUpdate(o) \/ Backfill(o) \/ Close(o)
    /\ UNCHANGED calendar

-----------------------------------------------------------------------------
(* Failed runs, of which there are never two in a row, and time *)

Fails ==
    /\ outage # "before"
    /\ outage' = "yes"
    /\ UNCHANGED <<night, hour, age>>

(* An exchange cannot be asked, or the run is killed. *)
RunFails ==
    /\ Fails /\ UNCHANGED due
    /\ Kill("recon") \/ \E o \in Order : ReconMiss(o)

(* The manager is down at that time of the morning. *)
RunMissed == due /\ outage # "yes" /\ Fails /\ due' = FALSE /\ UNCHANGED vars

MorningComes ==
    /\ hour = "session" /\ hour' = "morning"
    /\ due' = (night \in RunNights)
    /\ UNCHANGED <<vars, night, age, outage>>

(* What a program has in hand is done with within the day. *)
NightFalls ==
    /\ hour = "morning" /\ ~due
    /\ \A p \in Proc : pc[p] = "idle" /\ Free(p)
    /\ hour' = "session" /\ night' = (night + 1) % 7
    /\ age' = [i \in DOMAIN age |-> IF age[i] < Old THEN age[i] + 1 ELSE Old]
    /\ UNCHANGED <<vars, due, outage>>

WeekNext ==
    \/ Session \/ BatchCheck \/ ScheduledRun \/ Elsewhen
    \/ \E p \in Proc : Stamp(p)
    \/ RunFails \/ RunMissed \/ MorningComes \/ NightFalls

(* A started run and a program with an answer go on, and the days go by.   *)
RunStep == ReconStep /\ (ScheduledRun \/ Elsewhen \/ Stamp("recon"))

ProgramStep ==
    \/ \E p \in Proc : Stamp(p)
    \/ /\ Elsewhen
       /\ \/ \E p \in Proc : SelectRow(p) \/ NoRecord(p) \/ RecordPending(p)
          \/ BatchLoad \/ BatchEnd \/ \E o \in Order : BatchOrder(o)

WeekSpec ==
    /\ WeekInit /\ [][WeekNext]_weekvars
    /\ WF_weekvars(ScheduledRun) /\ WF_weekvars(RunStep) /\ WF_weekvars(ProgramStep)
    /\ WF_weekvars(MorningComes) /\ WF_weekvars(NightFalls)

-----------------------------------------------------------------------------
(* Properties *)

Settled(o) == exe[o] = Lot \/ (st[o] = "cancelled" /\ exe[o] = 0)
InHand(o)  == \E p \in Proc : cur[p] = o \/ up[p].new.id = o

(* In a session, the row of an order KIS is done with is still open, was   *)
(* written that night, and no program has an answer of the order in hand.  *)
OpenTonight(o) ==
    /\ hour = "session"
    /\ o \in OpenIds /\ \A i \in RowsOf(o) : age[i] = 0
    /\ Settled(o) /\ ~InHand(o)

(* What the schedule does do: if a run follows the night, and another one  *)
(* the night after, such a row does not stay open, even if one of the two  *)
(* is missed, killed or cannot ask an exchange.  Friday's session has no   *)
(* such runs: a row that is open when it ends is never read again.         *)
TwoRunsSettle ==
    \A o \in Order :
        (OpenTonight(o) /\ {night, night + 1} \subseteq RunNights) ~> o \notin OpenIds
=============================================================================
