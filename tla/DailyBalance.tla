----------------------------- MODULE DailyBalance -----------------------------
(***************************************************************************)
(* The balance of the account at the open and at the close of every        *)
(* session, and the daily summary that compares them                       *)
(* (integrated_manager.py, daily_balance_values.py).  The integrated       *)
(* manager runs the scheduled jobs; an operator runs the same functions,   *)
(* the rebuild, the repair and the migration from the command line, at any *)
(* time and beside the manager.  Both work on the same files: a process    *)
(* looks whether a file is there, writes a temporary file, whose name is   *)
(* the same for all of them, and moves it into its place; the other one    *)
(* may come in between any two of these, and both may be killed there.     *)
(*                                                                         *)
(* The clock counts the parts of a trade date.  An amount is represented   *)
(* by the moment at which it was read from KIS, 0 if nothing was read.     *)
(***************************************************************************)
EXTENDS Integers, TLC

CONSTANTS
    Begin,      \* when the model starts
    End,        \* bound on the clock
    Olds,       \* the files earlier versions may have left
    MaxOps      \* bound on the operator's commands

Moment == 1 .. End
DateOf(m) == (m - 1) \div 4 + 1
PartOf(m) == (m - 1) % 4
Date      == 1 .. DateOf(End)

\* The parts of a trade date, in KST: it begins with midnight in New York.
Before  == 0    \* until the job of 22:45
Trading == 1    \* until the job of 06:00
Closed  == 2    \* until 06:30
Later   == 3    \* until the next trading day; a holiday only lengthens it

Kind == {"open", "close"}
Nil  == [date |-> 0]

\* status: what is known of the currency; sha: the version of the source
\* file whose hash was kept; fx: there is an exchange rate.
Snapshot == [date : Date, at : 0 .. End, src : {"snapshot", "file"},
             status : {"explicit", "reconstructed", "ambiguous", "unmarked"},
             sha : 0 .. End, fx : BOOLEAN]

ASSUME BalanceAssumption ==
    /\ Begin \in Nat /\ End \in Nat /\ MaxOps \in Nat /\ 1 <= Begin /\ Begin <= End
    /\ Olds \subseteq [kind : Kind, name : Date, snap : Snapshot]
    \* Earlier versions read the live balance as well, and marked nothing.
    /\ \A o \in Olds :
          /\ o.snap.status = "unmarked"
          /\ \A m \in {o.snap.at, o.snap.sha} \ {0} : DateOf(m) = o.snap.date

Place == {"canonical", "legacy"}
Proc  == {"manager", "operator"}

VARIABLES
    now,
    latest,     \* account_snapshot_*: what the trader saved last
    accFile,    \* balance_{date}.json of account.py: when it was written
    files,      \* daily_balances: by place, kind and the date in the name
    tmp,        \* the temporary file beside each of them
    meta,       \* daily_summary_meta_{date}.json
    job,        \* what each process is doing
    out,        \* the file it has looked at and is about to replace
    overtaken,  \* history: files the other process replaced since it looked
    ops         \* commands of the operator

sources == <<latest, accFile>>
disk == <<files, tmp>>
work == <<job, out, overtaken>>
vars == <<now, sources, disk, meta, work, ops>>

Live == DateOf(now)
Idle == [do |-> "idle"]
File == Place \X Kind \X Date
NoOut == [step |-> "none"]
NoTmp == [by |-> "nobody"]

\* What a process may be doing: a capture, with the summary that waits for
\* it, or a migration; a repair; a summary with the two sides it compares.
CaptureJob == [do : {"canonical", "legacy", "reload", "migrate"}, kind : Kind, date : Date,
               snap : Snapshot, rebuild : BOOLEAN,
               goal : [sum : BOOLEAN, open : Snapshot \cup {Nil}]]
RepairJob  == [do : {"repair"}, snap : Snapshot \cup {Nil}, first : File,
               todo : SUBSET File, mark : BOOLEAN]
SummaryJob == [do : {"summary"}, date : Date, open : Snapshot, close : Snapshot]
Output     == [step : {"write", "move"}, file : File, snap : Snapshot]

----------------------------------------------------------------------------
(* Looking up and judging a snapshot.                                      *)

SlipCandidates(k, d) == {n \in {d} : files[<<"legacy", k, n>>] # Nil}

\* Legacy files are chosen by the date inside, a file of that name first.
Candidates(k, d) == {n \in Date : files[<<"legacy", k, n>>].date = d}

Best(k, d) ==
    IF d \in Candidates(k, d) THEN d ELSE CHOOSE n \in Candidates(k, d) : TRUE

FindSnapshot(k, d) ==
    IF files[<<"canonical", k, d>>].date = d THEN <<"canonical", k, d>>
    ELSE <<"legacy", k, Best(k, d)>>

Present(k, d) == files[<<"canonical", k, d>>].date = d \/ Candidates(k, d) # {}

Find(k, d) == IF Present(k, d) THEN files[FindSnapshot(k, d)] ELSE Nil

Usable(s) == s.status \in {"explicit", "reconstructed"}

\* The file whose hash the snapshot carries has not been written since.
SourceUnchanged(s) == s.sha # 0 /\ accFile[s.date] = s.sha

\* Only what account.py wrote has the value of every holding.
GatesOK(s) == s.src = "file" /\ s.at # 0 /\ s.status = "unmarked" /\ SourceUnchanged(s)

----------------------------------------------------------------------------
(* The sources of a balance.                                               *)

\* The trader, started by the pipeline or the risk loop, loads the account
\* and saves what it got, also a failed load, in two files of the same
\* contents: one named after the date and the session, and the latest.
TraderSnapshot(valid) ==
    /\ PartOf(now) = Trading
    /\ latest' = [date |-> Live, at |-> IF valid THEN now ELSE 0]
    /\ UNCHANGED <<now, accFile, disk, meta, work, ops>>

SlipFromTrader(d) == latest.at

\* The file of the session, else the latest if it is of the date.
FromTrader(d) == IF latest.date = d THEN latest.at ELSE 0

\* save_immutable_source_copy: the hash of what was read, if anything was.
SourceSha(version) == version

\* Without any cash in dollars the values do not count as valid.
Normalized(at, cash) == IF at # 0 /\ cash THEN "explicit" ELSE "ambiguous"

\* The trader's snapshot has no exchange rate.
Rate(at) == FALSE

FromSnapshot(d, at, cash) ==
    [date |-> d, at |-> at, src |-> "snapshot", status |-> Normalized(at, cash),
     sha |-> SourceSha(at), fx |-> Rate(at)]

\* account.py, run for the capture, replaces the file of the date or fails;
\* without a file the balance is empty, and saved all the same.
FromFile(d, version, cash) ==
    [date |-> d, at |-> version, src |-> "file", status |-> Normalized(version, cash),
     sha |-> SourceSha(version), fx |-> version # 0]

----------------------------------------------------------------------------
(* capture_balance_snapshot.  goal says whether a summary waits for it.    *)

NoGoal == [sum |-> FALSE, open |-> Nil]

\* What is there is kept unless it is rebuilt, and only the live date is read.
MayCapture(k, d, rebuild) == (rebuild \/ ~Present(k, d)) /\ d = Live

Capturing(p, k, d, rebuild, goal, snap) ==
    job' = [job EXCEPT ![p] = [do |-> "canonical", kind |-> k, date |-> d, snap |-> snap,
                               rebuild |-> rebuild, goal |-> goal]]

ReadSource(p, k, d, rebuild, goal) ==
    \E cash, answered \in BOOLEAN :
        IF FromTrader(d) # 0 THEN
            /\ Capturing(p, k, d, rebuild, goal, FromSnapshot(d, FromTrader(d), cash))
            /\ UNCHANGED accFile
        ELSE
            /\ accFile' = IF answered THEN [accFile EXCEPT ![Live] = now] ELSE accFile
            /\ Capturing(p, k, d, rebuild, goal, FromFile(d, accFile'[d], cash))

Capture(p, k, d, rebuild) ==
    /\ job[p] = Idle
    /\ MayCapture(k, d, rebuild)
    /\ ReadSource(p, k, d, rebuild, NoGoal)
    /\ UNCHANGED <<now, latest, disk, meta, out, overtaken>>

----------------------------------------------------------------------------
(* The writes of a process, each one of a file it has looked at before.    *)

SlipKept(place, j) == FALSE

\* A file of the name is left alone, whatever it holds, unless it is rebuilt.
Kept(place, j) == files[<<place, j.kind, j.date>>] # Nil /\ ~j.rebuild

ToWrite(p, f, snap) ==
    out' = [out EXCEPT ![p] = [step |-> "write", file |-> f, snap |-> snap]]

Look(p, place, next) ==
    LET j == job[p]
    IN  /\ out[p].step = "none"
        /\ IF Kept(place, j)
           THEN job' = [job EXCEPT ![p] = next] /\ UNCHANGED out
           ELSE ToWrite(p, <<place, j.kind, j.date>>, j.snap) /\ UNCHANGED job
        /\ UNCHANGED <<now, sources, disk, meta, overtaken, ops>>

AfterCanonical(j) == [j EXCEPT !.do = "legacy"]
AfterLegacy(j)    == IF j.goal.sum THEN [j EXCEPT !.do = "reload"] ELSE Idle
AfterRepair(j, f) == IF j.todo = {f} THEN Idle ELSE [j EXCEPT !.todo = @ \ {f}]

LookCanonical(p) == job[p].do = "canonical" /\ Look(p, "canonical", AfterCanonical(job[p]))
LookLegacy(p)    == job[p].do = "legacy" /\ Look(p, "legacy", AfterLegacy(job[p]))
LookMigrated(p)  == job[p].do = "migrate" /\ Look(p, "canonical", Idle)

\* The text of one file is written at once.
WriteTmp(p) ==
    /\ out[p].step = "write"
    /\ tmp' = [tmp EXCEPT ![out[p].file] = [by |-> p, snap |-> out[p].snap]]
    /\ out' = [out EXCEPT ![p].step = "move"]
    /\ UNCHANGED <<now, sources, files, meta, job, overtaken, ops>>

After(j, f) ==
    CASE j.do = "canonical" -> AfterCanonical(j)
      [] j.do = "legacy"    -> AfterLegacy(j)
      [] j.do = "repair"    -> AfterRepair(j, f)
      [] OTHER              -> Idle

\* What a process knows of files it has yet to replace.
LookedAt(p) ==
    (IF out[p].step = "none" THEN {} ELSE {out[p].file})
        \cup (IF job[p].do = "repair" /\ ~job[p].mark THEN job[p].todo ELSE {})

Forgotten(p) == {o \in overtaken : o[1] # p}

\* tmp.replace: whatever the temporary file holds by now.
Move(p) ==
    LET f == out[p].file
    IN  /\ out[p].step = "move" /\ tmp[f].by # "nobody"
        /\ files' = [files EXCEPT ![f] = tmp[f].snap]
        /\ tmp' = [tmp EXCEPT ![f] = NoTmp]
        /\ job' = [job EXCEPT ![p] = After(job[p], f)]
        /\ out' = [out EXCEPT ![p] = NoOut]
        /\ overtaken' = (overtaken \ {<<p, f>>})
                           \cup ({q \in Proc \ {p} : f \in LookedAt(q)} \X {f})
        /\ UNCHANGED <<now, sources, meta, ops>>

\* The other process has moved it away: the capture or command fails.
MoveFails(p) ==
    /\ out[p].step = "move" /\ tmp[out[p].file].by = "nobody"
    /\ job' = [job EXCEPT ![p] = Idle]
    /\ out' = [out EXCEPT ![p] = NoOut]
    /\ overtaken' = Forgotten(p)
    /\ UNCHANGED <<now, sources, disk, meta, ops>>

----------------------------------------------------------------------------
(* repair_daily_balance_currency and migrate_daily_balance_layout.         *)

Repaired(s) == [s EXCEPT !.status = "reconstructed"]
Doubtful(s) == [s EXCEPT !.status = "ambiguous"]

\* All the files of the date, the one that was found first.
Copies(k, d) ==
    {f \in File : f[2] = k /\ files[f].date = d /\ (f[1] = "legacy" \/ f[3] = d)}

\* With the evidence every copy becomes the repaired one, without it those
\* named after the date are marked and keep their amounts.
Repair(p, k, d) ==
    LET s == Find(k, d)
    IN  /\ job[p] = Idle
        /\ s # Nil /\ ~Usable(s)
        /\ GatesOK(s) \/ s.status # "ambiguous"
        /\ job' = [job EXCEPT ![p] =
                     IF GatesOK(s) THEN [do |-> "repair", snap |-> Repaired(s), first |-> FindSnapshot(k, d),
                                         todo |-> Copies(k, d), mark |-> FALSE]
                     ELSE [do |-> "repair", snap |-> Nil, first |-> FindSnapshot(k, d), mark |-> TRUE,
                           todo |-> {f \in Copies(k, d) : f[3] = d \/ f = FindSnapshot(k, d)}]]
        /\ UNCHANGED <<now, sources, disk, meta, out, overtaken>>

\* To mark a copy, it is read once more; the amounts were read before.
RepairCopy(p) ==
    LET j == job[p]
    IN  /\ j.do = "repair" /\ out[p].step = "none"
        /\ \E f \in j.todo :
             /\ j.first \in j.todo => f = j.first
             /\ ToWrite(p, f, IF j.mark THEN Doubtful(files[f]) ELSE j.snap)
        /\ UNCHANGED <<now, sources, disk, meta, job, overtaken, ops>>

\* The best legacy file is to become the canonical one, if there is none
\* when its turn comes.
Migrate(p, k, d) ==
    /\ job[p] = Idle
    /\ Candidates(k, d) # {}
    /\ job' = [job EXCEPT ![p] = [do |-> "migrate", kind |-> k, date |-> d, rebuild |-> FALSE,
                                  snap |-> files[<<"legacy", k, Best(k, d)>>], goal |-> NoGoal]]
    /\ UNCHANGED <<now, sources, disk, meta, out, overtaken>>

----------------------------------------------------------------------------
(* send_daily_trading_summary: the status it writes before it is sent.     *)

\* The amounts in dollars: normalised, or recomputed under the same
\* conditions as a repair.
Amounts(s) == Usable(s) \/ GatesOK(s)

\* compare_balances succeeds with the amounts of both sides.
Compared(open, close) == Amounts(open) /\ Amounts(close)

\* The change in won needs the exchange rate of both sides.
FxAnalysed(open, close) == open.fx /\ close.fx

Complete(open, close) == Compared(open, close) /\ FxAnalysed(open, close)

\* Amounts recomputed for the occasion do not qualify.
PairSupports(open, close) == Usable(open) /\ Usable(close)

\* Without the dollars of both sides nothing is compared.
Omitted(open, close) == ~Amounts(open) \/ ~Amounts(close)

\* The last look: nothing is COMPLETE without a comparison.
Enforced(status, open, close) ==
    IF status = "COMPLETE" /\ ~Compared(open, close) THEN "PARTIAL" ELSE status

Status(open, close) ==
    IF ~Omitted(open, close) /\ PairSupports(open, close) /\ Complete(open, close)
    THEN Enforced("COMPLETE", open, close) ELSE "PARTIAL"

\* A missing close is captured first, if the date is live; a missing open
\* is not, and ends the summary without a result.
Summary(p, d) ==
    /\ job[p] = Idle
    /\ IF Present("close", d)
       THEN /\ Present("open", d)
            /\ job' = [job EXCEPT ![p] = [do |-> "summary", date |-> d, open |-> Find("open", d),
                                          close |-> Find("close", d)]]
            /\ UNCHANGED accFile
       ELSE /\ MayCapture("close", d, FALSE)
            /\ ReadSource(p, "close", d, FALSE, [sum |-> TRUE, open |-> Find("open", d)])
    /\ UNCHANGED <<now, latest, disk, meta, out, overtaken>>

\* The close is read back from its file, the open was read before.
Reload(p) ==
    LET j == job[p]
    IN  /\ j.do = "reload"
        /\ job' = [job EXCEPT ![p] =
                     IF j.goal.open = Nil THEN Idle
                     ELSE [do |-> "summary", date |-> j.date, open |-> j.goal.open,
                           close |-> files[<<"canonical", "close", j.date>>]]]
        /\ UNCHANGED <<now, sources, disk, meta, out, overtaken, ops>>

WriteMeta(p) ==
    /\ job[p].do = "summary"
    /\ meta' = [meta EXCEPT ![job[p].date] = Status(job[p].open, job[p].close)]
    /\ job' = [job EXCEPT ![p] = Idle]
    /\ UNCHANGED <<now, sources, disk, out, overtaken, ops>>

----------------------------------------------------------------------------

Init ==
    /\ now = Begin
    /\ latest \in {[date |-> DateOf(m), at |-> m] : m \in {n \in Moment : n < Begin /\ PartOf(n) = Trading}}
    /\ \E old \in SUBSET Olds :
         /\ \A o1, o2 \in old : o1.kind = o2.kind => o1 = o2
         /\ files = [f \in File |->
                      IF \E o \in old : f = <<"legacy", o.kind, o.name>>
                      THEN (CHOOSE o \in old : f = <<"legacy", o.kind, o.name>>).snap ELSE Nil]
         /\ accFile = [d \in Date |-> IF \E o \in old : o.snap.date = d /\ o.snap.sha # 0
                                     THEN (CHOOSE o \in old : o.snap.date = d /\ o.snap.sha # 0).snap.sha ELSE 0]
    /\ meta = [d \in Date |-> "none"]
    /\ tmp = [f \in File |-> NoTmp]
    /\ job = [p \in Proc |-> Idle] /\ out = [p \in Proc |-> NoOut] /\ overtaken = {}
    /\ ops = 0

\* The jobs of the week: the open at 22:45, the close at 06:00, then the
\* summary; they also run on holidays, late in the trading day before.
Scheduled ==
    /\ \/ PartOf(now) \in {Trading, Later} /\ Capture("manager", "open", Live, FALSE)
       \/ PartOf(now) \in {Closed, Later} /\ Capture("manager", "close", Live, FALSE)
       \/ PartOf(now) \in {Closed, Later} /\ Summary("manager", Live)
    /\ UNCHANGED ops

Command ==
    /\ ops < MaxOps /\ ops' = ops + 1
    /\ \E d \in 1 .. Live :
         \/ \E k \in Kind, rebuild \in BOOLEAN : Capture("operator", k, d, rebuild)
         \/ \E k \in Kind : Repair("operator", k, d) \/ Migrate("operator", k, d)
         \/ Summary("operator", d)

Steps(p) ==
    \/ LookCanonical(p) \/ LookLegacy(p) \/ LookMigrated(p) \/ RepairCopy(p)
    \/ WriteTmp(p) \/ Move(p) \/ MoveFails(p)
    \/ Reload(p) \/ WriteMeta(p)

\* A temporary file that a killed process leaves behind is written anew
\* before it is moved, unless the other process has written it already.
Moving(f) == {p \in Proc : out[p].step = "move" /\ out[p].file = f}
LeftBehind(p) == [f \in File |-> IF Moving(f) \subseteq {p} THEN NoTmp ELSE tmp[f]]

\* The container is restarted, the command interrupted.
Crash(p) ==
    /\ job[p] # Idle
    /\ job' = [job EXCEPT ![p] = Idle]
    /\ out' = [out EXCEPT ![p] = NoOut]
    /\ tmp' = LeftBehind(p)
    /\ overtaken' = Forgotten(p)
    /\ UNCHANGED <<now, sources, files, meta, ops>>

TimePasses ==
    /\ now < End
    /\ now' = now + 1
    /\ UNCHANGED <<sources, disk, meta, work, ops>>

Next ==
    \/ Scheduled \/ Command
    \/ \E p \in Proc : Steps(p) \/ Crash(p)
    \/ \E valid \in BOOLEAN : TraderSnapshot(valid)
    \/ TimePasses

Spec == Init /\ [][Next]_vars

----------------------------------------------------------------------------
(* Properties.                                                             *)

\* The state is well formed; a canonical file holds the date of its name.
TypeOK ==
    /\ now \in Moment /\ ops \in 0 .. MaxOps
    /\ accFile \in [Date -> 0 .. End]
    /\ files \in [File -> Snapshot \cup {Nil}]
    /\ \A k \in Kind, d \in Date : files[<<"canonical", k, d>>].date \in {0, d}
    /\ meta \in [Date -> {"none", "COMPLETE", "PARTIAL"}]
    /\ latest \in [date : Date, at : 0 .. End]
    /\ job \in [Proc -> {Idle} \cup CaptureJob \cup RepairJob \cup SummaryJob]
    /\ out \in [Proc -> {NoOut} \cup Output] /\ overtaken \subseteq Proc \X File
    /\ tmp \in [File -> {NoTmp} \cup [by : Proc, snap : Snapshot]]

\* Every balance kept for a date, and both sides of every summary, were
\* read while that date was the live one (historical_recapture_forbidden,
\* the stale latest snapshot, the pairing by the date inside the file); and
\* a summary is COMPLETE only if neither side comes from the trader, whose
\* snapshots carry no exchange rate.
OneDate ==
    /\ \A f \in File : files[f] # Nil /\ files[f].at # 0 => DateOf(files[f].at) = files[f].date
    /\ \A p \in Proc : job[p].do = "summary" =>
         LET sides == {job[p].open, job[p].close} IN
         /\ \A s \in sides : s.date = job[p].date /\ (s.at # 0 => DateOf(s.at) = s.date)
         /\ Status(job[p].open, job[p].close) = "COMPLETE" =>
              \A s \in sides : s.src = "file" /\ s.at # 0

\* Whichever way captures, repairs, the migration and crashes interleave,
\* the amounts of a canonical balance change by a rebuild, or because two
\* processes were at the same file: the one that moves has been overtaken
\* since it looked, or the other one has written over its temporary file.
\* And a date that has a balance keeps one, unless the rebuild of another
\* date takes the name of the legacy file it was under (the alias of the
\* date before).
Rebuilds(place) == {p \in Proc : job[p].do = place /\ job[p].rebuild}
Moves(p, f)     == out[p].step = "move" /\ out[p].file = f /\ out'[p] = NoOut
Crossed(p, f)   == <<p, f>> \in overtaken \/ tmp[f].by # p
AmountsStay(f)  == \/ files'[f].at = files[f].at
                   \/ \E p \in Proc : Moves(p, f) /\ (p \in Rebuilds("canonical") \/ Crossed(p, f))
StaysPresent(k, d) == Present(k, d)' \/ \E p \in Rebuilds("legacy") : job[p].date # d

BalancesKept ==
    [][\A k \in Kind, d \in Date :
         LET f == <<"canonical", k, d>>
         IN  /\ files[f] # Nil /\ files'[f] # files[f] => AmountsStay(f)
             /\ Present(k, d) => StaysPresent(k, d)]_files

=============================================================================
