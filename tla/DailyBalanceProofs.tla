--------------------------- MODULE DailyBalanceProofs --------------------------
(* Proofs about DailyBalance for any length of the clock, any number of    *)
(* commands and any files of earlier versions.                             *)
EXTENDS DailyBalance, TLAPS

(* An amount is of the live date, and one that could make a summary        *)
(* complete comes from the file of account.py.                             *)
Good(s) ==
    /\ s.at # 0 => DateOf(s.at) = s.date
    /\ Usable(s) /\ s.fx => s.src = "file" /\ s.at # 0

LiveRead ==
    /\ \A d \in Date : accFile[d] # 0 => DateOf(accFile[d]) = d
    /\ latest.at # 0 => DateOf(latest.at) = latest.date
    /\ \A f \in File : files[f] # Nil => Good(files[f])

(* A file that holds the date of its name, or nothing yet, will hold that  *)
(* date; one under another name is the operator's business.                *)
Fits(f, s)   == files[f].date \in {0, f[3]} => s.date = f[3]
TmpOK(f) ==
    tmp[f].by # "nobody" =>
        /\ Good(tmp[f].snap) /\ Fits(f, tmp[f].snap)
        /\ tmp[f].by = "manager" => files[f].date \in {0, f[3]}

(* A capture holds a good balance of its date, and past its first write    *)
(* there is a canonical file.                                              *)
CaptureOK(p) ==
    LET j == job[p] IN
    j.do \in {"canonical", "legacy", "reload", "migrate"} =>
        /\ Good(j.snap) /\ j.snap.date = j.date
        /\ j.goal.sum \/ j.do = "reload" => j.kind = "close"
        /\ j.goal.open # Nil => Good(j.goal.open) /\ j.goal.open.date = j.date
        /\ j.do \in {"legacy", "reload"} => files[<<"canonical", j.kind, j.date>>] # Nil
        /\ p = "manager" \/ j.do = "migrate" => ~j.rebuild

(* A repair knows the date of the files it will write, and the amounts of  *)
(* the canonical one unless it has been overtaken.                         *)
RepairOf(j, k, d) ==
    /\ ~j.mark => j.snap # Nil /\ Good(j.snap) /\ j.snap.date = d
    /\ \A f \in j.todo :
          /\ f[2] = k /\ files[f].date = d /\ (f[1] = "legacy" \/ f[3] = d)
          /\ f[1] = "canonical" /\ ~j.mark /\ <<"operator", f>> \notin overtaken =>
               files[f].at = j.snap.at

RepairOK(p) ==
    job[p].do = "repair" =>
        p = "operator" /\ \E k \in Kind, d \in Date : RepairOf(job[p], k, d)

SummaryOK(p) ==
    LET j == job[p] IN
    j.do = "summary" =>
        /\ Good(j.open) /\ j.open.date = j.date
        /\ Good(j.close) /\ j.close.date = j.date

(* Who is about to write has looked at the file: it was not there, or it   *)
(* is rebuilt or repaired; and it still is so unless it was overtaken.     *)
ForCapture(p, f, s) ==
    LET j == job[p] IN
    /\ f = <<IF j.do = "legacy" THEN "legacy" ELSE "canonical", j.kind, j.date>>
    /\ s.date = f[3]
    /\ ~j.rebuild => /\ files[f].date \in {0, f[3]}
                     /\ f[1] = "canonical" /\ <<p, f>> \notin overtaken => files[f] = Nil

ForRepair(p, f, s) ==
    /\ f \in job[p].todo /\ s.date = files[f].date
    /\ f[1] = "canonical" /\ <<p, f>> \notin overtaken => s.at = files[f].at

OutOK(p) ==
    out[p].step # "none" =>
        /\ Good(out[p].snap) /\ Fits(out[p].file, out[p].snap)
        /\ \/ job[p].do \in {"canonical", "legacy", "migrate"} /\ ForCapture(p, out[p].file, out[p].snap)
           \/ job[p].do = "repair" /\ ForRepair(p, out[p].file, out[p].snap)
        /\ out[p].step = "move" /\ tmp[out[p].file].by = p => tmp[out[p].file].snap = out[p].snap

ProcOK(p) == CaptureOK(p) /\ RepairOK(p) /\ SummaryOK(p) /\ OutOK(p)
JobsOK == \A p \in Proc : ProcOK(p)

IInv == TypeOK /\ LiveRead /\ (\A f \in File : TmpOK(f)) /\ JobsOK

AnyJob == {Idle} \cup CaptureJob \cup RepairJob \cup SummaryJob
AnyOut == {NoOut} \cup Output
AnyTmp == {NoTmp} \cup [by : Proc, snap : Snapshot]

-----------------------------------------------------------------------------
(* The trade dates of the clock.                                           *)
LEMMA DateOfMoment ==
  ASSUME NEW m \in Moment PROVE DateOf(m) \in Date
<1>1. m - 1 \in Nat /\ m - 1 <= End - 1 /\ End \in Nat
  BY BalanceAssumption DEF Moment
<1>2. /\ (m - 1) \div 4 >= 0 /\ (m - 1) \div 4 <= (End - 1) \div 4
      /\ (m - 1) \div 4 \in Int /\ (End - 1) \div 4 \in Int
  BY <1>1
<1>3. DateOf(m) \in Int /\ DateOf(End) \in Int /\ 1 <= DateOf(m) /\ DateOf(m) <= DateOf(End)
  BY <1>2 DEF DateOf
<1> HIDE DEF DateOf
<1> QED BY <1>3 DEF Date

LEMMA SnapshotFacts ==
  ASSUME NEW s \in Snapshot \cup {Nil}
  PROVE  /\ s # Nil => s \in Snapshot
         /\ s = Nil <=> s.date = 0
         /\ s.date # 0 => s.date \in Date /\ s.at \in 0 .. End
<1>1. \A d \in Date : d # 0
  BY DEF Date
<1>2. CASE s = Nil
  BY <1>2 DEF Nil
<1>3. CASE s \in Snapshot
  <2>1. s.date \in Date /\ s.at \in 0 .. End
    BY <1>3 DEF Snapshot
  <2>2. s # Nil
    BY <1>1, <2>1 DEF Nil
  <2> QED BY <1>1, <1>3, <2>1, <2>2
<1> QED BY <1>2, <1>3

LEMMA FileFacts ==
  ASSUME TypeOK, NEW k \in Kind, NEW d \in Date
  PROVE  /\ <<"canonical", k, d>> \in File /\ <<"legacy", k, d>> \in File
         /\ files[<<"canonical", k, d>>] \in Snapshot \cup {Nil}
         /\ files[<<"legacy", k, d>>] \in Snapshot \cup {Nil}
<1>1. <<"canonical", k, d>> \in File /\ <<"legacy", k, d>> \in File
  BY DEF File, Place
<1> QED BY <1>1 DEF TypeOK

(* What is found for a date is of that date; the canonical file comes      *)
(* first.                                                                  *)
LEMMA Found ==
  ASSUME TypeOK, NEW k \in Kind, NEW d \in Date, Present(k, d)
  PROVE  /\ FindSnapshot(k, d) \in File /\ FindSnapshot(k, d)[2] = k
         /\ files[FindSnapshot(k, d)].date = d
         /\ Find(k, d) = files[FindSnapshot(k, d)] /\ Find(k, d) \in Snapshot
         /\ files[<<"canonical", k, d>>].date = d => FindSnapshot(k, d) = <<"canonical", k, d>>
<1>1. \A e \in Date : e # 0
  BY DEF Date
<1>2. CASE files[<<"canonical", k, d>>].date = d
  <2>1. FindSnapshot(k, d) = <<"canonical", k, d>> /\ Find(k, d) = files[<<"canonical", k, d>>]
    BY <1>2 DEF FindSnapshot, Find
  <2>2. Find(k, d) \in Snapshot
    BY <1>1, <1>2, <2>1, FileFacts, SnapshotFacts
  <2>3. <<"canonical", k, d>>[2] = k
    OBVIOUS
  <2> HIDE DEF FindSnapshot, Find
  <2>4. FindSnapshot(k, d) \in File /\ FindSnapshot(k, d)[2] = k
    BY <2>1, <2>3, FileFacts
  <2> QED BY <1>2, <2>1, <2>2, <2>4
<1>3. CASE files[<<"canonical", k, d>>].date # d
  <2>1. Candidates(k, d) # {}
    BY <1>3 DEF Present
  <2>2. Best(k, d) \in Candidates(k, d)
    BY <2>1 DEF Best
  <2>3. Best(k, d) \in Date /\ files[<<"legacy", k, Best(k, d)>>].date = d
    BY <2>2 DEF Candidates
  <2>4. FindSnapshot(k, d) = <<"legacy", k, Best(k, d)>>
    BY <1>3 DEF FindSnapshot
  <2>5. Find(k, d) = files[<<"legacy", k, Best(k, d)>>]
    BY <2>4 DEF Find
  <2>6. Find(k, d) \in Snapshot
    BY <1>1, <2>3, <2>5, FileFacts, SnapshotFacts
  <2> HIDE DEF Best
  <2>7. <<"legacy", k, Best(k, d)>>[2] = k
    OBVIOUS
  <2> HIDE DEF FindSnapshot, Find
  <2>8. FindSnapshot(k, d) \in File /\ FindSnapshot(k, d)[2] = k
    BY <2>3, <2>4, <2>7, FileFacts
  <2> QED BY <1>3, <2>3, <2>4, <2>5, <2>6, <2>8
<1> QED BY <1>2, <1>3

LEMMA FindGood ==
  ASSUME TypeOK, LiveRead, NEW k \in Kind, NEW d \in Date
  PROVE  /\ Find(k, d) \in Snapshot \cup {Nil}
         /\ Find(k, d) # Nil => Present(k, d) /\ Find(k, d).date = d /\ Good(Find(k, d))
<1>1. CASE Present(k, d)
  <2>1. /\ FindSnapshot(k, d) \in File /\ files[FindSnapshot(k, d)].date = d
        /\ Find(k, d) = files[FindSnapshot(k, d)] /\ Find(k, d) \in Snapshot
    BY <1>1, Found
  <2>2. Find(k, d) # Nil
    BY <2>1, SnapshotFacts DEF Date
  <2>3. \A f \in File : files[f] # Nil => Good(files[f])
    BY DEF LiveRead
  <2>4. Good(Find(k, d))
    BY <2>1, <2>2, <2>3
  <2> QED BY <1>1, <2>1, <2>4
<1>2. CASE ~Present(k, d)
  BY <1>2 DEF Find
<1> QED BY <1>1, <1>2

(* Whichever source a capture reads, it takes a good balance of the live   *)
(* date and leaves the file of account.py of its date.                     *)
LEMMA ReadIsLive ==
  ASSUME IInv, NEW p \in Proc, NEW k \in Kind, NEW d \in Date, d = Live,
         NEW w \in BOOLEAN, NEW goal, ReadSource(p, k, d, w, goal)
  PROVE  /\ \E snap \in Snapshot : Good(snap) /\ snap.date = d /\ Capturing(p, k, d, w, goal, snap)
         /\ accFile' \in [Date -> 0 .. End]
         /\ \A e \in Date : accFile'[e] # 0 => DateOf(accFile'[e]) = e
<1>1. /\ End \in Nat /\ now \in Moment /\ now \in 0 .. End /\ accFile \in [Date -> 0 .. End]
      /\ latest \in [date : Date, at : 0 .. End]
      /\ \A e \in Date : accFile[e] # 0 => DateOf(accFile[e]) = e
      /\ latest.at # 0 => DateOf(latest.at) = latest.date
  BY BalanceAssumption DEF IInv, TypeOK, LiveRead, Moment
<1>2. CASE FromTrader(d) # 0
  <2>1. PICK cash \in BOOLEAN :
          Capturing(p, k, d, w, goal, FromSnapshot(d, FromTrader(d), cash)) /\ accFile' = accFile
    BY <1>2 DEF ReadSource
  <2>2. FromTrader(d) = latest.at /\ latest.date = d /\ latest.at \in 0 .. End
    BY <1>1, <1>2 DEF FromTrader
  <2>3. FromSnapshot(d, latest.at, cash) \in Snapshot
    BY <2>2 DEF FromSnapshot, Normalized, SourceSha, Rate, Snapshot
  <2>4. /\ Good(FromSnapshot(d, latest.at, cash))
        /\ FromSnapshot(d, latest.at, cash).date = d
    BY <1>1, <2>2 DEF FromSnapshot, Rate, Good
  <2> QED BY <1>1, <2>1, <2>2, <2>3, <2>4
<1>3. CASE FromTrader(d) = 0
  <2>1. PICK cash \in BOOLEAN, answered \in BOOLEAN :
          /\ accFile' = IF answered THEN [accFile EXCEPT ![Live] = now] ELSE accFile
          /\ Capturing(p, k, d, w, goal, FromFile(d, accFile'[d], cash))
    BY <1>3 DEF ReadSource
  <2>2. /\ accFile' \in [Date -> 0 .. End]
        /\ \A e \in Date : accFile'[e] # 0 => DateOf(accFile'[e]) = e
    BY <1>1, <2>1 DEF Live
  <2>3. FromFile(d, accFile'[d], cash) \in Snapshot
    BY <2>2 DEF FromFile, Normalized, SourceSha, Snapshot
  <2>4. /\ Good(FromFile(d, accFile'[d], cash))
        /\ FromFile(d, accFile'[d], cash).date = d
    BY <2>2 DEF FromFile, Good
  <2> QED BY <2>1, <2>2, <2>3, <2>4
<1> QED BY <1>2, <1>3

-----------------------------------------------------------------------------
(* What a step does beside counting the commands; the manager never        *)
(* rebuilds, and only the operator repairs or migrates.                    *)
Step ==
    \/ \E p \in Proc, k \in Kind, d \in Date, w \in BOOLEAN :
          Capture(p, k, d, w) /\ (p = "manager" => ~w)
    \/ \E k \in Kind, d \in Date : Repair("operator", k, d) \/ Migrate("operator", k, d)
    \/ \E p \in Proc, d \in Date : Summary(p, d)
    \/ \E p \in Proc : Steps(p) \/ Crash(p)
    \/ \E valid \in BOOLEAN : TraderSnapshot(valid)
    \/ TimePasses
    \/ UNCHANGED <<now, sources, disk, meta, work>>

LEMMA StepIs ==
  ASSUME TypeOK, [Next]_vars
  PROVE  Step /\ ops' \in 0 .. MaxOps
<1>1. Live \in Date /\ Live \in Int /\ DateOf(End) \in Int /\ ops \in 0 .. MaxOps /\ MaxOps \in Nat
  <2>1. now \in Moment /\ End \in Moment
    BY BalanceAssumption DEF TypeOK, Moment
  <2>2. DateOf(now) \in Date /\ DateOf(End) \in Date
    BY <2>1, DateOfMoment
  <2>3. DateOf(End) \in Int
    BY BalanceAssumption DEF DateOf
  <2> HIDE DEF DateOf
  <2> QED BY <2>2, <2>3, BalanceAssumption DEF Live, Date, TypeOK
<1>2. CASE Scheduled
  BY <1>1, <1>2 DEF Scheduled, Step, Kind, Proc
<1>3. CASE Command
  <2>1. PICK d \in 1 .. Live :
         \/ \E k \in Kind, rebuild \in BOOLEAN : Capture("operator", k, d, rebuild)
         \/ \E k \in Kind : Repair("operator", k, d) \/ Migrate("operator", k, d)
         \/ Summary("operator", d)
    BY <1>3 DEF Command
  <2>2. d \in Date
    BY <1>1 DEF Date
  <2>3. ops' \in 0 .. MaxOps
    BY <1>1, <1>3 DEF Command
  <2>4. "operator" \in Proc /\ "operator" # "manager"
    BY DEF Proc
  <2> QED BY <2>1, <2>2, <2>3, <2>4 DEF Step
<1>4. ASSUME NEW p \in Proc, Steps(p) \/ Crash(p) PROVE Step /\ ops' = ops
  <2>1. Step
    BY <1>4 DEF Step
  <2>2. ops' = ops
    BY <1>4 DEF Steps, LookCanonical, LookLegacy, LookMigrated, Look, RepairCopy, WriteTmp, Move, MoveFails,
               Reload, WriteMeta, Crash
  <2> QED BY <2>1, <2>2
<1>5. ASSUME NEW valid \in BOOLEAN, TraderSnapshot(valid) PROVE Step /\ ops' = ops
  BY <1>5 DEF Step, TraderSnapshot
<1>6. CASE TimePasses
  BY <1>1, <1>6 DEF Step, TimePasses
<1>7. CASE UNCHANGED vars
  BY <1>1, <1>7 DEF Step, vars
<1> QED BY <1>1, <1>2, <1>3, <1>4, <1>5, <1>6, <1>7 DEF Next

(* A process that takes up a job has it, and the others keep theirs.       *)
LEMMA JobSet ==
  ASSUME NEW p \in Proc, NEW j \in AnyJob, job \in [Proc -> AnyJob], job' = [job EXCEPT ![p] = j]
  PROVE  job' \in [Proc -> AnyJob] /\ job'[p] = j /\ \A q \in Proc \ {p} : job'[q] = job[q]
  OBVIOUS

(* The jobs by what they do.                                               *)
LEMMA JobFacts ==
  ASSUME NEW j \in AnyJob
  PROVE  /\ j.do \in {"canonical", "legacy", "reload", "migrate"} => j \in CaptureJob
         /\ j.do = "repair" => j \in RepairJob
         /\ j.do = "summary" => j \in SummaryJob
  BY DEF AnyJob, Idle, CaptureJob, RepairJob, SummaryJob

(* A capture that begins.                                                  *)
LEMMA CaptureBegins ==
  ASSUME IInv, NEW p \in Proc, NEW k \in Kind, NEW d \in Date, d = Live, NEW w \in BOOLEAN,
         NEW goal \in [sum : BOOLEAN, open : Snapshot \cup {Nil}],
         p = "manager" => ~w,
         goal.sum => k = "close",
         goal.open # Nil => Good(goal.open) /\ goal.open.date = d,
         ReadSource(p, k, d, w, goal)
  PROVE  /\ accFile' \in [Date -> 0 .. End]
         /\ \A e \in Date : accFile'[e] # 0 => DateOf(accFile'[e]) = e
         /\ \E j \in CaptureJob :
              /\ job' = [job EXCEPT ![p] = j] /\ j.do = "canonical"
              /\ Good(j.snap) /\ j.snap.date = j.date
              /\ j.goal.sum => j.kind = "close"
              /\ j.goal.open # Nil => Good(j.goal.open) /\ j.goal.open.date = j.date
              /\ p = "manager" => ~j.rebuild
<1>1. PICK snap \in Snapshot : Good(snap) /\ snap.date = d /\ Capturing(p, k, d, w, goal, snap)
  BY ReadIsLive
<1> DEFINE j == [do |-> "canonical", kind |-> k, date |-> d, snap |-> snap, rebuild |-> w, goal |-> goal]
<1>2. j \in CaptureJob /\ job' = [job EXCEPT ![p] = j]
  BY <1>1 DEF CaptureJob, Capturing
<1> QED BY <1>1, <1>2, ReadIsLive

(* What is about to be written, and what temporary files hold.             *)
LEMMA OutFacts ==
  ASSUME NEW o \in AnyOut
  PROVE  /\ o.step \in {"none", "write", "move"}
         /\ o.step # "none" => o \in Output /\ o.file \in File /\ o.snap \in Snapshot
  BY DEF AnyOut, NoOut, Output

LEMMA TmpFacts ==
  ASSUME NEW t \in AnyTmp
  PROVE  /\ t.by \in Proc \cup {"nobody"}
         /\ t.by # "nobody" => t.by \in Proc /\ t.snap \in Snapshot
  BY DEF AnyTmp, NoTmp

LEMMA Types ==
  ASSUME IInv
  PROVE  /\ files \in [File -> Snapshot \cup {Nil}] /\ tmp \in [File -> AnyTmp]
         /\ \A k \in Kind, d \in Date : files[<<"canonical", k, d>>].date \in {0, d}
         /\ job \in [Proc -> AnyJob] /\ out \in [Proc -> AnyOut] /\ overtaken \subseteq Proc \X File
         /\ \A f \in File : files[f] # Nil => Good(files[f])
         /\ \A f \in File : TmpOK(f)
         /\ \A p \in Proc : ProcOK(p)
  BY DEF IInv, TypeOK, LiveRead, JobsOK, AnyJob, AnyOut, AnyTmp

LEMMA FileNames ==
  ASSUME NEW f \in File
  PROVE  f[1] \in Place /\ f[2] \in Kind /\ f[3] \in Date /\ f = <<f[1], f[2], f[3]>>
  BY DEF File

(* A canonical name is never that of another date.                         *)
LEMMA CanonicalDate ==
  ASSUME IInv, NEW f \in File, f[1] = "canonical" PROVE files[f].date \in {0, f[3]}
<1>1. f = <<"canonical", f[2], f[3]>> /\ f[2] \in Kind /\ f[3] \in Date
  BY FileNames
<1> QED BY <1>1, Types

-----------------------------------------------------------------------------
(* What the writes do to the files.                                        *)
DiskOK ==
    /\ files' \in [File -> Snapshot \cup {Nil}]
    /\ \A k \in Kind, d \in Date : files'[<<"canonical", k, d>>].date \in {0, d}
    /\ \A f \in File : files'[f] # Nil => Good(files'[f])
    /\ \A f \in File : files[f] # Nil => files'[f] # Nil
    /\ tmp' \in [File -> AnyTmp]
    /\ \A f \in File : TmpOK(f)'

LEMMA SameDisk ==
  ASSUME IInv, UNCHANGED disk PROVE DiskOK
  BY Types DEF DiskOK, disk, TmpOK, Fits

(* A process whose file has another name than its date is the operator.    *)
LEMMA OddNames ==
  ASSUME IInv, NEW p \in Proc, out[p].step # "none", files[out[p].file].date \notin {0, out[p].file[3]}
  PROVE  p = "operator" /\ (job[p].do = "repair" \/ job[p].rebuild)
<1>1. ProcOK(p)
  BY Types
<1>2. CASE job[p].do = "repair"
  BY <1>1, <1>2 DEF ProcOK, RepairOK
<1>3. CASE job[p].do \in {"canonical", "legacy", "migrate"}
  <2>1. job[p].rebuild
    BY <1>1, <1>3 DEF ProcOK, OutOK, ForCapture
  <2> QED BY <1>1, <1>3, <2>1 DEF ProcOK, CaptureOK, Proc
<1> QED BY <1>1, <1>2, <1>3 DEF ProcOK, OutOK

(* The temporary file that is written holds what was to be written.        *)
LEMMA TmpWritten ==
  ASSUME IInv, NEW p \in Proc, WriteTmp(p)
  PROVE  /\ DiskOK /\ files' = files
         /\ out[p].file \in File /\ tmp'[out[p].file] = [by |-> p, snap |-> out[p].snap]
         /\ \A g \in File \ {out[p].file} : tmp'[g] = tmp[g]
<1> DEFINE f == out[p].file
           t == [by |-> p, snap |-> out[p].snap]
<1>1. out[p] \in AnyOut /\ out[p].step # "none" /\ ProcOK(p)
  BY Types DEF WriteTmp
<1>2. f \in File /\ out[p].snap \in Snapshot
  BY <1>1, OutFacts
<1>3. t \in AnyTmp /\ t.by = p /\ t.snap = out[p].snap
  BY <1>2 DEF AnyTmp
<1>4. tmp' = [tmp EXCEPT ![f] = t] /\ files' = files
  BY DEF WriteTmp
<1>5. Good(t.snap) /\ Fits(f, t.snap)
  BY <1>1, <1>3 DEF ProcOK, OutOK
<1>6. p = "manager" => files[f].date \in {0, f[3]}
  BY <1>1, OddNames
<1> HIDE DEF t, f
<1>7. tmp' \in [File -> AnyTmp] /\ tmp'[f] = t /\ \A g \in File \ {f} : tmp'[g] = tmp[g]
  BY <1>2, <1>3, <1>4, Types
<1>8. \A g \in File : TmpOK(g)'
  <2> SUFFICES ASSUME NEW g \in File PROVE TmpOK(g)'
    OBVIOUS
  <2>1. CASE g = f
    BY <1>3, <1>4, <1>5, <1>6, <1>7, <2>1 DEF TmpOK, Fits
  <2>2. CASE g # f
    BY <1>4, <1>7, <2>2, Types DEF TmpOK, Fits
  <2> QED BY <2>1, <2>2
<1>9. DiskOK
  BY <1>4, <1>7, <1>8, Types DEF DiskOK
<1> QED BY <1>2, <1>4, <1>7, <1>9 DEF f, t

(* A move puts a good balance in the place of the file; of another date    *)
(* than the one that was there only for a rebuild, and of other amounts    *)
(* only for a rebuild or because the two processes crossed.                *)
LEMMA MoveEffect ==
  ASSUME IInv, NEW p \in Proc, Move(p)
  PROVE  LET f == out[p].file IN
         /\ DiskOK /\ f \in File /\ files'[f] # Nil
         /\ \A g \in File \ {f} : files'[g] = files[g] /\ tmp'[g] = tmp[g]
         /\ tmp'[f].by = "nobody"
         /\ files[f].date \in {0, f[3]} => files'[f].date = f[3]
         /\ files[f].date \notin {0, f[3]} => p = "operator"
         /\ \/ files[f].date = 0 \/ files'[f].date = files[f].date
            \/ f[1] = "legacy" /\ p \in Rebuilds("legacy") /\ job[p].date = f[3] /\ files'[f].date = f[3]
         /\ f[1] = "canonical" /\ files[f] # Nil =>
              files'[f].at = files[f].at \/ p \in Rebuilds("canonical") \/ Crossed(p, f)
<1> DEFINE f == out[p].file
           s == tmp[f].snap
<1>1. out[p] \in AnyOut /\ out[p].step = "move" /\ ProcOK(p) /\ job[p] \in AnyJob
  BY Types DEF Move
<1>2. f \in File
  BY <1>1, OutFacts
<1>3. tmp[f] \in AnyTmp /\ tmp[f].by # "nobody" /\ TmpOK(f)
  BY <1>2, Types DEF Move
<1>4. s \in Snapshot /\ Good(s) /\ Fits(f, s) /\ (tmp[f].by = "manager" => files[f].date \in {0, f[3]})
  BY <1>3, TmpFacts DEF TmpOK
<1>5. s # Nil
  BY <1>4, SnapshotFacts DEF Snapshot, Date, Nil
<1>6. files' = [files EXCEPT ![f] = s] /\ tmp' = [tmp EXCEPT ![f] = NoTmp]
  BY DEF Move
<1>7. NoTmp \in AnyTmp /\ NoTmp.by = "nobody"
  BY DEF AnyTmp, NoTmp
<1>8. tmp[f].by = p => s = out[p].snap
  BY <1>1 DEF ProcOK, OutOK
<1>9. files[f].date \notin {0, f[3]} =>
         p = "operator" /\ s = out[p].snap /\ (job[p].do = "repair" \/ job[p].rebuild)
  <2> SUFFICES ASSUME files[f].date \notin {0, f[3]}
               PROVE  p = "operator" /\ s = out[p].snap /\ (job[p].do = "repair" \/ job[p].rebuild)
    OBVIOUS
  <2>1. p = "operator" /\ (job[p].do = "repair" \/ job[p].rebuild)
    BY <1>1, OddNames
  <2>2. tmp[f].by = "operator"
    BY <1>3, <1>4, TmpFacts DEF Proc
  <2> QED BY <1>8, <2>1, <2>2
<1>10. \/ job[p].do \in {"canonical", "legacy", "migrate"} /\ ForCapture(p, f, out[p].snap)
       \/ job[p].do = "repair" /\ ForRepair(p, f, out[p].snap)
  BY <1>1 DEF ProcOK, OutOK
<1>16. f[1] \in {"canonical", "legacy"} /\ f[2] \in Kind /\ f[3] \in Date /\ f = <<f[1], f[2], f[3]>>
  BY <1>2, FileNames DEF Place
<1>17. f[1] = "canonical" => files[f].date \in {0, f[3]}
  BY <1>2, CanonicalDate
<1> HIDE DEF s, f
<1>11. /\ files'[f] = s /\ \A g \in File \ {f} : files'[g] = files[g] /\ tmp'[g] = tmp[g]
       /\ tmp'[f] = NoTmp /\ tmp' \in [File -> AnyTmp] /\ files' \in [File -> Snapshot \cup {Nil}]
  BY <1>2, <1>4, <1>6, <1>7, Types
<1>12. \A k \in Kind, d \in Date : files'[<<"canonical", k, d>>].date \in {0, d}
  <2> SUFFICES ASSUME NEW k \in Kind, NEW d \in Date PROVE files'[<<"canonical", k, d>>].date \in {0, d}
    OBVIOUS
  <2>1. <<"canonical", k, d>> \in File
    BY DEF File, Place
  <2>2. CASE <<"canonical", k, d>> = f
    <3>1. f[1] = "canonical" /\ f[3] = d
      BY <2>2
    <3> QED BY <1>4, <1>11, <1>17, <2>2, <3>1 DEF Fits
  <2> QED BY <1>11, <2>1, <2>2, Types
<1>13. \A g \in File : TmpOK(g)'
  <2> SUFFICES ASSUME NEW g \in File PROVE TmpOK(g)'
    OBVIOUS
  <2>1. CASE g = f
    BY <1>7, <1>11, <2>1 DEF TmpOK
  <2>2. CASE g # f
    BY <1>11, <2>2, Types DEF TmpOK, Fits
  <2> QED BY <2>1, <2>2
<1>14. DiskOK
  BY <1>4, <1>5, <1>11, <1>12, <1>13, Types DEF DiskOK
<1>15. files[f].date \in {0, f[3]} => s.date = f[3]
  BY <1>4 DEF Fits
<1>18. \/ files[f].date = 0 \/ s.date = files[f].date
       \/ f[1] = "legacy" /\ p \in Rebuilds("legacy") /\ job[p].date = f[3] /\ s.date = f[3]
  <2>1. CASE files[f].date \in {0, f[3]}
    BY <1>15, <2>1
  <2>2. CASE files[f].date \notin {0, f[3]}
    <3>1. s = out[p].snap /\ (job[p].do = "repair" \/ job[p].rebuild)
      BY <1>9, <2>2
    <3>2. CASE job[p].do = "repair"
      BY <1>10, <3>1, <3>2 DEF ForRepair
    <3>3. CASE job[p].do # "repair"
      <4>1. /\ job[p].do \in {"canonical", "legacy", "migrate"} /\ ForCapture(p, f, out[p].snap)
            /\ f[1] = "legacy" /\ job[p].rebuild
        BY <1>10, <1>16, <1>17, <2>2, <3>1, <3>3
      <4>2. f = <<IF job[p].do = "legacy" THEN "legacy" ELSE "canonical", job[p].kind, job[p].date>>
            /\ out[p].snap.date = f[3]
        BY <4>1 DEF ForCapture
      <4>3. f[1] = (IF job[p].do = "legacy" THEN "legacy" ELSE "canonical") /\ f[3] = job[p].date
        BY <4>2
      <4>4. job[p].do = "legacy"
        BY <4>1, <4>3
      <4> QED BY <3>1, <4>1, <4>2, <4>3, <4>4 DEF Rebuilds
    <3> QED BY <3>2, <3>3
  <2> QED BY <2>1, <2>2
<1>19. f[1] = "canonical" /\ files[f] # Nil =>
          s.at = files[f].at \/ p \in Rebuilds("canonical") \/ Crossed(p, f)
  <2> SUFFICES ASSUME f[1] = "canonical", files[f] # Nil, ~Crossed(p, f)
               PROVE  s.at = files[f].at \/ p \in Rebuilds("canonical")
    OBVIOUS
  <2>1. <<p, f>> \notin overtaken /\ s = out[p].snap
    BY <1>8 DEF Crossed, s
  <2>2. CASE job[p].do = "repair" /\ ForRepair(p, f, out[p].snap)
    BY <2>1, <2>2 DEF ForRepair
  <2>3. CASE job[p].do \in {"canonical", "legacy", "migrate"} /\ ForCapture(p, f, out[p].snap)
    <3>1. job[p].rebuild
      BY <2>1, <2>3 DEF ForCapture
    <3>2. f[1] = (IF job[p].do = "legacy" THEN "legacy" ELSE "canonical")
      BY <2>3 DEF ForCapture
    <3>3. job[p].do = "canonical"
      BY <1>1, <2>3, <3>1, <3>2 DEF ProcOK, CaptureOK
    <3> QED BY <3>1, <3>3 DEF Rebuilds
  <2> QED BY <1>10, <2>2, <2>3
<1> QED BY <1>2, <1>5, <1>7, <1>9, <1>11, <1>14, <1>15, <1>18, <1>19 DEF f

-----------------------------------------------------------------------------
(* Every step leaves the disk well formed and good.                        *)
LEMMA DiskStep ==
  ASSUME IInv, Step PROVE DiskOK
<1>1. ASSUME NEW p \in Proc, Crash(p) PROVE DiskOK
  <2>1. files' = files /\ tmp' = LeftBehind(p)
    BY <1>1 DEF Crash
  <2>2. NoTmp \in AnyTmp /\ NoTmp.by = "nobody"
    BY DEF AnyTmp, NoTmp
  <2>3. \A f \in File : tmp'[f] \in {NoTmp, tmp[f]}
    BY <2>1 DEF LeftBehind
  <2>4. tmp' \in [File -> AnyTmp]
    BY <2>1, <2>2, Types DEF LeftBehind
  <2>5. \A f \in File : TmpOK(f)'
    BY <2>1, <2>2, <2>3, Types DEF TmpOK, Fits
  <2> QED BY <2>1, <2>4, <2>5, Types DEF DiskOK
<1>2. ASSUME NEW p \in Proc, Steps(p) PROVE DiskOK
  <2>1. CASE WriteTmp(p)
    BY <2>1, TmpWritten
  <2>2. CASE Move(p)
    BY <2>2, MoveEffect
  <2>3. CASE ~WriteTmp(p) /\ ~Move(p)
    <3>1. UNCHANGED disk
      BY <1>2, <2>3 DEF Steps, LookCanonical, LookLegacy, LookMigrated, Look, RepairCopy, MoveFails, Reload, WriteMeta
    <3> QED BY <3>1, SameDisk
  <2> QED BY <2>1, <2>2, <2>3
<1>3. ASSUME \/ \E p \in Proc, k \in Kind, d \in Date, w \in BOOLEAN : Capture(p, k, d, w)
             \/ \E k \in Kind, d \in Date : Repair("operator", k, d) \/ Migrate("operator", k, d)
             \/ \E p \in Proc, d \in Date : Summary(p, d)
             \/ \E valid \in BOOLEAN : TraderSnapshot(valid)
             \/ TimePasses \/ UNCHANGED <<now, sources, disk, meta, work>>
      PROVE  UNCHANGED disk
  BY <1>3 DEF Capture, Repair, Migrate, Summary, TraderSnapshot, TimePasses
<1> QED BY <1>1, <1>2, <1>3, SameDisk DEF Step

(* What a process that goes on has found stays true whatever the other     *)
(* writes, for it knows what has been replaced since it looked.            *)
Unhurt(q) ==
    /\ job'[q] = job[q] /\ out'[q] = out[q]
    /\ \A g \in File : <<q, g>> \in overtaken => <<q, g>> \in overtaken'
    /\ \A g \in File : tmp'[g].by = q => tmp'[g] = tmp[g]
    /\ \A g \in File :
         \/ files'[g] = files[g]
         \/ /\ files[g].date \in {0, g[3]} /\ files'[g].date = g[3]
            /\ g \in LookedAt(q) => <<q, g>> \in overtaken'
         \/ q = "manager" /\ files[g].date \notin {0, g[3]}

LEMMA UnhurtRepair ==
  ASSUME IInv, NEW q \in Proc, Unhurt(q) PROVE RepairOK(q)'
<1> SUFFICES ASSUME job[q].do = "repair"
             PROVE  q = "operator" /\ \E k \in Kind, d \in Date : RepairOf(job[q], k, d)'
  BY DEF RepairOK, Unhurt
<1>1. PICK k \in Kind, d \in Date : q = "operator" /\ RepairOf(job[q], k, d)
  BY Types DEF ProcOK, RepairOK
<1>2. job[q] \in RepairJob
  BY Types, JobFacts
<1>3. job[q].todo \subseteq File
  BY <1>2 DEF RepairJob
<1>4. \A f \in job[q].todo : files'[f].date = d
  <2> SUFFICES ASSUME NEW f \in job[q].todo PROVE files'[f].date = d
    OBVIOUS
  <2>1. f \in File /\ files[f].date = d
    BY <1>1, <1>3 DEF RepairOf
  <2>3. d # 0
    BY DEF Date
  <2>2. \/ files'[f] = files[f]
        \/ files[f].date \in {0, f[3]} /\ files'[f].date = f[3]
    BY <1>1, <2>1 DEF Unhurt
  <2> QED BY <2>1, <2>2, <2>3
<1>5. ASSUME NEW f \in job[q].todo, f[1] = "canonical", ~job[q].mark, <<"operator", f>> \notin overtaken'
      PROVE  files'[f].at = job[q].snap.at
  <2>1. f \in LookedAt(q)
    BY <1>5 DEF LookedAt
  <2>2. files'[f] = files[f] /\ <<"operator", f>> \notin overtaken
    BY <1>1, <1>3, <1>5, <2>1 DEF Unhurt
  <2> QED BY <1>1, <1>5, <2>2 DEF RepairOf
<1>6. RepairOf(job[q], k, d)'
  BY <1>1, <1>4, <1>5 DEF RepairOf, Unhurt
<1> QED BY <1>1, <1>6

LEMMA UnhurtOut ==
  ASSUME IInv, NEW q \in Proc, Unhurt(q) PROVE OutOK(q)'
<1> DEFINE f == out[q].file
           s == out[q].snap
<1> SUFFICES ASSUME out[q].step # "none" PROVE OutOK(q)'
  BY DEF OutOK, Unhurt
<1>1. out[q] \in AnyOut /\ ProcOK(q) /\ OutOK(q)
  BY Types DEF ProcOK
<1>2. f \in File /\ f \in LookedAt(q)
  BY <1>1, OutFacts DEF LookedAt
<1>3. \/ files'[f] = files[f]
      \/ files[f].date \in {0, f[3]} /\ files'[f].date = f[3] /\ <<q, f>> \in overtaken'
  <2>1. files[f].date \notin {0, f[3]} => q = "operator"
    BY OddNames
  <2> QED BY <1>2, <2>1 DEF Unhurt
<1>4. Fits(f, s)' /\ Good(s)
  BY <1>1, <1>3 DEF OutOK, Fits, Unhurt
<1>5. ASSUME job[q].do \in {"canonical", "legacy", "migrate"}, ForCapture(q, f, s)
      PROVE  ForCapture(q, f, s)'
  BY <1>2, <1>3, <1>5 DEF ForCapture, Unhurt
<1>6. ASSUME job[q].do = "repair", ForRepair(q, f, s)
      PROVE  ForRepair(q, f, s)'
  <2>1. job[q] \in RepairJob /\ RepairOK(q)
    BY <1>1, <1>6, Types, JobFacts DEF ProcOK
  <2>2. files[f].date # 0
    BY <1>6, <2>1 DEF RepairOK, RepairOf, ForRepair, Date
  <2>3. files'[f].date = files[f].date
    BY <1>3, <2>2
  <2> QED BY <1>2, <1>3, <1>6, <2>3 DEF ForRepair, Unhurt
<1>7. out[q].step = "move" /\ tmp'[f].by = q => tmp'[f].snap = s
  BY <1>1, <1>2 DEF OutOK, Unhurt
<1> QED BY <1>1, <1>4, <1>5, <1>6, <1>7 DEF OutOK, Unhurt, Good

LEMMA Frame ==
  ASSUME IInv, DiskOK, NEW q \in Proc, Unhurt(q)
  PROVE  ProcOK(q)'
<1>1. job[q] \in AnyJob /\ job'[q] = job[q] /\ ProcOK(q)
  BY Types DEF Unhurt
<1>2. CaptureOK(q)'
  <2>1. CASE job[q].do \in {"canonical", "legacy", "reload", "migrate"}
    <3>1. job[q] \in CaptureJob
      BY <1>1, <2>1, JobFacts
    <3>2. <<"canonical", job[q].kind, job[q].date>> \in File
      BY <3>1 DEF CaptureJob, File, Place
    <3> QED BY <1>1, <2>1, <3>2 DEF ProcOK, CaptureOK, DiskOK
  <2>2. CASE job[q].do \notin {"canonical", "legacy", "reload", "migrate"}
    BY <1>1, <2>2 DEF CaptureOK
  <2> QED BY <2>1, <2>2
<1>3. SummaryOK(q)'
  BY <1>1 DEF ProcOK, SummaryOK
<1> QED BY <1>2, <1>3, UnhurtRepair, UnhurtOut DEF ProcOK

(* A process that has no file in hand.                                     *)
LEMMA NoneInHand ==
  ASSUME IInv, NEW p \in Proc, job[p].do \notin {"canonical", "legacy", "migrate", "repair"}
  PROVE  out[p].step = "none"
  BY Types DEF ProcOK, OutOK

(* The part of IInv that is not about the disk.                            *)
OtherOK ==
    /\ now \in Moment
    /\ accFile \in [Date -> 0 .. End]
    /\ meta \in [Date -> {"none", "COMPLETE", "PARTIAL"}]
    /\ latest \in [date : Date, at : 0 .. End]
    /\ job \in [Proc -> AnyJob] /\ out \in [Proc -> AnyOut] /\ overtaken \subseteq Proc \X File
    /\ \A d \in Date : accFile[d] # 0 => DateOf(accFile[d]) = d
    /\ latest.at # 0 => DateOf(latest.at) = latest.date
    /\ JobsOK

WorkOK ==
    /\ job \in [Proc -> AnyJob] /\ out \in [Proc -> AnyOut] /\ overtaken \subseteq Proc \X File
    /\ JobsOK

LEMMA Parts ==
  ASSUME OtherOK', DiskOK, ops' \in 0 .. MaxOps PROVE IInv'
  BY DEF OtherOK, DiskOK, IInv, TypeOK, LiveRead, AnyJob, AnyOut, AnyTmp

LEMMA Whole ==
  ASSUME IInv PROVE OtherOK
  BY DEF OtherOK, IInv, TypeOK, LiveRead, AnyJob, AnyOut

LEMMA OnlyWork ==
  ASSUME IInv, WorkOK', UNCHANGED <<now, sources, meta>> PROVE OtherOK'
  BY Whole DEF OtherOK, WorkOK, sources

(* A step of one process, the other unhurt.                                *)
LEMMA OneProc ==
  ASSUME IInv, DiskOK, NEW p \in Proc, ProcOK(p)', \A q \in Proc \ {p} : Unhurt(q),
         job' \in [Proc -> AnyJob], out' \in [Proc -> AnyOut], overtaken' \subseteq Proc \X File
  PROVE  WorkOK'
  BY Frame DEF WorkOK, JobsOK

(* A process with no file in hand takes up another job.                    *)
LEMMA OneJob ==
  ASSUME IInv, NEW p \in Proc, NEW j \in AnyJob, job' = [job EXCEPT ![p] = j],
         UNCHANGED <<disk, out, overtaken>>, out[p].step = "none",
         CaptureOK(p)' /\ RepairOK(p)' /\ SummaryOK(p)'
  PROVE  WorkOK'
<1>1. job' \in [Proc -> AnyJob] /\ \A q \in Proc \ {p} : job'[q] = job[q]
  BY Types, JobSet
<1>2. \A q \in Proc \ {p} : Unhurt(q)
  BY <1>1 DEF Unhurt, disk
<1>3. ProcOK(p)'
  BY DEF ProcOK, OutOK
<1> QED BY <1>1, <1>2, <1>3, SameDisk, OneProc, Types

(* An idle process has nothing to keep.                                    *)
LEMMA IdleOK ==
  ASSUME NEW q \in Proc, job'[q] = Idle
  PROVE  CaptureOK(q)' /\ RepairOK(q)' /\ SummaryOK(q)'
  BY DEF CaptureOK, RepairOK, SummaryOK, Idle

(* A capture that has begun.                                               *)
LEMMA BegunOK ==
  ASSUME NEW q \in Proc, NEW j \in CaptureJob, job'[q] = j, j.do = "canonical",
         Good(j.snap) /\ j.snap.date = j.date,
         j.goal.sum => j.kind = "close",
         j.goal.open # Nil => Good(j.goal.open) /\ j.goal.open.date = j.date,
         q = "manager" => ~j.rebuild
  PROVE  CaptureOK(q)' /\ RepairOK(q)' /\ SummaryOK(q)'
  BY DEF CaptureOK, RepairOK, SummaryOK

LEMMA CaptureStep ==
  ASSUME IInv, NEW p \in Proc, NEW k \in Kind, NEW d \in Date, NEW w \in BOOLEAN,
         Capture(p, k, d, w), p = "manager" => ~w
  PROVE  OtherOK'
<1>1. ReadSource(p, k, d, w, NoGoal) /\ d = Live /\ UNCHANGED <<now, latest, meta>> /\ UNCHANGED <<disk, out, overtaken>>
  BY DEF Capture, MayCapture
<1>2. NoGoal \in [sum : BOOLEAN, open : Snapshot \cup {Nil}] /\ ~NoGoal.sum /\ NoGoal.open = Nil
  BY DEF NoGoal
<1>3. /\ accFile' \in [Date -> 0 .. End]
      /\ \A e \in Date : accFile'[e] # 0 => DateOf(accFile'[e]) = e
  BY <1>1, <1>2, CaptureBegins
<1>4. PICK j \in CaptureJob :
              /\ job' = [job EXCEPT ![p] = j] /\ j.do = "canonical"
              /\ Good(j.snap) /\ j.snap.date = j.date
              /\ j.goal.sum => j.kind = "close"
              /\ j.goal.open # Nil => Good(j.goal.open) /\ j.goal.open.date = j.date
              /\ p = "manager" => ~j.rebuild
  BY <1>1, <1>2, CaptureBegins
<1>5. j \in AnyJob /\ job \in [Proc -> AnyJob] /\ out[p].step = "none"
  BY Types, NoneInHand DEF Capture, Idle, AnyJob
<1>6. job'[p] = j
  BY <1>4, <1>5, JobSet
<1>7. CaptureOK(p)' /\ RepairOK(p)' /\ SummaryOK(p)'
  BY <1>4, <1>6, BegunOK
<1>8. WorkOK'
  BY <1>1, <1>4, <1>5, <1>7, OneJob
<1> QED BY <1>1, <1>3, <1>8, Whole DEF OtherOK, WorkOK

LEMMA SummaryStep ==
  ASSUME IInv, NEW p \in Proc, NEW d \in Date, Summary(p, d)
  PROVE  OtherOK'
<1>1. TypeOK /\ LiveRead /\ "open" \in Kind /\ "close" \in Kind /\ job \in [Proc -> AnyJob]
  BY DEF IInv, TypeOK, Kind, AnyJob
<1>2. UNCHANGED <<now, latest, meta>> /\ UNCHANGED <<disk, out, overtaken>> /\ out[p].step = "none"
  BY NoneInHand DEF Summary, Idle
<1>3. CASE Present("close", d)
  <2> DEFINE j == [do |-> "summary", date |-> d, open |-> Find("open", d), close |-> Find("close", d)]
  <2>1. Present("open", d) /\ job' = [job EXCEPT ![p] = j] /\ accFile' = accFile
    BY <1>3 DEF Summary
  <2>2. /\ Find("open", d) \in Snapshot /\ Find("close", d) \in Snapshot
        /\ Find("open", d) # Nil /\ Find("close", d) # Nil
    <3> HIDE DEF Find
    <3>1. Find("open", d) \in Snapshot
      BY <1>1, <2>1, Found
    <3>2. Find("close", d) \in Snapshot
      BY <1>1, <1>3, Found
    <3>3. Nil \notin Snapshot
      BY SnapshotFacts DEF Date, Snapshot, Nil
    <3> QED BY <3>1, <3>2, <3>3
  <2>3. /\ Good(Find("open", d)) /\ Find("open", d).date = d
        /\ Good(Find("close", d)) /\ Find("close", d).date = d
    BY <1>1, <2>2, FindGood
  <2> HIDE DEF Find
  <2>4. j \in SummaryJob /\ j.do = "summary"
    BY <2>2 DEF SummaryJob
  <2>5. j \in AnyJob
    BY <2>4 DEF AnyJob
  <2>6. Good(j.open) /\ j.open.date = j.date /\ Good(j.close) /\ j.close.date = j.date
    BY <2>3
  <2> HIDE DEF j
  <2>7. job'[p] = j
    BY <1>1, <2>1, <2>5, JobSet
  <2>8. CaptureOK(p)' /\ RepairOK(p)' /\ SummaryOK(p)'
    BY <2>4, <2>6, <2>7 DEF CaptureOK, RepairOK, SummaryOK
  <2>9. WorkOK'
    BY <1>2, <2>1, <2>5, <2>8, OneJob
  <2> QED BY <1>2, <2>1, <2>9, Whole DEF OtherOK, WorkOK
<1>4. CASE ~Present("close", d)
  <2> DEFINE goal == [sum |-> TRUE, open |-> Find("open", d)]
  <2>1. d = Live /\ ReadSource(p, "close", d, FALSE, goal)
    BY <1>4 DEF Summary, MayCapture
  <2>2. /\ Find("open", d) \in Snapshot \cup {Nil}
        /\ Find("open", d) # Nil => Good(Find("open", d)) /\ Find("open", d).date = d
    BY <1>1, FindGood
  <2> HIDE DEF Find
  <2>3. /\ goal \in [sum : BOOLEAN, open : Snapshot \cup {Nil}]
        /\ goal.open # Nil => Good(goal.open) /\ goal.open.date = d
    BY <2>2
  <2> HIDE DEF goal
  <2>4. /\ accFile' \in [Date -> 0 .. End]
        /\ \A e \in Date : accFile'[e] # 0 => DateOf(accFile'[e]) = e
    BY <1>1, <2>1, <2>3, CaptureBegins
  <2>5. PICK j \in CaptureJob :
              /\ job' = [job EXCEPT ![p] = j] /\ j.do = "canonical"
              /\ Good(j.snap) /\ j.snap.date = j.date
              /\ j.goal.sum => j.kind = "close"
              /\ j.goal.open # Nil => Good(j.goal.open) /\ j.goal.open.date = j.date
              /\ p = "manager" => ~j.rebuild
    BY <1>1, <2>1, <2>3, CaptureBegins
  <2>6. j \in AnyJob
    BY DEF AnyJob
  <2>7. job'[p] = j
    BY <1>1, <2>5, <2>6, JobSet
  <2>8. CaptureOK(p)' /\ RepairOK(p)' /\ SummaryOK(p)'
    BY <2>5, <2>7, BegunOK
  <2>9. WorkOK'
    BY <1>2, <2>5, <2>6, <2>8, OneJob
  <2> QED BY <1>2, <2>4, <2>9, Whole DEF OtherOK, WorkOK
<1> QED BY <1>3, <1>4

LEMMA RepairBegins ==
  ASSUME IInv, NEW k \in Kind, NEW d \in Date, Repair("operator", k, d)
  PROVE  OtherOK'
<1> DEFINE p == "operator"
           s == Find(k, d)
           j == IF GatesOK(s) THEN [do |-> "repair", snap |-> Repaired(s), first |-> FindSnapshot(k, d),
                                    todo |-> Copies(k, d), mark |-> FALSE]
                ELSE [do |-> "repair", snap |-> Nil, first |-> FindSnapshot(k, d), mark |-> TRUE,
                      todo |-> {f \in Copies(k, d) : f[3] = d \/ f = FindSnapshot(k, d)}]
<1>1. TypeOK /\ LiveRead /\ job \in [Proc -> AnyJob] /\ p \in Proc
  BY DEF IInv, TypeOK, AnyJob, Proc
<1>2. /\ UNCHANGED <<now, sources, meta>> /\ UNCHANGED <<disk, out, overtaken>> /\ out[p].step = "none"
      /\ s # Nil /\ job' = [job EXCEPT ![p] = j] /\ files' = files
  BY <1>1, NoneInHand DEF Repair, Idle, disk
<1>3. Present(k, d) /\ s.date = d /\ Good(s)
  BY <1>1, <1>2, FindGood
<1>4. /\ FindSnapshot(k, d) \in File /\ s = files[FindSnapshot(k, d)] /\ s \in Snapshot
      /\ files[<<"canonical", k, d>>].date = d => FindSnapshot(k, d) = <<"canonical", k, d>>
  BY <1>1, <1>3, Found
<1>5. Copies(k, d) \subseteq File
  BY DEF Copies
<1>6. \A f \in Copies(k, d) : f[2] = k /\ files[f].date = d /\ (f[1] = "legacy" \/ f[3] = d)
  BY DEF Copies
<1>7. \A f \in Copies(k, d) : f[1] = "canonical" => files[f].at = s.at
  <2> SUFFICES ASSUME NEW f \in Copies(k, d), f[1] = "canonical" PROVE files[f].at = s.at
    OBVIOUS
  <2>1. f \in File /\ f[2] = k /\ f[3] = d /\ files[f].date = d
    BY <1>5, <1>6
  <2>2. f = <<"canonical", k, d>>
    BY <2>1 DEF File
  <2> HIDE DEF s
  <2> QED BY <1>4, <2>1, <2>2
<1>8. CASE GatesOK(s)
  <2>1. Repaired(s) = [s EXCEPT !.status = "reconstructed"]
    BY DEF Repaired
  <2>2. s.src = "file" /\ s.at # 0
    BY <1>8 DEF GatesOK
  <2> HIDE DEF s
  <2>3. /\ Repaired(s) \in Snapshot /\ Repaired(s).date = s.date /\ Repaired(s).at = s.at
        /\ Repaired(s).src = s.src
    BY <1>4, <2>1 DEF Snapshot
  <2>4. Good(Repaired(s)) /\ Repaired(s) # Nil
    BY <1>3, <2>2, <2>3, SnapshotFacts DEF Good, Date
  <2> HIDE DEF Repaired, FindSnapshot, Copies, GatesOK
  <2>5. j = [do |-> "repair", snap |-> Repaired(s), first |-> FindSnapshot(k, d),
             todo |-> Copies(k, d), mark |-> FALSE]
    BY <1>8
  <2>6. j \in RepairJob /\ j.do = "repair" /\ j.todo = Copies(k, d) /\ j.snap = Repaired(s) /\ ~j.mark
    BY <1>4, <1>5, <2>3, <2>5 DEF RepairJob
  <2> HIDE DEF j
  <2>7. \A f \in j.todo : f[1] = "canonical" => files[f].at = j.snap.at
    BY <1>7, <2>3, <2>6
  <2>8. RepairOf(j, k, d)
    BY <1>3, <1>6, <2>3, <2>4, <2>6, <2>7 DEF RepairOf
  <2>9. j \in AnyJob
    BY <2>6 DEF AnyJob
  <2>10. job'[p] = j
    BY <1>1, <1>2, <2>9, JobSet
  <2>11. CaptureOK(p)' /\ RepairOK(p)' /\ SummaryOK(p)'
    BY <1>2, <2>6, <2>8, <2>10 DEF CaptureOK, RepairOK, RepairOf, SummaryOK
  <2>12. WorkOK'
    BY <1>1, <1>2, <2>9, <2>11, OneJob
  <2> QED BY <1>2, <2>12, OnlyWork
<1>9. CASE ~GatesOK(s)
  <2> HIDE DEF s
  <2> HIDE DEF FindSnapshot, Copies, GatesOK
  <2> DEFINE todo == {f \in Copies(k, d) : f[3] = d \/ f = FindSnapshot(k, d)}
  <2>1. j = [do |-> "repair", snap |-> Nil, first |-> FindSnapshot(k, d), mark |-> TRUE, todo |-> todo]
    BY <1>9
  <2>2. todo \subseteq Copies(k, d)
    OBVIOUS
  <2> HIDE DEF todo
  <2>3. j \in RepairJob /\ j.do = "repair" /\ j.todo \subseteq Copies(k, d) /\ j.mark
    BY <1>4, <1>5, <2>1, <2>2 DEF RepairJob
  <2> HIDE DEF j
  <2>4. RepairOf(j, k, d)
    BY <1>6, <2>3 DEF RepairOf
  <2>5. j \in AnyJob
    BY <2>3 DEF AnyJob
  <2>6. job'[p] = j
    BY <1>1, <1>2, <2>5, JobSet
  <2>7. CaptureOK(p)' /\ RepairOK(p)' /\ SummaryOK(p)'
    BY <1>2, <2>3, <2>4, <2>6 DEF CaptureOK, RepairOK, RepairOf, SummaryOK
  <2>8. WorkOK'
    BY <1>1, <1>2, <2>5, <2>7, OneJob
  <2> QED BY <1>2, <2>8, OnlyWork
<1> QED BY <1>8, <1>9

(* A capture that goes on to its next file, or to the summary.             *)
Onward(j, n) ==
    \/ n = Idle
    \/ \E do \in {"legacy", "reload"} : n = [j EXCEPT !.do = do] /\ (do = "reload" => j.goal.sum)

LEMMA OnwardOK ==
  ASSUME NEW p \in Proc, NEW j \in CaptureJob, NEW n, Onward(j, n),
         j.do \in {"canonical", "legacy", "migrate"} /\ job[p] = j /\ CaptureOK(p),
         files'[<<"canonical", j.kind, j.date>>] # Nil, job'[p] = n
  PROVE  n \in AnyJob /\ CaptureOK(p)' /\ RepairOK(p)' /\ SummaryOK(p)'
<1>1. CASE n = Idle
  BY <1>1, IdleOK DEF AnyJob
<1>2. CASE n # Idle
  <2>1. PICK do \in {"legacy", "reload"} : n = [j EXCEPT !.do = do] /\ (do = "reload" => j.goal.sum)
    BY <1>2 DEF Onward
  <2>2. /\ n \in CaptureJob /\ n.do = do /\ n.kind = j.kind /\ n.date = j.date
        /\ n.snap = j.snap /\ n.rebuild = j.rebuild /\ n.goal = j.goal
    BY <2>1 DEF CaptureJob
  <2> QED BY <2>1, <2>2 DEF AnyJob, CaptureOK, RepairOK, SummaryOK
<1> QED BY <1>1, <1>2

LEMMA OnwardIn ==
  ASSUME NEW j \in CaptureJob, NEW n, Onward(j, n) PROVE n \in AnyJob
<1>1. ASSUME NEW do \in {"legacy", "reload"}, n = [j EXCEPT !.do = do] PROVE n \in CaptureJob
  BY <1>1 DEF CaptureJob
<1> QED BY <1>1 DEF Onward, AnyJob

LEMMA AfterOnward ==
  ASSUME NEW j \in CaptureJob
  PROVE  /\ Onward(j, AfterCanonical(j)) /\ Onward(j, AfterLegacy(j)) /\ Onward(j, Idle)
         /\ j.do \in {"canonical", "legacy", "migrate"} => \A f : Onward(j, After(j, f))
  BY DEF Onward, AfterCanonical, AfterLegacy, After

(* A process that takes a file in hand.                                    *)
LEMMA InHand ==
  ASSUME IInv, NEW p \in Proc, out[p].step = "none", NEW f \in File, NEW s \in Snapshot,
         ToWrite(p, f, s), UNCHANGED <<disk, job, overtaken>>, Good(s), Fits(f, s),
         \/ job[p].do \in {"canonical", "legacy", "migrate"} /\ ForCapture(p, f, s)
         \/ job[p].do = "repair" /\ ForRepair(p, f, s)
  PROVE  WorkOK'
<1> DEFINE o == [step |-> "write", file |-> f, snap |-> s]
<1>1. o \in AnyOut /\ o.step = "write" /\ o.file = f /\ o.snap = s
  BY DEF AnyOut, Output
<1>2. out' = [out EXCEPT ![p] = o]
  BY DEF ToWrite
<1> HIDE DEF o
<1>3. out' \in [Proc -> AnyOut] /\ out'[p] = o /\ \A q \in Proc \ {p} : out'[q] = out[q]
  BY <1>1, <1>2, Types
<1>4. \A q \in Proc \ {p} : Unhurt(q)
  BY <1>3 DEF Unhurt, disk
<1>5. CaptureOK(p)' /\ RepairOK(p)' /\ SummaryOK(p)'
  BY Types DEF ProcOK, CaptureOK, RepairOK, RepairOf, SummaryOK, disk, Good
<1>6. Fits(f, s)' /\ (ForCapture(p, f, s) => ForCapture(p, f, s)') /\ (ForRepair(p, f, s) => ForRepair(p, f, s)')
  BY DEF Fits, ForCapture, ForRepair, disk
<1>7. OutOK(p)'
  BY <1>1, <1>3, <1>6 DEF OutOK, Good
<1> QED BY <1>3, <1>4, <1>5, <1>7, SameDisk, OneProc, Types DEF ProcOK

LEMMA LookStep ==
  ASSUME IInv, NEW p \in Proc, LookCanonical(p) \/ LookLegacy(p) \/ LookMigrated(p)
  PROVE  OtherOK'
<1> DEFINE j == job[p]
           place == IF j.do = "legacy" THEN "legacy" ELSE "canonical"
           f == <<place, j.kind, j.date>>
<1>1. PICK next : Look(p, place, next) /\ next \in {AfterCanonical(j), AfterLegacy(j), Idle}
                  /\ j.do \in {"canonical", "legacy", "migrate"}
  BY DEF LookCanonical, LookLegacy, LookMigrated
<1>2. j \in CaptureJob /\ CaptureOK(p)
  BY <1>1, Types, JobFacts DEF ProcOK
<1>3. /\ UNCHANGED <<now, sources, meta>> /\ UNCHANGED disk /\ overtaken' = overtaken /\ out[p].step = "none"
      /\ files' = files
  BY <1>1 DEF Look, disk
<1>4. /\ j.kind \in Kind /\ j.date \in Date /\ j.snap \in Snapshot /\ f \in File /\ f[1] = place /\ f[3] = j.date
      /\ <<"canonical", j.kind, j.date>> \in File
  BY <1>2 DEF CaptureJob, File, Place
<1>5. ASSUME Kept(place, j) PROVE OtherOK'
  <2>1. job' = [job EXCEPT ![p] = next] /\ out' = out /\ files[f] # Nil
    BY <1>1, <1>5 DEF Look, Kept
  <2>2. Onward(j, next)
    BY <1>1, <1>2, AfterOnward
  <2>3. next \in AnyJob
    BY <1>2, <2>2, OnwardIn
  <2>4. files'[<<"canonical", j.kind, j.date>>] # Nil
    BY <1>1, <1>2, <1>3, <2>1 DEF CaptureOK
  <2> HIDE DEF j
  <2>5. job'[p] = next
    BY <2>1, <2>3, JobSet, Types
  <2>6. CaptureOK(p)' /\ RepairOK(p)' /\ SummaryOK(p)'
    BY <1>1, <1>2, <2>2, <2>4, <2>5, OnwardOK DEF j
  <2>7. WorkOK'
    BY <1>3, <2>1, <2>3, <2>6, OneJob
  <2> QED BY <1>3, <2>7, OnlyWork
<1>6. ASSUME ~Kept(place, j) PROVE OtherOK'
  <2>1. ToWrite(p, f, j.snap) /\ job' = job /\ (files[f] = Nil \/ j.rebuild)
    BY <1>1, <1>6 DEF Look, Kept
  <2>2. Good(j.snap) /\ j.snap.date = j.date
    BY <1>1, <1>2 DEF CaptureOK
  <2>3. Fits(f, j.snap)
    BY <1>4, <2>2 DEF Fits
  <2>4. Nil.date = 0
    BY DEF Nil
  <2>5. ForCapture(p, f, j.snap)
    BY <1>4, <2>1, <2>2, <2>4 DEF ForCapture
  <2> HIDE DEF f
  <2>6. WorkOK'
    BY <1>1, <1>3, <1>4, <2>1, <2>2, <2>3, <2>5, InHand
  <2> QED BY <1>3, <2>6, OnlyWork
<1> QED BY <1>5, <1>6

LEMMA CopyStep ==
  ASSUME IInv, NEW p \in Proc, RepairCopy(p)
  PROVE  OtherOK'
<1> DEFINE j == job[p]
<1>1. /\ j.do = "repair" /\ out[p].step = "none"
      /\ UNCHANGED <<now, sources, meta>> /\ UNCHANGED <<disk, job, overtaken>>
  BY DEF RepairCopy
<1>2. j \in RepairJob
  BY <1>1, Types, JobFacts
<1>3. PICK k \in Kind, d \in Date : p = "operator" /\ RepairOf(j, k, d)
  BY <1>1, Types DEF ProcOK, RepairOK
<1>4. PICK f \in j.todo : ToWrite(p, f, IF j.mark THEN Doubtful(files[f]) ELSE j.snap)
  BY DEF RepairCopy
<1>5. /\ f \in File /\ files[f].date = d /\ j.mark \in BOOLEAN /\ j.snap \in Snapshot \cup {Nil}
      /\ f[1] = "legacy" \/ f[3] = d
  BY <1>2, <1>3 DEF RepairJob, RepairOf
<1>6. files[f] \in Snapshot /\ Good(files[f])
  <2>1. files[f] \in Snapshot /\ files[f] # Nil
    BY <1>5, Types, SnapshotFacts DEF Date
  <2> QED BY <1>5, <2>1, Types
<1> DEFINE s == IF j.mark THEN Doubtful(files[f]) ELSE j.snap
<1>7. s \in Snapshot /\ s.date = d /\ Good(s)
      /\ (f[1] = "canonical" /\ <<p, f>> \notin overtaken => s.at = files[f].at)
  <2>1. CASE j.mark
    <3>1. s = [files[f] EXCEPT !.status = "ambiguous"]
      BY <2>1 DEF Doubtful
    <3>2. s \in Snapshot /\ s.date = files[f].date /\ s.at = files[f].at /\ s.status = "ambiguous"
      BY <1>6, <3>1 DEF Snapshot
    <3> HIDE DEF s
    <3> QED BY <1>5, <1>6, <3>2 DEF Good, Usable
  <2>2. CASE ~j.mark
    <3>1. s = j.snap /\ j.snap # Nil /\ Good(j.snap) /\ j.snap.date = d
      BY <1>3, <2>2 DEF RepairOf
    <3>2. f[1] = "canonical" /\ <<p, f>> \notin overtaken => files[f].at = j.snap.at
      BY <1>3, <2>2 DEF RepairOf
    <3> HIDE DEF s
    <3> QED BY <1>5, <3>1, <3>2
  <2> QED BY <1>5, <2>1, <2>2
<1>8. ForRepair(p, f, s) /\ Fits(f, s)
  <2> HIDE DEF s
  <2> QED BY <1>3, <1>5, <1>7 DEF ForRepair, Fits, Date
<1>9. ToWrite(p, f, s)
  BY <1>4
<1> HIDE DEF s, j
<1>10. WorkOK'
  BY <1>1, <1>5, <1>7, <1>8, <1>9, InHand DEF j
<1> QED BY <1>1, <1>10, OnlyWork

LEMMA WriteStep ==
  ASSUME IInv, NEW p \in Proc, WriteTmp(p)
  PROVE  OtherOK'
<1> DEFINE f == out[p].file
           o == [out[p] EXCEPT !.step = "move"]
<1>1. /\ DiskOK /\ files' = files /\ f \in File /\ tmp'[f] = [by |-> p, snap |-> out[p].snap]
      /\ \A g \in File \ {f} : tmp'[g] = tmp[g]
  BY TmpWritten
<1>2. out[p] \in AnyOut /\ out[p].step # "none" /\ ProcOK(p)
  BY Types DEF WriteTmp
<1>3. out[p] \in Output
  BY <1>2, OutFacts
<1>4. o \in AnyOut /\ o.step = "move" /\ o.file = f /\ o.snap = out[p].snap
  BY <1>3 DEF AnyOut, Output
<1>5. UNCHANGED <<now, sources, meta>> /\ job' = job /\ overtaken' = overtaken /\ out' = [out EXCEPT ![p] = o]
  BY DEF WriteTmp
<1> HIDE DEF o
<1>6. out' \in [Proc -> AnyOut] /\ out'[p] = o /\ \A q \in Proc \ {p} : out'[q] = out[q]
  BY <1>4, <1>5, Types
<1>7. \A q \in Proc \ {p} : Unhurt(q)
  BY <1>1, <1>5, <1>6 DEF Unhurt
<1>8. CaptureOK(p)' /\ RepairOK(p)' /\ SummaryOK(p)'
  BY <1>1, <1>2, <1>5 DEF ProcOK, CaptureOK, RepairOK, RepairOf, SummaryOK, Good
<1>9. OutOK(p)'
  <2> DEFINE s == out[p].snap
  <2>5. out'[p].file = f /\ out'[p].snap = s
    BY <1>4, <1>6
  <2>1. Fits(f, s) => Fits(f, s)'
    BY <1>1, <2>5 DEF Fits
  <2>3. ForCapture(p, f, s) => ForCapture(p, f, s)'
    BY <1>1, <1>5, <2>5 DEF ForCapture
  <2>4. ForRepair(p, f, s) => ForRepair(p, f, s)'
    BY <1>1, <1>5, <2>5 DEF ForRepair
  <2>2. tmp'[f].snap = o.snap
    BY <1>1, <1>4
  <2> QED BY <1>2, <1>4, <1>5, <1>6, <2>1, <2>2, <2>3, <2>4 DEF ProcOK, OutOK, Good
<1>10. WorkOK'
  BY <1>1, <1>5, <1>6, <1>7, <1>8, <1>9, OneProc, Types DEF ProcOK
<1> QED BY <1>5, <1>10, OnlyWork

LEMMA MoveStep ==
  ASSUME IInv, NEW p \in Proc, Move(p)
  PROVE  OtherOK'
<1> DEFINE f == out[p].file
           j == job[p]
           n == After(j, f)
<1>1. /\ DiskOK /\ f \in File /\ files'[f] # Nil
      /\ \A g \in File \ {f} : files'[g] = files[g] /\ tmp'[g] = tmp[g]
      /\ tmp'[f].by = "nobody"
      /\ files[f].date \in {0, f[3]} => files'[f].date = f[3]
      /\ files[f].date \notin {0, f[3]} => p = "operator"
  BY MoveEffect
<1>2. /\ UNCHANGED <<now, sources, meta>> /\ job' = [job EXCEPT ![p] = n] /\ out' = [out EXCEPT ![p] = NoOut]
      /\ overtaken' = (overtaken \ {<<p, f>>}) \cup ({q \in Proc \ {p} : f \in LookedAt(q)} \X {f})
      /\ out[p].step = "move"
  BY DEF Move
<1>3. ProcOK(p) /\ j \in AnyJob
  BY Types
<1>4. \/ j.do \in {"canonical", "legacy", "migrate"} /\ ForCapture(p, f, out[p].snap)
      \/ j.do = "repair" /\ ForRepair(p, f, out[p].snap)
  BY <1>2, <1>3 DEF ProcOK, OutOK
<1>5. n \in AnyJob /\ (job'[p] = n => CaptureOK(p)' /\ RepairOK(p)' /\ SummaryOK(p)')
  <2>1. CASE j.do \in {"canonical", "legacy", "migrate"} /\ ForCapture(p, f, out[p].snap)
    <3>1. j \in CaptureJob
      BY <1>3, <2>1, JobFacts
    <3>2. Onward(j, n)
      BY <2>1, <3>1, AfterOnward
    <3>3. <<"canonical", j.kind, j.date>> \in File
      BY <3>1 DEF CaptureJob, File, Place
    <3>4. f = <<"canonical", j.kind, j.date>> \/ files[<<"canonical", j.kind, j.date>>] # Nil
      BY <1>3, <2>1 DEF ForCapture, ProcOK, CaptureOK
    <3>5. files'[<<"canonical", j.kind, j.date>>] # Nil
      BY <1>1, <3>3, <3>4
    <3>6. n \in AnyJob
      BY <3>1, <3>2, OnwardIn
    <3> HIDE DEF n
    <3> QED BY <1>3, <2>1, <3>1, <3>2, <3>5, <3>6, OnwardOK DEF ProcOK
  <2>2. CASE j.do = "repair" /\ ForRepair(p, f, out[p].snap)
    <3>1. j \in RepairJob
      BY <1>3, <2>2, JobFacts
    <3>2. PICK k \in Kind, d \in Date : p = "operator" /\ RepairOf(j, k, d)
      BY <1>3, <2>2 DEF ProcOK, RepairOK
    <3>3. n = AfterRepair(j, f)
      BY <2>2 DEF After
    <3>4. CASE n = Idle
      BY <3>4, IdleOK DEF AnyJob
    <3>5. CASE n # Idle
      <4>1. n = [j EXCEPT !.todo = j.todo \ {f}]
        BY <3>3, <3>5 DEF AfterRepair
      <4> HIDE DEF n, f, j
      <4>2. /\ n \in RepairJob /\ n.do = "repair" /\ n.todo = j.todo \ {f} /\ j.todo \subseteq File
            /\ n.mark = j.mark /\ n.snap = j.snap
        BY <2>2, <3>1, <4>1 DEF RepairJob
      <4>3. \A g \in n.todo : files'[g] = files[g] /\ (<<p, g>> \in overtaken => <<p, g>> \in overtaken')
        BY <1>1, <1>2, <4>2
      <4>4. job'[p] = n => RepairOf(job[p], k, d)'
        <5>1. ~n.mark => n.snap # Nil /\ Good(n.snap) /\ n.snap.date = d
          BY <3>2, <4>2 DEF RepairOf
        <5>2. ASSUME NEW g \in n.todo
              PROVE  /\ g[2] = k /\ files'[g].date = d /\ (g[1] = "legacy" \/ g[3] = d)
                     /\ g[1] = "canonical" /\ ~n.mark /\ <<"operator", g>> \notin overtaken' =>
                          files'[g].at = n.snap.at
          BY <3>2, <4>2, <4>3, <5>2 DEF RepairOf
        <5> QED BY <5>1, <5>2 DEF RepairOf, Good
      <4> QED BY <3>2, <4>2, <4>4 DEF AnyJob, CaptureOK, RepairOK, SummaryOK
    <3> QED BY <3>4, <3>5
  <2> QED BY <1>4, <2>1, <2>2
<1> HIDE DEF n, j, f
<1>6. job' \in [Proc -> AnyJob] /\ job'[p] = n /\ \A q \in Proc \ {p} : job'[q] = job[q]
  BY <1>2, <1>5, JobSet, Types
<1>7. out' \in [Proc -> AnyOut] /\ out'[p] = NoOut /\ \A q \in Proc \ {p} : out'[q] = out[q]
  <2>1. NoOut \in AnyOut
    BY DEF AnyOut
  <2> QED BY <1>2, <2>1, Types
<1>8. overtaken' \subseteq Proc \X File
  BY <1>1, <1>2, Types
<1>9. ASSUME NEW q \in Proc \ {p} PROVE Unhurt(q)
  <2>1. \A g \in File : <<q, g>> \in overtaken => <<q, g>> \in overtaken'
    BY <1>2
  <2>2. \A g \in File : tmp'[g].by = q => tmp'[g] = tmp[g]
    BY <1>1 DEF Proc
  <2>3. f \in LookedAt(q) => <<q, f>> \in overtaken'
    BY <1>2
  <2>4. files[f].date \notin {0, f[3]} => q = "manager"
    BY <1>1 DEF Proc
  <2>5. ASSUME NEW g \in File
        PROVE  \/ files'[g] = files[g]
               \/ /\ files[g].date \in {0, g[3]} /\ files'[g].date = g[3]
                  /\ g \in LookedAt(q) => <<q, g>> \in overtaken'
               \/ q = "manager" /\ files[g].date \notin {0, g[3]}
    BY <1>1, <2>3, <2>4
  <2> QED BY <1>6, <1>7, <2>1, <2>2, <2>5 DEF Unhurt
<1>10. OutOK(p)'
  BY <1>7 DEF OutOK, NoOut
<1>11. WorkOK'
  BY <1>1, <1>5, <1>6, <1>7, <1>8, <1>9, <1>10, OneProc DEF ProcOK
<1> QED BY <1>2, <1>11, OnlyWork

(* A process that fails or is killed.                                      *)
LEMMA StopStep ==
  ASSUME IInv, DiskOK, NEW p \in Proc, MoveFails(p) \/ Crash(p)
  PROVE  OtherOK'
<1>1. /\ UNCHANGED <<now, sources, meta>> /\ files' = files
      /\ job' = [job EXCEPT ![p] = Idle] /\ out' = [out EXCEPT ![p] = NoOut] /\ overtaken' = Forgotten(p)
      /\ tmp' = tmp \/ tmp' = LeftBehind(p)
  BY DEF MoveFails, Crash, disk
<1>2. Idle \in AnyJob /\ NoOut \in AnyOut /\ NoTmp.by = "nobody" /\ \A q \in Proc : q # "nobody"
  BY DEF AnyJob, AnyOut, NoTmp, Proc
<1>3. /\ job' \in [Proc -> AnyJob] /\ job'[p] = Idle /\ \A q \in Proc \ {p} : job'[q] = job[q]
      /\ out' \in [Proc -> AnyOut] /\ out'[p] = NoOut /\ \A q \in Proc \ {p} : out'[q] = out[q]
  BY <1>1, <1>2, Types
<1>4. overtaken' \subseteq Proc \X File /\ \A q \in Proc \ {p}, g \in File : <<q, g>> \in overtaken => <<q, g>> \in overtaken'
  BY <1>1, Types DEF Forgotten
<1>5. \A g \in File : tmp'[g] \in {tmp[g], NoTmp}
  BY <1>1 DEF LeftBehind
<1>6. \A q \in Proc \ {p} : Unhurt(q)
  BY <1>1, <1>2, <1>3, <1>4, <1>5 DEF Unhurt
<1>7. OutOK(p)'
  BY <1>3 DEF OutOK, NoOut
<1>8. WorkOK'
  BY <1>3, <1>4, <1>6, <1>7, IdleOK, OneProc DEF ProcOK
<1> QED BY <1>1, <1>8, OnlyWork

LEMMA MigrateBegins ==
  ASSUME IInv, NEW k \in Kind, NEW d \in Date, Migrate("operator", k, d)
  PROVE  OtherOK'
<1> DEFINE p == "operator"
           s == files[<<"legacy", k, Best(k, d)>>]
           j == [do |-> "migrate", kind |-> k, date |-> d, rebuild |-> FALSE, snap |-> s, goal |-> NoGoal]
<1>1. p \in Proc /\ out[p].step = "none"
  BY NoneInHand DEF Migrate, Idle, Proc
<1>2. /\ Candidates(k, d) # {} /\ job' = [job EXCEPT ![p] = j]
      /\ UNCHANGED <<now, sources, meta>> /\ UNCHANGED <<disk, out, overtaken>>
  BY DEF Migrate
<1>3. Best(k, d) \in Candidates(k, d)
  BY <1>2 DEF Best
<1>4. Best(k, d) \in Date /\ s.date = d
  BY <1>3 DEF Candidates
<1>5. <<"legacy", k, Best(k, d)>> \in File
  BY <1>4 DEF File, Place
<1>6. s \in Snapshot /\ s # Nil
  BY <1>4, <1>5, Types, SnapshotFacts DEF Date
<1>7. Good(s)
  BY <1>5, <1>6, Types
<1> HIDE DEF s
<1>8. NoGoal \in [sum : BOOLEAN, open : Snapshot \cup {Nil}] /\ ~NoGoal.sum /\ NoGoal.open = Nil
  BY DEF NoGoal
<1>9. /\ j \in CaptureJob /\ j.do = "migrate" /\ j.snap = s /\ j.date = d /\ ~j.rebuild
      /\ ~j.goal.sum /\ j.goal.open = Nil
  BY <1>6, <1>8 DEF CaptureJob
<1> HIDE DEF j, p
<1>10. j \in AnyJob
  BY <1>9 DEF AnyJob
<1>11. job'[p] = j
  BY <1>1, <1>2, <1>10, JobSet, Types
<1>12. CaptureOK(p)' /\ RepairOK(p)' /\ SummaryOK(p)'
  BY <1>4, <1>7, <1>9, <1>11 DEF CaptureOK, RepairOK, SummaryOK, Good
<1>13. WorkOK'
  BY <1>1, <1>2, <1>10, <1>12, OneJob
<1> QED BY <1>2, <1>13, OnlyWork

LEMMA ReloadStep ==
  ASSUME IInv, NEW p \in Proc, Reload(p)
  PROVE  OtherOK'
<1> DEFINE j == job[p]
<1>1. job \in [Proc -> AnyJob] /\ TypeOK
  BY DEF IInv, TypeOK, AnyJob
<1>2. /\ UNCHANGED <<now, sources, meta>> /\ UNCHANGED <<disk, out, overtaken>> /\ j.do = "reload"
      /\ out[p].step = "none"
      /\ job' = [job EXCEPT ![p] =
                     IF j.goal.open = Nil THEN Idle
                     ELSE [do |-> "summary", date |-> j.date, open |-> j.goal.open,
                           close |-> files[<<"canonical", "close", j.date>>]]]
  BY NoneInHand DEF Reload
<1>3. j \in CaptureJob
  BY <1>1, <1>2, JobFacts
<1>4. /\ j.goal.open # Nil => Good(j.goal.open) /\ j.goal.open.date = j.date
      /\ j.kind = "close" /\ files[<<"canonical", j.kind, j.date>>] # Nil
  BY <1>2, Types DEF ProcOK, CaptureOK
<1> HIDE DEF j
<1>5. CASE j.goal.open = Nil
  <2>1. Idle \in AnyJob /\ job' = [job EXCEPT ![p] = Idle]
    BY <1>2, <1>5 DEF AnyJob
  <2>2. job'[p] = Idle
    BY <1>1, <2>1, JobSet
  <2>3. WorkOK'
    BY <1>2, <2>1, <2>2, IdleOK, OneJob
  <2> QED BY <1>2, <2>3, OnlyWork
<1>6. CASE j.goal.open # Nil
  <2> DEFINE c == files[<<"canonical", "close", j.date>>]
             n == [do |-> "summary", date |-> j.date, open |-> j.goal.open, close |-> c]
  <2>1. /\ j.date \in Date /\ "close" \in Kind /\ <<"canonical", "close", j.date>> \in File
        /\ j.goal.open \in Snapshot
    BY <1>3, <1>6 DEF CaptureJob, Kind, File, Place
  <2>2. c \in Snapshot /\ c # Nil /\ Good(c)
    BY <1>1, <1>4, <2>1 DEF TypeOK, IInv, LiveRead
  <2>3. c.date = j.date
    <3>1. c.date \in {0, j.date}
      BY <1>1, <2>1 DEF TypeOK
    <3> HIDE DEF c
    <3> QED BY <2>2, <3>1, SnapshotFacts
  <2> HIDE DEF c
  <2>4. n \in SummaryJob /\ n.do = "summary"
    BY <2>1, <2>2 DEF SummaryJob
  <2>5. Good(n.open) /\ n.open.date = n.date /\ Good(n.close) /\ n.close.date = n.date
    BY <1>4, <1>6, <2>2, <2>3
  <2>6. job' = [job EXCEPT ![p] = n] /\ n \in AnyJob
    BY <1>2, <1>6, <2>4 DEF AnyJob, c
  <2> HIDE DEF n
  <2>7. job'[p] = n
    BY <1>1, <2>6, JobSet
  <2>8. CaptureOK(p)' /\ RepairOK(p)' /\ SummaryOK(p)'
    BY <2>4, <2>5, <2>7 DEF CaptureOK, RepairOK, SummaryOK
  <2>9. WorkOK'
    BY <1>2, <2>6, <2>8, OneJob
  <2> QED BY <1>2, <2>9, OnlyWork
<1> QED BY <1>5, <1>6

(* The steps that end a job, and those of the trader and the clock.        *)
LEMMA RestStep ==
  ASSUME IInv,
         \/ \E p \in Proc : WriteMeta(p)
         \/ \E valid \in BOOLEAN : TraderSnapshot(valid)
         \/ TimePasses \/ UNCHANGED <<now, sources, disk, meta, work>>
  PROVE  OtherOK'
<1>1. job \in [Proc -> AnyJob] /\ now \in Moment /\ Idle \in AnyJob
  BY DEF IInv, TypeOK, AnyJob
<1>2. ASSUME NEW p \in Proc, WriteMeta(p) PROVE OtherOK'
  <2>1. /\ UNCHANGED <<now, latest, accFile>> /\ UNCHANGED <<disk, out, overtaken>>
        /\ job' = [job EXCEPT ![p] = Idle] /\ out[p].step = "none"
    BY <1>2, NoneInHand DEF WriteMeta, sources
  <2>2. meta' \in [Date -> {"none", "COMPLETE", "PARTIAL"}]
    <3>1. meta \in [Date -> {"none", "COMPLETE", "PARTIAL"}]
      BY DEF IInv, TypeOK
    <3>2. meta' = [meta EXCEPT ![job[p].date] = Status(job[p].open, job[p].close)]
      BY <1>2 DEF WriteMeta
    <3>3. Status(job[p].open, job[p].close) \in {"COMPLETE", "PARTIAL"}
      BY DEF Status, Enforced
    <3> QED BY <3>1, <3>2, <3>3
  <2>3. job'[p] = Idle
    BY <1>1, <2>1, JobSet
  <2>4. WorkOK'
    BY <1>1, <2>1, <2>3, IdleOK, OneJob
  <2> QED BY <2>1, <2>2, <2>4, Whole DEF OtherOK, WorkOK
<1>3. ASSUME UNCHANGED disk, UNCHANGED work PROVE WorkOK'
  <2>1. \A q \in Proc : Unhurt(q)
    BY <1>3 DEF Unhurt, disk, work
  <2>2. \A q \in Proc : ProcOK(q)'
    BY <1>3, <2>1, SameDisk, Frame
  <2> QED BY <1>3, <2>2, Types DEF WorkOK, JobsOK, work
<1>4. ASSUME NEW valid \in BOOLEAN, TraderSnapshot(valid) PROVE OtherOK'
  <2>1. /\ latest' = [date |-> Live, at |-> IF valid THEN now ELSE 0]
        /\ UNCHANGED <<now, accFile, meta>> /\ UNCHANGED disk /\ UNCHANGED work
    BY <1>4 DEF TraderSnapshot
  <2>2. Live \in Date /\ now \in 0 .. End
    BY <1>1, DateOfMoment DEF Live, Moment
  <2>3. latest' \in [date : Date, at : 0 .. End] /\ (latest'.at # 0 => DateOf(latest'.at) = latest'.date)
    BY <2>1, <2>2, BalanceAssumption DEF Live
  <2> QED BY <1>3, <2>1, <2>3, Whole DEF OtherOK, WorkOK
<1>5. CASE TimePasses
  <2>1. now' \in Moment /\ UNCHANGED <<latest, accFile, meta>> /\ UNCHANGED disk /\ UNCHANGED work
    BY <1>1, <1>5, BalanceAssumption DEF TimePasses, Moment, sources
  <2> QED BY <1>3, <2>1, Whole DEF OtherOK, WorkOK
<1>6. CASE UNCHANGED <<now, sources, disk, meta, work>>
  BY <1>3, <1>6, OnlyWork
<1> QED BY <1>2, <1>4, <1>5, <1>6

LEMMA IInvStep ==
  ASSUME IInv, [Next]_vars PROVE IInv'
<1>1. Step /\ ops' \in 0 .. MaxOps
  BY StepIs DEF IInv
<1>2. DiskOK
  BY <1>1, DiskStep
<1>3. OtherOK'
  BY <1>1, <1>2, CaptureStep, SummaryStep, RepairBegins, MigrateBegins, LookStep, CopyStep, WriteStep,
     MoveStep, StopStep, ReloadStep, RestStep DEF Step, Steps
<1> QED BY <1>1, <1>2, <1>3, Parts

-----------------------------------------------------------------------------
(* The first trade dates, with whatever earlier versions left.             *)
LEMMA InitIInv ==
  Init => IInv
<1> SUFFICES ASSUME Init PROVE IInv
  OBVIOUS
<1>1. /\ now \in Moment /\ ops \in 0 .. MaxOps /\ meta \in [Date -> {"none", "COMPLETE", "PARTIAL"}]
  BY BalanceAssumption DEF Init, Moment
<1>2. latest \in [date : Date, at : 0 .. End] /\ DateOf(latest.at) = latest.date
  <2>1. PICK m \in Moment : latest = [date |-> DateOf(m), at |-> m]
    BY DEF Init
  <2>2. DateOf(m) \in Date /\ m \in 0 .. End
    BY DateOfMoment DEF Moment
  <2> HIDE DEF DateOf
  <2> QED BY <2>1, <2>2
<1>3. job = [p \in Proc |-> Idle]
  BY DEF Init
<1>4. PICK old \in SUBSET Olds :
         /\ files = [f \in File |->
                      IF \E o \in old : f = <<"legacy", o.kind, o.name>>
                      THEN (CHOOSE o \in old : f = <<"legacy", o.kind, o.name>>).snap ELSE Nil]
         /\ accFile = [d \in Date |-> IF \E o \in old : o.snap.date = d /\ o.snap.sha # 0
                                     THEN (CHOOSE o \in old : o.snap.date = d /\ o.snap.sha # 0).snap.sha ELSE 0]
  BY DEF Init
<1>5. \A o \in old : /\ o.snap \in Snapshot /\ o.snap.status = "unmarked" /\ o.snap.sha \in 0 .. End
                     /\ o.snap.at # 0 => DateOf(o.snap.at) = o.snap.date
                     /\ o.snap.sha # 0 => DateOf(o.snap.sha) = o.snap.date
  <2> SUFFICES ASSUME NEW o \in old
               PROVE /\ o.snap \in Snapshot /\ o.snap.status = "unmarked" /\ o.snap.sha \in 0 .. End
                     /\ o.snap.at # 0 => DateOf(o.snap.at) = o.snap.date
                     /\ o.snap.sha # 0 => DateOf(o.snap.sha) = o.snap.date
    OBVIOUS
  <2>1. o \in Olds /\ o.snap \in Snapshot
    BY BalanceAssumption
  <2>2. o.snap.sha \in 0 .. End
    BY <2>1 DEF Snapshot
  <2>3. o.snap.status = "unmarked" /\ \A m \in {o.snap.at, o.snap.sha} \ {0} : DateOf(m) = o.snap.date
    BY <2>1, BalanceAssumption
  <2> HIDE DEF DateOf
  <2> QED BY <2>1, <2>2, <2>3
<1>6. \A f \in File : files[f] = Nil \/ \E o \in old : f = <<"legacy", o.kind, o.name>> /\ files[f] = o.snap
  <2> SUFFICES ASSUME NEW f \in File, \E o \in old : f = <<"legacy", o.kind, o.name>>
               PROVE  \E o \in old : f = <<"legacy", o.kind, o.name>> /\ files[f] = o.snap
    BY <1>4
  <2> DEFINE c == CHOOSE o \in old : f = <<"legacy", o.kind, o.name>>
  <2>1. c \in old /\ f = <<"legacy", c.kind, c.name>>
    OBVIOUS
  <2>2. files[f] = c.snap
    BY <1>4
  <2> HIDE DEF c
  <2> QED BY <2>1, <2>2
<1>7. \A d \in Date : accFile[d] = 0 \/ \E o \in old : o.snap.date = d /\ o.snap.sha # 0 /\ accFile[d] = o.snap.sha
  <2> SUFFICES ASSUME NEW d \in Date, \E o \in old : o.snap.date = d /\ o.snap.sha # 0
               PROVE  \E o \in old : o.snap.date = d /\ o.snap.sha # 0 /\ accFile[d] = o.snap.sha
    BY <1>4
  <2> DEFINE c == CHOOSE o \in old : o.snap.date = d /\ o.snap.sha # 0
  <2>1. c \in old /\ c.snap.date = d /\ c.snap.sha # 0
    OBVIOUS
  <2>2. accFile[d] = c.snap.sha
    BY <1>4
  <2> HIDE DEF c
  <2> QED BY <2>1, <2>2
<1> HIDE DEF DateOf
<1>8. /\ files \in [File -> Snapshot \cup {Nil}]
      /\ \A f \in File : files[f] # Nil => Good(files[f])
  <2>1. files = [f \in File |-> files[f]]
    BY <1>4
  <2>2. \A f \in File : files[f] \in Snapshot \cup {Nil}
    BY <1>5, <1>6
  <2>3. files \in [File -> Snapshot \cup {Nil}]
    BY <2>1, <2>2
  <2> QED BY <1>5, <1>6, <2>3 DEF Good, Usable
<1>9. \A k \in Kind, d \in Date : files[<<"canonical", k, d>>].date \in {0, d}
  <2> SUFFICES ASSUME NEW k \in Kind, NEW d \in Date PROVE files[<<"canonical", k, d>>] = Nil
    <3>1. Nil.date = 0
      BY DEF Nil
    <3> QED BY <3>1
  <2>1. <<"canonical", k, d>> \in File
    BY DEF File, Place
  <2>2. \A o \in old : <<"canonical", k, d>> # <<"legacy", o.kind, o.name>>
    OBVIOUS
  <2> QED BY <1>6, <2>1, <2>2
<1>10. /\ accFile \in [Date -> 0 .. End]
       /\ \A d \in Date : accFile[d] # 0 => DateOf(accFile[d]) = d
  <2>1. accFile = [d \in Date |-> accFile[d]]
    BY <1>4
  <2>2. \A d \in Date : accFile[d] \in 0 .. End
    BY <1>5, <1>7, BalanceAssumption
  <2>3. accFile \in [Date -> 0 .. End]
    BY <2>1, <2>2
  <2> QED BY <1>5, <1>7, <2>3
<1>11. out = [p \in Proc |-> NoOut] /\ overtaken = {} /\ tmp = [f \in File |-> NoTmp]
  BY DEF Init
<1>12. JobsOK /\ \A f \in File : TmpOK(f)
  BY <1>3, <1>11 DEF JobsOK, ProcOK, CaptureOK, RepairOK, SummaryOK, OutOK, TmpOK, Idle, NoOut, NoTmp
<1> QED BY <1>1, <1>2, <1>3, <1>8, <1>9, <1>10, <1>11, <1>12 DEF IInv, TypeOK, LiveRead

(* The inductive invariant of the balances.                                *)
THEOREM Invariance ==
  Spec => []IInv
<1>1. IInv /\ [Next]_vars => IInv'
  BY IInvStep
<1> QED BY <1>1, InitIInv, PTL DEF Spec

(* The state is well formed, and a canonical file holds the balance of the *)
(* date in its name (get_canonical_daily_balance_path).                    *)
THEOREM TypeCorrect ==
  Spec => []TypeOK
<1>1. IInv => TypeOK
  BY DEF IInv
<1> QED BY <1>1, Invariance, PTL

(* Whatever is kept or compared for a date was read while that date was    *)
(* live, and a complete summary rests on the files of account.py alone.    *)
THEOREM AmountsOfTheirDate ==
  Spec => []OneDate
<1>1. IInv => OneDate
  <2> SUFFICES ASSUME IInv PROVE OneDate
    OBVIOUS
  <2>1. \A f \in File : files[f] # Nil /\ files[f].at # 0 => DateOf(files[f].at) = files[f].date
    BY DEF IInv, LiveRead, Good
  <2>2. ASSUME NEW p \in Proc, job[p].do = "summary",
               NEW s \in {job[p].open, job[p].close}
        PROVE  /\ s.date = job[p].date /\ (s.at # 0 => DateOf(s.at) = s.date)
               /\ Status(job[p].open, job[p].close) = "COMPLETE" => s.src = "file" /\ s.at # 0
    <3>1. Good(s) /\ s.date = job[p].date
      BY <2>2 DEF IInv, JobsOK, ProcOK, SummaryOK
    <3>2. Status(job[p].open, job[p].close) = "COMPLETE" => Usable(s) /\ s.fx
      BY <2>2 DEF Status, PairSupports, Complete, FxAnalysed
    <3> QED BY <3>1, <3>2 DEF Good
  <2> QED BY <2>1, <2>2 DEF OneDate
<1> QED BY <1>1, Invariance, PTL

-----------------------------------------------------------------------------
(* A date has a balance if one of its files is of it.                      *)
LEMMA Presence ==
  ASSUME NEW k \in Kind, NEW d \in Date
  PROVE  /\ Present(k, d) <=> \/ files[<<"canonical", k, d>>].date = d
                              \/ \E n \in Date : files[<<"legacy", k, n>>].date = d
         /\ Present(k, d)' <=> \/ files'[<<"canonical", k, d>>].date = d
                               \/ \E n \in Date : files'[<<"legacy", k, n>>].date = d
  BY DEF Present, Candidates

(* Nothing happens to the balance of a date as long as its files keep      *)
(* their dates, or its canonical file and those that are there.            *)
LEMMA DatesStay ==
  ASSUME IInv, NEW k \in Kind, NEW d \in Date, \A f \in File : files[f].date # 0 => files'[f].date = files[f].date
  PROVE  Present(k, d) => Present(k, d)'
<1>1. d # 0 /\ \A n \in Date : <<"canonical", k, d>> \in File /\ <<"legacy", k, n>> \in File
  BY DEF Date, File, Place
<1> QED BY <1>1, Presence

LEMMA KeptStep ==
  ASSUME IInv, [Next]_vars, NEW k \in Kind, NEW d \in Date, files' # files
  PROVE  LET f == <<"canonical", k, d>>
         IN  /\ files[f] # Nil /\ files'[f] # files[f] => AmountsStay(f)
             /\ Present(k, d) => StaysPresent(k, d)
<1> DEFINE c == <<"canonical", k, d>>
<1>1. PICK p \in Proc : Move(p)
  <2>1. Step
    BY StepIs DEF IInv
  <2>2. ASSUME NEW p \in Proc, Steps(p) \/ Crash(p), ~Move(p) PROVE files' = files
    BY <2>2 DEF Steps, LookCanonical, LookLegacy, LookMigrated, Look, RepairCopy, WriteTmp, MoveFails,
                Reload, WriteMeta, Crash, disk
  <2> QED BY <2>1, <2>2 DEF Step, Capture, Repair, Migrate, Summary, TraderSnapshot, TimePasses, disk
<1> DEFINE f == out[p].file
<1>2. /\ f \in File /\ \A g \in File \ {f} : files'[g] = files[g]
      /\ \/ files[f].date = 0 \/ files'[f].date = files[f].date
         \/ f[1] = "legacy" /\ p \in Rebuilds("legacy") /\ job[p].date = f[3] /\ files'[f].date = f[3]
      /\ f[1] = "canonical" /\ files[f] # Nil =>
           files'[f].at = files[f].at \/ p \in Rebuilds("canonical") \/ Crossed(p, f)
  BY <1>1, MoveEffect
<1>3. Moves(p, f)
  <2>1. out[p].step = "move" /\ out' = [out EXCEPT ![p] = NoOut]
    BY <1>1 DEF Move
  <2> QED BY <2>1, Types DEF Moves
<1>4. c \in File /\ c[1] = "canonical" /\ d # 0
  BY DEF File, Place, Date
<1> HIDE DEF f
<1>5. files[c] # Nil /\ files'[c] # files[c] => AmountsStay(c)
  BY <1>2, <1>3, <1>4 DEF AmountsStay
<1>6. Present(k, d) => StaysPresent(k, d)
  <2>1. ASSUME files[f].date = 0 \/ files'[f].date = files[f].date PROVE Present(k, d) => StaysPresent(k, d)
    <3>1. \A g \in File : files[g].date # 0 => files'[g].date = files[g].date
      BY <1>2, <2>1
    <3> QED BY <3>1, DatesStay DEF StaysPresent
  <2>2. ASSUME f[1] = "legacy", p \in Rebuilds("legacy"), job[p].date = f[3], files'[f].date = f[3]
        PROVE  Present(k, d) => StaysPresent(k, d)
    <3>1. CASE f[3] # d
      BY <2>2, <3>1 DEF StaysPresent
    <3>2. ASSUME f[3] = d, Present(k, d) PROVE Present(k, d)'
      <4>1. files'[c] = files[c]
        BY <1>2, <1>4, <2>2
      <4>2. ASSUME NEW n \in Date, files[<<"legacy", k, n>>].date = d
            PROVE  files'[<<"legacy", k, n>>].date = d
        <5>1. <<"legacy", k, n>> \in File
          BY DEF File, Place
        <5>2. CASE <<"legacy", k, n>> = f
          BY <2>2, <3>2, <5>2
        <5> QED BY <1>2, <4>2, <5>1, <5>2
      <4> QED BY <3>2, <4>1, <4>2, Presence
    <3> QED BY <3>1, <3>2 DEF StaysPresent
  <2> QED BY <1>2, <2>1, <2>2
<1> QED BY <1>5, <1>6

(* The amounts of a canonical balance change by a rebuild only, or because *)
(* two processes crossed at the file; and a date keeps its balance, but    *)
(* for the alias of the date before.                                       *)
THEOREM KeptBalances ==
  Spec => BalancesKept
<1>1. IInv /\ [Next]_vars =>
        [\A k \in Kind, d \in Date :
           LET f == <<"canonical", k, d>>
           IN  /\ files[f] # Nil /\ files'[f] # files[f] => AmountsStay(f)
               /\ Present(k, d) => StaysPresent(k, d)]_files
  BY KeptStep
<1> QED
  BY <1>1, Invariance, PTL DEF BalancesKept, Spec

=============================================================================
