--------------------------- MODULE DecisionDayProofs ---------------------------
(* Proofs about ScreenerRun and DecisionDay for any number of screener     *)
(* runs and of attempts of the pipeline.                                   *)
EXTENDS DecisionDay, SequenceTheorems, FiniteSetTheorems, TLAPS

-----------------------------------------------------------------------------
(* The artifacts of the runs *)

(* What a run may have left, by how far it is. *)
Published(r) ==
    /\ policy[r].past => policy[r].overwrite
    /\ pc[r] \in {"idle", "staging", "screened"} => man[r] = "none"
    /\ pc[r] \in {"promoting", "published"} => man[r] = "SUCCESS"
    /\ pc[r] = "promoting" => policy[r].mode = "DECISION"
    /\ pc[r] # "promoting" => step[r] = 0
    /\ diag[r] \in {"none", "SUCCESS"}

(* A run is in the order of completion once, and since it has screened. *)
InOrder(r) == \E i \in DOMAIN finished : finished[i] = r

Completed ==
    /\ \A r \in Run : pc[r] \in {"idle", "staging"} => ~InOrder(r)
    /\ \A r \in Run :
          pc[r] \in {"screened", "promoting", "published"} \/ man[r] = "SUCCESS"
             => InOrder(r)

Decided(r) == policy[r].mode = "DECISION" /\ man[r] # "none"

(* A promotion that nothing disturbs replaces the files of the pointer one *)
(* by one by those of its run.                                             *)
Promotion ==
    /\ \A f \in File : fixed[f] # NoRun => Decided(fixed[f])
    /\ ~torn /\ (\A r \in Run : ~Promoting(r)) =>
          \A f \in File : fixed[f] = pointer
    /\ ~torn =>
          \A r \in Run : Promoting(r) =>
             /\ \A s \in Run : Promoting(s) => s = r
             /\ \A i \in 1 .. 4 :
                   fixed[Files[i]] = IF i <= step[r] THEN r ELSE pointer

RunInv == RunsTypeOK /\ (\A r \in Run : Published(r)) /\ Completed /\ Promotion

-----------------------------------------------------------------------------
(* The day *)

(* Before the pipeline there is nothing of it, and in it the job is over.  *)
Started ==
    /\ pipe = "idle" =>
          /\ attempt = 0 /\ completed = {} /\ news = NoRun /\ plan = NoRun /\ trade = {}
    /\ pipe # "idle" => pc[job] \in {"idle", "done"}
    /\ pipe = "backoff" => attempt < MaxAttempts

(* The steps are completed in their order, and each only once. *)
InTurn ==
    /\ pipe \in Script => pipe \notin completed /\ Depends(pipe) \subseteq completed
    /\ "gpt" \in completed => "news" \in completed
    /\ "news" \notin completed => news = NoRun
    /\ "gpt" \notin completed => plan = NoRun

(* The plans of the day come from runs that decided. *)
PlanDecided == \A r \in (trade \cup {plan}) \cap Run : Decided(r)

JobStands == env = job /\ man[job] = "SUCCESS" /\ found[job] > 0

(* As long as the candidates are those of the job, no other run has made   *)
(* the plan; the gate has seen to that when the trader runs.               *)
OwnPlan ==
    /\ pipe # "idle" /\ fixed["candidates"] = job => plan \in {job, NoRun}
    /\ pipe = "trader" /\ JobStands => plan \in {job, NoRun}

(* Without a fault only the job is promoted, and a plan is missing for its *)
(* empty list alone.                                                       *)
Faultless ==
    ~fault =>
        /\ \A r \in Run \ {job} : policy[r].mode # "DECISION"
        /\ pipe = "trader" => fixed["candidates"] = job
        /\ fixed["candidates"] = job =>
              /\ "news" \in completed /\ news = NoRun => found[job] = 0
              /\ "gpt" \in completed /\ plan = NoRun => found[job] = 0

DayTypeOK == TypeOK /\ Started /\ InTurn

IInv == /\ RunInv /\ DayTypeOK /\ PlanDecided /\ OwnPlan /\ TradesOwnRun
        /\ Faultless /\ OldPlanOnlyWithoutCandidates

-----------------------------------------------------------------------------
(* Whatever the day does, the artifacts take a step of a run. *)
RunNext ==
    \/ \E r \in Run :
          \/ \E m \in {"DECISION", "REPLAY"}, w \in BOOLEAN : Begin(r, m, w)
          \/ Abandon(r) \/ RunStep(r) \/ Fail(r) \/ Kill(r)
    \/ CloseMarket

LEMMA DayRuns == [Next]_vars => [RunNext]_runvars
<1> SUFFICES ASSUME Next PROVE RunNext \/ UNCHANGED runvars
  BY DEF vars
<1> USE DayAssumption DEF RunNext
<1>1. CASE Manager
  BY <1>1 DEF Manager, StartJob, StartPipeline, GateCloses, Retry, StartStep,
              HealthCheck, CollectNews, AnalyzeGpt, Trade, StepDone
<1>2. CASE Restart
  BY <1>2 DEF Restart
<1>3. CASE Close
  BY <1>3 DEF Close
<1>4. CASE \E r \in Run : StartByHand(r) \/ RunGoesOn(r) \/ RunFails(r)
  BY <1>4 DEF StartByHand, RunGoesOn, RunFails
<1>5. CASE \E s \in Script : StepFails(s)
  BY <1>5 DEF StepFails
<1> QED
  BY <1>1, <1>2, <1>3, <1>4, <1>5 DEF Next

(* The four files, in the order of their promotion. *)
LEMMA FilesFacts ==
    /\ Len(Files) = 4 /\ File = {"meta", "scores", "candidates", "full"}
    /\ \A i \in 1 .. 4 : Files[i] \in File
    /\ \A i, j \in 1 .. 4 : Files[i] = Files[j] => i = j
    /\ \A f \in File : \E i \in 1 .. 4 : f = Files[i]
<1>1. Len(Files) = 4 /\ DOMAIN Files = 1 .. 4
  BY DEF Files
<1>2. File = {Files[i] : i \in 1 .. 4}
  BY <1>1 DEF File, Range
<1>3. /\ Files[1] = "meta" /\ Files[2] = "scores"
      /\ Files[3] = "candidates" /\ Files[4] = "full"
  BY DEF Files
<1>4. \A i \in 1 .. 4 : i = 1 \/ i = 2 \/ i = 3 \/ i = 4
  OBVIOUS
<1>5. File = {"meta", "scores", "candidates", "full"}
  BY <1>2, <1>3, <1>4
<1>6. \A i, j \in 1 .. 4 : Files[i] = Files[j] => i = j
  BY <1>3, <1>4
<1> QED
  BY <1>1, <1>2, <1>5, <1>6

LEMMA NextCompleted ==
  ASSUME RunsTypeOK, NEW r \in Run, Screen(r)
  PROVE  /\ finished' \in Seq(Run)
         /\ \A q \in Run : InOrder(q)' <=> q = r \/ InOrder(q)
         /\ ~InOrder(r) => IsInjective(finished')
<1>1. finished \in Seq(Run) /\ finished' = Append(finished, r)
  BY DEF Screen, RunsTypeOK
<1>2. /\ finished' \in Seq(Run) /\ Len(finished') = Len(finished) + 1
      /\ \A i \in 1 .. Len(finished) : finished'[i] = finished[i]
      /\ finished'[Len(finished) + 1] = r
  BY <1>1, AppendProperties
<1>3. /\ DOMAIN finished' = 1 .. (Len(finished) + 1)
      /\ DOMAIN finished = 1 .. Len(finished) /\ Len(finished) \in Nat
  BY <1>1, <1>2, LenProperties
<1>4. ASSUME NEW q \in Run PROVE InOrder(q)' <=> q = r \/ InOrder(q)
  <2>1. ASSUME InOrder(q)' PROVE q = r \/ InOrder(q)
    <3>1. PICK i \in DOMAIN finished' : finished'[i] = q
      BY <2>1 DEF InOrder
    <3> QED BY <1>2, <1>3, <3>1 DEF InOrder
  <2>2. ASSUME InOrder(q) PROVE InOrder(q)'
    <3>1. PICK i \in DOMAIN finished : finished[i] = q
      BY <2>2 DEF InOrder
    <3>2. i \in DOMAIN finished' /\ finished'[i] = q
      BY <1>2, <1>3, <3>1
    <3> QED BY <3>2 DEF InOrder
  <2>3. InOrder(r)'
    <3>1. Len(finished) + 1 \in DOMAIN finished'
      BY <1>3
    <3> QED BY <1>2, <3>1 DEF InOrder
  <2> QED BY <2>1, <2>2, <2>3
<1>5. ASSUME ~InOrder(r) PROVE IsInjective(finished')
  <2>1. \A i \in 1 .. Len(finished) : finished[i] # r
    BY <1>3, <1>5 DEF InOrder
  <2>2. \A i, j \in 1 .. Len(finished) : finished[i] = finished[j] => i = j
    BY <1>3 DEF IsInjective, RunsTypeOK
  <2>3. ASSUME NEW i \in 1 .. (Len(finished) + 1), NEW j \in 1 .. (Len(finished) + 1),
               finished'[i] = finished'[j]
        PROVE  i = j
    <3>1. CASE i = Len(finished) + 1 \/ j = Len(finished) + 1
      BY <1>2, <1>3, <2>1, <2>3, <3>1
    <3>2. CASE i \in 1 .. Len(finished) /\ j \in 1 .. Len(finished)
      BY <1>2, <2>2, <2>3, <3>2
    <3> QED BY <1>3, <3>1, <3>2
  <2> QED BY <1>3, <2>3 DEF IsInjective
<1> QED BY <1>2, <1>4, <1>5

(* Every step keeps the types; a run completes only once. *)
LEMMA RunTypeStep == RunInv /\ [RunNext]_runvars => RunsTypeOK'
<1> SUFFICES ASSUME RunInv, [RunNext]_runvars PROVE RunsTypeOK'
  OBVIOUS
<1> USE RunAssumption, FilesFacts DEF RunInv, RunsTypeOK, review
<1>1. ASSUME NEW r \in Run, NEW m \in {"DECISION", "REPLAY"}, NEW w \in BOOLEAN,
             Begin(r, m, w)
      PROVE  RunsTypeOK'
  BY <1>1 DEF Begin, ResolvePolicy, ProductionFixedExists
<1>2. ASSUME NEW r \in Run, Abandon(r) PROVE RunsTypeOK'
  BY <1>2 DEF Abandon
<1>3. ASSUME NEW r \in Run, Screen(r) PROVE RunsTypeOK'
  <2>1. ~InOrder(r)
    BY <1>3 DEF Screen, Completed
  <2>2. finished' \in Seq(Run) /\ IsInjective(finished')
    BY <1>3, <2>1, NextCompleted
  <2> QED BY <1>3, <2>2 DEF Screen
<1>4. ASSUME NEW r \in Run, Publish(r) PROVE RunsTypeOK'
  BY <1>4 DEF Publish
<1>5. ASSUME NEW r \in Run, PromoteFile(r) PROVE RunsTypeOK'
  BY <1>5 DEF PromoteFile, Promoting
<1>6. ASSUME NEW r \in Run, PromotePointer(r) PROVE RunsTypeOK'
  BY <1>6 DEF PromotePointer, Promoting
<1>7. ASSUME NEW r \in Run, PublishDiagnostics(r) PROVE RunsTypeOK'
  BY <1>7 DEF PublishDiagnostics, DiagnosticsOf
<1>8. ASSUME NEW r \in Run, EndRun(r) PROVE RunsTypeOK'
  BY <1>8 DEF EndRun
<1>9. ASSUME NEW r \in Run, Fail(r) PROVE RunsTypeOK'
  BY <1>9 DEF Fail
<1>10. ASSUME NEW r \in Run, Kill(r) PROVE RunsTypeOK'
  BY <1>10 DEF Kill
<1>11. CASE CloseMarket
  BY <1>11 DEF CloseMarket
<1>12. CASE UNCHANGED runvars
  BY <1>12 DEF runvars
<1> QED
  BY <1>1, <1>2, <1>3, <1>4, <1>5, <1>6, <1>7, <1>8, <1>9, <1>10, <1>11, <1>12 DEF RunNext, RunStep

(* What a run has published goes with how far it is. *)
LEMMA PublishedStep == RunInv /\ [RunNext]_runvars => (\A q \in Run : Published(q))'
<1> SUFFICES ASSUME RunInv, [RunNext]_runvars PROVE (\A q \in Run : Published(q))'
  OBVIOUS
<1> USE DEF RunInv, RunsTypeOK, Published, review
<1>1. ASSUME NEW r \in Run, NEW m \in {"DECISION", "REPLAY"}, NEW w \in BOOLEAN,
             Begin(r, m, w)
      PROVE  (\A q \in Run : Published(q))'
  BY <1>1 DEF Begin, ResolvePolicy
<1>2. ASSUME NEW r \in Run, Abandon(r) PROVE (\A q \in Run : Published(q))'
  BY <1>2 DEF Abandon
<1>3. ASSUME NEW r \in Run, Screen(r) PROVE (\A q \in Run : Published(q))'
  BY <1>3 DEF Screen
<1>4. ASSUME NEW r \in Run, Publish(r) PROVE (\A q \in Run : Published(q))'
  BY <1>4 DEF Publish
<1>5. ASSUME NEW r \in Run, PromoteFile(r) PROVE (\A q \in Run : Published(q))'
  BY <1>5 DEF PromoteFile, Promoting
<1>6. ASSUME NEW r \in Run, PromotePointer(r) PROVE (\A q \in Run : Published(q))'
  BY <1>6 DEF PromotePointer, Promoting
<1>7. ASSUME NEW r \in Run, PublishDiagnostics(r) PROVE (\A q \in Run : Published(q))'
  BY <1>7 DEF PublishDiagnostics, DiagnosticsOf
<1>8. ASSUME NEW r \in Run, EndRun(r) PROVE (\A q \in Run : Published(q))'
  BY <1>8 DEF EndRun
<1>9. ASSUME NEW r \in Run, Fail(r) PROVE (\A q \in Run : Published(q))'
  BY <1>9 DEF Fail, Active
<1>10. ASSUME NEW r \in Run, Kill(r) PROVE (\A q \in Run : Published(q))'
  BY <1>10 DEF Kill, Active
<1>11. CASE CloseMarket
  BY <1>11 DEF CloseMarket
<1>12. CASE UNCHANGED runvars
  BY <1>12 DEF runvars
<1> QED
  BY <1>1, <1>2, <1>3, <1>4, <1>5, <1>6, <1>7, <1>8, <1>9, <1>10, <1>11, <1>12 DEF RunNext, RunStep

(* The order of completion has the runs that have screened. *)
LEMMA CompletedStep == RunInv /\ [RunNext]_runvars => Completed'
<1> SUFFICES ASSUME RunInv, [RunNext]_runvars PROVE Completed'
  OBVIOUS
<1> USE DEF RunInv, RunsTypeOK, Published, review, Completed, InOrder
<1>1. ASSUME NEW r \in Run, NEW m \in {"DECISION", "REPLAY"}, NEW w \in BOOLEAN,
             Begin(r, m, w)
      PROVE  Completed'
  BY <1>1 DEF Begin
<1>2. ASSUME NEW r \in Run, Abandon(r) PROVE Completed'
  BY <1>2 DEF Abandon
<1>3. ASSUME NEW r \in Run, Screen(r) PROVE Completed'
  <2>1. \A q \in Run : InOrder(q)' <=> q = r \/ InOrder(q)
    BY <1>3, NextCompleted
  <2> HIDE DEF InOrder
  <2> QED BY <1>3, <2>1 DEF Screen
<1>4. ASSUME NEW r \in Run, Publish(r) PROVE Completed'
  BY <1>4 DEF Publish
<1>5. ASSUME NEW r \in Run, PromoteFile(r) PROVE Completed'
  BY <1>5 DEF PromoteFile, Promoting
<1>6. ASSUME NEW r \in Run, PromotePointer(r) PROVE Completed'
  BY <1>6 DEF PromotePointer, Promoting
<1>7. ASSUME NEW r \in Run, PublishDiagnostics(r) PROVE Completed'
  BY <1>7 DEF PublishDiagnostics, DiagnosticsOf
<1>8. ASSUME NEW r \in Run, EndRun(r) PROVE Completed'
  BY <1>8 DEF EndRun
<1>9. ASSUME NEW r \in Run, Fail(r) PROVE Completed'
  BY <1>9 DEF Fail, Active
<1>10. ASSUME NEW r \in Run, Kill(r) PROVE Completed'
  BY <1>10 DEF Kill, Active
<1>11. CASE CloseMarket
  BY <1>11 DEF CloseMarket
<1>12. CASE UNCHANGED runvars
  BY <1>12 DEF runvars
<1> QED
  BY <1>1, <1>2, <1>3, <1>4, <1>5, <1>6, <1>7, <1>8, <1>9, <1>10, <1>11, <1>12 DEF RunNext, RunStep

(* A copy of a file, by the place of the file in the order of promotion.    *)
LEMMA PromotedFile ==
  ASSUME RunsTypeOK, NEW r \in Run, PromoteFile(r)
  PROVE  /\ step[r] \in 0 .. 3 /\ step' = [step EXCEPT ![r] = step[r] + 1]
         /\ \A f \in File : fixed'[f] \in {r, fixed[f]}
         /\ \A i \in 1 .. 4 :
               fixed'[Files[i]] = IF i = step[r] + 1 THEN r ELSE fixed[Files[i]]
<1>1. step[r] \in 0 .. 3
  <2>1. step \in [Run -> 0 .. 4]
    BY FilesFacts DEF RunsTypeOK
  <2>2. step[r] < 4
    BY FilesFacts DEF PromoteFile
  <2> QED BY <2>1, <2>2
<1> DEFINE k == step[r] + 1
<1>2. k \in 1 .. 4
  BY <1>1
<1>3. fixed' = [fixed EXCEPT ![Files[k]] = r] /\ step' = [step EXCEPT ![r] = k]
  BY DEF PromoteFile
<1> HIDE DEF k
<1>4. fixed \in [File -> Run \cup {NoRun}]
  BY DEF RunsTypeOK
<1>5. \A f \in File : fixed'[f] = IF f = Files[k] THEN r ELSE fixed[f]
  BY <1>3, <1>4
<1>6. \A i \in 1 .. 4 : fixed'[Files[i]] = IF i = k THEN r ELSE fixed[Files[i]]
  BY <1>2, <1>5, FilesFacts
<1>7. \A f \in File : fixed'[f] \in {r, fixed[f]}
  BY <1>5
<1> QED BY <1>1, <1>3, <1>6, <1>7 DEF k

(* Only a run that published and decided writes to the fixed files.         *)
LEMMA PromotionStep == RunInv /\ [RunNext]_runvars => Promotion'
<1> SUFFICES ASSUME RunInv, [RunNext]_runvars PROVE Promotion'
  OBVIOUS
<1> USE RunAssumption, FilesFacts
    DEF RunInv, RunsTypeOK, Published, Promotion, Promoting, Decided, review
<1>1. ASSUME NEW r \in Run, NEW m \in {"DECISION", "REPLAY"}, NEW w \in BOOLEAN,
             Begin(r, m, w)
      PROVE  Promotion'
  BY <1>1 DEF Begin
<1>2. ASSUME NEW r \in Run, Abandon(r) PROVE Promotion'
  BY <1>2 DEF Abandon
<1>3. ASSUME NEW r \in Run, Screen(r) PROVE Promotion'
  BY <1>3 DEF Screen
<1>4. ASSUME NEW r \in Run, Publish(r) PROVE Promotion'
  BY <1>4 DEF Publish
<1>5. ASSUME NEW r \in Run, PromoteFile(r) PROVE Promotion'
  <2>1. UNCHANGED <<pc, policy, man, pointer, torn>> /\ Promoting(r)
    BY <1>5 DEF PromoteFile
  <2>2. Decided(r)
    BY <2>1
  <2>3. \A f \in File : fixed'[f] # NoRun => Decided(fixed'[f])
    BY <1>5, <2>2, PromotedFile
  <2>4. ASSUME ~torn, NEW q \in Run, Promoting(q)
        PROVE  /\ \A s \in Run : Promoting(s) => s = q
               /\ \A i \in 1 .. 4 :
                     fixed'[Files[i]] = IF i <= step'[q] THEN q ELSE pointer
    <3>1. q = r /\ \A s \in Run : Promoting(s) => s = q
      BY <2>1, <2>4
    <3>2. step[r] \in 0 .. 3 /\ step'[r] = step[r] + 1
      BY <1>5, PromotedFile
    <3>3. ASSUME NEW i \in 1 .. 4
          PROVE  fixed'[Files[i]] = IF i <= step[r] + 1 THEN r ELSE pointer
      <4>1. fixed[Files[i]] = IF i <= step[r] THEN r ELSE pointer
        BY <2>1, <2>4
      <4>2. fixed'[Files[i]] = IF i = step[r] + 1 THEN r ELSE fixed[Files[i]]
        BY <1>5, PromotedFile
      <4>3. i <= step[r] + 1 <=> i = step[r] + 1 \/ i <= step[r]
        BY <3>2
      <4> QED BY <4>1, <4>2, <4>3
    <3> QED BY <3>1, <3>2, <3>3
  <2> QED BY <2>1, <2>3, <2>4
<1>6. ASSUME NEW r \in Run, PromotePointer(r) PROVE Promotion'
  BY <1>6 DEF PromotePointer
<1>7. ASSUME NEW r \in Run, PublishDiagnostics(r) PROVE Promotion'
  BY <1>7 DEF PublishDiagnostics
<1>8. ASSUME NEW r \in Run, EndRun(r) PROVE Promotion'
  BY <1>8 DEF EndRun
<1>9. ASSUME NEW r \in Run, Fail(r) PROVE Promotion'
  <2>1. /\ pc' = [pc EXCEPT ![r] = "done"] /\ torn' = (torn \/ Promoting(r))
        /\ fixed' = fixed /\ pointer' = pointer /\ policy' = policy
        /\ \A q \in Run \ {r} : step'[q] = step[q] /\ man'[q] = man[q]
        /\ man[r] # "none" => man'[r] # "none"
    BY <1>9 DEF Fail
  <2>2. ~torn' => ~torn /\ ~Promoting(r)
    BY <1>9 DEF Fail
  <2>3. \A f \in File : fixed[f] # NoRun => Decided(fixed[f])'
    BY <2>1
  <2>4. ~torn' => ~torn /\ \A q \in Run : Promoting(q)' <=> Promoting(q)
    BY <2>2, <2>1
  <2>5. ~torn' /\ (\A q \in Run : ~Promoting(q)') => \A f \in File : fixed[f] = pointer
    BY <2>4
  <2>6. ASSUME ~torn', NEW q \in Run, Promoting(q)'
        PROVE  /\ \A s \in Run : Promoting(s)' => s = q
               /\ \A i \in 1 .. 4 :
                     fixed[Files[i]] = IF i <= step'[q] THEN q ELSE pointer
    <3>1. q # r /\ ~torn /\ Promoting(q)
      BY <2>1, <2>4, <2>6
    <3> QED BY <2>1, <2>4, <3>1
  <2> QED BY <2>1, <2>3, <2>5, <2>6
<1>10. ASSUME NEW r \in Run, Kill(r) PROVE Promotion'
  <2>1. /\ pc' = [pc EXCEPT ![r] = "done"] /\ torn' = (torn \/ Promoting(r))
        /\ fixed' = fixed /\ pointer' = pointer /\ policy' = policy
        /\ \A q \in Run \ {r} : step'[q] = step[q] /\ man'[q] = man[q]
        /\ man[r] # "none" => man'[r] # "none"
    BY <1>10 DEF Kill
  <2>2. ~torn' => ~torn /\ ~Promoting(r)
    BY <1>10 DEF Kill
  <2>3. \A f \in File : fixed[f] # NoRun => Decided(fixed[f])'
    BY <2>1
  <2>4. ~torn' => ~torn /\ \A q \in Run : Promoting(q)' <=> Promoting(q)
    BY <2>2, <2>1
  <2>5. ~torn' /\ (\A q \in Run : ~Promoting(q)') => \A f \in File : fixed[f] = pointer
    BY <2>4
  <2>6. ASSUME ~torn', NEW q \in Run, Promoting(q)'
        PROVE  /\ \A s \in Run : Promoting(s)' => s = q
               /\ \A i \in 1 .. 4 :
                     fixed[Files[i]] = IF i <= step'[q] THEN q ELSE pointer
    <3>1. q # r /\ ~torn /\ Promoting(q)
      BY <2>1, <2>4, <2>6
    <3> QED BY <2>1, <2>4, <3>1
  <2> QED BY <2>1, <2>3, <2>5, <2>6
<1>11. CASE CloseMarket
  BY <1>11 DEF CloseMarket
<1>12. CASE UNCHANGED runvars
  BY <1>12 DEF runvars
<1> QED
  BY <1>1, <1>2, <1>3, <1>4, <1>5, <1>6, <1>7, <1>8, <1>9, <1>10, <1>11, <1>12 DEF RunNext, RunStep

LEMMA RunInvStep == RunInv /\ [Next]_vars => RunInv'
  BY DayRuns, RunTypeStep, PublishedStep, CompletedStep, PromotionStep DEF RunInv

(* A decision is never taken back. *)
LEMMA StaysDecided ==
  ASSUME RunInv, [RunNext]_runvars, NEW q \in Run, Decided(q) PROVE Decided(q)'
<1> USE DEF RunInv, RunsTypeOK, Published, Decided
<1>1. ASSUME NEW r \in Run, NEW m \in {"DECISION", "REPLAY"}, NEW w \in BOOLEAN,
             Begin(r, m, w)
      PROVE  Decided(q)'
  BY <1>1 DEF Begin
<1>2. ASSUME NEW r \in Run, Abandon(r) PROVE Decided(q)'
  BY <1>2 DEF Abandon
<1>3. ASSUME NEW r \in Run, Screen(r) PROVE Decided(q)'
  BY <1>3 DEF Screen
<1>4. ASSUME NEW r \in Run, Publish(r) PROVE Decided(q)'
  BY <1>4 DEF Publish
<1>5. ASSUME NEW r \in Run, PromoteFile(r) PROVE Decided(q)'
  BY <1>5 DEF PromoteFile, Promoting
<1>6. ASSUME NEW r \in Run, PromotePointer(r) PROVE Decided(q)'
  BY <1>6 DEF PromotePointer, Promoting
<1>7. ASSUME NEW r \in Run, PublishDiagnostics(r) PROVE Decided(q)'
  BY <1>7 DEF PublishDiagnostics, DiagnosticsOf
<1>8. ASSUME NEW r \in Run, EndRun(r) PROVE Decided(q)'
  BY <1>8 DEF EndRun
<1>9. ASSUME NEW r \in Run, Fail(r) PROVE Decided(q)'
  BY <1>9 DEF Fail, Active
<1>10. ASSUME NEW r \in Run, Kill(r) PROVE Decided(q)'
  BY <1>10 DEF Kill, Active
<1>11. CASE CloseMarket
  BY <1>11 DEF CloseMarket
<1>12. CASE UNCHANGED runvars
  BY <1>12 DEF runvars
<1> QED
  BY <1>1, <1>2, <1>3, <1>4, <1>5, <1>6, <1>7, <1>8, <1>9, <1>10, <1>11, <1>12 DEF RunNext, RunStep

(* While the job rests, others can only put their own decisions in place   *)
(* of its files.                                                           *)
JobRests == pc[job] \in {"idle", "done"}

LEMMA RestingJob ==
  ASSUME RunInv, [RunNext]_runvars, JobRests, JobRests'
  PROVE  /\ man'[job] = man[job] /\ found'[job] = found[job]
         /\ \/ fixed'["candidates"] = fixed["candidates"]
            \/ \E s \in Run \ {job} :
                  fixed'["candidates"] = s /\ policy[s].mode = "DECISION"
<1> DEFINE G == /\ man'[job] = man[job] /\ found'[job] = found[job]
                /\ \/ fixed'["candidates"] = fixed["candidates"]
                   \/ \E s \in Run \ {job} :
                         fixed'["candidates"] = s /\ policy[s].mode = "DECISION"
<1> SUFFICES G
  OBVIOUS
<1> USE DayAssumption, FilesFacts DEF RunInv, RunsTypeOK, Published, JobRests
<1>1. ASSUME NEW r \in Run, NEW m \in {"DECISION", "REPLAY"}, NEW w \in BOOLEAN,
             Begin(r, m, w)
      PROVE  G
  BY <1>1 DEF Begin
<1>2. ASSUME NEW r \in Run, Abandon(r) PROVE G
  BY <1>2 DEF Abandon
<1>3. ASSUME NEW r \in Run, Screen(r) PROVE G
  BY <1>3 DEF Screen
<1>4. ASSUME NEW r \in Run, Publish(r) PROVE G
  BY <1>4 DEF Publish
<1>5. ASSUME NEW r \in Run, PromoteFile(r) PROVE G
  BY <1>5 DEF PromoteFile, Promoting
<1>6. ASSUME NEW r \in Run, PromotePointer(r) PROVE G
  BY <1>6 DEF PromotePointer, Promoting
<1>7. ASSUME NEW r \in Run, PublishDiagnostics(r) PROVE G
  BY <1>7 DEF PublishDiagnostics, DiagnosticsOf
<1>8. ASSUME NEW r \in Run, EndRun(r) PROVE G
  BY <1>8 DEF EndRun
<1>9. ASSUME NEW r \in Run, Fail(r) PROVE G
  BY <1>9 DEF Fail, Active
<1>10. ASSUME NEW r \in Run, Kill(r) PROVE G
  BY <1>10 DEF Kill, Active
<1>11. CASE CloseMarket
  BY <1>11 DEF CloseMarket
<1>12. CASE UNCHANGED runvars
  BY <1>12 DEF runvars
<1> QED
  BY <1>1, <1>2, <1>3, <1>4, <1>5, <1>6, <1>7, <1>8, <1>9, <1>10, <1>11, <1>12 DEF RunNext, RunStep

(* The four steps of the pipeline, each after the one before. *)
LEMMA ScriptFacts ==
    /\ Script = {"health", "news", "gpt", "trader"}
    /\ Depends("trader") = {"gpt"} /\ Depends("gpt") = {"news"}
<1>1. /\ Scripts[1] = "health" /\ Scripts[2] = "news"
      /\ Scripts[3] = "gpt" /\ Scripts[4] = "trader" /\ DOMAIN Scripts = 1 .. 4
  BY DEF Scripts
<1>2. \A i \in 1 .. 4 : i = 1 \/ i = 2 \/ i = 3 \/ i = 4
  OBVIOUS
<1>3. Script = {Scripts[i] : i \in 1 .. 4}
  BY <1>1 DEF Script, Range
<1>4. Script = {"health", "news", "gpt", "trader"}
  BY <1>1, <1>2, <1>3
<1>5. {j \in 1 .. 3 : Scripts[j + 1] = "trader"} = {3}
  <2>1. \A j \in 1 .. 3 : j = 1 \/ j = 2 \/ j = 3
    OBVIOUS
  <2>2. 1 + 1 = 2 /\ 2 + 1 = 3 /\ 3 + 1 = 4
    OBVIOUS
  <2> QED BY <1>1, <2>1, <2>2
<1>6. {j \in 1 .. 3 : Scripts[j + 1] = "gpt"} = {2}
  <2>1. \A j \in 1 .. 3 : j = 1 \/ j = 2 \/ j = 3
    OBVIOUS
  <2>2. 1 + 1 = 2 /\ 2 + 1 = 3 /\ 3 + 1 = 4
    OBVIOUS
  <2> QED BY <1>1, <2>1, <2>2
<1> QED
  BY <1>1, <1>4, <1>5, <1>6 DEF Depends

(* The variables of the day keep their types. *)
LEMMA DayVarsStep ==
  ASSUME DayTypeOK, RunsTypeOK', [Next]_vars PROVE TypeOK'
<1> USE DayAssumption, RunAssumption, ScriptFacts DEF DayTypeOK, TypeOK, pipevars, files, dayvars, runvars, review
<1> USE DEF Started
<1>1. CASE StartJob
  BY <1>1 DEF StartJob
<1>2. CASE StartPipeline
  BY <1>2 DEF StartPipeline
<1>3. CASE GateCloses
  BY <1>3 DEF GateCloses, AttemptFails, Ready
<1>4. CASE Retry
  BY <1>4 DEF Retry
<1>5. ASSUME NEW s \in Script, StartStep(s) PROVE TypeOK'
  BY <1>5 DEF StartStep, Ready
<1>6. CASE HealthCheck
  BY <1>6 DEF HealthCheck, StepDone
<1>7. CASE CollectNews
  <2>1. \A f \in NewsInputs : fixed[f] \in Run \cup {NoRun}
    BY FilesFacts DEF RunsTypeOK, NewsInputs
  <2> QED BY <1>7, <2>1 DEF CollectNews, StepDone
<1>8. CASE AnalyzeGpt
  <2>1. fixed["candidates"] \in Run \cup {NoRun}
    BY FilesFacts DEF RunsTypeOK
  <2> QED BY <1>8, <2>1 DEF AnalyzeGpt, StepDone
<1>9. CASE Trade
  BY <1>9 DEF Trade, StepDone, Buys, LatestPlan
<1>10. CASE Restart
  BY <1>10 DEF Restart, Buys, LatestPlan
<1>11. CASE Close
  BY <1>11 DEF Close
<1>12. ASSUME NEW r \in Run, StartByHand(r) PROVE TypeOK'
  BY <1>12 DEF StartByHand
<1>13. ASSUME NEW r \in Run, RunGoesOn(r) PROVE TypeOK'
  BY <1>13 DEF RunGoesOn
<1>14. ASSUME NEW r \in Run, RunFails(r) PROVE TypeOK'
  BY <1>14 DEF RunFails
<1>15. ASSUME NEW s \in Script, StepFails(s) PROVE TypeOK'
  BY <1>15 DEF StepFails, AttemptFails, Buys, LatestPlan
<1>16. CASE UNCHANGED vars
  BY <1>16 DEF vars, runvars, dayvars
<1> QED
  BY <1>1, <1>2, <1>3, <1>4, <1>5, <1>6, <1>7, <1>8, <1>9, <1>10, <1>11, <1>12, <1>13, <1>14, <1>15, <1>16 DEF Next, Manager

(* In the pipeline the job is over, as nothing starts it again. *)
LEMMA StartedStep ==
  ASSUME DayTypeOK, RunInv, [Next]_vars PROVE Started'
<1> USE DayAssumption, RunAssumption, ScriptFacts DEF DayTypeOK, TypeOK, pipevars, files, dayvars, runvars, review
<1> USE DEF Started, RunsTypeOK
<1>1. CASE StartJob
  BY <1>1 DEF StartJob, Begin
<1>2. CASE StartPipeline
  BY <1>2 DEF StartPipeline, Active
<1>3. CASE GateCloses
  BY <1>3 DEF GateCloses, AttemptFails, Ready
<1>4. CASE Retry
  BY <1>4 DEF Retry
<1>5. ASSUME NEW s \in Script, StartStep(s) PROVE Started'
  BY <1>5 DEF StartStep, Ready
<1>6. CASE HealthCheck
  BY <1>6 DEF HealthCheck, StepDone
<1>7. CASE CollectNews
  BY <1>7 DEF CollectNews, StepDone
<1>8. CASE AnalyzeGpt
  BY <1>8 DEF AnalyzeGpt, StepDone
<1>9. CASE Trade
  BY <1>9 DEF Trade, StepDone, Buys, LatestPlan
<1>10. CASE Restart
  BY <1>10 DEF Restart, Kill, Active, Buys, LatestPlan
<1>11. CASE Close
  BY <1>11 DEF Close, CloseMarket
<1>12. ASSUME NEW r \in Run, StartByHand(r) PROVE Started'
  BY <1>12 DEF StartByHand, Begin
<1>13. ASSUME NEW r \in Run, RunGoesOn(r) PROVE Started'
  BY <1>13 DEF RunGoesOn, RunStep, Screen, Publish, PromoteFile, Promoting, PromotePointer, PublishDiagnostics, EndRun
<1>14. ASSUME NEW r \in Run, RunFails(r) PROVE Started'
  BY <1>14 DEF RunFails, Abandon, Fail, Kill, Active
<1>15. ASSUME NEW s \in Script, StepFails(s) PROVE Started'
  BY <1>15 DEF StepFails, AttemptFails, Buys, LatestPlan
<1>16. CASE UNCHANGED vars
  BY <1>16 DEF vars, runvars, dayvars
<1> QED
  BY <1>1, <1>2, <1>3, <1>4, <1>5, <1>6, <1>7, <1>8, <1>9, <1>10, <1>11, <1>12, <1>13, <1>14, <1>15, <1>16 DEF Next, Manager

(* The steps are completed one after the other. *)
LEMMA InTurnStep ==
  ASSUME DayTypeOK, [Next]_vars PROVE InTurn'
<1> USE DayAssumption, RunAssumption, ScriptFacts DEF DayTypeOK, TypeOK, pipevars, files, dayvars, runvars, review
<1> USE DEF InTurn, Started
<1>1. CASE StartJob
  BY <1>1 DEF StartJob
<1>2. CASE StartPipeline
  BY <1>2 DEF StartPipeline
<1>3. CASE GateCloses
  BY <1>3 DEF GateCloses, AttemptFails, Ready
<1>4. CASE Retry
  BY <1>4 DEF Retry
<1>5. ASSUME NEW s \in Script, StartStep(s) PROVE InTurn'
  BY <1>5 DEF StartStep, Ready
<1>6. CASE HealthCheck
  BY <1>6 DEF HealthCheck, StepDone
<1>7. CASE CollectNews
  BY <1>7 DEF CollectNews, StepDone
<1>8. CASE AnalyzeGpt
  BY <1>8 DEF AnalyzeGpt, StepDone
<1>9. CASE Trade
  BY <1>9 DEF Trade, StepDone, Buys, LatestPlan
<1>10. CASE Restart
  BY <1>10 DEF Restart, Buys, LatestPlan
<1>11. CASE Close
  BY <1>11 DEF Close
<1>12. ASSUME NEW r \in Run, StartByHand(r) PROVE InTurn'
  BY <1>12 DEF StartByHand
<1>13. ASSUME NEW r \in Run, RunGoesOn(r) PROVE InTurn'
  BY <1>13 DEF RunGoesOn
<1>14. ASSUME NEW r \in Run, RunFails(r) PROVE InTurn'
  BY <1>14 DEF RunFails
<1>15. ASSUME NEW s \in Script, StepFails(s) PROVE InTurn'
  BY <1>15 DEF StepFails, AttemptFails, Buys, LatestPlan
<1>16. CASE UNCHANGED vars
  BY <1>16 DEF vars, runvars, dayvars
<1> QED
  BY <1>1, <1>2, <1>3, <1>4, <1>5, <1>6, <1>7, <1>8, <1>9, <1>10, <1>11, <1>12, <1>13, <1>14, <1>15, <1>16 DEF Next, Manager

(* How a step of the day moves the news, the plan, the purchases and the   *)
(* pipeline.                                                               *)
DayMoves ==
    /\ plan' = plan \/ (pipe = "gpt" /\ plan' = fixed["candidates"] /\ plan' # NoRun)
    /\ trade' = trade \/ (pipe = "trader" /\ trade' = trade \cup Buys)
    /\ news' = news \/ pipe = "news"
    /\ completed' = completed \/ pipe = "idle" \/ completed' = completed \cup {pipe}
    /\ "news" \in completed' \ completed =>
          \E f \in NewsInputs :
             fixed[f] = NoRun \/ found[fixed[f]] = 0 \/ news' # NoRun
    /\ "gpt" \in completed' \ completed =>
          fixed["candidates"] = NoRun \/ news = NoRun \/ plan' # NoRun
    /\ "gpt" \in completed' \ completed => pipe = "gpt"
    /\ pipe = "idle" => completed' = {} /\ pipe' # "trader"
    /\ pipe # "idle" => pipe' # "idle" /\ env' \in {env, NoRun}
    /\ pipe' = "trader" /\ pipe # "trader" =>
          /\ StepValid(env) /\ "gpt" \in completed
          /\ UNCHANGED <<runvars, env, plan>>
    /\ fault => fault'

LEMMA DayMove ==
  ASSUME DayTypeOK, RunsTypeOK, [Next]_vars PROVE DayMoves
<1> USE DayAssumption, RunAssumption, ScriptFacts DEF DayTypeOK, TypeOK, pipevars, files, dayvars, runvars, review
<1> USE DEF Started, DayMoves
<1>1. CASE StartJob
  BY <1>1 DEF StartJob
<1>2. CASE StartPipeline
  BY <1>2 DEF StartPipeline
<1>3. CASE GateCloses
  BY <1>3 DEF GateCloses, AttemptFails, Ready
<1>4. CASE Retry
  BY <1>4 DEF Retry
<1>5. ASSUME NEW s \in Script, StartStep(s) PROVE DayMoves
  BY <1>5 DEF StartStep, Ready
<1>6. CASE HealthCheck
  BY <1>6 DEF HealthCheck, StepDone
<1>7. CASE CollectNews
  <2>1. \A f \in NewsInputs : fixed[f] \in Run \cup {NoRun}
    BY FilesFacts DEF RunsTypeOK, NewsInputs
  <2>2. \A r \in Run : found[r] > 0 \/ found[r] = 0
    BY DEF RunsTypeOK
  <2>3. PICK f \in NewsInputs :
           news' = IF fixed[f] # NoRun /\ found[fixed[f]] > 0 THEN fixed[f] ELSE news
    BY <1>7 DEF CollectNews
  <2>4. fixed[f] = NoRun \/ found[fixed[f]] = 0 \/ news' # NoRun
    BY <2>1, <2>2, <2>3
  <2> QED BY <1>7, <2>4 DEF CollectNews, StepDone
<1>8. CASE AnalyzeGpt
  <2>1. fixed["candidates"] \in Run \cup {NoRun}
    BY FilesFacts DEF RunsTypeOK
  <2> QED BY <1>8, <2>1 DEF AnalyzeGpt, StepDone
<1>9. CASE Trade
  BY <1>9 DEF Trade, StepDone
<1>10. CASE Restart
  BY <1>10 DEF Restart
<1>11. CASE Close
  BY <1>11 DEF Close
<1>12. ASSUME NEW r \in Run, StartByHand(r) PROVE DayMoves
  BY <1>12 DEF StartByHand
<1>13. ASSUME NEW r \in Run, RunGoesOn(r) PROVE DayMoves
  BY <1>13 DEF RunGoesOn
<1>14. ASSUME NEW r \in Run, RunFails(r) PROVE DayMoves
  BY <1>14 DEF RunFails
<1>15. ASSUME NEW s \in Script, StepFails(s) PROVE DayMoves
  BY <1>15 DEF StepFails, AttemptFails
<1>16. CASE UNCHANGED vars
  BY <1>16 DEF vars, runvars, dayvars
<1> QED
  BY <1>1, <1>2, <1>3, <1>4, <1>5, <1>6, <1>7, <1>8, <1>9, <1>10, <1>11, <1>12, <1>13, <1>14, <1>15, <1>16 DEF Next, Manager

LEMMA PlanDecidedStep ==
  ASSUME RunInv, DayTypeOK, PlanDecided, [Next]_vars PROVE PlanDecided'
<1>1. ASSUME NEW r \in Run, Decided(r) PROVE Decided(r)'
  BY <1>1, DayRuns, StaysDecided
<1>2. ASSUME NEW r \in Run, r = fixed["candidates"] PROVE Decided(r)
  BY <1>2, RunAssumption, FilesFacts DEF RunInv, Promotion
<1>3. DayMoves
  BY DayMove DEF RunInv
<1>4. Buys \subseteq {plan, Old}
  BY DEF Buys, LatestPlan
<1>5. ASSUME NEW r \in Run, r \in trade' \cup {plan'} PROVE Decided(r)
  <2>1. r \in trade \cup {plan} \/ r = fixed["candidates"]
    BY <1>3, <1>4, <1>5, DayAssumption DEF DayMoves
  <2> QED BY <1>2, <2>1 DEF PlanDecided
<1> QED BY <1>1, <1>5 DEF PlanDecided

LEMMA OwnPlanStep ==
  ASSUME RunInv, DayTypeOK, Started', OwnPlan, TradesOwnRun, [Next]_vars
  PROVE  OwnPlan' /\ TradesOwnRun'
<1> USE DayAssumption, RunAssumption
<1>1. DayMoves
  BY DayMove DEF RunInv
<1>2. CASE pipe = "idle"
  <2>1. plan' = NoRun /\ trade' = {} /\ pipe' # "trader"
    BY <1>1, <1>2 DEF DayMoves, DayTypeOK, Started
  <2> QED BY <2>1 DEF OwnPlan, TradesOwnRun
<1>3. CASE pipe # "idle"
  <2>1. /\ man'[job] = man[job] /\ found'[job] = found[job]
        /\ fixed'["candidates"] = job => fixed["candidates"] = job
    <3>1. JobRests /\ JobRests'
      BY <1>1, <1>3 DEF DayMoves, DayTypeOK, Started, JobRests
    <3> QED BY <3>1, DayRuns, RestingJob
  <2>2. JobStands' => JobStands
    BY <1>1, <1>3, <2>1 DEF DayMoves, JobStands
  <2>3. fixed'["candidates"] = job => plan' \in {job, NoRun}
    BY <1>1, <1>3, <2>1 DEF DayMoves, OwnPlan
  <2>4. ASSUME pipe' = "trader", JobStands' PROVE plan' \in {job, NoRun}
    <3>1. CASE pipe = "trader"
      BY <1>1, <2>2, <2>4, <3>1 DEF DayMoves, OwnPlan
    <3>2. CASE pipe # "trader"
      <4>1. StepValid(job) /\ man[job] = "SUCCESS" /\ found[job] > 0 /\ plan' = plan
        BY <1>1, <2>2, <2>4, <3>2 DEF DayMoves, JobStands
      <4>2. fixed["meta"] = job /\ Digest(fixed["candidates"]) = Digest(job)
        BY <4>1 DEF StepValid, DecisionValid
      <4>3. fixed["candidates"] = job
        BY <4>1, <4>2 DEF Digest
      <4> QED BY <1>3, <4>1, <4>3 DEF OwnPlan
    <3> QED BY <3>1, <3>2
  <2>5. ASSUME JobStands' PROVE trade' \cap Run \subseteq {job}
    <3>1. trade \cap Run \subseteq {job}
      BY <2>2, <2>5 DEF TradesOwnRun, JobStands
    <3>2. pipe = "trader" => Buys \subseteq {job, NoRun, Old}
      BY <2>2, <2>5 DEF OwnPlan, Buys, LatestPlan
    <3> QED BY <1>1, <3>1, <3>2 DEF DayMoves
  <2> QED BY <2>3, <2>4, <2>5 DEF OwnPlan, TradesOwnRun, JobStands
<1> QED BY <1>2, <1>3

(* Without a fault no one but the job has decided. *)
LEMMA OneDecider ==
  ASSUME RunInv, ~fault', \A r \in Run \ {job} : policy[r].mode # "DECISION", [Next]_vars PROVE \A q \in Run \ {job} : policy'[q].mode # "DECISION"
<1> USE DayAssumption DEF RunInv, RunsTypeOK, review, runvars, dayvars
<1>1. CASE StartJob
  BY <1>1 DEF StartJob, Begin, ResolvePolicy
<1>2. CASE StartPipeline
  BY <1>2 DEF StartPipeline, Active
<1>3. CASE GateCloses
  BY <1>3 DEF GateCloses
<1>4. CASE Retry
  BY <1>4 DEF Retry
<1>5. ASSUME NEW s \in Script, StartStep(s) PROVE \A q \in Run \ {job} : policy'[q].mode # "DECISION"
  BY <1>5 DEF StartStep
<1>6. CASE HealthCheck
  BY <1>6 DEF HealthCheck, StepDone
<1>7. CASE CollectNews
  BY <1>7 DEF CollectNews, StepDone
<1>8. CASE AnalyzeGpt
  BY <1>8 DEF AnalyzeGpt, StepDone
<1>9. CASE Trade
  BY <1>9 DEF Trade, StepDone
<1>10. CASE Restart
  BY <1>10 DEF Restart, Kill, Active
<1>11. CASE Close
  BY <1>11 DEF Close, CloseMarket
<1>12. ASSUME NEW r \in Run, StartByHand(r) PROVE \A q \in Run \ {job} : policy'[q].mode # "DECISION"
  <2>1. PICK mode \in {"DECISION", "REPLAY"}, w \in BOOLEAN :
          Begin(r, mode, w) /\ fault' = (fault \/ mode = "DECISION")
    BY <1>12 DEF StartByHand
  <2>2. mode = "REPLAY"
    BY <2>1
  <2>3. policy' = [policy EXCEPT ![r] = ResolvePolicy("REPLAY", w)]
    BY <2>1, <2>2 DEF Begin
  <2>4. ResolvePolicy("REPLAY", w).mode = "REPLAY"
    BY DEF ResolvePolicy
  <2> HIDE DEF ResolvePolicy
  <2> QED BY <2>3, <2>4
<1>13. ASSUME NEW r \in Run, RunGoesOn(r) PROVE \A q \in Run \ {job} : policy'[q].mode # "DECISION"
  BY <1>13 DEF RunGoesOn, RunStep, Screen, Publish, PromoteFile, Promoting, PromotePointer, PublishDiagnostics, EndRun
<1>14. ASSUME NEW r \in Run, RunFails(r) PROVE \A q \in Run \ {job} : policy'[q].mode # "DECISION"
  BY <1>14 DEF RunFails, Abandon, Fail, Kill, Active
<1>15. ASSUME NEW s \in Script, StepFails(s) PROVE \A q \in Run \ {job} : policy'[q].mode # "DECISION"
  BY <1>15 DEF StepFails
<1>16. CASE UNCHANGED vars
  BY <1>16 DEF vars, runvars, dayvars
<1> QED
  BY <1>1, <1>2, <1>3, <1>4, <1>5, <1>6, <1>7, <1>8, <1>9, <1>10, <1>11, <1>12, <1>13, <1>14, <1>15, <1>16 DEF Next, Manager

LEMMA FaultlessStep ==
  ASSUME RunInv, DayTypeOK, Started', Faultless, OldPlanOnlyWithoutCandidates,
         [Next]_vars
  PROVE  Faultless' /\ OldPlanOnlyWithoutCandidates'
<1> USE DayAssumption, RunAssumption
<1> SUFFICES ASSUME ~fault' PROVE Faultless' /\ OldPlanOnlyWithoutCandidates'
  BY DEF Faultless, OldPlanOnlyWithoutCandidates
<1>1. DayMoves
  BY DayMove DEF RunInv
<1>2. ~fault /\ \A r \in Run \ {job} : policy[r].mode # "DECISION"
  BY <1>1 DEF DayMoves, Faultless
<1>3. \A r \in Run \ {job} : policy'[r].mode # "DECISION"
  BY <1>2, OneDecider
<1>4. CASE pipe = "idle"
  <2>1. completed' = {} /\ trade' = {} /\ pipe' # "trader"
    BY <1>1, <1>4 DEF DayMoves, DayTypeOK, Started
  <2> QED BY <1>3, <2>1 DEF Faultless, OldPlanOnlyWithoutCandidates
<1>5. CASE pipe # "idle"
  <2>1. /\ found'[job] = found[job] /\ fixed'["candidates"] = fixed["candidates"]
    <3>1. JobRests /\ JobRests'
      BY <1>1, <1>5 DEF DayMoves, DayTypeOK, Started, JobRests
    <3> QED BY <1>2, <3>1, DayRuns, RestingJob
  <2>2. ASSUME pipe' = "trader" PROVE fixed'["candidates"] = job
    <3>1. CASE pipe = "trader"
      BY <1>2, <2>1, <3>1 DEF Faultless
    <3>2. CASE pipe # "trader"
      <4>1. fixed["candidates"] # NoRun
        BY <1>1, <2>2, <3>2 DEF DayMoves, StepValid, DecisionValid
      <4>2. fixed["candidates"] \in Run /\ policy[fixed["candidates"]].mode = "DECISION"
        BY <4>1, FilesFacts DEF RunInv, RunsTypeOK, Promotion, Decided
      <4> QED BY <1>2, <2>1, <4>2
    <3> QED BY <3>1, <3>2
  <2>3. ASSUME fixed["candidates"] = job, "news" \in completed', news' = NoRun
        PROVE  found[job] = 0
    <3>1. CASE "news" \in completed
      <4>1. news' = news
        BY <1>1, <3>1, ScriptFacts DEF DayMoves, DayTypeOK, InTurn
      <4> QED BY <1>2, <2>3, <3>1, <4>1 DEF Faultless
    <3>2. CASE "news" \notin completed
      <4>1. PICK f \in NewsInputs : fixed[f] = NoRun \/ found[fixed[f]] = 0
        BY <1>1, <2>3, <3>2 DEF DayMoves
      <4>2. fixed[f] \in Run /\ policy[fixed[f]].mode = "DECISION"
        <5>1. fixed[f] # NoRun /\ f \in File
          BY <2>3, FilesFacts DEF NewsInputs
        <5> QED BY <5>1, FilesFacts DEF RunInv, RunsTypeOK, Promotion, Decided
      <4> QED BY <1>2, <4>1, <4>2
    <3> QED BY <3>1, <3>2
  <2>4. ASSUME fixed["candidates"] = job, "gpt" \in completed', plan' = NoRun
        PROVE  found[job] = 0
    <3>1. CASE "gpt" \in completed
      <4>1. plan' = plan
        BY <1>1, <3>1, ScriptFacts DEF DayMoves, DayTypeOK, InTurn
      <4> QED BY <1>2, <2>4, <3>1, <4>1 DEF Faultless
    <3>2. CASE "gpt" \notin completed
      <4>1. news = NoRun /\ pipe = "gpt"
        BY <1>1, <2>4, <3>2 DEF DayMoves
      <4>2. "news" \in completed
        BY <4>1, ScriptFacts DEF DayTypeOK, InTurn
      <4> QED BY <1>2, <2>4, <4>1, <4>2 DEF Faultless
    <3> QED BY <3>1, <3>2
  <2>5. ASSUME Old \in trade' PROVE found[job] = 0
    <3>1. CASE Old \in trade
      BY <1>2, <3>1 DEF OldPlanOnlyWithoutCandidates
    <3>2. CASE Old \notin trade
      <4>1. pipe = "trader" /\ Old \in Buys
        BY <1>1, <2>5, <3>2 DEF DayMoves
      <4>2. plan = NoRun
        BY <4>1 DEF Buys, LatestPlan, DayTypeOK, TypeOK
      <4>3. fixed["candidates"] = job /\ "gpt" \in completed
        BY <1>2, <4>1, ScriptFacts DEF Faultless, DayTypeOK, InTurn
      <4> QED BY <1>2, <4>2, <4>3 DEF Faultless
    <3> QED BY <3>1, <3>2
  <2> QED BY <1>3, <2>1, <2>2, <2>3, <2>4, <2>5 DEF Faultless, OldPlanOnlyWithoutCandidates
<1> QED BY <1>4, <1>5

-----------------------------------------------------------------------------
THEOREM Invariance == Spec => []IInv
<1>1. Init => RunInv
  <2> SUFFICES ASSUME Init PROVE RunInv
    OBVIOUS
  <2>1. DOMAIN finished = {} /\ finished \in Seq(Run)
    BY EmptySeq DEF Init, InitRuns
  <2>2. RunsTypeOK
    <3>1. IsInjective(finished)
      BY <2>1 DEF IsInjective
    <3>2. step \in [Run -> 0 .. Len(Files)] /\ found \in [Run -> 0 .. 1]
      BY FilesFacts DEF Init, InitRuns
    <3>3. policy \in [Run -> [mode : {"none", "DECISION", "REPLAY"}, allow : BOOLEAN,
                              overwrite : BOOLEAN, past : BOOLEAN]]
      BY DEF Init, InitRuns, NoPolicy
    <3>4. /\ late \in BOOLEAN /\ torn \in BOOLEAN
          /\ fixed \in [File -> Run \cup {NoRun}] /\ pointer \in Run \cup {NoRun}
      BY DEF Init, InitRuns
    <3>5. /\ pc \in [Run -> {"idle", "staging", "screened", "promoting",
                             "published", "done"}]
          /\ man \in [Run -> {"none", "SUCCESS", "FAILED"}]
          /\ diag \in [Run -> {"none", "SUCCESS", "FAILED"}]
      BY DEF Init, InitRuns
    <3> QED BY <2>1, <3>1, <3>2, <3>3, <3>4, <3>5 DEF RunsTypeOK
  <2>3. (\A r \in Run : Published(r)) /\ Completed /\ Promotion
    BY <2>1, FilesFacts
       DEF Init, InitRuns, Published, Completed, InOrder, Promotion, Promoting, NoPolicy
  <2> QED BY <2>2, <2>3 DEF RunInv
<1>2. Init => DayTypeOK
  <2> SUFFICES ASSUME Init PROVE DayTypeOK
    OBVIOUS
  <2>1. RunsTypeOK
    BY <1>1 DEF RunInv
  <2>2. TypeOK
    <3>1. ok \in BOOLEAN /\ fault \in BOOLEAN /\ result \in {"none", "SUCCESS", "FAIL"}
      BY DEF Init
    <3>2. attempt \in 0 .. MaxAttempts /\ completed \subseteq Script
      BY DayAssumption DEF Init
    <3>3. /\ env \in {NoRun, job} /\ news \in Run \cup {NoRun}
          /\ plan \in Run \cup {NoRun} /\ trade \subseteq Run \cup {Old}
          /\ pipe \in {"idle", "ready", "backoff", "over"} \cup Script
      BY DEF Init
    <3> QED BY <2>1, <3>1, <3>2, <3>3 DEF TypeOK
  <2>3. Started /\ InTurn
    BY ScriptFacts DEF Init, Started, InTurn
  <2> QED BY <2>2, <2>3 DEF DayTypeOK
<1>3. Init => PlanDecided /\ OwnPlan /\ TradesOwnRun /\ Faultless
              /\ OldPlanOnlyWithoutCandidates
  BY DayAssumption, RunAssumption
     DEF Init, InitRuns, NoPolicy, PlanDecided, OwnPlan, TradesOwnRun, Faultless,
         OldPlanOnlyWithoutCandidates
<1>4. IInv /\ [Next]_vars => IInv'
  <2> SUFFICES ASSUME IInv, [Next]_vars PROVE IInv'
    OBVIOUS
  <2>1. RunInv'
    BY RunInvStep DEF IInv
  <2>2. DayTypeOK'
    BY <2>1, DayVarsStep, StartedStep, InTurnStep DEF IInv, RunInv, DayTypeOK
  <2> QED BY <2>1, <2>2, PlanDecidedStep, OwnPlanStep, FaultlessStep DEF IInv, DayTypeOK
<1> QED
  BY <1>1, <1>2, <1>3, <1>4, PTL DEF IInv, Spec

(* Type correctness; a run completes at most once, and the attempts of the *)
(* pipeline stay within their number.                                      *)
THEOREM TypeCorrect == Spec => []TypeOK
<1>1. IInv => TypeOK
  BY DEF IInv, DayTypeOK
<1> QED
  BY <1>1, Invariance, PTL

(* However many runs publish, fail and are killed at the same time, every  *)
(* fixed file comes from a run that published a decision, and between      *)
(* promotions that nothing disturbed they are all of one run.              *)
THEOREM FixedFilesWhole == Spec => []FixedWhole
<1>1. IInv => FixedWhole
  BY RunAssumption
     DEF IInv, RunInv, RunsTypeOK, Published, Promotion, Decided, FixedWhole
<1> QED
  BY <1>1, Invariance, PTL

(* The trader buys from the plan of the manager's own run, however many    *)
(* runs an operator starts beside it.                                      *)
THEOREM BuysOwnRun == Spec => []TradesOwnRun
<1>1. IInv => TradesOwnRun
  BY DEF IInv
<1> QED
  BY <1>1, Invariance, PTL

(* A plan of an earlier day is traded only when the run of the day found   *)
(* nothing, or something failed.                                           *)
THEOREM OldPlanIsLastResort == Spec => []OldPlanOnlyWithoutCandidates
<1>1. IInv => OldPlanOnlyWithoutCandidates
  BY DEF IInv
<1> QED
  BY <1>1, Invariance, PTL

(* The quality review of the day rates the run that was traded.            *)
THEOREM ReviewRatesTraded == Spec => []ReviewFindsTraded
<1>1. IInv => ReviewFindsTraded
  <2> SUFFICES ASSUME IInv, NEW r \in trade \cap Run, man[r] = "SUCCESS",
                      \A s \in Run \ {r} : ~DecisionArtifact(s)
               PROVE  /\ Discovered = r /\ Trusted(r)
                      /\ HasDiagnostics(r) => DiagnosticsTrusted(r)
    BY DEF ReviewFindsTraded
  <2>1. policy[r].mode = "DECISION"
    BY DEF IInv, PlanDecided, Decided
  <2>2. {q \in Run : Reviewable(q)} = {r}
    BY <2>1 DEF Reviewable, DecisionArtifact
  <2>3. Recency(r) \in Nat
    <3>1. \E i \in DOMAIN finished : finished[i] = r
      BY DEF IInv, RunInv, Completed, InOrder
    <3>2. Recency(r) \in DOMAIN finished
      BY <3>1 DEF Recency
    <3>3. DOMAIN finished \subseteq Nat
      BY LenProperties DEF IInv, RunInv, RunsTypeOK
    <3> QED BY <3>2, <3>3
  <2>4. Discovered = r
    <3>1. Discovered = CHOOSE q \in {r} : \A s \in {r} : Recency(s) <= Recency(q)
      BY <2>2, Zenon DEF Discovered
    <3>2. Recency(r) <= Recency(r)
      BY <2>3
    <3> QED BY <3>1, <3>2, Zenon
  <2>5. diag[r] \in {"none", "SUCCESS"}
    BY DEF IInv, RunInv, Published
  <2> QED BY <2>1, <2>4, <2>5 DEF Trusted, Intact, HasDiagnostics, DiagnosticsTrusted
<1> QED
  BY <1>1, Invariance, PTL

=============================================================================
