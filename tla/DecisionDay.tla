------------------------------ MODULE DecisionDay ------------------------------
(***************************************************************************)
(* A trading day of the manager (integrated_manager.py): the screener job, *)
(* and the pipeline of health check, news, GPT and trader with its retries,*)
(* while an operator may start screener runs by hand.  The steps meet in   *)
(* the fixed files of ScreenerRun, in the news and in the plan of the day. *)
(***************************************************************************)
EXTENDS ScreenerRun, FiniteSets

CONSTANTS
    job,        \* the run the manager starts
    Old,        \* a plan file of an earlier day
    MaxAttempts \* of the pipeline

ASSUME DayAssumption ==
    job \in Run /\ Old \notin Run \cup {NoRun} /\ MaxAttempts \in Nat \ {0}

(* PIPELINE_SCRIPTS; every step depends on the one before it. *)
Scripts == <<"health", "news", "gpt", "trader">>
Script  == Range(Scripts)
Depends(s) == {Scripts[i] : i \in {j \in 1 .. 3 : Scripts[j + 1] = s}}

VARIABLES
    env,        \* SCREENER_RUN_ID in the environment of the manager
    pipe,       \* "idle", "ready" between steps, a step, "backoff", "over"
    attempt,
    completed,  \* PipelineStateManager.completed_steps
    ok,         \* pipeline_ok
    result,     \* the status that is reported
    news,       \* the run the news of the day was collected for
    plan,       \* the run the plan of the day, gpt_trades, was made from
    trade,      \* where the plans came from that the trader bought from
    fault       \* a step, run or the manager failed, or an operator decided

dayvars == <<env, pipe, attempt, completed, ok, result, news, plan, trade, fault>>
vars    == <<runvars, dayvars>>

pipevars == <<attempt, completed, ok, result>>
files    == <<news, plan, trade>>

Init ==
    /\ InitRuns
    /\ env = NoRun
    /\ pipe = "idle" /\ attempt = 0 /\ completed = {} /\ ok = TRUE /\ result = "none"
    /\ news = NoRun /\ plan = NoRun /\ trade = {}
    /\ fault = FALSE

-----------------------------------------------------------------------------
(* The screener job and the runs of an operator                            *)

(* run_screener_job: run_script chooses the id of the run and keeps it in  *)
(* the environment.  The job ends before the scheduler starts another.     *)
StartJob ==
    /\ pipe = "idle" /\ ~late
    /\ Begin(job, "DECISION", FALSE)
    /\ env' = job
    /\ UNCHANGED <<pipe, pipevars, files, fault>>

(* screener.py by hand: REPLAY unless told otherwise. *)
StartByHand(r) ==
    /\ r # job
    /\ \E mode \in {"DECISION", "REPLAY"}, overwrite \in BOOLEAN :
         /\ Begin(r, mode, overwrite)
         /\ fault' = (fault \/ mode = "DECISION")
    /\ UNCHANGED <<env, pipe, pipevars, files>>

RunGoesOn(r) == RunStep(r) /\ UNCHANGED dayvars

(* A run ends early; the manager's one also for its time limit. *)
RunFails(r) ==
    /\ Abandon(r) \/ Fail(r) \/ Kill(r)
    /\ fault' = TRUE
    /\ UNCHANGED <<env, pipe, pipevars, files>>

Close == CloseMarket /\ pipe = "over" /\ UNCHANGED dayvars

-----------------------------------------------------------------------------
(* The pipeline                                                            *)

(* run_trading_pipeline; what an earlier pipeline left in the state file   *)
(* carries another run id and is ignored.                                  *)
StartPipeline ==
    /\ pipe = "idle" /\ ~Active(job) /\ ~late
    /\ pipe' = "ready" /\ attempt' = 1 /\ ok' = TRUE /\ completed' = {}
    /\ UNCHANGED <<runvars, env, result, files, fault>>

Ready(s) ==
    /\ pipe = "ready"
    /\ s \notin completed /\ Depends(s) \subseteq completed

(* Slip: the last attempt is followed by one more. *)
SlipAttemptFails ==
    /\ ok' = FALSE
    /\ IF attempt <= MaxAttempts THEN pipe' = "backoff" /\ UNCHANGED result
                                 ELSE pipe' = "over" /\ result' = "FAIL"

(* An attempt ends with the first step that fails; the next one starts     *)
(* after a pause and leaves out what is completed.                         *)
AttemptFails ==
    /\ ok' = FALSE
    /\ IF attempt < MaxAttempts THEN pipe' = "backoff" /\ UNCHANGED result
                                ELSE pipe' = "over" /\ result' = "FAIL"

(* run_script starts the program of a step, the trader only through the    *)
(* gate of _validate_screener_decision_gate.                               *)
StartStep(s) ==
    /\ Ready(s) /\ (s = "trader" => StepValid(env))
    /\ pipe' = s
    /\ UNCHANGED <<runvars, env, pipevars, files, fault>>

GateCloses ==
    /\ Ready("trader") /\ ~StepValid(env)
    /\ AttemptFails
    /\ UNCHANGED <<runvars, env, attempt, completed, files, fault>>

(* save_state after a step that ended with exit code 0; the last one ends  *)
(* the pipeline, whose status stays FAIL if an attempt failed before.      *)
StepDone(s) ==
    /\ pipe = s
    /\ completed' = completed \cup {s}
    /\ IF completed' = Script
       THEN /\ pipe' = "over"
            /\ result' = IF ok THEN "SUCCESS" ELSE "FAIL"
       ELSE pipe' = "ready" /\ UNCHANGED result
    /\ UNCHANGED <<runvars, env, attempt, ok, fault>>

HealthCheck == StepDone("health") /\ UNCHANGED files

(* Slip: a list of one candidate is taken for an empty one. *)
SlipCollectNews ==
    LET r == fixed["candidates"] IN
    /\ StepDone("news")
    /\ news' = IF r # NoRun /\ found[r] > 1 THEN r ELSE news
    /\ UNCHANGED <<plan, trade>>

(* news_collector: the candidates of the day; if they fail the validation, *)
(* the latest file of candidates, which may be the full one.  The news are *)
(* named after the day of the input; none are written for an empty list.   *)
NewsInputs ==
    {"candidates"} \cup {f \in {"full"} : ~DecisionValid /\ fixed[f] # NoRun}

CollectNews ==
    /\ StepDone("news")
    /\ \E f \in NewsInputs :
          LET r == fixed[f] IN
          news' = IF r # NoRun /\ found[r] > 0 THEN r ELSE news
    /\ UNCHANGED <<plan, trade>>

(* gpt_analyzer: without candidates or news of the day there is no new     *)
(* plan, and the exit code is 0 all the same.                              *)
AnalyzeGpt ==
    LET r == fixed["candidates"] IN
    /\ StepDone("gpt")
    /\ plan' = IF r # NoRun /\ news # NoRun THEN r ELSE plan
    /\ UNCHANGED <<news, trade>>

(* The latest gpt_trades file: of the day, else of an earlier one. *)
LatestPlan == IF plan # NoRun THEN plan ELSE Old

(* The plans the trader buys from; a run without candidates has none.      *)
Buys == IF LatestPlan \in Run /\ Digest(LatestPlan) = NoRun THEN {} ELSE {LatestPlan}

Trade ==
    /\ StepDone("trader")
    /\ trade' = trade \cup Buys
    /\ UNCHANGED <<news, plan>>

(* A step ends with an error or is killed for its time limit: the news may *)
(* be unwritten, the trader may have bought.                               *)
StepFails(s) ==
    /\ pipe = s
    /\ AttemptFails /\ fault' = TRUE
    /\ trade' \in IF s = "trader" THEN {trade, trade \cup Buys} ELSE {trade}
    /\ UNCHANGED <<runvars, env, attempt, completed, news, plan>>

(* Slip: the attempts are not counted. *)
SlipRetry ==
    /\ pipe = "backoff" /\ pipe' = "ready"
    /\ UNCHANGED <<runvars, env, attempt, completed, ok, result, files, fault>>

Retry ==
    /\ pipe = "backoff"
    /\ attempt' = attempt + 1 /\ pipe' = "ready"
    /\ UNCHANGED <<runvars, env, completed, ok, result, files, fault>>

(* The container is restarted: the environment is new, the programs of the *)
(* manager are gone, and a job that was under way is not caught up.        *)
Restart ==
    /\ pipe # "over"
    /\ env' = NoRun /\ fault' = TRUE
    /\ pipe' = IF pipe = "idle" THEN "idle" ELSE "over"
    /\ IF Active(job) THEN Kill(job) ELSE UNCHANGED runvars
    /\ trade' \in IF pipe = "trader" THEN {trade, trade \cup Buys} ELSE {trade}
    /\ UNCHANGED <<pipevars, news, plan>>

-----------------------------------------------------------------------------
Manager == \/ StartJob \/ StartPipeline \/ GateCloses \/ Retry
           \/ \E s \in Script : StartStep(s)
           \/ HealthCheck \/ CollectNews \/ AnalyzeGpt \/ Trade

Next == \/ Manager \/ Restart \/ Close
        \/ \E r \in Run : StartByHand(r) \/ RunGoesOn(r) \/ RunFails(r)
        \/ \E s \in Script : StepFails(s)

Spec == Init /\ [][Next]_vars

(* The scheduler comes to the job and the pipeline, and their programs go  *)
(* on: the manager waits for each of them with a time limit.               *)
DaySpec == Spec /\ WF_vars(Manager) /\ WF_vars(RunGoesOn(job))

-----------------------------------------------------------------------------
(* Properties                                                              *)

TypeOK ==
    /\ RunsTypeOK
    /\ env \in {NoRun, job}
    /\ pipe \in {"idle", "ready", "backoff", "over"} \cup Script
    /\ attempt \in 0 .. MaxAttempts /\ completed \subseteq Script
    /\ ok \in BOOLEAN /\ result \in {"none", "SUCCESS", "FAIL"}
    /\ news \in Run \cup {NoRun} /\ plan \in Run \cup {NoRun}
    /\ trade \subseteq Run \cup {Old}
    /\ fault \in BOOLEAN

(* What operators do at the same time, run by run and file by file, never  *)
(* makes the trader buy from another run than the manager's own, as long   *)
(* as the manager has not lost the id of that run, its manifest is the one *)
(* it published, and it has candidates: the gate compares the files and    *)
(* not the plan, and the empty lists of two runs are alike.                *)
TradesOwnRun ==
    env = job /\ man[job] = "SUCCESS" /\ found[job] > 0 => trade \cap Run \subseteq {job}

(* The review of the day rates the run the trader bought from: as long as  *)
(* it published and no other DECISION did, replays and runs that failed    *)
(* before, after or beside it do not stand in for it, and its diagnostics, *)
(* if there are any, are those of its manifest.                            *)
ReviewFindsTraded ==
    \A r \in trade \cap Run :
        man[r] = "SUCCESS" /\ (\A s \in Run \ {r} : ~DecisionArtifact(s)) =>
            /\ Discovered = r /\ Trusted(r)
            /\ HasDiagnostics(r) => DiagnosticsTrusted(r)

(* The trader falls back to the plan of an earlier day only when the run    *)
(* of the job found nothing, or something failed: README 3.4 has it act on *)
(* gpt_trades of the date and session.                                     *)
OldPlanOnlyWithoutCandidates == Old \in trade /\ ~fault => found[job] = 0

(* The pipeline of the day ends, whatever fails. *)
PipelineEnds == pipe = "ready" ~> pipe = "over"

=============================================================================
