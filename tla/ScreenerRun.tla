------------------------------ MODULE ScreenerRun ------------------------------
(***************************************************************************)
(* The artifacts of screener runs (screener.py, screener_artifacts.py):    *)
(* every run stages its files, publishes them as a directory of its own    *)
(* and, if it is a DECISION that may, copies them one by one over the      *)
(* fixed files of the day, which the news, GPT and trader steps read.      *)
(* Several runs can be under way; nothing locks them out of each other.    *)
(*                                                                         *)
(* A file is known by the run that wrote it and by the number of its       *)
(* candidates; what the run selects is in ScreenerSelection.               *)
(***************************************************************************)
EXTENDS Naturals, Sequences, SequencesExt

CONSTANTS
    Run,        \* the runs of a day
    NoRun       \* no file

ASSUME RunAssumption == NoRun \notin Run

(* The order in which promote_fixed_artifacts copies the required files;   *)
(* the review and the pointer to the latest decision follow.               *)
Files == <<"meta", "scores", "candidates", "full">>
File  == Range(Files)

VARIABLES
    late,       \* the market has closed: a DECISION of the day is past
    pc,         \* where a run is, "idle" before it begins
    step,       \* how many files a promoting run has copied
    policy,     \* RunModeDecision, and the flags it was made from
    found,      \* the number of candidates of a run
    man,        \* manifest.json of a run's directory: "none", its status
    fixed,      \* the run each fixed file of the day was copied from
    pointer,    \* the latest decision pointer
    torn,       \* a promotion was cut short, or overlapped another one
    finished,   \* the runs in the order of their completed_at_kst
    diag        \* the manifest of the run that its diagnostics were made for

review  == <<finished, diag>>
runvars == <<late, pc, step, policy, found, man, fixed, pointer, torn, review>>

NoPolicy == [mode |-> "none", allow |-> FALSE, overwrite |-> FALSE, past |-> FALSE]

InitRuns ==
    /\ late = FALSE /\ torn = FALSE
    /\ pc = [r \in Run |-> "idle"] /\ step = [r \in Run |-> 0]
    /\ policy = [r \in Run |-> NoPolicy]
    /\ found = [r \in Run |-> 0]
    /\ man = [r \in Run |-> "none"]
    /\ fixed = [f \in File |-> NoRun] /\ pointer = NoRun
    /\ finished = <<>> /\ diag = [r \in Run |-> "none"]

-----------------------------------------------------------------------------
(* production_fixed_exists *)
ProductionFixedExists == fixed["meta"] # NoRun \/ fixed["candidates"] # NoRun

(* resolve_run_mode_policy: a late DECISION without --allow-decision-      *)
(* overwrite becomes a REPLAY; an early one that finds fixed files is      *)
(* published but may not replace them.                                     *)
ResolvePolicy(mode, overwrite) ==
    LET decides == mode = "DECISION" /\ (late => overwrite) IN
    [mode      |-> IF decides THEN "DECISION" ELSE "REPLAY",
     allow     |-> decides /\ (overwrite \/ ~ProductionFixedExists),
     overwrite |-> decides /\ overwrite, past |-> decides /\ late]

(* run_screener resolves its policy and makes its staging directory. *)
Begin(r, mode, overwrite) ==
    /\ pc[r] = "idle"
    /\ policy' = [policy EXCEPT ![r] = ResolvePolicy(mode, overwrite)]
    /\ pc' = [pc EXCEPT ![r] = "staging"]
    /\ UNCHANGED <<late, step, found, man, fixed, pointer, torn, review>>

(* A holiday, no settings or no KIS token: abandon_staging, exit code 0. *)
Abandon(r) ==
    /\ pc[r] = "staging"
    /\ pc' = [pc EXCEPT ![r] = "done"]
    /\ UNCHANGED <<late, step, policy, found, man, fixed, pointer, torn, review>>

(* The selection, its files and the meta are written to the staging        *)
(* directory; a run without candidates is a success like any other.  The   *)
(* time of completion is taken before the files are written.               *)
Screen(r) ==
    /\ pc[r] = "staging"
    /\ \E n \in 0 .. 1 : found' = [found EXCEPT ![r] = n]
    /\ pc' = [pc EXCEPT ![r] = "screened"]
    /\ finished' = Append(finished, r)
    /\ UNCHANGED <<late, step, policy, man, fixed, pointer, torn, diag>>

Promoting(r) == pc[r] = "promoting"

(* publish: the manifest, then one rename of the staging directory. Only a *)
(* DECISION that may update the fixed files goes on to promote.            *)
Publish(r) ==
    /\ pc[r] = "screened"
    /\ man' = [man EXCEPT ![r] = "SUCCESS"]
    /\ LET promote == policy[r].mode = "DECISION" /\ policy[r].allow IN
       /\ pc' = [pc EXCEPT ![r] = IF promote THEN "promoting" ELSE "published"]
       /\ torn' = (torn \/ (promote /\ \E s \in Run : Promoting(s)))
    /\ UNCHANGED <<late, step, policy, found, fixed, pointer, review>>

(* Slip: the last of the required files is forgotten. *)
SlipPromoteFile(r) ==
    /\ Promoting(r) /\ step[r] < Len(Files) - 1
    /\ fixed' = [fixed EXCEPT ![Files[step[r] + 1]] = r]
    /\ step' = [step EXCEPT ![r] = IF @ = Len(Files) - 2 THEN Len(Files) ELSE @ + 1]
    /\ UNCHANGED <<late, pc, policy, found, man, pointer, torn, review>>

(* promote_fixed_artifacts: one atomic_copy_file. *)
PromoteFile(r) ==
    /\ Promoting(r) /\ step[r] < Len(Files)
    /\ fixed' = [fixed EXCEPT ![Files[step[r] + 1]] = r]
    /\ step' = [step EXCEPT ![r] = @ + 1]
    /\ UNCHANGED <<late, pc, policy, found, man, pointer, torn, review>>

(* write_latest_decision_pointer *)
PromotePointer(r) ==
    /\ Promoting(r) /\ step[r] = Len(Files)
    /\ pointer' = r
    /\ pc' = [pc EXCEPT ![r] = "published"] /\ step' = [step EXCEPT ![r] = 0]
    /\ UNCHANGED <<late, policy, found, man, fixed, torn, review>>

(* The diagnostics manifest names the digest of the run's own manifest.    *)
DiagnosticsOf(r) == man[r]

(* run_liquidity_shadow_post_diagnostics: the weight and liquidity shadows *)
(* go to a directory of their own; what fails in them is only logged.      *)
PublishDiagnostics(r) ==
    /\ pc[r] = "published" /\ diag[r] = "none"
    /\ diag' = [diag EXCEPT ![r] = DiagnosticsOf(r)]
    /\ UNCHANGED <<late, pc, step, policy, found, man, fixed, pointer, torn, finished>>

(* The run ends, with or without its diagnostics. *)
EndRun(r) ==
    /\ pc[r] = "published"
    /\ pc' = [pc EXCEPT ![r] = "done"]
    /\ UNCHANGED <<late, step, policy, found, man, fixed, pointer, torn, review>>

Active(r) == pc[r] \notin {"idle", "done"}

(* An exception ends the run with exit code 1; the handler writes a FAILED *)
(* manifest and meta into the run's directory, published or not (but after *)
(* an ArtifactError, which is as a kill).                                  *)
Fail(r) ==
    /\ Active(r)
    /\ man' = [man EXCEPT ![r] = "FAILED"]
    /\ torn' = (torn \/ Promoting(r))
    /\ pc' = [pc EXCEPT ![r] = "done"] /\ step' = [step EXCEPT ![r] = 0]
    /\ UNCHANGED <<late, policy, found, fixed, pointer, review>>

(* A kill: by the operator, the container, or the manager's time limit; or *)
(* an ArtifactError, exit code 2 and no manifest.                          *)
Kill(r) ==
    /\ Active(r)
    /\ torn' = (torn \/ Promoting(r))
    /\ pc' = [pc EXCEPT ![r] = "done"] /\ step' = [step EXCEPT ![r] = 0]
    /\ UNCHANGED <<late, policy, found, man, fixed, pointer, review>>

(* is_past_trade_date turns true for the day. *)
CloseMarket == ~late /\ late' = TRUE /\ UNCHANGED
    <<pc, step, policy, found, man, fixed, pointer, torn, review>>

(* The program of a run once it has begun. *)
RunStep(r) == \/ Screen(r) \/ Publish(r) \/ PromoteFile(r) \/ PromotePointer(r)
              \/ PublishDiagnostics(r) \/ EndRun(r)

-----------------------------------------------------------------------------
(* What the readers ask                                                    *)

(* The digest of the candidates of a run: every candidate names its run,   *)
(* and the files of two runs without candidates are the same.              *)
Digest(r) == IF found[r] = 0 THEN NoRun ELSE r

(* validate_decision_artifacts_for_trader: only a promoted DECISION leaves *)
(* a meta file; its candidates must be those of the manifest of the run    *)
(* the meta names, unless that manifest lists none, as a FAILED one.       *)
DecisionValid ==
    /\ fixed["meta"] # NoRun /\ fixed["candidates"] # NoRun
    /\ man[fixed["meta"]] = "SUCCESS" =>
         Digest(fixed["candidates"]) = Digest(fixed["meta"])

(* Slip: the id of the run that was started is not compared. *)
SlipStepValid(id) ==
    DecisionValid /\ found[fixed["candidates"]] = found[fixed["meta"]]

(* validate_screener_step_for_pipeline with SCREENER_RUN_ID = id.          *)
StepValid(id) ==
    /\ DecisionValid
    /\ id # NoRun => fixed["meta"] = id
    /\ found[fixed["candidates"]] = found[fixed["meta"]]

-----------------------------------------------------------------------------
(* The quality review (screener_quality.py) looks at the directories of    *)
(* the runs, not at the fixed files.                                       *)

(* build_manifest: decision_artifact; a manifest of the handler denies it. *)
DecisionArtifact(r) == policy[r].mode = "DECISION" /\ man[r] = "SUCCESS"

(* Slip: the mode of a run is not looked at. *)
SlipReviewable(r) == man[r] = "SUCCESS"

(* discover_decision_runs: the filters a run directory has to pass.        *)
Reviewable(r) ==
    /\ man[r] # "none" /\ man[r] # "FAILED"
    /\ policy[r].mode = "DECISION" /\ DecisionArtifact(r)

(* _run_recency_key: a run is newer than those that completed before it.   *)
Recency(r) == CHOOSE i \in DOMAIN finished : finished[i] = r

(* Of the runs of a date and session the review keeps the newest.          *)
Discovered ==
    LET runs == {r \in Run : Reviewable(r)} IN
    IF runs = {} THEN NoRun
    ELSE CHOOSE r \in runs : \A s \in runs : Recency(s) <= Recency(r)

(* verify_manifest_integrity: a published file is never written again, but *)
(* by the handler, whose manifest lists none.                              *)
Intact(r) == man[r] # "none"

(* assess_decision_run_trust *)
Trusted(r) == policy[r].mode = "DECISION" /\ Intact(r)

(* discover_post_run_diagnostics *)
HasDiagnostics(r) == diag[r] # "none"

(* evaluate_liquidity_shadow_trust: the manifest must still be the one the *)
(* diagnostics were made for.                                              *)
DiagnosticsTrusted(r) == Intact(r) /\ diag[r] = man[r]

-----------------------------------------------------------------------------
(* Properties of the artifacts                                             *)

RunsTypeOK ==
    /\ pc \in [Run -> {"idle", "staging", "screened", "promoting", "published",
                       "done"}]
    /\ step \in [Run -> 0 .. Len(Files)] /\ found \in [Run -> 0 .. 1]
    /\ policy \in [Run -> [mode : {"none", "DECISION", "REPLAY"}, allow : BOOLEAN,
                           overwrite : BOOLEAN, past : BOOLEAN]]
    /\ man \in [Run -> {"none", "SUCCESS", "FAILED"}]
    /\ fixed \in [File -> Run \cup {NoRun}] /\ pointer \in Run \cup {NoRun}
    /\ late \in BOOLEAN /\ torn \in BOOLEAN
    /\ finished \in Seq(Run) /\ IsInjective(finished)
    /\ diag \in [Run -> {"none", "SUCCESS", "FAILED"}]

(* A fixed file comes from a run that published first and was asked for a  *)
(* DECISION, of the day or with an explicit overwrite, at its start:       *)
(* README "Production fixed files"; nothing else ever reaches the readers. *)
(* Between promotions, the fixed files and the pointer are those of one    *)
(* run, unless a promotion was cut short or overlapped another one.        *)
FixedWhole ==
    /\ \A f \in File : fixed[f] # NoRun =>
         LET r == fixed[f] IN
         /\ policy[r].mode = "DECISION" /\ man[r] # "none"
         /\ policy[r].past => policy[r].overwrite
    /\ ~torn /\ (\A r \in Run : ~Promoting(r)) =>
         \A f \in File : fixed[f] = pointer

=============================================================================
