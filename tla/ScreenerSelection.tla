--------------------------- MODULE ScreenerSelection ---------------------------
(***************************************************************************)
(* What a run of the screener computes: from the master list over the      *)
(* market cap, turnover and list filters to the scored stocks, and from    *)
(* those to the candidates the trader may buy, with the funnel it stores,  *)
(* the outcome it writes beside every score and the reason it gives for an *)
(* empty list (screener.py, screener_ops.py, screener_diagnostics.py).     *)
(*                                                                         *)
(* A stock is its place in the order of the scores: 1 has the best.  What  *)
(* the filters and the scoring compute from market data is left open; the  *)
(* selection from the scored stocks is computed here as the code does.     *)
(***************************************************************************)
EXTENDS Naturals, FiniteSets, Sequences, SequencesExt

CONSTANTS
    Stocks,     \* how many stocks the master lists
    Issuers, Sectors,
    Config      \* the settings a run may find, see ConfigType

ConfigType == [top : Nat, cap : Nat, momentum : BOOLEAN, volatility : BOOLEAN,
               shadowtop : Nat]

ASSUME SelectionAssumption ==
    /\ Stocks \in Nat \ {0}
    /\ Config \subseteq ConfigType

Stock == 1 .. Stocks
(* Why a stock is excluded: not, because it is held, or for its chart      *)
(* (RSI_OVERHEATED, UP_STREAK).                                            *)
Tags  == [issuer : Issuers, sector : Sectors, out : {"", "held", "hot"},
          momentum : BOOLEAN, volatility : BOOLEAN]

VARIABLES
    pc,         \* the stage the run is at
    cfg,        \* its settings
    cur,        \* the stocks that are left, the scored ones after scoring
    tags,       \* what is known of the scored stocks
    bar,        \* stocks at least as good as min_score_threshold: 1 .. bar
    shadowbar,  \* the same for the high-conviction shadow's threshold
    funnel,     \* the stages recorded so far
    finding,    \* SCORING_FAILURE_ALL, AMOUNT5D_DATA_UNAVAILABLE, ...
    cands,      \* the production candidates
    shadow,     \* the high-conviction shadow candidates
    eligshadow, \* the eligible-only shadow candidates
    notes,      \* what the score rows say of each stage
    reason,     \* empty_reason of the run
    status      \* status of the run

inputs  == <<cfg, tags, bar, shadowbar>>
results == <<cands, shadow, eligshadow, notes, reason, status>>
vars    == <<pc, inputs, cur, funnel, finding, results>>

-----------------------------------------------------------------------------
(* The funnel                                                              *)

StageNames == <<"UNIVERSE", "MARKET_CAP", "AMOUNT5D", "SCORING", "MIN_SCORE",
                "MOMENTUM", "VOLATILITY", "ELIGIBILITY", "ISSUER_DEDUP",
                "SECTOR_DIVERSIFICATION">>

(* Slip: the two counts are swapped. *)
SlipStage(name, st, i, o) == [stage |-> name, status |-> st, in |-> o, out |-> i]

Stage(name, st, i, o) ==
    [stage |-> name, status |-> st, in |-> i, out |-> IF o < i THEN o ELSE i]

Applied(name, i, o) == Stage(name, "APPLIED", i, o)
Skipped(name, i)    == Stage(name, "SKIPPED", i, i)
NotRun(name)        == Stage(name, "NOT_RUN", 0, 0)
NotRunFrom(k)       == [j \in 1 .. (11 - k) |-> NotRun(StageNames[k + j - 1])]

(* A stage's input is the output of the one before it. *)
Chained(f) == \A i \in 2 .. Len(f) : f[i].in = f[i - 1].out

(* Slip: a broken chain is stored as it was recorded. *)
SlipSanitized(f) == f

(* sanitize_for_storage: a broken chain is rebuilt so that every stage     *)
(* starts from what the stage before it left.                              *)
Rebuilt(s, i) == Stage(s.stage, s.status, i, IF s.status = "SKIPPED" THEN i ELSE s.out)
Chain(f) ==
    LET done[k \in DOMAIN f] ==
            Rebuilt(f[k], IF k = 1 THEN f[1].in ELSE done[k - 1].out)
    IN  done
Sanitized(f) == IF Chained(f) THEN f ELSE Chain(f)

OutOf(f, name)    == LET at == {i \in DOMAIN f : f[i].stage = name}
                     IN  IF at = {} THEN 0 ELSE f[CHOOSE i \in at : TRUE].out
StatusOf(f, name) == LET at == {i \in DOMAIN f : f[i].stage = name}
                     IN  IF at = {} THEN "" ELSE f[CHOOSE i \in at : TRUE].status

-----------------------------------------------------------------------------
(* The stages of the selection, on sets of scored stocks                   *)

Excluded(t) == tags[t].out # ""

(* dedupe_by_issuer_group keeps the best row of every issuer. *)
Deduped(S) == {t \in S : \A u \in S : tags[u].issuer = tags[t].issuer => t <= u}

(* max_per_sector: the share of top_n one sector may take, at least one. *)
PerSector(top) ==
    LET up == (top * cfg.cap + 99) \div 100 IN IF up < 1 THEN 1 ELSE up

InSector(S, t) == Cardinality({u \in S : tags[u].sector = tags[t].sector})

(* Slip: a sector may take one more than its share. *)
SlipHasRoom(got, t, top) ==
    Cardinality(got) < top /\ InSector(got, t) <= PerSector(top)

HasRoom(got, t, top) ==
    Cardinality(got) < top /\ InSector(got, t) < PerSector(top)

(* The stocks that find room, taken in the order of their scores: the list *)
(* after each stock, and at the end.                                       *)
Taking(S, top) ==
    LET got[t \in 0 .. Stocks] ==
            IF t = 0 THEN {}
            ELSE IF t \in S /\ HasRoom(got[t - 1], t, top)
                 THEN got[t - 1] \cup {t}
                 ELSE got[t - 1]
    IN  got
Taken(S, top) == Taking(S, top)[Stocks]

BestOf(S, n) == {t \in S : Cardinality({u \in S : u < t}) < n}

(* Stocks with an exclusion reason fill what the clean ones leave of top_n.*)
Diversified(S, top) ==
    IF cfg.cap = 0 THEN BestOf(S, top)
    ELSE LET clean == Taken({t \in S : ~Excluded(t)}, top) IN
         clean \cup BestOf({t \in S : Excluded(t)}, top - Cardinality(clean))

(* What select_candidates_pipeline keeps after each of its stages.         *)
MinScore(S, b)  == {t \in S : t <= b}
Momentum(S)     == IF cfg.momentum THEN {t \in S : tags[t].momentum} ELSE S
Volatility(S)   == IF cfg.volatility THEN {t \in S : tags[t].volatility} ELSE S
Eligible(S)     == {t \in S : ~Excluded(t)}

Kept(S, b, top) ==
    LET s1 == MinScore(S, b)  s2 == Momentum(s1)  s3 == Volatility(s2)
        s4 == Eligible(s3)    s5 == Deduped(s4)
    IN  <<s1, s2, s3, s4, s5, Eligible(Diversified(s5, top))>>

(* select_candidates_pipeline: the kept sets and the stages it records.    *)
PipelineStages(S, b, top) ==
    LET kept    == <<S>> \o Kept(S, b, top)
        enabled == <<TRUE, cfg.momentum, cfg.volatility, TRUE, TRUE, TRUE>>
    IN  [k \in 1 .. 6 |->
            LET name == StageNames[k + 4]  n == Cardinality(kept[k]) IN
            IF n = 0 THEN NotRun(name)
            ELSE IF enabled[k] THEN Applied(name, n, Cardinality(kept[k + 1]))
            ELSE Skipped(name, n)]

Selected(S, b, top) == Kept(S, b, top)[6]

(* compute_eligible_shadow: the eligible stocks above its own threshold,   *)
(* without the production candidates, at most max_candidates of them.       *)
EligibleShadow(S, b) ==
    LET clean == Deduped(Eligible(S))
        n     == Cardinality(clean)
        work  == Diversified(clean, IF n < cfg.shadowtop THEN cfg.shadowtop ELSE n)
    IN  BestOf(MinScore(work, b) \ cands, cfg.shadowtop)

-----------------------------------------------------------------------------
NoNotes == [elig |-> {}, issuer |-> {}, issuerdrop |-> {}, sectordrop |-> {}]

Init ==
    /\ pc = "universe" /\ cfg \in Config
    /\ cur = {} /\ tags = <<>>
    /\ bar = 0 /\ shadowbar = 0
    /\ funnel = <<>> /\ finding = {}
    /\ cands = {} /\ shadow = {} /\ eligshadow = {} /\ notes = NoNotes
    /\ reason = "" /\ status = ""

Goto(p)     == pc' = p
Record(s)   == funnel' = Append(funnel, s)

(* The exits before the selection: the remaining stages did not run and    *)
(* the run is stored as a success without candidates.                      *)
EmptyRun(f, why) ==
    /\ funnel' = f \o NotRunFrom(Len(f) + 1)
    /\ reason' = why /\ Goto("store")

(* The KIS master, empty when it cannot be read. *)
Universe ==
    /\ pc = "universe"
    /\ \/ /\ cur' = Stock /\ Record(Applied("UNIVERSE", Stocks, Stocks))
          /\ Goto("marcap") /\ UNCHANGED <<finding, reason>>
       \/ /\ cur' = {} /\ finding' = finding \cup {"UNIVERSE_EMPTY"}
          /\ EmptyRun(<<Applied("UNIVERSE", 0, 0), Skipped("MARKET_CAP", 0),
                        NotRun("AMOUNT5D")>>, "EMPTY_DATA_QUALITY")
    /\ UNCHANGED <<inputs, cands, shadow, eligshadow, notes, status>>

(* marcap_filter_decision: skipped when too few stocks have a market cap.  *)
MarketCap ==
    LET n == Cardinality(cur) IN
    /\ pc = "marcap"
    /\ \/ /\ Record(Skipped("MARKET_CAP", n)) /\ Goto("amount")
          /\ finding' = finding \cup {"MARKET_CAP_DATA_UNAVAILABLE"}
          /\ UNCHANGED <<cur, reason>>
       \/ \E S \in SUBSET cur :
            /\ cur' = S /\ UNCHANGED finding
            /\ LET f == Append(funnel, Applied("MARKET_CAP", n, Cardinality(S)))
               IN  IF S = {}
                   THEN EmptyRun(f, "AMOUNT5D_DATA_UNAVAILABLE")
                   ELSE funnel' = f /\ Goto("amount") /\ UNCHANGED reason
    /\ UNCHANGED <<inputs, cands, shadow, eligshadow, notes, status>>

(* _get_trading_value_5d_avg: a fresh value is fetched for every stock the *)
(* cache of the day has none for; a failed fetch counts as no turnover.    *)
Turnover(S) == {[ok |-> ok, high |-> high] : ok \in SUBSET S, high \in SUBSET S}

Amount5D ==
    LET n == Cardinality(cur) IN
    /\ pc = "amount"
    /\ \E v \in Turnover(cur) :
         LET S == v.ok \cap v.high
             f == Append(funnel, Applied("AMOUNT5D", n, Cardinality(S))) IN
         /\ cur' = S
         /\ IF S = {}
            THEN /\ finding' = IF v.ok = {}
                               THEN finding \cup {"AMOUNT5D_DATA_UNAVAILABLE"}
                               ELSE finding
                 /\ EmptyRun(f, "AMOUNT5D_DATA_UNAVAILABLE")
            ELSE funnel' = f /\ Goto("lists") /\ UNCHANGED <<finding, reason>>
    /\ UNCHANGED <<inputs, cands, shadow, eligshadow, notes, status>>

(* White list and black list, and then invalid tickers: no stage records   *)
(* them, and the reason says which of the two left nothing.                *)
Lists ==
    /\ pc = "lists"
    /\ \E S \in SUBSET cur :
         /\ cur' = S
         /\ IF S = {} THEN \E why \in {"AMOUNT5D_DATA_UNAVAILABLE", "SCORING_FAILURE_ALL"} :
                             EmptyRun(funnel, why)
                      ELSE Goto("score") /\ UNCHANGED <<funnel, reason>>
    /\ UNCHANGED <<inputs, finding, cands, shadow, eligshadow, notes, status>>

(* _calculate_scores_for_ticker: no prices, a short history, an indicator  *)
(* that cannot be computed or an exception leave a stock without a score.  *)
Scorings(S) == SUBSET S

(* One task per stock on a pool of threads, whose results are collected.   *)
Score ==
    LET n == Cardinality(cur) IN
    /\ pc = "score"
    /\ \E S \in Scorings(cur) :
         LET f == Append(funnel, Applied("SCORING", n, Cardinality(S))) IN
         /\ cur' = S
         /\ IF S = {}
            THEN /\ finding' = finding \cup {"SCORING_FAILURE_ALL"}
                 /\ EmptyRun(f, "SCORING_FAILURE_ALL")
            ELSE funnel' = f /\ Goto("enrich") /\ UNCHANGED <<finding, reason>>
    /\ UNCHANGED <<inputs, cands, shadow, eligshadow, notes, status>>

(* enrich_scored_dataframe: issuer, holding, exclusions and the flags of   *)
(* momentum and volatility, which are looked up only when asked for.       *)
Enriched ==
    {e \in [cur -> Tags] : \A t \in cur :
        (~cfg.momentum => e[t].momentum) /\ (~cfg.volatility => e[t].volatility)}

Enrich ==
    /\ pc = "enrich"
    /\ tags' \in Enriched
    /\ bar' \in 0 .. Stocks /\ shadowbar' \in 0 .. Stocks
    /\ Goto("select")
    /\ UNCHANGED <<cfg, cur, funnel, finding, results>>

Select ==
    /\ pc = "select"
    /\ cands' = Selected(cur, bar, cfg.top)
    /\ funnel' = funnel \o PipelineStages(cur, bar, cfg.top)
    /\ Goto("shadow")
    /\ UNCHANGED <<inputs, cur, finding, shadow, eligshadow, notes, reason, status>>

(* The shadows, which the trader never reads; a failure of the eligible    *)
(* one is only a finding.                                                  *)
Shadows ==
    /\ pc = "shadow"
    /\ shadow' = Selected(cur, shadowbar, cfg.shadowtop)
    /\ \/ eligshadow' = EligibleShadow(cur, shadowbar) /\ UNCHANGED finding
       \/ eligshadow' = {} /\ finding' = finding \cup {"ELIGIBLE_SHADOW_FAILED"}
    /\ Goto("annotate")
    /\ UNCHANGED <<inputs, cur, funnel, cands, notes, reason, status>>

(* extract_pipeline_pass_sets recomputes who passed eligibility and issuer *)
(* from the scored rows, without the momentum and volatility stages.       *)
Passed == IF StatusOf(funnel, "ELIGIBILITY") = "APPLIED"
          THEN Eligible(MinScore(cur, bar)) ELSE {}

PassSets ==
    LET elig   == Passed
        issuer == IF StatusOf(funnel, "ISSUER_DEDUP") = "APPLIED"
                  THEN Deduped(elig) ELSE {}
    IN  [elig |-> elig, issuer |-> issuer,
         issuerdrop |-> IF StatusOf(funnel, "ISSUER_DEDUP") = "APPLIED"
                        THEN elig \ issuer ELSE {},
         sectordrop |-> IF StatusOf(funnel, "SECTOR_DIVERSIFICATION") = "APPLIED"
                        THEN issuer \ cands ELSE {}]

Annotate ==
    /\ pc = "annotate"
    /\ notes' = PassSets
    /\ Goto("classify")
    /\ UNCHANGED <<inputs, cur, funnel, finding, cands, shadow, eligshadow, reason, status>>

(* Slip: an empty eligibility stage is blamed on the score threshold. *)
SlipEmptyReason ==
    IF cands # {} THEN ""
    ELSE IF OutOf(funnel, "ELIGIBILITY") = 0 THEN "MIN_SCORE_THRESHOLD_NOT_MET"
    ELSE "ALL_ELIGIBLE_REMOVED_BY_SECTOR_CAP"

(* classify_empty_result_v2, in the order of its tests, for a run with     *)
(* scored stocks.                                                          *)
EmptyReason ==
    LET passers == MinScore(cur, bar) IN
    IF cands # {} THEN ""
    ELSE IF OutOf(funnel, "MIN_SCORE") = 0 THEN "MIN_SCORE_THRESHOLD_NOT_MET"
    ELSE IF OutOf(funnel, "ELIGIBILITY") = 0
         THEN IF \A t \in passers : tags[t].out = "held"
              THEN "ALL_THRESHOLD_PASSERS_ALREADY_HELD"
              ELSE "ALL_THRESHOLD_PASSERS_INELIGIBLE"
    ELSE IF /\ StatusOf(funnel, "ISSUER_DEDUP") = "APPLIED"
            /\ OutOf(funnel, "ISSUER_DEDUP") = 0
         THEN "ALL_ELIGIBLE_REMOVED_BY_ISSUER_DEDUP"
    ELSE IF /\ StatusOf(funnel, "SECTOR_DIVERSIFICATION") = "APPLIED"
            /\ OutOf(funnel, "SECTOR_DIVERSIFICATION") = 0
         THEN "ALL_ELIGIBLE_REMOVED_BY_SECTOR_CAP"
    ELSE "NO_ELIGIBLE_NEW_BUY_CANDIDATES"

Classify ==
    /\ pc = "classify"
    /\ reason' = EmptyReason /\ Goto("store")
    /\ UNCHANGED <<inputs, cur, funnel, finding, cands, shadow, eligshadow, notes, status>>

(* _finalize_run: the funnel as it is stored, and the status of the run.   *)
Store ==
    /\ pc = "store"
    /\ funnel' = Sanitized(funnel)
    /\ status' = IF Chained(funnel) /\ "ELIGIBLE_SHADOW_FAILED" \notin finding
                 THEN "SUCCESS" ELSE "SUCCESS_WITH_WARNINGS"
    /\ Goto("done")
    /\ UNCHANGED <<inputs, cur, finding, cands, shadow, eligshadow, notes, reason>>

Next == \/ Universe \/ MarketCap \/ Amount5D \/ Lists \/ Score \/ Enrich
        \/ Select \/ Shadows \/ Annotate \/ Classify \/ Store

Spec == Init /\ [][Next]_vars

-----------------------------------------------------------------------------
(* Properties                                                              *)

TypeOK ==
    /\ cfg \in Config /\ tags \in [DOMAIN tags -> Tags]
    /\ bar \in 0 .. Stocks /\ shadowbar \in 0 .. Stocks
    /\ \A S \in {cur, cands, shadow, eligshadow} : S \subseteq Stock
    /\ \A i \in DOMAIN funnel :
         /\ funnel[i].stage \in Range(StageNames)
         /\ funnel[i].status \in {"APPLIED", "SKIPPED", "NOT_RUN"}
         /\ funnel[i].out \in 0 .. funnel[i].in /\ funnel[i].in \in 0 .. Stocks
    /\ status \in {"", "SUCCESS", "SUCCESS_WITH_WARNINGS"}

Unfiltered == ~cfg.momentum /\ ~cfg.volatility

(* What the trader may be offered: a candidate reached the threshold, is   *)
(* neither held nor excluded, and shares its issuer with no other; no      *)
(* sector takes more than its share, although the selection refills what   *)
(* the clean stocks leave of top_n.  And a stock that passed every test is *)
(* left out only for a better one: of the same issuer, of a sector that    *)
(* has its share, or for a full list.                                      *)
BestList ==
    LET passed == Kept(cur, bar, cfg.top)[4] IN
    /\ cands \subseteq cur \cap (1 .. bar) /\ Cardinality(cands) <= cfg.top
    /\ \A t \in cands :
         /\ ~Excluded(t) /\ tags[t].momentum /\ tags[t].volatility
         /\ \A u \in cands : tags[u].issuer = tags[t].issuer => u = t
         /\ cfg.cap # 0 => InSector(cands, t) <= PerSector(cfg.top)
    /\ pc = "done" /\ funnel # <<>> =>
         \A t \in passed \ cands :
             LET better == {u \in cands : u < t} IN
             \/ \E u \in passed : u < t /\ tags[u].issuer = tags[t].issuer
             \/ Cardinality(better) = cfg.top
             \/ cfg.cap # 0 /\ InSector(better, t) = PerSector(cfg.top)

(* What the stored run says of itself is what the selection did.  The      *)
(* score rows: where the momentum and volatility filters are off, a        *)
(* candidate is noted as eligible, its issuer's best and not cut by its    *)
(* sector, nothing below the threshold is, and the eligible shadow offers  *)
(* no candidate.  The funnel: every stage once and in order, each starting *)
(* from what the one before left, up to the number of candidates, also for *)
(* runs that end early and where lists dropped stocks unrecorded.          *)
AccountedFor ==
    /\ pc \in {"classify", "store", "done"} =>
         /\ cands \cap eligshadow = {}
         /\ notes.elig \subseteq 1 .. bar
         /\ Unfiltered => cands = notes.issuer \ notes.sectordrop
         /\ Unfiltered => notes.elig = notes.issuer \cup notes.issuerdrop
    /\ pc = "done" =>
         /\ Len(funnel) = Len(StageNames)
         /\ \A i \in DOMAIN funnel : funnel[i].stage = StageNames[i]
         /\ Chained(funnel)
         /\ Last(funnel).out = Cardinality(cands)

(* The reason stored for an empty list is the stage that emptied it, for   *)
(* runs that reach the selection with the momentum and volatility filters  *)
(* off.  Issuers never empty a list, sectors only a list of length 0.      *)
ReasonTrue ==
    LET passers == MinScore(cur, bar) IN
    pc = "done" /\ cur # {} =>
        /\ (reason = "") <=> (cands # {})
        /\ reason = "MIN_SCORE_THRESHOLD_NOT_MET" => passers = {}
        /\ reason # "ALL_ELIGIBLE_REMOVED_BY_ISSUER_DEDUP"
        /\ reason = "ALL_ELIGIBLE_REMOVED_BY_SECTOR_CAP" => cfg.top = 0
        /\ reason = "ALL_THRESHOLD_PASSERS_ALREADY_HELD" =>
             \A t \in passers : tags[t].out = "held"
        /\ reason = "ALL_THRESHOLD_PASSERS_INELIGIBLE" /\ Unfiltered =>
             \A t \in passers : Excluded(t)

=============================================================================
