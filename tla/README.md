# A TLA+ model of the trading bot

The repository is a trading bot for US equities over the KIS (Korea Investment
& Securities) REST API.  Two containers share one `output/` directory:

* **integrated_manager** (`src/integrated_manager.py`): a scheduler that runs
  the screener, the trading pipeline (screener gate, news, GPT, trader), a
  batch check of executions, the order reconciler, and the daily balances, each
  script in a process of its own;
* **background_risk_manager** (`run_background_risk_manager.py`): one thread
  that looks at the holdings every few minutes and sells directly, watched by
  a loop that restarts a dead thread.

Operators run the same scripts by hand, beside both.  Nothing locks these
processes out of each other.  They meet in files (order journals and persist
locks, strategy flags and cooldowns, the fixed files of the day, account
snapshots, balances), in one SQLite table (`trade_records`), and at the broker,
whose answers may be late, empty or lost.  Everything hard in this system comes
from that: writes of two processes in an order no test tries, kills between two
writes, retries of requests that had succeeded, and state read long before it
is used.

## 1. Inventory

| Component | Source | State | Operations |
|---|---|---|---|
| durable order persist | `broker_order_persist.py` | journal file per order, lock file per unrecorded order | begin, mark accepted, persist (upsert, journal, lock), has lock, clear lock |
| risk manager: rules, cycle, loop | `risk_manager.py`, `strategies.py`, `integrated_manager.py` 81-181, `run_background_risk_manager.py` | balance file, KIS client, thread | refresh, judge, trigger the trader, watchdog |
| risk manager: direct sell | `risk_manager.py` 565-963 | order in hand | check lock, quote, begin, submit, mark, persist, strategy flags |
| trader: a run | `trader.py` | snapshot, plans of the round, order in hand | snapshot, rebalance, partial sale, sale, gates, re-buy, rounds of buys, ladder of orders |
| trader: persist, batch check | `trader.py` 1536-2420 | pending orders | retry, finalise, persist, batch check |
| order reconciler | `order_reconciler.py` | none of its own | status of open orders, orphan ids, broker-only detection and backfill, executed prices |
| recorder | `recorder.py` | tables `trade_records`, `positions` | insert, upsert by id, status update, cancel marks, profits |
| strategy files | `partial_sell_state.py`, `trader.py` 6525-6610 | `partial_sell_flags.json`, `cooldown.json` | mark, had, clear, add cooldown, in cooldown |
| ledger repair | `ledger_repair.py` | table | read, FIFO match, propose, apply |
| account snapshot and cache | `account_snapshot.py`, `kis_overseas_account.py`, `account.py`, `utils.py` | snapshot and balance files | load, validate, sellable quantity, save |
| daily balances | `integrated_manager.py` 655-3386, `daily_balance_values.py` | canonical and legacy balance files, summary | capture, rebuild, repair, migrate, summarise |
| scheduler and pipeline | `integrated_manager.py` | run id in the environment, completed steps | screener job, gate, steps, retries |
| screener: selection | `screener.py`, `screener_ops.py`, `screener_diagnostics.py` | scored stocks, funnel | filters, scoring, selection, notes, reason of an empty list |
| screener artifacts and review | `screener_artifacts.py`, `screener_quality.py` | staging and run directories, manifests, fixed files, pointer | publish, promote, validate, discover, assess |
| GPT and news | `gpt_analyzer.py`, `news_collector.py` | news and plan of the day | collect, analyse |
| rotation | `rotation_policy.py`, `rotation_manager.py` | pairs done in this run | not modelled, see section 7 |
| scoring, analysis, reviews, market data, notifier, settings | see `PROJECT.json` | reports | not modelled, see section 7 |

What makes each correct:

* *Durable persist.*  The journal is ahead of the broker; what it says is true;
  an order that could not be recorded holds its ticker back until it is; the
  strategy flags come last; every execution reaches the table.
* *Strategy files.*  A flag or cooldown that was written is not lost before it
  expires; a ticker is partially sold once per window and not bought back early.
* *Table.*  One row per order; no execution is invented; orders that are settled
  do not stay open where the schedule has a run to close them; a repair gives
  every sale its true profit.
* *A run of the trader.*  Never more sold than is free, never more bought than
  slots, plans and (but for the spread of one order) cash allow, whatever falls
  back on what; no sale is recorded that did not happen.
* *Risk loop.*  What is young is kept, what has crashed is sold.
* *Screener and pipeline.*  The best list under the rules; the trader acts on
  the manager's own, whole run of the day; the review rates that run; the
  pipeline ends.
* *Balances.*  A balance is of its date, stays what it was unless two processes
  are at its file, and a summary is complete only when both sides can be compared.

The hazards this gives are listed, each at its line, in `PROJECT.json`.

## 2. Modules

| Module | Models | Instance for TLC |
|---|---|---|
| `OrderPersist` | the durable order protocol, with both callers, the reconciler's backfill, the broker and kills | `MCOrderPersist` |
| `DurableSell` | what that protocol promises for the risk manager's sells | |
| `OrderPersistProofs` | the theorems about `OrderPersist` | |
| `StrategyFiles` | the flag and cooldown files and the partial sells and buys that ask them | `MCStrategyFiles` |
| `StrategyFilesProofs` | the theorems about `StrategyFiles` | |
| `TradeLedger` | the rows of `trade_records`, their writers and the reconciler, against what KIS did | `MCTradeLedger` |
| `LedgerWeek` | the table in the week of the scheduler: sessions, the mornings of batch check and reconciler, the 36 hours it looks back | `MCLedgerWeek` |
| `TradeLedgerProofs` | the theorems about `TradeLedger` and `LedgerRepair` | |
| `LedgerRepair` | prices and profits in those rows, and the repair | `MCLedgerRepair` |
| `TraderAccount` | the account at KIS, snapshots of it, and the submission of an order | |
| `TraderSells` | the first half of a run: snapshot, rebalancing, partial sales, sales, their rows | |
| `TraderBuys` | the second half: gates, slots, re-buys, rounds and the order ladder | |
| `TraderRun` | both halves beside KIS and the risk manager, and what must hold | `MCTraderRun` |
| `TraderRunProofs` | the theorems about `TraderRun` and its halves | |
| `RiskRules` | what the risk manager decides about a holding, as operators | |
| `RiskCycle` | the loop, the cycle and the sales, beside KIS, the trader and the reconciler | `MCRiskCycle` |
| `RiskCycleProofs` | the theorems about `RiskCycle` | |
| `ScreenerSelection` | from the master list to the candidates, the funnel and the notes | `MCScreenerSelection` |
| `ScreenerSelectionProofs` | the theorems about `ScreenerSelection` | |
| `ScreenerRun` | staging, publishing, promoting, reviewing the artifacts of several runs | |
| `DecisionDay` | the manager's job, gate and pipeline over `ScreenerRun` | `MCDecisionDay` |
| `DecisionDayProofs` | the theorems about `ScreenerRun` and `DecisionDay` | |
| `DailyBalance` | the balances and the summary, by the manager and an operator | `MCDailyBalance` |
| `DailyBalanceProofs` | the theorems about `DailyBalance` | |

The three `Trader` modules extend each other and `TraderRun` composes them; so
do `RiskRules` and `RiskCycle`, `ScreenerRun` and `DecisionDay`, `TradeLedger` and
`LedgerWeek`.  The same sell
order appears at three levels: with every file write in `OrderPersist`, with its
row in `TradeLedger`, and as saved or not in `RiskCycle` and `TraderSells`.  The
correspondence of every definition to its lines is the `map` of `PROJECT.json`.

### OrderPersist

An element of `Order` is one submission to KIS.  It stands for the journal file
(correlation id), the broker's order (ODNO) and the name of the lock file; its
ticker and its submitting process are constants.  `pc` and `cur` say where the
risk process and the trader stand in their routines and which submission they
are working on; `journal`, `rows` and `locks` are the files and the table;
`broker` is what KIS holds; `scan` and `recon` are the reconciler's list and the
row it has just written.

| Action | Code |
|---|---|
| `RiskCheckLock`, `RiskBegin`, `RiskSubmit`, `RiskMark`, `RiskException`, `RiskFlags` | `_direct_execute_sell` between its file and broker calls, `_direct_execute_partial_sell` |
| `TraderSubmit`, `TraderCheckDelayed` | one request of `_order_cash_retry`; the check for an execution when the last answer had no number |
| `TraderBegin`, `TraderMark` | `_persist_trade_durable` |
| `RecordTrade`, `PersistOk`, `PersistFailed`, `ReconcileRequired`, `CreateLock` | `persist_broker_order_to_db`, one action per write |
| `DetectBrokerOnly`, `BackfillRow`, `BackfillClear` | `order_reconciler --backfill-broker-only` |
| `Fill`, `Crash`, `ReconCrash` | the broker; a kill between two calls |

Every action ends at a call other processes can see.  The answers of KIS are
nondeterministic: the order is taken or not, and the answer carries the ODNO,
only `rt_cd = 0`, is empty, or is lost in an exception.  Without a number the
trader takes any recent execution of the ticker for that of its order: that order's
own, one of another order, or one of neither process (the symbols in the constant
`Elsewhere`).  An order KIS never took can so get a journal, a row and a lock;
`JournalTruthful` and `LockEvidence` allow exactly this (`Backed`).  Left out:
failures of the journal's own file writes, and quantities and prices.

`DurableSell` has three variables, the stage of a sell, the sells that hold
their ticker and the sells whose flags were written.  `OrderPersist` implements
it with `stage` read off journal, broker and table (`StageOf`), for the risk
manager's sells.  Its interest is in the guards: a sell is intended and sent
only while no unrecorded sell holds the ticker, and a hold can be taken only on
a free ticker, although the code checks the lock well before it submits.

### StrategyFiles

`flags` and `cool` are the two files, maps from tickers to days (0: no entry) or
`Torn` between `open("w")` and the end of `json.dump`; `mem` is the trader's
`cooldown_list`, loaded once per run.  `job`, `at`, `tk` and `buf` say which edit
each process is in, at which call, for which ticker, and what it is going to
write.  `Check` is the pair of guards before a partial sell, `SellPart` the
order with its three outcomes, `LoadFlags`, `LoadCool`, `OpenFile` and `DumpFile`
the steps of every edit, `TraderStart` and `TraderEnd` a run of the trader,
`Settle` and `Tick` the end of an open sell and the calendar.

The history variables `again` and `early` record a second partial sell within the
window and a buy within a cooldown; `noflag` and `nocool` record the events that
can lose an entry.  The two invariants say that the bad things happen only after
such an event, so they fail as soon as a guard, an expiry or an edit is wrong,
and they hold although the files have no lock.  `noflag` counts every overlap of
the two processes' sections as a possible loss, also one that lost nothing.
What a run of the trader does with its tickers, and in which order, is left
open; simulated trading writes flags without an order and is left out.

### TradeLedger, LedgerWeek and LedgerRepair

In `TradeLedger`, `st` and `exe` are KIS: the state of an order and its executed
shares.  `rows` is the table of one ticker; a row is its order id, status and
executed quantity.  `up` is an upsert between its SELECT and its write (two
connections), `orphans` and `kis` are what the reconciler has read, `holding` the
shares at KIS and `held` what the batch check has loaded of it.  `Record...` are
the rows written for an answer, for executions found by number, by ticker or in
the holdings; `Batch...` is `batch_execution_check_and_cancel`, `Recon...`,
`...Orphan(s)` and `Backfill` are the reconciler.  A run (`ReconStart`) reads any
subset of the open rows, and `--limit` and the windows of
`find_recent_sell_duplicate` are not modelled as times and prices.  Three history
variables record the orders whose execution was read off the holdings (`guessed`),
of which two upserts overlapped (`overlapped`), and which were given to a row
without id (`matched`); the invariants hold for all others.

`LedgerWeek` puts the same steps at their times, as far as the 36 hours of the
scheduled reconciler need them.  `night` and `hour` are the weekday of the last
evening and its session or the morning after it, `age` counts the nights since the
timestamp of each row (`Stamp` sets it, updates of the status do not), and
`Readable` is what `--since-hours 36` reaches at 06:10: the last night and the one
before.  The jobs are registered for the mornings of Monday to Friday, and
Monday's is skipped, since it is Sunday in New York; so the nights with a run are
those of Monday to Thursday (`RunNights`).  A run may be missed, be killed or not
get an answer, but never two in a row (`outage`).

`LedgerRepair` adds what `TradeLedger` leaves out, on one ticker and without the
races of the upsert: `Trade` records an order at its quote, with the profit of a
sell against an earlier buy; `Settle` and `Corrected` bring the price of the
execution; `BackfillRecord` writes the row of an order nobody recorded,
and `CorrectBuy`, a step later, corrects that of the buy it was matched with (`due`);
and `Read`, `Apply` and `Leave` are
`ledger_repair.py`, between which the others may take a step.  `FifoMatchSell` takes
the shares of one sell from the lots in turn (`Take`).  The loop over the timeline is
`LotsAfter`, a function of the part of the timeline behind it: its value for a set of
orders is that without the last of them (`LastOf`), and that one's lot or sell.

### TraderAccount, TraderSells, TraderBuys, TraderRun

`hold`, `liveBuy`, `liveSell` and `cash` are the account at KIS, `seen` the last
snapshot, `ord` the order the trader waits for.  A load may fail, come back
implausible, or lack the answer of an exchange and count as good
(`Incomplete`); an order may be taken and its answer lost, which the retry then
repeats (`Send`); the risk manager may sell beside.  A share costs 1, so that
cash, slots and sizes meet in the same small numbers.  That is the price the
quantity of an order is capped at; an order that crosses the spread (a marketable
one, one at the market price) costs up to `Dear` more a share and is not capped
again.  `premium` is the most that one order cost above its cap.  What KIS releases
when such an order is filled for less is left out: it only raises the cash.

`TraderSells` goes through `main` and `run_sell_logic`: the account check
(`Validated`), `Weigh`, `Reduce` (rebalancing), `Keep`, `SellPart`, `SellAll`, and
`CheckSale` and `CompareHoldings`, which decide from two snapshots what is recorded
as sold.  `TraderBuys` goes through `run_buy_logic`: gates, slots, the extra buys
with their two fallbacks (`LimitRebuy`, `MarketRebuy`, `Market1`, `Market2`), then
three rounds in which a plan is bought by a limit order, a marketable one and one
at the market price (`LimitOrder`, `Placed`, `LateFill`, `MarketableOrder`,
`Crossed`, `MarketOrder`, `Poll`, `Confirm`); what failed is tried again in the
next round.  Which holding is sold for what reason is left open.  The plans are a
constant; which of them the cooldown and the re-buy rules let pass is any part of
them in their order (`PlansFor`).

### RiskRules, RiskCycle

`RiskRules` is `check_sell_condition` as operators: the emergency drop, the
partial profit, stop and target with their backup levels, the RSI rules in both
versions, the previous close, and the mixer of the strategies, in their order.  A
rule that reads market data gets a fact with one value per outcome; prices are in
cents and cut to dollars as `_to_int` does.  `RiskCycle` keeps the balance file,
what the trade table says of the age of a holding beside its real age, locks,
flags and open sells, and where the loop is.  `Judge` takes the file's view of the
holding and the rows as they are now; `Order` and `OrderTooLate` are the two
guards of the sale; `Start`, `Crash`, `Rest` are watchdog and thread (a KIS client
that cannot be made is not tried again, a token that is refused is); `Fill`,
`Reconcile`, `Buy`, `PriceMoves`, `Opens`, `Closes` and `WeeksPass` (for one
ticker) the world.  Two histories say when the table cannot know the age of a
holding: `lost` are the tickers bought without a row after an earlier purchase
that has one, `loop.unaware` an order that was judged of such a ticker or before
the purchase.

### ScreenerSelection, ScreenerRun, DecisionDay

A stock of `ScreenerSelection` is its place in the order of the scores.  Filters
and scoring let any subset pass; from there `PipelineStages` computes threshold,
filters, eligibility, one stock per issuer and the sector share as the code does,
and `PassSets` and `EmptyReason` compute a second time, from the rows, what the run
says of itself.  `funnel` is what `FunnelRecorder` has, `Sanitized` its repair;
`Taking` is the list after each stock, `Chain` the funnel after each rebuilt stage.

`ScreenerRun` knows a file by the run that wrote it.  `Begin` resolves the policy,
`Publish` renames the staging directory, `PromoteFile` and `PromotePointer` copy the
fixed files one by one, `PublishDiagnostics` and `EndRun` end the run; `Fail` is the
exception handler of `main`, which writes a manifest of its own, `Kill` a timeout;
an `ArtifactError`, which leaves no manifest, is as a kill.
`DecisionValid` and `StepValid` are what the gate and the steps ask, `Discovered`,
`Trusted` and `DiagnosticsTrusted` what the quality review asks.  `DecisionDay` adds
the job, the pipeline with its attempts (`StartStep`, `GateCloses`, `AttemptFails`,
`Retry`, `StepDone`), a restart of the manager, and the files the steps hand over.
The news are of the candidates of the day or, if those fail the validation, of the
latest file of candidates, which may be the full one (`NewsInputs`).

### DailyBalance

`files` holds the snapshots by place (canonical, legacy), kind (open, close) and
date in the name; `latest` and `accFile` are the sources.  An amount is represented
by the moment it was read, so that "of its date" and "not overwritten" can be
said.  `Capture`, `Repair`, `Migrate` and `Summary` begin a job, `Reload` and
`WriteMeta` are the rest of a summary.  A file is written in three steps: the process
looks whether it is there (`LookCanonical`, `LookLegacy`, `LookMigrated`; a repair
goes on to its copies with `RepairCopy`), writes a temporary file (`WriteTmp`) and
moves it into its place (`Move`).  `tmp` is that temporary file, whose name is the
same for all processes, so that the other one may write over it, or move it away and
make the own move fail (`MoveFails`).  The history `overtaken` records files that the
other process replaced since a process looked.  Each process has one job under way
and may be killed between any two of these steps.

The snapshot of the trader named after its session and `account_snapshot_latest`
have the same contents and are one source.  The risk loop and the trader run
`account.py` too; the model changes `accFile` in captures only, since any other
change could only make the hash of `SourceUnchanged` differ.  The text of a file is
written at once.

## 3. Runs

| Run | Instance | Shows |
|---|---|---|
| `order_persist` | two risk sells and one trader order, one ticker, symmetric sells | the safety of the order protocol and the implementation of `DurableSell` |
| `order_persist_recovery` | two trader orders, operator fairness | every execution is recorded |
| `strategy_files` | one ticker, three days, flags of one day, cooldowns of one and two days | flags and cooldowns are lost only in the ways the code admits |
| `trade_ledger` | a buy and a sell of two shares, one share held | no invented execution, one row per order |
| `ledger_week` | one sell, sessions on five nights of a week, every second run may fail | a row of a session that two runs follow does not stay open |
| `trader_run` | two tickers, up to two shares held, three units of cash, orders up to one unit a share above their cap, one or two slots, one fault | the limits of a whole run |
| `daily_balance` | two trade dates, the second from its session to its close, legacy files, one command | balances are of their date, and change only by a rebuild or where two processes are at one file |
| `risk_cycle` | two shares under every set of rules, and a share of each of two tickers; one fault | young holdings are kept where the table can tell, a crash is acted on |
| `ledger_repair` | four orders over two days, two buy prices, lots of two, sells of one or two | the repair is exact |
| `sale_against_last_buy` | the same | (violation) a sale is recorded against the earliest buy |
| `screener_selection` | three stocks, two issuers, two sectors, four settings | the list is the best one and accounted for |
| `decision_day` | the manager's run and one of an operator, two attempts | own, whole and reviewed run; the pipeline ends |

Bounds, and why they are enough.

* `OrderPersist`.  Two sells of one ticker are what the lock properties need (the
  one that holds, the one held back); the trader's order adds the other persist
  path and rows without id.  A submission is used once, so behaviours end: the
  runs do not check deadlock.
* `StrategyFiles`.  Both processes edit whole maps, and an entry is lost through
  an overlap on the ticker itself; three days are enough for a flag to be in force,
  to end and to be set again, and for a cooldown of either length to end.  With two
  tickers and three days the state space is beyond a run of five minutes.
* `TradeLedger` needs a buy and a sell (their paths differ), two shares for partial
  executions, and one share held at the start, so that the sell does not wait for
  the buy and the batch check meets a ticker that is held.
* `LedgerWeek` has one sell of one share: what matters is when its row is written and
  when it is read.  An age beyond the window is as good as any other (`Old`); the
  week starts again after its seventh night.
* `TraderRun`.  One fault of any kind (`MaxEvents`) can strike between any two
  steps; with two tickers one of them can take the slot, the cash or the plan of
  the other; three units of cash over a reserve of one leave room for two shares
  and no third, so every size and fallback meets the limit, and an order one unit
  above its cap (`Dear`) cuts into the reserve.
* `DailyBalance` covers the second of two dates from its session to its scheduled close,
  with a file of the first that an earlier version left under either name, so that
  repair, migration and the alias under the next day's name all occur; one command of
  an operator is interleaved with all the jobs.  A change of the date while a job is
  under way is outside these two moments: the theorems hold for any clock.  The run
  has 3.6 million states.
* `RiskCycle`.  Two shares allow a part and a rest; the second ticker is there for
  a cycle that fails before it.  Weeks pass in one step, for one ticker at a time:
  two ages are all the rules tell apart.  The run checks deadlock.
* `LedgerRepair`.  Two buys at different prices and sells that end inside and
  across a lot are the cases of the matching; one order may be odd (no time, no row
  or executed in part), one unsettled.
* `ScreenerSelection`.  Three stocks are the least for a better one of the same
  issuer beside one of another sector; list lengths 0, 1 and 2 with and without a
  sector share are the four settings.
* `DecisionDay`.  The second run can be anything an operator may start, at any
  time and with any flag; two attempts contain a retry and a last failure.

Fairness.  `RecoverySpec` assumes that a started backfill run goes on, that an
operator starts it again while there is something to backfill
(`WF(DetectBrokerOnly)`, `WF(BackfillClear)`), and that an upsert tried again and
again succeeds at last (`SF` on its successful branch).  The code schedules the
reconciler every morning without `--backfill-broker-only`
(`integrated_manager.py` 3796-3818), so the assumption is about an operator, and
nothing is assumed of the two trading processes.

`WeekSpec` of `LedgerWeek` assumes that a scheduled run is started, that a run and a
program that has an answer of KIS go on, and that the days go by (`WF` of
`ScheduledRun`, `RunStep`, `ProgramStep`, `MorningComes`, `NightFalls`).  The
scheduler does so (`integrated_manager.py` 3796-3818, 4111-4127): on the mornings of
weekdays on which New York has a session.  Of failures it assumes that no two runs
in a row are missed, killed or left without an answer, no more; `TwoRunsSettle` says
what this is enough for.  What it is not enough for is in section 5.

`DaySpec` of `DecisionDay` assumes that the manager's thread goes on
(`WF(Manager)`) and that the screener script it waits for does or is killed by the
timeout of `run_script` (`WF(RunGoesOn(job))`).  Nothing is assumed of operators.

`FairSpec` of `RiskCycle` assumes `WF(Loop)`: the thread is rescheduled every five
minutes within a session and started again by the watchdog, and a step of it ends,
since every request has a timeout.  A fault is bounded by `MaxFaults`, so a
session sees at most one of them; the property is about what happens after it.

## 4. Proofs

Eight modules hold the proofs.  Their theorems hold for every value of the
constants that meets the named assumptions; the runs show the same properties on
one instance each.  Except for the type invariants of `OrderPersist` and
`TradeLedger`, no invariant is proved by itself: each module has an `IInv`
(`LedgerRepair`: `RepairInv`) that the initial states satisfy and every step
keeps, proved with one step per action, and the theorems follow from it.  Each
`IInv` was checked by TLC on the instance of its run before it was proved.

Assumptions.  They say of which kind the constants are, and little more:

| Assumption | Says, beyond the types of the constants |
|---|---|
| `OrderAssumption`, `LedgerAssumption`, `RunAssumption`, `DayAssumption` | the values that stand for "none" are no orders, runs or days |
| `WeekAssumption` | sessions are on nights of Monday to Friday (used by no theorem) |
| `StrategyAssumption`, `TornAssumption` | the cooldown after a partial sale is not longer than the other one (`config.json`: 5 and 20 days); a torn file is not a map |
| `CycleAssumption`, `RulesAssumption` | prices are positive |
| `RepairAssumption` | prices, shares and the last day are positive |
| `BalanceAssumption` | files of earlier versions are unmarked and of their date |
| `SelectionAssumption` | the master lists a stock; the settings are numbers and switches, the shares of a sector in percent |
| `AccountAssumption`, `BuysAssumption`, `TriesAssumption` | there are finitely many tickers; no two plans for one ticker |

### OrderPersist

Proved: `TypeOK`, the five safety invariants, the two action properties, and
`Spec => Durable!Spec`.  `IInv` adds:

* `InHand`: what a process in the middle of its routine knows of its order (past
  the submit it is at KIS, before it the journal is `created`, at `persist_ok` it
  has a row, ...).  Without it nothing connects `pc` to the files.
* `SellUnlocked`: while the risk process has an order in hand, no lock of a sell
  of its ticker exists other than through that order.  It is what makes the early
  lock check enough: the risk process is the only creator of sell locks and it has
  one order at a time.
* `ReconRecorded`, `RowsAtBroker`: what the reconciler has read or written belongs to
  an order KIS has.

That a row, journal or lock of the trader's has something behind it rests on the
lemma `BackedStays`: KIS forgets neither an order nor an execution.

For the refinement, each action is shown to be a step of `DurableSell` (`SellStep`)
or to change none of the three mapped variables (`Stutter`).

### StrategyFiles

Proved: `TypeOK`, `OnceUnlessUnflagged`, `RebuyBlockedUnlessStale`, for any tickers
and any lengths of the flag, the two cooldowns and the clock.

* `FlagInv`: as long as a ticker had none of the events of `noflag`, the flag of its
  last partial sale is in force somewhere: in the file, in the map a process is
  about to write, or still to be entered by the process that sold (`FlagOnWay`);
  and a process that decided to sell read the file when the last one had expired.
* `CoolInv`: the same for the cooldowns, which have a third place, the trader's own
  copy.  While the trader runs its copy is the file, and holds the promise.
* `FlagsSold`, `CoolBounded`: flags are of tickers that were sold, and no cooldown
  ends later than the longest one begun today.

### TradeLedger

Proved: `TypeOK`, `NeverMoreThanFilled`, `OneRowPerOrder`, for any number of orders
and of shares in them.

* `AllBacked`: whatever is about to be written (an upsert, an answer of KIS the
  reconciler read earlier, an execution the backfill found) claims no more than KIS
  executed.  It is stable since executions are never taken back.
* `SelectedRow`, `WritersOverlap`: an upsert past its SELECT still knows the only
  row of its order; and if two are there for one order, that order is in
  `overlapped`.  This is where an insert after a stale SELECT would break the
  uniqueness.

### LedgerRepair

Proved, in `TradeLedgerProofs`: `RepairTypeOK` and `RepairExact`, for any prices,
shares, days and number of orders.  `RepairInv` adds to the type invariant:

* `SoldFromBought`: at no point of the list of orders had more been asked to sell
  than was bought up to there.  `Held >= Promised` says this of the whole list only,
  and does not say that the lots suffice for a sell in the middle.
* `ByDay`: the list is in the order of days, so that the timeline of the repair,
  which sorts by time and puts buys first, differs from it within a day only.
* `ReadBefore`: what the repair has read are the first orders, with executions that
  no later step changes.  A row that the repair writes then fits the order as it is.

`RepairExact` compares two accounts of the same sales: the lots, order by order, and
the shares, one by one.  `Covers` ties them together: of the shares bought in the
timeline so far, the lots are those not yet sold, in their order and each with the
price of the order that bought it.  `LotsCovered` shows it of every part of the
timeline, `MatchStep` of every lot within a sell: as long as the sell needs shares,
what it has taken is worth the shares up to there (`Needs`), and afterwards the lots
begin with the share behind the last one taken (`HasAll`).  That no sell of a complete
history runs out of lots is `SoldFromBought`.  From the matches being exact it
follows that the rows hold them, that the total is their sum (`Total`, the same fold
on both sides, stays unexpanded), and that a second repair proposes nothing.

### ScreenerRun, DecisionDay

Proved: `TypeOK`, `FixedWhole`, `TradesOwnRun`, `OldPlanOnlyWithoutCandidates`,
`ReviewFindsTraded`, for any number of runs beside the manager's and of attempts.

* `Published`, `Completed`: what a run has left, by how far it is; the order of
  completion holds every finished run once.
* `Promotion`: as long as promotions do not overlap or end half-way, the fixed files
  up to the step of a promoting run are its own and the others the pointer's.
* `OwnPlan`: while the candidates on disk are those of the job, no other run has
  made the plan; the gate makes the premise true before the trader.
* `Faultless`, `InTurn`: without a fault only the job is promoted, steps complete in
  their order, and a plan is missing only for an empty list.

### ScreenerSelection

Proved: `TypeOK`, `BestList`, `AccountedFor` and `ReasonTrue`, for a master of any
length, any issuers, sectors and settings.

* `WellChosen`: the candidates are of the stocks that pass every test (`Passes`), one
  per issuer, no sector over its share, and every other stock that passes stands
  behind a better one of its issuer, a full list or a full sector.  For the list of
  `diversify_by_sector` this is `TakenIs`.  Its heart is `TakingKeeps`: the list
  before a stock is the part of the final list that is better than the stock.
* `Ordered`: the recorded stages are the first of the ten, each lets out at most what
  it takes in and takes in at most what the one before let out.  The white and black
  lists make "at most" out of "exactly" (no stage records them), and `SanitizedIs`
  shows that `sanitize_for_storage` makes "exactly" of it again without changing the
  last count.
* `Told`: what the stages of the selection say is whether a stock was left.  Notes and
  reason are recomputed by the code from the rows; `Told` ties the two together.

The two loops, over the stocks and over the stages, are recursive functions in the
model.  The library's induction theorems cannot be used ("What stays with TLC");
what stands in for them is that a set of numbers has a least one: `UpTo` (what
goes from each number to the next holds of all) and `LoopExists` (a function with
the results of a loop after every pass exists, so that the `CHOOSE` behind a
recursive function finds it).

### RiskCycle

Proved: `TypeOK` and `YoungKept`, for any tickers, prices, rules and number of
faults.  `YoungKept` speaks of the real age of a holding at the moment its order
reaches KIS; the code asks the table, one ticker and several calls earlier.

* `Listing`: what is left to judge is in the balance file, which is not written in a
  cycle, so that a quantity to sell is at least one share.
* `RowTells`: the table calls no young holding old, unless it has the row of an
  earlier purchase only (`lost`).
* `RipeOrder`: an order in hand for a whole holding that is young now was judged when
  the table could not know better, or before the purchase.

`JudgeLeads` sums up the rules: a judgement leads to the next ticker, the end of the
cycle or such an order.

### DailyBalance

Proved: `TypeOK`, `OneDate` and `BalancesKept`, for any clock, number of commands and
files left by earlier versions.

* `LiveRead`: every source and file is of its date, and only a balance of the file
  of `account.py` can be usable and carry a rate.
* `JobsOK`, `TmpOK`: so is what a process holds between reading, looking and moving,
  and what a temporary file holds, whoever wrote it; a file that was looked at is
  still as it was unless its process is in `overtaken`, and a repair writes the
  amounts that are in the canonical file under the same condition.

`LookStep`, `CopyStep`, `WriteStep`, `MoveStep` treat the steps of a write for the
process that takes them, `Frame` for the other one.  `BalancesKept` is about steps:
`MoveEffect` says how a move changes the files, and `Presence` under which change a
date keeps its balance.

### TraderRun

Proved: `TypeOK`, `OversellOnlyRaced`, `SalesRecordedHappened`, `BuyLimits` and
`BoughtAsPlanned`, for any tickers, account, plans, slots, cash and number of faults.
`IInv` has a part for each:

* `TypesOK` also says where in the run there is a plan or an order in hand
  (`Staged`), and that what is left of an order waited for is live (`OrderLive`).
* `SellsKnown`: of what may still be sold from a snapshot, the snapshot shows no
  more than is free.  It holds from one sale to the next since every ticker leaves
  the list with its sale.
* `RecordedOnce`: a ticker is recorded once, and the difference of two complete
  snapshots is at most what was sold in between.
* `CashKnown`, `ReserveKept`: an order is made from a snapshot that shows no more cash
  than there is, nothing is spent between the quantity and the order, and an order
  that costs more than its cap adds no more than `premium`, since the next is capped.
* `Planned`: the lists of plans hold every ticker once; re-buys are of what is held,
  the rest is not.
* `Amounts`: what is still wanted in this or a later round (`Wanted`) was not bought,
  unless an order of it was given up on.
* `Slots`: the positions are at first those the snapshot told of, then those and at
  most the tickers of a set `W` as large as the free slots, to which every later
  round keeps.

Each action is treated once for every part, in lemmas for the first half
(`SellStep`), the second (`BuyStep`), and KIS and the risk manager beside them.

### What stays with TLC

* `EveryFillRecorded`, `TwoRunsSettle`, `PipelineEnds`, `EmergencyActed`: liveness
  under fairness is out of the prover's reach.
* What a recursive function computes for every input can only be said where the
  recursion goes over numbers or over a finite set: the library's induction theorems
  take an operator as a parameter, which no installed prover can instantiate, so
  `UpTo` and `LoopExists` stand in for them.  All recursion that the proofs meet is of
  this kind; `Total`, a fold of the library, is never expanded.
* What TLC alone can tell: that the bounds let the cases happen (every
  action fires), and that each property can fail (its mutant does).

Every safety invariant and every action property that a passing run checks is a
theorem.

## 5. What the model found worth knowing

`PROJECT.json` has one finding with a run, the profit of a sale that is recorded
against the earliest buy although the comment beside it says the latest.  The
rest is what modelling the code brought up: disagreements with a document, and
consequences a reader of one function does not see.

Orders and files

* When the last answer of a submission has no number, the trader asks whether the
  ticker was executed of late, of whichever order and side (`trader.py` 2589-2596,
  1992-2009), and records the order as taken if so, also one that KIS never took.
* The trader journals after it has submitted (`trader.py` 2579, 2299), while
  `broker_order_persist.py` 4 asks for the journal first; a kill in between leaves
  only KIS knowing of the order.  A persist lock does not stop its orders
  (`README.md` 353 against `trader.py` 2311-2313).
* `SellUnlocked` rests on there being one selling thread.
* A lock made after the reconciler has written the row is never cleared.
* The trader decides on buys from a copy of `cooldown.json` as old as its run and
  writes it back whole: a cooldown the risk manager adds meanwhile is neither seen
  nor kept (the cooldown after a partial sale, `README.md` 787).
* The batch check takes a holding for an execution: a pending buy of a ticker that
  was held before counts as executed (`trader.py` 1845 against 1846).
* `reconcile_open_orders` updates rows of any status, so an old answer reopens an
  executed row until the next run.  An order that expired, or was cancelled after a
  part, stays open for ever.  A row without id can be given an order that has one.
* `order_reconciler.py` 8 and `README.md` 371 say that the regular runs keep open
  rows from piling up.  No scheduled run ever reads a row of Friday's US session:
  the batch check and the reconciler of Monday are skipped
  (`integrated_manager.py` 3755, 3800), and Tuesday's 36 hours reach back to
  Sunday evening.  The same holds for a row that two missed runs have left
  behind.  Such a row stays open until an operator takes a longer `--since-hours`,
  as `README.md` 380-388 shows, and an open SELL row blocks partial sales of its
  ticker.

Prices and profits

* The trader looks for the action `buy` in rows that say `BUY` (`trader.py` 3533): its
  own profit is never set.  Rows written by the repair carry a time zone, and
  `datetime.now() - buy_time` (`recorder.py` 1615) then raises: the next sell of the
  ticker gets no row.
* `compute_fifo_sell_pnl` takes one earlier buy, not the first lots in.
* A repair of a window that begins after a buy marks wrong lots as complete; one
  that overlaps a writer puts stale fields back.  Its check before the commit looks
  at the number of rows only.  `RepairExact` therefore speaks of a repair of all days
  that nothing overtook.

A run of the trader

* A balance query one exchange refuses counts as an empty exchange
  (`kis_overseas_account.py` 463-481), the snapshot is valid, and the slot limit can
  be exceeded; `BuyLimits` excludes exactly that (`gaps = 0`).
* The marketable order keeps the quantity that was capped at the lower limit price
  (`trader.py` 6286-6298): one order at a time cuts into the reserve by the spread.
  `BuyLimits` says that it does not add up.
* A snapshot that failed after a sale was refused reads as a full sale, against
  the description in `account_snapshot.py` 157.
* A sale that fills between the account file and the snapshot sets
  `ACCOUNT_SYNC_MISMATCH` and blocks all buys of the run.
* The second market fallback of a re-buy runs again after a success with nothing
  executed (`trader.py` 5661) and records the whole holding; a fallback leaves the
  earlier order live, because `cancel_all_pending_orders` does not exist.
  `loose` collects these tickers.

Risk loop

* Prices are cut to whole dollars: a share bought at 11.40 is stopped at 11.60 if
  the level is 11.
* The emergency rule sells all shares and is refused while a partial sale is open.
  A KIS client that cannot be made is not tried again while the thread lives.  An
  exception in one judgement leaves the later holdings of the cycle unjudged;
  switching the previous-close rule on makes every such judgement fail
  (`risk_manager.py` 1863 calls a method that does not exist).
* The minimum hours are counted from the latest BUY row of the ticker (`utils.py`
  1836), whether or not its shares are still held.  A holding bought without a row
  (the write failed) after an earlier purchase is judged by that one's row, and sold
  before its time, although `README.md` 785 promises 14 days and a block without a
  row.  `YoungKept` allows this case and that of a purchase after the judgement.
* Without a BUY row, the minimum hours keep a holding and the minimum days let it
  go.  In the hybrid mode the strategies may overrule a KEEP, but not the hours.

Screener, pipeline, balances

* With no candidates there is no news, GPT exits 0, and the trader buys from the
  newest plan file there is, that of an earlier day (`README.md` 318).
  `OldPlanOnlyWithoutCandidates` says that this is the only way without a failure.
* The promotion copies the meta file first, although its comment says last
  (`screener_artifacts.py` 1118); readers are saved by the digests.  Two DECISION
  runs that both begin before a fixed file exists both promote.
* The review takes the newest successful DECISION directory, not the pointer: a
  DECISION that was not promoted can stand in for the one that was traded, and a
  run that was promoted and then crashed is not reviewed.  `ReviewFindsTraded` has
  these as its premises.
* The gate compares the fixed files with the run of the job, not with the plan the
  trader will take (`integrated_manager.py` 3485-3493).  If the job found nothing,
  GPT has already read the candidates of a second run, and a third one that found
  nothing is promoted, the files pass as the job's and the plan of the second run
  is traded.  This came up as an induction step that would not close;
  `TradesOwnRun` is therefore stated for a job that found candidates.
* The notes and the pass sets leave out momentum and volatility; an empty first stage
  is called `AMOUNT5D_DATA_UNAVAILABLE` whatever emptied it, except that the removal of
  invalid tickers says `SCORING_FAILURE_ALL` (`screener.py` 3988-4014).
* A pipeline that fails once reports FAIL also after a retry that succeeded.
* A capture does not overwrite a balance that is there (`integrated_manager.py` 860,
  `README.md` 216), but asks `exists()` (1191) well before it replaces the file (1203):
  a scheduled and a manual capture can both find none, and the second replaces the
  amounts of the first.  They share the temporary name (1199) as well.
* A snapshot of the trader has no exchange rate, so every summary with one is
  PARTIAL; the close at 06:00 can be a snapshot taken in the session
  (`README.md` 144).  A rebuild can overwrite a legacy file under its name that
  holds the only balance of another date.  The close of a Friday is captured on
  Monday at 06:00 only.

## 6. Plan

Everything the plan of the first version had is modelled: order protocol, strategy
files, table and repair, the trader's run, the risk rules and loop, the screener
from selection to review, the pipeline, the balances.  All safety properties the
passing runs check are proved.  What is left are facts between modules: a sell that
`OrderPersist` holds back is one `RiskCycle` treats as locked; a sale that
`TraderRun` records is a row `TradeLedger` writes.

## 7. Not modelled

* Rotation (`rotation_policy.py`, `rotation_manager.py`, the swaps in `trader.py`
  5755-5907, 6348-6522) and the split buying of `trader.py` 2875-3088: both are
  switched off (`config.json` 302-303, 363-364). The economics rule of the rotation
  takes a difference of scores for a percentage of the proceeds
  (`rotation_policy.py` 106-107); that is worth a look before it is switched on.
* `repair_backfilled_trades_from_ccnl` and what it calls (`order_reconciler.py`
  1235-1627): a deprecated option; the ledger repair has replaced it.
* Screener scoring and its offline analysis, replays, outcomes, simulations and the
  performance reviews: numeric work over data frames and reports that hold no
  protocol state and feed no order.
* The texts of GPT and news: outside services whose results are inputs.
* Market data requests and parsing: their outcomes are the nondeterministic answers
  of the models.  The domestic (KRX) branches: the configuration trades US stocks.
* The KIS token file shared by the containers: whether a second token ends the
  first is decided at KIS; a refused token is a refused request to every model.
* Notifications, configuration reading, debugging output and clean-up.
