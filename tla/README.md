# A TLA+ verification of ghambla

Ghambla is a point-in-time equity trading system: it ingests bars, fundamentals and news
into SQLite, scores a universe from what was knowable on a date, and once a day turns the
scores into a portfolio, through a risk gate, against a broker. This directory holds TLA+
specifications of the part of it that handles money unattended and of the part that decides whether
a strategy deserves any (the store, the backtest and the verdict on it), the TLC configurations
that check them, and proofs that TLAPS checks.

Source paths are relative to the repository; `ghambla/` stands for `src/ghambla/` there.

    tlc -config RunsFailing.cfg MCTradingRuns      # one run of the table below
    tlapm TradingRuns_proof.tla                    # one proof module

## 1. The system

| Component | State it keeps | Operations | Talks to |
|---|---|---|---|
| Decision journal (`journal.py`) | a JSON Lines file | `append`, `read`, `last`, `count` | written by the cycle; read by the cycle, the scheduler, paper check, mark to market and the dashboard |
| Reconciliation (`reconcile.py`) | none | `reconcile(expected, actual)` | called by the cycle |
| Risk gate (`risk.py`) | limits only | `evaluate(targets, state)` | called by the cycle, and by the backtest when asked to |
| Simulated broker (`broker.py`, `costs.py`) | cash and positions in memory, a JSON state file | `connect`, `snapshot`, `place`, `disconnect`, `_save` | driven by the cycle |
| Daily cycle (`cycle.py`) | locals of one call | `run(as_of, halted)`, `_orders_for` | store, signals, gate, broker, journal, quotes |
| Scheduler and commands (`scheduler.py`, `cli.py`, `run_daily.sh`) | none of their own | `run_once`, `main`, `cmd_cycle`, ... | a cron job or a person starts them; ingest is a command of its own |
| IBKR adapter (`ibkr.py`) | a session with the gateway | `connect`, `snapshot`, `quotes`, `place` | the same `Broker` interface, a venue behind it |
| Feature store (`store/store.py`, `store/schema.py`) | SQLite tables, an in-memory bar cache, split cache | upserts; reads "as of" a date | everything |
| Ingest (`store/ingest.py`, `edgar.py`, `sp500.py`, `universe.py`) | none | fetch, parse, upsert | network, store |
| Signals, volatility, regime (`signals/*`, `vol.py`, `regime.py`, `cef.py`) | none | `evaluate(as_of, symbols)` | store |
| Portfolio and allocator (`portfolio.py`, `allocator.py`) | none | scores to weights | signals, backtest |
| Backtest, walk-forward (`backtest.py`, `walkforward.py`) | cash, holdings, pending targets of one call | `run`, windows | store, signals |
| Evaluation, placebo, diagnosis | none | statistics | backtest results |
| Mark to market, paper check, dashboard | none, or a poll loop | readers | journal, store, quotes |
| Quotes, live news, crypto classification (`quotes.py`, `news_live.py`, `crypto.py`) | a response cache | fetch, parse | network |

**How a day goes.** Somebody runs the ingest commands. cron runs `run_daily.sh`, which is `python -m ghambla.scheduler`.
The scheduler connects the broker, takes the latest stored date, looks for a record of that
date in the journal, and if there is none runs one `DailyCycle`: snapshot the account,
reconcile it with the newest record, score, form targets, ask the gate, size orders with the
sells first, place them one by one, snapshot again, append one record. `disconnect` runs in a
`finally` and saves the account. `ghambla cycle` does the same without the check for a record
and can be started by hand at any moment. A tracker may mark the account for hours meanwhile, and the dashboard and
paper check read the journal.

**How a strategy is judged.** `run_backtest` preloads the bars of a window and goes through its days: cash out what stopped
trading, fill yesterday's decision at the open, mark at the close, decide. Walk-forward cuts the period into research windows
and a holdout, runs a backtest in each, and counts.

**What is hard about it.** Processes share two files and no lock: the account file is
rewritten whole by whoever saves last, the journal is appended. Either write can be cut short.
A run can raise or be killed between two fills and between the last fill and the record. The
state a run decides on was read before it acts. Belief about the account comes from a record
that a failing run never wrote or a halted run did write. Sizing, spread, commission, buffer
and order of the plan must work out so that every order is funded. On the research side a result is wrong without anything failing: a
row that was not yet known is read, a cache disagrees with its table, prices are restated for a split and share counts are not, a
symbol that stopped trading keeps its value, a window without data drops out of the count. `PROJECT.json` lists these
under `hazards`, each at its line.

**What makes each component correct.** The journal loses at most what interruptions cost and
never rewrites history. The gate only reduces, a halt holds the book and worse news never
lifts it, and what it answers satisfies every limit at once. The account is never overdrawn
or short, a fill never pays for itself, and the file is never behind the memory of the only run whose saves return.
Runs trade a date once, start only from the account the newest record describes, size
plans the broker can fund, leave a true record, end, and eventually record the newest day. A read as of a date never
changes for what becomes known later; a backtest depends on nothing that has not happened, never overdraws and carries
nothing dead; a member without a price is named; scores repeat; names do not decide ranks; the holdout stays unseen.

## 2. The modules

| Module | Models | State and actions |
|---|---|---|
| `JournalFile` | the journal's file and the effect of its operations | `lines`, `unterminated` (the last line has no newline); `AppendRecord`, `InterruptAppend`; `Readable`, `ReadRecords`, `LastRecord` are `read` and `last`. A line is a record or `Garbage`, a line `json.loads` rejects. Writing after an unterminated tail glues the new text to it. |
| `DecisionLog` | what a log promises: it only ever grows, by one record or one lost slot | abstract specification |
| `Journal` | the file's life under appends that return and appends that do not | `Complete`, `Interrupt`; implements `DecisionLog` with the settled part of the file as the log |
| `Reconcile` | `reconcile(...).ok` | operators |
| `RiskGate` | `evaluate` | operators; weights in percent, targets as functions on the names they hold |
| `OrderPlan` | `_orders_for`: sizes of the orders and the order they are sent in | operators, shared by the two systems of runs below and by the backtest |
| `Costs` | `costs.py` and the spread | operators, shared by broker and backtest |
| `SimulatedBroker` | the broker and its account file | `disk`, `mem[r]`, `connected[r]`; one action per operation, plus the saves that fail (before the file is opened, which leaves it as it was, or in the write, which leaves it torn) and the deaths |
| `BrokerSession` | any sequence of those operations, until a save raises | `SessionNext`, `SessionSpec`: composition for the broker on its own; `unsaved`, the runs a save of which raised, is history |
| `TradingRuns` | scheduler and cycle runs over all of the above | EXTENDS the broker, the gate, reconciliation and `OrderPlan`, INSTANCEs the journal file |
| `MCTradingRuns` | values for its constants | price lists, quotes, holdings wanted |
| `IBKRBroker` | the IBKR adapter's `place` and the venue | `account`, `orders` (every order placed); `Submit`, `StopWaiting`; the venue's `Execute` and `Expire` |
| `IBKRRuns` | daily cycles against it | `Begin`, `PlaceOrder`, `HandOver`, `PlaceReturns`, `Write`, `Stop`, `VenueMoves` |
| `MCIBKRRuns` | values for its constants | |
| `MarkToMarket` | the tracker beside the runs that own the file | EXTENDS `BrokerSession` by `book`, `first`, `sample`; its `TrackSpec` is `SessionInit` and `SessionNext` beside the tracker |
| `Observers`, `MCObservers` | the dashboard's state and paper check, over the life of the file | EXTENDS `Journal` by the readers, as operators: `Records`, `Latest`, `Curve`, `TotalReturn`, `PaperCheck` |
| `PointInTime` | the store's reads as of a date | operators on tables |
| `FeatureStore` | the tables, their upserts, the bar cache | `bars`, `splits`, `facts`, `universe`, `cache`, `cacheRange` |
| `MarketData`, `MCMarketData` | the ingest commands, the vendor, and a research process with a cache | EXTENDS `FeatureStore` by the running command, the coverage file and histories |
| `News`, `MCNews` | the news table, the classifier behind its cache file, the news signal | `news`, `disk`, `memory`, `task` |
| `Strategy` | momentum, reversal, the regime filter, the rank allocator, the two weightings | operators |
| `Backtest`, `MCBacktest` | `run_backtest` on several histories side by side | EXTENDS `Strategy`, `RiskGate`, `OrderPlan`, `Costs`; `book[w]` for each world, `today`, `phase`, `at` |
| `WalkForward` | windows, holdout, the verdict of Gate 0 | operators |
| `MCRules` | the rules that have no state, one small request at a time | `request`, `answer` |
| `Planning_proof` | lemmas the other proofs share | sums over finite sets and smallest members; the gate; the plan of orders |
| `Journal_proof`, `MCRules_proof`, `TradingRuns_proof`, `IBKRRuns_proof`, `MarketData_proof`, `News_proof`, `Backtest_proof` | theorems | section 5; each EXTENDS the module it is about and, but for news, `Planning_proof`. `TradingRuns_proof` is about `MarkToMarket` too, whose broker it shares |

`TradingRuns` follows one process `r` through `pc[r]`:

| Action | Code |
|---|---|
| `Start` | `scheduler.main`, `cmd_cycle` up to `broker.connect` |
| `Check` | `run_once` up to `DailyCycle.run`: latest stored date, `_already_ran`; a store without trading dates ends a scheduler's run. By hand there is no look for a record, and an empty store means today's date without a bar (`LatestDay`, `LatestCloses`) |
| `Decide` | `run` from the snapshot to the sized orders: `reconcile`, equity, signals, gate, prices, `_orders_for` |
| `Trade`, `TradeRejected` | one turn of the loop over orders; `OrderError` is noted and the loop goes on |
| `Write` | the second snapshot and `journal.append` |
| `Finish` | `disconnect` in `finally`, whose save takes along what an earlier one did not; the process ends and its locals with it |
| `Raise`, `SaveRaises`, `AppendRaises`, `FinishRaises` | an exception from the store or journal, from `_save` in `place`, from `append`, from the last `_save`; each goes where the code's `try` takes it |
| `Killed`, `KilledSaving`, `KilledWriting` | the process dies between steps, inside a save, inside an append |
| `NewDay` | a trading day passes and its ingest works, or fails |
| `Outside` | a deposit or a trade by hand in the account file, with no run active |

Three variables are history, for properties only: `filled` (how far the fills of this run got: none, into its memory, into the
file), `scored` (its signals could be evaluated), `traded` (how many runs had a fill on each date that got to the file).
A fill whose save raised before the file was touched is in memory until the run's last save takes it to the file; if that save fails
too, or the process dies, the fill happened to no account.

`IBKRRuns` splits `place` in three, because the venue acts in between: `PlaceOrder` asks the gateway for the contract
(`qualifyContracts`), `HandOver` is the answer to that and the order handed over, `PlaceReturns` comes back when the order is done or `fill_timeout` has passed, with what has filled by then, and
nothing cancels what still works. The history `left` of an order is what it still had to fill at that moment. `Stop` is
a cycle that dies or loses its session anywhere. The snapshot of `Begin` sees positions and cash, not orders.
The venue (external: `ib_async` and what is behind it) fills any part of any working order at any moment, or lets it
die. `ib_async`'s own caching of account values is not modelled: a snapshot shows the broker's state of that moment.

`MarketData` follows one ingest command in `job`, symbol by symbol:

| Action | Code |
|---|---|
| `StartIngest`, `FetchBars` | `cmd_ingest` and the loop of `ingest`: each symbol is stored and committed, empty, or failed and skipped |
| `StartSnapshots`, `WriteSnapshot`, `WriteCoverage` | the dated universes, one commit each, and last the coverage file |
| `StartIngestSplits`, `FetchSplits`, `SplitsDone`, `IngestFundamentals` | the two other ingest commands |
| `Killed` | the process dies between two commits, and leaves those made |
| `NewDay` | a day passes, with or without a command running; prices of the past are restated for a split of that day |
| `PreloadForBacktest`, `DropCache` | `preload_bars` at the start of a backtest, `clear_bar_cache` |

The vendor (`Traded`, `SplitOn`, `Restated`), the filings and the published membership are external. `basis`, `splitsSeen` and
`moved` are history.

`Backtest` goes through `phase`: `Dawn` (what is watched), `CashOut` and `Execute` (one symbol of each loop), `Open` (equity at
the open), `Close` (marking, equity and its peak), `Decide` (signals, regime filter, gate, and the day ends). All worlds step
together, so that one state holds what two histories of the same past did. `blocked[w]`, whether the gate blocked the newest decision, is history.

`News` has `IngestNews` (any of what the feed lists), `Start` (the cache file is read), `StartScore`, `Ask` (an item from the
cache, from the classifier with a save, or with a save that raises, before the file is cut or halfway), `FinishScore`, `Die`, `DieSaving`.
The classifier is external: any verdict, each time. `told` and `unsaved` (texts whose save raised, until another save takes them along)
are history.

`MarkToMarket` has `StartTracking` (`load_account`, once), `TakeSample` (any holding may be without a quote), `StopTracking`.

**Abstractions.** Scores, allocation and rounding are one nondeterministic choice of the holdings
wanted (`Wants`), limited to what weights that passed the gate can size to (`Sized`). Shares
are whole and prices are integers, in ticks; the code's shares may be fractional. The prices of a day
are chosen from a small set. Bars of a day do not change once ingested. A record keeps the fields a later
run reads. The gate's too-few-names block is free whenever it is possible, and its other blocks are
computed from the same `Blocks` that `MCRules` checks. Live quotes exist only for runs given a
quote source; none of the repository's entry points passes one to the cycle, so quotes are on in the
overlapping run only, for the run by hand.
In `Backtest` shares are counted in the smallest part the engine trades, weights in percent, scores and returns in 1/`Unit`, rounded
down where the code has floating point. In `PointInTime` a bar is one value: no read tells its columns apart. In `News` days replace hours and one
process scores at a time; the in-memory cache of `DeepSeekClassifier` is behind the file's and never reached with a text twice. In `MarkToMarket` the
market's state, which is only counted, is left out. Results of a walk-forward window are its edge, its fall and whether it could
be evaluated; the regression that gives the edge is not modelled.

## 3. The runs

| Run | Instance | Shows |
|---|---|---|
| `journal` | six records, 5 appends, on the two readers as well | however whole and interrupted appends mix, at most one returned record is lost per interruption (`LossIsBounded`), the settled file is an append-only log (`ImplementsDecisionLog`), and the headline, the chart, paper check and the next cycle's reference tell one story in any order of days (`ObserversAgree`) |
| `rules` | every request of up to three names in each risk state; two signals on three names; every cut of up to 40 days | the gate: `OnlyReduces`, `HaltsHold`, `PassesAgain` (an answer is a fixed point). Research: `NamesDoNotMatter`, `WeightingOnlySizes`, `HoldoutIsUntouched`, `MissingDataNeverHelps` (a window without data counts against a trial, and a pass has a strict majority of research windows and a holdout behind it) |
| `broker_one_run` | one run, two symbols, small orders and quotes, cash to a bound, and a tracker beside it | `LongOnly`, `FileFollowsMemory` (a run that is killed loses no fill, unless a save of it raised before), `FillsNeverProfit` (spread and capped commission never make a fill free money), `PnlIsPrices` (what the tracker reports is the move of prices, whatever is traded meanwhile) |
| `runs_failing` | one scheduler restarted by cron, two days, two failures of any kind, after a first record | `OncePerDate`, `TradesOnlyReconciled`, `BeliefIsTruth`, `PlansAreFunded`, and under fairness `RunsEnd`, `LatestDayIsRecorded` |
| `runs_overlapping` | a scheduler and a cycle by hand at once, an empty journal, a store that may be empty at first, quotes, a symbol without a bar, one failure, one outside change | whatever they overwrite of each other's, `LongOnly` |
| `ibkr_cycles` | two names rotated, up to three orders, one cycle cut short | `ErrorIsWhatWasLeft` (each order left working puts a position off by at most what it had to fill, in either direction, so none can be below zero without one), `FillsExplainAccount`, `BeliefIsTruth`, and under fairness `CyclesEnd` (an order the venue is silent about holds no cycle, if the gateway answers what it is asked before) |
| `store` | three symbols, four days, two months, three commands, a split, a company that left, a corrected membership list | `PointInTimeReads` (nothing that becomes known later changes a read as of a date), `CacheAgreesFromItsStart` (the cache answers the bar the query answers, or, for a bar older than its first date, nothing), `CapIsReal` (a market capitalisation is real across splits when its parts were taken on the same side of them), `UniverseIsDated`, `CoverageIsHonest` |
| `backtest` | two histories that differ on one day of five, from three kinds of day, two of three names in the universe and then one, in four modes (one with gate and regime filter together) | `NoLookahead`, `NeverOverdrawn`, `NothingCarried`, `TradesFollowDecisions` (no trade without a rebalance the day before, none after one the gate blocked, none but sales after one that found no market to be in) |
| `news` | two symbols, two texts, three days, three items, saves that fail in either way, deaths | `PastIsSettled` (a replay of a day reads the news it had), `ScoresRepeat` (the same news scores the same in another process, while the file keeps the verdicts) |

Three runs check what the repository says of itself and find it violated; each is a `findings`
entry with the quoted line.

| Run | Said | Found |
|---|---|---|
| `break_clears_itself` | a mismatch halts trading until a human clears it | the halted cycle journals the broker's own account; the next run reconciles with that and trades |
| `drawdown_forgotten` | halt after -25% from the peak | the peak is read from a field records do not have, so it is always the equity of now |
| `overlap_trades_twice` | safe to run from cron several times a day | the check and the record are a whole cycle apart and nothing is locked |

Also seen while modelling, with no run of their own: a returned append that follows an
interrupted one is itself unreadable, being glued to the damaged tail (`journal.py:63`; the
bound in `LossIsBounded` is exactly this loss); a first run that fails after a fill and before
its record leaves nothing to reconcile with, so the next run adopts the account and trades the
date again (`cycle.py:93`; hence `Baseline`); a torn account file makes every later `connect` raise
(`broker.py:88`); an exception in a cycle ends the run without a record, where `scheduler.py:6` says that
failures are journalled; with the costs of `costs.py`, the default spread and the two percent of
`CASH_BUFFER`, a full rotation of a small book of cheap shares needs more cash than the buffer leaves; two orders left working
on the sell side can take an IBKR position below zero (the bound in `ErrorIsWhatWasLeft` is reached). The remainder of an order
that outlives its wait is sent again by the next cycle, whose snapshot does not show it (`ibkr.py:220`, where `:194` says the
caller re-plans rather than chasing it). `place` waits for `qualifyContracts` before it hands an order over (`ibkr.py:203`), and neither it nor
`IB()` (`ibkr.py:101`) sets a limit to that wait: a gateway that does not answer holds the cycle for good, `fill_timeout` or not, which is why `CyclesEnd`
has the answer as its premise; without it TLC finds the cycle that never ends. `quotes` begins with the same call (`ibkr.py:146`); no command passes a quote source to
the cycle. The gate's age of data is measured from the data's own date (`cycle.py:129`, `risk.py:27`), so a store
that is no longer ingested is traded on for ever; when every signal raises, targets are empty and the holdings are sold (`cycle.py:108`,
against the reason given at `risk.py:65`).

On the research side: where the cache holds a symbol whose newest known bar is older than the cached range, it answers nothing and the query below it answers that
bar (`store.py:238-243`), so the cache is not "provably identical to the SQL path" (`store.py:121-122`, and the doc string of `tests/test_bar_cache.py`); hence the
name and the last case of `CacheAgreesFromItsStart`; `news_as_of` limits the rows of all symbols together (`store.py:303`), so a busy name crowds out the others; the key
of the news cache leaves out the symbol although the prompt names the company; paper check selects records of a mode that no
command writes (`papercheck.py:79`); a tracker whose first sample misses a price reports that holding as profit once it is quoted (hence
the condition in `PnlIsPrices`); a universe ingested again with a correction keeps the members it no longer has, hence the union in `UniverseIsDated`; between an ingest of bars and one of
splits on opposite sides of a split, a market capitalisation is off by its ratio (hence `SameBasis`); a member that left between the first of the month the window opens in
and the window is in its universe and is never asked for (hence the last case of `CoverageIsHonest`); the random signal of the placebo takes its
seed from `hash` of a tuple with a string, which another process does not repeat; `buy_and_hold` may buy at a stale open; the
dashboard's `halted_days` counts records with any veto.

**Bounds.** Every bound is a constant: `MaxAppends`, `MaxCash`, `LastDay`, `MaxRecords`, `MaxFaults`,
`MaxDrift`, and the small sets of prices, quotes and holdings.
- Two days suffice for a record to be of an earlier day, for an ingest to fail and for a date to be tried
  again by a later run. Two failures let one strike the run that repairs the first.
- `MaxRecords` bounds runs by hand only; scheduler runs bound themselves to one record per date.
- Prices and costs are such that leaving the account as it was, to the cent and the share, takes more than
  a day's move from `Calm` to `Dip`: otherwise a run that traded, failed, and by trading back
  came to an older record's cash and shares would reconcile. An older record can become the newest again only when the
  newest is lost, that is when a later append is glued to one cut short; without cut-short appends no such choice of prices is needed, and
  `OncePerDate` is a theorem (section 5). It is checked with `MaxDrift` 0: an outside change can hide an unrecorded trade.
- `Baseline` TRUE starts from a journal with one record, because of the first-run case above; the overlapping
  run starts from an empty one.
- `CashBuffer` is 20 in `runs_failing`, because a spread of one tick and a commission of one on prices of six to
  eight are far heavier than the code's own; at 10 `PlansAreFunded` fails there, so the bound is nearly tight. In the overlapping run it is 0,
  so that buys are refused.
- `MaxOrders` in `ibkr_cycles` lets three cycles in a row leave an order working.
- `broker_one_run` stays at a dozen of cash: its four properties are theorems, and the tracker needs no more than two samples and a trade between them.
- In `store` the split falls inside the window and on the first of a month, so that a download before it, one after it and a filing on each side all
  occur; `MaxJobs` 3 gives bars, splits and share counts in any order, or three ingests of bars with a preload among them. `Reach` covers the window, as the
  default range of a download does (`ReachesTheWindow`).
- In `backtest` any two histories that agree up to a day are linked by changes of one day each after it, so pairs that differ on one day are all that
  `NoLookahead` needs. Four days hold two decisions, their fills, and a name that stops trading for `StaleDays` and is cashed out.
- In `news` a limit of one row per symbol is below the three items, so that rows are cut and ties are cut either way; three days let an item leave the feed's
  reach and the signal's age limit.
- In `rules`, `MaxDays` and `Percents` reach every rounding of a holdout, the empty one and the one that leaves too little to research.

**Deadlock** is not checked in the runs of `TradingRuns`, `IBKRRuns`, `Observers`, `MarketData`, `Backtest` and the rules, because they end or stop at
their bounds (and a torn account file really does stop every later run). It is checked in `broker_one_run` and `news`.

**Fairness.** `FairSpec` has weak fairness on each run's own next step, since a process
that has been started runs on unless it fails, and on `Start` for schedulers, since cron starts
them again (`run_daily.sh`). `IBKRRuns` has weak fairness on the cycle's own steps, since `place` waits for an order it has handed over for a bounded
time; none on `HandOver`, for which the gateway must answer, and none on the venue. That the gateway answers whenever it is asked is the premise of `CyclesEnd`,
in the property and not in the specification, so the behaviours in which it does not are part of the model. Nothing forces a run by hand, a failure, a new day or an outside change.
Failures are not fair either, but up to `MaxFaults` of them happen at the worst moment; liveness holds once they stop. A torn
account file is excepted in `LatestDayIsRecorded`.

Every property of a passing run has a mutant: an operator beside the definition it replaces,
marked `A bug:`, under which TLC finds the property violated.

## 4. Hazards left open

`PROJECT.json` gives, for each hazard without a property, the reason. Lost updates between overlapping runs
are in the model and stated only as far as the code bounds them: no account becomes unsound. Four more are in the models as the code has
them: the age of the data, the equity reference of an old record, the limit on news, a holding
that left the universe. What the code does with them is described under Also seen or asserted nowhere in the repository.

## 5. The proofs

All proofs hold for every value of the constants that the modules' ASSUMEs admit: any sets of runs and symbols,
any prices above the half spread or zero for none, any costs, any bounds. A hypothesis beyond those is in the statement of the theorem
(ASSUME ... PROVE) and explained below.

**The journal and its readers** (`Journal_proof`)

| Theorem | Says | Argument |
|---|---|---|
| `JournalTypeCorrect` | `Spec => []TypeOK` | directly inductive |
| `JournalLossIsBounded` | `Spec => []LossIsBounded` | not inductive as it stands: after an interruption the loss is still to come. `LossIsBoundedInv` counts what the tail puts at risk (`AtRisk`), and is inductive. |
| `JournalIsAppendOnly` | `Spec => ImplementsDecisionLog` | the refinement: only the settled slots are the log, and each put settles at most one more |
| `JournalReadersAgree` | for solvent accounts, `Spec => []ObserversAgree` | of any well-typed file: the k-th readable line is well defined (`PlacesAreTaken`, `LinesAreRead`), so the dashboard's last element is the file's last record, and the last point of the chart of a day is what paper check puts under its date |

**The broker, the tracker and the runs** (`TradingRuns_proof`)

| Theorem | Says | Argument |
|---|---|---|
| `BrokerLongOnly` | `SessionSpec => []LongOnly` | types and soundness together; one lemma, `FillIsSound`, says an accepted order leaves a sound account, from bounds on the commission |
| `BrokerFillsNeverProfit` | `SessionSpec => FillsNeverProfit` | by the side of the order: a fill is at least half a spread from the reference and the commission is never negative, products being distributed by a lemma (`Distributes`) |
| `BrokerFileFollowsMemory` | for one run, `SessionSpec => []FileFollowsMemory` | inductive under `OneRun`, which is in the statement: a run places nothing after a save that raised, and each save before it wrote what it had |
| `TrackedLongOnly` | `TrackSpec => []LongOnly` | the same invariant: a tracker writes nothing of the broker's |
| `TrackerPnlIsPrices` | `TrackSpec => []PnlIsPrices` | `SessionFollows`: the first value and the last sample are both of the book as it was loaded, each at its own prices, so their difference is a sum of differences of prices over the same holdings |
| `RunsLongOnly` | `Spec => []LongOnly` for all interleavings and failures of runs | `AccountsInv` adds that plans are sizes in whole shares and lists are prices; the next order of a plan is one of the broker's, so `FillIsSound` applies |
| `RunsTypeCorrect` | `Spec => []TypeOK` | `TypesInv`: with `AccountsInv`, that a line is a whole record or one that does not decode, and that what a run reads back from it is of the type it needs |
| `RunsTradeOnlyReconciled` | for one run, `Spec => TradesOnlyReconciled` | `ReconciledInv`: a run that is placing and has had no fill, with orders left, agrees with the newest record, because the gate blocked it otherwise and nothing has moved since |
| `RunsBeliefIsTruth` | for one run, `Spec => []BeliefIsTruth` | `BeliefInv` follows the account from the file to memory, through the record and back into the file at `Finish` |
| `RunsTradeOncePerDate` | under `Unattended`, `Spec => []OncePerDate` | a run is counted when a fill of it gets to the file, with its own save or with the last one. `OnceInv`: when a run that traded a date is gone, either the date has its record, which stops the next scheduler, or the newest record's shares are not the account's, which halts it (`Caught`). The second is the work: a run that has had a fill and has not finished always has some order that is finished and missing from the newest record (`RunCaught`), since a plan moves each symbol once and in one direction |
| `RunsPlansAreFunded` | under `Affordable`, `Spec => []PlansAreFunded` | `FundedInv`: the cash of a run that is placing covers what its remaining orders take out of it together (`NeedsOf`), and its sells are held. It begins when the plan is made (`DecidedIsFunded`), where the buffer is spent: with `W` wanted, `H` held and `B` percent held back, the orders of a symbol need at most `(200 W - (200 - 2B) H) / (200 - B)`, and the sum of that over the symbols is within the cash because `W` is within the investable part of cash plus `H`. A fill takes from the cash what it takes from the sum (`NeedsWithout`); sells go first, so when a buy is due the others need no less than nothing |
| `RunsLogIsAppendOnly` | `Spec => LogIsAppendOnly` for all interleavings and failures of runs | a whole append adds a line at the end; one that meets a torn tail spoils that tail and nothing before it (`PutKeepsLines`). `WholeLines`, the lines that have their newline, therefore only grow |
| `RunsNeverRedo` | for every date and every scheduler, `Spec => []((Remembered(d) /\ pc[r] = "idle") => []Skips(d, r))` | a remembered date stays remembered, by the theorem above, and what is remembered is read (`RememberedIsRead`), so the only step that could bring the run to deciding on the date closes instead (`SkipsStep`). No hypothesis: any number of runs, any failure |
| `RunsStayConnected` | `Spec => []RunsAreConnected` | connecting is a run's first step and its last one, of whichever kind, disconnects |
| `RunsGetDone` | `Spec => RunsComeCloser` | `StepsLeft`, a count of the steps ahead: by the place in the program, and by the number of orders still to place, of which a fill or a rejection strikes one (`StrikeTakesOne`); others leave the run's locals alone (`OthersLeaveIt`) |
| `RunsCanGoOn` | `Spec => []RunsAreNeverStuck` | by place: at `deciding`, an account worth nothing halts, and any other can be sized to nothing (`NothingIsSized`); at `closing`, the run is connected |

`Unattended` is one scheduler at a time, started by cron only, on an account with a first record that nobody else moves, with no append cut short
and shares compared exactly. Each part is needed, and TLC finds the date traded twice without it: two runs at once (`overlap_trades_twice`);
a cycle by hand, which does not look for a record; no first record, when there is nothing to reconcile with; an outside change that undoes an unrecorded trade.
An append cut short may have written all of its text but the newline. It is then the newest record, and is lost when the next append is glued to it,
which leaves an older record that may happen to describe the account. Raising anywhere, dying between any two steps, and saves cut short are
all admitted, and any bound on them. `OneRun` alone, in the two theorems before it and `BrokerFileFollowsMemory`, is no
convenience either: with two runs each of them is false.

`Affordable` says when the buffer is enough: spread and commission of an order are at most the part `B / (200 - B)` of its worth, which is the buffer
spent once on what is sold and once on what is bought; every name has a bar and a share of it is worth an order (a holding that cannot be sold
is worth no cash); fills are at the closes the plan was sized to; and `MaxGrossExposure` is not above 100. With the two percent of `CASH_BUFFER`
that is 1.01% of an order: what `costs.py` charges for orders of some forty dollars up, and not for smaller ones, whose 1% with the
spread on top is the rotation of a small book named in section 3. In the units of the runs, a spread and a commission of one and a
`CashBuffer` of 20 satisfy it from prices of 18 up. `runs_failing` has heavier costs, where TLC checks the property and no theorem reaches.

**Cycles against IBKR** (`IBKRRuns_proof`)

| Theorem | Says | Argument |
|---|---|---|
| `IBKRTypes` | `Spec => []TypeOK` | with `OrdersInv`, that what is reported and what has filled stay within what was ordered |
| `IBKRFillsExplainAccount`, `IBKRBeliefIsTruth` | each `Spec => []` of its property | one invariant, `TrackedInv`, under the premise that no order was left: the awaited order is the only one that can fill (`Sole`), sells planned or on their way are covered by holdings (`Covered`), the account is the first snapshot plus what was reported and what the awaited order has filled (`Explained`), and the record is the account (`Recorded`) |
| `IBKRErrorIsWhatWasLeft` | `Spec => []ErrorIsWhatWasLeft` | `ErrorInv`, without any such premise: whatever an order left working has filled since is within what it had left (`LeftIsOpen`), and a position, with all that was planned and is on its way, is off by no more than the sum of those (`OffByGone`); the venue moves both sides of it alike |
| `IBKRCyclesGetDone` | `Spec => CyclesComeCloser` | the same kind of count: three steps for every order not asked about yet, two for one the gateway has been asked about, one for the order that is waited for, one for the record; the venue moves none of it |

**The store and its ingest** (`MarketData_proof`)

| Theorem | Says | Argument |
|---|---|---|
| `StoreIsPointInTime` | `Spec => PointInTimeReads` | each read has a lemma that it looks at known rows only; the cache gives the same latest bar from the cached part of the known rows; the invariant (`RowsInv`) is that tables and cache are tables |
| `CacheAnswersFromItsStart` | `Spec => []CacheAgreesFromItsStart` | `CacheIsTableInv`: a symbol not written since the preload has in the cache exactly the rows of the table in the cached range. When its newest known row is in that range it is the newest of both (`NewestIsStored`); when it is older, the cache has no known row at all |
| `MarketDataTypes` | `Spec => []TypeOK` | `TypedInv` adds that a command runs on a day of the window, without which what it downloads is no table |
| `UniverseDated` | `Spec => []UniverseIsDated` | `UniverseInv`: a snapshot command has written all dates but those still to do (`Snapped`), the coverage file is of one that ended (`Covered`), and no later list takes rows away |
| `CoverageHonest` | `Spec => []CoverageIsHonest` | `CoverageInv`: a symbol of a running or ended ingest is still to do, empty, failed, or stored for the window it was asked for (`Accounted`); what is stored is never removed |
| `CapitalisationIsReal` | `Spec => []CapIsReal` | `RestatedInv`: each bar is the traded price divided by the splits up to its download, each row of splits is the vendor's up to its own. When both are on the same side of every split, the factor the read applies to shares and the one inside the price cancel, products over disjoint sets of splits being multiplied by lemmas about `ProductOf` |

**News** (`News_proof`)

| Theorem | Says | Argument |
|---|---|---|
| `NewsIsSettled` | `Spec => PastIsSettled` | an ingest stores nothing the feed no longer lists, so the rows of such a day are the same, and with them every choice the limit leaves |
| `NewsScoresRepeat` | `Spec => ScoresRepeat` | `RepeatInv`: a file that was not cut short has what the memory of the process has but for texts whose save raised (`FileIsMemory`), what a scoring has heard is what that memory says of the items done (`TaskInv`), and so the scores last told, if all they rest on is saved, are those that the file gives (`ToldInv`); a cache only grows (`MemoryGrows`), and says the same of what it had (`SameHeard`) |

**The backtest and the rules** (`Backtest_proof`, `MCRules_proof`)

| Theorem | Says | Argument |
|---|---|---|
| `NothingFromTheFuture` | `Spec => []NoLookahead` | inductive with `RunInv` (a book watches symbols): agreement after a step was agreement before it (`AgreedBefore`), and each phase reads only what two agreeing worlds share, in the morning who trades and the opens, after the close the day |
| `DaysTradeWhatWasDecided` | `Spec => TradesFollowDecisions` | `PendingInv`: a decision is pending only between the day of a rebalance and the next close, none after one the gate blocked, and an empty one after a market that was risk-off or not judged, on which every target is zero and every trade a sale; nothing in the morning touches it (`MorningKeepsPending`), the close spends it |
| `NothingDeadIsCarried` | `Spec => []NothingCarried` | not inductive as it stands: during the loops it holds of the symbols whose turn has passed. `CarriedInv` says so, and that what is held has traded and is watched; a turn leaves only what traded lately (`CashedOutUnlessLately`), and what is bought trades today (`TradedTrades`) |
| `RunsAreFunded` | `Spec => []NeverOverdrawn` | `FundedInv`: pending weights are never negative, so sales are of what is held and purchases are cut to the cash there is, commission and all |
| `GateOnlyReduces`, `GateHaltsHold`, `GatePassesAgain` | each `Spec => []` of its property | `RulesInv` (an answer is the rule's, to a request it was asked) and lemmas about the gate's steps: cutting to the number of positions, capping a weight and scaling to the gross limit each keep what the earlier ones established |
| `VerdictMissesNothing`, `ResearchSeesNoHoldout` | the same | a window without data counts as one that did not pass, more passes keep a majority, and twice the passes being above the whole is more of them than of the rest; the boundaries of windows are quotients, which are monotone |
| `RanksKnowNoNames`, `SizesOnly` | the same | a renaming carries the sets whose sizes are the ranks onto each other; both weightings choose the names by rank before any volatility is looked at, and quotients of a sum add up to no more than the whole |

**Sums and ranks.** `MapThenSumSet` and the folds of the community modules are recursive, but what is proved of them is no induction over data that
needs an operator for a parameter: of the subsets of a finite set that fail a concrete statement, one is smallest (`SmallestSubset`), and removing a
member from it contradicts that. `Planning_proof` proves with it, once for all the modules, that a sum may be taken in any order, is monotone, splits, and
moves by one term when one term moves.

**Assumptions on constants**, beyond types, and why the code or the world has them:
- `GarbageIsNoRecord`, `MarkersAreNoCaches`: a line that `json.loads` rejects is no record, and neither a file it rejects nor a process that is not there is a cache.
- `Solvent` (`JournalReadersAgree`): every record has equity above zero. The account is long-only and starts with cash; paper check and
  the dashboard both divide by the first equity.
- Prices above the half spread, or zero for none; `SpreadIsPart` in the backtest: the half spread is a part of the price it is paid on.
- `IsFiniteSet` of symbols and of holdings wanted: they are lists in the code.
- `UnitIsFine`, `ScoresAreFine`: weights and scores are floating point in the code. The unit that stands for them is fine enough that a
  weight scaled to a limit, or one over a volatility, is not rounded to nothing, which the code's numbers are not.
- `PricesDivide`, `SplitsHaveRatios`, `FilingsAreFacts`: the unit of money is fine enough that a price divides by the ratios of later splits; the
  code divides floats. Splits happen on days after the first.
- `PricesAreBars`, `TradesOnDays`: what the vendor returns is a bar of a day.
- `ReachesTheWindow`, `MembersTradeOn`: a download reaches back over the window, and a member that trades within what it reaches has begun to by the start of
  the window, or never before: a company trades on from the day it lists.
- `IndexIsNeverEmpty`: the published list has members on every day; a month without any would leave no row, and a read would answer with the month before.
- `DaysPass`: time runs over days of the store, and the window begins in it.

TLC evaluates each of them, except `Solvent` and the hypotheses of the theorems, on the runs that extend its module; the runs' own constants satisfy those too, but for
the runs that show a property false without them.

**Only model-checked**, and why:
- `RunsEnd`, `LatestDayIsRecorded`, `CyclesEnd`: liveness under fairness, out of the prover's reach. What `RunsEnd` and `CyclesEnd` rest on is
  proved: every step brings a run or cycle closer to its end and nothing takes it back (`RunsGetDone`, `IBKRCyclesGetDone`), and a run always has
  a step (`RunsCanGoOn`). What remains is that a process that can go on does, which is the fairness itself (and, for a cycle, that the gateway answers). `RunsAreNeverStuck` says it without
  ENABLED, by what the step at each place needs.
- `PlansAreFunded` with costs beyond `Affordable`. Whether the buffer pays then depends on what is sold and bought; at a
  `CashBuffer` of 10 instead of 20 TLC finds an order refused in `runs_failing`.
- `OncePerDate` with appends that are cut short. `RunsNeverRedo` has the half that does not depend on prices: once a date's record has its newline, no
  scheduler that starts later trades the date, whatever fails. For a run that traded and left no whole record, it rests on prices at which an account does not come back to an older record by chance.

## 6. Not modelled, and what is left

Not modelled in `TradingRuns`: an explicit `--as-of` date, fractional shares, the wording of records and
messages, the other commands of `cli.py`. Not modelled in the adapter to IBKR: live quotes, limit orders, the choice of host and port.
Of the signals, the fundamental one is modelled up to its market capitalisation; the other scores (candles, gaps, low volatility, discounts of
closed-end funds, z-scores) are floating point over one read whose point in time is proved. Regressions, Sharpe ratios, correlation and
random draws are statistics. HTTP, the parsing of payloads, prompts and HTML are modelled by what they deliver or left out. The crypto price
reader has no caller that stores anything.

What would come next:

1. `TradingRuns` on `FeatureStore`: a cycle that reads while an ingest commits symbol by symbol, instead of one choice of a price list.
2. Two processes that score news at once, whose caches overwrite each other's file.
3. `OncePerDate` with appends that are cut short, from an assumption on prices that the code's floats justify.
