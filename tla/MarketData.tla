----------------------------- MODULE MarketData ----------------------------
(***************************************************************************)
(* The feature store in use: the ingest commands of ghambla.cli, one at a  *)
(* time and committed symbol by symbol, which can fail for a symbol or die *)
(* between two commits; a vendor who restates the past when a share is     *)
(* split, and a list of index members that is corrected; and a research    *)
(* process that caches bars while all that goes on.                        *)
(***************************************************************************)
EXTENDS FeatureStore

CONSTANTS LastDay,        \* bound: the days that pass
          MaxJobs,        \* bound: commands started
          Window,         \* the first day asked for, less the warmup
          MonthDays,      \* days of a month; months begin on 1, 1 + MonthDays, ...
          Benchmark,
          Reach,          \* how many days back a download of bars goes (--range)
          Traded,         \* vendor: the price each symbol traded at, by date
          SplitOn,        \* vendor: ratio of each symbol's splits, by date
          Filings,        \* SEC: the filings of share counts
          Members         \* the membership spans [ticker, from, to] published on each day

ASSUME ReachesTheWindow == Reach \in Nat /\ LastDay - Reach < Window
ASSUME DaysPass == /\ LastDay \in Nat /\ Window \in 1..LastDay /\ 1..LastDay \subseteq Days
                   /\ MonthDays \in Nat \ {0} /\ MaxJobs \in Nat
ASSUME TradesOnDays == \A s \in Symbols : DOMAIN Traded[s] \subseteq Days

\* Members trade on: one that traded before the days a download reaches, and does
\* so within them, does so by the start of the window.
ASSUME MembersTradeOn ==
  \A v, t \in Window..LastDay : \A span \in Members[v] :
    LET traded == DOMAIN Traded[span.ticker]
    IN  /\ \E d \in traded : d <= t - Reach
        /\ \E d \in traded : t - Reach < d /\ d <= t
        => \E d \in traded : t - Reach < d /\ d <= Window

ASSUME SplitsHaveRatios ==
  /\ Ratios \subseteq Nat \ {0}
  /\ \A s \in Symbols :
       /\ DOMAIN SplitOn[s] \subseteq Days \ {0} /\ IsFiniteSet(DOMAIN SplitOn[s])
       /\ \A d \in DOMAIN SplitOn[s] : SplitOn[s][d] \in Ratios
ASSUME FilingsAreFacts == Filings \subseteq Fact /\ \A f \in Fact : f.value \in Int

\* Symbols have an order, that of the commands' loops.
ASSUME SymbolsAreOrdered == Symbols \subseteq Nat /\ Benchmark \in Symbols
ASSUME MembersAreSymbols ==
  \A v \in Window..LastDay : \A span \in Members[v] :
    span.ticker \in Symbols /\ span.from \in Int /\ span.to \in Int

VARIABLES today, jobs,    \* the day; how many commands were started
          job,            \* the running command
          coverage,       \* the coverage file of the last ingest that ended
          basis,          \* history: the day each stored bar was downloaded on
          splitsSeen,     \* history: the day each symbol's splits were downloaded on
          moved           \* history: symbols written since the cache was filled

marketVars == <<today, jobs, job, coverage, basis, splitsSeen, moved>>
vars == <<storeVars, marketVars>>

Idle == [kind |-> "idle"]
NoCoverage == [day |-> 0]

Outcomes == [ok : SUBSET Symbols, empty : SUBSET Symbols, failed : SUBSET Symbols]

Jobs == [kind : {"bars", "splits"}, day : Days, todo : SUBSET Symbols, outcome : Outcomes]
        \cup [kind : {"snapshots"}, day : Days, todo : SUBSET Days, outcome : Outcomes]

TypeOK ==
  /\ StoreTypeOK
  /\ today \in Days /\ jobs \in 0..MaxJobs
  /\ job \in Jobs \cup {Idle}
  /\ coverage \in [day : Days, outcome : Outcomes] \cup {NoCoverage}
  /\ IsTable(basis, Symbols, Days) /\ splitsSeen \in [Symbols -> {0} \cup Days]
  /\ moved \subseteq Symbols

Init == /\ StoreInit
        /\ today = Window /\ jobs = 0
        /\ job = Idle
        /\ coverage = NoCoverage
        /\ basis = [s \in Symbols |-> <<>>]
        /\ splitsSeen = [s \in Symbols |-> 0]
        /\ moved = {}

-----------------------------------------------------------------------------
(* The vendor, the SEC and the published membership.                       *)

SplitsBetween(s, after, until) == {d \in DOMAIN SplitOn[s] : after < d /\ d <= until}

\* What a price of a day reads like once the splits up to another have happened.
Restated(s, d, now) ==
  Traded[s][d] \div SplitFactorAfter([x \in SplitsBetween(s, d, now) |-> SplitOn[s][x]], d)

ASSUME PricesAreBars ==
  \A s \in Symbols, now \in Window..LastDay : \A d \in DOMAIN Traded[s] :
    d <= now => Restated(s, d, now) \in Bar

\* The unit of money is as fine as the splits need, so that a price divides.
ASSUME PricesDivide ==
  \A s \in Symbols, now \in Window..LastDay : \A d \in DOMAIN Traded[s] :
    /\ Restated(s, d, now) \in Int
    /\ Restated(s, d, now) * SplitFactorAfter([x \in SplitsBetween(s, d, now) |-> SplitOn[s][x]], d)
         = Traded[s][d]

\* The chart of a symbol: its past on the share count of today.
Chart(s, reach) ==
  [d \in {x \in DOMAIN Traded[s] : today - reach < x /\ x <= today} |-> Restated(s, d, today)]

\* members_on
MembersOn(spans, day) ==
  {span.ticker : span \in {x \in spans : x.from <= day /\ day <= x.to}}

\* The index always has members.
ASSUME IndexIsNeverEmpty ==
  \A v \in Window..LastDay : \A d \in 1..v : MembersOn(Members[v], d) # {}

\* ever_members_between
EverMembersBetween(spans, first, last) ==
  {span.ticker : span \in {x \in spans : x.from <= last /\ x.to >= first}}

MonthStart(day) == day - ((day - 1) % MonthDays)

\* A bug: the month the window opens in has no snapshot.
LateSnapshotDates(first, last) ==
  {d \in Days : d >= first /\ d <= last /\ d = MonthStart(d)}

\* snapshot_dates: month starts, from the month the window opens in.
SnapshotDates(first, last) ==
  {d \in Days : d >= MonthStart(first) /\ d <= last /\ d = MonthStart(d)}

-----------------------------------------------------------------------------
(* The commands.                                                           *)

Start(kind, todo) ==
  /\ job = Idle /\ jobs < MaxJobs
  /\ jobs' = jobs + 1
  /\ job' = [kind |-> kind, day |-> today, todo |-> todo,
             outcome |-> [ok |-> {}, empty |-> {}, failed |-> {}]]
  /\ UNCHANGED <<storeVars, today, coverage, basis, splitsSeen, moved>>

Asked == EverMembersBetween(Members[today], Window, today)

\* A bug: what is asked for is what is in the index today.
StartIngestOfSurvivors == Start("bars", MembersOn(Members[today], today) \cup {Benchmark})

\* cmd_ingest, up to the loop.
StartIngest == Start("bars", Asked \cup {Benchmark})

StartIngestSplits == Start("splits", Asked)

Noted(s, how) == [job EXCEPT !.todo = @ \ {s}, !.outcome[how] = @ \cup {s}]

\* One symbol of `ingest': stored, empty, or failed and skipped.
FetchBars ==
  /\ job # Idle /\ job.kind = "bars" /\ job.todo # {}
  /\ LET s == Min(job.todo)
         batch == Chart(s, Reach)
     IN \/ /\ batch # <<>>
           /\ UpsertBars(s, batch)
           /\ job' = Noted(s, "ok")
           /\ basis' = [basis EXCEPT ![s] = Over([d \in DOMAIN batch |-> today], @)]
           /\ moved' = moved \cup {s}
        \/ /\ batch = <<>>
           /\ job' = Noted(s, "empty")
           /\ UNCHANGED <<storeVars, basis, moved>>
        \/ job' = Noted(s, "failed") /\ UNCHANGED <<storeVars, basis, moved>>
  /\ UNCHANGED <<today, jobs, coverage, splitsSeen>>

\* One symbol of ingest_splits.
FetchSplits ==
  /\ job # Idle /\ job.kind = "splits" /\ job.todo # {}
  /\ LET s == Min(job.todo)
     IN \/ /\ UpsertSplits(s, [d \in SplitsBetween(s, 0, today) |-> SplitOn[s][d]])
           /\ splitsSeen' = [splitsSeen EXCEPT ![s] = today]
           /\ job' = Noted(s, "ok")
        \/ job' = Noted(s, "failed") /\ UNCHANGED <<storeVars, splitsSeen>>
  /\ UNCHANGED <<today, jobs, coverage, basis, moved>>

SplitsDone == /\ job # Idle /\ job.kind = "splits" /\ job.todo = {}
              /\ job' = Idle
              /\ UNCHANGED <<storeVars, today, jobs, coverage, basis, splitsSeen, moved>>

\* After the bars, the snapshots of the membership fetched at the start.
StartSnapshots ==
  /\ job # Idle /\ job.kind = "bars" /\ job.todo = {}
  /\ job' = [job EXCEPT !.kind = "snapshots", !.todo = SnapshotDates(Window, job.day)]
  /\ UNCHANGED <<storeVars, today, jobs, coverage, basis, splitsSeen, moved>>

WriteSnapshot ==
  /\ job # Idle /\ job.kind = "snapshots" /\ job.todo # {}
  /\ LET d == Min(job.todo)
     IN /\ SetUniverse(d, MembersOn(Members[job.day], d))
        /\ job' = [job EXCEPT !.todo = @ \ {d}]
  /\ UNCHANGED <<today, jobs, coverage, basis, splitsSeen, moved>>

\* Last of all the coverage file.
WriteCoverage ==
  /\ job # Idle /\ job.kind = "snapshots" /\ job.todo = {}
  /\ coverage' = [day |-> job.day, outcome |-> job.outcome]
  /\ job' = Idle
  /\ UNCHANGED <<storeVars, today, jobs, basis, splitsSeen, moved>>

\* cmd_ingest_fundamentals: every fact is fetched first, then all are stored.
IngestFundamentals ==
  /\ job = Idle /\ jobs < MaxJobs
  /\ jobs' = jobs + 1
  /\ \E failed \in {{}} \cup {{s} : s \in Asked} :
       UpsertFacts({f \in Filings : f.filed <= today /\ f.symbol \in Asked \ failed})
  /\ UNCHANGED <<today, job, coverage, basis, splitsSeen, moved>>

\* The process dies between two commits; what it committed stays.
Killed == /\ job # Idle
          /\ job' = Idle
          /\ UNCHANGED <<storeVars, today, jobs, coverage, basis, splitsSeen, moved>>

\* A day passes; a command that is running goes on.
NewDay == /\ today < LastDay
          /\ today' = today + 1
          /\ UNCHANGED <<storeVars, jobs, job, coverage, basis, splitsSeen, moved>>

\* run_backtest fills the cache at its start and leaves it filled.
PreloadForBacktest ==
  /\ Preload(Window, today, Symbols)
  /\ moved' = {}
  /\ UNCHANGED <<today, jobs, job, coverage, basis, splitsSeen>>

DropCache == /\ ClearCache
             /\ UNCHANGED marketVars

Next == \/ StartIngest \/ FetchBars \/ StartSnapshots \/ WriteSnapshot \/ WriteCoverage
        \/ StartIngestSplits \/ FetchSplits \/ SplitsDone
        \/ IngestFundamentals \/ Killed \/ NewDay \/ PreloadForBacktest \/ DropCache

Spec == Init /\ [][Next]_vars

-----------------------------------------------------------------------------

PointInTimeReads == [][UNCHANGED storeVars \/ PointInTimeStep]_vars

\* Whatever was stored before it and whatever it holds, the cache answers what the
\* query below it answers for a symbol not written since it was filled, bar for bar,
\* but in one case, and then it answers nothing: it holds the symbol, and the newest
\* bar known is older than its first date (store.py:115-150, 202-243).
CacheAgreesFromItsStart ==
  \A d \in Days, s \in Symbols \ moved :
    LET stored == LatestBarsAsOf(bars, {s}, d)
        tooOld == s \in DOMAIN stored /\ stored[s].date < cacheRange[1]
    IN  IF Serves(d) /\ s \in DOMAIN cache /\ tooOld
        THEN s \notin DOMAIN LatestBars({s}, d)
        ELSE LatestBars({s}, d) = stored

-----------------------------------------------------------------------------

\* The market capitalisation FundamentalSignal divides by, from a filed share count.
MarketCap(s, asOf, f) == LatestBars({s}, asOf)[s].bar * f.value * SplitFactorAfter(splits[s], f.filed)

\* What the company was worth on a day: shares filed, split since, at the price traded.
Worth(s, f, d) ==
  IF d >= f.filed
  THEN Traded[s][d] * f.value *
       SplitFactorAfter([x \in SplitsBetween(s, f.filed, d) |-> SplitOn[s][x]], f.filed)
  ELSE (Traded[s][d] * f.value) \div
       SplitFactorAfter([x \in SplitsBetween(s, d, f.filed) |-> SplitOn[s][x]], d)

\* No split lies between the download of the bar and the newer of the share count
\* and the download of the splits.
SameBasis(s, d, f) ==
  LET known == Max({splitsSeen[s], f.filed})
  IN SplitsBetween(s, basis[s][d], known) \cup SplitsBetween(s, known, basis[s][d]) = {}

\* Prices are stored divided by every later split and filed share counts are not,
\* so their product is the worth of the company on the day of the bar whatever was
\* split before or since, provided bars, splits and share count were taken on the same
\* side of each split (store.py:38-57, signals/fundamental.py:109-113).
CapIsReal ==
  \A s \in Symbols, d \in Days :
    LET read == LatestBars({s}, d)
    IN s \in DOMAIN read /\ s \notin moved =>
         \A f \in LatestFactsAsOf(facts, s, d) :
           SameBasis(s, read[s].date, f) => MarketCap(s, d, f) = Worth(s, f, read[s].date)

-----------------------------------------------------------------------------

\* The universe of a day is the membership on the first of its month, as the last
\* whole ingest read it, and with it what earlier lists said; nobody else is in it
\* (sp500.py:87-98, cli.py:85-88).
UniverseIsDated ==
  coverage.day # 0 =>
    \A d \in Window..coverage.day :
      /\ MembersOn(Members[coverage.day], MonthStart(d)) \subseteq UniverseAsOf(universe, d)
      /\ UniverseAsOf(universe, d) \subseteq
           UNION {MembersOn(Members[v], MonthStart(d)) : v \in Window..today}

\* A member that cannot be priced is never dropped in silence: the last coverage
\* file names it, unless it left between the first of the month the window opens in
\* and the window itself, and then it was not asked for (ingest.py:162-169, cli.py:91-99).
CoverageIsHonest ==
  coverage.day # 0 =>
    \A d \in Window..coverage.day :
      \A s \in MembersOn(Members[coverage.day], MonthStart(d)) :
        \/ KnownDates(bars, s, d) # {} \/ DOMAIN Chart(s, today) \cap (1..d) = {}
        \/ s \in coverage.outcome.empty \cup coverage.outcome.failed
        \/ d < Window + MonthDays /\ s \notin EverMembersBetween(Members[coverage.day], Window, coverage.day)
=============================================================================
