---------------------------- MODULE FeatureStore ---------------------------
(***************************************************************************)
(* ghambla.store.store.FeatureStore: the tables, what an upsert does to    *)
(* them, and the bar cache of one research process.  Tables are shared by  *)
(* every process that opens the database; the cache is its owner's alone   *)
(* and no write reaches it.                                                *)
(***************************************************************************)
EXTENDS PointInTime

CONSTANTS Symbols,
          Days,           \* dates
          Bar,            \* what a bar says
          Ratios,         \* ratios of splits
          Fact            \* records [symbol, period, accn, value, filed]

ASSUME DaysAreNat == Days \subseteq Nat
ASSUME FactsAreDated == \A f \in Fact : f.filed \in Int

VARIABLES bars, splits, facts, universe,  \* the tables
          cache,          \* the cached bars of the symbols that have some
          cacheRange      \* the dates they are of; <<>> without a cache

tables == <<bars, splits, facts, universe>>
storeVars == <<bars, splits, facts, universe, cache, cacheRange>>

\* A table: for each of its symbols a value on some of the dates.
IsTable(table, symbols, Value) ==
  /\ DOMAIN table = symbols
  /\ \A s \in symbols : DOMAIN table[s] \subseteq Days /\ \A d \in DOMAIN table[s] : table[s][d] \in Value

StoreTypeOK == /\ IsTable(bars, Symbols, Bar)
               /\ IsTable(splits, Symbols, Ratios)
               /\ facts \subseteq Fact
               /\ universe \subseteq Days \X Symbols
               /\ DOMAIN cache \subseteq Symbols /\ IsTable(cache, DOMAIN cache, Bar)
               /\ cacheRange \in {<<>>} \cup (Days \X Days)
               /\ \A s \in DOMAIN cache :
                    /\ DOMAIN cache[s] # {}
                    /\ DOMAIN cache[s] \subseteq cacheRange[1]..cacheRange[2]

StoreInit == /\ bars = [s \in Symbols |-> <<>>]
             /\ splits = [s \in Symbols |-> <<>>]
             /\ facts = {} /\ universe = {}
             /\ cache = <<>> /\ cacheRange = <<>>

-----------------------------------------------------------------------------
(* Writes: each commits on its own.                                        *)

\* upsert_bars, for the bars of one symbol.
UpsertBars(s, batch) ==
  /\ bars' = [bars EXCEPT ![s] = Over(batch, @)]
  /\ UNCHANGED <<splits, facts, universe, cache, cacheRange>>

UpsertSplits(s, batch) ==
  /\ splits' = [splits EXCEPT ![s] = Over(batch, @)]
  /\ UNCHANGED <<bars, facts, universe, cache, cacheRange>>

SameFiling(f, g) == f.symbol = g.symbol /\ f.period = g.period /\ f.accn = g.accn

\* upsert_fundamentals
UpsertFacts(batch) ==
  /\ facts' = batch \cup {f \in facts : \A g \in batch : ~SameFiling(f, g)}
  /\ UNCHANGED <<bars, splits, universe, cache, cacheRange>>

\* set_universe adds or replaces rows and deletes none.
SetUniverse(effective, members) ==
  /\ universe' = universe \cup ({effective} \X members)
  /\ UNCHANGED <<bars, splits, facts, cache, cacheRange>>

-----------------------------------------------------------------------------
(* The cache.                                                              *)

\* A bug: bars before the first date are loaded too.
InRangeFromStart(first, last, s) == {d \in DOMAIN bars[s] : d <= last}

InRange(first, last, s) == {d \in DOMAIN bars[s] : first <= d /\ d <= last}

Preload(first, last, symbols) ==
  /\ cacheRange' = <<first, last>>
  /\ cache' = [s \in {x \in symbols : InRange(first, last, x) # {}} |->
                 [d \in InRange(first, last, s) |-> bars[s][d]]]
  /\ UNCHANGED tables

ClearCache == cache' = <<>> /\ cacheRange' = <<>> /\ UNCHANGED tables

Serves(asOf) == cacheRange # <<>> /\ cacheRange[1] <= asOf /\ asOf <= cacheRange[2]

\* A bug: the cache answers for a symbol it does not hold.
LatestBarsTrusting(symbols, asOf) ==
  IF Serves(asOf)
  THEN LatestBarsAsOf(cache, symbols \cap DOMAIN cache, asOf)
  ELSE LatestBarsAsOf(bars, symbols, asOf)

\* latest_bars_as_of
LatestBars(symbols, asOf) ==
  IF Serves(asOf)
  THEN Over(LatestBarsAsOf(cache, symbols \cap DOMAIN cache, asOf),
            LatestBarsAsOf(bars, symbols \ DOMAIN cache, asOf))
  ELSE LatestBarsAsOf(bars, symbols, asOf)

-----------------------------------------------------------------------------

\* Every read as of a date, for every symbol.
ReadsAsOf(asOf) ==
  [latest |-> LatestBars(Symbols, asOf),
   history |-> [n \in Days |-> BarsAsOf(bars, Symbols, asOf, n)],
   facts |-> [s \in Symbols |-> LatestFactsAsOf(facts, s, asOf)],
   universe |-> UniverseAsOf(universe, asOf)]

\* The rows that were knowable at a date, and the choice of cached symbols.
Until(table, asOf) == [s \in DOMAIN table |-> [d \in KnownDates(table, s, asOf) |-> table[s][d]]]
KnownBy(asOf) ==
  [bars |-> Until(bars, asOf), cache |-> Until(cache, asOf), range |-> cacheRange,
   facts |-> {f \in facts : f.filed <= asOf},
   universe |-> {e \in universe : e[1] <= asOf}]

\* Nothing that becomes knowable after a date changes a read as of that date,
\* through the cache or past it (store.py:81-85, schema.py:3-6).
PointInTimeStep == \A d \in Days : KnownBy(d)' = KnownBy(d) => ReadsAsOf(d)' = ReadsAsOf(d)
=============================================================================
