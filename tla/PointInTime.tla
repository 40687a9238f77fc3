---------------------------- MODULE PointInTime ----------------------------
(***************************************************************************)
(* The reads of ghambla.store.store.FeatureStore as operators on tables.   *)
(* A table of bars maps each symbol to a partial function from dates to    *)
(* bars; a bar is knowable on its own date.  A fact is knowable when it is *)
(* filed, a list of members when it takes effect, a split always.          *)
(***************************************************************************)
EXTENDS Integers, FiniteSets, FiniteSetsExt

\* A dictionary updated with another.
Over(new, old) ==
  [x \in DOMAIN new \cup DOMAIN old |-> IF x \in DOMAIN new THEN new[x] ELSE old[x]]

\* The bars of a symbol that were knowable at a date.
KnownDates(bars, s, asOf) == {d \in DOMAIN bars[s] : d <= asOf}

\* They as records, and the newest of some.
Entries(bars, s, asOf) == {[date |-> d, bar |-> bars[s][d]] : d \in KnownDates(bars, s, asOf)}
Newest(entries) == CHOOSE e \in entries : \A f \in entries : f.date <= e.date

\* The most recent bar of each symbol; a symbol without one is absent.
LatestBarsAsOf(bars, symbols, asOf) ==
  [s \in {x \in symbols : KnownDates(bars, x, asOf) # {}} |-> Newest(Entries(bars, s, asOf))]

\* The most recent `lookback' bars of each symbol, by date.
BarsAsOf(bars, symbols, asOf, lookback) ==
  [s \in symbols |->
     LET known == KnownDates(bars, s, asOf)
     IN [d \in {x \in known : Cardinality({y \in known : y > x}) < lookback} |-> bars[s][d]]]

\* The dates any symbol has a bar of.
TradingDates(bars, first, last) ==
  {d \in UNION {DOMAIN bars[s] : s \in DOMAIN bars} : first <= d /\ d <= last}

-----------------------------------------------------------------------------
(* Facts are records [symbol, period, accn, value, filed].                 *)

\* A bug: the fact of the latest period, reported or not.
LatestFactsByPeriod(facts, s, asOf) ==
  LET known == {f \in facts : f.symbol = s /\ f.period <= asOf}
  IN {f \in known : \A g \in known : g.period <= f.period}

\* The facts of a symbol filed last and, of those, with the latest period.  When
\* several filings share both, the query may return any.
LatestFactsAsOf(facts, s, asOf) ==
  LET known == {f \in facts : f.symbol = s /\ f.filed <= asOf}
  IN {f \in known : \A g \in known : \/ g.filed < f.filed
                                     \/ g.filed = f.filed /\ g.period <= f.period}

-----------------------------------------------------------------------------
(* The universe is a set of pairs <<effective date, symbol>>.              *)

\* The members of the list that took effect last.
UniverseAsOf(universe, asOf) ==
  LET known == {e \in universe : e[1] <= asOf}
  IN {e[2] : e \in {x \in known : \A y \in known : y[1] <= x[1]}}

-----------------------------------------------------------------------------
(* Splits of one symbol map a date to new shares per old share.            *)

\* A bug: a split on the day itself is counted again.
SplitFactorFrom(splits, after) ==
  FoldSet(LAMBDA d, factor : factor * splits[d], 1, {d \in DOMAIN splits : d >= after})

\* split_factor_after
SplitFactorAfter(splits, after) ==
  FoldSet(LAMBDA d, factor : factor * splits[d], 1, {d \in DOMAIN splits : d > after})
=============================================================================
