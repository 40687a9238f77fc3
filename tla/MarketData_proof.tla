-------------------------- MODULE MarketData_proof -------------------------
(***************************************************************************)
(* The point-in-time guarantee of the feature store, for every vendor,     *)
(* every history of ingests and every cache; then the types of the tables  *)
(* and commands, what an ingest that ended has written, and what a         *)
(* capitalisation is made of.                                              *)
(***************************************************************************)
EXTENDS MarketData, Planning_proof

\* Two tables with the same rows up to a date give a symbol the same known dates.
LEMMA SameKnown ==
  ASSUME NEW B, NEW C, NEW d, Until(B, d) = Until(C, d)
  PROVE  /\ DOMAIN B = DOMAIN C
         /\ \A s \in DOMAIN B :
              /\ KnownDates(B, s, d) = KnownDates(C, s, d)
              /\ \A e \in KnownDates(B, s, d) : B[s][e] = C[s][e]
<1>1. DOMAIN B = DOMAIN C
  <2>1. DOMAIN Until(B, d) = DOMAIN B /\ DOMAIN Until(C, d) = DOMAIN C
    BY DEF Until
  <2> QED BY <2>1
<1>2. ASSUME NEW s \in DOMAIN B
      PROVE  /\ KnownDates(B, s, d) = KnownDates(C, s, d)
             /\ \A e \in KnownDates(B, s, d) : B[s][e] = C[s][e]
  <2>1. /\ Until(B, d)[s] = [e \in KnownDates(B, s, d) |-> B[s][e]]
        /\ Until(C, d)[s] = [e \in KnownDates(C, s, d) |-> C[s][e]]
    BY <1>1 DEF Until
  <2>2. [e \in KnownDates(B, s, d) |-> B[s][e]] = [e \in KnownDates(C, s, d) |-> C[s][e]]
    BY <2>1
  <2>3. KnownDates(B, s, d) = KnownDates(C, s, d)
    BY <2>2
  <2>4. ASSUME NEW e \in KnownDates(B, s, d) PROVE B[s][e] = C[s][e]
    <3>1. [x \in KnownDates(B, s, d) |-> B[s][x]][e] = B[s][e]
      OBVIOUS
    <3>2. [x \in KnownDates(C, s, d) |-> C[s][x]][e] = C[s][e]
      BY <2>3
    <3> QED BY <3>1, <3>2, <2>2
  <2> QED BY <2>3, <2>4
<1> QED BY <1>1, <1>2

\* latest_bars_as_of reads nothing else.
LEMMA LatestIsKnown ==
  ASSUME NEW B, NEW C, NEW d, NEW S, S \subseteq DOMAIN B, Until(B, d) = Until(C, d)
  PROVE  LatestBarsAsOf(B, S, d) = LatestBarsAsOf(C, S, d)
<1>1. \A s \in S : /\ KnownDates(B, s, d) = KnownDates(C, s, d)
                   /\ \A e \in KnownDates(B, s, d) : B[s][e] = C[s][e]
  BY SameKnown
<1> DEFINE Known == {x \in S : KnownDates(B, x, d) # {}}
<1>2. Known = {x \in S : KnownDates(C, x, d) # {}}
  BY <1>1
<1>3. ASSUME NEW s \in Known PROVE Entries(B, s, d) = Entries(C, s, d)
  BY <1>1 DEF Entries
<1>4. LatestBarsAsOf(B, S, d) = [s \in Known |-> Newest(Entries(B, s, d))]
  BY DEF LatestBarsAsOf
<1>5. LatestBarsAsOf(C, S, d) = [s \in Known |-> Newest(Entries(C, s, d))]
  BY <1>2 DEF LatestBarsAsOf
<1> HIDE DEF Known
<1> QED BY <1>3, <1>4, <1>5

\* bars_as_of reads nothing else.
LEMMA HistoryIsKnown ==
  ASSUME NEW B, NEW C, NEW d, NEW S, NEW n, S \subseteq DOMAIN B, Until(B, d) = Until(C, d)
  PROVE  BarsAsOf(B, S, d, n) = BarsAsOf(C, S, d, n)
<1> DEFINE Last(T, s) == LET known == KnownDates(T, s, d)
                         IN {x \in known : Cardinality({y \in known : y > x}) < n}
           Row(T, s) == [e \in Last(T, s) |-> T[s][e]]
<1>1. ASSUME NEW s \in S PROVE Row(B, s) = Row(C, s)
  <2>1. /\ KnownDates(B, s, d) = KnownDates(C, s, d)
        /\ \A e \in KnownDates(B, s, d) : B[s][e] = C[s][e]
    BY SameKnown
  <2>2. Last(B, s) = Last(C, s) /\ Last(B, s) \subseteq KnownDates(B, s, d)
    BY <2>1
  <2> HIDE DEF Last
  <2> QED BY <2>1, <2>2
<1>2. BarsAsOf(B, S, d, n) = [s \in S |-> Row(B, s)] /\ BarsAsOf(C, S, d, n) = [s \in S |-> Row(C, s)]
  BY DEF BarsAsOf
<1> HIDE DEF Row
<1> QED BY <1>1, <1>2

\* latest_fundamentals_as_of and universe_as_of read nothing else.
LEMMA FactsAreKnown ==
  ASSUME NEW F, NEW G, NEW d, NEW s, {f \in F : f.filed <= d} = {f \in G : f.filed <= d}
  PROVE  LatestFactsAsOf(F, s, d) = LatestFactsAsOf(G, s, d)
<1>1. {f \in F : f.symbol = s /\ f.filed <= d} = {f \in G : f.symbol = s /\ f.filed <= d}
  OBVIOUS
<1> QED BY <1>1 DEF LatestFactsAsOf

LEMMA MembersAreKnown ==
  ASSUME NEW U, NEW V, NEW d, {e \in U : e[1] <= d} = {e \in V : e[1] <= d}
  PROVE  UniverseAsOf(U, d) = UniverseAsOf(V, d)
BY DEF UniverseAsOf

-----------------------------------------------------------------------------

\* Every symbol has its row, perhaps an empty one.
RowsInv == DOMAIN bars = Symbols

LEMMA RowsInvHolds == Spec => []RowsInv
<1>1. Init => RowsInv
  BY DEF Init, StoreInit, RowsInv
<1>2. RowsInv /\ [Next]_vars => RowsInv'
  <2> SUFFICES ASSUME RowsInv, [Next]_vars PROVE RowsInv'
    OBVIOUS
  <2>1. CASE FetchBars
    <3>1. CASE UNCHANGED storeVars
      BY <3>1 DEF RowsInv, storeVars
    <3>2. ASSUME NEW s, NEW batch, UpsertBars(s, batch) PROVE RowsInv'
      BY <3>2 DEF RowsInv, UpsertBars
    <3> QED BY <2>1, <3>1, <3>2 DEF FetchBars
  <2>2. CASE PreloadForBacktest \/ DropCache
    BY <2>2 DEF RowsInv, PreloadForBacktest, Preload, DropCache, ClearCache, tables
  <2>3. CASE FetchSplits
    BY <2>3 DEF RowsInv, FetchSplits, UpsertSplits, storeVars
  <2>4. CASE WriteSnapshot
    BY <2>4 DEF RowsInv, WriteSnapshot, SetUniverse
  <2>5. CASE IngestFundamentals
    BY <2>5 DEF RowsInv, IngestFundamentals, UpsertFacts
  <2>6. CASE UNCHANGED storeVars
    BY <2>6 DEF RowsInv, storeVars
  <2>7. CASE StartIngest \/ StartSnapshots \/ WriteCoverage \/ StartIngestSplits \/ SplitsDone
             \/ Killed \/ NewDay \/ UNCHANGED vars
    BY <2>6, <2>7 DEF StartIngest, StartSnapshots, WriteCoverage, StartIngestSplits, SplitsDone,
       Start, Killed, NewDay, vars
  <2> QED BY <2>1, <2>2, <2>3, <2>4, <2>5, <2>7 DEF Next
<1> QED BY <1>1, <1>2, PTL DEF Spec

\* What was not knowable at a date reaches no read as of that date (store.py:81-85,
\* schema.py:3-6): whatever is ingested, corrected, split, cached or lost, whenever.
THEOREM StoreIsPointInTime == Spec => PointInTimeReads
<1>1. ASSUME RowsInv, RowsInv' PROVE PointInTimeStep
  <2> SUFFICES ASSUME NEW d \in Days, KnownBy(d)' = KnownBy(d)
               PROVE  ReadsAsOf(d)' = ReadsAsOf(d)
    BY DEF PointInTimeStep
  <2>1. /\ Until(bars', d) = Until(bars, d)
        /\ Until(cache', d) = Until(cache, d)
        /\ cacheRange' = cacheRange
        /\ {f \in facts' : f.filed <= d} = {f \in facts : f.filed <= d}
        /\ {e \in universe' : e[1] <= d} = {e \in universe : e[1] <= d}
    BY DEF KnownBy
  <2>2. DOMAIN bars' = Symbols /\ DOMAIN bars = Symbols /\ DOMAIN cache' = DOMAIN cache
    BY <1>1, <2>1, SameKnown DEF RowsInv
  <2>3. \A S \in SUBSET Symbols : LatestBarsAsOf(bars', S, d) = LatestBarsAsOf(bars, S, d)
    BY <2>1, <2>2, LatestIsKnown
  <2>4. LatestBarsAsOf(cache', Symbols \cap DOMAIN cache, d)
          = LatestBarsAsOf(cache, Symbols \cap DOMAIN cache, d)
    <3> DEFINE held == Symbols \cap DOMAIN cache
    <3>1. held \subseteq DOMAIN cache' BY <2>2
    <3> QED BY <3>1, <2>1, LatestIsKnown
  <2>5. LatestBars(Symbols, d)' = LatestBars(Symbols, d)
    BY <2>1, <2>2, <2>3, <2>4 DEF LatestBars, Serves
  <2>6. ASSUME NEW n \in Days PROVE BarsAsOf(bars', Symbols, d, n) = BarsAsOf(bars, Symbols, d, n)
    BY <2>1, <2>2, HistoryIsKnown
  <2>7. ASSUME NEW s \in Symbols PROVE LatestFactsAsOf(facts', s, d) = LatestFactsAsOf(facts, s, d)
    BY <2>1, FactsAreKnown
  <2>8. UniverseAsOf(universe', d) = UniverseAsOf(universe, d)
    BY <2>1, MembersAreKnown
  <2> QED BY <2>5, <2>6, <2>7, <2>8 DEF ReadsAsOf
<1> QED BY <1>1, RowsInvHolds, PTL DEF PointInTimeReads

-----------------------------------------------------------------------------
(* The cache is the table between its dates, for symbols not written since. *)

\* The newest of the entries from some date on is the newest of all, if there is one.
LEMMA NewestOfRecent ==
  ASSUME NEW E, \A e \in E : e.date \in Int, NEW first \in Int,
         NEW r \in E, r.date >= first
  PROVE  Newest({e \in E : e.date >= first}) = Newest(E)
<1> DEFINE R == {e \in E : e.date >= first}
           Tops(S) == {e \in S : \A f \in S : f.date <= e.date}
<1>1. Tops(R) = Tops(E)
  <2>1. ASSUME NEW e \in Tops(R) PROVE e \in Tops(E)
    <3>1. e \in E /\ e.date >= first /\ \A f \in R : f.date <= e.date BY <2>1
    <3>2. ASSUME NEW f \in E PROVE f.date <= e.date
      <4>1. CASE f.date >= first BY <4>1, <3>1
      <4>2. CASE ~(f.date >= first) BY <4>2, <3>1
      <4> QED BY <4>1, <4>2
    <3> QED BY <3>1, <3>2
  <2>2. ASSUME NEW e \in Tops(E) PROVE e \in Tops(R)
    <3>1. e \in E /\ \A f \in E : f.date <= e.date BY <2>2
    <3>2. e.date >= first BY <3>1
    <3> QED BY <3>1, <3>2
  <2> QED BY <2>1, <2>2
<1>2. Newest(R) = CHOOSE e : e \in Tops(R)
  BY DEF Newest
<1>3. Newest(E) = CHOOSE e : e \in Tops(E)
  BY DEF Newest
<1> HIDE DEF Tops
<1> QED BY <1>1, <1>2, <1>3

\* The newest of the bars known at a date is one of them.
LEMMA NewestIsStored ==
  ASSUME NEW B, NEW s, NEW d \in Days, \A e \in DOMAIN B[s] : e \in Days,
         KnownDates(B, s, d) # {}
  PROVE  Newest(Entries(B, s, d)) \in Entries(B, s, d)
<1> DEFINE E == Entries(B, s, d)
<1>1. \E e \in E : \A f \in E : f.date <= e.date
  <2> DEFINE K == KnownDates(B, s, d)
  <2>1. K \subseteq 0..d /\ d \in Nat
    <3>1. d \in Nat /\ \A e \in DOMAIN B[s] : e \in Nat
      BY DaysAreNat
    <3>2. QED
      BY <3>1 DEF KnownDates
  <2>2. IsFiniteSet(K)
    <3>1. IsFiniteSet(0..d)
      BY <2>1, FS_Interval
    <3> HIDE DEF K
    <3>2. QED
      BY <2>1, <3>1, FS_Subset
  <2>3. PICK e \in K : \A x \in K : e >= x
    <3>1. \A x \in K : x \in Int
      BY <2>1
    <3> HIDE DEF K
    <3>2. QED
      BY <2>2, <3>1, FiniteHasLargest DEF K
  <2>4. [date |-> e, bar |-> B[s][e]] \in E
    BY DEF Entries
  <2>5. \A f \in E : f.date \in K
    BY DEF Entries
  <2>6. \A f \in E : f.date <= e
    BY <2>1, <2>3, <2>5
  <2>7. QED
    BY <2>4, <2>6
<1> QED BY <1>1, Zenon DEF Newest

DatesInv == RowsInv /\ (\A s \in Symbols : DOMAIN bars[s] \subseteq Days) /\ today \in Window..LastDay

CachedInv ==
  \/ cacheRange = <<>> /\ cache = <<>>
  \/ \E first, last \in Int :
       /\ cacheRange = <<first, last>>
       /\ DOMAIN cache \subseteq Symbols
       /\ \A s \in DOMAIN cache :
            s \notin moved => cache[s] = [d \in InRange(first, last, s) |-> bars[s][d]]

LEMMA ChartDates == ASSUME NEW s \in Symbols PROVE DOMAIN Chart(s, Reach) \subseteq Days
BY TradesOnDays DEF Chart

LEMMA DatesAreInts == ASSUME NEW D, D \subseteq Days PROVE \A e \in D : e \in Int
BY DaysAreNat

LEMMA CachedAgrees == DatesInv /\ CachedInv => CacheAgreesFromItsStart
<1> SUFFICES ASSUME DatesInv, CachedInv, NEW d \in Days, NEW s \in Symbols, Serves(d), s \notin moved
             PROVE  LET stored == LatestBarsAsOf(bars, {s}, d)
                        tooOld == s \in DOMAIN stored /\ stored[s].date < cacheRange[1]
                    IN  IF s \in DOMAIN cache /\ tooOld THEN s \notin DOMAIN LatestBars({s}, d)
                                                        ELSE LatestBars({s}, d) = stored
  BY DEF CacheAgreesFromItsStart, LatestBars
<1> DEFINE C == LatestBarsAsOf(cache, {s} \cap DOMAIN cache, d)
           T == LatestBarsAsOf(bars, {s} \ DOMAIN cache, d)
<1>1. LatestBars({s}, d) = Over(C, T)
  BY DEF LatestBars
<1>2. CASE s \notin DOMAIN cache
  <2>1. DOMAIN C = {}
    BY <1>2 DEF LatestBarsAsOf
  <2>2. T = LatestBarsAsOf(bars, {s}, d)
    <3>1. {s} \ DOMAIN cache = {s} BY <1>2
    <3> QED BY <3>1
  <2>3. T = [x \in DOMAIN T |-> T[x]]
    BY DEF LatestBarsAsOf
  <2> HIDE DEF C, T
  <2>4. Over(C, T) = [x \in DOMAIN C \cup DOMAIN T |-> IF x \in DOMAIN C THEN C[x] ELSE T[x]]
    BY DEF Over
  <2>5. Over(C, T) = T
    BY <2>1, <2>3, <2>4
  <2>6. LatestBars({s}, d) = LatestBarsAsOf(bars, {s}, d)
    BY <1>1, <2>2, <2>5
  <2> QED BY <1>2, <2>6
<1>3. ASSUME s \in DOMAIN cache, NEW r \in KnownDates(cache, s, d)
      PROVE  /\ LatestBars({s}, d) = LatestBarsAsOf(bars, {s}, d)
             /\ LatestBarsAsOf(bars, {s}, d)[s].date >= cacheRange[1]
             /\ LatestBarsAsOf(bars, {s}, d)[s].date \in Int /\ cacheRange[1] \in Int
  <2>1. PICK first \in Int, last \in Int :
          /\ cacheRange = <<first, last>>
          /\ cache[s] = [e \in InRange(first, last, s) |-> bars[s][e]]
    BY <1>3 DEF CachedInv
  <2>2. d <= last
    BY <2>1 DEF Serves
  <2>3. \A e \in DOMAIN bars[s] : e \in Int
    BY DatesAreInts DEF DatesInv
  <2>4. KnownDates(cache, s, d) = {e \in KnownDates(bars, s, d) : e >= first}
    BY <2>1, <2>2, <2>3, DaysAreNat DEF KnownDates, InRange
  <2> DEFINE E == Entries(bars, s, d)
  <2>6. Entries(cache, s, d) = {e \in E : e.date >= first}
    <3>1. \A e \in KnownDates(cache, s, d) : cache[s][e] = bars[s][e]
      BY <2>1 DEF KnownDates
    <3> QED BY <2>4, <3>1 DEF Entries
  <2>7. Newest(Entries(cache, s, d)) = Newest(E)
    <3>1. \A e \in E : e.date \in Int BY <2>3 DEF Entries, KnownDates
    <3>2. [date |-> r, bar |-> bars[s][r]] \in E /\ r >= first BY <1>3, <2>4 DEF Entries
    <3> DEFINE top == [date |-> r, bar |-> bars[s][r]]
    <3>3. top \in E /\ top.date >= first BY <3>2
    <3> HIDE DEF top, E
    <3> QED BY <2>6, <3>1, <3>3, NewestOfRecent
  <2>8. KnownDates(cache, s, d) # {} /\ KnownDates(bars, s, d) # {}
    BY <1>3, <2>4
  <2>9. C = [x \in {s} |-> Newest(E)]
    <3>1. {s} \cap DOMAIN cache = {s} BY <1>3
    <3>2. {x \in {s} : KnownDates(cache, x, d) # {}} = {s} BY <2>8
    <3> QED BY <3>1, <3>2, <2>7 DEF LatestBarsAsOf
  <2>10. LatestBarsAsOf(bars, {s}, d) = [x \in {s} |-> Newest(E)]
    <3>1. {x \in {s} : KnownDates(bars, x, d) # {}} = {s} BY <2>8
    <3> QED BY <3>1 DEF LatestBarsAsOf
  <2>11. DOMAIN T = {}
    BY <1>3 DEF LatestBarsAsOf
  <2> HIDE DEF C, T, E
  <2>12. Over(C, T) = [x \in DOMAIN C \cup DOMAIN T |-> IF x \in DOMAIN C THEN C[x] ELSE T[x]]
    BY DEF Over
  <2>13. Over(C, T) = C
    BY <2>9, <2>11, <2>12
  <2>14. Newest(Entries(bars, s, d)).date >= first /\ Newest(Entries(bars, s, d)).date \in Int
    <3>1. \A e \in DOMAIN cache[s] : e \in Days
      BY <2>1 DEF InRange, DatesInv
    <3>2. Newest(Entries(cache, s, d)) \in Entries(cache, s, d)
      BY <1>3, <3>1, NewestIsStored
    <3>3. Newest(Entries(bars, s, d)) \in E /\ Newest(Entries(bars, s, d)).date >= first
      BY <2>6, <2>7, <3>2 DEF E
    <3>4. \A e \in E : e.date \in Int
      BY <2>3 DEF E, Entries, KnownDates
    <3> QED BY <3>3, <3>4
  <2>15. LatestBarsAsOf(bars, {s}, d)[s] = Newest(Entries(bars, s, d))
    BY <2>10 DEF E
  <2> QED BY <1>1, <2>1, <2>9, <2>10, <2>13, <2>14, <2>15
<1>4. CASE s \in DOMAIN cache /\ KnownDates(cache, s, d) = {}
  <2>1. LatestBars({s}, d) = [x \in {} |-> 0]
    <3>1. C = [x \in {} |-> 0]
      BY <1>4 DEF LatestBarsAsOf
    <3>2. T = [x \in {} |-> 0]
      BY <1>4 DEF LatestBarsAsOf
    <3> HIDE DEF C, T
    <3> QED BY <1>1, <3>1, <3>2 DEF Over
  <2> DEFINE stored == LatestBarsAsOf(bars, {s}, d)
  <2>2. CASE KnownDates(bars, s, d) = {}
    <3>1. stored = [x \in {} |-> 0]
      BY <2>2 DEF LatestBarsAsOf
    <3> QED BY <2>1, <3>1
  <2>3. CASE KnownDates(bars, s, d) # {}
    <3>1. stored = [x \in {s} |-> Newest(Entries(bars, s, d))]
      <4>1. {x \in {s} : KnownDates(bars, x, d) # {}} = {s} BY <2>3
      <4> QED BY <4>1 DEF LatestBarsAsOf
    <3>2. \A e \in DOMAIN bars[s] : e \in Days
      BY DEF DatesInv
    <3>3. Newest(Entries(bars, s, d)) \in Entries(bars, s, d)
      BY <2>3, <3>2, NewestIsStored
    <3>4. PICK e \in KnownDates(bars, s, d) : Newest(Entries(bars, s, d)).date = e
      <4>1. \A x \in Entries(bars, s, d) : x.date \in KnownDates(bars, s, d)
        BY DEF Entries
      <4> QED BY <3>3, <4>1
    <3>5. PICK first \in Int, last \in Int :
            /\ cacheRange = <<first, last>>
            /\ cache[s] = [x \in InRange(first, last, s) |-> bars[s][x]]
      BY <1>4 DEF CachedInv
    <3>6. d <= last /\ d \in Int /\ e \in Int /\ e <= d
      <4>1. e \in DOMAIN bars[s] /\ e <= d
        BY <3>4 DEF KnownDates
      <4>2. \A x \in Days : x \in Int
        BY DaysAreNat
      <4> QED BY <3>2, <3>5, <4>1, <4>2 DEF Serves
    <3>7. e < first
      BY <1>4, <3>5, <3>6 DEF KnownDates, InRange
    <3>8. s \in DOMAIN stored /\ stored[s].date < cacheRange[1]
      BY <3>1, <3>4, <3>5, <3>7
    <3>9. s \notin DOMAIN LatestBars({s}, d)
      BY <2>1
    <3> QED BY <1>4, <3>8, <3>9
  <2> QED BY <2>2, <2>3
<1>5. ASSUME s \in DOMAIN cache, KnownDates(cache, s, d) # {}
      PROVE  /\ LatestBars({s}, d) = LatestBarsAsOf(bars, {s}, d)
             /\ ~(LatestBarsAsOf(bars, {s}, d)[s].date < cacheRange[1])
  <2>1. PICK r \in KnownDates(cache, s, d) : TRUE
    BY <1>5
  <2>2. /\ LatestBars({s}, d) = LatestBarsAsOf(bars, {s}, d)
        /\ LatestBarsAsOf(bars, {s}, d)[s].date >= cacheRange[1]
        /\ LatestBarsAsOf(bars, {s}, d)[s].date \in Int /\ cacheRange[1] \in Int
    BY <1>3, <1>5, <2>1
  <2> QED BY <2>2
<1> QED BY <1>2, <1>4, <1>5

CacheIsTableInv == DatesInv /\ CachedInv

LEMMA CacheIsTableInvHolds == Spec => []CacheIsTableInv
<1>1. Init => CacheIsTableInv
  BY DaysPass DEF Init, StoreInit, CacheIsTableInv, DatesInv, RowsInv, CachedInv
<1>2. CacheIsTableInv /\ [Next]_vars => CacheIsTableInv'
  <2> SUFFICES ASSUME CacheIsTableInv, [Next]_vars PROVE DatesInv' /\ CachedInv'
    BY DEF CacheIsTableInv
  <2> USE DEF CacheIsTableInv
  <2>1. ASSUME UNCHANGED <<bars, cache, cacheRange, moved>>, today' \in Window..LastDay
        PROVE  DatesInv' /\ CachedInv'
    <3>1. DatesInv'
      BY <2>1 DEF DatesInv, RowsInv
    <3>2. CASE cacheRange = <<>> /\ cache = <<>>
      BY <2>1, <3>1, <3>2 DEF CachedInv
    <3>3. ASSUME NEW first \in Int, NEW last \in Int,
                 cacheRange = <<first, last>>, DOMAIN cache \subseteq Symbols,
                 \A s \in DOMAIN cache :
                   s \notin moved => cache[s] = [d \in InRange(first, last, s) |-> bars[s][d]]
          PROVE  CachedInv'
      <4>1. ASSUME NEW t \in DOMAIN cache, t \notin moved'
            PROVE  cache[t] = [d \in InRange(first, last, t)' |-> bars'[t][d]]
        <5>1. cache[t] = [d \in InRange(first, last, t) |-> bars[t][d]]
          BY <2>1, <3>3, <4>1
        <5> QED BY <2>1, <5>1 DEF InRange
      <4>2. cacheRange' = <<first, last>> /\ cache' = cache
        BY <2>1, <3>3
      <4> QED BY <3>3, <4>1, <4>2 DEF CachedInv
    <3> QED BY <3>1, <3>2, <3>3 DEF CachedInv
  <2>2. ASSUME NEW s, UpsertBars(s, Chart(s, Reach)), moved' = moved \cup {s}, today' = today
        PROVE  DatesInv' /\ CachedInv'
    <3> DEFINE batch == Chart(s, Reach)
    <3>1. /\ cache' = cache /\ cacheRange' = cacheRange
          /\ bars' = [bars EXCEPT ![s] = Over(batch, bars[s])]
      BY <2>2 DEF UpsertBars
    <3>2. ASSUME NEW t \in Symbols PROVE t # s => bars'[t] = bars[t]
      BY <3>1 DEF DatesInv, RowsInv
    <3>3. ASSUME s \in Symbols PROVE DOMAIN bars'[s] \subseteq Days
      <4>1. bars'[s] = Over(batch, bars[s])
        BY <3>1, <3>3 DEF DatesInv, RowsInv
      <4>2. DOMAIN Over(batch, bars[s]) = DOMAIN batch \cup DOMAIN bars[s]
        BY DEF Over
      <4> QED BY <3>3, <4>1, <4>2, ChartDates DEF DatesInv
    <3>4. DatesInv'
      BY <2>2, <3>1, <3>2, <3>3 DEF DatesInv, RowsInv
    <3>5. CASE cacheRange = <<>> /\ cache = <<>>
      BY <3>1, <3>4, <3>5 DEF CachedInv
    <3>6. ASSUME NEW first \in Int, NEW last \in Int,
                 cacheRange = <<first, last>>, DOMAIN cache \subseteq Symbols,
                 \A t \in DOMAIN cache :
                   t \notin moved => cache[t] = [d \in InRange(first, last, t) |-> bars[t][d]]
          PROVE  CachedInv'
      <4>1. ASSUME NEW t \in DOMAIN cache, t \notin moved'
            PROVE  cache[t] = [d \in InRange(first, last, t)' |-> bars'[t][d]]
        <5>1. t # s /\ t \notin moved /\ t \in Symbols BY <2>2, <3>6, <4>1
        <5>2. bars'[t] = bars[t] BY <3>2, <5>1
        <5> QED BY <3>6, <4>1, <5>1, <5>2 DEF InRange
      <4> QED BY <3>1, <3>6, <4>1 DEF CachedInv
    <3> QED BY <3>4, <3>5, <3>6 DEF CachedInv
  <2>3. CASE FetchBars
    <3>1. today' = today
      BY <2>3 DEF FetchBars
    <3>2. CASE UNCHANGED <<storeVars, basis, moved>>
      BY <2>1, <3>1, <3>2 DEF storeVars, DatesInv
    <3>3. ASSUME NEW s, UpsertBars(s, Chart(s, Reach)), moved' = moved \cup {s}
          PROVE  DatesInv' /\ CachedInv'
      BY <2>2, <3>1, <3>3
    <3> QED BY <2>3, <3>2, <3>3 DEF FetchBars
  <2>4. CASE PreloadForBacktest
    <3>1. /\ bars' = bars /\ cacheRange' = <<Window, today>> /\ today' = today
          /\ cache' = [s \in {x \in Symbols : InRange(Window, today, x) # {}} |->
                         [d \in InRange(Window, today, s) |-> bars[s][d]]]
      BY <2>4 DEF PreloadForBacktest, Preload, tables
    <3>2. DatesInv'
      BY <3>1 DEF DatesInv, RowsInv
    <3>3. Window \in Int /\ today \in Int
      BY DaysPass DEF DatesInv
    <3>4. DOMAIN cache' \subseteq Symbols
      BY <3>1
    <3>5. \A s \in DOMAIN cache' : cache'[s] = [d \in InRange(Window, today, s)' |-> bars'[s][d]]
      BY <3>1 DEF InRange
    <3>6. \E first, last \in Int :
            /\ cacheRange' = <<first, last>>
            /\ DOMAIN cache' \subseteq Symbols
            /\ \A s \in DOMAIN cache' :
                 s \notin moved' => cache'[s] = [d \in InRange(first, last, s)' |-> bars'[s][d]]
      <4> DEFINE Good(first, last) ==
            /\ cacheRange' = <<first, last>>
            /\ DOMAIN cache' \subseteq Symbols
            /\ \A s \in DOMAIN cache' :
                 s \notin moved' => cache'[s] = [d \in InRange(first, last, s)' |-> bars'[s][d]]
      <4>1. Good(Window, today)
        BY <3>1, <3>4, <3>5
      <4> HIDE DEF Good
      <4>2. \E first, last \in Int : Good(first, last)
        BY <3>3, <4>1
      <4> QED BY <4>2 DEF Good
    <3> QED BY <3>2, <3>6 DEF CachedInv
  <2>5. CASE DropCache
    BY <2>5 DEF DropCache, ClearCache, tables, marketVars, DatesInv, RowsInv, CachedInv
  <2>6. CASE NewDay
    <3>1. today' \in Window..LastDay
      BY <2>6, DaysPass DEF NewDay, DatesInv
    <3> QED BY <2>1, <2>6, <3>1 DEF NewDay, storeVars
  <2>7. CASE StartIngest \/ StartSnapshots \/ WriteCoverage \/ StartIngestSplits \/ SplitsDone
             \/ Killed \/ UNCHANGED vars
    BY <2>1, <2>7 DEF StartIngest, StartSnapshots, WriteCoverage, StartIngestSplits, SplitsDone,
       Start, Killed, vars, storeVars, marketVars, DatesInv
  <2>8. CASE FetchSplits
    BY <2>1, <2>8 DEF FetchSplits, UpsertSplits, storeVars, DatesInv
  <2>9. CASE WriteSnapshot \/ IngestFundamentals
    BY <2>1, <2>9 DEF WriteSnapshot, SetUniverse, IngestFundamentals, UpsertFacts, DatesInv
  <2> QED BY <2>3, <2>4, <2>5, <2>6, <2>7, <2>8, <2>9 DEF Next
<1> QED BY <1>1, <1>2, PTL DEF Spec

\* For a symbol not written since the preload the cache answers what the query below
\* it answers, unless it holds the symbol and the newest bar known is older than its
\* first date: then, and only then, it answers nothing (store.py:115-150, 202-243).
THEOREM CacheAnswersFromItsStart == Spec => []CacheAgreesFromItsStart
<1>1. CacheIsTableInv => CacheAgreesFromItsStart
  BY CachedAgrees DEF CacheIsTableInv
<1> QED BY <1>1, CacheIsTableInvHolds, PTL

-----------------------------------------------------------------------------
(* Types.                                                                  *)

LEMMA LeastIsMember ==
  ASSUME NEW T, T \subseteq Nat, T # {}
  PROVE  Min(T) \in T
<1>1. PICK x \in T : \A y \in T : ~ (<<y, x>> \in OpToRel(<, Nat))
  BY NatLessThanWellFounded, WFMin
<1>2. \A y \in T : ~ (y < x)
  BY <1>1 DEF OpToRel
<1>3. \A y \in T : x <= y
  BY <1>2
<1>4. QED
  BY <1>3, Zenon DEF Min

LEMMA TodayIsADay == DatesInv => today \in Days /\ today \in Nat
  BY DaysPass DEF DatesInv

\* A symbol's row is written over, and is still one.
LEMMA OverIsRow ==
  ASSUME NEW Value, NEW new, NEW old,
         DOMAIN new \subseteq Days, \A d \in DOMAIN new : new[d] \in Value,
         DOMAIN old \subseteq Days, \A d \in DOMAIN old : old[d] \in Value
  PROVE  /\ DOMAIN Over(new, old) \subseteq Days
         /\ \A d \in DOMAIN Over(new, old) : Over(new, old)[d] \in Value
  BY DEF Over

LEMMA TableIsWritten ==
  ASSUME NEW Value, NEW table, IsTable(table, Symbols, Value), NEW s \in Symbols,
         NEW row, DOMAIN row \subseteq Days, \A d \in DOMAIN row : row[d] \in Value
  PROVE  IsTable([table EXCEPT ![s] = row], Symbols, Value)
<1> DEFINE new == [table EXCEPT ![s] = row]
<1>1. DOMAIN new = Symbols /\ \A t \in Symbols : new[t] = IF t = s THEN row ELSE table[t]
  BY DEF IsTable
<1> HIDE DEF new
<1>2. IsTable(new, Symbols, Value)
  BY <1>1 DEF IsTable
<1>3. QED
  BY <1>2 DEF new

\* What upsert_bars and upsert_splits make of a table.
LEMMA TableIsUpserted ==
  ASSUME NEW Value, NEW table, IsTable(table, Symbols, Value), NEW s \in Symbols,
         NEW batch, DOMAIN batch \subseteq Days, \A d \in DOMAIN batch : batch[d] \in Value
  PROVE  IsTable([table EXCEPT ![s] = Over(batch, @)], Symbols, Value)
<1>1. /\ DOMAIN Over(batch, table[s]) \subseteq Days
      /\ \A d \in DOMAIN Over(batch, table[s]) : Over(batch, table[s])[d] \in Value
  BY OverIsRow DEF IsTable
<1>2. IsTable([table EXCEPT ![s] = Over(batch, table[s])], Symbols, Value)
  BY <1>1, TableIsWritten
<1>3. [table EXCEPT ![s] = Over(batch, @)] = [table EXCEPT ![s] = Over(batch, table[s])]
  OBVIOUS
<1>4. QED
  BY <1>2, <1>3

\* What a download returns is bars on days that have passed.
LEMMA ChartIsRow ==
  ASSUME DatesInv, NEW s \in Symbols
  PROVE  /\ DOMAIN Chart(s, Reach) \subseteq Days
         /\ \A d \in DOMAIN Chart(s, Reach) : Chart(s, Reach)[d] \in Bar
<1>1. today \in Window..LastDay
  BY DEF DatesInv
<1>2. \A d \in DOMAIN Chart(s, Reach) :
        /\ d \in DOMAIN Traded[s] /\ d <= today /\ Chart(s, Reach)[d] = Restated(s, d, today)
  BY DEF Chart
<1>3. QED
  BY <1>1, <1>2, ChartDates, PricesAreBars

LEMMA AskedAreSymbols == DatesInv => Asked \subseteq Symbols
  BY MembersAreSymbols DEF DatesInv, Asked, EverMembersBetween

\* A symbol's result is entered, and it is taken off the list.
LEMMA NotedOutcome ==
  ASSUME NEW o \in Outcomes, NEW s \in Symbols, NEW how \in {"ok", "empty", "failed"}
  PROVE  [o EXCEPT ![how] = @ \cup {s}] \in Outcomes
<1>1. CASE how = "ok"
  BY <1>1 DEF Outcomes
<1>2. CASE how = "empty"
  BY <1>2 DEF Outcomes
<1>3. CASE how = "failed"
  BY <1>3 DEF Outcomes
<1>4. QED
  BY <1>1, <1>2, <1>3

LEMMA NotedIsJob ==
  ASSUME NEW s, NEW how \in {"ok", "empty", "failed"}, s \in Symbols,
         job \in Jobs, job.kind # "snapshots"
  PROVE  /\ Noted(s, how) \in Jobs
         /\ Noted(s, how).kind = job.kind /\ Noted(s, how).day = job.day
         /\ Noted(s, how).todo = job.todo \ {s}
         /\ Noted(s, how).outcome = [job.outcome EXCEPT ![how] = @ \cup {s}]
<1>1. job \in [kind : {"bars", "splits"}, day : Days, todo : SUBSET Symbols, outcome : Outcomes]
  BY DEF Jobs
<1> DEFINE new == [job.outcome EXCEPT ![how] = @ \cup {s}]
<1>2. new \in Outcomes
  BY <1>1, NotedOutcome
<1>3. Noted(s, how) = [kind |-> job.kind, day |-> job.day, todo |-> job.todo \ {s}, outcome |-> new]
  <2> HIDE DEF new
  <2>1. Noted(s, how) = [[job EXCEPT !.todo = job.todo \ {s}] EXCEPT !.outcome = new]
    BY <1>1 DEF Noted, new
  <2>2. QED
    BY <1>1, <2>1
<1> HIDE DEF new
<1>4. Noted(s, how) \in Jobs
  BY <1>1, <1>2, <1>3 DEF Jobs
<1>5. QED
  BY <1>3, <1>4 DEF new

\* The cached bars are bars of the days they were cached for.
LEMMA PreloadIsTable ==
  ASSUME StoreTypeOK, NEW first \in Days, NEW last \in Days, Preload(first, last, Symbols)
  PROVE  StoreTypeOK'
<1> DEFINE Kept(s) == InRange(first, last, s)
<1>1. /\ cacheRange' = <<first, last>> /\ UNCHANGED tables
      /\ DOMAIN cache' = {x \in Symbols : Kept(x) # {}}
      /\ \A s \in DOMAIN cache' : cache'[s] = [d \in Kept(s) |-> bars[s][d]]
  BY DEF Preload
<1>2. \A s \in Symbols : \A d \in Kept(s) :
        d \in DOMAIN bars[s] /\ d \in Days /\ d \in Int /\ first <= d /\ d <= last
  BY DaysAreNat DEF InRange, StoreTypeOK, IsTable
<1>3. \A s \in Symbols : \A d \in DOMAIN bars[s] : bars[s][d] \in Bar
  BY DEF StoreTypeOK, IsTable
<1> HIDE DEF Kept
<1>4. \A s \in DOMAIN cache' :
        /\ s \in Symbols /\ DOMAIN cache'[s] = Kept(s) /\ Kept(s) # {}
        /\ \A d \in Kept(s) : cache'[s][d] = bars[s][d]
  BY <1>1
<1>5. IsTable(cache', DOMAIN cache', Bar) /\ DOMAIN cache' \subseteq Symbols
  BY <1>2, <1>3, <1>4 DEF IsTable
<1>6. first \in Int /\ last \in Int
  BY DaysAreNat
<1>7. /\ cacheRange'[1] = first /\ cacheRange'[2] = last
      /\ cacheRange' \in {<<>>} \cup (Days \X Days)
  BY <1>1
<1>8. \A s \in DOMAIN cache' :
        /\ DOMAIN cache'[s] # {}
        /\ DOMAIN cache'[s] \subseteq cacheRange'[1]..cacheRange'[2]
  BY <1>2, <1>4, <1>6, <1>7
<1>9. IsTable(bars', Symbols, Bar) /\ IsTable(splits', Symbols, Ratios)
      /\ facts' \subseteq Fact /\ universe' \subseteq Days \X Symbols
  BY <1>1 DEF tables, StoreTypeOK
<1>10. QED
  BY <1>5, <1>7, <1>8, <1>9 DEF StoreTypeOK

LEMMA SameStore == ASSUME StoreTypeOK, UNCHANGED storeVars PROVE StoreTypeOK'
  BY DEF StoreTypeOK, storeVars, IsTable

\* What is not the store.
CommandsTypeOK == /\ today \in Days /\ jobs \in 0..MaxJobs
                  /\ job \in Jobs \cup {Idle}
                  /\ coverage \in [day : Days, outcome : Outcomes] \cup {NoCoverage}
                  /\ IsTable(basis, Symbols, Days)
                  /\ splitsSeen \in [Symbols -> {0} \cup Days]
                  /\ moved \subseteq Symbols

LEMMA TypeInit == Init => TypeOK
<1> SUFFICES ASSUME Init PROVE StoreTypeOK /\ CommandsTypeOK
  BY DEF TypeOK, CommandsTypeOK
<1>1. \A V : IsTable([s \in Symbols |-> <<>>], Symbols, V)
  BY DEF IsTable
<1>2. StoreTypeOK
  BY <1>1 DEF Init, StoreInit, StoreTypeOK, IsTable
<1>3. CommandsTypeOK
  BY <1>1, DaysPass DEF Init, CommandsTypeOK
<1>4. QED
  BY <1>2, <1>3

LEMMA BarsFetched ==
  ASSUME TypeOK, DatesInv, FetchBars
  PROVE  TypeOK'
<1> DEFINE s == Min(job.todo)
           batch == Chart(s, Reach)
<1>1. /\ StoreTypeOK /\ CommandsTypeOK
      /\ job \in Jobs /\ job.kind # "snapshots" /\ job.todo # {} /\ job.todo \subseteq Symbols
  BY DEF TypeOK, CommandsTypeOK, FetchBars, Jobs
<1>2. s \in Symbols
  BY <1>1, LeastIsMember, SymbolsAreOrdered
<1>3. DOMAIN batch \subseteq Days /\ \A d \in DOMAIN batch : batch[d] \in Bar
  BY <1>2, ChartIsRow
<1>4. today \in Days
  BY TodayIsADay
<1>5. UNCHANGED <<today, jobs, coverage, splitsSeen>>
  BY DEF FetchBars
<1>6. \A how \in {"ok", "empty", "failed"} : Noted(s, how) \in Jobs
  BY <1>1, <1>2, NotedIsJob
<1>7. job' \in Jobs
  <2>1. \E how \in {"ok", "empty", "failed"} : job' = Noted(s, how)
    BY DEF FetchBars
  <2>2. QED
    BY <1>6, <2>1
<1>8. CASE UNCHANGED <<storeVars, basis, moved>>
  <2>1. StoreTypeOK'
    BY <1>1, <1>8, SameStore
  <2>2. QED
    BY <1>1, <1>5, <1>7, <1>8, <2>1 DEF TypeOK, CommandsTypeOK
<1>9. CASE /\ UpsertBars(s, batch)
           /\ basis' = [basis EXCEPT ![s] = Over([d \in DOMAIN batch |-> today], @)]
           /\ moved' = moved \cup {s}
  <2>1. IsTable(bars', Symbols, Bar)
    <3>1. IsTable(bars, Symbols, Bar)
      BY <1>1 DEF StoreTypeOK
    <3> HIDE DEF batch, s
    <3>2. IsTable([bars EXCEPT ![s] = Over(batch, @)], Symbols, Bar)
      BY <1>2, <1>3, <3>1, TableIsUpserted
    <3>3. QED
      BY <1>9, <3>2 DEF UpsertBars
  <2>2. IsTable(basis', Symbols, Days)
    <3> DEFINE row == [d \in DOMAIN batch |-> today]
    <3>1. DOMAIN row \subseteq Days /\ \A d \in DOMAIN row : row[d] \in Days
      BY <1>3, <1>4
    <3>2. IsTable(basis, Symbols, Days)
      BY <1>1 DEF CommandsTypeOK
    <3> HIDE DEF batch, s, row
    <3>3. IsTable([basis EXCEPT ![s] = Over(row, @)], Symbols, Days)
      BY <1>2, <3>1, <3>2, TableIsUpserted
    <3>4. QED
      BY <1>9, <3>3 DEF row
  <2>3. StoreTypeOK'
    BY <1>1, <1>9, <2>1 DEF StoreTypeOK, UpsertBars, IsTable
  <2>4. QED
    BY <1>1, <1>2, <1>5, <1>7, <1>9, <2>2, <2>3 DEF TypeOK, CommandsTypeOK
<1>10. QED
  BY <1>8, <1>9 DEF FetchBars

LEMMA SplitsFetched ==
  ASSUME TypeOK, DatesInv, FetchSplits
  PROVE  TypeOK'
<1> DEFINE s == Min(job.todo)
           batch == [d \in SplitsBetween(s, 0, today) |-> SplitOn[s][d]]
<1>1. /\ StoreTypeOK /\ CommandsTypeOK
      /\ job \in Jobs /\ job.kind # "snapshots" /\ job.todo # {} /\ job.todo \subseteq Symbols
  BY DEF TypeOK, CommandsTypeOK, FetchSplits, Jobs
<1>2. s \in Symbols
  BY <1>1, LeastIsMember, SymbolsAreOrdered
<1>3. DOMAIN batch \subseteq Days /\ \A d \in DOMAIN batch : batch[d] \in Ratios
  BY <1>2, SplitsHaveRatios DEF SplitsBetween
<1>4. today \in Days
  BY TodayIsADay
<1>5. UNCHANGED <<today, jobs, coverage, basis, moved>>
  BY DEF FetchSplits
<1>6. job' \in Jobs
  <2>1. \A how \in {"ok", "empty", "failed"} : Noted(s, how) \in Jobs
    BY <1>1, <1>2, NotedIsJob
  <2>2. \E how \in {"ok", "empty", "failed"} : job' = Noted(s, how)
    BY DEF FetchSplits
  <2>3. QED
    BY <2>1, <2>2
<1>7. CASE UNCHANGED <<storeVars, splitsSeen>>
  <2>1. StoreTypeOK'
    BY <1>1, <1>7, SameStore
  <2>2. QED
    BY <1>1, <1>5, <1>6, <1>7, <2>1 DEF TypeOK, CommandsTypeOK
<1>8. CASE UpsertSplits(s, batch) /\ splitsSeen' = [splitsSeen EXCEPT ![s] = today]
  <2>1. IsTable(splits', Symbols, Ratios)
    <3>1. IsTable(splits, Symbols, Ratios)
      BY <1>1 DEF StoreTypeOK
    <3> HIDE DEF batch, s
    <3>2. IsTable([splits EXCEPT ![s] = Over(batch, @)], Symbols, Ratios)
      BY <1>2, <1>3, <3>1, TableIsUpserted
    <3>3. QED
      BY <1>8, <3>2 DEF UpsertSplits
  <2>2. StoreTypeOK'
    BY <1>1, <1>8, <2>1 DEF StoreTypeOK, UpsertSplits, IsTable
  <2>3. splitsSeen' \in [Symbols -> {0} \cup Days]
    BY <1>1, <1>4, <1>8 DEF CommandsTypeOK
  <2>4. QED
    BY <1>1, <1>5, <1>6, <2>2, <2>3 DEF TypeOK, CommandsTypeOK
<1>9. QED
  BY <1>7, <1>8 DEF FetchSplits

LEMMA CommandStarted ==
  ASSUME TypeOK, DatesInv, NEW kind \in {"bars", "splits"}, NEW todo \in SUBSET Symbols,
         Start(kind, todo)
  PROVE  TypeOK'
<1>1. StoreTypeOK /\ CommandsTypeOK /\ today \in Days
  BY TodayIsADay DEF TypeOK, CommandsTypeOK
<1>2. StoreTypeOK'
  BY <1>1, SameStore DEF Start
<1>3. job' \in Jobs
  BY <1>1 DEF Start, Jobs, Outcomes
<1>4. jobs' \in 0..MaxJobs
  BY <1>1, DaysPass DEF Start, CommandsTypeOK
<1>5. QED
  BY <1>1, <1>2, <1>3, <1>4 DEF Start, TypeOK, CommandsTypeOK

LEMMA SnapshotsStarted ==
  ASSUME TypeOK, StartSnapshots
  PROVE  /\ TypeOK'
         /\ job' = [kind |-> "snapshots", day |-> job.day, outcome |-> job.outcome,
                    todo |-> SnapshotDates(Window, job.day)]
<1>1. /\ StoreTypeOK /\ CommandsTypeOK
      /\ job \in [kind : {"bars", "splits"}, day : Days, todo : SUBSET Symbols, outcome : Outcomes]
  BY DEF TypeOK, CommandsTypeOK, StartSnapshots, Jobs
<1> DEFINE dates == SnapshotDates(Window, job.day)
<1>2. dates \in SUBSET Days
  BY DEF SnapshotDates
<1>3. StoreTypeOK'
  BY <1>1, SameStore DEF StartSnapshots
<1>4. job' = [job EXCEPT !.kind = "snapshots", !.todo = dates]
  BY DEF StartSnapshots
<1> HIDE DEF dates
<1>5. job' = [kind |-> "snapshots", day |-> job.day, todo |-> dates, outcome |-> job.outcome]
  BY <1>1, <1>4
<1>6. job' \in Jobs
  BY <1>1, <1>2, <1>5 DEF Jobs
<1>7. TypeOK'
  BY <1>1, <1>3, <1>6 DEF StartSnapshots, TypeOK, CommandsTypeOK
<1>8. QED
  BY <1>5, <1>7 DEF dates

LEMMA SnapshotWritten ==
  ASSUME TypeOK, WriteSnapshot, job.day \in Window..LastDay
  PROVE  /\ TypeOK'
         /\ Min(job.todo) \in job.todo
         /\ job' = [kind |-> "snapshots", day |-> job.day, outcome |-> job.outcome,
                    todo |-> job.todo \ {Min(job.todo)}]
<1> DEFINE d == Min(job.todo)
           members == MembersOn(Members[job.day], d)
<1>1. /\ StoreTypeOK /\ CommandsTypeOK /\ job.todo # {}
      /\ job \in [kind : {"snapshots"}, day : Days, todo : SUBSET Days, outcome : Outcomes]
  BY DEF TypeOK, CommandsTypeOK, WriteSnapshot, Jobs
<1>2. d \in job.todo
  BY <1>1, LeastIsMember, DaysAreNat
<1>3. members \in SUBSET Symbols
  BY MembersAreSymbols DEF MembersOn
<1>4. SetUniverse(d, members) /\ job' = [job EXCEPT !.todo = @ \ {d}]
  BY DEF WriteSnapshot
<1> HIDE DEF d, members
<1>5. universe' \subseteq Days \X Symbols
  BY <1>1, <1>2, <1>3, <1>4 DEF SetUniverse, StoreTypeOK
<1>6. StoreTypeOK'
  BY <1>1, <1>4, <1>5 DEF SetUniverse, StoreTypeOK, IsTable
<1>7. job' = [kind |-> "snapshots", day |-> job.day, todo |-> job.todo \ {d}, outcome |-> job.outcome]
  BY <1>1, <1>4
<1>8. job' \in Jobs
  BY <1>1, <1>7 DEF Jobs
<1>9. TypeOK'
  BY <1>1, <1>6, <1>8 DEF WriteSnapshot, TypeOK, CommandsTypeOK
<1>10. QED
  BY <1>2, <1>7, <1>9 DEF d

LEMMA CoverageWritten ==
  ASSUME TypeOK, WriteCoverage
  PROVE  TypeOK'
<1>1. StoreTypeOK /\ CommandsTypeOK /\ job.day \in Days /\ job.outcome \in Outcomes
  BY DEF TypeOK, CommandsTypeOK, WriteCoverage, Jobs
<1>2. StoreTypeOK'
  BY <1>1, SameStore DEF WriteCoverage
<1>3. QED
  BY <1>1, <1>2 DEF WriteCoverage, TypeOK, CommandsTypeOK

LEMMA FactsIngested ==
  ASSUME TypeOK, DatesInv, IngestFundamentals
  PROVE  TypeOK'
<1>1. StoreTypeOK /\ CommandsTypeOK
  BY DEF TypeOK, CommandsTypeOK
<1>2. facts' \subseteq Fact
  <2>1. PICK failed : UpsertFacts({f \in Filings : f.filed <= today /\ f.symbol \in Asked \ failed})
    BY DEF IngestFundamentals
  <2>2. QED
    BY <1>1, <2>1, FilingsAreFacts DEF UpsertFacts, StoreTypeOK
<1>3. UNCHANGED <<bars, splits, universe, cache, cacheRange>>
  BY DEF IngestFundamentals, UpsertFacts
<1>4. StoreTypeOK'
  BY <1>1, <1>2, <1>3 DEF StoreTypeOK, IsTable
<1>5. jobs' \in 0..MaxJobs
  BY <1>1, DaysPass DEF IngestFundamentals, CommandsTypeOK
<1>6. QED
  BY <1>1, <1>4, <1>5 DEF IngestFundamentals, TypeOK, CommandsTypeOK

LEMMA CacheChanged ==
  ASSUME TypeOK, DatesInv, PreloadForBacktest \/ DropCache
  PROVE  TypeOK'
<1>1. StoreTypeOK /\ CommandsTypeOK /\ today \in Days /\ Window \in Days
  BY TodayIsADay, DaysPass DEF TypeOK, CommandsTypeOK
<1>2. CASE PreloadForBacktest
  <2>1. StoreTypeOK'
    BY <1>1, <1>2, PreloadIsTable DEF PreloadForBacktest
  <2>2. QED
    BY <1>1, <1>2, <2>1 DEF PreloadForBacktest, TypeOK, CommandsTypeOK
<1>3. CASE DropCache
  <2>1. StoreTypeOK'
    BY <1>1, <1>3 DEF DropCache, ClearCache, tables, StoreTypeOK, IsTable
  <2>2. QED
    BY <1>1, <1>3, <2>1 DEF DropCache, marketVars, TypeOK, CommandsTypeOK
<1>4. QED
  BY <1>2, <1>3

\* The rows of the tables, the cached bars and what a command keeps have their
\* types, whatever is ingested, fails or dies.
TypedInv == TypeOK /\ (job # Idle => job.day \in Window..today)

LEMMA TypedStep ==
  ASSUME TypedInv, DatesInv, [Next]_vars
  PROVE  TypedInv'
<1>1. /\ StoreTypeOK /\ CommandsTypeOK /\ TypeOK /\ today \in Days /\ today \in Window..LastDay
      /\ Window \in Int /\ LastDay \in Int
  BY TodayIsADay, DaysPass DEF TypedInv, TypeOK, CommandsTypeOK, DatesInv
<1>2. CASE FetchBars
  <2>1. TypeOK'
    BY <1>1, <1>2, BarsFetched
  <2>2. job \in Jobs /\ job.todo \subseteq Symbols /\ job.todo # {} /\ job.kind # "snapshots"
    BY <1>1, <1>2 DEF FetchBars, CommandsTypeOK, Jobs
  <2>3. Min(job.todo) \in Symbols
    BY <2>2, LeastIsMember, SymbolsAreOrdered
  <2>4. job'.day = job.day /\ today' = today
    <3> DEFINE s == Min(job.todo)
    <3>1. PICK how \in {"ok", "empty", "failed"} : job' = Noted(s, how)
      BY <1>2 DEF FetchBars
    <3> HIDE DEF s
    <3>2. Noted(s, how).day = job.day
      BY <2>2, <2>3, NotedIsJob DEF s
    <3>3. QED
      BY <1>2, <3>1, <3>2 DEF FetchBars
  <2>5. QED
    BY <1>2, <2>1, <2>4 DEF TypedInv, FetchBars
<1>3. CASE FetchSplits
  <2>1. TypeOK'
    BY <1>1, <1>3, SplitsFetched
  <2>2. job \in Jobs /\ job.todo \subseteq Symbols /\ job.todo # {} /\ job.kind # "snapshots"
    BY <1>1, <1>3 DEF FetchSplits, CommandsTypeOK, Jobs
  <2>3. Min(job.todo) \in Symbols
    BY <2>2, LeastIsMember, SymbolsAreOrdered
  <2>4. job'.day = job.day /\ today' = today
    <3> DEFINE s == Min(job.todo)
    <3>1. PICK how \in {"ok", "empty", "failed"} : job' = Noted(s, how)
      BY <1>3 DEF FetchSplits
    <3> HIDE DEF s
    <3>2. Noted(s, how).day = job.day
      BY <2>2, <2>3, NotedIsJob DEF s
    <3>3. QED
      BY <1>3, <3>1, <3>2 DEF FetchSplits
  <2>5. QED
    BY <1>3, <2>1, <2>4 DEF TypedInv, FetchSplits
<1>4. CASE StartIngest \/ StartIngestSplits
  <2>1. Asked \in SUBSET Symbols /\ Asked \cup {Benchmark} \in SUBSET Symbols
    BY AskedAreSymbols, SymbolsAreOrdered
  <2>2. PICK kind \in {"bars", "splits"}, todo \in SUBSET Symbols : Start(kind, todo)
    BY <1>4, <2>1 DEF StartIngest, StartIngestSplits
  <2>3. TypeOK'
    BY <1>1, <2>2, CommandStarted
  <2>4. job'.day = today /\ today' = today
    BY <2>2 DEF Start
  <2>5. QED
    BY <1>1, <2>3, <2>4 DEF TypedInv
<1>5. CASE StartSnapshots
  BY <1>1, <1>5, SnapshotsStarted DEF TypedInv, StartSnapshots
<1>6. CASE WriteSnapshot
  <2>1. job.day \in Window..today /\ job.day \in Window..LastDay
    BY <1>1, <1>6 DEF TypedInv, WriteSnapshot
  <2>2. TypeOK' /\ job'.day = job.day
    BY <1>1, <1>6, <2>1, SnapshotWritten
  <2>3. QED
    BY <1>6, <2>1, <2>2 DEF TypedInv, WriteSnapshot
<1>7. CASE WriteCoverage
  BY <1>1, <1>7, CoverageWritten DEF TypedInv, WriteCoverage
<1>8. CASE IngestFundamentals
  BY <1>1, <1>8, FactsIngested DEF TypedInv, IngestFundamentals
<1>9. CASE PreloadForBacktest \/ DropCache
  <2>1. TypeOK'
    BY <1>1, <1>9, CacheChanged
  <2>2. QED
    BY <1>9, <2>1 DEF TypedInv, PreloadForBacktest, DropCache, marketVars
<1>10. CASE SplitsDone \/ Killed
  <2>1. StoreTypeOK'
    BY <1>1, <1>10, SameStore DEF SplitsDone, Killed
  <2>2. QED
    BY <1>1, <1>10, <2>1 DEF TypedInv, TypeOK, CommandsTypeOK, SplitsDone, Killed
<1>11. CASE NewDay
  <2>1. StoreTypeOK'
    BY <1>1, <1>11, SameStore DEF NewDay
  <2>2. today' = today + 1 /\ today' \in Days
    BY <1>1, <1>11, DaysPass DEF NewDay
  <2>3. job # Idle => job.day \in Window..today'
    BY <1>1, <2>2 DEF TypedInv
  <2>4. QED
    BY <1>1, <1>11, <2>1, <2>2, <2>3 DEF TypedInv, TypeOK, CommandsTypeOK, NewDay
<1>12. CASE UNCHANGED vars
  <2>1. StoreTypeOK'
    BY <1>1, <1>12, SameStore DEF vars
  <2>2. QED
    BY <1>1, <1>12, <2>1 DEF TypedInv, TypeOK, CommandsTypeOK, vars, marketVars
<1>13. QED
  BY <1>2, <1>3, <1>4, <1>5, <1>6, <1>7, <1>8, <1>9, <1>10, <1>11, <1>12 DEF Next

LEMMA TypedInvHolds == Spec => [](TypedInv /\ DatesInv)
<1>1. Init => TypedInv
  BY TypeInit DEF TypedInv, Init
<1>2. TypedInv /\ DatesInv /\ [Next]_vars => TypedInv'
  BY TypedStep
<1>3. CacheIsTableInv => DatesInv
  BY DEF CacheIsTableInv
<1>4. QED
  BY <1>1, <1>2, <1>3, CacheIsTableInvHolds, PTL DEF Spec

\* No ingest, whatever it is given and wherever it dies, leaves a row, a cached
\* bar or a result that is not one.
THEOREM MarketDataTypes == Spec => []TypeOK
<1>1. TypedInv => TypeOK
  BY DEF TypedInv
<1>2. QED
  BY <1>1, TypedInvHolds, PTL

-----------------------------------------------------------------------------
(* Months.                                                                 *)

LEMMA Division ==
  ASSUME NEW a \in Nat, NEW m \in Nat \ {0}
  PROVE  /\ a \div m \in Nat /\ a % m \in Nat /\ a % m < m
         /\ a = m * (a \div m) + (a % m)
  OBVIOUS

LEMMA Multiples ==
  ASSUME NEW m \in Nat \ {0}, NEW a \in Nat, NEW b \in Nat
  PROVE  /\ m * a \in Nat /\ (m * a) % m = 0
         /\ m * (a + 1) = m * a + m
         /\ a <= b => m * a <= m * b
<1>1. m * a \in Nat /\ m * (a + 1) = m * a + m
  OBVIOUS
<1>2. a <= b => m * a <= m * b
  OBVIOUS
<1>3. (m * a) % m = 0
  <2> DEFINE x == m * a
             q == x \div m
             r == x % m
  <2>1. x \in Nat
    BY <1>1
  <2>2. q \in Nat /\ r \in Nat /\ r < m /\ x = m * q + r
    BY <2>1, Division
  <2> HIDE DEF q, r
  <2>3. r = m * (a - q) /\ a - q \in Int
    BY <2>2
  <2>4. ~ (a - q >= 1) /\ ~ (a - q <= -1)
    BY <2>2, <2>3
  <2>5. a - q = 0
    BY <2>3, <2>4
  <2>6. r = 0
    BY <2>3, <2>5
  <2>7. QED
    BY <2>6 DEF r
<1>4. QED
  BY <1>1, <1>2, <1>3

\* A month starts on its first day, and no month starts between the start of a
\* day's month and the day.
LEMMA MonthStarts ==
  ASSUME NEW d \in Nat \ {0}
  PROVE  /\ MonthStart(d) \in 1..d
         /\ MonthStart(MonthStart(d)) = MonthStart(d)
         /\ d < MonthStart(d) + MonthDays
         /\ \A e \in Nat \ {0} : e = MonthStart(e) /\ e <= d => e <= MonthStart(d)
<1> DEFINE M == MonthDays
           n == d - 1
           q == n \div M
           r == n % M
<1>1. M \in Nat \ {0} /\ n \in Nat
  BY DaysPass
<1>2. MonthStart(d) = d - r
  BY DEF MonthStart
<1> HIDE DEF M, n
<1>3. q \in Nat /\ r \in Nat /\ r < M /\ n = M * q + r
  BY <1>1, Division
<1>4. M * q \in Nat /\ (M * q) % M = 0
  BY <1>1, <1>3, Multiples
<1> HIDE DEF q, r
<1>5. MonthStart(d) = M * q + 1
  BY <1>2, <1>3, <1>4 DEF n
<1>6. MonthStart(M * q + 1) = M * q + 1
  <2> DEFINE start == M * q
  <2>1. start \in Nat /\ start % M = 0
    BY <1>4
  <2> HIDE DEF start
  <2>2. (start + 1) - 1 = start
    BY <2>1
  <2>3. MonthStart(start + 1) = start + 1
    BY <2>1, <2>2 DEF MonthStart, M
  <2>4. QED
    BY <2>3 DEF start
<1>7. ASSUME NEW e \in Nat \ {0}, e = MonthStart(e), e <= d
      PROVE  e <= M * q + 1
  <2> DEFINE k == e - 1
             p == k \div M
             rest == k % M
  <2>1. k \in Nat /\ MonthStart(e) = e - rest
    BY DEF MonthStart, M
  <2> HIDE DEF k
  <2>2. p \in Nat /\ rest \in Nat /\ k = M * p + rest
    BY <1>1, <2>1, Division
  <2> HIDE DEF p, rest
  <2>3. rest = 0
    BY <1>7, <2>1, <2>2
  <2>4. M * p \in Nat /\ M * (q + 1) = M * q + M /\ (q + 1 <= p => M * (q + 1) <= M * p)
        /\ (p <= q => M * p <= M * q)
    BY <1>1, <1>3, <2>2, Multiples
  <2> DEFINE mp == M * p
             mq == M * q
             mr == M * (q + 1)
  <2>5. mp \in Nat /\ mq \in Nat /\ mr = mq + M /\ (q + 1 <= p => mr <= mp) /\ (p <= q => mp <= mq)
        /\ k = mp + rest /\ n = mq + r
    BY <1>3, <1>4, <2>2, <2>4
  <2> HIDE DEF mp, mq, mr
  <2>6. ~ (q + 1 <= p)
    BY <1>1, <1>3, <1>7, <2>3, <2>5 DEF k, n
  <2>7. mp <= mq
    BY <1>3, <2>2, <2>5, <2>6
  <2>8. e <= mq + 1
    BY <2>3, <2>5, <2>7 DEF k
  <2>9. QED
    BY <2>8 DEF mq
<1>8. QED
  <2> DEFINE start == MonthStart(d)
  <2>1. start = d - r /\ start \in Nat /\ 1 <= start
    BY <1>2, <1>3, <1>4, <1>5
  <2>2. MonthStart(start) = start /\ \A e \in Nat \ {0} : e = MonthStart(e) /\ e <= d => e <= start
    BY <1>5, <1>6, <1>7
  <2> HIDE DEF start
  <2>3. start \in 1..d /\ d < start + M
    BY <1>1, <1>3, <2>1
  <2>4. QED
    BY <2>2, <2>3 DEF start, M

-----------------------------------------------------------------------------
(* The universe.                                                           *)

\* The snapshots that a reading of the membership leaves on some dates.
Written(rows, v, dates) ==
  \A d \in dates : \A s \in MembersOn(Members[v], d) : <<d, s>> \in rows

\* Every row is of the start of a month, from a list read by now.
Dated(rows, now) ==
  \A e \in rows : /\ e[1] \in Nat \ {0} /\ MonthStart(e[1]) = e[1]
                  /\ \E v \in Window..now : e[2] \in MembersOn(Members[v], e[1])

\* The snapshots of an ingest are there, but for those it has still to write.
Snapped(rows, j) ==
  j # Idle /\ j.kind = "snapshots" =>
    /\ j.todo \subseteq SnapshotDates(Window, j.day)
    /\ Written(rows, j.day, SnapshotDates(Window, j.day) \ j.todo)

\* Those of the last that ended are.
Covered(rows, c, now) ==
  c.day # 0 => c.day \in Window..now /\ Written(rows, c.day, SnapshotDates(Window, c.day))

UniverseInv ==
  Dated(universe, today) /\ Snapped(universe, job) /\ Covered(universe, coverage, today)

LEMMA UniverseInit == Init => UniverseInv
  BY DEF Init, StoreInit, UniverseInv, NoCoverage, Dated, Snapped, Covered

\* A day may pass, and a command may end or go on that writes no snapshot.
LEMMA UniverseKept ==
  ASSUME UniverseInv, DatesInv, universe' = universe, today' \in Nat, today <= today',
         job' = Idle \/ job'.kind # "snapshots" \/ job' = job,
         coverage' = coverage
  PROVE  UniverseInv'
<1>1. Window..today \subseteq Window..today'
  BY DaysPass DEF DatesInv
<1>2. Dated(universe, today')
  BY <1>1 DEF UniverseInv, Dated
<1>3. Snapped(universe, job')
  BY DEF UniverseInv, Snapped
<1>4. Covered(universe, coverage, today')
  BY <1>1 DEF UniverseInv, Covered
<1>5. QED
  BY <1>2, <1>3, <1>4 DEF UniverseInv

\* One snapshot.
LEMMA UniverseGrows ==
  ASSUME UniverseInv, TypedInv, DatesInv, WriteSnapshot
  PROVE  UniverseInv'
<1> DEFINE d == Min(job.todo)
           members == MembersOn(Members[job.day], d)
<1>1. /\ job.kind = "snapshots" /\ job # Idle /\ job.day \in Window..today
      /\ today' = today /\ coverage' = coverage
      /\ universe' = universe \cup ({d} \X members)
  BY DEF WriteSnapshot, SetUniverse, TypedInv
<1>2. job.day \in Window..LastDay
  BY <1>1, DaysPass DEF DatesInv
<1>3. /\ d \in job.todo
      /\ job' = [kind |-> "snapshots", day |-> job.day, outcome |-> job.outcome,
                 todo |-> job.todo \ {d}]
  BY <1>2, SnapshotWritten DEF TypedInv
<1>4. /\ job.todo \subseteq SnapshotDates(Window, job.day)
      /\ Written(universe, job.day, SnapshotDates(Window, job.day) \ job.todo)
  BY <1>1 DEF UniverseInv, Snapped
<1> HIDE DEF d
<1>5. d \in Nat \ {0} /\ MonthStart(d) = d
  <2>1. d \in Nat /\ d >= MonthStart(Window) /\ MonthStart(d) = d
    BY <1>3, <1>4, DaysAreNat DEF SnapshotDates
  <2>2. MonthStart(Window) \in 1..Window
    BY MonthStarts, DaysPass
  <2>3. QED
    BY <2>1, <2>2
<1>6. Dated(universe', today')
  <2>1. \A e \in {d} \X members : e[1] = d /\ e[2] \in members
    OBVIOUS
  <2>2. SUFFICES ASSUME NEW e \in universe'
                 PROVE  /\ e[1] \in Nat \ {0} /\ MonthStart(e[1]) = e[1]
                        /\ \E v \in Window..today : e[2] \in MembersOn(Members[v], e[1])
    BY <1>1 DEF Dated
  <2>3. CASE e \in universe
    BY <2>3 DEF UniverseInv, Dated
  <2>4. CASE e \in {d} \X members
    BY <1>1, <1>5, <2>1, <2>4
  <2>5. QED
    BY <1>1, <2>3, <2>4
<1>7. \A v, dates : Written(universe, v, dates) => Written(universe', v, dates)
  BY <1>1 DEF Written
<1>8. Written(universe', job.day, SnapshotDates(Window, job.day) \ (job.todo \ {d}))
  <2>1. \A s \in members : <<d, s>> \in universe'
    BY <1>1
  <2> DEFINE dates == SnapshotDates(Window, job.day)
  <2>2. Written(universe', job.day, dates \ job.todo)
    BY <1>4, <1>7
  <2>3. Written(universe', job.day, {d})
    BY <2>1 DEF Written
  <2> HIDE DEF dates, members
  <2>4. \A x \in dates \ (job.todo \ {d}) : x \in dates \ job.todo \/ x \in {d}
    OBVIOUS
  <2>5. Written(universe', job.day, dates \ (job.todo \ {d}))
    BY <2>2, <2>3, <2>4 DEF Written
  <2>6. QED
    BY <2>5 DEF dates
<1>9. Snapped(universe', job')
  BY <1>3, <1>4, <1>8 DEF Snapped
<1>10. Covered(universe', coverage', today')
  BY <1>1, <1>7 DEF UniverseInv, Covered
<1>11. QED
  BY <1>6, <1>9, <1>10 DEF UniverseInv

LEMMA UniverseStep ==
  ASSUME UniverseInv, TypedInv, DatesInv, [Next]_vars
  PROVE  UniverseInv'
<1>1. today \in Window..LastDay /\ today \in Nat /\ TypeOK /\ job \in Jobs \cup {Idle}
  BY TodayIsADay, DaysPass DEF TypedInv, TypeOK, DatesInv
<1>2. CASE FetchBars \/ FetchSplits
  <2>1. job \in Jobs /\ job.todo \subseteq Symbols /\ job.todo # {} /\ job.kind # "snapshots"
    BY <1>1, <1>2 DEF FetchBars, FetchSplits, Jobs
  <2> DEFINE s == Min(job.todo)
  <2>2. s \in Symbols
    BY <2>1, LeastIsMember, SymbolsAreOrdered
  <2>3. PICK how \in {"ok", "empty", "failed"} : job' = Noted(s, how)
    BY <1>2 DEF FetchBars, FetchSplits
  <2>4. universe' = universe /\ today' = today /\ coverage' = coverage
    BY <1>2 DEF FetchBars, FetchSplits, UpsertBars, UpsertSplits, storeVars
  <2> HIDE DEF s
  <2>5. job'.kind # "snapshots"
    BY <2>1, <2>2, <2>3, NotedIsJob
  <2>6. QED
    BY <1>1, <2>4, <2>5, UniverseKept
<1>3. CASE StartIngest \/ StartIngestSplits
  <2>1. PICK kind : kind \in {"bars", "splits"} /\ \E asked : Start(kind, asked)
    BY <1>3 DEF StartIngest, StartIngestSplits
  <2>2. job'.kind # "snapshots" /\ universe' = universe /\ today' = today /\ coverage' = coverage
    BY <2>1 DEF Start, storeVars
  <2>3. QED
    BY <1>1, <2>2, UniverseKept
<1>4. CASE StartSnapshots
  <2>1. job' = [kind |-> "snapshots", day |-> job.day, outcome |-> job.outcome,
                todo |-> SnapshotDates(Window, job.day)]
    BY <1>1, <1>4, SnapshotsStarted
  <2>2. universe' = universe /\ today' = today /\ coverage' = coverage
    BY <1>4 DEF StartSnapshots, storeVars
  <2>3. Snapped(universe, job')
    BY <2>1 DEF Snapped, Written
  <2>4. QED
    BY <2>2, <2>3 DEF UniverseInv
<1>5. CASE WriteSnapshot
  BY <1>5, UniverseGrows
<1>6. CASE WriteCoverage
  <2>1. /\ job # Idle /\ job.kind = "snapshots" /\ job.todo = {} /\ job.day \in Window..today
        /\ coverage' = [day |-> job.day, outcome |-> job.outcome] /\ job' = Idle
        /\ universe' = universe /\ today' = today
    BY <1>6 DEF WriteCoverage, TypedInv, storeVars
  <2>2. Written(universe, job.day, SnapshotDates(Window, job.day))
    <3>1. SnapshotDates(Window, job.day) \ job.todo = SnapshotDates(Window, job.day)
      BY <2>1
    <3>2. QED
      BY <2>1, <3>1 DEF UniverseInv, Snapped
  <2>3. Covered(universe, coverage', today)
    BY <2>1, <2>2 DEF Covered
  <2>4. Snapped(universe, job')
    BY <2>1 DEF Snapped
  <2>5. QED
    BY <2>1, <2>3, <2>4 DEF UniverseInv
<1>7. CASE IngestFundamentals \/ PreloadForBacktest \/ DropCache \/ SplitsDone \/ Killed
           \/ UNCHANGED vars
  <2>1. /\ universe' = universe /\ today' = today /\ coverage' = coverage
        /\ job' = job \/ job' = Idle
    BY <1>7 DEF IngestFundamentals, UpsertFacts, PreloadForBacktest, Preload, DropCache, ClearCache,
       SplitsDone, Killed, vars, storeVars, marketVars, tables
  <2>2. QED
    BY <1>1, <2>1, UniverseKept
<1>8. CASE NewDay
  <2>1. universe' = universe /\ today' = today + 1 /\ coverage' = coverage /\ job' = job
    BY <1>8 DEF NewDay, storeVars
  <2>2. QED
    BY <1>1, <2>1, UniverseKept
<1>9. QED
  BY <1>2, <1>3, <1>4, <1>5, <1>6, <1>7, <1>8 DEF Next

LEMMA UniverseInvHolds == Spec => []UniverseInv
<1>1. UniverseInv /\ TypedInv /\ DatesInv /\ [Next]_vars => UniverseInv'
  BY UniverseStep
<1>2. QED
  BY <1>1, UniverseInit, TypedInvHolds, PTL DEF Spec

\* The list in force on a day is that of the first of its month.
THEOREM UniverseDated == Spec => []UniverseIsDated
<1>1. UniverseInv /\ DatesInv /\ TypedInv => UniverseIsDated
  <2> SUFFICES ASSUME UniverseInv, DatesInv, TypedInv, coverage.day # 0,
                      NEW d \in Window..coverage.day
               PROVE  /\ MembersOn(Members[coverage.day], MonthStart(d)) \subseteq UniverseAsOf(universe, d)
                      /\ UniverseAsOf(universe, d) \subseteq
                           UNION {MembersOn(Members[v], MonthStart(d)) : v \in Window..today}
    BY DEF UniverseIsDated
  <2> DEFINE v == coverage.day
             m == MonthStart(d)
             known == {e \in universe : e[1] <= d}
  <2>1. /\ v \in Window..today /\ v \in Window..LastDay /\ d \in Nat \ {0} /\ Window \in Nat \ {0}
        /\ v \in Nat /\ d <= v /\ Window <= d
        /\ Written(universe, v, SnapshotDates(Window, v))
    BY DaysPass DEF UniverseInv, Covered, DatesInv
  <2> HIDE DEF v
  <2>2. /\ m \in 1..d /\ m = MonthStart(m)
        /\ \A e \in Nat \ {0} : e = MonthStart(e) /\ e <= d => e <= m
    BY <2>1, MonthStarts
  <2>3. MonthStart(Window) <= m
    <3>1. MonthStart(Window) \in 1..Window /\ MonthStart(MonthStart(Window)) = MonthStart(Window)
      BY <2>1, MonthStarts
    <3>2. QED
      BY <2>1, <2>2, <3>1
  <2> HIDE DEF m
  <2>4. m \in SnapshotDates(Window, v) /\ m \in 1..v
    BY <2>1, <2>2, <2>3, DaysPass DEF SnapshotDates
  <2>5. \A s \in MembersOn(Members[v], m) : <<m, s>> \in known
    BY <2>1, <2>2, <2>4 DEF Written
  <2>6. \A e \in known : e[1] \in Nat \ {0} /\ e[1] <= m
    BY <2>2 DEF UniverseInv, Dated
  <2>7. PICK s \in MembersOn(Members[v], m) : TRUE
    BY <2>1, <2>4, IndexIsNeverEmpty
  <2> DEFINE top == <<m, s>>
             tops == {x \in known : \A y \in known : y[1] <= x[1]}
  <2>8. UniverseAsOf(universe, d) = {e[2] : e \in tops}
    BY DEF UniverseAsOf
  <2>9. UniverseAsOf(universe, d) = {e[2] : e \in {x \in known : x[1] = m}}
    <3>1. top \in known /\ top[1] = m
      BY <2>5, <2>7
    <3> HIDE DEF known, top
    <3>2. \A e \in known : (\A f \in known : f[1] <= e[1]) <=> e[1] = m
      <4> SUFFICES ASSUME NEW e \in known PROVE (\A f \in known : f[1] <= e[1]) <=> e[1] = m
        OBVIOUS
      <4>1. ASSUME \A f \in known : f[1] <= e[1] PROVE e[1] = m
        <5>1. m <= e[1] /\ e[1] <= m /\ e[1] \in Nat
          BY <2>6, <3>1, <4>1
        <5>2. QED
          BY <2>2, <5>1
      <4>2. ASSUME e[1] = m PROVE \A f \in known : f[1] <= e[1]
        BY <2>6, <4>2
      <4>3. QED
        BY <4>1, <4>2
    <3>3. tops = {x \in known : x[1] = m}
      BY <3>2
    <3>4. QED
      BY <2>8, <3>3
  <2> HIDE DEF known, top, tops
  <2>10. MembersOn(Members[v], m) \subseteq UniverseAsOf(universe, d)
    <3>1. SUFFICES ASSUME NEW t \in MembersOn(Members[v], m)
                   PROVE  t \in {e[2] : e \in {x \in known : x[1] = m}}
      BY <2>9
    <3> DEFINE row == <<m, t>>
    <3>2. row \in known /\ row[1] = m /\ row[2] = t
      BY <2>5
    <3> HIDE DEF row
    <3>3. QED
      BY <3>2
  <2>11. UniverseAsOf(universe, d) \subseteq UNION {MembersOn(Members[u], m) : u \in Window..today}
    <3>1. SUFFICES ASSUME NEW e \in known, e[1] = m
                   PROVE  e[2] \in UNION {MembersOn(Members[u], m) : u \in Window..today}
      BY <2>9
    <3>2. PICK u \in Window..today : e[2] \in MembersOn(Members[u], e[1])
      BY DEF UniverseInv, Dated, known
    <3>3. QED
      BY <3>1, <3>2
  <2>12. QED
    BY <2>10, <2>11 DEF m, v
<1>2. QED
  BY <1>1, UniverseInvHolds, TypedInvHolds, PTL

-----------------------------------------------------------------------------
(* The coverage.                                                           *)

\* The days a download of bars on day t brings.
Reached(s, t) == {d \in DOMAIN Traded[s] : t - Reach < d /\ d <= t}

\* A download on day v or later brought some, and they are kept.
Stored(table, s, v, now) ==
  \E t \in v..now : Reached(s, t) # {} /\ Reached(s, t) \subseteq DOMAIN table[s]

\* What became of the symbols an ingest asked for on day v.
Accounted(table, v, todo, outcome, now) ==
  \A s \in EverMembersBetween(Members[v], Window, v) :
    s \in todo \cup outcome.empty \cup outcome.failed \/ Stored(table, s, v, now)

\* Of the running ingest, and of the last that ended.
Accounting(table, j, now) ==
  /\ j # Idle /\ j.kind = "bars" => Accounted(table, j.day, j.todo, j.outcome, now)
  /\ j # Idle /\ j.kind = "snapshots" => Accounted(table, j.day, {}, j.outcome, now)

Accounts(table, c, now) == c.day # 0 => Accounted(table, c.day, {}, c.outcome, now)

CoverageInv == Accounting(bars, job, today) /\ Accounts(bars, coverage, today)

LEMMA CoverageInit == Init => CoverageInv
  BY DEF Init, CoverageInv, Accounting, Accounts, NoCoverage

\* What is accounted for stays so as rows are added and days pass.
LEMMA AccountedStays ==
  ASSUME NEW old, NEW new, NEW now \in Int, NEW later \in Int, now <= later, NEW v \in Int,
         \A s \in Symbols : DOMAIN old[s] \subseteq DOMAIN new[s],
         v \in Window..LastDay,
         NEW todo, NEW outcome, Accounted(old, v, todo, outcome, now)
  PROVE  Accounted(new, v, todo, outcome, later)
<1>1. v..now \subseteq v..later
  OBVIOUS
<1>2. ASSUME NEW s \in EverMembersBetween(Members[v], Window, v) PROVE s \in Symbols
  BY MembersAreSymbols DEF EverMembersBetween
<1>3. QED
  BY <1>1, <1>2 DEF Accounted, Stored

LEMMA CoverageKept ==
  ASSUME CoverageInv, TypedInv, DatesInv, UniverseInv,
         \A s \in Symbols : DOMAIN bars[s] \subseteq DOMAIN bars'[s],
         today' \in Int, today <= today',
         coverage' = coverage
  PROVE  /\ Accounts(bars', coverage', today')
         /\ job' = Idle \/ job'.kind = "splits" \/ job' = job => Accounting(bars', job', today')
<1>1. today \in Int /\ Window \in Int /\ LastDay \in Int /\ today <= LastDay
  BY DaysPass DEF DatesInv
<1>2. coverage.day # 0 => coverage.day \in Window..LastDay
  BY <1>1 DEF UniverseInv, Covered
<1>3. job # Idle => job.day \in Window..LastDay
  BY <1>1 DEF TypedInv
<1>4. Accounts(bars', coverage', today')
  <2>1. ASSUME coverage.day # 0, NEW todo, NEW outcome,
               Accounted(bars, coverage.day, todo, outcome, today)
        PROVE  Accounted(bars', coverage.day, todo, outcome, today')
    <3>1. coverage.day \in Int /\ coverage.day \in Window..LastDay
      BY <1>1, <1>2, <2>1
    <3>2. QED
      BY <1>1, <2>1, <3>1, AccountedStays
  <2>2. QED
    BY <2>1 DEF CoverageInv, Accounts
<1>5. Accounting(bars', job, today')
  <2>1. ASSUME job # Idle, NEW todo, NEW outcome, Accounted(bars, job.day, todo, outcome, today)
        PROVE  Accounted(bars', job.day, todo, outcome, today')
    <3>1. job.day \in Int /\ job.day \in Window..LastDay
      BY <1>1, <1>3, <2>1
    <3>2. QED
      BY <1>1, <2>1, <3>1, AccountedStays
  <2>2. QED
    BY <2>1 DEF CoverageInv, Accounting
<1>6. QED
  BY <1>4, <1>5 DEF Accounting

\* One symbol: its bars are stored, or its name is.
LEMMA CoverageFetched ==
  ASSUME CoverageInv, TypedInv, DatesInv, UniverseInv, FetchBars
  PROVE  CoverageInv'
<1> DEFINE s == Min(job.todo)
<1>1. /\ today \in Window..LastDay /\ today \in Int /\ Window \in Int /\ LastDay \in Int
      /\ today' = today /\ coverage' = coverage
      /\ job \in Jobs /\ job # Idle /\ job.kind = "bars"
      /\ job.todo \subseteq Symbols /\ job.todo # {} /\ job.day \in Window..today
  BY TodayIsADay, DaysPass DEF TypedInv, TypeOK, DatesInv, FetchBars, Jobs
<1>2. s \in Symbols
  BY <1>1, LeastIsMember, SymbolsAreOrdered
<1>3. Accounted(bars, job.day, job.todo, job.outcome, today)
  BY <1>1 DEF CoverageInv, Accounting
<1>4. ASSUME \A x \in Symbols : DOMAIN bars[x] \subseteq DOMAIN bars'[x],
             NEW how \in {"ok", "empty", "failed"}, job' = Noted(s, how),
             how = "ok" => Stored(bars', s, job.day, today)
      PROVE  CoverageInv'
  <2>1. Accounts(bars', coverage', today')
    BY <1>1, <1>4, CoverageKept
  <2>2. Accounted(bars', job.day, job.todo, job.outcome, today)
    <3>1. \A x \in Symbols : DOMAIN bars[x] \subseteq DOMAIN bars'[x]
      BY <1>4
    <3>2. today \in Int /\ today <= today /\ job.day \in Int /\ job.day \in Window..LastDay
      BY <1>1
    <3>3. QED
      BY <1>3, <3>1, <3>2, AccountedStays
  <2>3. /\ job'.kind = "bars" /\ job'.day = job.day /\ job'.todo = job.todo \ {s}
        /\ job'.outcome = [job.outcome EXCEPT ![how] = @ \cup {s}]
    <3> HIDE DEF s
    <3>1. QED
      BY <1>1, <1>2, <1>4, NotedIsJob
  <2>4. /\ job.outcome.empty \subseteq job'.outcome.empty
        /\ job.outcome.failed \subseteq job'.outcome.failed
        /\ how # "ok" => s \in job'.outcome.empty \cup job'.outcome.failed
    <3>1. job.outcome \in [ok : SUBSET Symbols, empty : SUBSET Symbols, failed : SUBSET Symbols]
      BY <1>1 DEF Jobs, Outcomes
    <3> HIDE DEF s
    <3>2. QED
      BY <2>3, <3>1
  <2> HIDE DEF s
  <2>5. Accounted(bars', job'.day, job'.todo, job'.outcome, today)
    BY <1>4, <2>2, <2>3, <2>4 DEF Accounted
  <2>6. Accounting(bars', job', today')
    BY <1>1, <2>3, <2>5 DEF Accounting
  <2>7. QED
    BY <2>1, <2>6 DEF CoverageInv
<1>5. CASE /\ Chart(s, Reach) # <<>>
           /\ UpsertBars(s, Chart(s, Reach))
           /\ job' = Noted(s, "ok")
  <2>1. DOMAIN Chart(s, Reach) = Reached(s, today)
    BY DEF Chart, Reached
  <2>2. Reached(s, today) # {}
    <3>1. Chart(s, Reach) = [d \in Reached(s, today) |-> Restated(s, d, today)]
      BY DEF Chart, Reached
    <3>2. CASE Reached(s, today) = {}
      BY <1>5, <3>1, <3>2
    <3>3. QED
      BY <3>2
  <2> DEFINE batch == Chart(s, Reach)
  <2>3. \A x \in Symbols : bars'[x] = IF x = s THEN Over(batch, bars[x]) ELSE bars[x]
    BY <1>5 DEF UpsertBars, DatesInv, RowsInv
  <2> HIDE DEF batch, s
  <2>4. \A x \in Symbols : DOMAIN bars[x] \subseteq DOMAIN bars'[x]
    BY <2>3 DEF Over
  <2>5. DOMAIN batch \subseteq DOMAIN bars'[s]
    BY <1>2, <2>3 DEF Over
  <2>6. Stored(bars', s, job.day, today)
    BY <1>1, <2>1, <2>2, <2>5 DEF Stored, batch
  <2>7. QED
    BY <1>4, <1>5, <2>4, <2>6 DEF s
<1>6. CASE UNCHANGED storeVars /\ (job' = Noted(s, "empty") \/ job' = Noted(s, "failed"))
  <2>1. \A x \in Symbols : DOMAIN bars[x] \subseteq DOMAIN bars'[x]
    BY <1>6 DEF storeVars
  <2>2. PICK how \in {"empty", "failed"} : job' = Noted(s, how)
    BY <1>6
  <2>3. QED
    BY <1>4, <2>1, <2>2
<1>7. QED
  BY <1>5, <1>6 DEF FetchBars

LEMMA CoverageStep ==
  ASSUME CoverageInv, TypedInv, DatesInv, UniverseInv, [Next]_vars
  PROVE  CoverageInv'
<1>1. /\ today \in Window..LastDay /\ today \in Int /\ TypeOK /\ job \in Jobs \cup {Idle}
      /\ Window \in Int /\ LastDay \in Int
  BY TodayIsADay, DaysPass DEF TypedInv, TypeOK, DatesInv
<1>2. CASE FetchBars
  BY <1>2, CoverageFetched
<1>3. CASE StartIngest
  <2>1. /\ bars' = bars /\ today' = today /\ coverage' = coverage
        /\ job'.kind = "bars" /\ job'.day = today /\ job'.todo = Asked \cup {Benchmark}
    BY <1>3 DEF StartIngest, Start, storeVars
  <2>2. Accounting(bars, job', today)
    BY <2>1 DEF Accounting, Accounted, Asked
  <2>3. QED
    BY <2>1, <2>2 DEF CoverageInv
<1>4. CASE StartIngestSplits
  <2>1. bars' = bars /\ today' = today /\ coverage' = coverage /\ job'.kind = "splits"
    BY <1>4 DEF StartIngestSplits, Start, storeVars
  <2>2. QED
    BY <1>1, <2>1, CoverageKept DEF CoverageInv
<1>5. CASE StartSnapshots
  <2>1. job' = [kind |-> "snapshots", day |-> job.day, outcome |-> job.outcome,
                todo |-> SnapshotDates(Window, job.day)]
    BY <1>1, <1>5, SnapshotsStarted
  <2>2. /\ bars' = bars /\ today' = today /\ coverage' = coverage
        /\ job # Idle /\ job.kind = "bars" /\ job.todo = {}
    BY <1>5 DEF StartSnapshots, storeVars
  <2>3. Accounting(bars, job', today)
    BY <2>1, <2>2 DEF CoverageInv, Accounting
  <2>4. QED
    BY <2>2, <2>3 DEF CoverageInv
<1>6. CASE WriteSnapshot
  <2>1. job.day \in Window..LastDay
    BY <1>1, <1>6 DEF TypedInv, WriteSnapshot
  <2>2. job' = [kind |-> "snapshots", day |-> job.day, outcome |-> job.outcome,
                todo |-> job.todo \ {Min(job.todo)}]
    BY <1>1, <1>6, <2>1, SnapshotWritten
  <2>3. /\ bars' = bars /\ today' = today /\ coverage' = coverage
        /\ job # Idle /\ job.kind = "snapshots"
    BY <1>6 DEF WriteSnapshot, SetUniverse
  <2>4. Accounting(bars, job', today)
    BY <2>2, <2>3 DEF CoverageInv, Accounting
  <2>5. QED
    BY <2>3, <2>4 DEF CoverageInv
<1>7. CASE WriteCoverage
  <2>1. /\ job # Idle /\ job.kind = "snapshots" /\ job.todo = {} /\ job' = Idle
        /\ coverage' = [day |-> job.day, outcome |-> job.outcome]
        /\ bars' = bars /\ today' = today
    BY <1>7 DEF WriteCoverage, storeVars
  <2>2. Accounts(bars, coverage', today)
    BY <2>1 DEF CoverageInv, Accounting, Accounts
  <2>3. QED
    BY <2>1, <2>2 DEF CoverageInv, Accounting
<1>8. CASE IngestFundamentals \/ PreloadForBacktest \/ DropCache \/ SplitsDone \/ Killed
           \/ UNCHANGED vars
  <2>1. /\ bars' = bars /\ today' = today /\ coverage' = coverage
        /\ job' = job \/ job' = Idle
    BY <1>8 DEF IngestFundamentals, UpsertFacts, PreloadForBacktest, Preload, DropCache, ClearCache,
       SplitsDone, Killed, vars, storeVars, marketVars, tables
  <2>2. QED
    BY <1>1, <2>1, CoverageKept DEF CoverageInv
<1>9. CASE NewDay
  <2>1. bars' = bars /\ today' = today + 1 /\ coverage' = coverage /\ job' = job
    BY <1>9 DEF NewDay, storeVars
  <2>2. QED
    BY <1>1, <2>1, CoverageKept DEF CoverageInv
<1>10. CASE FetchSplits
  <2> DEFINE s == Min(job.todo)
  <2>1. job \in Jobs /\ job.todo \subseteq Symbols /\ job.todo # {} /\ job.kind = "splits"
    BY <1>1, <1>10 DEF FetchSplits, Jobs
  <2>2. s \in Symbols
    BY <2>1, LeastIsMember, SymbolsAreOrdered
  <2>3. PICK how \in {"ok", "empty", "failed"} : job' = Noted(s, how)
    BY <1>10 DEF FetchSplits
  <2>4. bars' = bars /\ today' = today /\ coverage' = coverage
    BY <1>10 DEF FetchSplits, UpsertSplits, storeVars
  <2> HIDE DEF s
  <2>5. job'.kind = "splits"
    BY <2>1, <2>2, <2>3, NotedIsJob
  <2>6. QED
    BY <1>1, <2>4, <2>5, CoverageKept DEF CoverageInv
<1>11. QED
  BY <1>2, <1>3, <1>4, <1>5, <1>6, <1>7, <1>8, <1>9, <1>10 DEF Next

LEMMA CoverageInvHolds == Spec => []CoverageInv
<1>1. CoverageInv /\ TypedInv /\ DatesInv /\ UniverseInv /\ [Next]_vars => CoverageInv'
  BY CoverageStep
<1>2. QED
  BY <1>1, CoverageInit, UniverseInvHolds, TypedInvHolds, PTL DEF Spec

\* What a download brought reaches back to the window, if what it looked for does.
LEMMA StoredIsKnown ==
  ASSUME NEW v \in Window..today, NEW d \in Window..v, NEW span \in Members[v],
         Stored(bars, span.ticker, v, today), today \in Window..LastDay
  PROVE  \/ KnownDates(bars, span.ticker, d) # {}
         \/ DOMAIN Chart(span.ticker, today) \cap (1..d) = {}
<1> DEFINE s == span.ticker
           traded == DOMAIN Traded[s]
<1>1. /\ v \in Window..LastDay /\ Window \in Int /\ LastDay \in Int /\ today \in Int /\ v \in Int
      /\ d \in Int /\ Reach \in Int
  BY DaysPass, ReachesTheWindow
<1>2. s \in Symbols /\ \A x \in traded : x \in Int
  <2>1. s \in Symbols
    BY <1>1, MembersAreSymbols
  <2>2. traded \subseteq Days
    BY <2>1, TradesOnDays
  <2>3. \A x \in traded : x \in Int
    <3> HIDE DEF traded
    <3>1. QED
      BY <2>2, DatesAreInts
  <2>4. QED
    BY <2>1, <2>3
<1>3. PICK t \in v..today : Reached(s, t) # {} /\ Reached(s, t) \subseteq DOMAIN bars[s]
  BY DEF Stored
<1>4. \A x \in traded : t - Reach < x /\ x <= d => KnownDates(bars, s, d) # {}
  BY <1>1, <1>2, <1>3 DEF Reached, KnownDates
<1>5. SUFFICES ASSUME NEW z \in traded, z <= d PROVE KnownDates(bars, s, d) # {}
  BY DEF Chart
<1>6. CASE t - Reach < z
  BY <1>4, <1>5, <1>6
<1>7. CASE z <= t - Reach
  <2>1. PICK y \in traded : t - Reach < y /\ y <= t
    BY <1>3 DEF Reached
  <2>2. t \in Window..LastDay
    BY <1>1, <1>3
  <2>3. PICK x \in traded : t - Reach < x /\ x <= Window
    BY <1>1, <1>7, <2>1, <2>2, MembersTradeOn
  <2>4. x <= d
    BY <1>1, <1>2, <2>3
  <2>5. QED
    BY <1>4, <2>3, <2>4
<1>8. QED
  BY <1>1, <1>2, <1>3, <1>6, <1>7

\* A member of the index on a day of the window has bars by then, did not trade
\* by then, is named in the coverage, or was not asked for because it had left
\* before the window began.
THEOREM CoverageHonest == Spec => []CoverageIsHonest
<1>1. CoverageInv /\ UniverseInv /\ DatesInv => CoverageIsHonest
  <2> SUFFICES ASSUME CoverageInv, UniverseInv, DatesInv, coverage.day # 0,
                      NEW d \in Window..coverage.day,
                      NEW s \in MembersOn(Members[coverage.day], MonthStart(d))
               PROVE  \/ KnownDates(bars, s, d) # {} \/ DOMAIN Chart(s, today) \cap (1..d) = {}
                      \/ s \in coverage.outcome.empty \cup coverage.outcome.failed
                      \/ /\ d < Window + MonthDays
                         /\ s \notin EverMembersBetween(Members[coverage.day], Window, coverage.day)
    BY DEF CoverageIsHonest
  <2> DEFINE v == coverage.day
             m == MonthStart(d)
  <2>1. /\ v \in Window..today /\ today \in Window..LastDay /\ v \in Window..LastDay
        /\ Window \in Nat \ {0} /\ d \in Nat \ {0} /\ d <= v /\ MonthDays \in Nat
    BY DaysPass DEF UniverseInv, Covered, DatesInv
  <2>2. Accounted(bars, v, {}, coverage.outcome, today)
    BY DEF CoverageInv, Accounts
  <2>3. m \in 1..d /\ d < m + MonthDays
    BY <2>1, MonthStarts
  <2> HIDE DEF v
  <2>4. PICK span \in Members[v] : s = span.ticker /\ span.from <= m /\ m <= span.to
    BY DEF MembersOn, v
  <2>5. span.from \in Int /\ span.to \in Int
    BY <2>1, <2>4, MembersAreSymbols
  <2> HIDE DEF m
  <2>6. CASE s \in EverMembersBetween(Members[v], Window, v)
    <3>1. s \in coverage.outcome.empty \cup coverage.outcome.failed \/ Stored(bars, s, v, today)
      BY <2>2, <2>6 DEF Accounted
    <3>2. Stored(bars, s, v, today) =>
            KnownDates(bars, s, d) # {} \/ DOMAIN Chart(s, today) \cap (1..d) = {}
      BY <2>1, <2>4, StoredIsKnown DEF v
    <3>3. QED
      BY <3>1, <3>2
  <2>7. CASE s \notin EverMembersBetween(Members[v], Window, v)
    <3>1. ~(span.to >= Window)
      BY <2>1, <2>3, <2>4, <2>5, <2>7 DEF EverMembersBetween
    <3>2. d < Window + MonthDays
      BY <2>1, <2>3, <2>4, <2>5, <3>1
    <3>3. QED
      BY <2>7, <3>2 DEF v
  <2>8. QED
    BY <2>6, <2>7
<1>2. QED
  BY <1>1, CoverageInvHolds, UniverseInvHolds, TypedInvHolds, PTL
-----------------------------------------------------------------------------
(* Products of ratios.                                                     *)

ProductOf(w, S) == FoldSet(LAMBDA d, factor : factor * w[d], 1, S)

\* f multiplies w over the sets in `sets'.
Multiplies(f, w, sets) ==
  f = [s \in sets |-> IF s = {} THEN 1 ELSE f[s \ {First(s)}] * w[First(s)]]

LEMMA ProductsExist ==
  ASSUME NEW S, IsFiniteSet(S), NEW w
  PROVE  \E f : Multiplies(f, w, SUBSET S)
<1> DEFINE Upto(n) == {T \in SUBSET S : Cardinality(T) <= n}
           bad == {n \in Nat : \A f : ~Multiplies(f, w, Upto(n))}
<1>1. \A T \in SUBSET S : IsFiniteSet(T) /\ Cardinality(T) \in Nat
  BY FS_Subset, FS_CardinalityType
<1>2. bad = {}
  <2>1. SUFFICES ASSUME bad # {} PROVE FALSE
    OBVIOUS
  <2>2. PICK n \in bad : \A m \in bad : n <= m
    <3>1. bad \subseteq Nat
      OBVIOUS
    <3> HIDE DEF bad
    <3>2. QED
      BY <2>1, <3>1, SmallestNumber
  <2>3. n \in Nat /\ \A f : ~Multiplies(f, w, Upto(n))
    OBVIOUS
  <2>4. CASE n = 0
    <3>1. \A T \in Upto(0) : T = {}
      BY <1>1, FS_EmptySet
    <3>2. Multiplies([s \in Upto(0) |-> 1], w, Upto(0))
      BY <3>1 DEF Multiplies
    <3>3. QED
      BY <2>3, <2>4, <3>2
  <2>5. CASE n # 0
    <3> DEFINE m == n - 1
    <3>1. m \in Nat /\ m < n
      BY <2>3, <2>5
    <3>2. m \notin bad
      BY <2>2, <3>1
    <3>3. PICK f : Multiplies(f, w, Upto(m))
      BY <3>1, <3>2
    <3> DEFINE g == [s \in Upto(n) |-> IF s = {} THEN 1 ELSE f[s \ {First(s)}] * w[First(s)]]
    <3>4. ASSUME NEW s \in Upto(n), s # {}
          PROVE  s \ {First(s)} \in Upto(m)
      <4>1. First(s) \in s
        BY <3>4 DEF First
      <4>2. Cardinality(s \ {First(s)}) = Cardinality(s) - 1
        BY <1>1, <4>1, FS_RemoveElement
      <4>3. QED
        BY <1>1, <2>3, <4>2
    <3>5. \A s \in Upto(m) : s \in Upto(n)
      BY <1>1, <2>3
    <3>6. \A s \in Upto(m) : g[s] = f[s]
      BY <3>3, <3>5 DEF Multiplies
    <3>7. Multiplies(g, w, Upto(n))
      <4>1. \A s \in Upto(n) : s # {} => g[s \ {First(s)}] = f[s \ {First(s)}]
        BY <3>4, <3>6
      <4>2. g = [s \in Upto(n) |-> IF s = {} THEN 1 ELSE g[s \ {First(s)}] * w[First(s)]]
        BY <4>1
      <4> HIDE DEF g, Upto
      <4>3. QED
        BY <4>2 DEF Multiplies
    <3>8. QED
      BY <2>3, <3>7
  <2>6. QED
    BY <2>4, <2>5
<1>3. Upto(Cardinality(S)) = SUBSET S
  BY FS_Subset
<1>4. Cardinality(S) \in Nat
  BY FS_CardinalityType
<1>5. QED
  BY <1>2, <1>3, <1>4

LEMMA ProductsMultiply ==
  ASSUME NEW S, IsFiniteSet(S), NEW w
  PROVE  \E f : Multiplies(f, w, SUBSET S) /\ ProductOf(w, S) = f[S]
<1> DEFINE f == CHOOSE iter : Multiplies(iter, w, SUBSET S)
<1>1. ProductOf(w, S) = f[S]
  BY DEF ProductOf, FoldSet, MapThenFoldSet, Multiplies, First
<1>2. Multiplies(f, w, SUBSET S)
  BY ProductsExist, Zenon
<1>3. QED
  BY <1>1, <1>2

\* Two products over the sets of a family say the same of the sets in both.
LEMMA ProductsAgree ==
  ASSUME NEW S, IsFiniteSet(S), NEW T \in SUBSET S, NEW w, NEW f, NEW g,
         Multiplies(f, w, SUBSET S), Multiplies(g, w, SUBSET T)
  PROVE  f[T] = g[T]
<1> DEFINE bad == {U \in SUBSET T : f[U] # g[U]}
<1>1. SUFFICES ASSUME bad # {} PROVE FALSE
  OBVIOUS
<1>2. IsFiniteSet(T)
  BY FS_Subset
<1>3. PICK U \in bad : \A V \in bad : V \subseteq U => V = U
  <2>1. bad \in SUBSET (SUBSET T)
    OBVIOUS
  <2> HIDE DEF bad
  <2>2. QED
    BY <1>1, <1>2, <2>1, SmallestSubset
<1>4. U \in SUBSET T /\ U \in SUBSET S /\ f[U] # g[U]
  OBVIOUS
<1>5. /\ f[U] = IF U = {} THEN 1 ELSE f[U \ {First(U)}] * w[First(U)]
      /\ g[U] = IF U = {} THEN 1 ELSE g[U \ {First(U)}] * w[First(U)]
  BY <1>4, Zenon DEF Multiplies
<1>6. U # {}
  BY <1>4, <1>5
<1>7. First(U) \in U
  BY <1>6 DEF First
<1>8. f[U \ {First(U)}] = g[U \ {First(U)}]
  <2> DEFINE rest == U \ {First(U)}
  <2>1. rest \in SUBSET T /\ rest \subseteq U /\ rest # U
    BY <1>4, <1>7
  <2> HIDE DEF rest
  <2>2. rest \notin bad
    BY <1>3, <2>1
  <2>3. f[rest] = g[rest]
    BY <2>1, <2>2
  <2>4. QED
    BY <2>3 DEF rest
<1>9. QED
  BY <1>4, <1>5, <1>6, <1>8

LEMMA ProductOfNone == ASSUME NEW w PROVE ProductOf(w, {}) = 1
<1>1. PICK f : Multiplies(f, w, SUBSET {}) /\ ProductOf(w, {}) = f[{}]
  BY ProductsMultiply, FS_EmptySet
<1>2. QED
  BY <1>1 DEF Multiplies

LEMMA ProductOfFirst ==
  ASSUME NEW S, IsFiniteSet(S), S # {}, NEW w
  PROVE  /\ First(S) \in S /\ IsFiniteSet(S \ {First(S)})
         /\ ProductOf(w, S) = ProductOf(w, S \ {First(S)}) * w[First(S)]
<1> DEFINE T == S \ {First(S)}
<1>1. First(S) \in S
  BY DEF First
<1>2. IsFiniteSet(T) /\ T \in SUBSET S
  BY FS_Subset
<1>3. PICK f : Multiplies(f, w, SUBSET S) /\ ProductOf(w, S) = f[S]
  BY ProductsMultiply
<1>4. PICK g : Multiplies(g, w, SUBSET T) /\ ProductOf(w, T) = g[T]
  BY <1>2, ProductsMultiply
<1>5. f[S] = f[T] * w[First(S)]
  <2>1. S \in SUBSET S
    OBVIOUS
  <2>2. f[S] = IF S = {} THEN 1 ELSE f[T] * w[First(S)]
    BY <1>3, <2>1, Zenon DEF Multiplies
  <2>3. QED
    BY <2>2
<1>6. f[T] = g[T]
  <2> HIDE DEF T
  <2>1. QED
    BY <1>2, <1>3, <1>4, ProductsAgree
<1>7. QED
  BY <1>1, <1>2, <1>3, <1>4, <1>5, <1>6

LEMMA TimesIsPositive ==
  ASSUME NEW a \in Nat \ {0}, NEW b \in Nat \ {0}
  PROVE  a * b \in Nat \ {0}
OBVIOUS

\* A split ratio is at least one, and so is a product of some.
LEMMA ProductIsPositive ==
  ASSUME NEW S, IsFiniteSet(S), NEW w, \A s \in S : w[s] \in Nat \ {0}
  PROVE  ProductOf(w, S) \in Nat \ {0}
<1> DEFINE bad == {T \in SUBSET S : ProductOf(w, T) \notin Nat \ {0}}
<1>1. SUFFICES ASSUME bad # {} PROVE FALSE
  OBVIOUS
<1>2. PICK T \in bad : \A U \in bad : U \subseteq T => U = T
  <2>1. bad \in SUBSET (SUBSET S)
    OBVIOUS
  <2> HIDE DEF bad
  <2>2. QED
    BY <1>1, <2>1, SmallestSubset
<1>3. T \in SUBSET S /\ IsFiniteSet(T) /\ ProductOf(w, T) \notin Nat \ {0}
  BY FS_Subset
<1>4. T # {}
  BY <1>3, ProductOfNone
<1> DEFINE x == First(T)
           rest == T \ {x}
<1>5. x \in T /\ rest \in SUBSET S /\ ProductOf(w, T) = ProductOf(w, rest) * w[x]
  BY <1>3, <1>4, ProductOfFirst
<1> HIDE DEF x
<1>6. ProductOf(w, rest) \in Nat \ {0} /\ w[x] \in Nat \ {0}
  BY <1>2, <1>3, <1>5
<1> HIDE DEF rest, bad
<1>7. QED
  BY <1>3, <1>5, <1>6, TimesIsPositive

\* Only the factors count.
LEMMA SameProducts ==
  ASSUME NEW S, IsFiniteSet(S), NEW v, NEW w, \A s \in S : v[s] = w[s]
  PROVE  ProductOf(v, S) = ProductOf(w, S)
<1> DEFINE bad == {T \in SUBSET S : ProductOf(v, T) # ProductOf(w, T)}
<1>1. SUFFICES ASSUME bad # {} PROVE FALSE
  OBVIOUS
<1>2. PICK T \in bad : \A U \in bad : U \subseteq T => U = T
  <2>1. bad \in SUBSET (SUBSET S)
    OBVIOUS
  <2> HIDE DEF bad
  <2>2. QED
    BY <1>1, <2>1, SmallestSubset
<1>3. T \in SUBSET S /\ IsFiniteSet(T) /\ ProductOf(v, T) # ProductOf(w, T)
  BY FS_Subset
<1>4. T # {}
  BY <1>3, ProductOfNone
<1> DEFINE x == First(T)
           rest == T \ {x}
<1>5. /\ x \in T /\ rest \in SUBSET S
      /\ ProductOf(v, T) = ProductOf(v, rest) * v[x] /\ ProductOf(w, T) = ProductOf(w, rest) * w[x]
  BY <1>3, <1>4, ProductOfFirst
<1> HIDE DEF x
<1>6. ProductOf(v, rest) = ProductOf(w, rest) /\ v[x] = w[x]
  BY <1>2, <1>3, <1>5
<1>7. QED
  BY <1>3, <1>5, <1>6

LEMMA TimesCommute ==
  ASSUME NEW a \in Int, NEW b \in Int, NEW c \in Int
  PROVE  (a * b) * c = (a * c) * b /\ (a * b) * c = a * (b * c)
OBVIOUS

\* Whatever factor is taken out, the product is it times the product of the others.
LEMMA ProductOfOthers ==
  ASSUME NEW S, IsFiniteSet(S), NEW w, \A s \in S : w[s] \in Nat \ {0}, NEW x \in S
  PROVE  ProductOf(w, S) = ProductOf(w, S \ {x}) * w[x]
<1> DEFINE Fails(T) == \E t \in T : ProductOf(w, T) # ProductOf(w, T \ {t}) * w[t]
           bad == {T \in SUBSET S : Fails(T)}
<1>1. ASSUME bad # {} PROVE FALSE
  <2>1. PICK T \in bad : \A U \in bad : U \subseteq T => U = T
    <3>1. bad \in SUBSET (SUBSET S)
      OBVIOUS
    <3> HIDE DEF bad
    <3>2. QED
      BY <1>1, <3>1, SmallestSubset
  <2>2. T \in SUBSET S /\ IsFiniteSet(T)
    BY FS_Subset
  <2>3. PICK t \in T : ProductOf(w, T) # ProductOf(w, T \ {t}) * w[t]
    OBVIOUS
  <2> DEFINE y == First(T)
             rest == T \ {y}
             others == T \ {t}
  <2>4. y \in T /\ ProductOf(w, T) = ProductOf(w, rest) * w[y]
    BY <2>2, ProductOfFirst
  <2> HIDE DEF y
  <2>5. y # t
    BY <2>3, <2>4
  <2>6. rest \notin bad /\ others \notin bad /\ rest \in SUBSET S /\ others \in SUBSET S
    BY <2>1, <2>2, <2>3, <2>4
  <2>7. /\ ProductOf(w, rest) = ProductOf(w, rest \ {t}) * w[t]
        /\ ProductOf(w, others) = ProductOf(w, others \ {y}) * w[y]
    BY <2>3, <2>4, <2>5, <2>6
  <2>8. ProductOf(w, rest \ {t}) = ProductOf(w, others \ {y})
    <3>1. rest \ {t} = others \ {y}
      OBVIOUS
    <3> HIDE DEF rest, others
    <3>2. QED
      BY <3>1
  <2>9. w[t] \in Int /\ w[y] \in Int /\ ProductOf(w, rest \ {t}) \in Int
    <3>1. IsFiniteSet(rest \ {t}) /\ \A s \in rest \ {t} : w[s] \in Nat \ {0}
      BY <2>2, FS_Subset
    <3>2. ProductOf(w, rest \ {t}) \in Nat \ {0}
      BY <3>1, ProductIsPositive
    <3>3. QED
      BY <2>2, <2>4, <3>2
  <2>10. ProductOf(w, T) # ProductOf(w, others) * w[t]
    BY <2>3
  <2> HIDE DEF rest, others, bad
  <2>11. (ProductOf(w, rest \ {t}) * w[t]) * w[y] = (ProductOf(w, rest \ {t}) * w[y]) * w[t]
    BY <2>9, TimesCommute
  <2>12. QED
    BY <2>4, <2>7, <2>8, <2>10, <2>11
<1>2. S \in SUBSET S /\ S \notin bad
  BY <1>1
<1>3. QED
  BY <1>2

\* The product of a whole is that of two parts.
LEMMA ProductOfParts ==
  ASSUME NEW S, IsFiniteSet(S), NEW w, \A s \in S : w[s] \in Nat \ {0}, NEW T \in SUBSET S
  PROVE  ProductOf(w, S) = ProductOf(w, T) * ProductOf(w, S \ T)
<1> DEFINE Fails(U) == ProductOf(w, U) # ProductOf(w, U \cap T) * ProductOf(w, U \ T)
           bad == {U \in SUBSET S : Fails(U)}
<1>1. ASSUME bad # {} PROVE FALSE
  <2>1. PICK U \in bad : \A V \in bad : V \subseteq U => V = U
    <3>1. bad \in SUBSET (SUBSET S)
      OBVIOUS
    <3> HIDE DEF bad
    <3>2. QED
      BY <1>1, <3>1, SmallestSubset
  <2>2. U \in SUBSET S /\ IsFiniteSet(U) /\ Fails(U)
    BY FS_Subset
  <2>3. U # {}
    <3>1. {} \cap T = {} /\ {} \ T = {} /\ ProductOf(w, {}) = 1
      BY ProductOfNone
    <3>2. ~Fails({})
      BY <3>1
    <3> HIDE DEF Fails
    <3>3. QED
      BY <2>2, <3>2
  <2> DEFINE x == First(U)
             rest == U \ {x}
             inside == U \cap T
             outside == U \ T
  <2>4. x \in U /\ ProductOf(w, U) = ProductOf(w, rest) * w[x]
    BY <2>2, <2>3, ProductOfFirst
  <2> HIDE DEF x
  <2>5. ProductOf(w, rest) = ProductOf(w, rest \cap T) * ProductOf(w, rest \ T)
    BY <2>1, <2>2, <2>4
  <2>6. /\ IsFiniteSet(inside) /\ IsFiniteSet(outside)
        /\ IsFiniteSet(rest \cap T) /\ IsFiniteSet(rest \ T)
        /\ \A s \in U : w[s] \in Nat \ {0}
    BY <2>2, FS_Subset
  <2> DEFINE in == ProductOf(w, inside)
             out == ProductOf(w, outside)
             a == ProductOf(w, rest \cap T)
             b == ProductOf(w, rest \ T)
             n == w[x]
  <2>7. a \in Int /\ b \in Int /\ n \in Int
    <3>1. a \in Nat \ {0}
      BY <2>6, ProductIsPositive
    <3>2. b \in Nat \ {0}
      BY <2>6, ProductIsPositive
    <3>3. QED
      BY <2>4, <2>6, <3>1, <3>2
  <2>8. x \in T => in = a * n /\ out = b
    <3>1. inside \ {x} = rest \cap T /\ (x \in T => rest \ T = outside /\ x \in inside)
      BY <2>4
    <3>2. \A s \in inside : w[s] \in Nat \ {0}
      BY <2>6
    <3> HIDE DEF inside, outside, rest
    <3>3. x \in inside => ProductOf(w, inside) = ProductOf(w, inside \ {x}) * w[x]
      BY <2>6, <3>2, ProductOfOthers
    <3>4. QED
      BY <3>1, <3>3
  <2>9. x \notin T => out = b * n /\ in = a
    <3>1. outside \ {x} = rest \ T /\ (x \notin T => rest \cap T = inside /\ x \in outside)
      BY <2>4
    <3>2. \A s \in outside : w[s] \in Nat \ {0}
      BY <2>6
    <3> HIDE DEF inside, outside, rest
    <3>3. x \in outside => ProductOf(w, outside) = ProductOf(w, outside \ {x}) * w[x]
      BY <2>6, <3>2, ProductOfOthers
    <3>4. QED
      BY <3>1, <3>3
  <2>10. ProductOf(w, U) # in * out /\ ProductOf(w, U) = (a * b) * n
    BY <2>2, <2>4, <2>5
  <2> HIDE DEF in, out, a, b, n
  <2>11. (a * b) * n = (a * n) * b /\ (a * b) * n = a * (b * n)
    BY <2>7, TimesCommute
  <2>12. QED
    BY <2>8, <2>9, <2>10, <2>11
<1>2. S \in SUBSET S /\ S \cap T = T
  OBVIOUS
<1>3. QED
  BY <1>1, <1>2

-----------------------------------------------------------------------------
(* Prices, splits and share counts.                                        *)

\* The bars of a symbol are what it traded at, restated on the day of the download.
RestatedRow(s, row, days, now) ==
  /\ DOMAIN days = DOMAIN row
  /\ \A d \in DOMAIN row : /\ d \in DOMAIN Traded[s] /\ row[d] = Restated(s, d, days[d])
                           /\ days[d] \in Window..now /\ d <= days[d]

\* Its stored splits are those up to the day of their download.
SplitRow(s, row, seen, now) ==
  /\ seen \in 0..now
  /\ DOMAIN row = SplitsBetween(s, 0, seen)
  /\ \A d \in DOMAIN row : row[d] = SplitOn[s][d]

RestatedInv == \A s \in Symbols : /\ RestatedRow(s, bars[s], basis[s], today)
                                  /\ SplitRow(s, splits[s], splitsSeen[s], today)

LEMMA RestatedInit == Init => RestatedInv
<1> SUFFICES ASSUME Init, NEW s \in Symbols
             PROVE  RestatedRow(s, bars[s], basis[s], today) /\ SplitRow(s, splits[s], splitsSeen[s], today)
  BY DEF RestatedInv
<1>1. bars[s] = <<>> /\ basis[s] = <<>> /\ splits[s] = <<>> /\ splitsSeen[s] = 0 /\ today \in Nat
  BY DaysPass DEF Init, StoreInit
<1>2. SplitsBetween(s, 0, 0) = {}
  <2>1. DOMAIN SplitOn[s] \subseteq Nat
    BY SplitsHaveRatios, DaysAreNat
  <2>2. QED
    BY <2>1 DEF SplitsBetween
<1>3. QED
  BY <1>1, <1>2 DEF RestatedRow, SplitRow

LEMMA RestatedKept ==
  ASSUME RestatedInv, UNCHANGED <<bars, basis, splits, splitsSeen>>, today \in Int, today' \in Int, today <= today'
  PROVE  RestatedInv'
<1>1. Window \in Int
  BY DaysPass
<1>2. \A s \in Symbols : RestatedRow(s, bars[s], basis[s], today')
  BY <1>1 DEF RestatedInv, RestatedRow
<1>3. \A s \in Symbols : SplitRow(s, splits[s], splitsSeen[s], today')
  BY DEF RestatedInv, SplitRow
<1>4. QED
  BY <1>2, <1>3 DEF RestatedInv

\* A download restates every price it reaches.
LEMMA BarsRestated ==
  ASSUME TypedInv, DatesInv, RestatedInv, NEW s \in Symbols,
         UpsertBars(s, Chart(s, Reach)),
         basis' = [basis EXCEPT ![s] = Over([d \in DOMAIN Chart(s, Reach) |-> today], @)],
         UNCHANGED <<today, splitsSeen>>
  PROVE  RestatedInv'
<1> DEFINE batch == Chart(s, Reach)
           stamps == [d \in DOMAIN batch |-> today]
<1>1. today \in Window..LastDay /\ Window \in Int /\ LastDay \in Int
  BY DaysPass DEF DatesInv
<1>2. DOMAIN bars = Symbols /\ DOMAIN basis = Symbols
  BY DEF TypedInv, TypeOK, StoreTypeOK, IsTable
<1>3. \A d \in DOMAIN batch :
        d \in DOMAIN Traded[s] /\ d <= today /\ batch[d] = Restated(s, d, today) /\ stamps[d] = today
  BY DEF Chart
<1>4. DOMAIN stamps = DOMAIN batch
  OBVIOUS
<1>5. /\ bars' = [bars EXCEPT ![s] = Over(batch, @)] /\ basis' = [basis EXCEPT ![s] = Over(stamps, @)]
      /\ splits' = splits
  BY DEF UpsertBars
<1>6. RestatedRow(s, bars[s], basis[s], today)
  BY DEF RestatedInv
<1> HIDE DEF batch, stamps
<1>7. bars'[s] = Over(batch, bars[s]) /\ basis'[s] = Over(stamps, basis[s])
  BY <1>2, <1>5
<1>8. \A t \in Symbols : t # s => bars'[t] = bars[t] /\ basis'[t] = basis[t]
  BY <1>2, <1>5
<1>9. RestatedRow(s, Over(batch, bars[s]), Over(stamps, basis[s]), today)
  <2>1. /\ DOMAIN Over(batch, bars[s]) = DOMAIN batch \cup DOMAIN bars[s]
        /\ DOMAIN Over(stamps, basis[s]) = DOMAIN batch \cup DOMAIN bars[s]
    BY <1>4, <1>6 DEF Over, RestatedRow
  <2>2. \A d \in DOMAIN batch : Over(batch, bars[s])[d] = batch[d] /\ Over(stamps, basis[s])[d] = today
    BY <1>3, <1>4 DEF Over
  <2>3. \A d \in DOMAIN bars[s] : d \notin DOMAIN batch =>
          Over(batch, bars[s])[d] = bars[s][d] /\ Over(stamps, basis[s])[d] = basis[s][d]
    BY <1>4, <1>6 DEF Over, RestatedRow
  <2> DEFINE row == Over(batch, bars[s])
             days == Over(stamps, basis[s])
  <2> HIDE DEF row, days
  <2>4. DOMAIN days = DOMAIN row /\ DOMAIN row = DOMAIN batch \cup DOMAIN bars[s]
    BY <2>1 DEF row, days
  <2>5. ASSUME NEW d \in DOMAIN row
        PROVE  /\ d \in DOMAIN Traded[s] /\ row[d] = Restated(s, d, days[d])
               /\ days[d] \in Window..today /\ d <= days[d]
    <3>1. CASE d \in DOMAIN batch
      BY <1>1, <1>3, <2>2, <3>1 DEF row, days
    <3>2. CASE d \notin DOMAIN batch
      <4>1. d \in DOMAIN bars[s] /\ row[d] = bars[s][d] /\ days[d] = basis[s][d]
        BY <2>3, <2>4, <3>2 DEF row, days
      <4>2. QED
        BY <1>6, <4>1 DEF RestatedRow
    <3>3. QED
      BY <3>1, <3>2
  <2>6. RestatedRow(s, row, days, today)
    BY <2>4, <2>5 DEF RestatedRow
  <2>7. QED
    BY <2>6 DEF row, days
<1>10. \A t \in Symbols : RestatedRow(t, bars'[t], basis'[t], today)
  BY <1>7, <1>8, <1>9 DEF RestatedInv
<1>11. \A t \in Symbols : SplitRow(t, splits'[t], splitsSeen'[t], today)
  BY <1>5 DEF RestatedInv
<1>12. QED
  BY <1>10, <1>11 DEF RestatedInv

LEMMA SplitsRestated ==
  ASSUME TypedInv, DatesInv, RestatedInv, NEW s \in Symbols,
         UpsertSplits(s, [d \in SplitsBetween(s, 0, today) |-> SplitOn[s][d]]),
         splitsSeen' = [splitsSeen EXCEPT ![s] = today],
         UNCHANGED <<today, basis>>
  PROVE  RestatedInv'
<1> DEFINE batch == [d \in SplitsBetween(s, 0, today) |-> SplitOn[s][d]]
<1>1. today \in Nat /\ DOMAIN splits = Symbols /\ DOMAIN splitsSeen = Symbols
  BY TodayIsADay DEF TypedInv, TypeOK, StoreTypeOK, IsTable
<1>2. DOMAIN batch = SplitsBetween(s, 0, today) /\ \A d \in DOMAIN batch : batch[d] = SplitOn[s][d]
  OBVIOUS
<1>3. splits' = [splits EXCEPT ![s] = Over(batch, @)] /\ bars' = bars
  BY DEF UpsertSplits
<1>4. SplitRow(s, splits[s], splitsSeen[s], today)
  BY DEF RestatedInv
<1> HIDE DEF batch
<1>5. splits'[s] = Over(batch, splits[s]) /\ splitsSeen'[s] = today
  BY <1>1, <1>3
<1>6. \A t \in Symbols : t # s => splits'[t] = splits[t] /\ splitsSeen'[t] = splitsSeen[t]
  BY <1>1, <1>3
<1>7. SplitRow(s, Over(batch, splits[s]), today, today)
  <2>1. DOMAIN splits[s] \subseteq DOMAIN batch
    <3>1. DOMAIN SplitOn[s] \subseteq Nat
      BY SplitsHaveRatios, DaysAreNat
    <3>2. splitsSeen[s] \in Int /\ splitsSeen[s] <= today
      BY <1>1, <1>4 DEF SplitRow
    <3>3. SplitsBetween(s, 0, splitsSeen[s]) \subseteq SplitsBetween(s, 0, today)
      BY <1>1, <3>1, <3>2 DEF SplitsBetween
    <3>4. QED
      BY <1>2, <1>4, <3>3 DEF SplitRow
  <2>2. /\ DOMAIN Over(batch, splits[s]) = DOMAIN batch
        /\ \A d \in DOMAIN batch : Over(batch, splits[s])[d] = batch[d]
    BY <2>1 DEF Over
  <2>3. QED
    BY <1>1, <1>2, <2>2 DEF SplitRow
<1>8. \A t \in Symbols : SplitRow(t, splits'[t], splitsSeen'[t], today)
  BY <1>5, <1>6, <1>7 DEF RestatedInv
<1>9. \A t \in Symbols : RestatedRow(t, bars'[t], basis'[t], today)
  BY <1>3 DEF RestatedInv
<1>10. QED
  BY <1>8, <1>9 DEF RestatedInv

LEMMA RestatedStep ==
  ASSUME TypedInv, DatesInv, RestatedInv, [Next]_vars
  PROVE  RestatedInv'
<1>1. today \in Int
  BY TodayIsADay
<1>2. ASSUME job \in Jobs, job.kind # "snapshots", job.todo # {} PROVE Min(job.todo) \in Symbols
  <2>1. job.todo \subseteq Symbols
    BY <1>2 DEF Jobs
  <2>2. QED
    BY <1>2, <2>1, LeastIsMember, SymbolsAreOrdered
<1>3. job # Idle => job \in Jobs
  BY DEF TypedInv, TypeOK
<1>4. CASE FetchBars
  <2>1. Min(job.todo) \in Symbols /\ UNCHANGED <<today, splitsSeen>>
    BY <1>2, <1>3, <1>4 DEF FetchBars
  <2>2. CASE UNCHANGED <<storeVars, basis>>
    BY <1>1, <2>1, <2>2, RestatedKept DEF storeVars
  <2>3. CASE /\ UpsertBars(Min(job.todo), Chart(Min(job.todo), Reach))
             /\ basis' = [basis EXCEPT ![Min(job.todo)] =
                            Over([d \in DOMAIN Chart(Min(job.todo), Reach) |-> today], @)]
    BY <2>1, <2>3, BarsRestated
  <2>4. QED
    BY <1>4, <2>2, <2>3 DEF FetchBars
<1>5. CASE FetchSplits
  <2>1. Min(job.todo) \in Symbols /\ UNCHANGED <<today, basis>>
    BY <1>2, <1>3, <1>5 DEF FetchSplits
  <2>2. CASE UNCHANGED <<storeVars, splitsSeen>>
    BY <1>1, <2>1, <2>2, RestatedKept DEF storeVars
  <2>3. CASE /\ UpsertSplits(Min(job.todo), [d \in SplitsBetween(Min(job.todo), 0, today) |->
                                               SplitOn[Min(job.todo)][d]])
             /\ splitsSeen' = [splitsSeen EXCEPT ![Min(job.todo)] = today]
    BY <2>1, <2>3, SplitsRestated
  <2>4. QED
    BY <1>5, <2>2, <2>3 DEF FetchSplits
<1>6. CASE NewDay
  BY <1>1, <1>6, RestatedKept DEF NewDay, storeVars
<1>7. CASE WriteSnapshot \/ IngestFundamentals
  BY <1>1, <1>7, RestatedKept DEF WriteSnapshot, SetUniverse, IngestFundamentals, UpsertFacts
<1>8. CASE PreloadForBacktest \/ DropCache
  BY <1>1, <1>8, RestatedKept
  DEF PreloadForBacktest, Preload, DropCache, ClearCache, tables, marketVars
<1>9. CASE StartIngest \/ StartSnapshots \/ WriteCoverage \/ StartIngestSplits \/ SplitsDone
           \/ Killed \/ UNCHANGED vars
  BY <1>1, <1>9, RestatedKept
  DEF StartIngest, StartSnapshots, WriteCoverage, StartIngestSplits, SplitsDone,
      Start, Killed, vars, storeVars, marketVars
<1>10. QED
  BY <1>4, <1>5, <1>6, <1>7, <1>8, <1>9 DEF Next

LEMMA RestatedInvHolds == Spec => []RestatedInv
<1>1. Init => RestatedInv
  BY RestatedInit
<1>2. TypedInv /\ DatesInv /\ RestatedInv /\ [Next]_vars => RestatedInv'
  BY RestatedStep
<1>3. QED
  BY <1>1, <1>2, TypedInvHolds, PTL DEF Spec

-----------------------------------------------------------------------------

\* By how much the shares of a symbol multiply after a day, until another.
Factor(s, after, until) == ProductOf(SplitOn[s], SplitsBetween(s, after, until))

LEMMA SplitDays == ASSUME NEW s \in Symbols PROVE \A d \in DOMAIN SplitOn[s] : d \in Int /\ d > 0
<1>1. DOMAIN SplitOn[s] \subseteq Days \ {0}
  BY SplitsHaveRatios
<1>2. \A d \in Days \ {0} : d \in Int /\ d > 0
  BY DaysAreNat
<1>3. QED
  BY <1>1, <1>2

LEMMA AfterIsProduct ==
  ASSUME NEW row, NEW after
  PROVE  SplitFactorAfter(row, after) = ProductOf(row, {d \in DOMAIN row : d > after})
BY DEF SplitFactorAfter, ProductOf, FoldSet, MapThenFoldSet

LEMMA SplitsAreDated ==
  ASSUME NEW s \in Symbols, NEW after \in Int, NEW until \in Int
  PROVE  /\ IsFiniteSet(SplitsBetween(s, after, until))
         /\ \A d \in SplitsBetween(s, after, until) :
              d \in Nat \ {0} /\ after < d /\ d <= until /\ SplitOn[s][d] \in Nat \ {0}
BY SplitsHaveRatios, DaysAreNat, FS_Subset DEF SplitsBetween

LEMMA FactorIsPositive ==
  ASSUME NEW s \in Symbols, NEW after \in Int, NEW until \in Int
  PROVE  Factor(s, after, until) \in Nat \ {0}
BY SplitsAreDated, ProductIsPositive DEF Factor

LEMMA FactorIs ==
  ASSUME NEW s \in Symbols, NEW after \in Int, NEW until \in Int
  PROVE  SplitFactorAfter([x \in SplitsBetween(s, after, until) |-> SplitOn[s][x]], after)
           = Factor(s, after, until)
<1> DEFINE D == SplitsBetween(s, after, until)
           row == [x \in D |-> SplitOn[s][x]]
<1>1. IsFiniteSet(D) /\ (\A d \in D : row[d] = SplitOn[s][d]) /\ DOMAIN row = D
  BY SplitsAreDated
<1>2. {d \in D : d > after} = D
  BY SplitsAreDated
<1> HIDE DEF D, row
<1>3. SplitFactorAfter(row, after) = ProductOf(row, D)
  <2>1. {d \in DOMAIN row : d > after} = D
    BY <1>1, <1>2
  <2>2. QED
    BY <2>1, AfterIsProduct
<1>4. ProductOf(row, D) = ProductOf(SplitOn[s], D)
  BY <1>1, SameProducts
<1>5. QED
  BY <1>3, <1>4 DEF Factor, D, row

\* split_factor_after multiplies the stored splits after a day, up to their download.
LEMMA StoredFactorIs ==
  ASSUME NEW s \in Symbols, NEW row, NEW seen, NEW now \in Int, SplitRow(s, row, seen, now),
         NEW after \in Int
  PROVE  SplitFactorAfter(row, after) = Factor(s, after, seen)
<1> DEFINE D == SplitsBetween(s, after, seen)
<1>1. seen \in Int /\ DOMAIN row = SplitsBetween(s, 0, seen)
      /\ \A d \in DOMAIN row : row[d] = SplitOn[s][d]
  BY DEF SplitRow
<1>2. {d \in DOMAIN row : d > after} = D
  <2>1. \A d \in DOMAIN SplitOn[s] : d \in Int /\ d > 0
    BY SplitDays
  <2>2. QED
    BY <1>1, <2>1 DEF SplitsBetween
<1>3. IsFiniteSet(D)
  BY <1>1, SplitsAreDated
<1>4. \A d \in D : row[d] = SplitOn[s][d]
  BY <1>1, <1>2
<1> HIDE DEF D
<1>5. SplitFactorAfter(row, after) = ProductOf(row, D)
  BY <1>2, AfterIsProduct
<1>6. ProductOf(row, D) = ProductOf(SplitOn[s], D)
  BY <1>3, <1>4, SameProducts
<1>7. QED
  BY <1>5, <1>6 DEF Factor, D

LEMMA FactorsMeet ==
  ASSUME NEW s \in Symbols, NEW a \in Int, NEW b \in Int, NEW c \in Int, a <= b, b <= c
  PROVE  Factor(s, a, c) = Factor(s, a, b) * Factor(s, b, c)
<1> DEFINE S == SplitsBetween(s, a, c)
           T == SplitsBetween(s, a, b)
<1>1. \A d \in DOMAIN SplitOn[s] : d \in Int
  BY SplitDays
<1>2. T \in SUBSET S /\ S \ T = SplitsBetween(s, b, c)
  BY <1>1 DEF SplitsBetween
<1>3. IsFiniteSet(S) /\ \A d \in S : SplitOn[s][d] \in Nat \ {0}
  BY SplitsAreDated
<1> HIDE DEF S, T
<1>4. ProductOf(SplitOn[s], S) = ProductOf(SplitOn[s], T) * ProductOf(SplitOn[s], S \ T)
  BY <1>2, <1>3, ProductOfParts
<1>5. QED
  BY <1>2, <1>4 DEF Factor, S, T

\* Days no split lies between are the same to every factor, and make none.
LEMMA NoSplitBetween ==
  ASSUME NEW s \in Symbols, NEW a \in Int, NEW b \in Int, NEW c \in Int,
         SplitsBetween(s, b, c) \cup SplitsBetween(s, c, b) = {}
  PROVE  Factor(s, a, b) = Factor(s, a, c)
<1>1. \A d \in DOMAIN SplitOn[s] : d \in Int
  BY SplitDays
<1>2. SplitsBetween(s, a, b) = SplitsBetween(s, a, c)
  BY <1>1 DEF SplitsBetween
<1>3. QED
  BY <1>2 DEF Factor

LEMMA BackwardsIsOne ==
  ASSUME NEW s \in Symbols, NEW a \in Int, NEW b \in Int, b <= a
  PROVE  Factor(s, a, b) = 1
<1>1. \A d \in DOMAIN SplitOn[s] : d \in Int
  BY SplitDays
<1>2. SplitsBetween(s, a, b) = {}
  BY <1>1 DEF SplitsBetween
<1>3. QED
  BY <1>2, ProductOfNone DEF Factor

LEMMA Regroup ==
  ASSUME NEW p \in Int, NEW v \in Int, NEW g \in Int, NEW h \in Nat \ {0}
  PROVE  /\ ((p * g) * v) * h = (p * v) * (h * g)
         /\ ((p * (h * g)) * v) \div h = (p * v) * g
<1>1. ((p * g) * v) * h = (p * v) * (h * g)
  OBVIOUS
<1>2. (p * (h * g)) * v = h * ((p * v) * g)
  OBVIOUS
<1>3. \A q \in Int : (h * q) \div h = q
  OBVIOUS
<1>4. (p * v) * g \in Int
  OBVIOUS
<1>5. QED
  BY <1>1, <1>2, <1>3, <1>4

-----------------------------------------------------------------------------

\* What is read of a symbol is a stored bar, unless the cache was overtaken.
LEMMA ReadIsStored ==
  ASSUME CacheAgreesFromItsStart, TypedInv, DatesInv, NEW s \in Symbols, NEW d \in Days, s \notin moved,
         s \in DOMAIN LatestBars({s}, d)
  PROVE  LET read == LatestBars({s}, d)[s]
         IN  /\ read.date \in DOMAIN bars[s] /\ read.date <= d
             /\ read.bar = bars[s][read.date]
<1>1. LatestBars({s}, d) = LatestBarsAsOf(bars, {s}, d)
  BY DEF CacheAgreesFromItsStart
<1> DEFINE E == Entries(bars, s, d)
<1>2. s \in DOMAIN LatestBarsAsOf(bars, {s}, d)
  BY <1>1
<1>3. KnownDates(bars, s, d) # {} /\ LatestBars({s}, d)[s] = Newest(E)
  BY <1>1, <1>2 DEF LatestBarsAsOf
<1>4. \A e \in DOMAIN bars[s] : e \in Days
  BY DEF DatesInv
<1>5. Newest(E) \in E
  BY <1>3, <1>4, NewestIsStored
<1>6. PICK e \in KnownDates(bars, s, d) : Newest(E) = [date |-> e, bar |-> bars[s][e]]
  BY <1>5 DEF Entries
<1> HIDE DEF E
<1>7. LatestBars({s}, d)[s] = [date |-> e, bar |-> bars[s][e]]
  BY <1>3, <1>6
<1>8. e \in DOMAIN bars[s] /\ e <= d
  BY DEF KnownDates
<1>9. QED
  BY <1>7, <1>8

\* With bars, splits and share count on the same side of each split, the product
\* is what the company was worth.
LEMMA CapIsWorth ==
  ASSUME TypedInv, DatesInv, CacheAgreesFromItsStart, RestatedInv,
         NEW s \in Symbols, NEW d \in Days, s \in DOMAIN LatestBars({s}, d), s \notin moved,
         NEW f \in LatestFactsAsOf(facts, s, d),
         SameBasis(s, LatestBars({s}, d)[s].date, f)
  PROVE  MarketCap(s, d, f) = Worth(s, f, LatestBars({s}, d)[s].date)
<1> DEFINE x == LatestBars({s}, d)[s].date
           b == basis[s][x]
           p == LatestBars({s}, d)[s].bar
           seen == splitsSeen[s]
           filed == f.filed
           v == f.value
           known == Max({seen, filed})
           total == Traded[s][x]
<1>1. x \in DOMAIN bars[s] /\ p = bars[s][x]
  BY ReadIsStored
<1>2. /\ x \in DOMAIN Traded[s] /\ p = Restated(s, x, b)
      /\ b \in Window..today /\ x <= b /\ x \in Int /\ b \in Int
  <2>1. RestatedRow(s, bars[s], basis[s], today)
    BY DEF RestatedInv
  <2>2. DOMAIN bars[s] \subseteq Nat
    BY DaysAreNat DEF DatesInv
  <2>3. Window \in Int /\ today \in Int
    BY TodayIsADay, DaysPass
  <2>4. x \in DOMAIN Traded[s] /\ bars[s][x] = Restated(s, x, b) /\ b \in Window..today /\ x <= b
    BY <1>1, <2>1 DEF RestatedRow
  <2>5. QED
    BY <1>1, <2>2, <2>3, <2>4
<1>3. f \in Fact /\ filed \in Int /\ v \in Int
  BY FactsAreDated, FilingsAreFacts DEF LatestFactsAsOf, TypedInv, TypeOK, StoreTypeOK
<1>4. SplitRow(s, splits[s], seen, today) /\ today \in Int /\ seen \in Int
  BY TodayIsADay DEF RestatedInv, SplitRow
<1>5. MarketCap(s, d, f) = (p * v) * Factor(s, filed, seen)
  <2>1. SplitFactorAfter(splits[s], filed) = Factor(s, filed, seen)
    BY <1>3, <1>4, StoredFactorIs
  <2>2. QED
    BY <2>1 DEF MarketCap
<1>6. p \in Int /\ total = p * Factor(s, x, b)
  <2>1. b \in Window..LastDay
    BY <1>2, DaysPass DEF DatesInv
  <2>2. /\ Restated(s, x, b) \in Int
        /\ Restated(s, x, b) * SplitFactorAfter([e \in SplitsBetween(s, x, b) |-> SplitOn[s][e]], x) = total
    BY <1>2, <2>1, PricesDivide
  <2>3. QED
    BY <1>2, <2>2, FactorIs
<1>7. SplitsBetween(s, b, known) \cup SplitsBetween(s, known, b) = {}
  BY DEF SameBasis
<1>8. known \in Int /\ known = IF seen >= filed THEN seen ELSE filed
  <2> HIDE DEF seen, filed
  <2>1. \E m \in {seen, filed} : \A n \in {seen, filed} : m >= n
    BY <1>3, <1>4
  <2>2. known \in {seen, filed} /\ \A n \in {seen, filed} : known >= n
    BY <2>1, Zenon DEF Max
  <2>3. QED
    BY <1>3, <1>4, <2>2
<1> HIDE DEF x, b, p, seen, filed, v, known, total
<1>9. /\ Factor(s, x, b) = Factor(s, x, known)
      /\ Factor(s, filed, b) = Factor(s, filed, known)
  BY <1>2, <1>3, <1>7, <1>8, NoSplitBetween
<1>10. Factor(s, filed, seen) = Factor(s, filed, known)
  <2>1. seen < filed => Factor(s, filed, seen) = 1 /\ Factor(s, filed, filed) = 1
    BY <1>3, <1>4, BackwardsIsOne
  <2>2. QED
    BY <1>3, <1>4, <1>8, <2>1
<1>11. CASE x >= filed
  <2>1. Worth(s, f, x) = total * v * Factor(s, filed, x)
    BY <1>2, <1>3, <1>11, FactorIs DEF Worth, total, filed, v
  <2>2. Factor(s, filed, b) = Factor(s, filed, x) * Factor(s, x, b)
    BY <1>2, <1>3, <1>11, FactorsMeet
  <2>3. Factor(s, x, b) \in Int /\ Factor(s, filed, x) \in Nat \ {0}
    BY <1>2, <1>3, FactorIsPositive
  <2>4. ((p * Factor(s, x, b)) * v) * Factor(s, filed, x)
          = (p * v) * (Factor(s, filed, x) * Factor(s, x, b))
    BY <1>3, <1>6, <2>3, Regroup
  <2>5. QED
    BY <1>5, <1>6, <1>9, <1>10, <2>1, <2>2, <2>4 DEF x
<1>12. CASE ~(x >= filed)
  <2>1. Worth(s, f, x) = (total * v) \div Factor(s, x, filed)
    BY <1>2, <1>3, <1>12, FactorIs DEF Worth, total, filed, v
  <2>2. Factor(s, x, known) = Factor(s, x, filed) * Factor(s, filed, known)
    BY <1>2, <1>3, <1>4, <1>8, <1>12, FactorsMeet
  <2>3. Factor(s, filed, known) \in Int /\ Factor(s, x, filed) \in Nat \ {0}
    BY <1>2, <1>3, <1>8, FactorIsPositive
  <2>4. ((p * (Factor(s, x, filed) * Factor(s, filed, known))) * v) \div Factor(s, x, filed)
          = (p * v) * Factor(s, filed, known)
    BY <1>3, <1>6, <2>3, Regroup
  <2>5. QED
    BY <1>5, <1>6, <1>9, <1>10, <2>1, <2>2, <2>4 DEF x
<1>13. QED
  BY <1>11, <1>12 DEF x

\* The capitalisation the value signals divide by is what the company was worth on
\* the day of the bar, whatever is split and restated before or since, while no
\* split comes between the downloads it is put together from.
THEOREM CapitalisationIsReal == Spec => []CapIsReal
<1>1. TypedInv /\ DatesInv /\ CacheAgreesFromItsStart /\ RestatedInv => CapIsReal
  BY CapIsWorth DEF CapIsReal
<1>2. QED
  BY <1>1, TypedInvHolds, CacheAnswersFromItsStart, RestatedInvHolds, PTL
=============================================================================
