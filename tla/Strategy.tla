------------------------------ MODULE Strategy -----------------------------
(***************************************************************************)
(* From the store to the wanted weights: two of the signals, the rank      *)
(* allocator, the weighting of the chosen names and the regime filter.     *)
(* A bar is a record [open, close, adj]; a score is [value, confident],    *)
(* its value counted in 1/Unit; weights are whole percentages.             *)
(***************************************************************************)
EXTENDS PointInTime

CONSTANTS LookbackDays,    \* MomentumSignal: bars it needs,
          SkipDays,        \* and the latest of them it leaves out
          ReversalDays,    \* ReversalSignal: bars it needs
          RegimeLookback,  \* bars under the moving average
          Benchmark,       \* the symbol the regime is read from
          TopN,            \* names held
          Unit             \* one, as a score

ASSUME StrategyConstants ==
  /\ LookbackDays \in Nat /\ SkipDays \in Nat /\ SkipDays < LookbackDays
  /\ ReversalDays \in Nat \ {0, 1}
  /\ RegimeLookback \in Nat \ {0} /\ TopN \in Nat \ {0} /\ Unit \in Nat \ {0}

-----------------------------------------------------------------------------
(* Signals.                                                                *)

NoOpinion == [value |-> 0, confident |-> FALSE]
Opinion(value) == [value |-> value, confident |-> TRUE]

\* The bar of a history with `age' newer ones.
Aged(history, age) ==
  history[CHOOSE d \in DOMAIN history : Cardinality({y \in DOMAIN history : y > d}) = age]

\* The return from the oldest bar of a history to the one `age' from its end.
ReturnTo(history, age) ==
  LET first == Aged(history, Cardinality(DOMAIN history) - 1).adj
  IN  (Unit * Aged(history, age).adj) \div first - Unit

\* Enough bars, and a first price one can divide by.
Usable(history, wanted) ==
  /\ Cardinality(DOMAIN history) >= wanted
  /\ Aged(history, Cardinality(DOMAIN history) - 1).adj > 0

MomentumOf(history) ==
  [s \in DOMAIN history |-> IF Usable(history[s], LookbackDays)
                            THEN Opinion(ReturnTo(history[s], SkipDays)) ELSE NoOpinion]

\* What fell is bought.
ReversalOf(history) ==
  [s \in DOMAIN history |-> IF Usable(history[s], ReversalDays)
                            THEN Opinion(-ReturnTo(history[s], 0)) ELSE NoOpinion]

Score(name, bars, universe, asOf) ==
  IF name = "momentum_12_1" THEN MomentumOf(BarsAsOf(bars, universe, asOf, LookbackDays))
                            ELSE ReversalOf(BarsAsOf(bars, universe, asOf, ReversalDays))

\* The last close is at or above the average of all.
AtOrAboveAverage(closes) ==
  Cardinality(DOMAIN closes) * Aged(closes, 0).adj
    >= MapThenSumSet(LAMBDA d : closes[d].adj, DOMAIN closes)

\* trend_filter: True, False or None.
TrendOf(closes) ==
  IF Cardinality(DOMAIN closes) < RegimeLookback THEN "unknown"
  ELSE IF AtOrAboveAverage(closes) THEN "on" ELSE "off"

TrendFilter(bars, asOf) ==
  TrendOf(BarsAsOf(bars, {Benchmark}, asOf, RegimeLookback)[Benchmark])

-----------------------------------------------------------------------------
(* RankAllocator: scores are a function of the symbols.                    *)

Voted(scores) == {s \in DOMAIN scores : scores[s].confident}

\* A bug: equal values keep the order of the sort, which is alphabetical.
RanksByName(scores) ==
  LET voted == Voted(scores)
      n == Cardinality(voted) - 1
      Before(s) == {t \in voted : \/ scores[t].value < scores[s].value
                                  \/ scores[t].value = scores[s].value /\ t < s}
  IN  [s \in voted |-> IF n = 0 THEN Unit \div 2 ELSE (Unit * Cardinality(Before(s))) \div n]

\* _ranks: a group of equal values spans the positions from i to j.
Ranks(scores) ==
  LET voted == Voted(scores)
      n == Cardinality(voted) - 1
      i(s) == Cardinality({t \in voted : scores[t].value < scores[s].value})
      j(s) == Cardinality({t \in voted : scores[t].value <= scores[s].value}) - 1
  IN  [s \in voted |-> IF n = 0 THEN Unit \div 2 ELSE (Unit * (i(s) + j(s))) \div (2 * n)]

\* combine, with equal weights; bySignal maps a signal's name to its scores.
Combine(bySignal) ==
  LET universe == UNION {DOMAIN bySignal[name] : name \in DOMAIN bySignal}
      voters(s) == {name \in DOMAIN bySignal : s \in DOMAIN Ranks(bySignal[name])}
      total(s) == MapThenSumSet(LAMBDA name : Ranks(bySignal[name])[s], voters(s))
  IN  [s \in universe |->
         IF voters(s) = {} THEN NoOpinion
         ELSE Opinion(total(s) \div Cardinality(voters(s)) - Unit \div 2)]

\* A lone signal keeps its own sign.
CombineScores(bySignal) ==
  IF Cardinality(DOMAIN bySignal) = 1
  THEN bySignal[CHOOSE name \in DOMAIN bySignal : TRUE]
  ELSE Combine(bySignal)

-----------------------------------------------------------------------------
(* Portfolio construction.                                                 *)

Eligible(scores) == {s \in Voted(scores) : scores[s].value > 0}

\* The first n of those eligible, by (-value, symbol).
Chosen(scores, n) ==
  LET Ahead(s) == {t \in Eligible(scores) :
                     \/ scores[t].value > scores[s].value
                     \/ scores[t].value = scores[s].value /\ t < s}
  IN  {s \in Eligible(scores) : Cardinality(Ahead(s)) < n}

EqualWeightTopN(scores, n) ==
  [s \in Chosen(scores, n) |-> 100 \div Cardinality(Chosen(scores, n))]

\* Twice the median of the volatilities of some symbols, which are not none.
TwiceMedian(vols, symbols) ==
  LET n == Cardinality(symbols)
      Lower(s) == {t \in symbols : vols[t] < vols[s] \/ (vols[t] = vols[s] /\ t < s)}
      at(k) == vols[CHOOSE s \in symbols : Cardinality(Lower(s)) = k]
  IN  at((n - 1) \div 2) + at(n \div 2)

\* A bug: a name whose volatility is unknown is taken to be riskless.
InverseVolTrusting(scores, n, vols) ==
  LET chosen == Chosen(scores, n)
      inverse(s) == IF s \in DOMAIN vols /\ vols[s] > 0 THEN Unit \div (2 * vols[s]) ELSE Unit
      total == MapThenSumSet(inverse, chosen)
  IN  [s \in chosen |-> (100 * inverse(s)) \div total]

\* vols has only the symbols whose volatility is known.
InverseVolTopN(scores, n, vols) ==
  LET chosen == Chosen(scores, n)
      usable == {s \in chosen \cap DOMAIN vols : vols[s] > 0}
      twice(s) == IF s \in usable THEN 2 * vols[s]
                  ELSE IF usable # {} THEN TwiceMedian(vols, usable) ELSE 1
      inverse(s) == Unit \div twice(s)
      total == MapThenSumSet(inverse, chosen)
  IN  [s \in chosen |-> (100 * inverse(s)) \div total]
=============================================================================
