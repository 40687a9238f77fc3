----------------------------- MODULE WalkForward ---------------------------
(***************************************************************************)
(* ghambla.walkforward and the part of ghambla.evaluate its verdict rests  *)
(* on: how a period is cut into research windows and a holdout, and when a *)
(* result passes Gate 0.  Days are numbers, a share of the period is a     *)
(* whole percentage, a Sharpe ratio is counted in hundredths.              *)
(***************************************************************************)
EXTENDS Integers, Sequences, FiniteSets, FiniteSetsExt

SharpeEdge == 30    \* GATE_0_SHARPE_EDGE

\* Python's round: a half goes to the even neighbour.
Round(n, d) ==
  LET q == n \div d
      twice == 2 * (n % d)
  IN  IF twice > d \/ (twice = d /\ q % 2 = 1) THEN q + 1 ELSE q

HoldoutDays(start, end, percent) == Round((end - start) * percent, 100)

\* A bug: a window ends on the day the next one begins.
CalendarWindowsTouching(start, end, n) ==
  LET boundary(i) == start + (i * (end - start)) \div n
  IN  [i \in 1..n |-> [kind |-> "research", first |-> boundary(i - 1),
                       last |-> IF i = n THEN end ELSE boundary(i)]]

CalendarWindows(start, end, n) ==
  LET boundary(i) == start + (i * (end - start)) \div n
  IN  [i \in 1..n |-> [kind |-> "research", first |-> boundary(i - 1),
                       last |-> IF i = n THEN end ELSE boundary(i) - 1]]

\* A research period too short for n windows raises.
Raises(start, end, n, percent) ==
  LET researchEnd == end - HoldoutDays(start, end, percent) - 1
  IN  researchEnd >= start /\ researchEnd - start < n

\* The windows run_walk_forward evaluates.
Windows(start, end, n, percent) ==
  LET days == HoldoutDays(start, end, percent)
      holdoutStart == end - days
      research == IF holdoutStart - 1 >= start
                  THEN CalendarWindows(start, holdoutStart - 1, n) ELSE <<>>
  IN  research \o (IF days > 0 THEN <<[kind |-> "holdout", first |-> holdoutStart, last |-> end]>>
                               ELSE <<>>)

-----------------------------------------------------------------------------
(* Results of windows are records [kind, note, edge, fall, benchmarkFall]; *)
(* a fall is the largest drawdown, in whole percents below zero.           *)

\* The largest fall of an equity curve from the peak before it.
LargestFall(equity) ==
  LET peak(i) == Max({equity[j] : j \in 1..i})
  IN  Min({0} \cup {(100 * equity[i]) \div peak(i) - 100 : i \in {k \in DOMAIN equity : peak(k) > 0}})

Passed(w) == ~w.note /\ w.edge >= SharpeEdge /\ w.fall >= w.benchmarkFall

Kind(results, kind) == {i \in DOMAIN results : results[i].kind = kind}

\* A bug: half of the research windows is taken for a majority.
VerdictByHalf(results) ==
  LET research == Kind(results, "research")
      holdout == Kind(results, "holdout")
  IN  /\ research # {}
      /\ 2 * Cardinality({i \in research : Passed(results[i])}) >= Cardinality(research)
      /\ holdout # {} /\ Passed(results[Max(holdout)])

\* More than half of the research windows, and the holdout.
Verdict(results) ==
  LET research == Kind(results, "research")
      holdout == Kind(results, "holdout")
  IN  /\ research # {}
      /\ 2 * Cardinality({i \in research : Passed(results[i])}) > Cardinality(research)
      /\ holdout # {} /\ Passed(results[Max(holdout)])
=============================================================================
