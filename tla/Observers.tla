----------------------------- MODULE Observers -----------------------------
(***************************************************************************)
(* The readers of the decision log: what ghambla.dashboard.build_state     *)
(* shows and what ghambla.papercheck compares, at every moment of the      *)
(* file's life.  A record is [asOf, equity, mode]; as_of is a day, and   *)
(* a cycle run again for an earlier day writes it after later ones.        *)
(***************************************************************************)
EXTENDS Journal, Integers, FiniteSetsExt

CONSTANTS From, To          \* the days papercheck compares

ASSUME RecordsHaveDays ==
  /\ From \in Nat /\ To \in Nat
  /\ \A r \in Record : r.asOf \in Nat /\ r.equity \in Int

\* The records that can be read, in the order of their lines.
LineOf(k) == CHOOSE i \in Readable : Cardinality({j \in Readable : j <= i}) = k
Records == [k \in 1..Count |-> lines[LineOf(k)]]

-----------------------------------------------------------------------------
(* The dashboard.                                                          *)

Unknown == [unknown |-> TRUE]

\* A bug: the highest as_of is taken for the state of the account.
NewestDay == LET days == {Records[i].asOf : i \in DOMAIN Records}
             IN  Records[Max({i \in DOMAIN Records : Records[i].asOf = Max(days)})]

Latest == Records[Len(Records)]

\* The place of record i once the records are sorted by as_of: a stable sort.
Place(i) == Cardinality({j \in DOMAIN Records :
                           \/ Records[j].asOf < Records[i].asOf
                           \/ Records[j].asOf = Records[i].asOf /\ j <= i})

Curve == [k \in DOMAIN Records |->
            LET r == Records[CHOOSE i \in DOMAIN Records : Place(i) = k]
            IN  [date |-> r.asOf, equity |-> r.equity]]

\* In whole percents, since the first day of the chart.
TotalReturn ==
  IF Records = <<>> \/ Curve[1].equity <= 0 THEN Unknown
  ELSE IF Len(Records) = 1 THEN [percent |-> 0]
  ELSE [percent |-> (100 * Latest.equity) \div Curve[1].equity - 100]

-----------------------------------------------------------------------------
(* papercheck: the paper equity of each day in range, the last write of a  *)
(* day winning, against a replay's equity on the days of both.             *)

PaperDays == {d \in From..To : \E i \in DOMAIN Records : Records[i].mode = "paper" /\ Records[i].asOf = d}

Paper(d) ==
  Records[Max({i \in DOMAIN Records : Records[i].mode = "paper" /\ Records[i].asOf = d})].equity

Absolute(x) == IF x < 0 THEN -x ELSE x

\* replay is a function from its days to its equity.  Growth is in percents.
PaperCheck(replay) ==
  LET common == PaperDays \cap DOMAIN replay
      first == Min(common)
      last == Max(common)
  IN  IF Cardinality(PaperDays) < 2 \/ Cardinality(DOMAIN replay) < 2 \/ Cardinality(common) < 2
      THEN [note |-> TRUE]
      ELSE [note |-> FALSE, days |-> common,
            apart |-> Absolute((100 * Paper(last)) \div Paper(first)
                               - (100 * replay[last]) \div replay[first])]

-----------------------------------------------------------------------------

InOrder == \A i, j \in DOMAIN Records : i < j => Records[i].asOf <= Records[j].asOf

\* The last point the chart has for day d.
Charted(d) == Curve[Max({k \in DOMAIN Curve : Curve[k].date = d})].equity

\* Whatever order the days were written in and whatever was cut short, the
\* readers tell one story: the headline is the account the next cycle starts
\* from; the chart ends each day where papercheck starts comparing it; a replay
\* that drew the same chart has not diverged; and with the days written in order
\* the headline's return is the chart's, from its first point to its last
\* (dashboard.py:43-64, papercheck.py:83-90: file order is write order, and each
\* of the two orders is needed for a different thing).
ObserversAgree ==
  Records # <<>> =>
    /\ Latest = LastRecord
    /\ (\A i \in DOMAIN Records : Records[i].mode = "paper") =>
         /\ \A d \in PaperDays : Paper(d) = Charted(d)
         /\ LET check == PaperCheck([d \in PaperDays |-> Charted(d)])
            IN  check.note \/ check.apart = 0
    /\ InOrder /\ TotalReturn # Unknown =>
         TotalReturn.percent = (100 * Curve[Len(Curve)].equity) \div Curve[1].equity - 100
=============================================================================
