----------------------------- MODULE MCBacktest ----------------------------
(***************************************************************************)
(* Every history built from three kinds of day, beside every other that    *)
(* differs from it on one day: any two histories that agree up to a day    *)
(* are linked by such changes after it.  The first symbol is the benchmark;*)
(* the third leaves the universe on the way and may stop trading.          *)
(***************************************************************************)
EXTENDS Backtest

CONSTANT Days

Candle(o, c) == [open |-> o, close |-> c, adj |-> c]

\* A kind of day: the symbols that trade, each with its bar.  The first two
\* open alike and close apart.
Kinds ==
  {[s \in {1, 2, 3} |-> <<Candle(40, 42), Candle(30, 36), Candle(20, 19)>>[s]],
   [s \in {1, 2, 3} |-> <<Candle(40, 38), Candle(30, 39), Candle(20, 26)>>[s]],
   [s \in {1, 2} |-> <<Candle(41, 41), Candle(35, 33)>>[s]]}

Table(days) == [s \in 1..3 |-> [d \in {e \in Days : s \in DOMAIN days[e]} |-> days[d][s]]]

PairsOfHistories ==
  {<<Table(days), Table([days EXCEPT ![d] = k])>> : days \in [Days -> Kinds], d \in Days, k \in Kinds}

TheBars == UNION {{k[s] : s \in DOMAIN k} : k \in Kinds}
TheMembers == {<<1, 2>>, <<1, 3>>, <<4, 2>>}
TheModes ==
  {[gated |-> FALSE, regime |-> FALSE, signals |-> {"momentum_12_1"}],
   [gated |-> FALSE, regime |-> TRUE, signals |-> {"momentum_12_1", "reversal"}],
   [gated |-> TRUE, regime |-> FALSE, signals |-> {"momentum_12_1"}],
   [gated |-> TRUE, regime |-> TRUE, signals |-> {"reversal"}]}
=============================================================================
