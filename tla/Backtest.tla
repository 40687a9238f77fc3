------------------------------ MODULE Backtest -----------------------------
(***************************************************************************)
(* ghambla.backtest.run_backtest, day after day, run side by side on       *)
(* several worlds: histories of prices that may differ, under one program  *)
(* and one universe.  What two worlds have in common so far is all that a  *)
(* run may depend on.  Shares are counted in the smallest part the engine  *)
(* trades.                                                                 *)
(***************************************************************************)
EXTENDS Strategy, RiskGate, OrderPlan, Costs

CONSTANTS Worlds,
          Histories,       \* the tables of bars the worlds may have
          NumSymbols, Bar,
          Membership,      \* the universe table, pairs <<effective, symbol>>
          FirstDay, LastDay,
          Modes,           \* what was asked for, records [gated, regime, signals]
          InitialCash, RebalanceEvery, StaleDays,
          CashBuffer,      \* percent held back
          Hold             \* no decision is pending; an empty one is NoTargets

ASSUME BacktestConstants ==
  /\ NumSymbols \in Nat \ {0} /\ FirstDay \in Nat /\ LastDay \in Nat
  /\ Modes \subseteq [gated : BOOLEAN, regime : BOOLEAN,
                     signals : (SUBSET {"momentum_12_1", "reversal"}) \ {{}}]
  /\ InitialCash \in Nat /\ RebalanceEvery \in Nat \ {0}
  /\ StaleDays \in Nat \ {0} /\ CashBuffer \in 0..100
  /\ Benchmark \in 1..NumSymbols /\ Membership \subseteq Nat \X (1..NumSymbols)
  /\ \A b \in Bar : b.open \in Nat /\ b.close \in Nat /\ b.adj \in Nat
  /\ \A h \in Histories : \A w \in Worlds : \A s \in 1..NumSymbols :
       DOMAIN h[w][s] \subseteq Nat /\ \A d \in DOMAIN h[w][s] : h[w][s][d] \in Bar

\* half_spread is a part of the price it is paid on.
ASSUME SpreadIsPart == \A b \in Bar : b.open = 0 \/ b.open >= HalfSpread

VARIABLES bars,    \* the store of each world, which a run only reads
          mode,
          book,    \* the local variables of each run
          blocked, \* history: the gate blocked the newest decision of a run
          today, phase, at   \* the day, and where in it: the loops go by symbol

vars == <<bars, mode, book, blocked, today, phase, at>>

Symbols == 1..NumSymbols

NewBook == [cash |-> InitialCash, shares |-> [s \in Symbols |-> 0], watched |-> {},
            atOpen |-> 0, pending |-> Hold,
            equity |-> InitialCash, previous |-> InitialCash, peak |-> InitialCash]

\* A run goes over the trading dates; here some symbol trades every day.
Init == /\ bars \in Histories
        /\ \A w \in Worlds : TradingDates(bars[w], FirstDay, LastDay) = FirstDay..LastDay
        /\ mode \in Modes
        /\ book = [w \in Worlds |-> NewBook]
        /\ blocked = [w \in Worlds |-> FALSE]
        /\ today = FirstDay /\ phase = "dawn" /\ at = 1

-----------------------------------------------------------------------------
(* What one day reads and does, as functions of a table and a book.        *)

Held(b) == {s \in Symbols : b.shares[s] # 0}

\* A bug: what is held and left the universe is no longer looked at.
WatchedMembers(b) == [b EXCEPT !.watched = UniverseAsOf(Membership, today)]

Watched(b) == [b EXCEPT !.watched = UniverseAsOf(Membership, today) \cup Held(b)]

Latest(table, b) == LatestBarsAsOf(table, b.watched, today)

\* Held, and for long enough without a bar.
StoppedTrading(table, b, s) ==
  /\ s \in Held(b) /\ s \in DOMAIN Latest(table, b)
  /\ today - Latest(table, b)[s].date >= StaleDays

CashedOut(table, b, s) ==
  LET last == Latest(table, b)[s].bar.close
  IN  IF ~StoppedTrading(table, b, s) THEN b
      ELSE [b EXCEPT !.cash = @ + (b.shares[s] * last - Commission(b.shares[s], last)),
                     !.shares[s] = 0]

\* The open of a symbol that trades today, or 0: such a symbol is held.
OpenOf(table, b, s) ==
  IF s \in DOMAIN Latest(table, b) /\ Latest(table, b)[s].date = today
  THEN Latest(table, b)[s].bar.open ELSE 0

\* A bug: the book is sized at the day's closes.
OpenedAtClose(table, b) ==
  LET close(s) == IF OpenOf(table, b, s) = 0 THEN 0 ELSE Latest(table, b)[s].bar.close
  IN  [b EXCEPT !.atOpen =
         ((b.cash + MapThenSumSet(LAMBDA s : b.shares[s] * close(s), Held(b)))
          * (100 - CashBuffer)) \div 100]

\* equity_at_open.
ValueOf(shares, price) == MapThenSumSet(LAMBDA s : shares[s] * price[s], DOMAIN shares)

Opened(table, b) ==
  [b EXCEPT !.atOpen =
     ((b.cash + ValueOf(b.shares, [s \in Symbols |-> OpenOf(table, b, s)]))
      * (100 - CashBuffer)) \div 100]

Sold(b, s, count, fill) ==
  [b EXCEPT !.cash = @ + (count * fill - Commission(count, fill)), !.shares[s] = @ - count]

\* A bug: what is affordable leaves nothing for the commission.
BoughtToTheLast(b, s, count, fill) ==
  LET fee == Commission(count, fill)
      affordable == Larger(0, b.cash \div fill)
      trade == IF count * fill + fee > b.cash THEN affordable ELSE count
  IN  IF trade < count /\ trade * fill < MinTradeValue THEN b
      ELSE [b EXCEPT !.cash = @ - (trade * fill + Commission(trade, fill)),
                     !.shares[s] = @ + trade]

\* As much as the cash buys, when it does not buy all.
Bought(b, s, count, fill) ==
  LET fee == Commission(count, fill)
      affordable == Larger(0, (b.cash - fee) \div fill)
      trade == IF count * fill + fee > b.cash THEN affordable ELSE count
  IN  IF trade < count /\ trade * fill < MinTradeValue THEN b
      ELSE [b EXCEPT !.cash = @ - (trade * fill + Commission(trade, fill)),
                     !.shares[s] = @ + trade]

\* Towards the target of s, at the open px; none is worth less than dust.
Traded(b, s, px) ==
  LET target == IF s \in DOMAIN b.pending THEN b.pending[s] ELSE 0
      delta == (target * b.atOpen) \div (100 * px) - b.shares[s]
  IN  IF Size(delta) * px < MinTradeValue THEN b
      ELSE IF delta > 0 THEN Bought(b, s, delta, px + HalfSpread)
      ELSE Sold(b, s, -delta, px - HalfSpread)

Executed(table, b, s) ==
  IF b.pending = Hold \/ OpenOf(table, b, s) = 0 THEN b
  ELSE Traded(b, s, OpenOf(table, b, s))

\* The decision is spent, and the day is marked to its closes.
Marked(table, b) ==
  LET closes == [s \in Symbols |-> IF s \in DOMAIN Latest(table, b)
                                   THEN Latest(table, b)[s].bar.close ELSE 0]
      now == b.cash + ValueOf(b.shares, closes)
  IN  [b EXCEPT !.equity = now, !.peak = Larger(@, now), !.pending = Hold,
                !.previous = IF today = FirstDay THEN now ELSE b.equity]

Decides == /\ (today - FirstDay) % RebalanceEvery = 0 /\ today < LastDay
           /\ UniverseAsOf(Membership, today) # {}

Targets(table) ==
  LET universe == UniverseAsOf(Membership, today)
  IN  EqualWeightTopN(CombineScores([n \in mode.signals |-> Score(n, table, universe, today)]),
                      TopN)

\* The risk state of a decision: nobody halts a backtest, nothing reconciles it.
Judged(table, b, riskOn) ==
  LET dates == {Latest(table, b)[s].date : s \in DOMAIN Latest(table, b)}
      newest == IF dates = {} THEN today
                ELSE CHOOSE d \in dates : \A e \in dates : e <= d
  IN  Evaluate(Targets(table),
        [halted |-> FALSE, reconciled |-> TRUE, today |-> today, dataAsOf |-> newest,
         equity |-> b.equity, previous |-> b.previous, peak |-> b.peak, riskOn |-> riskOn])

RiskOn(table) == IF mode.regime THEN TrendFilter(table, today) ELSE "unknown"

\* Risk-off, or a market that cannot be judged.
Exits(table) == mode.regime /\ RiskOn(table) # "on"

\* A bug: the empty targets of a blocked gate are taken for a decision.
DecisionLiquidating(table, b) ==
  IF Exits(table) THEN NoTargets
  ELSE IF ~mode.gated THEN Targets(table)
  ELSE Judged(table, b, RiskOn(table)).targets

\* Without a market to be in, out of everything; a gate that blocks holds.
Decision(table, b) ==
  LET judged == Judged(table, b, RiskOn(table))
  IN  IF Exits(table) THEN NoTargets
      ELSE IF ~mode.gated THEN Targets(table)
      ELSE IF judged.blocked THEN Hold ELSE judged.targets

Stops(table, b) == /\ Decides /\ mode.gated /\ ~Exits(table)
                   /\ Judged(table, b, RiskOn(table)).blocked

Decided(table, b) == IF Decides THEN [b EXCEPT !.pending = Decision(table, b)] ELSE b

-----------------------------------------------------------------------------
(* The day.                                                                *)

Dawn == /\ phase = "dawn"
        /\ book' = [w \in Worlds |-> Watched(book[w])]
        /\ phase' = "cash out" /\ at' = 1
        /\ UNCHANGED <<bars, mode, blocked, today>>

\* On to the next symbol, or to the phase after the loop.
Onwards(next) == IF at < NumSymbols THEN at' = at + 1 /\ UNCHANGED phase
                                    ELSE at' = 1 /\ phase' = next

CashOut == /\ phase = "cash out"
           /\ book' = [w \in Worlds |-> CashedOut(bars[w], book[w], at)]
           /\ Onwards("open")
           /\ UNCHANGED <<bars, mode, blocked, today>>

Open == /\ phase = "open"
        /\ book' = [w \in Worlds |-> Opened(bars[w], book[w])]
        /\ phase' = "execute"
        /\ UNCHANGED <<bars, mode, blocked, today, at>>

Execute == /\ phase = "execute"
           /\ book' = [w \in Worlds |-> Executed(bars[w], book[w], at)]
           /\ Onwards("close")
           /\ UNCHANGED <<bars, mode, blocked, today>>

Close == /\ phase = "close"
         /\ book' = [w \in Worlds |-> Marked(bars[w], book[w])]
         /\ phase' = "decide"
         /\ UNCHANGED <<bars, mode, blocked, today, at>>

Decide == /\ phase = "decide"
          /\ book' = [w \in Worlds |-> Decided(bars[w], book[w])]
          /\ blocked' = [w \in Worlds |-> Stops(bars[w], book[w])]
          /\ IF today < LastDay THEN today' = today + 1 /\ phase' = "dawn"
                                ELSE UNCHANGED today /\ phase' = "end"
          /\ UNCHANGED <<bars, mode, at>>

Next == Dawn \/ CashOut \/ Open \/ Execute \/ Close \/ Decide

Spec == Init /\ [][Next]_vars

-----------------------------------------------------------------------------

Earlier == {"dawn"}
Morning == {"cash out", "open", "execute", "close"}

\* Two worlds agree on what has happened: on the days before, in the morning
\* also on who trades today and on the opens, after the close on all of today.
AgreeSoFar(v, w) ==
  \A s \in Symbols :
    /\ KnownDates(bars[v], s, today - 1) = KnownDates(bars[w], s, today - 1)
    /\ \A d \in KnownDates(bars[v], s, today - 1) : bars[v][s][d] = bars[w][s][d]
    /\ phase \notin Earlier =>
         /\ (today \in DOMAIN bars[v][s]) <=> (today \in DOMAIN bars[w][s])
         /\ (today \in DOMAIN bars[v][s]) =>
              IF phase \in Morning THEN bars[v][s][today].open = bars[w][s][today].open
                                   ELSE bars[v][s][today] = bars[w][s][today]

\* What has not happened yet moves nothing: where two histories agree so far,
\* the runs have made the same trades and hold the same book and the same
\* decision (backtest.py:3-11: decided on the close of D, filled at the open of
\* D+1, and sized there at the open and never at that day's close).
NoLookahead == \A v, w \in Worlds : AgreeSoFar(v, w) => book[v] = book[w]

\* Whatever the decisions, the gaps in trading and the fees, a run never spends
\* what it does not have, nor sells what it does not hold (backtest.py:195-204).
NeverOverdrawn == \A w \in Worlds : /\ book[w].cash >= 0
                                    /\ \A s \in Symbols : book[w].shares[s] >= 0

\* Nothing dead stays in the equity: what is held at the close has traded less
\* than stale_days ago, in the universe or out of it (backtest.py:152-166).
NothingCarried ==
  phase = "decide" =>
    \A w \in Worlds : \A s \in Held(book[w]) :
      \E d \in KnownDates(bars[w], s, today) : today - d < StaleDays

\* The open of a day trades only what the day before decided: a day that follows
\* no rebalance, or one the gate blocked, leaves every position as it is, and one
\* that follows a market found risk-off, or not judged at all, buys nothing
\* (backtest.py:209, 237-244, 255-259: None holds, an empty list exits).
TradesFollowDecisions ==
  [][\A w \in Worlds :
       phase = "execute" /\ book'[w].shares # book[w].shares =>
         /\ today > FirstDay /\ (today - 1 - FirstDay) % RebalanceEvery = 0
         /\ ~blocked[w]
         /\ mode.regime /\ TrendFilter(bars[w], today - 1) # "on" =>
              \A s \in Symbols : book'[w].shares[s] <= book[w].shares[s]]_vars
=============================================================================
