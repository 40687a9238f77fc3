--------------------------- MODULE Backtest_proof --------------------------
(***************************************************************************)
(* A backtest depends on what has happened and on nothing else, trades     *)
(* only what was decided on the day before, carries nothing that has       *)
(* stopped trading and never overdraws: for every set of histories and     *)
(* every parameter.                                                        *)
(***************************************************************************)
EXTENDS Backtest, Planning_proof

-----------------------------------------------------------------------------
(* What two tables that agree up to a date answer.                         *)

Dated(table) == \A s \in Symbols : DOMAIN table[s] \subseteq Nat

\* Two tables have the same bars up to a date.
SameUpTo(t, u, date) ==
  \A s \in Symbols : /\ KnownDates(t, s, date) = KnownDates(u, s, date)
                     /\ \A d \in KnownDates(t, s, date) : t[s][d] = u[s][d]

LEMMA MembersAreSymbols == UniverseAsOf(Membership, today) \subseteq Symbols
  BY BacktestConstants DEF UniverseAsOf, Symbols

LEMMA SameEntries ==
  ASSUME NEW t, NEW u, NEW date, SameUpTo(t, u, date), NEW s \in Symbols
  PROVE  Entries(t, s, date) = Entries(u, s, date)
  BY DEF SameUpTo, Entries

\* The history of each symbol is the same.
LEMMA SameHistory ==
  ASSUME NEW t, NEW u, NEW date, SameUpTo(t, u, date),
         NEW names \in SUBSET Symbols, NEW n
  PROVE  BarsAsOf(t, names, date, n) = BarsAsOf(u, names, date, n)
<1> DEFINE Recent(x, s) == {d \in KnownDates(x, s, date) :
                             Cardinality({y \in KnownDates(x, s, date) : y > d}) < n}
<1>1. ASSUME NEW s \in names
      PROVE  [d \in Recent(t, s) |-> t[s][d]] = [d \in Recent(u, s) |-> u[s][d]]
  <2>1. KnownDates(t, s, date) = KnownDates(u, s, date)
    BY DEF SameUpTo
  <2>2. Recent(t, s) = Recent(u, s)
    BY <2>1
  <2>3. \A d \in Recent(t, s) : t[s][d] = u[s][d]
    BY DEF SameUpTo
  <2> HIDE DEF Recent
  <2>4. QED
    BY <2>2, <2>3
<1>2. \A x : BarsAsOf(x, names, date, n) = [s \in names |-> [d \in Recent(x, s) |-> x[s][d]]]
  BY DEF BarsAsOf
<1> HIDE DEF Recent
<1>3. QED
  BY <1>1, <1>2

\* So are the newest bars of what is watched.
LEMMA SameLatest ==
  ASSUME NEW t, NEW u, SameUpTo(t, u, today), NEW b, b.watched \subseteq Symbols
  PROVE  Latest(t, b) = Latest(u, b)
<1>1. \A s \in b.watched : /\ KnownDates(t, s, today) = KnownDates(u, s, today)
                           /\ Entries(t, s, today) = Entries(u, s, today)
  BY SameEntries DEF SameUpTo
<1> DEFINE names == {s \in b.watched : KnownDates(t, s, today) # {}}
<1>2. names = {s \in b.watched : KnownDates(u, s, today) # {}}
  BY <1>1
<1>3. \A s \in names : Newest(Entries(t, s, today)) = Newest(Entries(u, s, today))
  BY <1>1
<1>4. Latest(t, b) = [s \in names |-> Newest(Entries(t, s, today))]
  BY DEF Latest, LatestBarsAsOf
<1>5. Latest(u, b) = [s \in names |-> Newest(Entries(u, s, today))]
  BY <1>2 DEF Latest, LatestBarsAsOf
<1> HIDE DEF names
<1>6. QED
  BY <1>3, <1>4, <1>5

\* Hence the same decision.
LEMMA SameDecision ==
  ASSUME NEW t, NEW u, SameUpTo(t, u, today), NEW b, b.watched \subseteq Symbols
  PROVE  Decided(t, b) = Decided(u, b)
<1> DEFINE universe == UniverseAsOf(Membership, today)
<1>1. universe \in SUBSET Symbols /\ {Benchmark} \in SUBSET Symbols
  BY MembersAreSymbols, BacktestConstants DEF Symbols
<1> HIDE DEF universe
<1>2. \A n : Score(n, t, universe, today) = Score(n, u, universe, today)
  BY <1>1, SameHistory DEF Score
<1>3. Targets(t) = Targets(u)
  BY <1>2 DEF Targets, universe
<1>4. TrendFilter(t, today) = TrendFilter(u, today)
  BY <1>1, SameHistory DEF TrendFilter
<1>5. Latest(t, b) = Latest(u, b)
  BY SameLatest
<1>6. \A riskOn : Judged(t, b, riskOn) = Judged(u, b, riskOn)
  BY <1>3, <1>5 DEF Judged
<1>7. Decision(t, b) = Decision(u, b)
  BY <1>3, <1>4, <1>6 DEF Decision, RiskOn, Exits
<1>8. QED
  BY <1>7 DEF Decided

\* And the same mark.
LEMMA SameMark ==
  ASSUME NEW t, NEW u, SameUpTo(t, u, today), NEW b, b.watched \subseteq Symbols
  PROVE  Marked(t, b) = Marked(u, b)
<1>1. Latest(t, b) = Latest(u, b)
  BY SameLatest
<1>2. QED
  BY <1>1 DEF Marked

-----------------------------------------------------------------------------
(* What they answer in the morning, when only the opens of today are seen. *)

\* The bars of the days before, who trades today and at which open.
SameMorning(t, u) ==
  /\ SameUpTo(t, u, today - 1)
  /\ \A s \in Symbols : /\ (today \in DOMAIN t[s]) <=> (today \in DOMAIN u[s])
                        /\ (today \in DOMAIN t[s]) => (t[s][today].open = u[s][today].open)

\* A symbol that trades today has its newest bar today.
LEMMA NewestIsToday ==
  ASSUME NEW t, Dated(t), today \in Nat, NEW s \in Symbols, today \in DOMAIN t[s]
  PROVE  /\ KnownDates(t, s, today) # {}
         /\ Newest(Entries(t, s, today)) = [date |-> today, bar |-> t[s][today]]
<1> DEFINE entries == Entries(t, s, today)
           now == [date |-> today, bar |-> t[s][today]]
<1>1. today \in KnownDates(t, s, today)
  BY DEF KnownDates
<1>2. now \in entries
  BY <1>1 DEF Entries
<1>3. \A e \in entries : /\ e = [date |-> e.date, bar |-> t[s][e.date]]
                         /\ e.date \in Nat /\ e.date <= today
  BY DEF Entries, KnownDates, Dated
<1> HIDE DEF entries, now
<1>4. now.date = today
  BY DEF now
<1>5. \A f \in entries : f.date <= now.date
  BY <1>3, <1>4
<1>6. \A e \in entries : (\A f \in entries : f.date <= e.date) => e = now
  BY <1>2, <1>3, <1>4 DEF now
<1>7. Newest(entries) = now
  BY <1>2, <1>5, <1>6 DEF Newest
<1>8. QED
  BY <1>1, <1>7 DEF entries, now

\* One that does not has the newest of the days before.
LEMMA SameEarlier ==
  ASSUME NEW t, NEW u, Dated(t), Dated(u), today \in Nat, SameMorning(t, u),
         NEW s \in Symbols, today \notin DOMAIN t[s]
  PROVE  /\ KnownDates(t, s, today) = KnownDates(u, s, today)
         /\ Entries(t, s, today) = Entries(u, s, today)
<1>1. today \notin DOMAIN u[s]
  BY DEF SameMorning
<1>2. /\ KnownDates(t, s, today) = KnownDates(t, s, today - 1)
      /\ KnownDates(u, s, today) = KnownDates(u, s, today - 1)
  BY <1>1 DEF KnownDates, Dated
<1>3. QED
  BY <1>2 DEF SameMorning, SameUpTo, Entries

LEMMA LatestAt ==
  ASSUME NEW t, NEW b, NEW s
  PROVE  /\ (s \in DOMAIN Latest(t, b)) <=> (s \in b.watched /\ KnownDates(t, s, today) # {})
         /\ (s \in DOMAIN Latest(t, b)) => (Latest(t, b)[s] = Newest(Entries(t, s, today)))
  BY DEF Latest, LatestBarsAsOf

\* The same are cashed out, at the same price.
LEMMA SameCashOut ==
  ASSUME NEW t, NEW u, Dated(t), Dated(u), today \in Nat, SameMorning(t, u),
         NEW b, NEW s \in Symbols
  PROVE  CashedOut(t, b, s) = CashedOut(u, b, s)
<1>1. CASE today \in DOMAIN t[s]
  <2>1. today \in DOMAIN u[s]
    BY <1>1 DEF SameMorning
  <2>2. \A x : Dated(x) /\ today \in DOMAIN x[s] => ~StoppedTrading(x, b, s)
    <3> SUFFICES ASSUME NEW x, Dated(x), today \in DOMAIN x[s], s \in DOMAIN Latest(x, b)
                 PROVE  ~(today - Latest(x, b)[s].date >= StaleDays)
      BY DEF StoppedTrading
    <3>1. Newest(Entries(x, s, today)) = [date |-> today, bar |-> x[s][today]]
      BY NewestIsToday
    <3>2. Latest(x, b)[s].date = today
      BY <3>1, LatestAt
    <3>3. QED
      BY <3>2, BacktestConstants
  <2>3. QED
    BY <1>1, <2>1, <2>2 DEF CashedOut
<1>2. CASE today \notin DOMAIN t[s]
  <2>1. /\ KnownDates(t, s, today) = KnownDates(u, s, today)
        /\ Entries(t, s, today) = Entries(u, s, today)
    BY <1>2, SameEarlier
  <2>2. /\ (s \in DOMAIN Latest(t, b)) <=> (s \in DOMAIN Latest(u, b))
        /\ (s \in DOMAIN Latest(t, b)) => (Latest(t, b)[s] = Latest(u, b)[s])
    BY <2>1, LatestAt
  <2>3. /\ StoppedTrading(t, b, s) <=> StoppedTrading(u, b, s)
        /\ StoppedTrading(t, b, s) => (Latest(t, b)[s] = Latest(u, b)[s])
    BY <2>2 DEF StoppedTrading
  <2>4. QED
    BY <2>3 DEF CashedOut
<1>3. QED
  BY <1>1, <1>2

\* The same opens are traded at.
LEMMA SameOpen ==
  ASSUME NEW t, NEW u, Dated(t), Dated(u), today \in Nat, SameMorning(t, u),
         NEW b, NEW s \in Symbols
  PROVE  OpenOf(t, b, s) = OpenOf(u, b, s)
<1>1. CASE today \in DOMAIN t[s]
  <2>1. today \in DOMAIN u[s] /\ t[s][today].open = u[s][today].open
    BY <1>1 DEF SameMorning
  <2>2. \A x : Dated(x) /\ today \in DOMAIN x[s] =>
               OpenOf(x, b, s) = IF s \in b.watched THEN x[s][today].open ELSE 0
    <3> SUFFICES ASSUME NEW x, Dated(x), today \in DOMAIN x[s]
                 PROVE  OpenOf(x, b, s) = IF s \in b.watched THEN x[s][today].open ELSE 0
      OBVIOUS
    <3>1. /\ KnownDates(x, s, today) # {}
          /\ Newest(Entries(x, s, today)) = [date |-> today, bar |-> x[s][today]]
      BY NewestIsToday
    <3>2. /\ (s \in DOMAIN Latest(x, b)) <=> (s \in b.watched)
          /\ (s \in b.watched) => (Latest(x, b)[s] = [date |-> today, bar |-> x[s][today]])
      BY <3>1, LatestAt
    <3>3. QED
      BY <3>2 DEF OpenOf
  <2>3. QED
    BY <1>1, <2>1, <2>2
<1>2. CASE today \notin DOMAIN t[s]
  <2>1. /\ KnownDates(t, s, today) = KnownDates(u, s, today)
        /\ Entries(t, s, today) = Entries(u, s, today)
    BY <1>2, SameEarlier
  <2>2. /\ (s \in DOMAIN Latest(t, b)) <=> (s \in DOMAIN Latest(u, b))
        /\ (s \in DOMAIN Latest(t, b)) => (Latest(t, b)[s] = Latest(u, b)[s])
    BY <2>1, LatestAt
  <2>3. QED
    BY <2>2 DEF OpenOf
<1>3. QED
  BY <1>1, <1>2

LEMMA SameOpening ==
  ASSUME NEW t, NEW u, Dated(t), Dated(u), today \in Nat, SameMorning(t, u), NEW b
  PROVE  Opened(t, b) = Opened(u, b)
<1>1. [s \in Symbols |-> OpenOf(t, b, s)] = [s \in Symbols |-> OpenOf(u, b, s)]
  BY SameOpen
<1>2. QED
  BY <1>1 DEF Opened

LEMMA SameExecution ==
  ASSUME NEW t, NEW u, Dated(t), Dated(u), today \in Nat, SameMorning(t, u),
         NEW b, NEW s \in Symbols
  PROVE  Executed(t, b, s) = Executed(u, b, s)
  BY SameOpen DEF Executed

-----------------------------------------------------------------------------
(* Only dawn changes what is watched, and it watches symbols.              *)

Watches(b) == "watched" \in DOMAIN b /\ b.watched \subseteq Symbols

LEMMA DawnWatches == ASSUME NEW b, Watches(b) PROVE Watches(Watched(b))
<1> DEFINE all == UniverseAsOf(Membership, today) \cup Held(b)
<1>1. all \subseteq Symbols
  BY MembersAreSymbols DEF Held
<1> HIDE DEF all
<1>2. "watched" \in DOMAIN [b EXCEPT !.watched = all] /\ [b EXCEPT !.watched = all].watched = all
  BY Zenon DEF Watches
<1>3. QED
  BY <1>1, <1>2 DEF Watches, Watched, all

\* A book with other cash, and other shares of one name.
Having(b, s, x, y) == [b EXCEPT !.cash = x, !.shares[s] = y]

\* What is bought changes the cash and the shares of its name, or nothing.
LEMMA BoughtIs ==
  ASSUME NEW b, NEW s, NEW count, NEW fill
  PROVE  \/ Bought(b, s, count, fill) = b
         \/ \E x, y : Bought(b, s, count, fill) = Having(b, s, x, y)
<1> DEFINE fee == Commission(count, fill)
           affordable == Larger(0, (b.cash - fee) \div fill)
           trade == IF count * fill + fee > b.cash THEN affordable ELSE count
           dust == trade < count /\ trade * fill < MinTradeValue
           x == b.cash - (trade * fill + Commission(trade, fill))
           y == b.shares[s] + trade
<1>1. Bought(b, s, count, fill) = IF dust THEN b ELSE Having(b, s, x, y)
  BY Zenon DEF Bought, Having
<1> HIDE DEF dust, x, y
<1>2. QED
  BY <1>1

LEMMA KeptByCash ==
  ASSUME NEW b, Watches(b), NEW x, NEW s, NEW y
  PROVE  Watches([b EXCEPT !.cash = x, !.shares[s] = y])
<1>1. /\ DOMAIN [b EXCEPT !.cash = x, !.shares[s] = y] = DOMAIN b
      /\ [b EXCEPT !.cash = x, !.shares[s] = y].watched = b.watched
  BY Zenon DEF Watches
<1>2. QED
  BY <1>1 DEF Watches

LEMMA CashOutWatches ==
  ASSUME NEW b, Watches(b), NEW t, NEW s PROVE Watches(CashedOut(t, b, s))
  BY KeptByCash DEF CashedOut

LEMMA OpenWatches == ASSUME NEW b, Watches(b), NEW t PROVE Watches(Opened(t, b))
<1>1. \A x : Watches([b EXCEPT !.atOpen = x])
  <2> TAKE x
  <2>1. /\ DOMAIN [b EXCEPT !.atOpen = x] = DOMAIN b
        /\ [b EXCEPT !.atOpen = x].watched = b.watched
    BY Zenon DEF Watches
  <2>2. QED
    BY <2>1 DEF Watches
<1>2. QED
  BY <1>1 DEF Opened

LEMMA ExecuteWatches ==
  ASSUME NEW b, Watches(b), NEW t, NEW s PROVE Watches(Executed(t, b, s))
<1>1. \A count, fill : Watches(Sold(b, s, count, fill))
  BY KeptByCash DEF Sold
<1>2. \A count, fill : Watches(Bought(b, s, count, fill))
  <2> TAKE count, fill
  <2>1. \A x, y : Watches(Having(b, s, x, y))
    BY KeptByCash, Zenon DEF Having
  <2>2. \/ Bought(b, s, count, fill) = b
        \/ \E x, y : Bought(b, s, count, fill) = Having(b, s, x, y)
    BY BoughtIs
  <2>3. CASE Bought(b, s, count, fill) = b
    BY <2>3
  <2>4. CASE \E x, y : Bought(b, s, count, fill) = Having(b, s, x, y)
    <3>1. PICK x, y : Bought(b, s, count, fill) = Having(b, s, x, y)
      BY <2>4
    <3>2. Watches(Having(b, s, x, y))
      BY <2>1
    <3>3. QED
      BY <3>1, <3>2
  <2>5. QED
    BY <2>2, <2>3, <2>4
<1>3. \A px : Watches(Traded(b, s, px))
  BY <1>1, <1>2 DEF Traded
<1>4. QED
  BY <1>3 DEF Executed

LEMMA MarkWatches == ASSUME NEW b, Watches(b), NEW t PROVE Watches(Marked(t, b))
<1>1. \A x, y, z : Watches([b EXCEPT !.equity = x, !.peak = y, !.pending = Hold, !.previous = z])
  <2> TAKE x, y, z
  <2> DEFINE marked == [b EXCEPT !.equity = x, !.peak = y, !.pending = Hold, !.previous = z]
  <2>1. DOMAIN marked = DOMAIN b /\ marked.watched = b.watched
    BY Zenon DEF Watches
  <2>2. QED
    BY <2>1 DEF Watches
<1>2. QED
  BY <1>1 DEF Marked

LEMMA DecideWatches == ASSUME NEW b, Watches(b), NEW t PROVE Watches(Decided(t, b))
<1>1. \A x : Watches([b EXCEPT !.pending = x])
  <2> TAKE x
  <2>1. /\ DOMAIN [b EXCEPT !.pending = x] = DOMAIN b
        /\ [b EXCEPT !.pending = x].watched = b.watched
    BY Zenon DEF Watches
  <2>2. QED
    BY <2>1 DEF Watches
<1>2. QED
  BY <1>1 DEF Decided

-----------------------------------------------------------------------------
(* The invariant.                                                          *)

Phases == {"dawn", "cash out", "open", "execute", "close", "decide", "end"}

RunInv == /\ bars \in Histories /\ today \in Nat /\ at \in Symbols /\ phase \in Phases
          /\ \A w \in Worlds : Watches(book[w])

LEMMA RunInvInit == Init => RunInv
<1> SUFFICES ASSUME Init PROVE RunInv
  OBVIOUS
<1>1. \A w \in Worlds : book[w] = NewBook
  BY DEF Init
<1>2. Watches(NewBook)
  BY DEF Watches, NewBook
<1>3. QED
  BY <1>1, <1>2, BacktestConstants DEF Init, RunInv, Symbols, Phases

LEMMA RunInvNext == RunInv /\ [Next]_vars => RunInv'
<1> SUFFICES ASSUME RunInv, [Next]_vars PROVE RunInv'
  OBVIOUS
<1> USE DEF RunInv
<1>1. \A b : Watches(b)' = Watches(b)
  BY DEF Watches, Symbols
<1>2. \A next : Onwards(next) => at' \in Symbols /\ phase' \in {phase, next}
  BY BacktestConstants DEF Onwards, Symbols
<1> 1 \in Symbols
  BY BacktestConstants DEF Symbols
<1>3. CASE Dawn
  BY <1>1, <1>3, DawnWatches DEF Dawn, Phases
<1>4. CASE CashOut
  BY <1>1, <1>2, <1>4, CashOutWatches DEF CashOut, Phases
<1>5. CASE Open
  BY <1>1, <1>5, OpenWatches DEF Open, Phases
<1>6. CASE Execute
  BY <1>1, <1>2, <1>6, ExecuteWatches DEF Execute, Phases
<1>7. CASE Close
  BY <1>1, <1>7, MarkWatches DEF Close, Phases
<1>8. CASE Decide
  <2>1. today' \in Nat /\ phase' \in Phases
    <3>1. \/ today' = today + 1 /\ phase' = "dawn"
          \/ today' = today /\ phase' = "end"
      BY <1>8 DEF Decide
    <3>2. today' \in Nat
      BY <3>1
    <3>3. phase' \in Phases
      BY <3>1 DEF Phases
    <3>4. QED
      BY <3>2, <3>3
  <2>2. book' = [w \in Worlds |-> Decided(bars[w], book[w])] /\ UNCHANGED <<bars, at>>
    BY <1>8 DEF Decide
  <2>3. ASSUME NEW w \in Worlds PROVE Watches(book'[w])
    <3>1. Watches(Decided(bars[w], book[w]))
      BY DecideWatches
    <3>2. book'[w] = Decided(bars[w], book[w])
      BY <2>2
    <3>3. QED
      BY <3>1, <3>2
  <2>4. QED
    BY <1>1, <2>1, <2>2, <2>3
<1>9. CASE UNCHANGED vars
  BY <1>1, <1>9 DEF vars
<1>10. QED
  BY <1>3, <1>4, <1>5, <1>6, <1>7, <1>8, <1>9 DEF Next

-----------------------------------------------------------------------------

LEMMA TablesAreDated == ASSUME RunInv, NEW w \in Worlds PROVE Dated(bars[w])
  BY BacktestConstants DEF RunInv, Dated, Symbols

\* What agreement means before and after the close.
LEMMA AgreeMorning ==
  ASSUME NEW v, NEW w, AgreeSoFar(v, w), phase \notin Earlier, today \in Nat
  PROVE  SameMorning(bars[v], bars[w])
  BY DEF AgreeSoFar, SameMorning, SameUpTo

LEMMA UpToToday ==
  ASSUME NEW t, NEW u, Dated(t), Dated(u), NEW date \in Nat, SameUpTo(t, u, date - 1),
         \A s \in Symbols : /\ (date \in DOMAIN t[s]) <=> (date \in DOMAIN u[s])
                            /\ (date \in DOMAIN t[s]) => (t[s][date] = u[s][date])
  PROVE  SameUpTo(t, u, date)
<1>1. \A x : Dated(x) => \A s \in Symbols :
        KnownDates(x, s, date)
          = KnownDates(x, s, date - 1) \cup (IF date \in DOMAIN x[s] THEN {date} ELSE {})
  BY DEF KnownDates, Dated
<1>2. QED
  BY <1>1 DEF SameUpTo

LEMMA AgreeEvening ==
  ASSUME RunInv, NEW v \in Worlds, NEW w \in Worlds,
         AgreeSoFar(v, w), phase \in {"decide", "end"}
  PROVE  SameUpTo(bars[v], bars[w], today)
<1>1. Dated(bars[v]) /\ Dated(bars[w]) /\ today \in Nat
  BY TablesAreDated DEF RunInv
<1>2. phase \notin Earlier /\ phase \notin Morning
  BY DEF Earlier, Morning
<1>3. QED
  BY <1>1, <1>2, UpToToday DEF AgreeSoFar, SameUpTo

\* Agreement after a step was agreement before it.
LEMMA AgreedBefore ==
  ASSUME RunInv, Next, NEW v \in Worlds, NEW w \in Worlds, AgreeSoFar(v, w)'
  PROVE  AgreeSoFar(v, w)
<1> USE DEF RunInv
<1>1. CASE Dawn \/ CashOut \/ Open \/ Execute
  <2>1. /\ UNCHANGED <<bars, today>>
        /\ phase \in Earlier \cup Morning
        /\ phase' \in Morning
    BY <1>1 DEF Dawn, CashOut, Open, Execute, Onwards, Earlier, Morning
  <2>2. phase' \notin Earlier
    BY <2>1 DEF Earlier, Morning
  <2>3. QED
    BY <2>1, <2>2 DEF AgreeSoFar, Symbols, KnownDates
<1>2. CASE Close
  <2>1. UNCHANGED <<bars, today>> /\ phase = "close" /\ phase' = "decide"
    BY <1>2 DEF Close
  <2>2. QED
    BY <2>1 DEF AgreeSoFar, Symbols, KnownDates, Earlier, Morning
<1>3. CASE Decide
  <2>1. CASE phase' = "end"
    BY <1>3, <2>1 DEF Decide, AgreeSoFar, Symbols, KnownDates, Earlier, Morning
  <2>2. CASE phase' = "dawn"
    <3>1. today' = today + 1 /\ UNCHANGED bars /\ phase = "decide"
      BY <1>3, <2>2 DEF Decide
    <3>2. /\ Dated(bars[v]) /\ Dated(bars[w])
      BY TablesAreDated
    <3>3. ASSUME NEW s \in Symbols
          PROVE  /\ KnownDates(bars[v], s, today) = KnownDates(bars[w], s, today)
                 /\ \A d \in KnownDates(bars[v], s, today) : bars[v][s][d] = bars[w][s][d]
      <4>1. today' - 1 = today
        BY <3>1
      <4>2. /\ KnownDates(bars[v], s, today' - 1) = KnownDates(bars[w], s, today' - 1)
            /\ \A d \in KnownDates(bars[v], s, today' - 1) : bars[v][s][d] = bars[w][s][d]
        BY <3>1 DEF AgreeSoFar, Symbols, KnownDates
      <4>3. QED
        BY <4>1, <4>2
    <3>4. \A t : Dated(t) => \A s \in Symbols :
            /\ KnownDates(t, s, today - 1) = {d \in KnownDates(t, s, today) : d # today}
            /\ (today \in DOMAIN t[s]) <=> (today \in KnownDates(t, s, today))
      BY DEF KnownDates, Dated
    <3>5. phase \notin Morning
      BY <3>1 DEF Morning
    <3>6. ASSUME NEW s \in Symbols
          PROVE  /\ KnownDates(bars[v], s, today - 1) = KnownDates(bars[w], s, today - 1)
                 /\ \A d \in KnownDates(bars[v], s, today - 1) : bars[v][s][d] = bars[w][s][d]
                 /\ (today \in DOMAIN bars[v][s]) <=> (today \in DOMAIN bars[w][s])
                 /\ (today \in DOMAIN bars[v][s]) => (bars[v][s][today] = bars[w][s][today])
      <4>1. /\ KnownDates(bars[v], s, today) = KnownDates(bars[w], s, today)
            /\ \A d \in KnownDates(bars[v], s, today) : bars[v][s][d] = bars[w][s][d]
        BY <3>3
      <4>2. \A x \in {v, w} :
              /\ KnownDates(bars[x], s, today - 1) = {d \in KnownDates(bars[x], s, today) : d # today}
              /\ (today \in DOMAIN bars[x][s]) <=> (today \in KnownDates(bars[x], s, today))
        BY <3>2, <3>4
      <4>3. KnownDates(bars[v], s, today - 1) = KnownDates(bars[w], s, today - 1)
        BY <4>1, <4>2
      <4>4. \A d \in KnownDates(bars[v], s, today - 1) : d \in KnownDates(bars[v], s, today)
        BY <4>2
      <4>5. QED
        BY <4>1, <4>2, <4>3, <4>4
    <3>7. QED
      BY <3>5, <3>6 DEF AgreeSoFar
  <2>3. QED
    BY <1>3, <2>1, <2>2 DEF Decide
<1>4. QED
  BY <1>1, <1>2, <1>3 DEF Next

LEMMA LookaheadInit == Init => NoLookahead
  BY DEF Init, NoLookahead

LEMMA LookaheadNext == RunInv /\ NoLookahead /\ [Next]_vars => NoLookahead'
<1> SUFFICES ASSUME RunInv, NoLookahead, [Next]_vars PROVE NoLookahead'
  OBVIOUS
<1>1. CASE UNCHANGED vars
  BY <1>1 DEF vars, NoLookahead, AgreeSoFar, KnownDates, Symbols
<1>2. CASE Next
  <2> SUFFICES ASSUME NEW v \in Worlds, NEW w \in Worlds, AgreeSoFar(v, w)'
               PROVE  book'[v] = book'[w]
    BY DEF NoLookahead
  <2>1. AgreeSoFar(v, w) /\ book[v] = book[w]
    BY <1>2, AgreedBefore DEF NoLookahead
  <2> DEFINE b == book[v]
             t == bars[v]
             u == bars[w]
  <2>2. /\ Dated(t) /\ Dated(u) /\ today \in Nat /\ at \in Symbols
        /\ b.watched \subseteq Symbols
    BY TablesAreDated DEF RunInv, Watches
  <2>3. CASE Dawn
    BY <2>1, <2>3 DEF Dawn
  <2>4. CASE CashOut
    <3>1. SameMorning(t, u)
      BY <2>1, <2>2, <2>4, AgreeMorning DEF CashOut, Earlier
    <3>2. CashedOut(t, b, at) = CashedOut(u, b, at)
      BY <2>2, <3>1, SameCashOut
    <3>3. QED
      BY <2>1, <2>4, <3>2 DEF CashOut
  <2>5. CASE Open
    <3>1. SameMorning(t, u)
      BY <2>1, <2>2, <2>5, AgreeMorning DEF Open, Earlier
    <3>2. Opened(t, b) = Opened(u, b)
      BY <2>2, <3>1, SameOpening
    <3>3. QED
      BY <2>1, <2>5, <3>2 DEF Open
  <2>6. CASE Execute
    <3>1. SameMorning(t, u)
      BY <2>1, <2>2, <2>6, AgreeMorning DEF Execute, Earlier
    <3>2. Executed(t, b, at) = Executed(u, b, at)
      BY <2>2, <3>1, SameExecution
    <3>3. QED
      BY <2>1, <2>6, <3>2 DEF Execute
  <2>7. CASE Close
    <3>1. UNCHANGED <<bars, today>> /\ phase' = "decide"
      BY <2>7 DEF Close
    <3>2. SameUpTo(t, u, today)
      <4>1. /\ SameUpTo(t, u, today - 1)
            /\ \A s \in Symbols : /\ (today \in DOMAIN t[s]) <=> (today \in DOMAIN u[s])
                                  /\ (today \in DOMAIN t[s]) => (t[s][today] = u[s][today])
        BY <3>1 DEF AgreeSoFar, SameUpTo, KnownDates, Symbols, Earlier, Morning
      <4>2. QED
        BY <2>2, <4>1, UpToToday
    <3>3. Marked(t, b) = Marked(u, b)
      BY <2>2, <3>2, SameMark
    <3>4. QED
      BY <2>1, <2>7, <3>3 DEF Close
  <2>8. CASE Decide
    <3>1. SameUpTo(t, u, today)
      BY <2>1, <2>8, AgreeEvening DEF Decide
    <3>2. Decided(t, b) = Decided(u, b)
      BY <2>2, <3>1, SameDecision
    <3>3. QED
      BY <2>1, <2>8, <3>2 DEF Decide
  <2>9. QED
    BY <1>2, <2>3, <2>4, <2>5, <2>6, <2>7, <2>8 DEF Next
<1>3. QED
  BY <1>1, <1>2

\* A run depends on what has happened so far and on nothing that has not
\* (backtest.py:3-11), whatever the histories, the mode and the constants.
THEOREM NothingFromTheFuture == Spec => []NoLookahead
<1>1. Init => RunInv /\ NoLookahead
  BY RunInvInit, LookaheadInit
<1>2. RunInv /\ NoLookahead /\ [Next]_vars => (RunInv /\ NoLookahead)'
  BY RunInvNext, LookaheadNext
<1>3. QED
  BY <1>1, <1>2, PTL DEF Spec

-----------------------------------------------------------------------------
(* Which days trade.                                                       *)

\* A decision is pending from the day of a rebalance to the next close.
MayTrade == /\ phase \in {"dawn"} \cup Morning
            /\ today > FirstDay /\ (today - 1 - FirstDay) % RebalanceEvery = 0

\* The day before found no market to be in.
Out(w) == mode.regime /\ TrendFilter(bars[w], today - 1) # "on"

PendingInv ==
  /\ today \in Nat /\ today >= FirstDay
  /\ \A w \in Worlds :
       /\ "pending" \in DOMAIN book[w]
       /\ book[w].pending # Hold =>
            /\ MayTrade /\ ~blocked[w]
            /\ Out(w) => book[w].pending = NoTargets

KeepsPending(b, c) == "pending" \in DOMAIN c /\ c.pending = b.pending

\* Nothing before the close touches the decision.
LEMMA MorningKeepsPending ==
  ASSUME NEW b, "pending" \in DOMAIN b, NEW t, NEW s
  PROVE  /\ KeepsPending(b, Watched(b)) /\ KeepsPending(b, CashedOut(t, b, s))
         /\ KeepsPending(b, Opened(t, b)) /\ KeepsPending(b, Executed(t, b, s))
<1>1. \A x : /\ KeepsPending(b, [b EXCEPT !.watched = x])
             /\ KeepsPending(b, [b EXCEPT !.atOpen = x])
  BY Zenon DEF KeepsPending
<1>2. \A x, y : KeepsPending(b, [b EXCEPT !.cash = x, !.shares[s] = y])
  BY Zenon DEF KeepsPending
<1>3. KeepsPending(b, b)
  BY DEF KeepsPending
<1>4. \A count, fill : KeepsPending(b, Sold(b, s, count, fill))
  BY <1>2 DEF Sold
<1>5. \A count, fill : KeepsPending(b, Bought(b, s, count, fill))
  <2> TAKE count, fill
  <2>1. \A x, y : KeepsPending(b, Having(b, s, x, y))
    BY <1>2, Zenon DEF Having
  <2>2. \/ Bought(b, s, count, fill) = b
        \/ \E x, y : Bought(b, s, count, fill) = Having(b, s, x, y)
    BY BoughtIs
  <2>3. CASE Bought(b, s, count, fill) = b
    BY <1>3, <2>3
  <2>4. CASE \E x, y : Bought(b, s, count, fill) = Having(b, s, x, y)
    <3>1. PICK x, y : Bought(b, s, count, fill) = Having(b, s, x, y)
      BY <2>4
    <3>2. KeepsPending(b, Having(b, s, x, y))
      BY <2>1
    <3>3. QED
      BY <3>1, <3>2
  <2>5. QED
    BY <2>2, <2>3, <2>4
<1>6. \A px : KeepsPending(b, Traded(b, s, px))
  BY <1>3, <1>4, <1>5 DEF Traded
<1>7. QED
  BY <1>1, <1>2, <1>3, <1>6 DEF Watched, CashedOut, Opened, Executed

LEMMA PendingNext == PendingInv /\ [Next]_vars => PendingInv'
<1> SUFFICES ASSUME PendingInv, [Next]_vars PROVE PendingInv'
  OBVIOUS
<1> USE DEF PendingInv
\* A step of the morning.
<1>1. ASSUME today' = today, phase \in {"dawn"} \cup Morning, phase' \in Morning,
             UNCHANGED <<bars, mode, blocked>>,
             \A w \in Worlds : KeepsPending(book[w], book'[w])
      PROVE  PendingInv'
  BY <1>1 DEF KeepsPending, MayTrade, Morning, Out
<1>2. \A next : Onwards(next) => phase' \in {phase, next}
  BY DEF Onwards
<1>3. CASE Dawn
  <2>1. \A w \in Worlds : KeepsPending(book[w], book'[w])
    BY <1>3, MorningKeepsPending DEF Dawn
  <2>2. QED
    BY <1>1, <1>3, <2>1 DEF Dawn, Morning
<1>4. CASE CashOut
  <2>1. \A w \in Worlds : KeepsPending(book[w], book'[w])
    BY <1>4, MorningKeepsPending DEF CashOut
  <2>2. QED
    BY <1>1, <1>2, <1>4, <2>1 DEF CashOut, Morning
<1>5. CASE Open
  <2>1. \A w \in Worlds : KeepsPending(book[w], book'[w])
    BY <1>5, MorningKeepsPending DEF Open
  <2>2. QED
    BY <1>1, <1>5, <2>1 DEF Open, Morning
<1>6. CASE Execute
  <2>1. \A w \in Worlds : KeepsPending(book[w], book'[w])
    BY <1>6, MorningKeepsPending DEF Execute
  <2>2. QED
    BY <1>1, <1>2, <1>6, <2>1 DEF Execute, Morning
<1>7. CASE Close
  <2>1. ASSUME NEW t, NEW b, "pending" \in DOMAIN b
        PROVE  "pending" \in DOMAIN Marked(t, b) /\ Marked(t, b).pending = Hold
    <3>1. \A x, y, z :
            LET c == [b EXCEPT !.equity = x, !.peak = y, !.pending = Hold, !.previous = z]
            IN  "pending" \in DOMAIN c /\ c.pending = Hold
      BY <2>1, Zenon
    <3>2. QED
      BY <3>1 DEF Marked
  <2>2. QED
    BY <1>7, <2>1 DEF Close
<1>8. CASE Decide
  <2>1. phase = "decide" /\ \A w \in Worlds : book[w].pending = Hold
    <3>1. phase = "decide"
      BY <1>8 DEF Decide
    <3>2. ~MayTrade
      BY <3>1 DEF MayTrade, Morning
    <3>3. QED
      BY <3>1, <3>2, Zenon
  <2>2. ASSUME NEW w \in Worlds
        PROVE  /\ "pending" \in DOMAIN book'[w]
               /\ (book'[w].pending # Hold) =>
                    /\ Decides /\ ~blocked'[w]
                    /\ Exits(bars[w]) => book'[w].pending = NoTargets
    <3>1. book'[w] = Decided(bars[w], book[w]) /\ blocked'[w] = Stops(bars[w], book[w])
      BY <1>8 DEF Decide
    <3>2. "pending" \in DOMAIN Decided(bars[w], book[w])
      BY DEF Decided
    <3>3. CASE ~Decides
      BY <2>1, <3>1, <3>2, <3>3 DEF Decided
    <3>4. CASE Decides
      <4>1. book'[w].pending = Decision(bars[w], book[w])
        BY <3>1, <3>4 DEF Decided
      <4>2. Stops(bars[w], book[w]) => Decision(bars[w], book[w]) = Hold
        BY Zenon DEF Stops, Decision
      <4>3. Exits(bars[w]) => Decision(bars[w], book[w]) = NoTargets
        BY DEF Decision
      <4>4. QED
        BY <3>1, <3>2, <3>4, <4>1, <4>2, <4>3
    <3>5. QED
      BY <3>3, <3>4
  <2>3. ASSUME Decides PROVE MayTrade'
    <3>1. (today - FirstDay) % RebalanceEvery = 0 /\ today < LastDay
      BY <2>3 DEF Decides
    <3>2. today' = today + 1 /\ phase' = "dawn"
      BY <1>8, <3>1 DEF Decide
    <3>3. today' > FirstDay /\ today' - 1 - FirstDay = today - FirstDay
      BY <3>2, BacktestConstants
    <3>4. QED
      BY <3>1, <3>2, <3>3 DEF MayTrade
  <2>4. today' \in Nat /\ today' >= FirstDay
    BY <1>8, BacktestConstants DEF Decide
  <2>5. ASSUME NEW w \in Worlds, Decides, Out(w)' PROVE Exits(bars[w])
    <3>1. bars' = bars /\ mode' = mode /\ today' = today + 1
      BY <1>8, <2>5 DEF Decide, Decides
    <3>2. today' - 1 = today
      BY <3>1
    <3>3. QED
      BY <2>5, <3>1, <3>2 DEF Out, Exits, RiskOn
  <2>6. QED
    BY <2>2, <2>3, <2>4, <2>5
<1>9. CASE UNCHANGED vars
  BY <1>9 DEF vars, MayTrade, Morning, Out
<1>10. QED
  BY <1>3, <1>4, <1>5, <1>6, <1>7, <1>8, <1>9 DEF Next

-----------------------------------------------------------------------------
(* What is held trades.                                                    *)

Lately(t, s) == \E d \in KnownDates(t, s, today) : today - d < StaleDays

\* The newest of some entries is one of them.
LEMMA NewestIsOne ==
  ASSUME NEW t, Dated(t), today \in Nat, NEW s \in Symbols, KnownDates(t, s, today) # {}
  PROVE  /\ Newest(Entries(t, s, today)) \in Entries(t, s, today)
         /\ Newest(Entries(t, s, today)).date \in KnownDates(t, s, today)
<1> DEFINE known == KnownDates(t, s, today)
           ages == {today - d : d \in known}
<1>1. \A d \in known : d \in Nat /\ d <= today
  BY DEF KnownDates, Dated
<1>2. ages \subseteq Nat /\ ages # {}
  BY <1>1
<1> HIDE DEF ages
<1>3. PICK x \in ages : \A y \in ages : ~ (<<y, x>> \in OpToRel(<, Nat))
  BY <1>2, NatLessThanWellFounded, WFMin
<1>4. \A y \in ages : ~ (y < x)
  BY <1>2, <1>3 DEF OpToRel
<1> HIDE DEF known
<1>5. PICK d \in known : x = today - d
  BY <1>3 DEF ages
<1>6. ASSUME NEW e \in known PROVE e <= d
  <2>1. today - e \in ages
    BY DEF ages
  <2>2. ~ (today - e < today - d)
    BY <1>4, <1>5, <2>1
  <2>3. QED
    BY <1>1, <2>2
<1> DEFINE entries == Entries(t, s, today)
<1>7. \A e \in entries : e.date \in known
  BY DEF Entries, known
<1>8. [date |-> d, bar |-> t[s][d]] \in entries
  BY DEF Entries, known
<1> HIDE DEF entries
<1>9. \E e \in entries : \A f \in entries : f.date <= e.date
  BY <1>6, <1>7, <1>8
<1>10. Newest(entries) \in entries
  BY <1>9 DEF Newest
<1>11. QED
  BY <1>7, <1>10 DEF entries, known

\* What is held has traded, is watched in the morning, and from the cashing
\* out on has traded lately.
Checked(s) == \/ phase = "cash out" /\ s < at
              \/ phase \in {"open", "execute", "close", "decide"}

IsBook(b) == {"watched", "cash", "shares"} \subseteq DOMAIN b /\ DOMAIN b.shares = Symbols

Carries(t, b, s) ==
  b.shares[s] # 0 => /\ KnownDates(t, s, today) # {}
                     /\ phase \in Morning => s \in b.watched
                     /\ Checked(s) => Lately(t, s)

CarriedInv == \A w \in Worlds : /\ IsBook(book[w])
                                /\ \A s \in Symbols : Carries(bars[w], book[w], s)

\* A book changed in nothing that counts here.
Alike(b, c) == IsBook(c) /\ c.shares = b.shares /\ c.watched = b.watched

LEMMA AlikeAfter ==
  ASSUME NEW b, IsBook(b), NEW t
  PROVE  Alike(b, Opened(t, b)) /\ Alike(b, Marked(t, b)) /\ Alike(b, Decided(t, b))
<1>1. \A x : Alike(b, [b EXCEPT !.atOpen = x]) /\ Alike(b, [b EXCEPT !.pending = x])
  BY Zenon DEF Alike, IsBook
<1>2. \A x, y, z :
        Alike(b, [b EXCEPT !.equity = x, !.peak = y, !.pending = Hold, !.previous = z])
  BY Zenon DEF Alike, IsBook
<1>3. Alike(b, b)
  BY DEF Alike
<1>4. QED
  BY <1>1, <1>2, <1>3 DEF Opened, Marked, Decided

\* A turn of a loop changes the shares of one symbol.
TurnOf(b, c, s) ==
  /\ IsBook(c) /\ c.watched = b.watched
  /\ \A x \in Symbols \ {s} : c.shares[x] = b.shares[x]

LEMMA SharesSet ==
  ASSUME NEW b, IsBook(b), NEW s \in Symbols, NEW x, NEW y
  PROVE  TurnOf(b, Having(b, s, x, y), s) /\ Having(b, s, x, y).shares[s] = y
<1> DEFINE c == Having(b, s, x, y)
<1>1. /\ DOMAIN c = DOMAIN b /\ c.watched = b.watched
      /\ c.shares = [b.shares EXCEPT ![s] = y]
  BY Zenon DEF IsBook, Having
<1> HIDE DEF c
<1>2. IsBook(c) /\ c.shares[s] = y /\ \A z \in Symbols \ {s} : c.shares[z] = b.shares[z]
  BY <1>1 DEF IsBook
<1>3. QED
  BY <1>1, <1>2 DEF TurnOf, c

LEMMA TurnsOfLoops ==
  ASSUME NEW b, IsBook(b), NEW t, NEW s \in Symbols
  PROVE  TurnOf(b, CashedOut(t, b, s), s) /\ TurnOf(b, Executed(t, b, s), s)
<1>1. TurnOf(b, b, s)
  BY DEF TurnOf
<1>2. \A x, y : TurnOf(b, [b EXCEPT !.cash = x, !.shares[s] = y], s)
  BY SharesSet DEF Having
<1>3. \A count, fill : TurnOf(b, Sold(b, s, count, fill), s)
  BY <1>2 DEF Sold
<1>4. \A count, fill : TurnOf(b, Bought(b, s, count, fill), s)
  <2> TAKE count, fill
  <2>1. \A x, y : TurnOf(b, Having(b, s, x, y), s)
    BY <1>2, Zenon DEF Having
  <2>2. \/ Bought(b, s, count, fill) = b
        \/ \E x, y : Bought(b, s, count, fill) = Having(b, s, x, y)
    BY BoughtIs
  <2>3. CASE Bought(b, s, count, fill) = b
    BY <1>1, <2>3
  <2>4. CASE \E x, y : Bought(b, s, count, fill) = Having(b, s, x, y)
    <3>1. PICK x, y : Bought(b, s, count, fill) = Having(b, s, x, y)
      BY <2>4
    <3>2. TurnOf(b, Having(b, s, x, y), s)
      BY <2>1
    <3>3. QED
      BY <3>1, <3>2
  <2>5. QED
    BY <2>2, <2>3, <2>4
<1>5. \A px : TurnOf(b, Traded(b, s, px), s)
  BY <1>1, <1>3, <1>4 DEF Traded
<1>6. QED
  BY <1>1, <1>2, <1>5 DEF CashedOut, Executed

\* What is left after its turn has traded lately.
LEMMA CashedOutUnlessLately ==
  ASSUME NEW t, Dated(t), today \in Nat, NEW b, IsBook(b), NEW s \in Symbols,
         b.shares[s] # 0 => s \in b.watched /\ KnownDates(t, s, today) # {},
         CashedOut(t, b, s).shares[s] # 0
  PROVE  b.shares[s] # 0 /\ Lately(t, s)
<1>1. ~StoppedTrading(t, b, s)
  <2>1. \A x : Having(b, s, x, 0).shares[s] = 0
    BY SharesSet
  <2>2. StoppedTrading(t, b, s) => \E x : CashedOut(t, b, s) = Having(b, s, x, 0)
    BY DEF CashedOut, Having
  <2>3. QED
    BY <2>1, <2>2
<1>2. b.shares[s] # 0
  BY <1>1 DEF CashedOut
<1>3. /\ s \in DOMAIN Latest(t, b)
      /\ Latest(t, b)[s] = Newest(Entries(t, s, today))
  BY <1>2, LatestAt
<1>4. Latest(t, b)[s].date \in KnownDates(t, s, today)
  BY <1>2, <1>3, NewestIsOne
<1>5. Latest(t, b)[s].date \in Nat
  BY <1>4 DEF KnownDates, Dated
<1>6. ~(today - Latest(t, b)[s].date >= StaleDays)
  BY <1>1, <1>2, <1>3 DEF StoppedTrading, Held
<1>7. today - Latest(t, b)[s].date < StaleDays
  BY <1>5, <1>6, BacktestConstants
<1>8. QED
  BY <1>2, <1>4, <1>7 DEF Lately

\* What is traded has its bar today.
LEMMA TradedTrades ==
  ASSUME NEW t, Dated(t), today \in Nat, NEW b, NEW s \in Symbols, Executed(t, b, s) # b
  PROVE  s \in b.watched /\ today \in KnownDates(t, s, today) /\ Lately(t, s)
<1>1. s \in DOMAIN Latest(t, b) /\ Latest(t, b)[s].date = today
  BY DEF Executed, OpenOf
<1>2. s \in b.watched /\ today \in KnownDates(t, s, today)
  BY <1>1, LatestAt, NewestIsOne
<1>3. today - today < StaleDays
  BY BacktestConstants
<1>4. QED
  BY <1>2, <1>3 DEF Lately

-----------------------------------------------------------------------------

\* Days that pass take no bar away.
LEMMA KnownTomorrow ==
  ASSUME NEW t, Dated(t), NEW date \in Nat, NEW s \in Symbols
  PROVE  KnownDates(t, s, date) \subseteq KnownDates(t, s, date + 1)
  BY DEF KnownDates, Dated

LEMMA SymbolsAreNat ==
  \A s \in Symbols : s \in Nat /\ ~(s < 1) /\ s <= NumSymbols /\ NumSymbols \in Nat
  BY BacktestConstants DEF Symbols

LEMMA CarriedInit == Init => CarriedInv
<1> SUFFICES ASSUME Init, NEW w \in Worlds PROVE /\ IsBook(book[w])
                                                 /\ \A s \in Symbols : Carries(bars[w], book[w], s)
  BY DEF CarriedInv
<1>1. book[w] = NewBook
  BY DEF Init
<1>2. IsBook(NewBook) /\ \A s \in Symbols : NewBook.shares[s] = 0
  BY DEF IsBook, NewBook
<1>3. QED
  BY <1>1, <1>2 DEF Carries

LEMMA CarriedNext == RunInv /\ CarriedInv /\ [Next]_vars => CarriedInv'
<1> SUFFICES ASSUME RunInv, CarriedInv, [Next]_vars PROVE CarriedInv'
  OBVIOUS
<1>1. CASE UNCHANGED vars
  BY <1>1 DEF vars, CarriedInv, IsBook, Carries, Checked, Lately, KnownDates, Morning, Symbols
<1>2. CASE Next
  <2> SUFFICES ASSUME NEW w \in Worlds
               PROVE  /\ IsBook(book'[w])
                      /\ \A s \in Symbols : Carries(bars[w], book[w], s)'
    BY DEF CarriedInv, IsBook, Symbols
  <2> DEFINE b == book[w]
             c == book'[w]
             t == bars[w]
  <2>1. /\ IsBook(b) /\ Dated(t) /\ today \in Nat /\ at \in Symbols
        /\ \A s \in Symbols : Carries(t, b, s)
    BY TablesAreDated DEF CarriedInv, RunInv
  <2>2. bars' = bars
    BY <1>2 DEF Next, Dawn, CashOut, Open, Execute, Close, Decide
  \* What has to be shown of each symbol, on the same day.
  <2>3. ASSUME today' = today, NEW s \in Symbols,
               c.shares[s] # 0 => /\ KnownDates(t, s, today) # {}
                                  /\ phase' \in Morning => s \in c.watched
                                  /\ Checked(s)' => Lately(t, s)
        PROVE  Carries(bars[w], book[w], s)'
    BY <2>2, <2>3 DEF Carries, Lately, KnownDates
  \* When only the phase has moved on.
  <2>4. ASSUME today' = today, Alike(b, c), NEW s \in Symbols,
               phase' \in Morning => phase \in Morning, Checked(s)' => Checked(s)
        PROVE  Carries(bars[w], book[w], s)'
    BY <2>1, <2>3, <2>4 DEF Alike, Carries
  <2>5. CASE Dawn
    <3>1. c = Watched(b) /\ phase' = "cash out" /\ at' = 1 /\ today' = today
      BY <2>5 DEF Dawn
    <3>2. IsBook(c) /\ c.shares = b.shares /\ Held(b) \subseteq c.watched
      <4>1. \A x : LET d == [b EXCEPT !.watched = x]
                   IN  IsBook(d) /\ d.shares = b.shares /\ d.watched = x
        BY <2>1, Zenon DEF IsBook
      <4>2. PICK x : c = [b EXCEPT !.watched = x] /\ Held(b) \subseteq x
        BY <3>1 DEF Watched
      <4>3. QED
        BY <4>1, <4>2
    <3>3. ASSUME NEW s \in Symbols PROVE ~Checked(s)'
      <4>1. ~(s < 1)
        BY SymbolsAreNat
      <4>2. QED
        BY <3>1, <4>1 DEF Checked
    <3>4. ASSUME NEW s \in Symbols, c.shares[s] # 0
          PROVE  KnownDates(t, s, today) # {} /\ s \in c.watched
      BY <2>1, <3>2, <3>4 DEF Carries, Held
    <3>5. QED
      BY <2>3, <3>1, <3>2, <3>3, <3>4
  <2>6. CASE CashOut
    <3>1. /\ c = CashedOut(t, b, at) /\ today' = today /\ phase = "cash out"
          /\ \/ at' = at + 1 /\ phase' = phase
             \/ at' = 1 /\ phase' = "open" /\ ~(at < NumSymbols)
      BY <2>6 DEF CashOut, Onwards
    <3>2. TurnOf(b, c, at)
      BY <2>1, <3>1, TurnsOfLoops
    <3>3. ASSUME NEW s \in Symbols, Checked(s)' PROVE s = at \/ Checked(s)
      <4>1. s \in Nat /\ at \in Nat /\ s <= NumSymbols /\ at <= NumSymbols /\ NumSymbols \in Nat
        BY <2>1, SymbolsAreNat
      <4>2. s <= at
        <5>1. CASE at' = at + 1 /\ phase' = phase
          <6>1. s < at + 1
            BY <3>1, <3>3, <5>1 DEF Checked
          <6>2. QED
            BY <4>1, <6>1
        <5>2. CASE ~(at < NumSymbols)
          BY <4>1, <5>2
        <5>3. QED
          BY <3>1, <5>1, <5>2
      <4>3. s = at \/ s < at
        BY <4>1, <4>2
      <4>4. QED
        BY <3>1, <4>3 DEF Checked
    <3>4. phase \in Morning
      BY <3>1 DEF Morning
    <3>5. ASSUME NEW s \in Symbols, c.shares[s] # 0
          PROVE  /\ KnownDates(t, s, today) # {} /\ s \in c.watched
                 /\ Checked(s)' => Lately(t, s)
      <4>1. CASE s = at
        <5>1. b.shares[at] # 0 => at \in b.watched /\ KnownDates(t, at, today) # {}
          BY <2>1, <3>4 DEF Carries
        <5>2. b.shares[at] # 0 /\ Lately(t, at)
          BY <2>1, <3>1, <3>5, <4>1, <5>1, CashedOutUnlessLately
        <5>3. QED
          BY <3>2, <4>1, <5>1, <5>2 DEF TurnOf
      <4>2. CASE s # at
        <5>1. b.shares[s] # 0 /\ c.watched = b.watched
          BY <3>2, <3>5, <4>2 DEF TurnOf
        <5>2. QED
          BY <2>1, <3>3, <3>4, <4>2, <5>1 DEF Carries
      <4>3. QED
        BY <4>1, <4>2
    <3>6. QED
      BY <2>3, <3>1, <3>2, <3>5 DEF TurnOf
  <2>7. CASE Open
    <3>1. Alike(b, c) /\ today' = today /\ phase' = "execute" /\ phase = "open"
      BY <2>1, <2>7, AlikeAfter DEF Open
    <3>2. QED
      BY <2>4, <3>1 DEF Alike, Morning, Checked
  <2>8. CASE Execute
    <3>1. /\ c = Executed(t, b, at) /\ today' = today
          /\ phase = "execute" /\ phase' \in {"execute", "close"}
      BY <2>8 DEF Execute, Onwards
    <3>2. TurnOf(b, c, at)
      BY <2>1, <3>1, TurnsOfLoops
    <3>3. phase \in Morning /\ \A s : Checked(s)
      BY <3>1 DEF Morning, Checked
    <3>4. ASSUME NEW s \in Symbols, c.shares[s] # 0
          PROVE  KnownDates(t, s, today) # {} /\ s \in c.watched /\ Lately(t, s)
      <4>1. CASE s = at /\ c # b
        BY <2>1, <3>1, <3>2, <4>1, TradedTrades DEF TurnOf
      <4>2. CASE ~(s = at /\ c # b)
        <5>1. b.shares[s] # 0 /\ c.watched = b.watched
          BY <3>2, <3>4, <4>2 DEF TurnOf
        <5>2. QED
          BY <2>1, <3>3, <5>1 DEF Carries
      <4>3. QED
        BY <4>1, <4>2
    <3>5. QED
      BY <2>3, <3>1, <3>2, <3>4 DEF TurnOf
  <2>9. CASE Close
    <3>1. Alike(b, c) /\ today' = today /\ phase' = "decide" /\ phase = "close"
      BY <2>1, <2>9, AlikeAfter DEF Close
    <3>2. QED
      BY <2>4, <3>1 DEF Alike, Morning, Checked
  <2>10. CASE Decide
    <3>1. Alike(b, c) /\ phase = "decide"
      BY <2>1, <2>10, AlikeAfter DEF Decide
    <3>2. CASE today' = today + 1 /\ phase' = "dawn"
      <4>1. ASSUME NEW s \in Symbols PROVE Carries(bars[w], book[w], s)'
        <5>1. ~Checked(s)' /\ phase' \notin Morning
          BY <3>2 DEF Checked, Morning
        <5>2. c.shares[s] # 0 => KnownDates(t, s, today) # {}
          BY <2>1, <3>1 DEF Alike, Carries
        <5>3. c.shares[s] # 0 => KnownDates(t, s, today + 1) # {}
          BY <2>1, <5>2, KnownTomorrow
        <5>4. c.shares[s] # 0 => KnownDates(t, s, today') # {}
          BY <3>2, <5>3
        <5>5. QED
          BY <2>2, <5>1, <5>4 DEF Carries, KnownDates
      <4>2. QED
        BY <3>1, <4>1 DEF Alike
    <3>3. CASE today' = today /\ phase' = "end"
      BY <2>4, <3>1, <3>3 DEF Alike, Morning, Checked
    <3>4. QED
      BY <2>10, <3>2, <3>3 DEF Decide
  <2>11. QED
    BY <1>2, <2>5, <2>6, <2>7, <2>8, <2>9, <2>10 DEF Next
<1>3. QED
  BY <1>1, <1>2

\* The equity of no day counts a holding that has stopped trading for stale_days
\* (backtest.py:152-166), in the universe or out of it.
THEOREM NothingDeadIsCarried == Spec => []NothingCarried
<1>1. RunInv /\ CarriedInv => NothingCarried
  BY DEF CarriedInv, NothingCarried, Carries, Checked, Lately, Held
<1>2. Init => RunInv /\ CarriedInv
  BY RunInvInit, CarriedInit
<1>3. RunInv /\ CarriedInv /\ [Next]_vars => (RunInv /\ CarriedInv)'
  BY RunInvNext, CarriedNext
<1>4. QED
  BY <1>1, <1>2, <1>3, PTL DEF Spec

-----------------------------------------------------------------------------
(* What is spent is there.  The spread is a part of the price it is paid   *)
(* on, so no sale is below nothing.                                        *)

\* A commission is at most what is traded, and smaller for less.
LEMMA CommissionIsPart ==
  ASSUME NEW count \in Nat, NEW fill \in Nat
  PROVE  Commission(count, fill) \in Nat /\ Commission(count, fill) <= count * fill
<1> DEFINE value == count * fill
           part == value \div ValueDivisor
           asked == PerShare * count
<1>1. value \in Nat /\ asked \in Nat /\ MinPerOrder \in Nat
  BY CostConstants
<1>2. Commission(count, fill) = Smaller(Larger(asked, MinPerOrder), part)
  BY DEF Commission
<1> HIDE DEF value, asked
<1>3. part \in Nat /\ part <= value
  BY <1>1, CostConstants, Quotient
<1> HIDE DEF part
<1>4. Commission(count, fill) \in Nat /\ Commission(count, fill) <= value
  BY <1>1, <1>2, <1>3 DEF Smaller, Larger
<1>5. QED
  BY <1>4 DEF value

LEMMA CommissionGrows ==
  ASSUME NEW less \in Nat, NEW count \in Nat, less <= count, NEW fill \in Nat
  PROVE  Commission(less, fill) <= Commission(count, fill)
<1> DEFINE v(n) == n * fill
           p(n) == v(n) \div ValueDivisor
           a(n) == PerShare * n
<1>1. /\ v(less) \in Nat /\ v(count) \in Nat /\ v(less) <= v(count)
      /\ a(less) \in Nat /\ a(count) \in Nat /\ a(less) <= a(count) /\ MinPerOrder \in Nat
  BY CostConstants, ProductsCompare
<1>2. \A n : Commission(n, fill) = Smaller(Larger(a(n), MinPerOrder), p(n))
  BY DEF Commission
<1> HIDE DEF v, a
<1>3. p(less) \in Nat /\ p(count) \in Nat /\ p(less) <= p(count)
  BY <1>1, CostConstants, Quotient, QuotientsCompare
<1> HIDE DEF p
<1>4. QED
  BY <1>1, <1>2, <1>3 DEF Smaller, Larger

\* What is bought when not all can be is paid for, its commission included.
LEMMA AffordableIsFunded ==
  ASSUME NEW cash \in Nat, NEW count \in Nat, NEW fill \in Nat \ {0},
         count * fill + Commission(count, fill) > cash
  PROVE  LET trade == Larger(0, (cash - Commission(count, fill)) \div fill)
         IN  trade \in Nat /\ trade * fill + Commission(trade, fill) <= cash
<1> DEFINE fee == Commission(count, fill)
           rest == cash - fee
           trade == Larger(0, rest \div fill)
           spent == trade * fill
           last == Commission(trade, fill)
<1>1. fee \in Nat /\ rest \in Int /\ count * fill \in Nat
  BY CommissionIsPart
<1>2. CASE rest < 0
  <2>1. trade = 0
    <3> HIDE DEF rest
    <3>1. rest \div fill \in Int /\ rest \div fill <= 0
      BY <1>1, <1>2
    <3>2. QED
      BY <3>1 DEF Larger
  <2>2. spent = 0 /\ last \in Nat /\ last <= 0
    BY <2>1, CommissionIsPart
  <2>3. QED
    BY <2>1, <2>2
<1>3. CASE rest >= 0
  <2>1. rest \in Nat
    BY <1>1, <1>3
  <2>2. rest \div fill \in Nat /\ fill * (rest \div fill) <= rest
    <3> HIDE DEF rest
    <3>1. QED
      BY <2>1, Quotient
  <2>3. trade = rest \div fill
    <3> HIDE DEF rest
    <3>1. QED
      BY <2>2 DEF Larger
  <2>4. trade \in Nat /\ fill * trade <= rest
    BY <2>2, <2>3
  <2> HIDE DEF trade
  <2>5. spent \in Nat /\ spent <= rest /\ last \in Nat
    <3>1. last \in Nat
      BY <2>4, CommissionIsPart
    <3>2. spent = fill * trade /\ spent \in Nat
      BY <2>4
    <3>3. QED
      BY <2>4, <3>1, <3>2
  <2>6. trade <= count
    <3>1. count <= trade => fill * count <= fill * trade
      BY <2>4, ProductsCompare
    <3>2. fill * count \in Nat /\ fill * count = count * fill
      OBVIOUS
    <3>3. fill * count + fee > cash
      BY <3>2
    <3> HIDE DEF fee
    <3>4. ~ (fill * count <= rest)
      BY <1>1, <3>2, <3>3
    <3>5. fill * trade \in Nat
      BY <2>4
    <3>6. QED
      BY <1>1, <2>4, <3>1, <3>2, <3>4, <3>5
  <2>7. last <= fee
    BY <2>4, <2>6, CommissionGrows
  <2> HIDE DEF spent, last, fee
  <2>8. spent + last <= cash
    BY <1>1, <2>5, <2>7
  <2>9. QED
    BY <2>4, <2>8 DEF spent, last, fee, trade
<1>4. QED
  BY <1>1, <1>2, <1>3

\* A book that owes nothing.
Funded(b) ==
  /\ {"cash", "shares", "atOpen", "pending"} \subseteq DOMAIN b
  /\ b.cash \in Nat /\ b.shares \in [Symbols -> Nat] /\ b.atOpen \in Nat
  /\ b.pending # Hold => \A s \in DOMAIN b.pending : b.pending[s] \in Nat

LEMMA FundedAfter ==
  ASSUME NEW b, Funded(b), NEW s \in Symbols, NEW x \in Nat, NEW y \in Nat
  PROVE  Funded(Having(b, s, x, y))
<1>1. LET c == Having(b, s, x, y)
      IN  /\ DOMAIN c = DOMAIN b /\ c.cash = x /\ c.shares = [b.shares EXCEPT ![s] = y]
          /\ c.atOpen = b.atOpen /\ c.pending = b.pending
  BY Zenon DEF Funded, Having
<1>2. [b.shares EXCEPT ![s] = y] \in [Symbols -> Nat]
  BY DEF Funded
<1>3. QED
  BY <1>1, <1>2 DEF Funded

\* Sales.
LEMMA SoldIsFunded ==
  ASSUME NEW b, Funded(b), NEW s \in Symbols, NEW count \in Nat, NEW fill \in Nat,
         count <= b.shares[s]
  PROVE  Funded(Sold(b, s, count, fill))
<1> DEFINE value == count * fill
           fee == Commission(count, fill)
<1>1. fee \in Nat /\ fee <= value /\ value \in Nat
  <2>1. value \in Nat
    OBVIOUS
  <2>2. QED
    BY <2>1, CommissionIsPart
<1>2. b.cash \in Nat /\ b.shares[s] \in Nat
  BY DEF Funded
<1>3. Sold(b, s, count, fill) = Having(b, s, b.cash + (value - fee), b.shares[s] - count)
  BY Zenon DEF Sold, Funded, Having
<1> HIDE DEF value, fee
<1> DEFINE cash == b.cash + (value - fee)
           left == b.shares[s] - count
<1>4. cash \in Nat /\ left \in Nat
  BY <1>1, <1>2
<1> HIDE DEF cash, left
<1>5. Sold(b, s, count, fill) = Having(b, s, cash, left)
  BY <1>3 DEF cash, left
<1>6. QED
  BY <1>4, <1>5, FundedAfter

\* Purchases.
LEMMA BoughtIsFunded ==
  ASSUME NEW b, Funded(b), NEW s \in Symbols, NEW count \in Nat, NEW fill \in Nat \ {0}
  PROVE  Funded(Bought(b, s, count, fill))
<1> DEFINE fee == Commission(count, fill)
           affordable == Larger(0, (b.cash - fee) \div fill)
           trade == IF count * fill + fee > b.cash THEN affordable ELSE count
           cost == trade * fill + Commission(trade, fill)
<1>1. b.cash \in Nat /\ b.shares[s] \in Nat
  BY DEF Funded
<1>2. trade \in Nat /\ cost \in Nat /\ cost <= b.cash
  <2>1. fee \in Nat /\ count * fill \in Nat
    BY CommissionIsPart
  <2>2. CASE count * fill + fee > b.cash
    <3>1. trade = affordable
      BY <2>2
    <3>2. affordable \in Nat /\ affordable * fill + Commission(affordable, fill) <= b.cash
      BY <1>1, <2>2, AffordableIsFunded
    <3>3. cost = affordable * fill + Commission(affordable, fill)
      BY <3>1
    <3> HIDE DEF affordable, trade, cost
    <3>4. affordable * fill \in Nat /\ Commission(affordable, fill) \in Nat
      BY <3>2, CommissionIsPart
    <3>5. QED
      BY <3>1, <3>2, <3>3, <3>4
  <2>3. CASE ~(count * fill + fee > b.cash)
    <3>1. trade = count /\ cost = count * fill + fee
      BY <2>3
    <3> HIDE DEF fee, trade, cost
    <3>2. QED
      BY <1>1, <2>1, <2>3, <3>1
  <2>4. QED
    BY <2>2, <2>3
<1>3. \/ Bought(b, s, count, fill) = b
      \/ Bought(b, s, count, fill) = Having(b, s, b.cash - cost, b.shares[s] + trade)
  BY Zenon DEF Bought, Funded, Having
<1> HIDE DEF trade, cost
<1> DEFINE cash == b.cash - cost
           all == b.shares[s] + trade
<1>4. cash \in Nat /\ all \in Nat
  BY <1>1, <1>2
<1> HIDE DEF cash, all
<1>5. Bought(b, s, count, fill) = b \/ Bought(b, s, count, fill) = Having(b, s, cash, all)
  BY <1>3 DEF cash, all
<1>6. QED
  BY <1>4, <1>5, FundedAfter
\* What a symbol traded at last: a bar, and so is today's if it trades.
LEMMA LastIsABar ==
  ASSUME RunInv, NEW w \in Worlds, NEW b, NEW s \in Symbols, s \in DOMAIN Latest(bars[w], b)
  PROVE  Latest(bars[w], b)[s].bar \in Bar
<1> DEFINE t == bars[w]
           newest == Newest(Entries(t, s, today))
<1>1. Dated(t) /\ today \in Nat /\ KnownDates(t, s, today) # {}
  BY TablesAreDated, LatestAt DEF RunInv
<1>2. newest \in Entries(t, s, today)
  BY <1>1, NewestIsOne
<1>3. PICK d \in KnownDates(t, s, today) : newest = [date |-> d, bar |-> t[s][d]]
  BY <1>2 DEF Entries
<1>4. t[s][d] \in Bar
  BY <1>3, BacktestConstants DEF KnownDates, RunInv, Symbols
<1>5. Latest(t, b)[s] = newest
  BY LatestAt
<1>6. QED
  BY <1>3, <1>4, <1>5

LEMMA OpensAreOpens ==
  ASSUME RunInv, NEW w \in Worlds, NEW b, NEW s \in Symbols
  PROVE  LET px == OpenOf(bars[w], b, s)
         IN  px \in Nat /\ (px = 0 \/ px >= HalfSpread)
<1> DEFINE bar == Latest(bars[w], b)[s].bar
<1>1. \/ OpenOf(bars[w], b, s) = 0
      \/ s \in DOMAIN Latest(bars[w], b) /\ OpenOf(bars[w], b, s) = bar.open
  BY DEF OpenOf
<1>2. s \in DOMAIN Latest(bars[w], b) => bar \in Bar
  BY LastIsABar
<1> HIDE DEF bar
<1>3. QED
  BY <1>1, <1>2, BacktestConstants, SpreadIsPart

\* What some shares are worth.
LEMMA WorthIsNat ==
  ASSUME NEW b, Funded(b), NEW price, \A s \in Symbols : price[s] \in Nat
  PROVE  ValueOf(b.shares, price) \in Nat
<1> DEFINE w == [s \in Symbols |-> b.shares[s] * price[s]]
<1>1. IsFiniteSet(Symbols)
  <2>1. 1 \in Int /\ NumSymbols \in Int
    BY BacktestConstants
  <2>2. QED
    BY <2>1, FS_Interval DEF Symbols
<1>2. \A s \in Symbols : w[s] \in Nat
  BY DEF Funded
<1>3. DOMAIN b.shares = Symbols
  BY DEF Funded
<1>4. ValueOf(b.shares, price) = SumOf(w, Symbols)
  <2>1. ValueOf(b.shares, price) = Products(b.shares, price, Symbols)
    BY <1>3 DEF ValueOf, Products
  <2>2. QED
    BY <1>1, <2>1, ProductsAreSum
<1> HIDE DEF w
<1>5. QED
  BY <1>1, <1>2, <1>4, SumIsNat

LEMMA TradedIsFunded ==
  ASSUME NEW b, Funded(b), b.pending # Hold, NEW s \in Symbols,
         NEW px \in Nat \ {0}, px >= HalfSpread
  PROVE  Funded(Traded(b, s, px))
<1> DEFINE target == IF s \in DOMAIN b.pending THEN b.pending[s] ELSE 0
           sized == (target * b.atOpen) \div (100 * px)
           delta == sized - b.shares[s]
<1>1. sized \in Nat
  <2>1. target \in Nat /\ b.atOpen \in Nat
    BY DEF Funded
  <2> DEFINE a == target * b.atOpen
             d == 100 * px
  <2>2. a \in Nat
    <3> HIDE DEF target
    <3>1. QED
      BY <2>1
  <2>3. d \in Nat \ {0}
    OBVIOUS
  <2> HIDE DEF a, d
  <2>4. a \div d \in Nat
    BY <2>2, <2>3, Quotient
  <2>5. QED
    BY <2>4 DEF a, d
<1>2. b.shares[s] \in Nat
  BY DEF Funded
<1>3. \/ Traded(b, s, px) = b
      \/ delta > 0 /\ Traded(b, s, px) = Bought(b, s, delta, px + HalfSpread)
      \/ ~(delta > 0) /\ Traded(b, s, px) = Sold(b, s, -delta, px - HalfSpread)
  BY Zenon DEF Traded
<1> HIDE DEF sized
<1>4. /\ delta > 0 => delta \in Nat
      /\ ~(delta > 0) => -delta \in Nat /\ -delta <= b.shares[s]
  BY <1>1, <1>2
<1>5. px + HalfSpread \in Nat \ {0} /\ px - HalfSpread \in Nat
  BY CostConstants
<1> HIDE DEF delta
<1>6. QED
  BY <1>3, <1>4, <1>5, SoldIsFunded, BoughtIsFunded

LEMMA ExecutedIsFunded ==
  ASSUME RunInv, NEW w \in Worlds, NEW b, Funded(b), NEW s \in Symbols
  PROVE  Funded(Executed(bars[w], b, s))
<1> DEFINE px == OpenOf(bars[w], b, s)
<1>1. px \in Nat /\ (px = 0 \/ px >= HalfSpread)
  BY OpensAreOpens
<1>2. \/ Executed(bars[w], b, s) = b
      \/ b.pending # Hold /\ px # 0 /\ Executed(bars[w], b, s) = Traded(b, s, px)
  BY DEF Executed
<1> HIDE DEF px
<1>3. QED
  BY <1>1, <1>2, TradedIsFunded

LEMMA CashedOutIsFunded ==
  ASSUME RunInv, NEW w \in Worlds, NEW b, Funded(b), NEW s \in Symbols
  PROVE  Funded(CashedOut(bars[w], b, s))
<1> DEFINE last == Latest(bars[w], b)[s].bar.close
           held == b.shares[s]
           value == held * last
           fee == Commission(held, last)
           cash == b.cash + (value - fee)
<1>1. CASE ~StoppedTrading(bars[w], b, s)
  BY <1>1 DEF CashedOut
<1>2. CASE StoppedTrading(bars[w], b, s)
  <2>1. CashedOut(bars[w], b, s) = Having(b, s, cash, 0)
    BY <1>2, Zenon DEF CashedOut, Having, Funded
  <2>2. last \in Nat
    BY <1>2, LastIsABar, BacktestConstants DEF StoppedTrading
  <2> HIDE DEF last
  <2>3. held \in Nat /\ b.cash \in Nat
    BY DEF Funded
  <2> HIDE DEF held
  <2>4. value \in Nat /\ fee \in Nat /\ fee <= value
    <3>1. value \in Nat
      BY <2>2, <2>3
    <3>2. fee \in Nat /\ fee <= value
      BY <2>2, <2>3, CommissionIsPart
    <3>3. QED
      BY <3>1, <3>2
  <2> HIDE DEF value, fee
  <2>5. cash \in Nat
    BY <2>3, <2>4
  <2> HIDE DEF cash
  <2>6. QED
    BY <2>1, <2>5, FundedAfter
<1>3. QED
  BY <1>1, <1>2

LEMMA OpenedIsFunded ==
  ASSUME RunInv, NEW w \in Worlds, NEW b, Funded(b)
  PROVE  Funded(Opened(bars[w], b))
<1> DEFINE price == [s \in Symbols |-> OpenOf(bars[w], b, s)]
           worth == b.cash + ValueOf(b.shares, price)
           part == worth * (100 - CashBuffer)
           budget == part \div 100
<1>1. \A s \in Symbols : price[s] \in Nat
  BY OpensAreOpens
<1> HIDE DEF price
<1>2. worth \in Nat
  <2>1. ValueOf(b.shares, price) \in Nat
    BY <1>1, WorthIsNat
  <2>2. b.cash \in Nat
    BY DEF Funded
  <2>3. QED
    BY <2>1, <2>2
<1> HIDE DEF worth
<1>3. part \in Nat
  <2>1. 100 - CashBuffer \in Nat
    BY BacktestConstants
  <2>2. QED
    BY <1>2, <2>1
<1> HIDE DEF part
<1>4. budget \in Nat
  BY <1>3, Quotient
<1>5. Opened(bars[w], b) = [b EXCEPT !.atOpen = budget]
  BY DEF Opened, budget, part, worth, price
<1> HIDE DEF budget
<1>6. LET c == [b EXCEPT !.atOpen = budget]
      IN  /\ DOMAIN c = DOMAIN b /\ c.cash = b.cash /\ c.shares = b.shares
          /\ c.atOpen = budget /\ c.pending = b.pending
  BY Zenon DEF Funded
<1>7. QED
  BY <1>4, <1>5, <1>6 DEF Funded

LEMMA MarkedIsFunded ==
  ASSUME NEW t, NEW b, Funded(b)
  PROVE  Funded(Marked(t, b))
<1>1. ASSUME NEW x, NEW y, NEW z
      PROVE  LET c == [b EXCEPT !.equity = x, !.peak = y, !.pending = Hold, !.previous = z]
             IN  /\ DOMAIN c = DOMAIN b /\ c.cash = b.cash /\ c.shares = b.shares
                 /\ c.atOpen = b.atOpen /\ c.pending = Hold
  BY Zenon DEF Funded
<1>2. \A x, y, z : Funded([b EXCEPT !.equity = x, !.peak = y, !.pending = Hold, !.previous = z])
  BY <1>1 DEF Funded
<1>3. QED
  BY <1>2 DEF Marked

\* The weights a day wants, of symbols.
LEMMA ScoredAreMembers ==
  ASSUME mode \in Modes, NEW t
  PROVE  LET universe == UniverseAsOf(Membership, today)
         IN  DOMAIN CombineScores([n \in mode.signals |-> Score(n, t, universe, today)]) = universe
<1> DEFINE universe == UniverseAsOf(Membership, today)
           by == [n \in mode.signals |-> Score(n, t, universe, today)]
<1>1. \A n : DOMAIN Score(n, t, universe, today) = universe
  BY DEF Score, MomentumOf, ReversalOf, BarsAsOf
<1>2. DOMAIN by = mode.signals /\ mode.signals # {}
  BY BacktestConstants
<1>3. \A n \in DOMAIN by : DOMAIN by[n] = universe
  BY <1>1
<1> HIDE DEF by, universe
<1>4. by[CHOOSE n \in DOMAIN by : TRUE] = CombineScores(by) \/ Combine(by) = CombineScores(by)
  BY DEF CombineScores
<1>5. (CHOOSE n \in DOMAIN by : TRUE) \in DOMAIN by
  BY <1>2
<1>6. DOMAIN Combine(by) = UNION {DOMAIN by[name] : name \in DOMAIN by}
  BY Zenon DEF Combine
<1>7. UNION {DOMAIN by[name] : name \in DOMAIN by} = universe
  BY <1>2, <1>3
<1>8. DOMAIN CombineScores(by) = universe
  BY <1>3, <1>4, <1>5, <1>6, <1>7
<1>9. QED
  BY <1>8 DEF by, universe

LEMMA TargetsAreWeights ==
  ASSUME mode \in Modes, NEW t
  PROVE  /\ DOMAIN Targets(t) \in SUBSET Symbols
         /\ Targets(t) \in [DOMAIN Targets(t) -> Nat]
<1> DEFINE scores == CombineScores([n \in mode.signals |->
                                     Score(n, t, UniverseAsOf(Membership, today), today)])
           chosen == Chosen(scores, TopN)
<1>1. DOMAIN scores \subseteq Symbols
  BY ScoredAreMembers, MembersAreSymbols
<1>2. Targets(t) = [s \in chosen |-> 100 \div Cardinality(chosen)]
  BY DEF Targets, EqualWeightTopN
<1> HIDE DEF scores
<1>3. chosen \subseteq Symbols
  BY <1>1 DEF Chosen, Eligible, Voted
<1> HIDE DEF chosen
<1>4. IsFiniteSet(Symbols)
  <2>1. 1 \in Int /\ NumSymbols \in Int
    BY BacktestConstants
  <2>2. QED
    BY <2>1, FS_Interval DEF Symbols
<1>5. ASSUME NEW s \in chosen PROVE 100 \div Cardinality(chosen) \in Nat
  <2>1. IsFiniteSet(chosen) /\ chosen # {}
    BY <1>3, <1>4, FS_Subset
  <2>2. Cardinality(chosen) \in Nat \ {0}
    BY <2>1, FS_CardinalityType, FS_EmptySet
  <2>3. QED
    BY <2>2, Quotient
<1>6. QED
  BY <1>2, <1>3, <1>5

LEMMA DecidedIsFunded ==
  ASSUME mode \in Modes, NEW t, NEW b, Funded(b)
  PROVE  Funded(Decided(t, b))
<1> DEFINE Fits(p) == p # Hold => \A s \in DOMAIN p : p[s] \in Nat
<1>1. Fits(Targets(t))
  BY TargetsAreWeights
<1>2. Fits(NoTargets) /\ Fits(Hold)
  BY DEF NoTargets
<1>3. \A riskOn : Fits(Judged(t, b, riskOn).targets)
  <2> DEFINE D == DOMAIN Targets(t)
  <2>1. /\ D \in SUBSET Symbols /\ Targets(t) \in [D -> Nat]
    BY TargetsAreWeights
  <2> HIDE DEF D
  <2>2. D \in SUBSET Nat /\ IsFiniteSet(D) /\ Targets(t) \in [D -> Int]
    <3>1. 1 \in Int /\ NumSymbols \in Int /\ Symbols \subseteq Nat
      BY BacktestConstants DEF Symbols
    <3>2. IsFiniteSet(Symbols)
      BY <3>1, FS_Interval DEF Symbols
    <3>3. IsFiniteSet(D)
      BY <2>1, <3>2, FS_Subset
    <3>4. QED
      BY <2>1, <3>1, <3>3
  <2>3. \A state : LET p == Evaluate(Targets(t), state).targets IN p \in [DOMAIN p -> Nat]
    BY <2>2, GateReduces
  <2>4. \A riskOn : \E state : Judged(t, b, riskOn) = Evaluate(Targets(t), state)
    BY DEF Judged
  <2>5. QED
    BY <2>3, <2>4
<1>4. Fits(Decision(t, b))
  <2> HIDE DEF Fits
  <2>1. QED
    BY <1>1, <1>2, <1>3 DEF Decision
<1> DEFINE decision == Decision(t, b)
<1>5. Decided(t, b) \in {b, [b EXCEPT !.pending = decision]}
  BY DEF Decided
<1> HIDE DEF decision
<1>6. LET c == [b EXCEPT !.pending = decision]
      IN  /\ DOMAIN c = DOMAIN b /\ c.cash = b.cash /\ c.shares = b.shares
          /\ c.atOpen = b.atOpen /\ c.pending = decision
  BY Zenon DEF Funded
<1>7. Funded([b EXCEPT !.pending = decision])
  BY <1>4, <1>6 DEF Funded, decision
<1>8. QED
  BY <1>5, <1>7

-----------------------------------------------------------------------------

FundedInv == mode \in Modes /\ \A w \in Worlds : Funded(book[w])

LEMMA FundedInit == Init => FundedInv
<1>1. Funded(NewBook)
  BY BacktestConstants DEF Funded, NewBook
<1>2. QED
  BY <1>1 DEF Init, FundedInv

LEMMA FundedNext == RunInv /\ FundedInv /\ [Next]_vars => FundedInv'
<1> SUFFICES ASSUME RunInv, FundedInv, [Next]_vars PROVE FundedInv'
  OBVIOUS
<1>1. mode' = mode
  BY DEF Next, vars, Dawn, CashOut, Open, Execute, Close, Decide
<1>2. mode \in Modes /\ at \in Symbols
  BY DEF FundedInv, RunInv
<1>3. ASSUME NEW w \in Worlds PROVE Funded(book'[w])
  <2> DEFINE b == book[w]
             t == bars[w]
  <2>1. Funded(b)
    BY DEF FundedInv
  <2>2. CASE UNCHANGED vars
    BY <2>1, <2>2 DEF vars
  <2>3. CASE Dawn
    <3>1. \A x : LET c == [b EXCEPT !.watched = x]
                 IN  /\ DOMAIN c = DOMAIN b /\ c.cash = b.cash /\ c.shares = b.shares
                     /\ c.atOpen = b.atOpen /\ c.pending = b.pending
      BY <2>1, Zenon DEF Funded
    <3>2. \A x : Funded([b EXCEPT !.watched = x])
      BY <2>1, <3>1 DEF Funded
    <3>3. QED
      BY <2>3, <3>2 DEF Dawn, Watched
  <2>4. CASE CashOut
    BY <1>2, <2>1, <2>4, CashedOutIsFunded DEF CashOut
  <2>5. CASE Open
    BY <2>1, <2>5, OpenedIsFunded DEF Open
  <2>6. CASE Execute
    BY <1>2, <2>1, <2>6, ExecutedIsFunded DEF Execute
  <2>7. CASE Close
    BY <2>1, <2>7, MarkedIsFunded DEF Close
  <2>8. CASE Decide
    BY <1>2, <2>1, <2>8, DecidedIsFunded DEF Decide
  <2>9. QED
    BY <2>2, <2>3, <2>4, <2>5, <2>6, <2>7, <2>8 DEF Next
<1>4. QED
  BY <1>1, <1>2, <1>3 DEF FundedInv, Funded, Symbols

\* No decision, no gap in trading and no fee lets a run spend what it does not
\* have or sell what it does not hold (backtest.py:195-204), when the half spread
\* is at most the price it is taken from, as half_spread is a part of it.
THEOREM RunsAreFunded == Spec => []NeverOverdrawn
<1>1. FundedInv => NeverOverdrawn
  BY DEF FundedInv, Funded, NeverOverdrawn
<1>2. Init => RunInv /\ FundedInv
  BY RunInvInit, FundedInit
<1>3. RunInv /\ FundedInv /\ [Next]_vars => (RunInv /\ FundedInv)'
  BY RunInvNext, FundedNext
<1>4. QED
  BY <1>1, <1>2, <1>3, PTL DEF Spec

-----------------------------------------------------------------------------
(* What a day trades was decided.                                          *)

\* Without a target a symbol is at most sold.
LEMMA ExitOnlySells ==
  ASSUME RunInv, NEW w \in Worlds, NEW b, Funded(b), NEW s \in Symbols, b.pending = NoTargets
  PROVE  \A r \in Symbols : Executed(bars[w], b, s).shares[r] <= b.shares[r]
<1> DEFINE px == OpenOf(bars[w], b, s)
           count == -(0 - b.shares[s])
<1>1. px \in Nat /\ (px = 0 \/ px >= HalfSpread)
  BY OpensAreOpens
<1>2. \/ Executed(bars[w], b, s) = b
      \/ px # 0 /\ Executed(bars[w], b, s) = Traded(b, s, px)
  BY DEF Executed
<1>3. b.shares \in [Symbols -> Nat] /\ b.atOpen \in Nat
  BY DEF Funded
<1> HIDE DEF px
<1>4. ASSUME px # 0
      PROVE  Traded(b, s, px) = b \/ Traded(b, s, px) = Sold(b, s, count, px - HalfSpread)
  <2> DEFINE target == IF s \in DOMAIN b.pending THEN b.pending[s] ELSE 0
             delta == (target * b.atOpen) \div (100 * px) - b.shares[s]
  <2>1. \/ Traded(b, s, px) = b
        \/ delta > 0
        \/ Traded(b, s, px) = Sold(b, s, -delta, px - HalfSpread)
    BY Zenon DEF Traded
  <2>2. target = 0
    BY DEF NoTargets
  <2>3. (target * b.atOpen) \div (100 * px) = 0
    <3>1. target * b.atOpen = 0
      BY <1>3, <2>2
    <3>2. 100 * px \in Nat \ {0}
      BY <1>1, <1>4
    <3> DEFINE d == 100 * px
    <3> HIDE DEF d, target
    <3>3. 0 \div d = 0
      BY <3>2, Quotient DEF d
    <3>4. QED
      BY <3>1, <3>3 DEF d
  <2>4. delta = 0 - b.shares[s]
    BY <2>3
  <2>5. ~(delta > 0)
    BY <1>3, <2>4
  <2> HIDE DEF delta
  <2>6. QED
    BY <2>1, <2>4, <2>5
<1>5. ASSUME NEW fill
      PROVE  \A r \in Symbols : Sold(b, s, count, fill).shares[r] <= b.shares[r]
  <2>1. \A x : [b EXCEPT !.cash = x, !.shares[s] = @ - count].shares
                 = [b.shares EXCEPT ![s] = @ - count]
    BY Zenon DEF Funded
  <2>2. Sold(b, s, count, fill).shares = [b.shares EXCEPT ![s] = @ - count]
    BY <2>1 DEF Sold
  <2>3. QED
    BY <1>3, <2>2
<1>6. \A r \in Symbols : b.shares[r] <= b.shares[r]
  BY <1>3
<1>7. QED
  BY <1>2, <1>4, <1>5, <1>6

\* What the open of a day trades was decided on the day before
\* (backtest.py:209, 237-244, 255-259): never what the gate blocked, and no
\* purchase where the regime filter found no market to be in.
THEOREM DaysTradeWhatWasDecided == Spec => TradesFollowDecisions
<1>1. Init => PendingInv
  <2>1. "pending" \in DOMAIN NewBook /\ NewBook.pending = Hold
    BY DEF NewBook
  <2>2. QED
    BY <2>1, BacktestConstants DEF Init, PendingInv
<1>2. RunInv /\ FundedInv /\ PendingInv /\ [Next]_vars =>
        [\A w \in Worlds :
           phase = "execute" /\ book'[w].shares # book[w].shares =>
             /\ today > FirstDay /\ (today - 1 - FirstDay) % RebalanceEvery = 0
             /\ ~blocked[w]
             /\ mode.regime /\ TrendFilter(bars[w], today - 1) # "on" =>
                  \A s \in Symbols : book'[w].shares[s] <= book[w].shares[s]]_vars
  <2> SUFFICES ASSUME RunInv, FundedInv, PendingInv, Next, NEW w \in Worlds,
                      phase = "execute", book'[w].shares # book[w].shares
               PROVE  /\ today > FirstDay /\ (today - 1 - FirstDay) % RebalanceEvery = 0
                      /\ ~blocked[w]
                      /\ Out(w) => \A s \in Symbols : book'[w].shares[s] <= book[w].shares[s]
    BY DEF Out
  <2>1. Execute
    BY DEF Next, Dawn, CashOut, Open, Close, Decide
  <2>2. book'[w] = Executed(bars[w], book[w], at)
    BY <2>1 DEF Execute
  <2>3. book[w].pending # Hold
    BY <2>2 DEF Executed
  <2>4. Funded(book[w]) /\ at \in Symbols
    BY DEF FundedInv, RunInv
  <2>5. MayTrade /\ ~blocked[w] /\ (Out(w) => book[w].pending = NoTargets)
    BY <2>3, Zenon DEF PendingInv
  <2>6. QED
    BY <2>2, <2>4, <2>5, ExitOnlySells DEF MayTrade
<1>3. Init => RunInv /\ FundedInv
  BY RunInvInit, FundedInit
<1>4. RunInv /\ FundedInv /\ [Next]_vars => (RunInv /\ FundedInv)'
  BY RunInvNext, FundedNext
<1>5. QED
  BY <1>1, <1>2, <1>3, <1>4, PendingNext, PTL DEF Spec, TradesFollowDecisions
=============================================================================
