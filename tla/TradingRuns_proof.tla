------------------------- MODULE TradingRuns_proof --------------------------
(***************************************************************************)
(* Proofs about unattended trading: the simulated broker, the process that *)
(* marks it to market, and the runs that trade with it.  Whatever runs     *)
(* overlap, raise or die, no account is overdrawn or short and the log can *)
(* be read; one run's file never lags; what the tracker reports is what    *)
(* the prices moved and nothing that is traded meanwhile; and one run at a *)
(* time starts trading only from the account the newest record describes,  *)
(* and trades a date once.  Where the buffer pays for the costs of orders, *)
(* no plan runs out of cash.  However many runs overlap and fail, the log  *)
(* only grows, a recorded date is never traded again by a scheduler that   *)
(* starts later, and every run that has begun comes closer to its end.     *)
(***************************************************************************)
EXTENDS TradingRuns, MarkToMarket, Planning_proof, SequenceTheorems

-----------------------------------------------------------------------------
(* The cost of one order.                                                  *)

Order == [symbol : Symbols, side : {"BUY", "SELL"}, shares : Nat]

\* A price, or no price, that the spread does not make negative.
Price == {ref \in Nat : ref = 0 \/ ref > HalfSpread}

LEMMA QuotientBounds ==
  ASSUME NEW a \in Nat, NEW d \in Nat \ {0}
  PROVE  a \div d \in 0..a
  OBVIOUS

LEMMA ProductNat == \A a, b \in Nat : a * b \in Nat
  OBVIOUS

\* An accepted order has a value, and a fee no greater than it.
LEMMA CostTypes ==
  ASSUME NEW account \in Account, NEW o \in Order, NEW ref \in Price,
         Accepts(account, o, ref)
  PROVE  /\ o.shares \in Nat \ {0} /\ o.symbol \in Symbols
         /\ ref \in Nat
         /\ Value(o, ref) \in Nat
         /\ Fee(o, ref) \in Nat
         /\ Fee(o, ref) <= Value(o, ref)
<1>1. /\ o.shares \in Nat \ {0} /\ o.symbol \in Symbols
      /\ ref \in Nat /\ ref > HalfSpread
  <2>1. o.symbol \in Symbols
    BY DEF Order
  <2>2. o.shares > 0 /\ ref > 0
    BY DEF Accepts
  <2>3. o.shares \in Nat
    BY DEF Order
  <2>4. ref \in Nat /\ (ref = 0 \/ ref > HalfSpread)
    BY DEF Price
  <2>5. ref # 0 /\ o.shares # 0
    BY <2>2, <2>3, <2>4
  <2>6. QED
    BY <2>1, <2>3, <2>4, <2>5
<1> DEFINE p == FillPrice(o.side, ref)
<1>2. p \in Nat
  BY <1>1, InitialCashIsNat, CostConstants DEF FillPrice
<1> HIDE DEF p
<1>3. o.shares * p \in Nat /\ PerShare * o.shares \in Nat
  BY <1>1, <1>2, ProductNat, InitialCashIsNat, CostConstants
<1>4. (o.shares * p) \div ValueDivisor \in 0..(o.shares * p)
  BY <1>3, QuotientBounds, InitialCashIsNat, CostConstants
<1>5. /\ Commission(o.shares, p) \in Nat
      /\ Commission(o.shares, p) <= o.shares * p
  BY <1>3, <1>4, InitialCashIsNat, CostConstants DEF Commission, Larger, Smaller
<1>6. QED
  BY <1>1, <1>3, <1>5 DEF Value, Fee, p

\* A fill keeps an account an account, long-only and funded.
LEMMA FillIsSound ==
  ASSUME NEW account \in Account, Sound(account),
         NEW o \in Order, NEW ref \in Price, Accepts(account, o, ref)
  PROVE  Filled(account, o, ref) \in Account /\ Sound(Filled(account, o, ref))
<1>1. /\ o.shares \in Nat \ {0} /\ o.symbol \in Symbols
      /\ Value(o, ref) \in Nat /\ Fee(o, ref) \in Nat /\ Fee(o, ref) <= Value(o, ref)
  BY CostTypes
<1>2. /\ account.cash \in Nat
      /\ account.shares \in [Symbols -> Int] /\ account.average \in [Symbols -> Int]
      /\ \A s \in Symbols : account.shares[s] \in Nat
  BY DEF Account, Sound
<1>3. CASE o.side = "BUY"
  <2>1. Value(o, ref) + Fee(o, ref) <= account.cash
    BY <1>3 DEF Accepts
  <2> DEFINE held == account.shares[o.symbol]
             total == held + o.shares
             average == (held * account.average[o.symbol] + Value(o, ref)) \div total
  <2>2. total \in Nat \ {0} /\ average \in Int
    <3>1. held \in Nat /\ account.average[o.symbol] \in Int
      BY <1>1, <1>2
    <3>2. held * account.average[o.symbol] + Value(o, ref) \in Int
      BY <3>1, <1>1
    <3>3. total \in Nat \ {0}
      BY <3>1, <1>1
    <3>4. QED
      BY <3>2, <3>3
  <2>3. Bought(account, o, ref) =
          [cash |-> account.cash - (Value(o, ref) + Fee(o, ref)),
           shares |-> [account.shares EXCEPT ![o.symbol] = total],
           average |-> [account.average EXCEPT ![o.symbol] = average]]
    BY DEF Bought
  <2>4. account.cash - (Value(o, ref) + Fee(o, ref)) \in Nat
    BY <1>1, <1>2, <2>1
  <2> HIDE DEF total, average
  <2>5. /\ [account.shares EXCEPT ![o.symbol] = total] \in [Symbols -> Nat]
        /\ [account.average EXCEPT ![o.symbol] = average] \in [Symbols -> Int]
    BY <1>1, <1>2, <2>2
  <2>6. QED
    BY <1>3, <2>3, <2>4, <2>5 DEF Filled, Account, Sound
<1>4. CASE o.side = "SELL"
  <2>1. o.shares <= account.shares[o.symbol]
    BY <1>4 DEF Accepts
  <2> DEFINE remaining == account.shares[o.symbol] - o.shares
             average == IF remaining = 0 THEN 0 ELSE account.average[o.symbol]
  <2>2. remaining \in Nat /\ average \in Int
    BY <1>1, <1>2, <2>1
  <2>3. Sold(account, o, ref) =
          [cash |-> account.cash + (Value(o, ref) - Fee(o, ref)),
           shares |-> [account.shares EXCEPT ![o.symbol] = remaining],
           average |-> [account.average EXCEPT ![o.symbol] = average]]
    BY DEF Sold
  <2>4. account.cash + (Value(o, ref) - Fee(o, ref)) \in Nat
    BY <1>1, <1>2
  <2> HIDE DEF remaining, average
  <2>5. /\ [account.shares EXCEPT ![o.symbol] = remaining] \in [Symbols -> Nat]
        /\ [account.average EXCEPT ![o.symbol] = average] \in [Symbols -> Int]
    BY <1>1, <1>2, <2>2
  <2>6. QED
    BY <1>4, <2>3, <2>4, <2>5 DEF Filled, Account, Sound
<1>5. QED
  BY <1>3, <1>4 DEF Order

LEMMA FlatIsSound == Flat \in Account /\ Sound(Flat)
  BY InitialCashIsNat, CostConstants DEF Flat, Account, Sound

LEMMA FileMarkers == Absent \notin Account /\ Torn \notin Account
  BY DEF Absent, Torn, Account

-----------------------------------------------------------------------------
(* Any runs at once.                                                       *)

LongOnlyInv == BrokerTypeOK /\ LongOnly

LEMMA LongOnlyInit == SessionInit => LongOnlyInv
  BY FlatIsSound
     DEF SessionInit, BrokerInit, LongOnlyInv, BrokerTypeOK, LongOnly, Saved

LEMMA LongOnlyStep ==
  ASSUME LongOnlyInv, [SessionNext]_sessionVars
  PROVE  LongOnlyInv'
<1>1. /\ disk \in Account \cup {Absent, Torn}
      /\ mem \in [Runs -> Account] /\ connected \in [Runs -> BOOLEAN]
      /\ \A r \in Runs : Sound(mem[r])
      /\ disk \notin {Absent, Torn} => disk \in Account /\ Sound(disk)
  BY DEF LongOnlyInv, BrokerTypeOK, LongOnly, Saved
<1>2. SUFFICES /\ disk' \in {Absent, Torn} \/ (disk' \in Account /\ Sound(disk'))
               /\ mem' \in [Runs -> Account] /\ connected' \in [Runs -> BOOLEAN]
               /\ \A r \in Runs : Sound(mem'[r])
  BY DEF LongOnlyInv, BrokerTypeOK, LongOnly, Saved, Sound
<1>3. ASSUME NEW r \in Runs, NEW o \in Orders, NEW ref \in Quotes,
             Accepts(mem[r], o, ref)
      PROVE  Filled(mem[r], o, ref) \in Account /\ Sound(Filled(mem[r], o, ref))
  <2>1. o \in Order /\ ref \in Price
    BY SessionConstants DEF Orders, Order, Price
  <2>2. QED
    BY <1>1, <1>3, <2>1, FillIsSound
<1>4. CASE SessionNext
  <2>1. PICK r \in Runs : \/ Begin(r) \/ Fill(r) \/ FillSaveFails(r) \/ Rejected(r)
                          \/ End(r)
    BY <1>4 DEF SessionNext
  <2>2. CASE Begin(r)
    BY <1>1, <2>2, FlatIsSound DEF Begin, Connect
  <2>3. CASE Fill(r)
    BY <1>1, <1>3, <2>3 DEF Fill, Place
  <2>4. CASE FillSaveFails(r)
    BY <1>1, <1>3, <2>4 DEF FillSaveFails, PlaceSaveFails
  <2>5. CASE Rejected(r)
    BY <1>1, <2>5 DEF Rejected, Reject, brokerVars
  <2>6. CASE Disconnect(r)
    BY <1>1, <2>6, FlatIsSound DEF Disconnect, Gone
  <2>7. CASE Die(r)
    BY <1>1, <2>7, FlatIsSound DEF Die, Gone
  <2>8. CASE DieSaving(r)
    BY <1>1, <2>8, FlatIsSound DEF DieSaving, Gone
  <2>9. QED
    BY <2>1, <2>2, <2>3, <2>4, <2>5, <2>6, <2>7, <2>8 DEF End
<1>5. CASE UNCHANGED sessionVars
  BY <1>1, <1>5 DEF sessionVars, brokerVars
<1>6. QED
  BY <1>4, <1>5

\* No run, no interleaving of runs and no failed save ever leaves an account
\* overdrawn or short, in memory or in the file.
THEOREM BrokerLongOnly == SessionSpec => []LongOnly
<1>1. LongOnlyInv /\ [SessionNext]_sessionVars => LongOnlyInv'
  BY LongOnlyStep
<1>2. LongOnlyInv => LongOnly
  BY DEF LongOnlyInv
<1>3. QED
  BY <1>1, <1>2, LongOnlyInit, PTL DEF SessionSpec

-----------------------------------------------------------------------------
(* One run at a time.                                                      *)

\* When no two processes run at once, every fill a connected run has made is
\* in the file, unless a save of that run raised.
THEOREM BrokerFileFollowsMemory ==
  ASSUME \A r, q \in Runs : r = q
  PROVE  SessionSpec => []FileFollowsMemory
<1>1. SessionInit => FileFollowsMemory
  BY DEF SessionInit, BrokerInit, FileFollowsMemory
<1>2. LongOnlyInv /\ FileFollowsMemory /\ [SessionNext]_sessionVars => FileFollowsMemory'
  <2>1. SUFFICES ASSUME LongOnlyInv, FileFollowsMemory, [SessionNext]_sessionVars
                 PROVE  FileFollowsMemory'
    OBVIOUS
  <2>2. mem \in [Runs -> Account] /\ connected \in [Runs -> BOOLEAN]
    BY <2>1 DEF LongOnlyInv, BrokerTypeOK
  <2>3. CASE SessionNext
    <3>1. PICK r \in Runs : \/ Begin(r) \/ Fill(r) \/ FillSaveFails(r) \/ Rejected(r)
                            \/ End(r)
      BY <2>3 DEF SessionNext
    <3>2. \A q \in Runs : q = r
      BY <3>1
    <3>3. CASE Begin(r)
      BY <2>2, <3>2, <3>3 DEF Begin, Connect, FileFollowsMemory
    <3>4. CASE Fill(r)
      BY <2>2, <3>2, <3>4 DEF Fill, Place, FileFollowsMemory
    <3>5. CASE FillSaveFails(r)
      BY <3>2, <3>5 DEF FillSaveFails, FileFollowsMemory
    <3>6. CASE Rejected(r)
      BY <2>1, <3>6 DEF Rejected, Reject, brokerVars, FileFollowsMemory
    <3>7. CASE End(r)
      <4>1. connected'[r] = FALSE
        BY <2>2, <3>7 DEF End, Disconnect, Die, DieSaving, Gone
      <4>2. QED
        BY <3>2, <4>1 DEF FileFollowsMemory
    <3>8. QED
      BY <3>1, <3>3, <3>4, <3>5, <3>6, <3>7
  <2>4. CASE UNCHANGED sessionVars
    BY <2>1, <2>4 DEF sessionVars, brokerVars, FileFollowsMemory
  <2>5. QED
    BY <2>1, <2>3, <2>4
<1>3. LongOnlyInv /\ [SessionNext]_sessionVars => LongOnlyInv'
  BY LongOnlyStep
<1>4. QED
  BY <1>1, <1>2, <1>3, LongOnlyInit, PTL DEF SessionSpec

-----------------------------------------------------------------------------
(* Fills cost.                                                             *)

LEMMA Distributes == \A a, b, n \in Int : (a + b) * n = a * n + b * n
  OBVIOUS

\* An accepted order leaves the account worth no more, at the price quoted.
LEMMA FillCosts ==
  ASSUME NEW account \in Account, Sound(account),
         NEW o \in Order, NEW ref \in Price, Accepts(account, o, ref)
  PROVE  Worth(Filled(account, o, ref), o.symbol, ref) <= Worth(account, o.symbol, ref)
<1> DEFINE n == o.shares
           held == account.shares[o.symbol]
<1>1. /\ n \in Nat \ {0} /\ o.symbol \in Symbols /\ ref \in Nat
      /\ Value(o, ref) \in Nat /\ Fee(o, ref) \in Nat
  BY CostTypes
<1>2. held \in Int /\ account.cash \in Int /\ account.shares \in [Symbols -> Int]
  BY <1>1 DEF Account
<1>3. n * HalfSpread \in Nat /\ n * ref \in Nat /\ held * ref \in Int
  <2>1. n \in Nat /\ HalfSpread \in Nat
    BY <1>1, CostConstants
  <2>2. QED
    BY <2>1, <1>1, <1>2, ProductNat
<1>4. CASE o.side = "BUY"
  <2>1. Value(o, ref) = n * ref + n * HalfSpread
    BY <1>1, <1>4, CostConstants DEF Value, FillPrice
  <2>2. /\ Filled(account, o, ref).cash = account.cash - (Value(o, ref) + Fee(o, ref))
        /\ Filled(account, o, ref).shares[o.symbol] = held + n
    BY <1>1, <1>2, <1>4 DEF Filled, Bought
  <2>3. (held + n) * ref = held * ref + n * ref
    BY <1>1, <1>2, Distributes
  <2> HIDE DEF n, held
  <2>4. account.cash - (Value(o, ref) + Fee(o, ref)) + (held + n) * ref
          <= account.cash + held * ref
    BY <1>1, <1>2, <1>3, <2>1, <2>3
  <2>5. QED
    BY <2>2, <2>4 DEF Worth, held
<1>5. CASE o.side = "SELL"
  <2>1. Value(o, ref) = n * ref - n * HalfSpread
    BY <1>1, <1>5, CostConstants DEF Value, FillPrice
  <2>2. /\ Filled(account, o, ref).cash = account.cash + (Value(o, ref) - Fee(o, ref))
        /\ Filled(account, o, ref).shares[o.symbol] = held - n
    BY <1>1, <1>2, <1>5 DEF Filled, Sold
  <2>3. (held - n) * ref = held * ref - n * ref
    BY <1>1, <1>2
  <2> HIDE DEF n, held
  <2>4. account.cash + (Value(o, ref) - Fee(o, ref)) + (held - n) * ref
          <= account.cash + held * ref
    BY <1>1, <1>2, <1>3, <2>1, <2>3
  <2>5. QED
    BY <2>2, <2>4 DEF Worth, held
<1>6. QED
  BY <1>4, <1>5 DEF Order

\* No fill of any size at any price leaves an account worth more at that price
\* than it was: the spread and the commission are never a gain.
THEOREM BrokerFillsNeverProfit == SessionSpec => FillsNeverProfit
<1>1. ASSUME LongOnlyInv, NEW r \in Runs, NEW o \in Orders, NEW ref \in Quotes, Place(r, o, ref)
      PROVE  Worth(mem'[r], o.symbol, ref) <= Worth(mem[r], o.symbol, ref)
  <2>1. mem \in [Runs -> Account] /\ Sound(mem[r])
    BY <1>1 DEF LongOnlyInv, BrokerTypeOK, LongOnly
  <2>2. o \in Order /\ ref \in Price
    BY SessionConstants DEF Orders, Order, Price
  <2>3. Accepts(mem[r], o, ref) /\ mem'[r] = Filled(mem[r], o, ref)
    BY <1>1, <2>1 DEF Place
  <2>4. QED
    BY <2>1, <2>2, <2>3, FillCosts
<1>2. LongOnlyInv /\ [SessionNext]_sessionVars =>
        [\A r \in Runs, o \in Orders, ref \in Quotes :
           Place(r, o, ref) => Worth(mem'[r], o.symbol, ref) <= Worth(mem[r], o.symbol, ref)]_sessionVars
  BY <1>1
<1>3. LongOnlyInv /\ [SessionNext]_sessionVars => LongOnlyInv'
  BY LongOnlyStep
<1>4. QED
  BY <1>2, <1>3, LongOnlyInit, PTL DEF SessionSpec, FillsNeverProfit

-----------------------------------------------------------------------------
(* The tracker only reads.                                                 *)

\* Beside the tracker, the runs do to the account only what they do without it.
LEMMA TrackerOnlyReads == TrackSpec => SessionSpec
<1>1. TrackInit => SessionInit
  BY DEF TrackInit
<1>2. [TrackNext]_<<sessionVars, trackerVars>> => [SessionNext]_sessionVars
  BY DEF TrackNext, StartTracking, TakeSample, Sample, StopTracking
<1>3. QED
  BY <1>1, <1>2, PTL DEF TrackSpec, SessionSpec

\* So what is proved of the broker alone holds beside the tracker.
THEOREM TrackedLongOnly == TrackSpec => []LongOnly
  BY TrackerOnlyReads, BrokerLongOnly, PTL

-----------------------------------------------------------------------------
(* What the tracker reports.                                               *)

\* Shares held, marked at the move of their price.
Moves(shares, now, before, S) == MapThenSumSet(LAMBDA s : shares[s] * (now[s] - before[s]), S)

LEMMA MovesAreSum ==
  ASSUME NEW S, IsFiniteSet(S), NEW shares, NEW now, NEW before
  PROVE  Moves(shares, now, before, S)
           = SumOf([s \in S |-> shares[s] * (now[s] - before[s])], S)
<1> DEFINE move(s) == shares[s] * (now[s] - before[s])
           Totals(f) ==
             f = [T \in SUBSET S |-> IF T = {} THEN 0
                                     ELSE shares[First(T)] * (now[First(T)] - before[First(T)])
                                            + f[T \ {First(T)}]]
           t == CHOOSE f : Totals(f)
           p == [s \in S |-> move(s)]
<1>1. Moves(shares, now, before, S) = t[S]
  BY DEF Moves, MapThenSumSet, MapThenFoldSet, First
<1>2. ASSUME NEW f PROVE Totals(f) <=> Sums(f, p, SUBSET S)
  <2>1. \A T \in SUBSET S : T # {} =>
          p[First(T)] = shares[First(T)] * (now[First(T)] - before[First(T)])
    BY DEF First
  <2> HIDE DEF p
  <2>2. [T \in SUBSET S |-> IF T = {} THEN 0
                            ELSE shares[First(T)] * (now[First(T)] - before[First(T)])
                                   + f[T \ {First(T)}]]
          = [T \in SUBSET S |-> IF T = {} THEN 0 ELSE p[First(T)] + f[T \ {First(T)}]]
    BY <2>1
  <2>3. QED
    BY <2>2 DEF Sums
<1>3. PICK g : Sums(g, p, SUBSET S) /\ SumOf(p, S) = g[S]
  BY SumsSum
<1> HIDE DEF Totals, p
<1>4. Totals(t)
  BY <1>2, <1>3, Zenon
<1>5. t[S] = g[S]
  BY <1>2, <1>3, <1>4, SumsAgree
<1>6. QED
  BY <1>1, <1>3, <1>5 DEF p

\* An account as load_account returns it.
Book(b) == /\ b.cash \in Int
           /\ Holdings(b) \in SUBSET Symbols
           /\ b.shares \in [Holdings(b) -> Int]

LEMMA SymbolsAreFinite == IsFiniteSet(Symbols)
  BY TrackerConstants

\* The worth of what has a price is a sum over it.
LEMMA MarkIsSum ==
  ASSUME NEW b, Book(b), NEW prices \in PriceMaps(b)
  PROVE  /\ DOMAIN prices \in SUBSET Holdings(b)
         /\ \A s \in DOMAIN prices : prices[s] \in Int
         /\ MarkBook(b, prices).total
              = b.cash + SumOf([s \in DOMAIN prices |-> b.shares[s] * prices[s]], DOMAIN prices)
         /\ MarkBook(b, prices).missing = Holdings(b) \ DOMAIN prices
<1>1. /\ DOMAIN prices \in SUBSET Holdings(b)
      /\ \A s \in DOMAIN prices : prices[s] \in Int
  <2>1. PICK answered \in SUBSET Holdings(b) : prices \in [answered -> Marks]
    BY DEF PriceMaps
  <2>2. \A p \in Marks : p \in Int
    BY TrackerConstants
  <2>3. DOMAIN prices = answered
    BY <2>1
  <2>4. QED
    BY <2>1, <2>2, <2>3
<1>2. IsFiniteSet(DOMAIN prices)
  BY <1>1, SymbolsAreFinite, FS_Subset DEF Book
<1>3. /\ MarkBook(b, prices).total = b.cash + Products(b.shares, prices, DOMAIN prices)
      /\ MarkBook(b, prices).missing = Holdings(b) \ DOMAIN prices
  BY DEF MarkBook, Products
<1>4. QED
  BY <1>1, <1>2, <1>3, ProductsAreSum

\* Marked at two prices, an account differs by the moves of the holdings priced
\* both times, less what those not priced again were worth.
LEMMA MarksDifferByMoves ==
  ASSUME NEW b, Book(b), NEW before \in PriceMaps(b), NEW now \in PriceMaps(b),
         DOMAIN before = Holdings(b)
  PROVE  MarkBook(b, now).total - MarkBook(b, before).total
           = Moves(b.shares, now, before, DOMAIN now)
             - Products(b.shares, before, Holdings(b) \ DOMAIN now)
<1> DEFINE H == Holdings(b)
           D == DOMAIN now
           was == [s \in H |-> b.shares[s] * before[s]]
           is == [s \in D |-> b.shares[s] * now[s]]
           move == [s \in D |-> b.shares[s] * (now[s] - before[s])]
<1>1. /\ D \in SUBSET H
      /\ \A s \in D : now[s] \in Int
      /\ \A s \in H : before[s] \in Int
      /\ \A s \in H : b.shares[s] \in Int
      /\ b.cash \in Int
  BY MarkIsSum DEF Book
<1>2. IsFiniteSet(H) /\ IsFiniteSet(D) /\ IsFiniteSet(H \ D)
  BY <1>1, SymbolsAreFinite, FS_Subset DEF Book
<1>3. /\ MarkBook(b, now).total = b.cash + SumOf(is, D)
      /\ MarkBook(b, before).total = b.cash + SumOf(was, H)
  BY MarkIsSum
<1>4. Moves(b.shares, now, before, D) = SumOf(move, D)
  BY <1>2, MovesAreSum
<1>5. Products(b.shares, before, H \ D) = SumOf(was, H \ D)
  <2> DEFINE lost == [s \in H \ D |-> b.shares[s] * before[s]]
  <2>1. Products(b.shares, before, H \ D) = SumOf(lost, H \ D)
    BY <1>2, ProductsAreSum
  <2>2. \A s \in H \ D : lost[s] = was[s]
    OBVIOUS
  <2> HIDE DEF lost, was
  <2>3. SumOf(lost, H \ D) = SumOf(was, H \ D)
    BY <1>2, <2>2, SameSums
  <2>4. QED
    BY <2>1, <2>3
<1>6. \A s \in H : was[s] \in Int
  BY <1>1
<1>7. \A s \in D : is[s] \in Int /\ was[s] \in Int /\ move[s] = 1 * is[s] + (-1) * was[s]
  <2>1. SUFFICES ASSUME NEW s \in D
                 PROVE  is[s] \in Int /\ was[s] \in Int /\ move[s] = 1 * is[s] + (-1) * was[s]
    OBVIOUS
  <2>2. /\ is[s] = b.shares[s] * now[s] /\ was[s] = b.shares[s] * before[s]
        /\ move[s] = b.shares[s] * (now[s] - before[s])
    BY <1>1
  <2>3. b.shares[s] \in Int /\ now[s] \in Int /\ before[s] \in Int
    BY <1>1
  <2> HIDE DEF is, was, move
  <2>4. QED
    BY <2>2, <2>3
<1> HIDE DEF H, D, was, is, move
<1>8. SumOf(move, D) = 1 * SumOf(is, D) + (-1) * SumOf(was, D)
  BY <1>2, <1>7, SumsCombine
<1>9. SumOf(was, H) = SumOf(was, D) + SumOf(was, H \ D)
  BY <1>1, <1>2, <1>6, SumOfParts
<1>10. SumOf(is, D) \in Int /\ SumOf(was, D) \in Int /\ SumOf(was, H \ D) \in Int
  BY <1>1, <1>2, <1>6, <1>7, SumIsNumber
<1>11. MarkBook(b, now).total - MarkBook(b, before).total
         = SumOf(move, D) - SumOf(was, H \ D)
  BY <1>1, <1>3, <1>8, <1>9, <1>10
<1>12. QED
  BY <1>4, <1>5, <1>11 DEF H, D

\* What a session has read and written, all of it from the account as it was
\* when the session began.
Follows(b, begun, last) ==
  /\ b = Idle \/ Book(b)
  /\ begun = Unsampled <=> last = Unsampled
  /\ b = Idle => last = Unsampled
  /\ last # Unsampled =>
       /\ begun.prices \in PriceMaps(b)
       /\ begun.value = MarkBook(b, begun.prices).total
       /\ last.prices \in PriceMaps(b)
       /\ last.missing = Holdings(b) \ DOMAIN last.prices
       /\ last.pnl = MarkBook(b, last.prices).total - begun.value

SessionFollows == Follows(book, first, sample)

LEMMA SessionMarkers ==
  /\ \A c, v, p, m, l : [count |-> c, prices |-> p, missing |-> m, value |-> v, pnl |-> l] # Unsampled
  /\ \A v, p : [value |-> v, prices |-> p] # Unsampled
  BY DEF Unsampled

LEMMA LoadIsBook == ASSUME LongOnlyInv PROVE Book(LoadAccount)
<1>1. CASE Saved
  <2>1. disk \in Account
    BY <1>1 DEF LongOnlyInv, BrokerTypeOK, Saved
  <2>2. /\ disk.cash \in Int
        /\ \A s \in Positions(disk) : disk.shares[s] \in Int
        /\ Positions(disk) \in SUBSET Symbols
    BY <2>1 DEF Account, Positions
  <2>3. LoadAccount = [cash |-> disk.cash, shares |-> [s \in Positions(disk) |-> disk.shares[s]]]
    BY <1>1 DEF LoadAccount
  <2>4. QED
    BY <2>2, <2>3 DEF Book, Holdings
<1>2. CASE ~Saved
  BY <1>2 DEF LoadAccount, Book, Holdings
<1>3. QED
  BY <1>1, <1>2

LEMMA SessionFollowsInit == TrackInit => SessionFollows
  BY DEF TrackInit, SessionFollows, Follows

LEMMA SessionFollowsStep ==
  ASSUME LongOnlyInv, SessionFollows, [TrackNext]_<<sessionVars, trackerVars>>
  PROVE  SessionFollows'
<1>1. CASE UNCHANGED trackerVars
  BY <1>1 DEF trackerVars, SessionFollows
<1>2. CASE StartTracking
  <2>1. book' = LoadAccount /\ first' = first /\ sample' = sample
    BY <1>2 DEF StartTracking
  <2>2. sample = Unsampled /\ first = Unsampled
    BY <1>2 DEF StartTracking, Tracking, SessionFollows, Follows
  <2>3. Book(book')
    BY <2>1, LoadIsBook
  <2>4. QED
    BY <2>1, <2>2, <2>3 DEF SessionFollows, Follows
<1>3. CASE TakeSample
  <2>1. PICK prices \in PriceMaps(book) : Sample(prices)
    BY <1>3 DEF TakeSample
  <2> DEFINE marked == MarkBook(book, prices)
  <2>2. /\ book # Idle /\ book' = book
        /\ first' = IF first = Unsampled THEN [value |-> marked.total, prices |-> prices]
                    ELSE first
        /\ sample' = PnlRecord(marked, prices, first'.value)
    BY <2>1 DEF Sample, Tracking
  <2>3. marked.missing = Holdings(book) \ DOMAIN prices
    BY DEF MarkBook
  <2> HIDE DEF marked
  <2>4. /\ sample' # Unsampled
        /\ sample'.prices = prices /\ sample'.missing = marked.missing
        /\ sample'.pnl = marked.total - first'.value
    BY <2>2, SessionMarkers DEF PnlRecord
  <2>5. /\ first' # Unsampled
        /\ first'.prices \in PriceMaps(book)
        /\ first'.value = MarkBook(book, first'.prices).total
    <3>1. CASE first = Unsampled
      BY <2>2, <3>1, SessionMarkers DEF marked
    <3>2. CASE first # Unsampled
      BY <2>2, <3>2 DEF SessionFollows, Follows
    <3>3. QED
      BY <3>1, <3>2
  <2>6. Book(book)
    BY <2>2 DEF SessionFollows, Follows
  <2>7. Follows(book, first', sample')
    BY <2>1, <2>2, <2>3, <2>4, <2>5, <2>6 DEF Follows, marked
  <2>8. QED
    BY <2>2, <2>7 DEF SessionFollows
<1>4. CASE StopTracking
  BY <1>4 DEF StopTracking, SessionFollows, Follows
<1>5. QED
  BY <1>1, <1>2, <1>3, <1>4 DEF TrackNext

\* Whatever trades while a session runs, what it reports is the move of the
\* prices of what it first read.
THEOREM TrackerPnlIsPrices == TrackSpec => []PnlIsPrices
<1>1. SessionFollows => PnlIsPrices
  <2>1. SUFFICES ASSUME SessionFollows, Samples > 0, DOMAIN first.prices = Holdings(book)
                 PROVE  sample.pnl = Moves(book.shares, sample.prices, first.prices,
                                           Holdings(book) \ sample.missing)
                                     - Products(book.shares, first.prices, sample.missing)
    BY DEF PnlIsPrices, Moves, Products
  <2>2. sample # Unsampled
    BY <2>1 DEF Samples
  <2>3. /\ Book(book)
        /\ first.prices \in PriceMaps(book) /\ sample.prices \in PriceMaps(book)
        /\ sample.missing = Holdings(book) \ DOMAIN sample.prices
        /\ sample.pnl = MarkBook(book, sample.prices).total - MarkBook(book, first.prices).total
    BY <2>1, <2>2 DEF SessionFollows, Follows
  <2>4. Holdings(book) \ sample.missing = DOMAIN sample.prices
    BY <2>3, MarkIsSum
  <2>5. MarkBook(book, sample.prices).total - MarkBook(book, first.prices).total
          = Moves(book.shares, sample.prices, first.prices, DOMAIN sample.prices)
            - Products(book.shares, first.prices, Holdings(book) \ DOMAIN sample.prices)
    <3>1. \A before, now \in PriceMaps(book) :
            DOMAIN before = Holdings(book) =>
              MarkBook(book, now).total - MarkBook(book, before).total
                = Moves(book.shares, now, before, DOMAIN now)
                  - Products(book.shares, before, Holdings(book) \ DOMAIN now)
      BY <2>3, MarksDifferByMoves
    <3>2. QED
      BY <2>1, <2>3, <3>1
  <2>6. QED
    BY <2>3, <2>4, <2>5, Zenon
<1>2. LongOnlyInv /\ SessionFollows /\ [TrackNext]_<<sessionVars, trackerVars>> => SessionFollows'
  BY SessionFollowsStep
<1>3. LongOnlyInv /\ [SessionNext]_sessionVars => LongOnlyInv'
  BY LongOnlyStep
<1>4. TrackInit => LongOnlyInv
  BY LongOnlyInit DEF TrackInit
<1>5. [TrackNext]_<<sessionVars, trackerVars>> => [SessionNext]_sessionVars
  BY DEF TrackNext, StartTracking, TakeSample, Sample, StopTracking
<1>6. QED
  BY <1>1, <1>2, <1>3, <1>4, <1>5, SessionFollowsInit, PTL DEF TrackSpec


-----------------------------------------------------------------------------
(* The order that is due.                                                  *)

\* A plan that is not done has an order due, and it is an order.
LEMMA DueIsAnOrder ==
  ASSUME NEW orders \in [Symbols -> Int], orders # NoPlan
  PROVE  /\ Due(orders) \in Symbols
         /\ OrderFor(Due(orders), orders[Due(orders)]) \in Order
<1>1. PICK t \in Symbols : orders[t] # 0
  BY DEF NoPlan
<1>2. Symbols \in SUBSET Nat
  BY RunConstants
<1>3. Due(orders) \in Symbols /\ orders[Due(orders)] # 0
  BY <1>1, <1>2, DueIsPlanned
<1>4. orders[Due(orders)] \in Int
  BY <1>3
<1>5. OrderFor(Due(orders), orders[Due(orders)])
        \in [symbol : {Due(orders)}, side : {"BUY", "SELL"}, shares : Nat]
  BY <1>3, <1>4, OrderForType
<1>6. QED
  BY <1>3, <1>5 DEF Order

-----------------------------------------------------------------------------
(* No account is ever overdrawn or short.                                  *)

\* What LongOnly needs of a run: prices that are prices, a plan that is orders.
PlansAreOrders == /\ price \in [Symbols -> Price]
                  /\ closes \in [Runs -> [Symbols -> Price]]
                  /\ execution \in [Runs -> [Symbols -> Price]]
                  /\ plan \in [Runs -> [Symbols -> Int]]

AccountsInv == BrokerTypeOK /\ LongOnly /\ PlansAreOrders

LEMMA ListsOfPrices ==
  /\ PriceLists \subseteq [Symbols -> Price]
  /\ QuoteLists \cup {NoCloses} \subseteq [Symbols -> Price]
<1>1. \A list \in PriceLists \cup QuoteLists : list \in [Symbols -> Price]
  BY RunConstants DEF Price
<1>2. NoCloses \in [Symbols -> Price]
  BY DEF NoCloses, Price
<1>3. QED
  BY <1>1, <1>2

LEMMA AccountsInit == Init => AccountsInv
<1>1. NoPlan \in [Symbols -> Int] /\ NoCloses \in [Symbols -> Price]
  BY ListsOfPrices DEF NoPlan
<1>2. QED
  BY <1>1, FlatIsSound, FileMarkers, ListsOfPrices
     DEF Init, AccountsInv, BrokerTypeOK, LongOnly, Saved, PlansAreOrders

\* The order a run sends next fills into a sound account, if it is accepted.
LEMMA NextFillIsSound ==
  ASSUME AccountsInv, NEW r \in Runs, plan[r] # NoPlan,
         Accepts(mem[r], NextOrder(r), NextPrice(r))
  PROVE  /\ Filled(mem[r], NextOrder(r), NextPrice(r)) \in Account
         /\ Sound(Filled(mem[r], NextOrder(r), NextPrice(r)))
<1>1. mem[r] \in Account /\ Sound(mem[r])
  BY DEF AccountsInv, BrokerTypeOK, LongOnly
<1>2. plan[r] \in [Symbols -> Int] /\ execution[r] \in [Symbols -> Price]
  BY DEF AccountsInv, PlansAreOrders
<1>3. Due(plan[r]) \in Symbols /\ NextOrder(r) \in Order
  BY <1>2, DueIsAnOrder DEF NextOrder
<1>4. NextPrice(r) \in Price
  BY <1>2, <1>3 DEF NextPrice
<1>5. QED
  BY <1>1, <1>3, <1>4, FillIsSound

\* Steps of the accounts: every step of a run is one of these, or leaves the
\* accounts alone.
LEMMA AccountsStep ==
  ASSUME AccountsInv, NEW r \in Runs,
         \/ Connect(r) \/ Disconnect(r) \/ Die(r) \/ DieSaving(r)
         \/ /\ plan[r] # NoPlan
            /\ \/ Place(r, NextOrder(r), NextPrice(r))
               \/ PlaceSaveFails(r, NextOrder(r), NextPrice(r))
               \/ Reject(r, NextOrder(r), NextPrice(r))
         \/ UNCHANGED brokerVars
  PROVE  (BrokerTypeOK /\ LongOnly)'
<1>1. /\ disk \in Account \cup {Absent, Torn}
      /\ mem \in [Runs -> Account] /\ connected \in [Runs -> BOOLEAN]
      /\ \A q \in Runs : Sound(mem[q])
      /\ disk \notin {Absent, Torn} => disk \in Account /\ Sound(disk)
  BY DEF AccountsInv, BrokerTypeOK, LongOnly, Saved
<1>2. SUFFICES /\ disk' \in {Absent, Torn} \/ (disk' \in Account /\ Sound(disk'))
               /\ mem' \in [Runs -> Account] /\ connected' \in [Runs -> BOOLEAN]
               /\ \A q \in Runs : Sound(mem'[q])
  BY DEF BrokerTypeOK, LongOnly, Saved, Sound
<1>3. CASE Connect(r)
  BY <1>1, <1>3, FlatIsSound DEF Connect
<1>4. CASE Disconnect(r)
  BY <1>1, <1>4, FlatIsSound DEF Disconnect, Gone
<1>5. CASE Die(r)
  BY <1>1, <1>5, FlatIsSound DEF Die, Gone
<1>6. CASE DieSaving(r)
  BY <1>1, <1>6, FlatIsSound DEF DieSaving, Gone
<1>7. CASE plan[r] # NoPlan /\ Place(r, NextOrder(r), NextPrice(r))
  <2>1. Accepts(mem[r], NextOrder(r), NextPrice(r))
    BY <1>7 DEF Place
  <2>2. /\ Filled(mem[r], NextOrder(r), NextPrice(r)) \in Account
        /\ Sound(Filled(mem[r], NextOrder(r), NextPrice(r)))
    BY <1>7, <2>1, NextFillIsSound
  <2>3. QED
    BY <1>1, <1>7, <2>2 DEF Place
<1>8. CASE plan[r] # NoPlan /\ PlaceSaveFails(r, NextOrder(r), NextPrice(r))
  <2>1. Accepts(mem[r], NextOrder(r), NextPrice(r))
    BY <1>8 DEF PlaceSaveFails
  <2>2. /\ Filled(mem[r], NextOrder(r), NextPrice(r)) \in Account
        /\ Sound(Filled(mem[r], NextOrder(r), NextPrice(r)))
    BY <1>8, <2>1, NextFillIsSound
  <2>3. QED
    BY <1>1, <1>8, <2>2 DEF PlaceSaveFails
<1>9. CASE UNCHANGED brokerVars
  BY <1>1, <1>9 DEF brokerVars
<1>10. CASE Reject(r, NextOrder(r), NextPrice(r))
  BY <1>1, <1>10 DEF Reject, brokerVars
<1>11. QED
  BY <1>3, <1>4, <1>5, <1>6, <1>7, <1>8, <1>9, <1>10

\* A run's step leaves its plan a set of orders at prices.
LEMMA PlansStep ==
  ASSUME AccountsInv, NEW r \in Runs, Start(r) \/ Step(r) \/ Fail(r)
  PROVE  PlansAreOrders'
<1>1. /\ price \in [Symbols -> Price]
      /\ closes \in [Runs -> [Symbols -> Price]]
      /\ execution \in [Runs -> [Symbols -> Price]]
      /\ plan \in [Runs -> [Symbols -> Int]]
      /\ mem[r].shares \in [Symbols -> Int]
  BY DEF AccountsInv, PlansAreOrders, BrokerTypeOK, Account
<1>2. NoPlan \in [Symbols -> Int] /\ NoCloses \in [Symbols -> Price]
  BY ListsOfPrices DEF NoPlan
<1>3. CASE UNCHANGED <<price, closes, execution, plan>>
  BY <1>1, <1>3 DEF PlansAreOrders
<1>4. CASE Check(r)
  BY <1>1, <1>2, <1>4 DEF Check, LatestCloses, PlansAreOrders, marketVars
<1>5. CASE Decide(r)
  <2>1. ASSUME NEW want \in Wants \cup {NoPlan}, Allow(r, want)
        PROVE  /\ plan' \in [Runs -> [Symbols -> Int]]
               /\ execution' \in [Runs -> [Symbols -> Price]]
    <3>1. PICK quotes \in QuoteLists \cup {NoCloses} :
            /\ plan' = [plan EXCEPT ![r] =
                          OrdersFor(mem[r].shares, want, Quoted(closes[r], quotes))]
            /\ execution' = [execution EXCEPT ![r] = Quoted(closes[r], quotes)]
      BY <2>1 DEF Allow
    <3>2. quotes \in [Symbols -> Price] /\ closes[r] \in [Symbols -> Price]
      BY <1>1, ListsOfPrices
    <3>3. Quoted(closes[r], quotes) \in [Symbols -> Price]
      BY <3>2 DEF Quoted
    <3>4. want \in [Symbols -> Nat]
      BY <1>2, RunConstants DEF NoPlan
    <3>5. OrdersFor(mem[r].shares, want, Quoted(closes[r], quotes)) \in [Symbols -> Int]
      <4>1. mem[r].shares \in [Symbols -> Int]
        BY <1>1
      <4>2. Quoted(closes[r], quotes) \in [Symbols -> Nat]
        BY <3>3 DEF Price
      <4>3. QED
        BY <3>4, <4>1, <4>2, OrdersForType
    <3>6. QED
      BY <1>1, <3>1, <3>3, <3>5
  <2>2. \/ UNCHANGED <<plan, execution>>
        \/ \E want \in Wants \cup {NoPlan} : Allow(r, want)
    BY <1>5 DEF Decide
  <2>3. UNCHANGED <<price, closes>>
    BY <1>5 DEF Decide, marketVars
  <2>4. QED
    BY <1>1, <2>1, <2>2, <2>3 DEF PlansAreOrders
<1>6. CASE UNCHANGED <<price, closes, execution>> /\ Strike(r)
  <2>1. plan[r] \in [Symbols -> Int]
    BY <1>1
  <2>2. [plan[r] EXCEPT ![Due(plan[r])] = 0] \in [Symbols -> Int]
    BY <2>1, ReplacedIsAPlan
  <2>3. plan' = [plan EXCEPT ![r] = [plan[r] EXCEPT ![Due(plan[r])] = 0]]
    BY <1>6 DEF Strike
  <2>4. plan' \in [Runs -> [Symbols -> Int]]
    BY <1>1, <2>2, <2>3
  <2>5. QED
    BY <1>1, <1>6, <2>4 DEF PlansAreOrders
<1>7. CASE UNCHANGED marketVars /\ Forget(r)
  BY <1>1, <1>2, <1>7 DEF PlansAreOrders, Forget, marketVars
<1>8. Start(r) \/ Write(r) \/ Raise(r) \/ SaveRaises(r) \/ AppendRaises(r)
        => UNCHANGED <<price, closes, execution, plan>>
  BY DEF Start, Write, Raise, SaveRaises, AppendRaises, marketVars
<1>9. Trade(r) \/ TradeRejected(r) => UNCHANGED <<price, closes, execution>> /\ Strike(r)
  BY DEF Trade, TradeRejected, marketVars
<1>10. Finish(r) \/ FinishRaises(r) \/ Killed(r) \/ KilledSaving(r) \/ KilledWriting(r)
        => UNCHANGED marketVars /\ Forget(r)
  BY DEF Finish, FinishRaises, Killed, KilledSaving, KilledWriting
<1>11. QED
  BY <1>3, <1>4, <1>5, <1>6, <1>7, <1>8, <1>9, <1>10 DEF Step, Fail

LEMMA AccountsNext ==
  ASSUME AccountsInv, [Next]_vars
  PROVE  AccountsInv'
<1>1. CASE NewDay
  <2>1. UNCHANGED <<brokerVars, localVars>>
    BY <1>1 DEF NewDay
  <2>2. price' \in [Symbols -> Price]
    BY <1>1, ListsOfPrices DEF NewDay, AccountsInv, PlansAreOrders
  <2>3. QED
    BY <2>1, <2>2
       DEF AccountsInv, PlansAreOrders, BrokerTypeOK, LongOnly, Saved, brokerVars, localVars
<1>2. CASE Outside
  <2>1. disk \in Account /\ Sound(disk)
    BY <1>2 DEF Outside, Saved, AccountsInv, BrokerTypeOK, LongOnly
  <2>2. disk' \in Account /\ Sound(disk')
    <3>1. CASE disk' = [disk EXCEPT !.cash = @ + 1]
      BY <2>1, <3>1 DEF Account, Sound
    <3>2. ASSUME NEW s \in Symbols, disk' = [disk EXCEPT !.shares[s] = @ + 1]
          PROVE  disk' \in Account /\ Sound(disk')
      BY <2>1, <3>2 DEF Account, Sound
    <3>3. QED
      BY <1>2, <3>1, <3>2 DEF Outside
  <2>3. UNCHANGED <<mem, connected, marketVars, localVars>>
    BY <1>2 DEF Outside
  <2>4. QED
    BY <2>2, <2>3
       DEF AccountsInv, PlansAreOrders, BrokerTypeOK, LongOnly, Saved, marketVars, localVars
<1>3. ASSUME NEW r \in Runs, Start(r) \/ Step(r) \/ Fail(r)
      PROVE  AccountsInv'
  <2>1. PlansAreOrders'
    BY <1>3, PlansStep
  <2>2. \/ Connect(r) \/ Disconnect(r) \/ Die(r) \/ DieSaving(r)
        \/ /\ plan[r] # NoPlan
           /\ \/ Place(r, NextOrder(r), NextPrice(r))
              \/ PlaceSaveFails(r, NextOrder(r), NextPrice(r))
              \/ Reject(r, NextOrder(r), NextPrice(r))
        \/ UNCHANGED brokerVars
    BY <1>3
       DEF Step, Fail, Start, Check, Decide, Trade, TradeRejected, Write, Finish, Raise,
           SaveRaises, AppendRaises, FinishRaises, Killed, KilledSaving, KilledWriting
  <2>3. (BrokerTypeOK /\ LongOnly)'
    BY <2>2, AccountsStep
  <2>4. QED
    BY <2>1, <2>3 DEF AccountsInv
<1>4. CASE UNCHANGED vars
  BY <1>4 DEF vars, AccountsInv, PlansAreOrders, BrokerTypeOK, LongOnly, Saved,
              marketVars, brokerVars, localVars
<1>5. QED
  BY <1>1, <1>2, <1>3, <1>4 DEF Next

\* However many runs overlap, whichever of them raise or die and at whatever
\* point, no run's account and no saved account is overdrawn or short.
THEOREM RunsLongOnly == Spec => []LongOnly
<1>1. AccountsInv /\ [Next]_vars => AccountsInv'
  BY AccountsNext
<1>2. AccountsInv => LongOnly
  BY DEF AccountsInv
<1>3. QED
  BY <1>1, <1>2, AccountsInit, PTL DEF Spec

-----------------------------------------------------------------------------
(* One run at a time.  Nothing below holds of runs that overlap: the second *)
(* would trade on an account, and a record, that the first is changing.     *)

OneRun == \A r, q \in Runs : r = q

ProgressTypeOK == /\ pc \in [Runs -> {"idle", "checking", "deciding", "placing", "closing"}]
                  /\ filled \in [Runs -> {"none", "memory", "file"}]

\* A run has a plan only once it has decided, and until its first fill it holds
\* the account that was reconciled.
ReconciledInv ==
  /\ \A r \in Runs : pc[r] \in {"idle", "checking", "deciding"} => plan[r] = NoPlan
  /\ \A r \in Runs : Placing(r) /\ filled[r] = "none" => Agrees(mem[r])

LEMMA AgreesKept ==
  ASSUME UNCHANGED lines, NEW r \in Runs, mem'[r] = mem[r]
  PROVE  Agrees(mem[r])' <=> Agrees(mem[r])
  BY DEF Agrees, J!HasRecord, J!LastRecord, J!Readable

LEMMA ProgressInit == Init => ProgressTypeOK /\ ReconciledInv
  BY DEF Init, ProgressTypeOK, ReconciledInv, Placing

LEMMA ProgressTypeStep ==
  ASSUME ProgressTypeOK, [Next]_vars
  PROVE  ProgressTypeOK'
<1>1. CASE NewDay
  BY <1>1 DEF NewDay, ProgressTypeOK, localVars
<1>2. CASE Outside
  BY <1>2 DEF Outside, ProgressTypeOK, localVars
<1>3. ASSUME NEW r \in Runs, Start(r) \/ Step(r) \/ Fail(r)
      PROVE  ProgressTypeOK'
  <2>1. \A from, to : Move(r, from, to) /\ to \in {"checking", "deciding", "placing", "closing"}
          => pc' \in [Runs -> {"idle", "checking", "deciding", "placing", "closing"}]
    BY DEF Move, ProgressTypeOK
  <2>2. Forget(r) => ProgressTypeOK'
    BY DEF Forget, ProgressTypeOK
  <2>3. CountFill(r) \/ HoldFill(r) => filled' \in [Runs -> {"none", "memory", "file"}]
    BY DEF CountFill, HoldFill, ProgressTypeOK
  <2>4. CASE Start(r) \/ Check(r)
    BY <2>1, <2>4 DEF Start, Check, ProgressTypeOK
  <2>5. CASE Decide(r) \/ Write(r)
    BY <2>1, <2>5 DEF Decide, Write, ProgressTypeOK
  <2>6. CASE Trade(r) \/ TradeRejected(r)
    BY <2>3, <2>6 DEF Trade, TradeRejected, ProgressTypeOK
  <2>7. CASE Raise(r)
    BY <2>7 DEF Raise, ProgressTypeOK
  <2>8. CASE SaveRaises(r)
    BY <2>1, <2>3, <2>8 DEF SaveRaises, ProgressTypeOK
  <2>9. CASE AppendRaises(r)
    BY <2>1, <2>9 DEF AppendRaises, ProgressTypeOK
  <2>10. CASE \/ Finish(r) \/ FinishRaises(r) \/ Killed(r) \/ KilledSaving(r)
              \/ KilledWriting(r)
    BY <2>2, <2>10 DEF Finish, FinishRaises, Killed, KilledSaving, KilledWriting
  <2>11. QED
    BY <1>3, <2>4, <2>5, <2>6, <2>7, <2>8, <2>9, <2>10 DEF Step, Fail
<1>4. CASE UNCHANGED vars
  BY <1>4 DEF vars, localVars, ProgressTypeOK
<1>5. QED
  BY <1>1, <1>2, <1>3, <1>4 DEF Next

\* A run that decided to trade has reconciled.
LEMMA DecideReconciles ==
  ASSUME ProgressTypeOK, ReconciledInv, NEW r \in Runs, Decide(r), plan' # plan
  PROVE  Agrees(mem[r])
<1>1. PICK halt \in BOOLEAN : ~Blocks(RiskStateOf(mem[r], closes[r], asOf[r], halt))
  BY DEF Decide
<1>2. RiskStateOf(mem[r], closes[r], asOf[r], halt).reconciled
  BY <1>1 DEF Blocks
<1>3. Belief(mem[r], closes[r]).ok
  BY <1>2 DEF RiskStateOf
<1>4. QED
  BY <1>3 DEF Belief, Agrees

LEMMA ReconciledStep ==
  ASSUME OneRun, AccountsInv, ProgressTypeOK, ReconciledInv, [Next]_vars
  PROVE  ReconciledInv'
<1>1. /\ plan \in [Runs -> [Symbols -> Int]] /\ mem \in [Runs -> Account]
      /\ pc \in [Runs -> {"idle", "checking", "deciding", "placing", "closing"}]
      /\ filled \in [Runs -> {"none", "memory", "file"}]
  BY DEF AccountsInv, PlansAreOrders, BrokerTypeOK, ProgressTypeOK
<1>2. ASSUME UNCHANGED <<lines, mem, pc, plan, filled>>
      PROVE  ReconciledInv'
  BY <1>2, AgreesKept DEF ReconciledInv, Placing
<1>3. ASSUME NEW r \in Runs, Start(r) \/ Step(r) \/ Fail(r)
      PROVE  ReconciledInv'
  <2>1. \A q \in Runs : q = r
    BY DEF OneRun
  <2>2. SUFFICES /\ pc'[r] \in {"idle", "checking", "deciding"} => plan'[r] = NoPlan
                 /\ pc'[r] = "placing" /\ plan'[r] # NoPlan /\ filled'[r] = "none"
                      => Agrees(mem[r])'
    BY <2>1 DEF ReconciledInv, Placing
  <2>3. /\ pc[r] \in {"idle", "checking", "deciding"} => plan[r] = NoPlan
        /\ pc[r] = "placing" /\ plan[r] # NoPlan /\ filled[r] = "none" => Agrees(mem[r])
    BY DEF ReconciledInv, Placing
  <2>4. CASE Start(r) \/ Check(r)
    BY <1>1, <2>3, <2>4 DEF Start, Check, Move
  <2>5. CASE Decide(r)
    <3>1. pc[r] = "deciding" /\ pc'[r] = "placing" /\ UNCHANGED <<lines, mem, filled>>
      BY <1>1, <2>5 DEF Decide, Move, logVars, brokerVars
    <3>2. plan' # plan => Agrees(mem[r])'
      BY <2>5, <3>1, DecideReconciles, AgreesKept
    <3>3. QED
      BY <2>3, <3>1, <3>2
  <2>6. CASE Trade(r)
    BY <1>1, <2>6 DEF Trade, CountFill
  <2>7. CASE TradeRejected(r)
    <3>1. pc[r] = "placing" /\ plan[r] # NoPlan /\ UNCHANGED <<lines, mem, pc, filled>>
      BY <2>7 DEF TradeRejected, Reject, logVars, brokerVars
    <3>2. QED
      BY <2>3, <3>1, AgreesKept
  <2>8. CASE Write(r) \/ Raise(r) \/ SaveRaises(r) \/ AppendRaises(r)
    <3>1. pc'[r] = "closing"
      BY <1>1, <2>8 DEF Write, Raise, SaveRaises, AppendRaises, Move
    <3>2. QED
      BY <3>1
  <2>9. CASE \/ Finish(r) \/ FinishRaises(r) \/ Killed(r) \/ KilledSaving(r)
             \/ KilledWriting(r)
    <3>1. Forget(r)
      BY <2>9 DEF Finish, FinishRaises, Killed, KilledSaving, KilledWriting
    <3>2. pc'[r] = "idle" /\ plan'[r] = NoPlan
      BY <1>1, <3>1 DEF Forget
    <3>3. QED
      BY <3>2
  <2>10. QED
    BY <1>3, <2>4, <2>5, <2>6, <2>7, <2>8, <2>9 DEF Step, Fail
<1>4. NewDay \/ Outside \/ UNCHANGED vars => UNCHANGED <<lines, mem, pc, plan, filled>>
  BY DEF NewDay, Outside, vars, logVars, brokerVars, localVars
<1>5. QED
  BY <1>2, <1>3, <1>4 DEF Next

LEMMA FirstFillAgrees ==
  ASSUME AccountsInv, ProgressTypeOK, ReconciledInv, [Next]_vars,
         NEW q \in Runs, filled[q] = "none", filled'[q] # "none"
  PROVE  Agrees(mem[q])
<1>1. SUFFICES Placing(q)
  BY DEF ReconciledInv
<1>2. filled \in [Runs -> {"none", "memory", "file"}]
  BY DEF ProgressTypeOK
<1>3. PICK r \in Runs : Start(r) \/ Step(r) \/ Fail(r)
  BY DEF Next, NewDay, Outside, vars, localVars
<1>4. CASE Trade(r)
  <2>1. q = r
    BY <1>2, <1>4 DEF Trade, CountFill
  <2>2. QED
    BY <1>4, <2>1 DEF Trade, Placing
<1>5. CASE SaveRaises(r)
  <2>1. q = r
    BY <1>2, <1>5 DEF SaveRaises, CountFill, HoldFill
  <2>2. QED
    BY <1>5, <2>1 DEF SaveRaises, Placing, Move
<1>6. Finish(r) \/ FinishRaises(r) \/ Killed(r) \/ KilledSaving(r) \/ KilledWriting(r)
        => filled'[q] = "none"
  BY <1>2 DEF Finish, FinishRaises, Killed, KilledSaving, KilledWriting, Forget
<1>7. Start(r) \/ Check(r) \/ Decide(r) \/ TradeRejected(r) \/ Write(r) \/ Raise(r)
        => UNCHANGED filled
  BY DEF Start, Check, Decide, TradeRejected, Write, Raise
<1>8. AppendRaises(r) => UNCHANGED filled
  BY DEF AppendRaises
<1>9. QED
  BY <1>3, <1>4, <1>5, <1>6, <1>7, <1>8 DEF Step, Fail

\* One run at a time trades only from the account the newest record describes,
\* however many runs before it raised, died, or left no record.
THEOREM RunsTradeOnlyReconciled ==
  ASSUME OneRun
  PROVE  Spec => TradesOnlyReconciled
<1>1. AccountsInv /\ [Next]_vars => AccountsInv'
  BY AccountsNext
<1>2. ProgressTypeOK /\ [Next]_vars => ProgressTypeOK'
  BY ProgressTypeStep
<1>3. AccountsInv /\ ProgressTypeOK /\ ReconciledInv /\ [Next]_vars => ReconciledInv'
  BY ReconciledStep
<1>4. AccountsInv /\ ProgressTypeOK /\ ReconciledInv /\ [Next]_vars
        => [\A r \in Runs : filled[r] = "none" /\ filled'[r] # "none" => Agrees(mem[r])]_vars
  BY FirstFillAgrees
<1>5. QED
  BY <1>1, <1>2, <1>3, <1>4, AccountsInit, ProgressInit, PTL DEF Spec, TradesOnlyReconciled

-----------------------------------------------------------------------------
(* Belief.  Until something fails or changes from outside, the newest record *)
(* is the account: in the run's memory, and between runs in the file.        *)

Describes(account) ==
  J!HasRecord => /\ J!LastRecord.cash = account.cash
                 /\ J!LastRecord.shares = account.shares

LogIsClean == ~unterminated /\ \E S : lines \in Seq(S)

BeliefInv ==
  /\ faults \in Nat /\ drift \in Nat
  /\ faults = 0 /\ drift = 0 =>
       /\ LogIsClean
       /\ Quiet => (J!HasRecord => Saved) /\ Describes(disk)
       /\ \A r \in Runs : pc[r] \in {"checking", "deciding", "closing"} => Describes(mem[r])

LEMMA LogKept ==
  ASSUME UNCHANGED logVars
  PROVE  /\ LogIsClean => LogIsClean'
         /\ J!HasRecord' <=> J!HasRecord
         /\ J!LastRecord' = J!LastRecord
  BY DEF logVars, LogIsClean, J!HasRecord, J!LastRecord, J!Readable

\* A record is not a line that fails to decode.
LEMMA RecordDecodes == \A r \in Runs : RecordOf(r) # Garbage
  BY DEF RecordOf, Garbage

\* What a completed append leaves newest is what it wrote.
LEMMA AppendIsLast ==
  ASSUME LogIsClean, NEW record, record # Garbage, J!AppendRecord(record)
  PROVE  LogIsClean' /\ J!HasRecord' /\ J!LastRecord' = record
<1>1. PICK S : lines \in Seq(S)
  BY DEF LogIsClean
<1>2. lines' = Append(lines, record) /\ unterminated' = FALSE
  BY DEF LogIsClean, J!AppendRecord, J!Put
<1> DEFINE T == S \cup {record}
           n == Len(lines) + 1
<1>3. lines \in Seq(T) /\ record \in T
  <2>1. S \subseteq T
    OBVIOUS
  <2>2. QED
    BY <1>1, <2>1, SeqMonotonic
<1>4. /\ lines' \in Seq(T) /\ Len(lines') = n /\ lines'[n] = record
      /\ Len(lines) \in Nat
  <2> HIDE DEF T
  <2>1. QED
    BY <1>2, <1>3, AppendProperties, LenProperties
<1>5. DOMAIN lines' = 1..n /\ n \in Nat \ {0}
  BY <1>4, LenProperties
<1> HIDE DEF n
<1>6. J!Readable' \subseteq 1..n /\ n \in J!Readable'
  BY <1>4, <1>5 DEF J!Readable
<1>7. \A j \in 1..n : j <= n
  BY <1>5
<1>8. \A i \in 1..n : (\A j \in J!Readable' : j <= i) => i = n
  <2>1. \A i \in 1..n : n <= i => i = n
    BY <1>5
  <2>2. QED
    BY <1>6, <2>1
<1>9. (CHOOSE i \in J!Readable' : \A j \in J!Readable' : j <= i) = n
  BY <1>6, <1>7, <1>8
<1>10. J!HasRecord' /\ J!LastRecord' = record
  BY <1>4, <1>6, <1>9 DEF J!HasRecord, J!LastRecord
<1>11. LogIsClean'
  BY <1>2, <1>4 DEF LogIsClean
<1>12. QED
  BY <1>10, <1>11

LEMMA BeliefInit == Init => BeliefInv
<1>1. SUFFICES ASSUME Init PROVE BeliefInv
  OBVIOUS
<1>2. faults = 0 /\ drift = 0 /\ ~unterminated /\ \A r \in Runs : pc[r] = "idle"
  BY <1>1 DEF Init
<1>3. CASE Baseline
  <2>1. lines = <<FirstRecord>> /\ disk = Flat
    BY <1>1, <1>3 DEF Init
  <2>2. FirstRecord # Garbage
    BY DEF FirstRecord, Garbage
  <2>3. lines \in Seq({FirstRecord}) /\ DOMAIN lines = {1} /\ lines[1] = FirstRecord
    BY <2>1
  <2>4. J!Readable = {1}
    BY <2>2, <2>3 DEF J!Readable
  <2>5. (CHOOSE i \in {1} : \A j \in {1} : j <= i) = 1
    OBVIOUS
  <2>6. J!LastRecord = FirstRecord
    BY <2>3, <2>4, <2>5 DEF J!LastRecord
  <2>7. Saved
    BY <2>1, FlatIsSound, FileMarkers DEF Saved
  <2>8. Describes(disk)
    BY <2>1, <2>6 DEF Describes, FirstRecord, Flat, NoPlan
  <2>9. QED
    BY <1>2, <2>3, <2>7, <2>8 DEF BeliefInv, LogIsClean
<1>4. CASE ~Baseline
  <2>1. lines = <<>>
    BY <1>1, <1>4 DEF Init
  <2>2. lines \in Seq({}) /\ DOMAIN lines = {}
    BY <2>1, EmptySeq
  <2>3. ~J!HasRecord
    BY <2>2 DEF J!HasRecord, J!Readable
  <2>4. QED
    BY <1>2, <2>2, <2>3 DEF BeliefInv, LogIsClean, Describes
<1>5. QED
  BY <1>3, <1>4

\* A failure takes back the promise.
LEMMA BeliefTakenBack ==
  ASSUME BeliefInv, NEW r \in Runs, Fail(r)
  PROVE  BeliefInv'
<1>1. faults \in Nat /\ drift \in Nat
  BY DEF BeliefInv
<1>2. faults' = faults + 1 /\ drift' = drift
  BY DEF Fail, Fault, Raise, SaveRaises, AppendRaises, FinishRaises, Killed, KilledSaving,
         KilledWriting
<1>3. faults' \in Nat /\ drift' \in Nat /\ faults' # 0
  BY <1>1, <1>2
<1>4. QED
  BY <1>3 DEF BeliefInv

LEMMA BeliefStep ==
  ASSUME OneRun, AccountsInv, ProgressTypeOK, BeliefInv,
         NEW r \in Runs, Start(r) \/ Step(r)
  PROVE  BeliefInv'
<1>1. /\ mem \in [Runs -> Account] /\ disk \in Account \cup {Absent, Torn}
      /\ pc \in [Runs -> {"idle", "checking", "deciding", "placing", "closing"}]
  BY DEF AccountsInv, BrokerTypeOK, ProgressTypeOK
<1>2. UNCHANGED countVars
  BY DEF Step, Start, Check, Decide, Trade, TradeRejected, Write, Finish
<1>3. \A q \in Runs : q = r
  BY DEF OneRun
<1>4. SUFFICES ASSUME faults = 0, drift = 0
               PROVE  /\ LogIsClean'
                      /\ pc'[r] = "idle" => (J!HasRecord' => Saved') /\ Describes(disk)'
                      /\ pc'[r] \in {"checking", "deciding", "closing"} => Describes(mem[r])'
  BY <1>2, <1>3 DEF BeliefInv, Quiet, countVars
<1>5. /\ LogIsClean
      /\ pc[r] = "idle" => (J!HasRecord => Saved) /\ Describes(disk)
      /\ pc[r] \in {"checking", "deciding", "closing"} => Describes(mem[r])
  BY <1>3, <1>4 DEF BeliefInv, Quiet
<1>6. CASE Start(r)
  <2>1. /\ pc[r] = "idle" /\ pc'[r] = "checking" /\ UNCHANGED logVars
        /\ mem'[r] = IF disk = Absent THEN Flat ELSE disk
    BY <1>1, <1>6 DEF Start, Move, Connect
  <2>2. J!HasRecord => mem'[r] = disk
    BY <1>5, <2>1 DEF Saved
  <2>3. Describes(mem[r])'
    BY <1>5, <2>1, <2>2, LogKept DEF Describes
  <2>4. QED
    BY <1>5, <2>1, <2>3, LogKept
<1>7. CASE Check(r) \/ Decide(r)
  <2>1. /\ pc[r] \in {"checking", "deciding"}
        /\ pc'[r] \in {"deciding", "closing", "placing"}
        /\ UNCHANGED <<logVars, mem>>
    BY <1>1, <1>7 DEF Check, Decide, Move, brokerVars
  <2>2. Describes(mem[r])'
    BY <1>5, <2>1, LogKept DEF Describes
  <2>3. QED
    BY <1>5, <2>1, <2>2, LogKept
<1>8. CASE Trade(r) \/ TradeRejected(r)
  <2>1. pc'[r] = "placing" /\ UNCHANGED logVars
    BY <1>8 DEF Trade, TradeRejected
  <2>2. QED
    BY <1>5, <2>1, LogKept
<1>9. CASE Write(r)
  <2>1. /\ pc'[r] = "closing" /\ mem' = mem
        /\ J!AppendRecord(RecordOf(r)) /\ RecordOf(r) # Garbage
    BY <1>1, <1>9, RecordDecodes DEF Write, Move, brokerVars
  <2>2. LogIsClean' /\ J!LastRecord' = RecordOf(r)
    BY <1>5, <2>1, AppendIsLast
  <2>3. RecordOf(r).cash = mem[r].cash /\ RecordOf(r).shares = mem[r].shares
    BY DEF RecordOf
  <2>4. Describes(mem[r])'
    BY <2>1, <2>2, <2>3 DEF Describes
  <2>5. QED
    BY <2>1, <2>2, <2>4
<1>10. CASE Finish(r)
  <2>1. /\ pc[r] = "closing" /\ pc'[r] = "idle" /\ disk' = mem[r] /\ UNCHANGED logVars
    BY <1>1, <1>10 DEF Finish, Forget, Disconnect
  <2>2. Saved'
    BY <1>1, <2>1, FileMarkers DEF Saved
  <2>3. Describes(disk)'
    BY <1>5, <2>1, LogKept DEF Describes
  <2>4. QED
    BY <1>5, <2>1, <2>2, <2>3, LogKept
<1>11. QED
  BY <1>6, <1>7, <1>8, <1>9, <1>10 DEF Step

\* Between runs that did not fail, one at a time, the newest record is the saved
\* account: reconciliation never halts a cycle that nothing went wrong before.
THEOREM RunsBeliefIsTruth ==
  ASSUME OneRun
  PROVE  Spec => []BeliefIsTruth
<1>1. AccountsInv /\ [Next]_vars => AccountsInv'
  BY AccountsNext
<1>2. ProgressTypeOK /\ [Next]_vars => ProgressTypeOK'
  BY ProgressTypeStep
<1>3. AccountsInv /\ ProgressTypeOK /\ BeliefInv /\ [Next]_vars => BeliefInv'
  <2>1. SUFFICES ASSUME AccountsInv, ProgressTypeOK, BeliefInv, [Next]_vars
                 PROVE  BeliefInv'
    OBVIOUS
  <2>2. CASE UNCHANGED <<brokerVars, logVars, pc, countVars>>
    BY <2>1, <2>2, LogKept
       DEF BeliefInv, brokerVars, countVars, Quiet, Saved, Describes
  <2>3. NewDay \/ UNCHANGED vars => UNCHANGED <<brokerVars, logVars, pc, countVars>>
    BY DEF NewDay, vars, localVars
  <2>4. CASE Outside
    <3>1. faults \in Nat /\ drift \in Nat /\ drift' = drift + 1 /\ faults' = faults
      BY <2>1, <2>4 DEF BeliefInv, Outside
    <3>2. drift' # 0 /\ drift' \in Nat /\ faults' \in Nat
      BY <3>1
    <3>3. QED
      BY <3>2 DEF BeliefInv
  <2>5. ASSUME NEW r \in Runs, Start(r) \/ Step(r) \/ Fail(r)
        PROVE  BeliefInv'
    BY <2>1, <2>5, BeliefStep, BeliefTakenBack
  <2>6. QED
    BY <2>1, <2>2, <2>3, <2>4, <2>5 DEF Next
<1>4. BeliefInv => BeliefIsTruth
  BY DEF BeliefInv, BeliefIsTruth, Describes
<1>5. QED
  BY <1>1, <1>2, <1>3, <1>4, AccountsInit, ProgressInit, BeliefInit, PTL DEF Spec

-----------------------------------------------------------------------------
(* Types.  What one run leaves in the log is what the next one decodes.     *)

Line == CycleRecord \cup {Garbage}

LogTypeOK == J!FileTypeOK

ClockTypeOK == /\ today \in Days /\ dataDay \in Days
               /\ asOf \in [Runs -> Days]
               /\ traded \in [Days -> Nat]
               /\ faults \in Nat /\ drift \in Nat

VerdictTypeOK == broke \in [Runs -> BOOLEAN] /\ scored \in [Runs -> BOOLEAN]

TypesInv == /\ AccountsInv /\ ProgressTypeOK
            /\ LogTypeOK /\ ClockTypeOK /\ VerdictTypeOK

\* What a holding is carried at.
Carried(account, list, s) ==
  account.shares[s] * (IF list[s] = 0 THEN account.average[s] ELSE list[s])

LEMMA EquityIsSum ==
  ASSUME NEW account, NEW list
  PROVE  Equity(account, list)
           = account.cash + SumOf([s \in Symbols |-> Carried(account, list, s)], Symbols)
<1> DEFINE Totals(f) ==
             f = [T \in SUBSET Symbols |->
                    IF T = {} THEN 0
                    ELSE account.shares[First(T)]
                           * (IF list[First(T)] = 0 THEN account.average[First(T)]
                                                    ELSE list[First(T)])
                         + f[T \ {First(T)}]]
           t == CHOOSE f : Totals(f)
           p == [s \in Symbols |-> Carried(account, list, s)]
<1>1. Equity(account, list) = account.cash + t[Symbols]
  BY DEF Equity, MapThenSumSet, MapThenFoldSet, First
<1>2. ASSUME NEW f PROVE Totals(f) <=> Sums(f, p, SUBSET Symbols)
  <2>1. \A T \in SUBSET Symbols : T # {} =>
          p[First(T)] = account.shares[First(T)]
                          * (IF list[First(T)] = 0 THEN account.average[First(T)]
                                                   ELSE list[First(T)])
    BY DEF First, Carried
  <2> HIDE DEF p
  <2>2. [T \in SUBSET Symbols |->
           IF T = {} THEN 0
           ELSE account.shares[First(T)]
                  * (IF list[First(T)] = 0 THEN account.average[First(T)]
                                           ELSE list[First(T)])
                + f[T \ {First(T)}]]
          = [T \in SUBSET Symbols |->
               IF T = {} THEN 0 ELSE p[First(T)] + f[T \ {First(T)}]]
    BY <2>1
  <2>3. QED
    BY <2>2 DEF Sums
<1>3. PICK g : Sums(g, p, SUBSET Symbols) /\ SumOf(p, Symbols) = g[Symbols]
  BY SumsSum, RunConstants
<1> HIDE DEF Totals, p
<1>4. Totals(t)
  BY <1>2, <1>3, Zenon
<1>5. t[Symbols] = g[Symbols]
  BY <1>2, <1>3, <1>4, SumsAgree, RunConstants
<1>6. QED
  BY <1>1, <1>3, <1>5 DEF p

\* An account is worth a number, whatever has no bar.
LEMMA EquityIsInt ==
  ASSUME NEW account \in Account, NEW list \in [Symbols -> Price]
  PROVE  Equity(account, list) \in Int
<1> DEFINE worth == [s \in Symbols |-> Carried(account, list, s)]
<1>1. /\ account.cash \in Int
      /\ account.shares \in [Symbols -> Int] /\ account.average \in [Symbols -> Int]
  BY DEF Account
<1>2. \A s \in Symbols : worth[s] \in Int
  <2>1. \A m, n \in Int : m * n \in Int
    OBVIOUS
  <2>2. \A s \in Symbols : (IF list[s] = 0 THEN account.average[s] ELSE list[s]) \in Int
    BY <1>1 DEF Price
  <2>3. QED
    BY <1>1, <2>1, <2>2 DEF Carried
<1>3. SumOf(worth, Symbols) \in Int
  <2> HIDE DEF worth
  <2>1. QED
    BY <1>2, RunConstants, SumIsNumber
<1>4. Equity(account, list) = account.cash + SumOf(worth, Symbols)
  BY EquityIsSum
<1> HIDE DEF worth
<1>5. QED
  BY <1>1, <1>3, <1>4

LEMMA RecordIsTyped ==
  ASSUME TypesInv, NEW r \in Runs
  PROVE  RecordOf(r) \in CycleRecord
<1>1. mem[r] \in Account /\ closes[r] \in [Symbols -> Price]
  BY DEF TypesInv, AccountsInv, BrokerTypeOK, PlansAreOrders
<1>2. Equity(mem[r], closes[r]) \in Int
  BY <1>1, EquityIsInt
<1>3. /\ asOf[r] \in Days /\ broke[r] \in BOOLEAN
      /\ mem[r].cash \in Int /\ mem[r].shares \in [Symbols -> Int]
  BY <1>1 DEF TypesInv, ClockTypeOK, VerdictTypeOK, Account
<1>4. QED
  BY <1>2, <1>3 DEF RecordOf, CycleRecord

\* A write of a line, whole or glued to a torn tail, leaves a file of lines.
LEMMA PutLeavesLines ==
  ASSUME LogTypeOK, NEW text \in Line, NEW terminated \in BOOLEAN, J!Put(text, terminated)
  PROVE  LogTypeOK'
<1>1. lines \in Seq(Line) /\ unterminated \in BOOLEAN /\ (unterminated => lines # <<>>)
  BY DEF LogTypeOK, J!FileTypeOK, Line
<1>2. Garbage \in Line
  BY DEF Line
<1>3. CASE unterminated
  <2>1. lines # <<>> /\ lines' = [lines EXCEPT ![Len(lines)] = Garbage]
    BY <1>1, <1>3 DEF J!Put
  <2>2. Len(lines) \in Nat \ {0}
    BY <1>1, <2>1, EmptySeq
  <2>3. Len(lines) \in 1..Len(lines)
    BY <2>2
  <2>4. lines' \in Seq(Line) /\ Len(lines') = Len(lines)
    BY <1>1, <1>2, <2>1, <2>3, ExceptSeq
  <2>5. lines' # <<>>
    BY <2>2, <2>4, EmptySeq
  <2>6. QED
    BY <2>4, <2>5 DEF J!Put, LogTypeOK, J!FileTypeOK, Line
<1>4. CASE ~unterminated
  <2>1. lines' = Append(lines, text)
    BY <1>4 DEF J!Put
  <2>2. lines' \in Seq(Line) /\ Len(lines') = Len(lines) + 1
    BY <1>1, <2>1, AppendProperties
  <2>3. Len(lines) \in Nat
    BY <1>1, LenProperties
  <2>4. lines' # <<>>
    BY <2>2, <2>3, EmptySeq
  <2>5. QED
    BY <2>2, <2>4 DEF J!Put, LogTypeOK, J!FileTypeOK, Line
<1>5. QED
  BY <1>1, <1>3, <1>4

LEMMA LogTypeStep ==
  ASSUME TypesInv, NEW r \in Runs,
         \/ J!AppendRecord(RecordOf(r)) \/ J!InterruptAppend(RecordOf(r))
         \/ UNCHANGED logVars
  PROVE  LogTypeOK'
<1>1. LogTypeOK /\ RecordOf(r) \in Line /\ Garbage \in Line
  BY RecordIsTyped DEF TypesInv, Line
<1>2. CASE UNCHANGED logVars
  BY <1>1, <1>2 DEF LogTypeOK, J!FileTypeOK, logVars
<1>3. CASE J!AppendRecord(RecordOf(r))
  BY <1>1, <1>3, PutLeavesLines DEF J!AppendRecord
<1>4. CASE J!InterruptAppend(RecordOf(r))
  <2>1. UNCHANGED logVars \/ \E text \in {RecordOf(r), Garbage} : J!Put(text, FALSE)
    BY <1>4 DEF J!InterruptAppend, J!fileVars, logVars
  <2>2. \A text \in {RecordOf(r), Garbage} : text \in Line
    BY <1>1
  <2>3. QED
    BY <1>1, <1>2, <2>1, <2>2, PutLeavesLines
<1>5. QED
  BY <1>2, <1>3, <1>4

LEMMA DayOne == 0 \in Days /\ 1 \in Days
  BY RunConstants DEF Days

LEMMA TypesInit == Init => TypesInv
<1>1. SUFFICES ASSUME Init PROVE LogTypeOK /\ ClockTypeOK /\ VerdictTypeOK
  BY AccountsInit, ProgressInit DEF TypesInv
<1>2. ClockTypeOK /\ VerdictTypeOK
  BY <1>1, DayOne DEF Init, ClockTypeOK, VerdictTypeOK
<1>3. FirstRecord \in Line
  <2>1. NoPlan \in [Symbols -> Int] /\ InitialCash \in Int
    BY InitialCashIsNat DEF NoPlan
  <2>2. QED
    BY <2>1, DayOne DEF FirstRecord, CycleRecord, Line
<1>4. lines \in Seq(Line) /\ unterminated = FALSE
  <2>1. <<FirstRecord>> \in Seq(Line) /\ <<>> \in Seq(Line)
    BY <1>3
  <2>2. QED
    BY <1>1, <2>1 DEF Init
<1>5. QED
  BY <1>2, <1>4 DEF LogTypeOK, J!FileTypeOK, Line

\* A run's step leaves the clock, the counts and the verdicts of their types.
LEMMA ClockTypeStep ==
  ASSUME TypesInv, NEW r \in Runs, Start(r) \/ Step(r) \/ Fail(r)
  PROVE  ClockTypeOK' /\ VerdictTypeOK'
<1>1. /\ today \in Days /\ dataDay \in Days /\ asOf \in [Runs -> Days]
      /\ traded \in [Days -> Nat] /\ faults \in Nat /\ drift \in Nat
      /\ broke \in [Runs -> BOOLEAN] /\ scored \in [Runs -> BOOLEAN]
  BY DEF TypesInv, ClockTypeOK, VerdictTypeOK
<1>2. faults' \in Nat /\ drift' \in Nat /\ today' \in Days /\ dataDay' \in Days
  <2>1. Fail(r) => faults' = faults + 1 /\ UNCHANGED <<drift, marketVars>>
    BY DEF Fail, Fault, Raise, SaveRaises, AppendRaises, FinishRaises, Killed,
           KilledSaving, KilledWriting
  <2>2. Start(r) \/ Step(r) => UNCHANGED <<countVars, marketVars>>
    BY DEF Start, Step, Check, Decide, Trade, TradeRejected, Write, Finish
  <2>3. QED
    BY <1>1, <2>1, <2>2 DEF countVars, marketVars
<1>3. CountFill(r) \/ HoldFill(r) => traded' \in [Days -> Nat]
  BY <1>1 DEF CountFill, HoldFill
<1>4. Forget(r) => /\ asOf' \in [Runs -> Days]
                   /\ broke' \in [Runs -> BOOLEAN] /\ scored' \in [Runs -> BOOLEAN]
  BY <1>1, DayOne DEF Forget
<1>5. CASE Check(r)
  BY <1>1, <1>2, <1>5 DEF Check, LatestDay, ClockTypeOK, VerdictTypeOK
<1>6. CASE Decide(r)
  <2>1. broke' \in [Runs -> BOOLEAN]
    <3>1. Belief(mem[r], closes[r]).ok \in BOOLEAN
      BY DEF Belief, Reconciled
    <3>2. QED
      BY <1>1, <1>6, <3>1 DEF Decide
  <2>2. scored' \in [Runs -> BOOLEAN]
    BY <1>1, <1>6 DEF Decide
  <2>3. QED
    BY <1>1, <1>2, <1>6, <2>1, <2>2 DEF Decide, ClockTypeOK, VerdictTypeOK
<1>7. CASE Trade(r) \/ SaveRaises(r)
  BY <1>1, <1>2, <1>3, <1>7 DEF Trade, SaveRaises, ClockTypeOK, VerdictTypeOK
<1>8. CASE Start(r) \/ TradeRejected(r) \/ Write(r) \/ Raise(r) \/ AppendRaises(r)
  BY <1>1, <1>2, <1>8
     DEF Start, TradeRejected, Write, Raise, AppendRaises, ClockTypeOK, VerdictTypeOK
<1>9. CASE FinishRaises(r) \/ Killed(r) \/ KilledSaving(r) \/ KilledWriting(r)
  BY <1>1, <1>2, <1>4, <1>9
     DEF FinishRaises, Killed, KilledSaving, KilledWriting, ClockTypeOK, VerdictTypeOK
<1>10. CASE Finish(r)
  <2>1. traded' \in [Days -> Nat]
    BY <1>1, <1>10 DEF Finish
  <2>2. QED
    BY <1>2, <1>4, <1>10, <2>1 DEF Finish, ClockTypeOK, VerdictTypeOK
<1>11. QED
  BY <1>5, <1>6, <1>7, <1>8, <1>9, <1>10 DEF Step, Fail

LEMMA TypesNext ==
  ASSUME TypesInv, [Next]_vars
  PROVE  TypesInv'
<1>1. AccountsInv' /\ ProgressTypeOK'
  BY AccountsNext, ProgressTypeStep DEF TypesInv
<1>2. SUFFICES LogTypeOK' /\ ClockTypeOK' /\ VerdictTypeOK'
  BY <1>1 DEF TypesInv
<1>3. UNCHANGED logVars => LogTypeOK'
  BY DEF TypesInv, LogTypeOK, J!FileTypeOK, logVars
<1>4. UNCHANGED localVars => VerdictTypeOK'
  BY DEF TypesInv, VerdictTypeOK, localVars
<1>5. CASE NewDay
  <2>1. today' \in Days /\ dataDay' \in Days
    BY <1>5, RunConstants DEF NewDay, TypesInv, ClockTypeOK, Days
  <2>2. QED
    BY <1>3, <1>4, <1>5, <2>1
       DEF NewDay, TypesInv, ClockTypeOK, localVars, countVars
<1>6. CASE Outside
  BY <1>3, <1>4, <1>6 DEF Outside, TypesInv, ClockTypeOK, localVars, marketVars
<1>7. ASSUME NEW r \in Runs, Start(r) \/ Step(r) \/ Fail(r)
      PROVE  LogTypeOK' /\ ClockTypeOK' /\ VerdictTypeOK'
  <2>1. \/ J!AppendRecord(RecordOf(r)) \/ J!InterruptAppend(RecordOf(r))
        \/ UNCHANGED logVars
    BY <1>7 DEF Step, Fail, Start, Check, Decide, Trade, TradeRejected, Write, Finish,
                Raise, SaveRaises, AppendRaises, FinishRaises, Killed, KilledSaving,
                KilledWriting
  <2>2. LogTypeOK'
    BY <2>1, LogTypeStep
  <2>3. QED
    BY <1>7, <2>2, ClockTypeStep
<1>8. CASE UNCHANGED vars
  BY <1>3, <1>4, <1>8 DEF vars, TypesInv, ClockTypeOK, localVars, marketVars, countVars
<1>9. QED
  BY <1>5, <1>6, <1>7, <1>8 DEF Next

\* Runs that overlap, raise or die between any two steps or inside a write leave
\* each other a calendar, accounts and a log that are what the next run expects:
\* every line a whole record or text that does not decode.
THEOREM RunsTypeCorrect == Spec => []TypeOK
<1>1. TypesInv /\ [Next]_vars => TypesInv'
  BY TypesNext
<1>2. TypesInv => TypeOK
  <2>1. SUFFICES ASSUME TypesInv PROVE TypeOK
    OBVIOUS
  <2>2. Price \subseteq Nat
    BY DEF Price
  <2>3. /\ price \in [Symbols -> Nat] /\ closes \in [Runs -> [Symbols -> Nat]]
        /\ execution \in [Runs -> [Symbols -> Nat]] /\ plan \in [Runs -> [Symbols -> Int]]
    BY <2>1, <2>2 DEF TypesInv, AccountsInv, PlansAreOrders
  <2>4. BrokerTypeOK /\ J!FileTypeOK
    BY <2>1 DEF TypesInv, AccountsInv, LogTypeOK
  <2>5. QED
    BY <2>1, <2>3, <2>4
       DEF TypeOK, RunTypeOK, TypesInv, ProgressTypeOK, ClockTypeOK, VerdictTypeOK
<1>3. QED
  BY <1>1, <1>2, TypesInit, PTL DEF Spec

-----------------------------------------------------------------------------
(* Once a date.  What keeps a scheduler from trading a date again is either *)
(* the date's record, or, when the run that traded left none, a newest      *)
(* record that no longer describes the account.                             *)

\* One scheduler at a time and nobody else, on an account whose first cycle is on
\* record and that only runs change; no append is cut short, since a newest
\* record lost that way leaves an older one that may describe the account again;
\* and shares, which are whole, are compared exactly.
Unattended == /\ OneRun /\ Schedulers = Runs
              /\ Baseline /\ MaxDrift = 0
              /\ "append" \notin Failures
              /\ ShareTolerance = 0

\* A run that holds this account, or loads it, does not trade this day.
Caught(day, account) == \/ traded[day] = 0
                        \/ AlreadyRan(day)
                        \/ J!LastRecord.shares # account.shares

CalendarInv == /\ dataDay <= today
               /\ \A d \in Days : d > dataDay => traded[d] = 0

\* A run that decides, or trades, does so on a day nobody has traded, or it is
\* halted; once it has had a fill, some finished order is missing from the record,
\* and a run that closes with a fill that is in memory only has yet to be counted.
RunCaught(r) ==
  pc[r] # "idle" =>
    /\ Caught(dataDay, mem[r])
    /\ disk \in {mem[r], Torn} \/ (pc[r] = "closing" /\ Caught(dataDay, disk))
    /\ pc[r] \in {"deciding", "placing"} =>
         /\ asOf[r] <= dataDay
         /\ asOf[r] < dataDay => traded[dataDay] = 0
         /\ filled[r] = "none" => \/ traded[asOf[r]] = 0
                                  \/ J!LastRecord.shares # mem[r].shares
    /\ pc[r] = "placing" /\ filled[r] = "file" =>
         \E s \in Symbols : plan[r][s] = 0 /\ mem[r].shares[s] # J!LastRecord.shares[s]
    /\ filled[r] = "memory" =>
         /\ pc[r] = "closing"
         /\ asOf[r] <= dataDay /\ traded[asOf[r]] = 0
         /\ J!LastRecord.shares # mem[r].shares

OnceInv ==
  /\ LogIsClean /\ J!HasRecord /\ disk # Absent
  /\ CalendarInv
  /\ OncePerDate
  /\ \A r \in Runs : pc[r] \in {"idle", "checking", "deciding"} => filled[r] = "none"
  /\ Quiet => disk = Torn \/ Caught(dataDay, disk)
  /\ \A r \in Runs : RunCaught(r)

LEMMA ReadKept ==
  ASSUME UNCHANGED logVars
  PROVE  J!ReadRecords' = J!ReadRecords
  BY DEF logVars, J!ReadRecords, J!Readable

\* A completed append loses nothing that was readable.
LEMMA AppendIsRead ==
  ASSUME LogIsClean, NEW record, record # Garbage, J!AppendRecord(record)
  PROVE  /\ record \in J!ReadRecords'
         /\ \A old \in J!ReadRecords : old \in J!ReadRecords'
<1>1. PICK S : lines \in Seq(S)
  BY DEF LogIsClean
<1>2. lines' = Append(lines, record)
  BY DEF LogIsClean, J!AppendRecord, J!Put
<1> DEFINE T == S \cup {record}
<1>3. lines \in Seq(T) /\ record \in T
  <2>1. S \subseteq T
    OBVIOUS
  <2>2. QED
    BY <1>1, <2>1, SeqMonotonic
<1>4. /\ lines' \in Seq(T) /\ Len(lines') = Len(lines) + 1 /\ Len(lines) \in Nat
      /\ DOMAIN lines = 1..Len(lines)
      /\ lines'[Len(lines) + 1] = record
      /\ \A i \in 1..Len(lines) : lines'[i] = lines[i]
  <2> HIDE DEF T
  <2>1. QED
    BY <1>2, <1>3, AppendProperties, LenProperties
<1>5. DOMAIN lines' = 1..Len(lines) + 1
  BY <1>4, LenProperties
<1>6. \A i \in J!Readable : i \in J!Readable' /\ lines'[i] = lines[i]
  BY <1>4, <1>5 DEF J!Readable
<1>7. Len(lines) + 1 \in J!Readable'
  BY <1>4, <1>5 DEF J!Readable
<1>8. QED
  BY <1>4, <1>6, <1>7 DEF J!ReadRecords

\* The newest record is a record.
LEMMA LastIsTyped ==
  ASSUME LogTypeOK, J!HasRecord
  PROVE  J!LastRecord \in CycleRecord
<1>1. lines \in Seq(Line) /\ J!Readable # {}
  BY DEF LogTypeOK, J!FileTypeOK, Line, J!HasRecord
<1>2. DOMAIN lines = 1..Len(lines) /\ Len(lines) \in Nat
  BY <1>1, LenProperties
<1>3. J!Readable \subseteq 1..Len(lines)
  BY <1>2 DEF J!Readable
<1>4. IsFiniteSet(J!Readable)
  <2>1. 1 \in Int /\ Len(lines) \in Int
    BY <1>2
  <2>2. IsFiniteSet(1..Len(lines))
    BY <2>1, FS_Interval
  <2>3. QED
    BY <1>3, <2>2, FS_Subset
<1>5. PICK n \in J!Readable : \A j \in J!Readable : j <= n
  <2>1. J!Readable \in SUBSET Int
    BY <1>2, <1>3
  <2>2. Max(J!Readable) \in J!Readable /\ \A j \in J!Readable : j <= Max(J!Readable)
    BY <1>1, <1>4, <2>1, LargestIsMember
  <2>3. QED
    BY <2>2
<1> DEFINE i == CHOOSE m \in J!Readable : \A j \in J!Readable : j <= m
<1>6. i \in J!Readable
  BY <1>5
<1>7. lines[i] \in Line /\ lines[i] # Garbage
  BY <1>1, <1>2, <1>3, <1>6, ElementOfSeq DEF J!Readable
<1>8. QED
  BY <1>7 DEF J!LastRecord, Line

\* Reconciled to the share is having the shares of the record.
LEMMA AgreesToTheShare ==
  ASSUME TypesInv, J!HasRecord, ShareTolerance = 0, NEW r \in Runs, Agrees(mem[r])
  PROVE  J!LastRecord.shares = mem[r].shares
<1>1. /\ J!LastRecord.shares \in [Symbols -> Int] /\ mem[r].shares \in [Symbols -> Int]
  BY LastIsTyped DEF TypesInv, AccountsInv, BrokerTypeOK, Account, CycleRecord
<1>2. \A s \in Symbols : ~SharesBreak(J!LastRecord.shares, mem[r].shares, s)
  BY <1>1 DEF Agrees, Reconciled
<1>3. \A m, n \in Int : ~Apart(Material(m), Material(n), ShareTolerance) => m = n
  BY DEF Apart, Material
<1>4. \A s \in Symbols : J!LastRecord.shares[s] = mem[r].shares[s]
  BY <1>1, <1>2, <1>3 DEF SharesBreak
<1>5. QED
  BY <1>1, <1>4

\* A fill moves the shares of the order's name, and of no other.
LEMMA FillMovesItsName ==
  ASSUME NEW account \in Account, NEW orders \in [Symbols -> Int], orders # NoPlan, NEW ref,
         NEW filling, filling = Filled(account, OrderFor(Due(orders), orders[Due(orders)]), ref)
  PROVE  /\ Due(orders) \in Symbols /\ orders[Due(orders)] # 0
         /\ filling.shares[Due(orders)] # account.shares[Due(orders)]
         /\ \A s \in Symbols : s # Due(orders) => filling.shares[s] = account.shares[s]
<1> DEFINE d == Due(orders)
           o == OrderFor(d, orders[d])
<1>1. PICK t \in Symbols : orders[t] # 0
  BY DEF NoPlan
<1>2. Symbols \in SUBSET Nat
  BY RunConstants
<1>3. d \in Symbols /\ orders[d] # 0
  BY <1>1, <1>2, DueIsPlanned
<1>4. orders[d] \in Int
  BY <1>3
<1>5. o.symbol = d /\ o.shares \in Nat \ {0}
  BY <1>3, <1>4, OrderForType
<1>6. account.shares \in [Symbols -> Int]
  BY DEF Account
<1> HIDE DEF d, o
<1>7. \/ filling.shares = [account.shares EXCEPT ![d] = account.shares[d] + o.shares]
      \/ filling.shares = [account.shares EXCEPT ![d] = account.shares[d] - o.shares]
  <2>1. filling = Filled(account, o, ref)
    BY DEF o, d
  <2>2. CASE o.side = "BUY"
    BY <1>5, <2>1, <2>2 DEF Filled, Bought
  <2>3. CASE o.side # "BUY"
    BY <1>5, <2>1, <2>3 DEF Filled, Sold
  <2>4. QED
    BY <2>2, <2>3
<1>8. filling.shares[d] # account.shares[d]
  BY <1>3, <1>5, <1>6, <1>7
<1>9. \A s \in Symbols : s # d => filling.shares[s] = account.shares[s]
  BY <1>6, <1>7
<1>10. QED
  BY <1>3, <1>8, <1>9 DEF d

LEMMA OnceInit == Unattended /\ Init => OnceInv
<1>1. SUFFICES ASSUME Unattended, Init PROVE OnceInv
  OBVIOUS
<1>2. /\ \A r \in Runs : pc[r] = "idle" /\ filled[r] = "none"
      /\ \A d \in Days : traded[d] = 0
      /\ dataDay \in {0, 1} /\ today = 1 /\ disk = Flat
      /\ lines = <<FirstRecord>> /\ ~unterminated
  BY <1>1 DEF Init, Unattended
<1>3. LogIsClean
  <2>1. lines \in Seq({FirstRecord})
    BY <1>2
  <2>2. QED
    BY <1>2, <2>1 DEF LogIsClean
<1>4. J!HasRecord
  <2>1. DOMAIN lines = {1} /\ lines[1] # Garbage
    BY <1>2 DEF FirstRecord, Garbage
  <2>2. QED
    BY <2>1 DEF J!HasRecord, J!Readable
<1>5. disk # Absent
  BY <1>2, FlatIsSound, FileMarkers
<1>6. CalendarInv /\ OncePerDate
  BY <1>2 DEF CalendarInv, OncePerDate
<1>7. Caught(dataDay, disk)
  BY <1>2, DayOne DEF Caught
<1>8. QED
  BY <1>2, <1>3, <1>4, <1>5, <1>6, <1>7 DEF OnceInv, RunCaught

\* The day moves on to one that nobody has traded.
LEMMA OnceDay ==
  ASSUME TypesInv, OnceInv, NewDay
  PROVE  OnceInv'
<1>1. /\ UNCHANGED <<brokerVars, logVars, localVars, countVars, traded>>
      /\ today' = today + 1
      /\ dataDay' = today + 1 \/ dataDay' = dataDay
  BY DEF NewDay
<1>2. /\ today \in Nat /\ dataDay \in Nat /\ dataDay <= today
      /\ Days \subseteq Nat /\ today + 1 \in Days
      /\ \A r \in Runs : asOf[r] \in Days
  BY RunConstants DEF NewDay, TypesInv, ClockTypeOK, Days, OnceInv, CalendarInv
<1>3. dataDay' # dataDay => traded[dataDay'] = 0
  BY <1>1, <1>2 DEF OnceInv, CalendarInv
<1>4. /\ LogIsClean' /\ J!HasRecord' /\ disk' # Absent
      /\ J!LastRecord' = J!LastRecord /\ J!ReadRecords' = J!ReadRecords
  BY <1>1, LogKept, ReadKept DEF OnceInv, brokerVars
<1>5. CalendarInv'
  <2>1. dataDay' <= today' /\ dataDay <= dataDay' /\ dataDay' \in Nat
    BY <1>1, <1>2
  <2>2. \A d \in Days : d > dataDay' => traded[d] = 0
    BY <1>2, <2>1 DEF OnceInv, CalendarInv
  <2>3. QED
    BY <1>1, <2>1, <2>2 DEF CalendarInv
<1>6. OncePerDate' /\ \A r \in Runs : pc'[r] \in {"idle", "checking", "deciding"} => filled'[r] = "none"
  BY <1>1 DEF OnceInv, OncePerDate, localVars
<1>7. Quiet' => disk' = Torn \/ Caught(dataDay, disk)'
  BY <1>1, <1>3, <1>4 DEF OnceInv, Quiet, Caught, AlreadyRan, brokerVars, localVars
<1>8. ASSUME NEW r \in Runs PROVE RunCaught(r)'
  <2>1. RunCaught(r)
    BY DEF OnceInv
  <2>2. UNCHANGED <<pc, disk, mem, asOf, filled, plan, traded>>
    BY <1>1 DEF brokerVars, localVars
  <2>3. /\ Caught(dataDay, mem[r]) => Caught(dataDay, mem[r])'
        /\ Caught(dataDay, disk) => Caught(dataDay, disk)'
    BY <1>3, <1>4, <2>2 DEF Caught, AlreadyRan
  <2>4. asOf[r] <= dataDay =>
          asOf[r] <= dataDay' /\ (asOf[r] < dataDay' => dataDay' # dataDay \/ asOf[r] < dataDay)
    <3>1. asOf[r] \in Nat
      BY <1>2
    <3>2. QED
      BY <1>1, <1>2, <3>1
  <2>5. \/ dataDay' = dataDay
        \/ traded[dataDay'] = 0
    BY <1>3
  <2>6. QED
    BY <1>4, <2>1, <2>2, <2>3, <2>4, <2>5 DEF RunCaught
<1>9. QED
  BY <1>4, <1>5, <1>6, <1>7, <1>8 DEF OnceInv

\* A run that trades does so on a day nobody had traded, or one it has counted
\* for; and its fill leaves a finished order that the newest record does not know.
LEMMA OnceFill ==
  ASSUME Unattended, TypesInv, ReconciledInv, OnceInv,
         NEW r \in Runs, pc[r] = "placing", plan[r] # NoPlan
  PROVE  /\ asOf[r] <= dataDay
         /\ asOf[r] < dataDay => traded[dataDay] = 0
         /\ filled[r] \in {"none", "file"}
         /\ filled[r] = "none" => traded[asOf[r]] = 0
         /\ \E s \in Symbols :
              /\ s = Due(plan[r]) \/ plan[r][s] = 0
              /\ Filled(mem[r], NextOrder(r), NextPrice(r)).shares[s]
                   # J!LastRecord.shares[s]
<1>1. /\ mem[r] \in Account /\ plan[r] \in [Symbols -> Int]
      /\ filled[r] \in {"none", "memory", "file"}
  BY DEF TypesInv, AccountsInv, BrokerTypeOK, PlansAreOrders, ProgressTypeOK
<1>2. RunCaught(r)
  BY DEF OnceInv
<1>3. /\ asOf[r] <= dataDay
      /\ asOf[r] < dataDay => traded[dataDay] = 0
      /\ filled[r] \in {"none", "file"}
  BY <1>1, <1>2 DEF RunCaught
<1>4. PICK filling : filling = Filled(mem[r], NextOrder(r), NextPrice(r))
  OBVIOUS
<1>5. /\ Due(plan[r]) \in Symbols /\ plan[r][Due(plan[r])] # 0
      /\ filling.shares[Due(plan[r])] # mem[r].shares[Due(plan[r])]
      /\ \A s \in Symbols : s # Due(plan[r]) => filling.shares[s] = mem[r].shares[s]
  <2>1. PICK account \in Account, orders \in [Symbols -> Int], ref \in {NextPrice(r)} :
          account = mem[r] /\ orders = plan[r]
    BY <1>1
  <2>2. filling = Filled(account, OrderFor(Due(orders), orders[Due(orders)]), ref)
    BY <1>4, <2>1 DEF NextOrder
  <2>3. orders # NoPlan
    BY <2>1
  <2>4. /\ Due(orders) \in Symbols /\ orders[Due(orders)] # 0
        /\ filling.shares[Due(orders)] # account.shares[Due(orders)]
        /\ \A s \in Symbols : s # Due(orders) => filling.shares[s] = account.shares[s]
    BY <2>2, <2>3, FillMovesItsName
  <2>5. QED
    BY <2>1, <2>4
<1>6. CASE filled[r] = "file"
  <2>1. PICK s \in Symbols : plan[r][s] = 0 /\ mem[r].shares[s] # J!LastRecord.shares[s]
    BY <1>2, <1>6 DEF RunCaught
  <2>2. filling.shares[s] # J!LastRecord.shares[s]
    BY <1>5, <2>1
  <2>3. QED
    BY <1>3, <1>4, <1>6, <2>1, <2>2
<1>7. CASE filled[r] = "none"
  <2>1. J!LastRecord.shares = mem[r].shares
    <3>1. Agrees(mem[r])
      BY <1>7 DEF ReconciledInv, Placing
    <3>2. QED
      BY <3>1, AgreesToTheShare DEF Unattended, OnceInv
  <2>2. traded[asOf[r]] = 0
    BY <1>2, <1>7, <2>1 DEF RunCaught
  <2>3. QED
    BY <1>3, <1>4, <1>5, <1>7, <2>1, <2>2
<1>8. QED
  BY <1>3, <1>6, <1>7

\* Counting a run whose day nobody had traded keeps every day's count at one.
LEMMA OnceCounted ==
  ASSUME TypesInv, OnceInv, NEW day \in Days, day <= dataDay,
         \/ UNCHANGED traded
         \/ traded[day] = 0 /\ traded' = [traded EXCEPT ![day] = @ + 1]
  PROVE  \A d \in Days : /\ traded'[d] <= 1 /\ (d > dataDay => traded'[d] = 0)
                         /\ d # day => traded'[d] = traded[d]
<1>1. /\ day \in Int /\ dataDay \in Int /\ \A d \in Days : d \in Int
      /\ traded \in [Days -> Nat]
  BY DEF TypesInv, ClockTypeOK, Days
<1>2. \A d \in Days : traded[d] <= 1 /\ (d > dataDay => traded[d] = 0)
  BY DEF OnceInv, OncePerDate, CalendarInv
<1>3. CASE UNCHANGED traded
  BY <1>2, <1>3
<1>4. CASE traded[day] = 0 /\ traded' = [traded EXCEPT ![day] = @ + 1]
  BY <1>1, <1>2, <1>4
<1>5. QED
  BY <1>3, <1>4

LEMMA OnceStep ==
  ASSUME Unattended, TypesInv, ReconciledInv, OnceInv,
         NEW r \in Runs, Start(r) \/ Step(r) \/ Fail(r)
  PROVE  OnceInv'
<1> DEFINE Rest == /\ LogIsClean' /\ J!HasRecord' /\ disk' # Absent
                   /\ \A d \in Days : traded'[d] <= 1 /\ (d > dataDay => traded'[d] = 0)
                   /\ pc'[r] \in {"idle", "checking", "deciding"} => filled'[r] = "none"
                   /\ pc'[r] = "idle" => disk' = Torn \/ Caught(dataDay, disk)'
                   /\ RunCaught(r)'
<1>1. UNCHANGED marketVars
  BY DEF Step, Fail, Start, Check, Decide, Trade, TradeRejected, Write, Finish, Raise,
         SaveRaises, AppendRaises, FinishRaises, Killed, KilledSaving, KilledWriting
<1>2. \A q \in Runs : q = r
  BY DEF Unattended, OneRun
<1>3. SUFFICES Rest
  BY <1>1, <1>2 DEF OnceInv, CalendarInv, OncePerDate, Quiet, marketVars
<1>4. /\ pc \in [Runs -> {"idle", "checking", "deciding", "placing", "closing"}]
      /\ mem \in [Runs -> Account] /\ filled \in [Runs -> {"none", "memory", "file"}]
      /\ plan \in [Runs -> [Symbols -> Int]] /\ asOf \in [Runs -> Days]
      /\ \A a \in Account : a # Absent
  BY FileMarkers
     DEF TypesInv, AccountsInv, BrokerTypeOK, PlansAreOrders, ClockTypeOK, ProgressTypeOK
<1>5. /\ LogIsClean /\ J!HasRecord /\ disk # Absent
      /\ \A d \in Days : traded[d] <= 1 /\ (d > dataDay => traded[d] = 0)
      /\ pc[r] \in {"idle", "checking", "deciding"} => filled[r] = "none"
      /\ pc[r] = "idle" => disk = Torn \/ Caught(dataDay, disk)
      /\ RunCaught(r)
  BY <1>2 DEF OnceInv, CalendarInv, OncePerDate, Quiet
<1>6. dataDay' = dataDay
  BY <1>1 DEF marketVars
<1>7. UNCHANGED logVars => /\ LogIsClean' /\ J!HasRecord'
                           /\ J!LastRecord' = J!LastRecord /\ J!ReadRecords' = J!ReadRecords
  BY <1>5, LogKept, ReadKept
<1>8. Torn # Absent
  BY DEF Torn, Absent
<1>9. CASE Start(r)
  <2>1. /\ pc[r] = "idle" /\ pc'[r] = "checking" /\ UNCHANGED <<logVars, disk, filled, traded>>
        /\ disk # Torn /\ mem'[r] = disk
    BY <1>4, <1>5, <1>9 DEF Start, Move, Connect
  <2>2. Caught(dataDay, mem[r])'
    BY <1>5, <1>6, <1>7, <2>1 DEF Caught, AlreadyRan
  <2>3. QED
    BY <1>5, <1>7, <2>1, <2>2 DEF RunCaught
<1>10. CASE Check(r)
  <2>1. /\ pc[r] = "checking" /\ pc'[r] \in {"closing", "deciding"}
        /\ pc'[r] = "deciding" => ~AlreadyRan(dataDay) /\ asOf'[r] = dataDay
        /\ UNCHANGED <<logVars, disk, mem, filled, traded>>
    BY <1>4, <1>10 DEF Check, Move, LatestDay, StoreIsEmpty, brokerVars, Unattended
  <2>2. Caught(dataDay, mem[r])' /\ filled[r] = "none" /\ disk \in {mem[r], Torn}
    BY <1>5, <1>6, <1>7, <2>1 DEF Caught, AlreadyRan, RunCaught
  <2>3. ~AlreadyRan(dataDay) => \/ traded[dataDay] = 0
                                \/ J!LastRecord.shares # mem[r].shares
    BY <1>5, <2>1 DEF Caught, RunCaught
  <2>4. dataDay \in Int
    BY DEF TypesInv, ClockTypeOK, Days
  <2>5. RunCaught(r)'
    BY <1>6, <1>7, <2>1, <2>2, <2>3, <2>4 DEF RunCaught
  <2>6. QED
    BY <1>5, <1>7, <2>1, <2>2, <2>5
<1>11. CASE Decide(r)
  <2>1. /\ pc[r] = "deciding" /\ pc'[r] = "placing"
        /\ UNCHANGED <<logVars, disk, mem, asOf, filled, traded>>
    BY <1>4, <1>11 DEF Decide, Move, brokerVars
  <2>2. Caught(dataDay, mem[r])' /\ filled[r] = "none"
    BY <1>5, <1>6, <1>7, <2>1 DEF Caught, AlreadyRan, RunCaught
  <2>3. RunCaught(r)'
    BY <1>5, <1>6, <1>7, <2>1, <2>2 DEF RunCaught
  <2>4. QED
    BY <1>5, <1>7, <2>1, <2>3
<1>12. CASE Trade(r) \/ SaveRaises(r)
  <2>1. /\ pc[r] = "placing" /\ plan[r] # NoPlan
        /\ CountFill(r) \/ (SaveRaises(r) /\ HoldFill(r) /\ disk' = disk)
        /\ UNCHANGED <<logVars, asOf>>
        /\ mem' = [mem EXCEPT ![r] = Filled(mem[r], NextOrder(r), NextPrice(r))]
        /\ disk' \in {Filled(mem[r], NextOrder(r), NextPrice(r)), Torn}
             \/ (SaveRaises(r) /\ disk' = disk)
    BY <1>12 DEF Trade, SaveRaises, Place, PlaceSaveFails, Move
  <2>2. PICK s \in Symbols :
          /\ s = Due(plan[r]) \/ plan[r][s] = 0
          /\ Filled(mem[r], NextOrder(r), NextPrice(r)).shares[s] # J!LastRecord.shares[s]
    BY <2>1, OnceFill
  <2>3. /\ asOf[r] <= dataDay /\ (asOf[r] < dataDay => traded[dataDay] = 0)
        /\ filled[r] \in {"none", "file"} /\ (filled[r] = "none" => traded[asOf[r]] = 0)
        /\ asOf[r] \in Days /\ dataDay \in Days /\ \A d \in Days : d \in Int
    BY <1>4, <2>1, OnceFill DEF TypesInv, ClockTypeOK, Days
  <2>4. /\ \/ traded' = traded
           \/ /\ filled[r] = "none" /\ traded' = [traded EXCEPT ![asOf[r]] = @ + 1]
        /\ filled'[r] \in {"memory", "file"}
        /\ filled'[r] = "memory" => /\ traded' = traded /\ filled[r] = "none"
                                    /\ SaveRaises(r)
    BY <1>4, <2>1, <2>3 DEF CountFill, HoldFill
  <2>5. \A d \in Days : /\ traded'[d] <= 1 /\ (d > dataDay => traded'[d] = 0)
                        /\ d # asOf[r] => traded'[d] = traded[d]
    BY <2>3, <2>4, OnceCounted
  <2>6. asOf[r] < dataDay => traded'[dataDay] = 0
    BY <2>3, <2>5
  <2>7. mem'[r] = Filled(mem[r], NextOrder(r), NextPrice(r))
    BY <1>4, <2>1
  <2>8. mem'[r].shares[s] # J!LastRecord.shares[s]
    BY <2>2, <2>7
  <2>9. mem'[r] # Absent
    <3>1. Accepts(mem[r], NextOrder(r), NextPrice(r))
      BY <1>12 DEF Trade, SaveRaises, Place, PlaceSaveFails
    <3>2. mem'[r] \in Account
      BY <2>1, <2>7, <3>1, NextFillIsSound DEF TypesInv
    <3>3. QED
      BY <1>4, <3>2
  <2>10. Caught(dataDay, mem[r])'
    BY <1>7, <2>1, <2>8 DEF Caught
  <2>11. CASE Trade(r)
    <3>1. pc'[r] = "placing" /\ disk' = mem'[r] /\ filled'[r] = "file"
      BY <1>4, <2>1, <2>7, <2>11 DEF Trade, Place, CountFill
    <3>2. plan'[r][s] = 0
      <4>1. plan'[r] = [plan[r] EXCEPT ![Due(plan[r])] = 0] /\ plan[r] \in [Symbols -> Int]
        BY <1>4, <2>11 DEF Trade, Strike
      <4>2. QED
        BY <2>2, <4>1
    <3>3. RunCaught(r)'
      BY <1>6, <1>7, <2>1, <2>3, <2>6, <2>8, <2>10, <3>1, <3>2 DEF RunCaught
    <3>4. QED
      BY <1>7, <2>1, <2>5, <2>9, <3>1, <3>3
  <2>12. CASE SaveRaises(r)
    <3>1. pc'[r] = "closing" /\ disk' \in {disk, Torn}
      BY <1>4, <2>12 DEF SaveRaises, Move, PlaceSaveFails
    <3>2. disk' \in {mem'[r], Torn} \/ Caught(dataDay, disk)'
      <4>1. CASE disk' = Torn
        BY <4>1
      <4>2. CASE disk' = disk /\ disk # Torn
        <5>1. disk = mem[r] /\ Caught(dataDay, mem[r])
          BY <1>5, <2>1, <4>2 DEF RunCaught
        <5>2. HoldFill(r)
          BY <2>12, <4>2 DEF SaveRaises
        <5>3. traded' = traded
          BY <5>2 DEF HoldFill
        <5>4. QED
          BY <1>6, <1>7, <2>1, <4>2, <5>1, <5>3 DEF Caught, AlreadyRan
      <4>3. QED
        BY <3>1, <4>1, <4>2
    <3>3. J!LastRecord'.shares # mem'[r].shares
      BY <1>7, <2>1, <2>8
    <3>4. RunCaught(r)'
      BY <1>6, <2>1, <2>3, <2>4, <2>10, <3>1, <3>2, <3>3 DEF RunCaught
    <3>5. disk' # Absent
      BY <1>5, <1>8, <3>1
    <3>6. QED
      BY <1>7, <2>1, <2>5, <3>1, <3>4, <3>5
  <2>13. QED
    BY <1>12, <2>11, <2>12
<1>13. CASE TradeRejected(r)
  <2>1. /\ pc[r] = "placing" /\ UNCHANGED <<logVars, pc, disk, mem, asOf, filled, traded>>
        /\ plan'[r] = [plan[r] EXCEPT ![Due(plan[r])] = 0] /\ plan[r] \in [Symbols -> Int]
    BY <1>4, <1>13 DEF TradeRejected, Reject, Strike, brokerVars
  <2>2. \A s \in Symbols : plan[r][s] = 0 => plan'[r][s] = 0
    BY <2>1
  <2>3. Caught(dataDay, mem[r])'
    BY <1>5, <1>6, <1>7, <2>1 DEF Caught, AlreadyRan, RunCaught
  <2>4. RunCaught(r)'
    BY <1>5, <1>6, <1>7, <2>1, <2>2, <2>3 DEF RunCaught
  <2>5. QED
    BY <1>5, <1>7, <2>1, <2>4
<1>14. CASE Write(r)
  <2>1. /\ pc[r] = "placing" /\ pc'[r] = "closing"
        /\ UNCHANGED <<disk, mem, filled, traded>>
        /\ J!AppendRecord(RecordOf(r)) /\ RecordOf(r) # Garbage
    BY <1>4, <1>14, RecordDecodes DEF Write, Move, brokerVars
  <2>2. LogIsClean' /\ J!HasRecord'
    BY <1>5, <2>1, AppendIsLast
  <2>3. RecordOf(r) \in J!ReadRecords' /\ \A old \in J!ReadRecords : old \in J!ReadRecords'
    BY <1>5, <2>1, AppendIsRead
  <2>4. RecordOf(r).asOf = asOf[r]
    BY DEF RecordOf
  <2>5. Caught(dataDay, mem[r])'
    <3>1. CASE asOf[r] = dataDay
      <4>1. \E record \in J!ReadRecords' : record.asOf = dataDay'
        BY <1>6, <2>3, <2>4, <3>1
      <4>2. QED
        BY <4>1 DEF Caught, AlreadyRan
    <3>2. CASE asOf[r] # dataDay
      <4>1. asOf[r] \in Int /\ dataDay \in Int
        BY <1>4 DEF TypesInv, ClockTypeOK, Days
      <4>2. asOf[r] <= dataDay /\ (asOf[r] < dataDay => traded[dataDay] = 0)
        BY <1>5, <2>1 DEF RunCaught
      <4>3. traded'[dataDay'] = 0
        BY <1>6, <2>1, <3>2, <4>1, <4>2
      <4>4. QED
        BY <4>3 DEF Caught
    <3>3. QED
      BY <3>1, <3>2
  <2>6. disk \in {mem[r], Torn} /\ filled[r] # "memory"
    BY <1>5, <2>1 DEF RunCaught
  <2>7. RunCaught(r)'
    BY <2>1, <2>5, <2>6 DEF RunCaught
  <2>8. QED
    BY <1>5, <2>1, <2>2, <2>7
<1>15. CASE Finish(r)
  <2>1. /\ pc[r] = "closing" /\ pc'[r] = "idle" /\ filled'[r] = "none" /\ disk' = mem[r]
        /\ UNCHANGED logVars
        /\ traded' = IF filled[r] = "memory" THEN [traded EXCEPT ![asOf[r]] = @ + 1] ELSE traded
    BY <1>4, <1>15 DEF Finish, Forget, Disconnect
  <2>2. CASE filled[r] = "memory"
    <3>1. /\ asOf[r] \in Days /\ asOf[r] <= dataDay /\ traded[asOf[r]] = 0
          /\ J!LastRecord.shares # mem[r].shares
      BY <1>4, <1>5, <2>1, <2>2 DEF RunCaught
    <3>2. \A d \in Days : traded'[d] <= 1 /\ (d > dataDay => traded'[d] = 0)
      BY <2>1, <2>2, <3>1, OnceCounted
    <3>3. Caught(dataDay, disk)'
      BY <1>7, <2>1, <3>1 DEF Caught
    <3>4. QED
      BY <1>4, <1>7, <2>1, <3>2, <3>3 DEF RunCaught
  <2>3. CASE filled[r] # "memory"
    <3>1. Caught(dataDay, disk)'
      BY <1>5, <1>6, <1>7, <2>1, <2>3 DEF Caught, AlreadyRan, RunCaught
    <3>2. QED
      BY <1>4, <1>5, <1>7, <2>1, <2>3, <3>1 DEF RunCaught
  <2>4. QED
    BY <2>2, <2>3
<1>16. CASE Raise(r)
  <2>1. /\ pc[r] \in {"checking", "deciding"} /\ pc'[r] = "closing"
        /\ UNCHANGED <<logVars, disk, mem, filled, traded>>
    BY <1>4, <1>16 DEF Raise, brokerVars
  <2>2. Caught(dataDay, mem[r])' /\ filled[r] = "none" /\ disk \in {mem[r], Torn}
    BY <1>5, <1>6, <1>7, <2>1 DEF Caught, AlreadyRan, RunCaught
  <2>3. RunCaught(r)'
    BY <2>1, <2>2 DEF RunCaught
  <2>4. QED
    BY <1>5, <1>7, <2>1, <2>3
<1>17. CASE FinishRaises(r) \/ Killed(r) \/ KilledSaving(r)
  <2>1. /\ pc[r] # "idle" /\ pc'[r] = "idle" /\ filled'[r] = "none"
        /\ disk' \in {disk, Torn} /\ UNCHANGED <<logVars, traded>>
    BY <1>4, <1>17 DEF FinishRaises, Killed, KilledSaving, Forget, Die, DieSaving
  <2>2. disk = Torn \/ Caught(dataDay, disk)
    BY <1>5, <2>1 DEF RunCaught
  <2>3. disk' = Torn \/ Caught(dataDay, disk)'
    BY <1>6, <1>7, <2>1, <2>2 DEF Caught, AlreadyRan
  <2>4. QED
    BY <1>5, <1>7, <1>8, <2>1, <2>3 DEF RunCaught
<1>18. ~AppendRaises(r) /\ ~KilledWriting(r)
  BY DEF Unattended, AppendRaises, KilledWriting, Fault
<1>19. QED
  BY <1>9, <1>10, <1>11, <1>12, <1>13, <1>14, <1>15, <1>16, <1>17, <1>18
     DEF Step, Fail

LEMMA OnceNext ==
  ASSUME Unattended, TypesInv, ReconciledInv, OnceInv, [Next]_vars
  PROVE  OnceInv'
<1>1. ~Outside
  BY DEF Outside, Unattended, TypesInv, ClockTypeOK
<1>2. CASE UNCHANGED vars
  <2>1. UNCHANGED <<marketVars, brokerVars, logVars, localVars, traded>>
    BY <1>2 DEF vars
  <2>2. /\ LogIsClean' /\ J!HasRecord'
        /\ J!LastRecord' = J!LastRecord /\ J!ReadRecords' = J!ReadRecords
    BY <2>1, LogKept, ReadKept DEF OnceInv
  <2>3. CalendarInv' /\ OncePerDate' /\ disk' # Absent
    BY <2>1 DEF OnceInv, CalendarInv, OncePerDate, marketVars, brokerVars
  <2>4. \A r \in Runs : pc'[r] \in {"idle", "checking", "deciding"} => filled'[r] = "none"
    BY <2>1 DEF OnceInv, localVars
  <2>5. Quiet' => disk' = Torn \/ Caught(dataDay, disk)'
    BY <2>1, <2>2 DEF OnceInv, Quiet, Caught, AlreadyRan, marketVars, brokerVars, localVars
  <2>6. ASSUME NEW r \in Runs PROVE RunCaught(r)'
    <3>1. RunCaught(r) /\ UNCHANGED <<pc, disk, mem, asOf, filled, plan, traded, dataDay>>
      BY <2>1 DEF OnceInv, marketVars, brokerVars, localVars
    <3>2. /\ Caught(dataDay, mem[r]) => Caught(dataDay, mem[r])'
          /\ Caught(dataDay, disk) => Caught(dataDay, disk)'
      BY <2>2, <3>1 DEF Caught, AlreadyRan
    <3>3. QED
      BY <2>2, <3>1, <3>2 DEF RunCaught
  <2>7. QED
    BY <2>2, <2>3, <2>4, <2>5, <2>6 DEF OnceInv
<1>3. QED
  BY <1>1, <1>2, OnceDay, OnceStep DEF Next

\* A date is traded by one run: whichever of its steps a scheduler raised or died
\* in, and however often cron starts it again.
THEOREM RunsTradeOncePerDate ==
  ASSUME Unattended
  PROVE  Spec => []OncePerDate
<1>1. TypesInv /\ [Next]_vars => TypesInv'
  BY TypesNext
<1>2. TypesInv /\ ReconciledInv /\ [Next]_vars => ReconciledInv'
  BY ReconciledStep DEF Unattended, TypesInv
<1>3. TypesInv /\ ReconciledInv /\ OnceInv /\ [Next]_vars => OnceInv'
  BY OnceNext
<1>4. OnceInv => OncePerDate
  BY DEF OnceInv
<1>5. Init => TypesInv /\ ReconciledInv /\ OnceInv
  BY TypesInit, ProgressInit, OnceInit
<1>6. QED
  BY <1>1, <1>2, <1>3, <1>4, <1>5, PTL DEF Spec

-----------------------------------------------------------------------------
(* Funded plans.  What the buffer holds back pays for the spread and the    *)
(* commission of selling all there is and buying all that is wanted.        *)

\* The costs of an order are a part of its worth that the buffer holds back
\* twice, once of what is sold and once of what is bought.
BufferPays(list, s) ==
  \A n \in Nat \ {0}, side \in {"BUY", "SELL"} :
    (200 - CashBuffer) * (n * HalfSpread + Commission(n, FillPrice(side, list[s])))
      <= CashBuffer * (n * list[s])

\* Every name has a bar, and a share of it is worth an order; nothing is quoted
\* live; and the gate lends nothing.
Affordable ==
  /\ Schedulers = Runs \/ QuoteLists = {}
  /\ MaxGrossExposure <= 100
  /\ \A list \in PriceLists, s \in Symbols : list[s] >= MinTradeValue /\ BufferPays(list, s)

\* What an order takes out of the cash; a sell takes less than nothing.
Needs(s, delta, ref) ==
  LET o == OrderFor(s, delta)
  IN  IF delta = 0 THEN 0
      ELSE IF delta > 0 THEN Value(o, ref) + Fee(o, ref)
      ELSE Fee(o, ref) - Value(o, ref)

NeedsOf(orders, list) == SumOf([s \in Symbols |-> Needs(s, orders[s], list[s])], Symbols)

\* The cash there is and the sells to come pay for the buys to come.
PlanIsFunded(r) ==
  /\ pc[r] # "idle" => connected[r]
  /\ pc[r] \in {"idle", "checking", "deciding"} => plan[r] = NoPlan
  /\ pc[r] \in {"deciding", "placing"} => closes[r] \in PriceLists \cup {NoCloses}
  /\ Placing(r) =>
       /\ closes[r] \in PriceLists /\ execution[r] = closes[r]
       /\ \A s \in Symbols : plan[r][s] >= 0 \/ mem[r].shares[s] + plan[r][s] >= 0
       /\ NeedsOf(plan[r], execution[r]) <= mem[r].cash

FundedInv == price \in PriceLists /\ \A r \in Runs : PlanIsFunded(r)

LEMMA ListsAre ==
  ASSUME Affordable, NEW list \in PriceLists
  PROVE  list \in [Symbols -> Price] /\ \A s \in Symbols : list[s] \in Nat /\ list[s] > HalfSpread
<1>1. list \in [Symbols -> Price]
  BY ListsOfPrices
<1>2. ASSUME NEW s \in Symbols PROVE list[s] \in Nat /\ list[s] > HalfSpread
  <2>1. list[s] \in Nat /\ (list[s] = 0 \/ list[s] > HalfSpread)
    BY <1>1 DEF Price
  <2>2. list[s] >= MinTradeValue
    BY DEF Affordable
  <2>3. QED
    BY <2>1, <2>2, MinTradeValueIsPositive
<1>3. QED
  BY <1>1, <1>2

\* What an order needs is its worth and its costs.
LEMMA NeedsIs ==
  ASSUME NEW s \in Symbols, NEW delta \in Int, delta # 0, NEW ref \in Nat, ref > HalfSpread
  PROVE  LET o == OrderFor(s, delta)
             n == OrderFor(s, delta).shares
             fee == Commission(n, FillPrice(o.side, ref))
         IN  /\ n \in Nat \ {0} /\ fee \in Nat /\ n = Size(delta)
             /\ Fee(o, ref) = fee
             /\ Needs(s, delta, ref) = delta * ref + n * HalfSpread + fee
             /\ Needs(s, delta, ref) = IF delta > 0 THEN Value(o, ref) + Fee(o, ref)
                                                    ELSE Fee(o, ref) - Value(o, ref)
             /\ delta > 0 => Needs(s, delta, ref) \in Nat
<1> DEFINE o == OrderFor(s, delta)
           n == o.shares
           p == FillPrice(o.side, ref)
           fee == Commission(n, p)
<1>1. /\ o.side = IF delta < 0 THEN "SELL" ELSE "BUY"
      /\ n = IF delta < 0 THEN -delta ELSE delta
      /\ n \in Nat \ {0}
  BY OrderForType
<1> HIDE DEF o
<1>2. p \in Nat /\ HalfSpread \in Nat
  BY <1>1, CostConstants DEF FillPrice
<1> HIDE DEF p
<1>3. n * p \in Nat /\ PerShare * n \in Nat
  BY <1>1, <1>2, ProductNat, CostConstants
<1>4. (n * p) \div ValueDivisor \in 0..(n * p)
  BY <1>3, QuotientBounds, CostConstants
<1>5. fee \in Nat
  BY <1>3, <1>4, CostConstants DEF Commission, Larger, Smaller
<1>6. Value(o, ref) = n * p /\ Fee(o, ref) = fee
  BY DEF Value, Fee, p
<1>7. n * HalfSpread \in Nat /\ n * ref \in Nat
  BY <1>1, <1>2, ProductNat
<1>8. CASE delta > 0
  <2>1. p = ref + HalfSpread /\ n = delta
    BY <1>1, <1>8 DEF p, FillPrice
  <2>2. n * p = n * ref + n * HalfSpread
    BY <1>1, <1>2, <2>1
  <2>3. Needs(s, delta, ref) = n * p + fee
    BY <1>6, <1>8 DEF Needs, o
  <2>4. Needs(s, delta, ref) = delta * ref + n * HalfSpread + fee /\ n = Size(delta)
    BY <1>5, <1>7, <1>8, <2>1, <2>2, <2>3 DEF Size
  <2> HIDE DEF fee, n
  <2>5. Needs(s, delta, ref) \in Nat
    BY <1>3, <1>5, <2>3
  <2>6. QED
    BY <1>1, <1>5, <1>6, <1>8, <2>3, <2>4, <2>5 DEF fee, n, o, p
<1>9. CASE delta < 0
  <2>1. p = ref - HalfSpread /\ n = -delta
    BY <1>1, <1>9 DEF p, FillPrice
  <2>2. n * p = n * ref - n * HalfSpread /\ n * ref = -(delta * ref)
    BY <1>1, <1>2, <2>1
  <2>3. Needs(s, delta, ref) = fee - n * p
    BY <1>6, <1>9 DEF Needs, o
  <2>4. Needs(s, delta, ref) = delta * ref + n * HalfSpread + fee /\ n = Size(delta)
    BY <1>5, <1>7, <1>9, <2>1, <2>2, <2>3 DEF Size
  <2> HIDE DEF fee, n
  <2>5. QED
    BY <1>1, <1>5, <1>6, <1>9, <2>3, <2>4 DEF fee, n, o, p
<1>10. QED
  BY <1>8, <1>9

\* The buffer pays for what a symbol needs, when so much is wanted and held.
Covered(needs, wanted, held) ==
  (200 - CashBuffer) * needs <= 200 * wanted - (200 - 2 * CashBuffer) * held

\* ... which the buffer bounds by the order's worth.
LEMMA NeedsAreBounded ==
  ASSUME Affordable, NEW list \in PriceLists, NEW s \in Symbols,
         NEW held \in Nat, NEW want \in Nat, NEW delta \in Int,
         delta = want - held
  PROVE  /\ Needs(s, delta, list[s]) \in Int
         /\ want * list[s] \in Nat /\ held * list[s] \in Nat
         /\ Covered(Needs(s, delta, list[s]), want * list[s], held * list[s])
<1> DEFINE ref == list[s]
           B == CashBuffer
           v == want * ref
           h == held * ref
<1>1. ref \in Nat /\ ref > HalfSpread /\ B \in Nat /\ B <= 100
  BY ListsAre, RunConstants
<1> HIDE DEF ref, B
<1>2. v \in Nat /\ h \in Nat
  BY <1>1, ProductNat
<1>3. CASE delta = 0
  <2>1. Needs(s, delta, ref) = 0 /\ v = h
    BY <1>3 DEF Needs
  <2>2. 2 * B \in Nat /\ B * h \in Nat
    BY <1>1, <1>2, ProductNat
  <2>3. (200 - 2 * B) * h = 200 * h - 2 * (B * h)
    BY <1>1, <1>2
  <2> HIDE DEF v, h
  <2>4. 0 <= 200 * v - (200 - 2 * B) * h
    BY <1>2, <2>1, <2>2, <2>3
  <2>5. (200 - B) * Needs(s, delta, ref) = 0
    BY <1>1, <2>1
  <2>6. QED
    BY <1>2, <2>1, <2>4, <2>5 DEF ref, B, v, h, Covered
<1>4. CASE delta # 0
  <2> DEFINE o == OrderFor(s, delta)
             n == OrderFor(s, delta).shares
             fee == Commission(n, FillPrice(o.side, ref))
             costs == n * HalfSpread + fee
  <2>1. /\ n \in Nat \ {0} /\ fee \in Nat /\ n = Size(delta)
        /\ Needs(s, delta, ref) = delta * ref + n * HalfSpread + fee
    BY <1>1, <1>4, NeedsIs
  <2>2. o.side \in {"BUY", "SELL"}
    BY <1>4, OrderForType
  <2>3. (200 - B) * costs <= B * (n * ref)
    BY <2>1, <2>2 DEF Affordable, BufferPays, ref, B
  <2>4. delta * ref = v - h
    BY <1>1, <1>4
  <2>5. n * ref \in Nat /\ n * ref <= v + h
    <3>1. n \in Nat /\ n <= want + held /\ want + held \in Nat
      BY <1>4, <2>1 DEF Size
    <3>2. n * ref \in Nat /\ n * ref <= (want + held) * ref
      <4> HIDE DEF n
      <4>1. QED
        BY <1>1, <3>1, ProductsCompare, ProductNat
    <3>3. (want + held) * ref = v + h
      BY <1>1, Distributes
    <3>4. QED
      BY <3>2, <3>3
  <2>6. costs \in Nat
    BY <2>1, CostConstants, ProductNat
  <2>7. Needs(s, delta, ref) = (v - h) + costs
    <3>1. n * HalfSpread \in Nat
      BY <2>1, CostConstants, ProductNat
    <3> HIDE DEF v, h, n, fee
    <3>2. QED
      BY <1>2, <2>1, <2>4, <3>1
  <2> DEFINE worth == n * ref
  <2> HIDE DEF v, h, costs, worth
  <2>8. B * worth <= B * (v + h)
    BY <1>1, <1>2, <2>5, ProductsCompare DEF worth
  <2>9. /\ (200 - B) * ((v - h) + costs) = (200 * v - 200 * h) - (B * v - B * h) + (200 - B) * costs
        /\ B * (v + h) = B * v + B * h
        /\ (200 - 2 * B) * h = 200 * h - 2 * (B * h)
        /\ B * v \in Nat /\ B * h \in Nat /\ (200 - B) * costs \in Int /\ B * worth \in Int
    BY <1>1, <1>2, <2>5, <2>6 DEF worth
  <2>10. (200 - B) * costs <= B * worth
    BY <2>3 DEF worth
  <2>11. (200 - B) * ((v - h) + costs) <= 200 * v - (200 - 2 * B) * h
    <3> DEFINE bv == B * v
               bh == B * h
               c == (200 - B) * costs
               w == B * worth
               x == (200 - B) * ((v - h) + costs)
               y == (200 - 2 * B) * h
    <3>1. /\ x = (200 * v - 200 * h) - (bv - bh) + c /\ y = 200 * h - 2 * bh
          /\ bv \in Nat /\ bh \in Nat /\ c \in Int /\ w \in Int
          /\ c <= w /\ w <= bv + bh
      BY <2>8, <2>9, <2>10
    <3> HIDE DEF bv, bh, c, w, x, y
    <3>2. x <= 200 * v - y
      BY <1>2, <3>1
    <3>3. QED
      BY <3>2 DEF x, y
  <2>12. Needs(s, delta, ref) \in Int
    BY <1>2, <2>6, <2>7
  <2>13. QED
    BY <1>2, <2>7, <2>11, <2>12 DEF ref, B, v, h, Covered
<1>5. QED
  BY <1>3, <1>4

\* What the gate lets through is within what may be invested.
LEMMA WantIsWithin ==
  ASSUME Affordable, NEW list \in PriceLists, NEW want \in [Symbols -> Nat], NEW investable \in Nat,
         Sized(want, list, investable)
  PROVE  LET worth == SumOf([s \in Symbols |-> want[s] * list[s]], Symbols)
         IN  worth \in Nat /\ worth <= investable
<1>0. Products(want, list, Symbols) = SumOf([s \in Symbols |-> want[s] * list[s]], Symbols)
  <2>1. IsFiniteSet(Symbols)
    BY RunConstants
  <2>2. QED
    BY <2>1, ProductsAreSum
<1> DEFINE p == [s \in Symbols |-> want[s] * list[s]]
           worth == SumOf(p, Symbols)
           sized == Products(want, list, Symbols)
<1>1. \A s \in Symbols : p[s] \in Nat
  BY ListsAre, ProductNat
<1>2. sized = worth
  BY <1>0, Zenon
<1>3. 100 * sized <= MaxGrossExposure * investable
  BY Zenon DEF Sized, Products
<1> HIDE DEF p, sized
<1>4. worth \in Nat
  BY <1>1, SumIsNat, RunConstants
<1>5. MaxGrossExposure * investable <= 100 * investable
  BY RiskLimitsAreNat, ProductsCompare DEF Affordable
<1> HIDE DEF worth
<1>6. MaxGrossExposure * investable \in Nat
  BY RiskLimitsAreNat, ProductNat
<1>7. worth <= investable
  BY <1>2, <1>3, <1>4, <1>5, <1>6
<1>8. QED
  BY <1>4, <1>7 DEF worth, p

\* The account is worth its cash and what it holds at the closes.
LEMMA EquityOfPriced ==
  ASSUME Affordable, NEW list \in PriceLists, NEW account \in Account, Sound(account)
  PROVE  LET worth == SumOf([s \in Symbols |-> account.shares[s] * list[s]], Symbols)
         IN  /\ worth \in Nat
             /\ Equity(account, list) = account.cash + worth
             /\ Investable(Equity(account, list)) \in Nat
             /\ 100 * Investable(Equity(account, list)) <= (100 - CashBuffer) * (account.cash + worth)
<1> DEFINE h == [s \in Symbols |-> account.shares[s] * list[s]]
           worth == SumOf(h, Symbols)
           c == [s \in Symbols |-> Carried(account, list, s)]
<1>1. \A s \in Symbols : list[s] \in Nat /\ list[s] # 0 /\ account.shares[s] \in Nat
  BY ListsAre, CostConstants DEF Account, Sound
<1>2. \A s \in Symbols : h[s] \in Nat /\ c[s] = h[s]
  BY <1>1, ProductNat DEF Carried
<1>3. Equity(account, list) = account.cash + SumOf(c, Symbols)
  BY EquityIsSum
<1> HIDE DEF h, c
<1>4. worth \in Nat /\ SumOf(c, Symbols) = worth
  BY <1>2, SumIsNat, SameSums, RunConstants
<1> DEFINE equity == account.cash + worth
<1>5. account.cash \in Nat
  BY DEF Account, Sound
<1> HIDE DEF worth
<1>6. equity \in Nat /\ Equity(account, list) = equity
  BY <1>3, <1>4, <1>5
<1> HIDE DEF equity
<1>7. 100 - CashBuffer \in Nat
  BY RunConstants
<1>8. equity * (100 - CashBuffer) \in Nat /\ equity * (100 - CashBuffer) = (100 - CashBuffer) * equity
  BY <1>6, <1>7, ProductNat
<1>9. /\ Investable(equity) \in Nat
      /\ 100 * Investable(equity) <= (100 - CashBuffer) * equity
  <2> DEFINE a == equity * (100 - CashBuffer)
  <2>1. a \in Nat
    BY <1>8
  <2> HIDE DEF a
  <2>2. a \div 100 \in Nat /\ 100 * (a \div 100) <= a
    BY <2>1, Quotient
  <2>3. QED
    BY <1>8, <2>2 DEF a, Investable
<1>10. QED
  BY <1>4, <1>6, <1>9 DEF worth, h, equity

\* What is decided is funded, by what the account holds back and by its sells.
LEMMA DecidedIsFunded ==
  ASSUME Affordable, NEW list \in PriceLists, NEW account \in Account, Sound(account),
         NEW want \in [Symbols -> Nat], Sized(want, list, Investable(Equity(account, list)))
  PROVE  NeedsOf(OrdersFor(account.shares, want, list), list) <= account.cash
<1> DEFINE orders == OrdersFor(account.shares, want, list)
           B == CashBuffer
           k == 200 - 2 * CashBuffer
           needs == [s \in Symbols |-> Needs(s, orders[s], list[s])]
           wanted == [s \in Symbols |-> want[s] * list[s]]
           held == [s \in Symbols |-> account.shares[s] * list[s]]
           bound == [s \in Symbols |-> 200 * wanted[s] + (-k) * held[s]]
           N == SumOf(needs, Symbols)
           W == SumOf(wanted, Symbols)
           H == SumOf(held, Symbols)
           invest == Investable(Equity(account, list))
<1>1. /\ B \in Nat /\ B <= 100 /\ k \in Nat /\ k = 200 - 2 * B
      /\ IsFiniteSet(Symbols) /\ account.cash \in Nat
  BY RunConstants DEF Account, Sound
<1>2. ASSUME NEW s \in Symbols
      PROVE  /\ needs[s] \in Int /\ wanted[s] \in Nat /\ held[s] \in Nat
             /\ (200 - B) * needs[s] <= 200 * wanted[s] - k * held[s]
  <2>1. /\ account.shares \in [Symbols -> Int] /\ account.shares[s] \in Nat /\ want[s] \in Nat
        /\ list \in [Symbols -> Nat] /\ list[s] \in Nat /\ list[s] >= MinTradeValue
    BY ListsAre DEF Account, Sound, Affordable
  <2>2. orders[s] \in {0, want[s] - account.shares[s]}
    BY <2>1, OrdersForType
  <2>3. ASSUME want[s] # account.shares[s] PROVE orders[s] # 0
    <3> DEFINE delta == want[s] - account.shares[s]
    <3>1. delta \in Int /\ delta # 0
      BY <2>1, <2>3
    <3>2. Size(delta) \in Nat /\ 1 <= Size(delta)
      BY <3>1 DEF Size
    <3>3. 1 * list[s] <= Size(delta) * list[s] /\ Size(delta) * list[s] \in Nat
      <4> DEFINE n == Size(delta)
      <4> HIDE DEF n
      <4>1. 1 * list[s] <= n * list[s] /\ n * list[s] \in Nat
        BY <2>1, <3>2, ProductsCompare, ProductNat DEF n
      <4>2. QED
        BY <4>1 DEF n
    <3>4. ~(Size(delta) * list[s] < MinTradeValue)
      BY <2>1, <3>3, MinTradeValueIsPositive
    <3>5. orders[s] = IF Size(delta) * list[s] < MinTradeValue THEN 0 ELSE delta
      BY <2>1 DEF OrdersFor
    <3>6. QED
      BY <3>1, <3>4, <3>5
  <2> HIDE DEF orders
  <2>4. PICK w \in Nat, h \in Nat, delta \in Int :
          w = want[s] /\ h = account.shares[s] /\ delta = orders[s] /\ delta = w - h
    BY <2>1, <2>2, <2>3
  <2>5. /\ Needs(s, delta, list[s]) \in Int
        /\ w * list[s] \in Nat /\ h * list[s] \in Nat
        /\ Covered(Needs(s, delta, list[s]), w * list[s], h * list[s])
    BY <2>4, NeedsAreBounded
  <2>6. /\ needs[s] = Needs(s, delta, list[s])
        /\ wanted[s] = w * list[s] /\ held[s] = h * list[s]
    BY <2>4
  <2> HIDE DEF needs, wanted, held
  <2>7. QED
    BY <2>5, <2>6 DEF Covered
<1> HIDE DEF needs, wanted, held, B, k
<1>3. \A s \in Symbols : bound[s] = 200 * wanted[s] + (-k) * held[s] /\ bound[s] \in Int
  BY <1>1, <1>2
<1> HIDE DEF bound
<1>4. (200 - B) * N <= 1 * SumOf(bound, Symbols)
  <2> DEFINE a == 200 - B
             b == 1
  <2>1. a \in Int /\ b \in Int
    BY <1>1
  <2>2. ASSUME NEW s \in Symbols
        PROVE  needs[s] \in Int /\ bound[s] \in Int /\ a * needs[s] <= b * bound[s]
    BY <1>1, <1>2, <1>3
  <2>3. IsFiniteSet(Symbols)
    BY <1>1
  <2> HIDE DEF a, b
  <2>4. a * N <= b * SumOf(bound, Symbols)
    BY <2>1, <2>2, <2>3, SumsCompare
  <2>5. QED
    BY <2>4 DEF a, b
<1>5. SumOf(bound, Symbols) = 200 * W + (-k) * H
  <2>1. 200 \in Int /\ -k \in Int
    BY <1>1
  <2>2. \A s \in Symbols : wanted[s] \in Int /\ held[s] \in Int
    BY <1>2
  <2>3. QED
    BY <1>1, <1>3, <2>1, <2>2, SumsCombine
<1>6. H \in Nat /\ invest \in Nat /\ 100 * invest <= (100 - B) * (account.cash + H)
  BY EquityOfPriced DEF held, B
<1>7. W \in Nat /\ W <= invest
  BY <1>6, WantIsWithin DEF wanted
<1>8. N \in Int
  BY <1>1, <1>2, SumIsNumber
<1> HIDE DEF N, W, H, invest
<1>9. /\ 2 * ((100 - B) * (account.cash + H)) = k * account.cash + k * H
      /\ k * account.cash \in Nat /\ k * H \in Nat /\ (-k) * H = -(k * H)
      /\ (100 - B) * (account.cash + H) \in Int
  BY <1>1, <1>6
<1>10. (200 - B) * N \in Int
  BY <1>1, <1>8
<1>11. (200 - B) * N <= k * account.cash
  <2> DEFINE x == (200 - B) * N
             y == k * account.cash
             z == k * H
             e == (100 - B) * (account.cash + H)
  <2>1. /\ x <= 200 * W - z /\ x \in Int /\ y \in Nat /\ z \in Nat /\ e \in Int
        /\ 100 * invest <= e /\ 2 * e = y + z
    BY <1>4, <1>5, <1>6, <1>7, <1>9, <1>10
  <2> HIDE DEF x, y, z, e
  <2>2. x <= y
    BY <1>6, <1>7, <2>1
  <2>3. QED
    BY <2>2 DEF x, y
<1>12. k * account.cash <= account.cash * (200 - B) /\ account.cash * (200 - B) \in Nat
  <2>1. 200 - B \in Nat /\ k <= 200 - B
    BY <1>1
  <2>2. k * account.cash <= (200 - B) * account.cash /\ (200 - B) * account.cash \in Nat
    BY <1>1, <2>1, ProductsCompare, ProductNat
  <2>3. QED
    BY <1>1, <2>1, <2>2
<1>13. N <= account.cash
  <2>1. (200 - B) * N <= account.cash * (200 - B)
    BY <1>9, <1>10, <1>11, <1>12
  <2>2. 200 - B \in Nat \ {0}
    BY <1>1
  <2>3. QED
    BY <1>1, <1>8, <2>1, <2>2, Cancels
<1>14. QED
  BY <1>13 DEF N, needs, NeedsOf

\* What any order needs is a number.
LEMMA NeedsAre ==
  ASSUME Affordable, NEW list \in PriceLists, NEW s \in Symbols, NEW delta \in Int
  PROVE  LET o == OrderFor(s, delta)
         IN  /\ Needs(s, delta, list[s]) \in Int
             /\ delta > 0 => /\ Needs(s, delta, list[s]) = Value(o, list[s]) + Fee(o, list[s])
                            /\ Needs(s, delta, list[s]) \in Nat
             /\ delta < 0 => Needs(s, delta, list[s]) = Fee(o, list[s]) - Value(o, list[s])
<1>1. CASE delta = 0
  BY <1>1 DEF Needs
<1>2. CASE delta # 0
  <2> DEFINE n == OrderFor(s, delta).shares
             fee == Commission(n, FillPrice(OrderFor(s, delta).side, list[s]))
             needs == Needs(s, delta, list[s])
  <2>1. list[s] \in Nat /\ list[s] > HalfSpread /\ HalfSpread \in Nat
    BY ListsAre, CostConstants
  <2>2. /\ n \in Nat /\ fee \in Nat
        /\ needs = delta * list[s] + n * HalfSpread + fee
        /\ delta > 0 => needs \in Nat
    BY <1>2, <2>1, NeedsIs
  <2>3. /\ delta > 0 => needs = Value(OrderFor(s, delta), list[s]) + Fee(OrderFor(s, delta), list[s])
        /\ delta < 0 => needs = Fee(OrderFor(s, delta), list[s]) - Value(OrderFor(s, delta), list[s])
    BY <1>2 DEF Needs
  <2>4. needs \in Int
    <3> HIDE DEF n, fee, needs
    <3>1. QED
      BY <2>1, <2>2
  <2>5. QED
    BY <2>2, <2>3, <2>4
<1>3. QED
  BY <1>1, <1>2

\* A name struck from the plan leaves what the others need.
LEMMA NeedsWithout ==
  ASSUME Affordable, NEW list \in PriceLists, NEW orders \in [Symbols -> Int], NEW d \in Symbols
  PROVE  LET needs == [s \in Symbols |-> Needs(s, orders[s], list[s])]
         IN  /\ \A s \in Symbols : needs[s] \in Int
             /\ NeedsOf(orders, list) = needs[d] + SumOf(needs, Symbols \ {d})
             /\ SumOf(needs, Symbols \ {d}) \in Int
             /\ NeedsOf([orders EXCEPT ![d] = 0], list) = SumOf(needs, Symbols \ {d})
<1> DEFINE needs == [s \in Symbols |-> Needs(s, orders[s], list[s])]
           struck == [orders EXCEPT ![d] = 0]
           rest == [s \in Symbols |-> Needs(s, struck[s], list[s])]
<1>1. IsFiniteSet(Symbols) /\ IsFiniteSet(Symbols \ {d})
  BY RunConstants, FS_Difference
<1>2. ASSUME NEW s \in Symbols, NEW delta \in Int
      PROVE  Needs(s, delta, list[s]) \in Int
  BY NeedsAre
<1>3. /\ \A s \in Symbols : needs[s] \in Int /\ rest[s] \in Int
      /\ rest[d] = 0
      /\ \A s \in Symbols \ {d} : rest[s] = needs[s]
  <2>1. /\ struck \in [Symbols -> Int] /\ struck[d] = 0
        /\ \A s \in Symbols \ {d} : struck[s] = orders[s]
    OBVIOUS
  <2> HIDE DEF struck
  <2>2. rest[d] = 0
    BY <2>1 DEF Needs
  <2>3. QED
    BY <1>2, <2>1, <2>2
<1>4. NeedsOf(orders, list) = SumOf(needs, Symbols) /\ NeedsOf(struck, list) = SumOf(rest, Symbols)
  BY DEF NeedsOf
<1> HIDE DEF needs, rest, struck
<1>5. /\ SumOf(needs, Symbols) = needs[d] + SumOf(needs, Symbols \ {d})
      /\ SumOf(needs, Symbols \ {d}) \in Int
  BY <1>1, <1>3, SumOfOthers
<1>6. SumOf(rest, Symbols) = rest[d] + SumOf(rest, Symbols \ {d})
  BY <1>1, <1>3, SumOfOthers
<1>7. SumOf(rest, Symbols \ {d}) = SumOf(needs, Symbols \ {d})
  BY <1>1, <1>3, SameSums
<1>8. QED
  BY <1>3, <1>4, <1>5, <1>6, <1>7 DEF needs, struck

-----------------------------------------------------------------------------
(* ... and stays so while its orders fill.                                 *)

\* A funded plan has its next order accepted.
LEMMA FundedIsAccepted ==
  ASSUME Affordable, TypesInv, FundedInv, NEW r \in Runs, Placing(r)
  PROVE  /\ Accepts(mem[r], NextOrder(r), NextPrice(r))
         /\ Filled(mem[r], NextOrder(r), NextPrice(r)).cash
              = mem[r].cash - Needs(Due(plan[r]), plan[r][Due(plan[r])], NextPrice(r))
<1>1. PICK list \in PriceLists, orders \in [Symbols -> Int], account \in Account :
        /\ list = execution[r] /\ orders = plan[r] /\ account = mem[r]
        /\ orders # NoPlan
        /\ \A s \in Symbols : orders[s] >= 0 \/ account.shares[s] + orders[s] >= 0
        /\ NeedsOf(orders, list) <= account.cash
  BY DEF FundedInv, PlanIsFunded, Placing, TypesInv, AccountsInv, PlansAreOrders, BrokerTypeOK
<1> DEFINE d == Due(orders)
           delta == orders[d]
           o == OrderFor(d, delta)
           needs == [s \in Symbols |-> Needs(s, orders[s], list[s])]
<1>2. /\ NextOrder(r) = o /\ NextPrice(r) = list[d]
      /\ Due(plan[r]) = d /\ plan[r][Due(plan[r])] = delta
  BY <1>1 DEF NextOrder, NextPrice
<1>3. d \in Symbols /\ delta \in Int /\ delta # 0 /\ Symbols \subseteq Nat
  <2>1. PICK t \in Symbols : orders[t] # 0
    BY <1>1 DEF NoPlan
  <2>2. Symbols \in SUBSET Nat
    BY RunConstants
  <2>3. d \in Symbols /\ orders[d] # 0
    BY <2>1, <2>2, DueIsPlanned
  <2>4. QED
    BY <2>2, <2>3
<1> HIDE DEF d, delta
<1>4. list[d] \in Nat /\ list[d] > HalfSpread /\ list[d] > 0
  BY <1>3, ListsAre, CostConstants
<1>5. /\ o.symbol = d /\ o.side = (IF delta < 0 THEN "SELL" ELSE "BUY")
      /\ o.shares = (IF delta < 0 THEN -delta ELSE delta)
      /\ o.shares \in Nat \ {0}
  BY <1>3, OrderForType
<1>6. account.cash \in Int /\ account.shares[d] \in Int
  BY <1>3 DEF Account
<1>7. /\ Needs(d, delta, list[d]) = IF delta > 0 THEN Value(o, list[d]) + Fee(o, list[d])
                                                ELSE Fee(o, list[d]) - Value(o, list[d])
      /\ Needs(d, delta, list[d]) \in Int
  BY <1>3, <1>4, NeedsAre
<1> HIDE DEF o
<1>8. ASSUME delta < 0 PROVE Accepts(account, o, list[d])
  <2>1. o.shares <= account.shares[d]
    BY <1>1, <1>3, <1>5, <1>6, <1>8 DEF delta
  <2>2. QED
    BY <1>4, <1>5, <1>8, <2>1 DEF Accepts
<1>9. ASSUME delta > 0 PROVE Accepts(account, o, list[d])
  <2>1. \A s \in Symbols : orders[s] >= 0
    <3> DEFINE sells == {s \in DOMAIN orders : orders[s] < 0}
    <3>1. SUFFICES ASSUME sells # {} PROVE FALSE
      OBVIOUS
    <3>2. d = Min(sells) /\ sells \subseteq Nat
      BY <1>3, <3>1 DEF Due, d
    <3>3. d \in sells
      <4> HIDE DEF sells
      <4>1. QED
        BY <3>1, <3>2, MinIsMember
    <3>4. QED
      BY <1>3, <1>9, <3>3 DEF delta
  <2>2. \A s \in Symbols \ {d} : needs[s] \in Nat
    <3>1. ASSUME NEW s \in Symbols PROVE needs[s] \in Nat
      <4>1. list[s] \in Nat /\ list[s] > HalfSpread
        BY ListsAre
      <4>2. CASE orders[s] = 0
        BY <4>2 DEF Needs
      <4>3. CASE orders[s] # 0
        BY <2>1, <4>1, <4>3, NeedsIs
      <4>4. QED
        BY <4>2, <4>3
    <3>2. QED
      BY <3>1
  <2>3. needs[d] = Needs(d, delta, list[d])
    BY <1>3 DEF delta
  <2>4. NeedsOf(orders, list) = needs[d] + SumOf(needs, Symbols \ {d})
    BY <1>3, NeedsWithout
  <2> HIDE DEF needs
  <2>5. SumOf(needs, Symbols \ {d}) \in Nat
    <3>1. IsFiniteSet(Symbols \ {d})
      BY RunConstants, FS_Difference
    <3>2. QED
      BY <2>2, <3>1, SumIsNat
  <2>6. Value(o, list[d]) + Fee(o, list[d]) <= account.cash
    BY <1>1, <1>6, <1>7, <1>9, <2>3, <2>4, <2>5
  <2>7. QED
    BY <1>3, <1>4, <1>5, <1>9, <2>6 DEF Accepts
<1>10. Accepts(account, o, list[d])
  BY <1>3, <1>8, <1>9
<1>11. Filled(account, o, list[d]).cash = account.cash - Needs(d, delta, list[d])
  <2>1. list[d] \in Price /\ o \in Order
    BY <1>1, <1>3, <1>4, DueIsAnOrder DEF Price, o, d, delta
  <2>2. Value(o, list[d]) \in Nat /\ Fee(o, list[d]) \in Nat
    BY <1>10, <2>1, CostTypes
  <2>3. CASE delta > 0
    BY <1>3, <1>5, <1>7, <2>3 DEF Filled, Bought
  <2>4. CASE delta < 0
    BY <1>3, <1>5, <1>6, <1>7, <2>2, <2>4 DEF Filled, Sold
  <2>5. QED
    BY <1>3, <2>3, <2>4
<1>12. QED
  BY <1>1, <1>2, <1>10, <1>11

LEMMA FundedInit == Init => FundedInv
  BY DEF Init, FundedInv, PlanIsFunded, Placing

\* A step of another run or of the world outside leaves this run's plan funded.
LEMMA FundedKept ==
  ASSUME FundedInv, NEW r \in Runs, UNCHANGED <<mem[r], connected[r], plan[r], closes[r], execution[r]>>,
         pc'[r] = pc[r]
  PROVE  PlanIsFunded(r)'
  BY DEF FundedInv, PlanIsFunded, Placing

\* Without a price there is no order.
LEMMA NothingPricedNothingOrdered ==
  ASSUME NEW held \in [Symbols -> Int], NEW want \in [Symbols -> Nat]
  PROVE  OrdersFor(held, want, NoCloses) = NoPlan
<1>1. ASSUME NEW s \in Symbols
      PROVE  Size(want[s] - held[s]) * NoCloses[s] < MinTradeValue
  <2>1. Size(want[s] - held[s]) \in Nat /\ NoCloses[s] = 0
    BY DEF Size, NoCloses
  <2>2. QED
    BY <2>1, MinTradeValueIsPositive
<1>2. DOMAIN held = Symbols
  OBVIOUS
<1>3. QED
  BY <1>1, <1>2 DEF OrdersFor, NoPlan

\* What the gate lets through is a funded plan.
LEMMA FundedDecision ==
  ASSUME Affordable, TypesInv, FundedInv, NEW r \in Runs, Decide(r)
  PROVE  PlanIsFunded(r)'
<1>1. /\ pc'[r] = "placing" /\ plan[r] = NoPlan /\ closes[r] \in PriceLists \cup {NoCloses}
      /\ closes'[r] = closes[r] /\ mem'[r] = mem[r] /\ connected'[r]
      /\ mem[r] \in Account /\ Sound(mem[r])
      /\ plan \in [Runs -> [Symbols -> Int]] /\ execution \in [Runs -> [Symbols -> Price]]
  BY DEF Decide, Move, FundedInv, PlanIsFunded, TypesInv, AccountsInv, LongOnly,
         PlansAreOrders, BrokerTypeOK, ProgressTypeOK, brokerVars
<1>2. CASE UNCHANGED <<plan, execution>>
  BY <1>1, <1>2 DEF PlanIsFunded, Placing
<1>3. ASSUME NEW want \in Wants \cup {NoPlan}, Allow(r, want), closes[r] \in PriceLists
      PROVE  PlanIsFunded(r)'
  <2>1. PICK list \in PriceLists, account \in Account : list = closes[r] /\ account = mem[r]
    BY <1>1, <1>3
  <2>2. /\ list \in [Symbols -> Nat] /\ list \in [Symbols -> Price]
        /\ want \in [Symbols -> Nat] /\ account.shares \in [Symbols -> Int]
    BY ListsAre, RunConstants DEF NoPlan, Account, Price
  <2>3. PICK quotes \in (IF r \in Schedulers THEN {} ELSE QuoteLists) \cup {NoCloses} :
          /\ Sized(want, Quoted(list, quotes), Investable(Equity(account, list)))
          /\ plan' = [plan EXCEPT ![r] = OrdersFor(account.shares, want, Quoted(list, quotes))]
          /\ execution' = [execution EXCEPT ![r] = Quoted(list, quotes)]
    BY <1>3, <2>1 DEF Allow
  <2>4. quotes = NoCloses
    BY DEF Affordable
  <2>5. Quoted(list, quotes) = list
    BY <2>2, <2>4 DEF Quoted, NoCloses
  <2>6. PICK orders : orders = OrdersFor(account.shares, want, list)
    OBVIOUS
  <2>7. plan'[r] = orders /\ execution'[r] = list
    BY <1>1, <2>3, <2>5, <2>6
  <2>8. NeedsOf(orders, list) <= account.cash
    BY <1>1, <2>1, <2>2, <2>3, <2>5, <2>6, DecidedIsFunded
  <2>9. \A s \in Symbols : orders[s] >= 0 \/ account.shares[s] + orders[s] >= 0
    BY <2>2, <2>6, OrdersForType
  <2>10. QED
    BY <1>1, <2>1, <2>7, <2>8, <2>9 DEF PlanIsFunded, Placing
<1>4. ASSUME NEW want \in Wants \cup {NoPlan}, Allow(r, want), closes[r] = NoCloses
      PROVE  PlanIsFunded(r)'
  <2>1. PICK quotes \in (IF r \in Schedulers THEN {} ELSE QuoteLists) \cup {NoCloses} :
          plan' = [plan EXCEPT ![r] =
                     OrdersFor(mem[r].shares, want, Quoted(closes[r], quotes))]
    BY <1>4 DEF Allow
  <2>2. quotes = NoCloses
    BY DEF Affordable
  <2>3. Quoted(closes[r], quotes) = NoCloses
    BY <1>4, <2>2 DEF Quoted, NoCloses
  <2>4. mem[r].shares \in [Symbols -> Int] /\ want \in [Symbols -> Nat]
    BY <1>1, RunConstants DEF Account, NoPlan
  <2>5. plan'[r] = NoPlan
    BY <1>1, <2>1, <2>3, <2>4, NothingPricedNothingOrdered
  <2>6. QED
    BY <1>1, <1>4, <2>5 DEF PlanIsFunded, Placing
<1>5. QED
  BY <1>1, <1>2, <1>3, <1>4 DEF Decide

\* A fill takes what its order needs, and leaves the others funded.
LEMMA FundedFill ==
  ASSUME Affordable, TypesInv, FundedInv, NEW r \in Runs, Trade(r)
  PROVE  PlanIsFunded(r)'
<1>1. Placing(r) /\ connected'[r] /\ UNCHANGED <<pc, closes, execution>>
  BY DEF Trade, Place, Placing
<1>2. PICK list \in PriceLists, orders \in [Symbols -> Int], account \in Account :
        /\ list = execution[r] /\ orders = plan[r] /\ account = mem[r]
        /\ orders # NoPlan /\ execution[r] = closes[r]
        /\ \A s \in Symbols : orders[s] >= 0 \/ account.shares[s] + orders[s] >= 0
        /\ NeedsOf(orders, list) <= account.cash
  BY <1>1 DEF FundedInv, PlanIsFunded, Placing, TypesInv, AccountsInv, PlansAreOrders, BrokerTypeOK
<1>3. PICK d \in Symbols : d = Due(orders)
  BY <1>2, DueIsAnOrder
<1>4. PICK filling \in Account : filling = Filled(mem[r], NextOrder(r), NextPrice(r))
  <2>1. Accepts(mem[r], NextOrder(r), NextPrice(r)) /\ plan[r] # NoPlan
    BY DEF Trade, Place
  <2>2. QED
    BY <2>1, NextFillIsSound DEF TypesInv
<1>5. filling.cash = account.cash - Needs(d, orders[d], list[d])
  BY <1>1, <1>2, <1>3, <1>4, FundedIsAccepted DEF NextPrice
<1>6. \A s \in Symbols : s # d => filling.shares[s] = account.shares[s]
  <2>1. PICK ref : filling = Filled(account, OrderFor(Due(orders), orders[Due(orders)]), ref)
    BY <1>2, <1>3, <1>4 DEF NextOrder
  <2>2. orders # NoPlan
    BY <1>2
  <2>3. \A s \in Symbols : s # Due(orders) => filling.shares[s] = account.shares[s]
    BY <2>1, <2>2, FillMovesItsName
  <2>4. QED
    BY <1>3, <2>3
<1>7. PICK struck : struck = [orders EXCEPT ![d] = 0]
  OBVIOUS
<1>8. plan'[r] = struck /\ mem'[r] = filling
  BY <1>2, <1>3, <1>4, <1>7
     DEF Trade, Strike, Place, TypesInv, AccountsInv, PlansAreOrders, BrokerTypeOK
<1>9. NeedsOf(struck, list) <= filling.cash
  <2> DEFINE needs == [s \in Symbols |-> Needs(s, orders[s], list[s])]
             others == SumOf(needs, Symbols \ {d})
  <2>1. /\ needs[d] \in Int /\ others \in Int
        /\ NeedsOf(orders, list) = needs[d] + others /\ NeedsOf(struck, list) = others
    BY <1>7, NeedsWithout
  <2>2. needs[d] = Needs(d, orders[d], list[d])
    OBVIOUS
  <2>3. account.cash \in Int
    BY DEF Account
  <2> HIDE DEF needs, others
  <2>4. QED
    BY <1>2, <1>5, <2>1, <2>2, <2>3
<1>10. \A s \in Symbols : struck[s] >= 0 \/ filling.shares[s] + struck[s] >= 0
  BY <1>2, <1>6, <1>7
<1>11. QED
  BY <1>1, <1>2, <1>8, <1>9, <1>10 DEF PlanIsFunded, Placing

LEMMA FundedStep ==
  ASSUME Affordable, TypesInv, FundedInv, NEW r \in Runs, Start(r) \/ Step(r) \/ Fail(r)
  PROVE  FundedInv'
<1>1. /\ pc \in [Runs -> {"idle", "checking", "deciding", "placing", "closing"}]
      /\ mem \in [Runs -> Account] /\ connected \in [Runs -> BOOLEAN]
      /\ plan \in [Runs -> [Symbols -> Int]]
      /\ closes \in [Runs -> [Symbols -> Price]] /\ execution \in [Runs -> [Symbols -> Price]]
  BY DEF TypesInv, AccountsInv, BrokerTypeOK, PlansAreOrders, ProgressTypeOK
<1>2. price' \in PriceLists
  <2>1. UNCHANGED price
    BY DEF Step, Fail, Start, Check, Decide, Trade, TradeRejected, Write, Finish, Raise,
           SaveRaises, AppendRaises, FinishRaises, Killed, KilledSaving, KilledWriting, marketVars
  <2>2. QED
    BY <2>1 DEF FundedInv
<1>3. ASSUME NEW q \in Runs, q # r PROVE PlanIsFunded(q)'
  <2>1. UNCHANGED <<pc[q], mem[q], connected[q], plan[q], closes[q], execution[q]>>
    <3>1. CASE Start(r)
      BY <1>1, <1>3, <3>1 DEF Start, Move, Connect
    <3>2. CASE Step(r)
      <4>1. CASE Check(r) \/ Write(r) \/ Finish(r)
        BY <1>1, <1>3, <4>1 DEF Check, Write, Finish, Move, Forget, Disconnect, Gone, brokerVars
      <4>2. CASE Decide(r)
        BY <1>1, <1>3, <4>2 DEF Decide, Allow, Move, brokerVars
      <4>3. CASE Trade(r)
        BY <1>1, <1>3, <4>3 DEF Trade, Strike, Place
      <4>4. CASE TradeRejected(r)
        BY <1>1, <1>3, <4>4 DEF TradeRejected, Strike, Reject, brokerVars
      <4>5. QED
        BY <3>2, <4>1, <4>2, <4>3, <4>4 DEF Step
    <3>3. CASE Fail(r)
      BY <1>1, <1>3, <3>3
         DEF Fail, Raise, SaveRaises, AppendRaises, FinishRaises, Killed, KilledSaving,
             KilledWriting, Move, Forget, Strike, Reject, PlaceSaveFails, Disconnect, Die,
             DieSaving, Gone, brokerVars
    <3>4. QED
      BY <3>1, <3>2, <3>3
  <2>2. QED
    BY <2>1, FundedKept
<1>4. PlanIsFunded(r)'
  <2>1. CASE Start(r)
    <3>1. /\ pc[r] = "idle" /\ pc'[r] = "checking" /\ plan[r] = NoPlan
          /\ connected'[r] /\ UNCHANGED <<plan, closes, execution>>
      BY <1>1, <2>1 DEF Start, Move, Connect, FundedInv, PlanIsFunded
    <3>2. QED
      BY <3>1 DEF PlanIsFunded, Placing
  <2>2. CASE Check(r)
    <3>1. /\ pc[r] = "checking" /\ pc'[r] \in {"deciding", "closing"} /\ plan[r] = NoPlan
          /\ plan' = plan /\ closes'[r] \in PriceLists \cup {NoCloses} /\ connected'[r]
      BY <1>1, <2>2 DEF Check, LatestCloses, Move, FundedInv, PlanIsFunded, brokerVars
    <3>2. QED
      BY <3>1 DEF PlanIsFunded, Placing
  <2>3. CASE Decide(r)
    BY <2>3, FundedDecision
  <2>4. CASE Trade(r)
    BY <2>4, FundedFill
  <2>5. ~TradeRejected(r)
    <3>1. SUFFICES ASSUME TradeRejected(r) PROVE FALSE
      OBVIOUS
    <3>2. Placing(r) /\ ~(connected[r] /\ Accepts(mem[r], NextOrder(r), NextPrice(r)))
      BY <3>1 DEF TradeRejected, Reject, Placing
    <3>3. connected[r] /\ Accepts(mem[r], NextOrder(r), NextPrice(r))
      BY <3>2, FundedIsAccepted DEF FundedInv, PlanIsFunded, Placing
    <3>4. QED
      BY <3>2, <3>3
  <2>6. CASE Write(r) \/ SaveRaises(r) \/ AppendRaises(r) \/ Raise(r)
    <3>1. pc[r] # "idle" /\ pc'[r] = "closing" /\ connected' = connected
      BY <1>1, <2>6 DEF Write, SaveRaises, AppendRaises, Raise, Move, PlaceSaveFails, brokerVars
    <3>2. QED
      BY <3>1 DEF FundedInv, PlanIsFunded, Placing
  <2>7. CASE Forget(r)
    <3>1. pc'[r] = "idle" /\ plan'[r] = NoPlan
      BY <1>1, <2>7 DEF Forget
    <3>2. QED
      BY <3>1 DEF PlanIsFunded, Placing
  <2>8. QED
    BY <2>1, <2>2, <2>3, <2>4, <2>5, <2>6, <2>7
       DEF Step, Fail, Finish, FinishRaises, Killed, KilledSaving, KilledWriting
<1>5. QED
  BY <1>2, <1>3, <1>4 DEF FundedInv

LEMMA FundedNext ==
  ASSUME Affordable, TypesInv, FundedInv, [Next]_vars
  PROVE  FundedInv'
<1>1. CASE UNCHANGED <<pc, mem, connected, plan, closes, execution>> /\ price' \in PriceLists
  BY <1>1, FundedKept DEF FundedInv
<1>2. CASE NewDay
  <2>1. UNCHANGED <<brokerVars, localVars>> /\ price' \in PriceLists
    BY <1>2 DEF NewDay, FundedInv
  <2>2. QED
    BY <1>1, <2>1 DEF brokerVars, localVars
<1>3. CASE Outside \/ UNCHANGED vars
  <2>1. UNCHANGED <<mem, connected, localVars, price>>
    BY <1>3 DEF Outside, vars, marketVars, brokerVars
  <2>2. QED
    BY <1>1, <2>1 DEF FundedInv, localVars
<1>4. QED
  BY <1>2, <1>3, FundedStep DEF Next

\* Where the buffer pays for the costs of an order out of its worth, every order
\* of every plan is funded when its turn comes, whatever is rotated, however many
\* runs overlap and wherever they fail: the broker refuses none.
THEOREM RunsPlansAreFunded ==
  ASSUME Affordable
  PROVE  Spec => []PlansAreFunded
<1>1. TypesInv /\ [Next]_vars => TypesInv'
  BY TypesNext
<1>2. TypesInv /\ FundedInv /\ [Next]_vars => FundedInv'
  BY FundedNext
<1>3. TypesInv /\ FundedInv => PlansAreFunded
  BY FundedIsAccepted DEF PlansAreFunded
<1>4. Init => TypesInv /\ FundedInv
  BY TypesInit, FundedInit
<1>5. QED
  BY <1>1, <1>2, <1>3, <1>4, PTL DEF Spec
-----------------------------------------------------------------------------
(* The log of many runs, and what a scheduler reads in it.                  *)

\* The lines that have their newline.
WholeLines == IF unterminated THEN Len(lines) - 1 ELSE Len(lines)

\* No line that has its newline is lost or rewritten.
LogIsAppendOnly ==
  [][WholeLines <= WholeLines' /\ \A i \in 1..WholeLines : lines'[i] = lines[i]]_vars

\* The date has a record, and the record its newline.
Remembered(d) == \E i \in 1..WholeLines : lines[i] # Garbage /\ lines[i].asOf = d

\* The run neither decides nor trades on the date.
Skips(d, r) == pc[r] \in {"deciding", "placing"} => asOf[r] # d

\* A write, whole or glued to a torn tail, ends no line before the tail's.
LEMMA PutKeepsLines ==
  ASSUME LogTypeOK, NEW text \in Line, NEW terminated \in BOOLEAN, J!Put(text, terminated)
  PROVE  WholeLines <= WholeLines' /\ \A i \in 1..WholeLines : lines'[i] = lines[i]
<1>1. /\ lines \in Seq(Line) /\ unterminated \in BOOLEAN
      /\ (unterminated => lines # <<>>) /\ unterminated' = ~terminated
  BY DEF LogTypeOK, J!FileTypeOK, Line, J!Put
<1>2. Garbage \in Line
  BY DEF Line
<1>3. CASE unterminated
  <2> DEFINE n == Len(lines)
  <2>1. lines # <<>> /\ lines' = [lines EXCEPT ![n] = Garbage]
    BY <1>1, <1>3 DEF J!Put
  <2>2. n \in Nat \ {0}
    BY <1>1, <2>1, EmptySeq
  <2>3. n \in 1..n
    BY <2>2
  <2>4. Len(lines') = n /\ \A i \in 1..n : lines'[i] = IF i = n THEN Garbage ELSE lines[i]
    BY <1>1, <1>2, <2>1, <2>3, ExceptSeq
  <2>5. WholeLines = n - 1
    BY <1>3 DEF WholeLines
  <2>6. WholeLines' \in {n - 1, n}
    BY <2>4 DEF WholeLines
  <2> HIDE DEF n
  <2>7. QED
    BY <2>2, <2>4, <2>5, <2>6
<1>4. CASE ~unterminated
  <2> DEFINE n == Len(lines)
  <2>1. lines' = Append(lines, text)
    BY <1>4 DEF J!Put
  <2>2. n \in Nat
    BY <1>1, LenProperties
  <2>3. Len(lines') = n + 1 /\ \A i \in 1..n : lines'[i] = lines[i]
    BY <1>1, <2>1, AppendProperties
  <2>4. WholeLines = n
    BY <1>4 DEF WholeLines
  <2>5. WholeLines' \in {(n + 1) - 1, n + 1}
    BY <2>3 DEF WholeLines
  <2> HIDE DEF n
  <2>6. QED
    BY <2>2, <2>3, <2>4, <2>5
<1>5. QED
  BY <1>1, <1>3, <1>4

LEMMA WholeLinesAre ==
  ASSUME LogTypeOK PROVE WholeLines \in Nat
<1>1. /\ lines \in Seq(Line) /\ unterminated \in BOOLEAN /\ (unterminated => lines # <<>>)
  BY DEF LogTypeOK, J!FileTypeOK, Line
<1>2. Len(lines) \in Nat /\ (lines # <<>> => Len(lines) # 0)
  BY <1>1, LenProperties, EmptySeq
<1>3. QED
  BY <1>1, <1>2 DEF WholeLines

LEMMA LogGrows ==
  ASSUME TypesInv, [Next]_vars
  PROVE  WholeLines <= WholeLines' /\ \A i \in 1..WholeLines : lines'[i] = lines[i]
<1>1. LogTypeOK /\ Garbage \in Line
  BY DEF TypesInv, Line
<1>2. CASE UNCHANGED logVars
  <2>1. WholeLines' = WholeLines /\ lines' = lines
    BY <1>2 DEF logVars, WholeLines
  <2>2. QED
    BY <1>1, <2>1, WholeLinesAre
<1>3. ASSUME NEW r \in Runs, J!AppendRecord(RecordOf(r)) \/ J!InterruptAppend(RecordOf(r))
      PROVE  WholeLines <= WholeLines' /\ \A i \in 1..WholeLines : lines'[i] = lines[i]
  <2>1. RecordOf(r) \in Line
    BY RecordIsTyped DEF Line
  <2>2. CASE J!AppendRecord(RecordOf(r))
    BY <1>1, <2>1, <2>2, PutKeepsLines DEF J!AppendRecord
  <2>3. CASE J!InterruptAppend(RecordOf(r))
    <3>1. UNCHANGED logVars \/ \E text \in {RecordOf(r), Garbage} : J!Put(text, FALSE)
      BY <2>3 DEF J!InterruptAppend, J!fileVars, logVars
    <3>2. \A text \in {RecordOf(r), Garbage} : text \in Line
      BY <1>1, <2>1
    <3>3. CASE \E text \in {RecordOf(r), Garbage} : J!Put(text, FALSE)
      BY <1>1, <3>2, <3>3, PutKeepsLines
    <3>4. QED
      BY <1>2, <3>1, <3>3
  <2>4. QED
    BY <1>3, <2>2, <2>3
<1>4. ASSUME NEW r \in Runs, Start(r) \/ Step(r) \/ Fail(r)
      PROVE  \/ J!AppendRecord(RecordOf(r)) \/ J!InterruptAppend(RecordOf(r))
             \/ UNCHANGED logVars
  BY <1>4 DEF Step, Fail, Start, Check, Decide, Trade, TradeRejected, Write, Finish,
              Raise, SaveRaises, AppendRaises, FinishRaises, Killed, KilledSaving,
              KilledWriting
<1>5. CASE NewDay \/ Outside \/ UNCHANGED vars
  BY <1>2, <1>5 DEF NewDay, Outside, vars
<1>6. QED
  BY <1>2, <1>3, <1>4, <1>5 DEF Next

\* However many runs overlap, raise or die inside an append: what the log held
\* with its newline it holds for ever, at the same place (journal.py:9-10, 34-39).
THEOREM RunsLogIsAppendOnly == Spec => LogIsAppendOnly
<1>1. TypesInv /\ [Next]_vars => TypesInv'
  BY TypesNext
<1>2. TypesInv /\ [Next]_vars =>
        [WholeLines <= WholeLines' /\ \A i \in 1..WholeLines : lines'[i] = lines[i]]_vars
  BY LogGrows
<1>3. QED
  BY <1>1, <1>2, TypesInit, PTL DEF Spec, LogIsAppendOnly

\* A remembered date stays remembered, and is found by the scheduler's check.
LEMMA RememberedIsRead ==
  ASSUME LogTypeOK, NEW d, Remembered(d) PROVE AlreadyRan(d)
<1>1. PICK i \in 1..WholeLines : lines[i] # Garbage /\ lines[i].asOf = d
  BY DEF Remembered
<1>2. i \in DOMAIN lines
  <2>1. lines \in Seq(Line) /\ Len(lines) \in Nat
    BY LenProperties DEF LogTypeOK, J!FileTypeOK, Line
  <2>2. WholeLines \in Nat /\ WholeLines <= Len(lines)
    BY <2>1, WholeLinesAre DEF WholeLines
  <2>3. DOMAIN lines = 1..Len(lines)
    BY <2>1
  <2>4. QED
    BY <2>1, <2>2, <2>3
<1>3. lines[i] \in J!ReadRecords
  BY <1>1, <1>2 DEF J!ReadRecords, J!Readable
<1>4. QED
  BY <1>1, <1>3 DEF AlreadyRan

LEMMA RememberedStays ==
  ASSUME TypesInv, [Next]_vars, NEW d, Remembered(d) PROVE Remembered(d)'
<1>1. PICK i \in 1..WholeLines : lines[i] # Garbage /\ lines[i].asOf = d
  BY DEF Remembered
<1>2. WholeLines <= WholeLines' /\ lines'[i] = lines[i]
  BY <1>1, LogGrows
<1>3. WholeLines \in Nat /\ WholeLines' \in Nat
  <2>1. TypesInv'
    BY TypesNext
  <2>2. LogTypeOK /\ LogTypeOK'
    BY <2>1 DEF TypesInv
  <2>3. WholeLines \in Nat
    BY <2>2, WholeLinesAre
  <2>4. (LogTypeOK => WholeLines \in Nat)'
    BY WholeLinesAre, PTL
  <2>5. QED
    BY <2>2, <2>3, <2>4
<1>4. i \in 1..WholeLines'
  BY <1>1, <1>2, <1>3
<1>5. QED
  BY <1>1, <1>2, <1>4 DEF Remembered

LEMMA SkipsStep ==
  ASSUME TypesInv, [Next]_vars, NEW d, NEW r \in Schedulers, Remembered(d), Skips(d, r)
  PROVE  Skips(d, r)'
<1>1. /\ pc \in [Runs -> {"idle", "checking", "deciding", "placing", "closing"}]
      /\ asOf \in [Runs -> Days] /\ r \in Runs
  BY RunConstants DEF TypesInv, ProgressTypeOK, ClockTypeOK
<1>2. UNCHANGED <<pc[r], asOf[r]>> => Skips(d, r)'
  BY DEF Skips
<1>3. pc'[r] \in {"idle", "closing", "checking"} => Skips(d, r)'
  BY DEF Skips
<1>4. CASE NewDay \/ Outside \/ UNCHANGED vars
  BY <1>2, <1>4 DEF NewDay, Outside, vars, localVars
<1>5. ASSUME NEW q \in Runs, q # r, Start(q) \/ Step(q) \/ Fail(q)
      PROVE  UNCHANGED <<pc[r], asOf[r]>>
  BY <1>1, <1>5
     DEF Step, Fail, Start, Check, Decide, Trade, TradeRejected, Write, Finish, Raise,
         SaveRaises, AppendRaises, FinishRaises, Killed, KilledSaving, KilledWriting, Move, Forget
<1>6. CASE Check(r)
  <2>1. AlreadyRan(d)
    BY RememberedIsRead DEF TypesInv
  <2>2. pc'[r] = "closing" \/ (asOf'[r] = dataDay /\ ~AlreadyRan(dataDay))
    BY <1>1, <1>6 DEF Check, Move, LatestDay, StoreIsEmpty
  <2>3. QED
    BY <2>1, <2>2 DEF Skips
<1>7. CASE Decide(r) \/ Trade(r) \/ TradeRejected(r)
  <2>1. asOf'[r] = asOf[r] /\ pc[r] \in {"deciding", "placing"}
    BY <1>7 DEF Decide, Trade, TradeRejected, Move
  <2>2. QED
    BY <2>1 DEF Skips
<1>8. CASE Start(r) \/ Write(r) \/ Finish(r) \/ Fail(r)
  <2>1. pc'[r] \in {"idle", "closing", "checking"}
    BY <1>1, <1>8
       DEF Fail, Start, Write, Finish, Raise, SaveRaises, AppendRaises, FinishRaises,
           Killed, KilledSaving, KilledWriting, Move, Forget
  <2>2. QED
    BY <1>3, <2>1
<1>9. QED
  BY <1>2, <1>4, <1>5, <1>6, <1>7, <1>8 DEF Next, Step

\* Once a date's record has its newline, a scheduler that starts after that never
\* decides or trades on the date again, in that run or any later one: however
\* many schedulers and cycles overlap, whatever dies and wherever an append is
\* cut short (scheduler.py:36-38).
THEOREM RunsNeverRedo ==
  ASSUME NEW d, NEW r \in Schedulers
  PROVE  Spec => []((Remembered(d) /\ pc[r] = "idle") => []Skips(d, r))
<1>1. TypesInv /\ [Next]_vars => TypesInv'
  BY TypesNext
<1>2. TypesInv /\ Remembered(d) /\ Skips(d, r) /\ [Next]_vars => Remembered(d)' /\ Skips(d, r)'
  BY RememberedStays, SkipsStep
<1>3. pc[r] = "idle" => Skips(d, r)
  BY DEF Skips
<1>4. QED
  BY <1>1, <1>2, <1>3, TypesInit, PTL DEF Spec
-----------------------------------------------------------------------------
(* A run comes closer to its end.                                           *)

\* The orders a run still has to place.
ToPlace(r) == Planned(plan[r], Symbols)

\* The most steps a run at p still takes, with n orders to place.
Ahead(p, n) == CASE p = "idle"     -> 0
                 [] p = "closing"  -> 1
                 [] p = "placing"  -> 2 + n
                 [] p = "deciding" -> 3 + Cardinality(Symbols)
                 [] p = "checking" -> 4 + Cardinality(Symbols)

StepsLeft(r) == Ahead(pc[r], Cardinality(ToPlace(r)))

\* A run that has begun has ever less to do, whatever the others do meanwhile.
RunsComeCloser ==
  [][\A r \in Runs : pc[r] # "idle" =>
       /\ StepsLeft(r)' <= StepsLeft(r)
       /\ Step(r) \/ Fail(r) => StepsLeft(r)' < StepsLeft(r)]_vars

\* A run holds its connection from its first step to its last.
RunsAreConnected == \A r \in Runs : connected[r] <=> pc[r] # "idle"

LEMMA AheadIs ==
  ASSUME NEW n \in Nat, n <= Cardinality(Symbols)
  PROVE  /\ Cardinality(Symbols) \in Nat
         /\ Ahead("idle", n) = 0 /\ Ahead("closing", n) = 1 /\ Ahead("placing", n) = 2 + n
         /\ Ahead("deciding", n) = 3 + Cardinality(Symbols)
         /\ Ahead("checking", n) = 4 + Cardinality(Symbols)
<1>1. Cardinality(Symbols) \in Nat
  BY RunConstants, FS_CardinalityType
<1>2. QED
  BY <1>1 DEF Ahead

\* Striking the order that is due leaves one less.
LEMMA StrikeTakesOne ==
  ASSUME TypesInv, NEW r \in Runs, plan[r] # NoPlan, Strike(r)
  PROVE  Cardinality(ToPlace(r)') = Cardinality(ToPlace(r)) - 1
<1>1. plan \in [Runs -> [Symbols -> Int]] /\ plan[r] \in [Symbols -> Int]
  BY DEF TypesInv, AccountsInv, PlansAreOrders
<1>2. PICK t \in Symbols : plan[r][t] # 0
  BY <1>1 DEF NoPlan
<1>3. plan'[r] = [plan[r] EXCEPT ![Due(plan[r])] = 0]
  BY <1>1 DEF Strike
<1>4. Symbols \in SUBSET Nat /\ IsFiniteSet(Symbols)
  BY RunConstants
<1>5. Cardinality(Planned([plan[r] EXCEPT ![Due(plan[r])] = 0], Symbols))
        = Cardinality(Planned(plan[r], Symbols)) - 1
  BY <1>1, <1>2, <1>4, StruckIsOneLess
<1>6. QED
  BY <1>3, <1>5 DEF ToPlace

LEMMA StepTakesOne ==
  ASSUME TypesInv, NEW r \in Runs, Step(r) \/ Fail(r)
  PROVE  StepsLeft(r)' < StepsLeft(r)
<1> DEFINE n == Cardinality(ToPlace(r))
           m == Cardinality(ToPlace(r)')
           N == Cardinality(Symbols)
<1>1. /\ n \in Nat /\ n <= N /\ m \in Nat /\ m <= N /\ N \in Nat
  <2>1. n \in Nat /\ n <= N
    BY SymbolsAreFinite, PlannedAreFew DEF ToPlace
  <2>2. m \in Nat /\ m <= N
    BY SymbolsAreFinite, PlannedAreFew DEF ToPlace
  <2>3. N \in Nat
    BY RunConstants, FS_CardinalityType
  <2>4. QED
    BY <2>1, <2>2, <2>3
<1>2. StepsLeft(r) = Ahead(pc[r], n) /\ StepsLeft(r)' = Ahead(pc'[r], m)
  BY DEF StepsLeft
<1>3. pc \in [Runs -> {"idle", "checking", "deciding", "placing", "closing"}]
  BY DEF TypesInv, ProgressTypeOK
<1>4. CASE Trade(r) \/ TradeRejected(r)
  <2>1. pc[r] = "placing" /\ pc'[r] = "placing" /\ plan[r] # NoPlan /\ Strike(r)
    BY <1>4 DEF Trade, TradeRejected
  <2>2. m = n - 1
    BY <2>1, StrikeTakesOne
  <2> HIDE DEF n, m, N
  <2>3. Ahead("placing", n) = 2 + n /\ Ahead("placing", m) = 2 + m
    BY <1>1, AheadIs DEF N
  <2>4. QED
    BY <1>1, <1>2, <2>1, <2>2, <2>3
<1>5. CASE ~(Trade(r) \/ TradeRejected(r))
  <2>1. \/ pc[r] = "checking" /\ pc'[r] \in {"deciding", "closing", "idle"}
        \/ pc[r] = "deciding" /\ pc'[r] \in {"placing", "closing", "idle"}
        \/ pc[r] = "placing" /\ pc'[r] \in {"closing", "idle"}
        \/ pc[r] = "closing" /\ pc'[r] = "idle"
    <3>1. CASE Check(r) \/ Decide(r) \/ Write(r) \/ Finish(r)
      BY <1>3, <3>1 DEF Check, Decide, Write, Finish, Move, Forget
    <3>2. CASE Raise(r) \/ SaveRaises(r) \/ AppendRaises(r) \/ FinishRaises(r)
      BY <1>3, <3>2 DEF Raise, SaveRaises, AppendRaises, FinishRaises, Move, Forget
    <3>3. CASE Killed(r) \/ KilledSaving(r) \/ KilledWriting(r)
      BY <1>3, <3>3 DEF Killed, KilledSaving, KilledWriting, Forget
    <3>4. QED
      BY <1>5, <3>1, <3>2, <3>3 DEF Step, Fail
  <2> HIDE DEF n, m, N
  <2>2. /\ Ahead("placing", n) = 2 + n /\ Ahead("closing", n) = 1
        /\ Ahead("deciding", n) = 3 + N /\ Ahead("checking", n) = 4 + N
    BY <1>1, AheadIs DEF N
  <2>3. /\ Ahead("placing", m) = 2 + m /\ Ahead("closing", m) = 1 /\ Ahead("idle", m) = 0
        /\ Ahead("deciding", m) = 3 + N
    BY <1>1, AheadIs DEF N
  <2>4. QED
    BY <1>1, <1>2, <2>1, <2>2, <2>3
<1>6. QED
  BY <1>4, <1>5

\* What others do leaves the run where it is.
LEMMA OthersLeaveIt ==
  ASSUME TypesInv, NEW r \in Runs, [Next]_vars, ~(Start(r) \/ Step(r) \/ Fail(r))
  PROVE  pc'[r] = pc[r] /\ plan'[r] = plan[r] /\ connected'[r] = connected[r]
<1>1. /\ pc \in [Runs -> {"idle", "checking", "deciding", "placing", "closing"}]
      /\ plan \in [Runs -> [Symbols -> Int]] /\ connected \in [Runs -> BOOLEAN]
  BY DEF TypesInv, ProgressTypeOK, AccountsInv, PlansAreOrders, BrokerTypeOK
<1>2. CASE NewDay \/ Outside \/ UNCHANGED vars
  BY <1>2 DEF NewDay, Outside, vars, localVars, brokerVars
<1>3. ASSUME NEW q \in Runs, q # r, Start(q) \/ Step(q) \/ Fail(q)
      PROVE  UNCHANGED <<pc[r], plan[r], connected[r]>>
  <2>1. CASE Start(q)
    BY <1>1, <1>3, <2>1 DEF Start, Move, Connect
  <2>2. CASE Check(q) \/ Write(q) \/ Finish(q)
    BY <1>1, <1>3, <2>2 DEF Check, Write, Finish, Move, Forget, Disconnect, Gone, brokerVars
  <2>3. CASE Decide(q)
    BY <1>1, <1>3, <2>3 DEF Decide, Allow, Move, brokerVars
  <2>4. CASE Trade(q) \/ TradeRejected(q)
    BY <1>1, <1>3, <2>4 DEF Trade, TradeRejected, Strike, Place, Reject, brokerVars
  <2>5. CASE Fail(q)
    BY <1>1, <1>3, <2>5
       DEF Fail, Raise, SaveRaises, AppendRaises, FinishRaises, Killed, KilledSaving,
           KilledWriting, Move, Forget, PlaceSaveFails, Die, DieSaving, Gone, brokerVars
  <2>6. QED
    BY <1>3, <2>1, <2>2, <2>3, <2>4, <2>5 DEF Step
<1>4. QED
  BY <1>2, <1>3 DEF Next

\* Every step of a run, one that fails included, leaves it fewer steps to its end
\* than it had, and nothing any other run, the market or the owner does leaves it
\* more: at most four and one for every symbol (scheduler.py:41-80, cycle.py:75-185).
THEOREM RunsGetDone == Spec => RunsComeCloser
<1>1. TypesInv /\ [Next]_vars => TypesInv'
  BY TypesNext
<1>2. TypesInv /\ [Next]_vars =>
        [\A r \in Runs : pc[r] # "idle" =>
           /\ StepsLeft(r)' <= StepsLeft(r)
           /\ Step(r) \/ Fail(r) => StepsLeft(r)' < StepsLeft(r)]_vars
  <2>1. SUFFICES ASSUME TypesInv, [Next]_vars, NEW r \in Runs, pc[r] # "idle"
                 PROVE  /\ StepsLeft(r)' <= StepsLeft(r)
                        /\ Step(r) \/ Fail(r) => StepsLeft(r)' < StepsLeft(r)
    OBVIOUS
  <2>2. StepsLeft(r) \in Nat /\ StepsLeft(r)' \in Nat
    <3>1. ASSUME NEW p \in {"idle", "checking", "deciding", "placing", "closing"}, NEW orders
          PROVE  Ahead(p, Cardinality(Planned(orders, Symbols))) \in Nat
      <4> DEFINE n == Cardinality(Planned(orders, Symbols))
      <4>1. n \in Nat /\ n <= Cardinality(Symbols)
        BY SymbolsAreFinite, PlannedAreFew
      <4> HIDE DEF n
      <4>2. Ahead(p, n) \in Nat
        BY <3>1, <4>1, AheadIs
      <4>3. QED
        BY <4>2 DEF n
    <3>2. pc[r] \in {"idle", "checking", "deciding", "placing", "closing"}
      BY <2>1 DEF TypesInv, ProgressTypeOK
    <3>3. pc'[r] \in {"idle", "checking", "deciding", "placing", "closing"}
      BY <2>1, TypesNext DEF TypesInv, ProgressTypeOK
    <3>4. QED
      BY <3>1, <3>2, <3>3 DEF StepsLeft, ToPlace
  <2>3. CASE Step(r) \/ Fail(r)
    BY <2>1, <2>2, <2>3, StepTakesOne
  <2>4. CASE ~(Step(r) \/ Fail(r))
    <3>1. ~Start(r)
      BY <2>1 DEF Start, Move
    <3>2. pc'[r] = pc[r] /\ plan'[r] = plan[r]
      BY <2>1, <2>4, <3>1, OthersLeaveIt
    <3>3. StepsLeft(r)' = StepsLeft(r)
      BY <3>2 DEF StepsLeft, ToPlace
    <3>4. QED
      BY <2>2, <2>4, <3>3
  <2>5. QED
    BY <2>3, <2>4
<1>3. QED
  BY <1>1, <1>2, TypesInit, PTL DEF Spec, RunsComeCloser

\* A run connects with its first step and disconnects with its last.
LEMMA ConnectedAtTheEnds ==
  ASSUME TypesInv, RunsAreConnected, NEW r \in Runs, Start(r) \/ Step(r) \/ Fail(r)
  PROVE  connected'[r] <=> pc'[r] # "idle"
<1>1. /\ pc \in [Runs -> {"idle", "checking", "deciding", "placing", "closing"}]
      /\ connected \in [Runs -> BOOLEAN] /\ (connected[r] <=> pc[r] # "idle")
  BY DEF TypesInv, ProgressTypeOK, AccountsInv, BrokerTypeOK, RunsAreConnected
<1>2. CASE Start(r)
  BY <1>1, <1>2 DEF Start, Move, Connect
<1>3. CASE Check(r) \/ Decide(r) \/ Write(r) \/ Raise(r) \/ AppendRaises(r)
  <2>1. connected' = connected /\ pc[r] # "idle" /\ pc'[r] # "idle"
    BY <1>1, <1>3 DEF Check, Decide, Write, Raise, AppendRaises, Move, brokerVars
  <2>2. QED
    BY <1>1, <2>1
<1>4. CASE Trade(r) \/ TradeRejected(r) \/ SaveRaises(r)
  <2>1. connected' = connected /\ pc[r] # "idle" /\ pc'[r] # "idle"
    BY <1>1, <1>4 DEF Trade, TradeRejected, SaveRaises, Place, Reject, PlaceSaveFails, Move, brokerVars
  <2>2. QED
    BY <1>1, <2>1
<1>5. CASE \/ Finish(r) \/ FinishRaises(r) \/ Killed(r) \/ KilledSaving(r) \/ KilledWriting(r)
  <2>1. ~connected'[r] /\ pc'[r] = "idle"
    BY <1>1, <1>5
       DEF Finish, FinishRaises, Killed, KilledSaving, KilledWriting, Forget, Disconnect,
           Die, DieSaving, Gone
  <2>2. QED
    BY <2>1
<1>6. QED
  BY <1>2, <1>3, <1>4, <1>5 DEF Step, Fail

\* No failure and no other run takes a run's connection away, and no process that
\* has ended leaves one behind (scheduler.py:62-80).
THEOREM RunsStayConnected == Spec => []RunsAreConnected
<1>1. TypesInv /\ [Next]_vars => TypesInv'
  BY TypesNext
<1>2. TypesInv /\ RunsAreConnected /\ [Next]_vars => RunsAreConnected'
  <2>1. SUFFICES ASSUME TypesInv, RunsAreConnected, [Next]_vars, NEW r \in Runs
                 PROVE  connected'[r] <=> pc'[r] # "idle"
    BY DEF RunsAreConnected
  <2>2. connected[r] <=> pc[r] # "idle"
    BY <2>1 DEF RunsAreConnected
  <2>3. CASE Start(r)
    BY <2>1, <2>3, ConnectedAtTheEnds
  <2>4. CASE Step(r) \/ Fail(r)
    BY <2>1, <2>4, ConnectedAtTheEnds
  <2>5. CASE ~(Start(r) \/ Step(r) \/ Fail(r))
    BY <2>1, <2>2, <2>5, OthersLeaveIt
  <2>6. QED
    BY <2>3, <2>4, <2>5
<1>3. Init => RunsAreConnected
  BY DEF Init, RunsAreConnected
<1>4. QED
  BY <1>1, <1>2, <1>3, TypesInit, PTL DEF Spec
-----------------------------------------------------------------------------
(* A run has always a step to take.                                         *)

Halts(r) == Blocks(RiskStateOf(mem[r], closes[r], asOf[r], FALSE))

\* What the step a run is at needs: the gate lets the run trade, if only what
\* leaves it flat, or does not; and what is connected can be disconnected.
HasAStep(r) ==
  \/ pc[r] \in {"checking", "placing"}
  \/ pc[r] = "deciding" /\ (Halts(r) \/ Sized(NoPlan, closes[r], Investable(Equity(mem[r], closes[r]))))
  \/ pc[r] = "closing" /\ connected[r]

RunsAreNeverStuck == \A r \in Runs : pc[r] # "idle" => HasAStep(r)

\* Nothing is wanted: its weights are within any limits.
LEMMA NothingIsSized ==
  ASSUME NEW list \in [Symbols -> Price], NEW investable \in Nat
  PROVE  Sized(NoPlan, list, investable)
<1>0. Products(NoPlan, list, Symbols) = SumOf([s \in Symbols |-> NoPlan[s] * list[s]], Symbols)
  BY SymbolsAreFinite, ProductsAreSum
<1> DEFINE p == [s \in Symbols |-> NoPlan[s] * list[s]]
<1>1. \A s \in Symbols : NoPlan[s] = 0 /\ list[s] \in Nat /\ p[s] = 0
  BY DEF NoPlan, Price
<1>2. Products(NoPlan, list, Symbols) = 0
  <2>1. Products(NoPlan, list, Symbols) = SumOf(p, Symbols)
    BY <1>0, Zenon
  <2> HIDE DEF p
  <2>2. SumOf(p, Symbols) = 0 * Cardinality(Symbols)
    <3>1. \A s \in Symbols : p[s] = 0
      BY <1>1
    <3>2. IsFiniteSet(Symbols) /\ 0 \in Int
      BY SymbolsAreFinite
    <3>3. QED
      BY <3>1, <3>2, SumOfEqual
  <2>3. Cardinality(Symbols) \in Nat
    BY RunConstants, FS_CardinalityType
  <2>4. QED
    BY <2>1, <2>2, <2>3
<1>3. MaxPositionWeight * investable \in Nat /\ MaxGrossExposure * investable \in Nat
  BY RiskLimitsAreNat, ProductNat
<1>4. ASSUME NEW s \in Symbols
      PROVE  100 * NoPlan[s] * list[s] <= MaxPositionWeight * investable
  <2>1. 100 * NoPlan[s] * list[s] = 0
    BY <1>1
  <2>2. QED
    BY <1>3, <2>1
<1>5. 100 * MapThenSumSet(LAMBDA s : NoPlan[s] * list[s], Symbols)
        <= MaxGrossExposure * investable
  <2>1. 100 * Products(NoPlan, list, Symbols) <= MaxGrossExposure * investable
    BY <1>2, <1>3
  <2>2. QED
    BY <2>1, Zenon DEF Products
<1>6. QED
  BY <1>1, <1>4, <1>5, Zenon DEF Sized

\* A deciding run is halted, or has something it may invest.
LEMMA DecidingHasAStep ==
  ASSUME TypesInv, NEW r \in Runs
  PROVE  Halts(r) \/ Sized(NoPlan, closes[r], Investable(Equity(mem[r], closes[r])))
<1> DEFINE equity == Equity(mem[r], closes[r])
<1>1. mem[r] \in Account /\ closes[r] \in [Symbols -> Price]
  BY DEF TypesInv, AccountsInv, BrokerTypeOK, PlansAreOrders
<1>2. equity \in Int
  BY <1>1, EquityIsInt
<1>3. CASE equity <= 0
  BY <1>3 DEF Halts, Blocks, RiskStateOf
<1>4. CASE equity > 0
  <2> HIDE DEF equity
  <2>1. equity \in Nat /\ 100 - CashBuffer \in Nat
    BY <1>2, <1>4, RunConstants
  <2>2. equity * (100 - CashBuffer) \in Nat
    BY <2>1, ProductNat
  <2>3. Investable(equity) \in Nat
    BY <2>2, Quotient DEF Investable
  <2>4. QED
    BY <1>1, <2>3, NothingIsSized DEF equity
<1>5. QED
  BY <1>2, <1>3, <1>4

\* No guard leaves a run without a next step: not an account that is worth
\* nothing, a name without a price, a journal that cannot be read, nor what other
\* runs do.  With RunsGetDone, a run that keeps being scheduled ends
\* (cycle.py:75-185).
THEOREM RunsCanGoOn == Spec => []RunsAreNeverStuck
<1>1. TypesInv /\ [Next]_vars => TypesInv'
  BY TypesNext
<1>2. TypesInv /\ RunsAreConnected => RunsAreNeverStuck
  <2>1. SUFFICES ASSUME TypesInv, RunsAreConnected, NEW r \in Runs, pc[r] # "idle"
                 PROVE  HasAStep(r)
    BY DEF RunsAreNeverStuck
  <2>2. pc[r] \in {"idle", "checking", "deciding", "placing", "closing"} /\ connected[r]
    BY <2>1 DEF TypesInv, ProgressTypeOK, RunsAreConnected
  <2>3. QED
    BY <2>1, <2>2, DecidingHasAStep DEF HasAStep
<1>3. QED
  BY <1>1, <1>2, TypesInit, RunsStayConnected, PTL DEF Spec
=============================================================================
