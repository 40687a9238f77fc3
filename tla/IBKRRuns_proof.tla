--------------------------- MODULE IBKRRuns_proof ---------------------------
(***************************************************************************)
(* Proofs about cycles against IBKRBroker: as long as place has not        *)
(* stopped waiting for an order that still works, no position goes short,  *)
(* the reported fills explain the account, and the newest record is it;    *)
(* an order left working costs no more than what it had to fill; and every *)
(* cycle comes closer to its end, whatever the venue does.                 *)
(***************************************************************************)
EXTENDS IBKRRuns, Planning_proof, SequenceTheorems

-----------------------------------------------------------------------------
(* The types, and what is always so of the orders.                         *)

OrdersInv ==
  /\ \A i \in DOMAIN orders : /\ orders[i].filled <= orders[i].shares
                              /\ Working(i) => orders[i].filled < orders[i].shares
  /\ pc = "waiting" => orders # <<>> /\ orders[Awaited].left = 0
  /\ pc = "idle" => plan = NoPlan
  /\ pc = "qualifying" => plan # NoPlan

\* One fill: its order and the account.
LEMMA ExecuteEffect ==
  ASSUME TypeOK, OrdersInv, NEW i \in DOMAIN orders, Execute(i)
  PROVE  \E shares \in 1..Remaining(orders[i]) :
           /\ orders' \in Seq(VenueOrder) /\ account' \in Account
           /\ Len(orders') = Len(orders)
           /\ \A j \in DOMAIN orders : j # i => orders'[j] = orders[j]
           /\ orders'[i] = [orders[i] EXCEPT
                              !.filled = @ + shares,
                              !.status = IF shares = Remaining(orders[i]) THEN "filled" ELSE @]
           /\ \A s \in Symbols : account'.shares[s] =
                account.shares[s] + IF s = orders[i].symbol THEN Signed(orders[i], shares) ELSE 0
<1>1. orders \in Seq(VenueOrder) /\ account \in Account
  BY DEF TypeOK, VenueTypeOK
<1>2. orders[i] \in VenueOrder /\ DOMAIN orders = 1..Len(orders)
  BY <1>1
<1>3. PICK shares \in 1..Remaining(orders[i]), price \in FillPrices :
        /\ orders' = [orders EXCEPT
                        ![i].filled = @ + shares,
                        ![i].status = IF shares = Remaining(orders[i]) THEN "filled" ELSE @]
        /\ account' = [account EXCEPT
                         !.cash = @ - Signed(orders[i], shares) * price,
                         !.shares[orders[i].symbol] = @ + Signed(orders[i], shares)]
  BY DEF Execute
<1> DEFINE new == [orders[i] EXCEPT
                     !.filled = @ + shares,
                     !.status = IF shares = Remaining(orders[i]) THEN "filled" ELSE @]
<1>4. shares \in Nat /\ Signed(orders[i], shares) \in Int /\ price \in Nat
  <2>1. Remaining(orders[i]) \in Int
    BY <1>2 DEF VenueOrder, Remaining
  <2>2. shares \in Nat /\ price \in Nat
    BY <2>1, VenueConstants
  <2>3. QED
    BY <2>2 DEF Signed
<1>5. new \in VenueOrder
  <2>1. orders[i].filled + shares \in Nat
    BY <1>2, <1>4 DEF VenueOrder
  <2>2. (IF shares = Remaining(orders[i]) THEN "filled" ELSE orders[i].status)
          \in {"working", "filled", "dead"}
    BY <1>2 DEF VenueOrder
  <2>3. QED
    BY <1>2, <2>1, <2>2 DEF VenueOrder
<1>6. orders' = [orders EXCEPT ![i] = new]
  BY <1>2, <1>3
<1>7. /\ orders' \in Seq(VenueOrder) /\ Len(orders') = Len(orders)
      /\ orders'[i] = new
      /\ \A j \in DOMAIN orders : j # i => orders'[j] = orders[j]
  <2> HIDE DEF new
  <2>1. QED
    BY <1>1, <1>5, <1>6, ExceptSeq
<1>8. /\ account' \in Account
      /\ \A s \in Symbols : account'.shares[s] =
           account.shares[s] + IF s = orders[i].symbol THEN Signed(orders[i], shares) ELSE 0
  <2>1. Signed(orders[i], shares) * price \in Int
    BY <1>4
  <2>2. orders[i].symbol \in Symbols
    BY <1>2 DEF VenueOrder
  <2>3. account.cash \in Int /\ account.shares \in [Symbols -> Int]
    BY <1>1 DEF Account
  <2> DEFINE moved == [account.shares EXCEPT
                         ![orders[i].symbol] = @ + Signed(orders[i], shares)]
  <2>4. /\ moved \in [Symbols -> Int]
        /\ \A s \in Symbols : moved[s] =
             account.shares[s] + IF s = orders[i].symbol THEN Signed(orders[i], shares) ELSE 0
    BY <1>4, <2>2, <2>3
  <2>5. account.cash - Signed(orders[i], shares) * price \in Int
    BY <2>1, <2>3
  <2>6. account' = [account EXCEPT !.cash = account.cash - Signed(orders[i], shares) * price,
                                   !.shares = moved]
    BY <1>1, <1>3 DEF Account
  <2>7. account' \in Account /\ account'.shares = moved
    <3> HIDE DEF moved
    <3>1. QED
      BY <1>1, <2>4, <2>5, <2>6 DEF Account
  <2>8. QED
    BY <2>4, <2>7
<1>9. QED
  BY <1>7, <1>8

\* A death: nothing of the order but its status.
LEMMA ExpireEffect ==
  ASSUME TypeOK, NEW i \in DOMAIN orders, Expire(i)
  PROVE  /\ orders' \in Seq(VenueOrder) /\ account' = account
         /\ Len(orders') = Len(orders)
         /\ \A j \in DOMAIN orders : j # i => orders'[j] = orders[j]
         /\ orders'[i] = [orders[i] EXCEPT !.status = "dead"]
<1>1. orders \in Seq(VenueOrder) /\ orders[i] \in VenueOrder /\ i \in 1..Len(orders)
  BY DEF TypeOK, VenueTypeOK
<1> DEFINE new == [orders[i] EXCEPT !.status = "dead"]
<1>2. new \in VenueOrder
  BY <1>1 DEF VenueOrder
<1>3. orders' = [orders EXCEPT ![i] = new] /\ account' = account
  BY DEF Expire
<1>4. QED
  <2> HIDE DEF new
  <2>1. QED
    BY <1>1, <1>2, <1>3, ExceptSeq DEF new

\* place hands an order over.
LEMMA SubmitEffect ==
  ASSUME TypeOK, NEW order, Submit(order),
         order.symbol \in Symbols, order.side \in {"BUY", "SELL"}, order.shares \in Nat
  PROVE  LET new == [symbol |-> order.symbol, side |-> order.side, shares |-> order.shares,
                     filled |-> 0, status |-> "working", left |-> 0]
         IN  /\ orders' \in Seq(VenueOrder) /\ account' = account
             /\ Len(orders') = Len(orders) + 1
             /\ \A j \in DOMAIN orders : orders'[j] = orders[j]
             /\ orders'[Len(orders) + 1] = new
<1> DEFINE new == [symbol |-> order.symbol, side |-> order.side, shares |-> order.shares,
                   filled |-> 0, status |-> "working", left |-> 0]
<1>1. orders \in Seq(VenueOrder)
  BY DEF TypeOK, VenueTypeOK
<1>2. new \in VenueOrder
  BY DEF VenueOrder
<1>3. orders' = Append(orders, new) /\ account' = account
  BY DEF Submit
<1>4. QED
  <2> HIDE DEF new
  <2>1. QED
    BY <1>1, <1>2, <1>3, AppendProperties DEF new

\* place stops waiting.
LEMMA StopWaitingEffect ==
  ASSUME TypeOK, OrdersInv, orders # <<>>, StopWaiting
  PROVE  /\ orders' \in Seq(VenueOrder) /\ account' = account
         /\ Len(orders') = Len(orders)
         /\ Awaited \in DOMAIN orders
         /\ \A j \in DOMAIN orders : j # Awaited => orders'[j] = orders[j]
         /\ orders'[Awaited] =
              [orders[Awaited] EXCEPT
                 !.left = IF Working(Awaited) THEN Remaining(orders[Awaited]) ELSE 0]
<1>1. orders \in Seq(VenueOrder) /\ Awaited \in DOMAIN orders /\ DOMAIN orders = 1..Len(orders)
  BY DEF TypeOK, VenueTypeOK, Awaited
<1> DEFINE left == IF Working(Awaited) THEN Remaining(orders[Awaited]) ELSE 0
           new == [orders[Awaited] EXCEPT !.left = left]
<1>2. orders[Awaited] \in VenueOrder /\ orders[Awaited].filled <= orders[Awaited].shares
  BY <1>1 DEF OrdersInv
<1>3. left \in Nat
  BY <1>2 DEF VenueOrder, Remaining
<1>4. new \in VenueOrder
  <2> HIDE DEF left
  <2>1. QED
    BY <1>2, <1>3 DEF VenueOrder
<1>5. orders' = [orders EXCEPT ![Awaited] = new] /\ account' = account
  BY <1>1 DEF StopWaiting
<1>6. QED
  <2> HIDE DEF new
  <2>1. /\ orders' \in Seq(VenueOrder) /\ Len(orders') = Len(orders)
        /\ orders'[Awaited] = new
        /\ \A j \in DOMAIN orders : j # Awaited => orders'[j] = orders[j]
    BY <1>1, <1>4, <1>5, ExceptSeq
  <2>2. QED
    BY <1>1, <1>5, <2>1 DEF new

\* What is due of a plan.
LEMMA DueOrder ==
  ASSUME TypeOK, plan # NoPlan
  PROVE  LET order == OrderFor(Due(plan), plan[Due(plan)])
         IN  /\ Due(plan) \in Symbols /\ order.symbol = Due(plan)
             /\ order.side \in {"BUY", "SELL"} /\ order.shares \in Nat \ {0}
             /\ Signed(order, order.shares) = plan[Due(plan)]
<1>1. PICK t \in Symbols : plan[t] # 0
  BY DEF TypeOK, NoPlan
<1>2. Symbols \in SUBSET Nat /\ plan \in [Symbols -> Int]
  BY RunConstants DEF TypeOK
<1>3. Due(plan) \in Symbols /\ plan[Due(plan)] # 0
  BY <1>1, <1>2, DueIsPlanned
<1>4. plan[Due(plan)] \in Int
  BY <1>2, <1>3
<1>5. QED
  BY <1>3, <1>4, OrderForType DEF Signed

LEMMA TypeInit == Init => TypeOK /\ OrdersInv
<1>1. ASSUME Init PROVE VenueTypeOK
  BY <1>1, VenueConstants DEF Init, VenueInit, VenueTypeOK, Account
<1>2. QED
  BY <1>1 DEF Init, VenueInit, TypeOK, OrdersInv, NoPlan

LEMMA TypeNext == TypeOK /\ OrdersInv /\ [Next]_vars => TypeOK' /\ OrdersInv'
<1> SUFFICES ASSUME TypeOK, OrdersInv, [Next]_vars PROVE TypeOK' /\ OrdersInv'
  OBVIOUS
<1>t. /\ orders \in Seq(VenueOrder) /\ account \in Account
      /\ \A i \in DOMAIN orders : orders[i] \in VenueOrder
      /\ DOMAIN orders = 1..Len(orders)
  BY DEF TypeOK, VenueTypeOK
<1>1. CASE Begin
  <2>1. \A want \in Wants : OrdersFor(account.shares, want, Closes) \in [Symbols -> Int]
    BY <1>t, RunConstants, OrdersForType DEF Account
  <2>2. plan' \in [Symbols -> Int]
    BY <1>1, <2>1 DEF Begin, NoPlan
  <2>3. held' \in [Symbols -> Int] /\ reported' \in [Symbols -> Int]
    BY <1>1, <1>t DEF Begin, Account, NoPlan
  <2>4. QED
    BY <1>1, <2>2, <2>3 DEF Begin, TypeOK, VenueTypeOK, venueVars, OrdersInv, Working, Awaited
<1>2. CASE HandOver
  <2> DEFINE order == OrderFor(Due(plan), plan[Due(plan)])
  <2>1. /\ Due(plan) \in Symbols /\ order.symbol \in Symbols
        /\ order.side \in {"BUY", "SELL"} /\ order.shares \in Nat \ {0}
    BY <1>2, DueOrder DEF HandOver, OrdersInv
  <2>2. Submit(order)
    BY <1>2 DEF HandOver
  <2>3. /\ orders' \in Seq(VenueOrder) /\ account' = account
        /\ Len(orders') = Len(orders) + 1
        /\ \A j \in DOMAIN orders : orders'[j] = orders[j]
        /\ orders'[Len(orders) + 1] =
             [symbol |-> order.symbol, side |-> order.side, shares |-> order.shares,
              filled |-> 0, status |-> "working", left |-> 0]
    <3> HIDE DEF order
    <3>1. QED
      BY <2>1, <2>2, SubmitEffect
  <2>4. plan' \in [Symbols -> Int]
    <3>1. plan \in [Symbols -> Int] /\ plan' = [plan EXCEPT ![Due(plan)] = 0]
      BY <1>2 DEF HandOver, TypeOK
    <3>2. QED
      BY <3>1, ReplacedIsAPlan
  <2>5. TypeOK'
    BY <1>2, <1>t, <2>3, <2>4 DEF HandOver, TypeOK, VenueTypeOK
  <2>6. OrdersInv'
    <3>1. pc' = "waiting"
      BY <1>2 DEF HandOver
    <3>2. \A i \in DOMAIN orders' : i \in DOMAIN orders \/ i = Len(orders) + 1
      BY <1>t, <2>3
    <3>3. orders' # <<>> /\ Awaited' = Len(orders) + 1
      BY <1>t, <2>3 DEF Awaited
    <3>4. ASSUME NEW i \in DOMAIN orders'
          PROVE  /\ orders'[i].filled <= orders'[i].shares
                 /\ orders'[i].status = "working" => orders'[i].filled < orders'[i].shares
      <4> HIDE DEF order
      <4>1. CASE i \in DOMAIN orders
        BY <2>3, <4>1 DEF OrdersInv, Working
      <4>2. CASE i = Len(orders) + 1
        BY <2>1, <2>3, <4>2
      <4>3. QED
        BY <3>2, <4>1, <4>2
    <3>5. orders'[Awaited'].left = 0
      BY <2>3, <3>3
    <3>6. QED
      BY <3>1, <3>3, <3>4, <3>5 DEF OrdersInv, Working
  <2>7. QED
    BY <2>5, <2>6
<1>w. ASSUME StopWaiting, pc = "waiting"
      PROVE  /\ orders' \in Seq(VenueOrder) /\ account' = account
             /\ \A i \in DOMAIN orders' :
                  /\ orders'[i].filled <= orders'[i].shares
                  /\ orders'[i].status = "working" => orders'[i].filled < orders'[i].shares
  <2>1. orders # <<>>
    BY <1>w DEF OrdersInv
  <2>2. /\ orders' \in Seq(VenueOrder) /\ account' = account
        /\ Len(orders') = Len(orders)
        /\ \A j \in DOMAIN orders : j # Awaited => orders'[j] = orders[j]
        /\ Awaited \in DOMAIN orders
        /\ orders'[Awaited] =
             [orders[Awaited] EXCEPT
                !.left = IF Working(Awaited) THEN Remaining(orders[Awaited]) ELSE 0]
    BY <1>w, <2>1, StopWaitingEffect
  <2>3. /\ orders'[Awaited].filled = orders[Awaited].filled
        /\ orders'[Awaited].shares = orders[Awaited].shares
        /\ orders'[Awaited].status = orders[Awaited].status
    BY <1>t, <2>2 DEF VenueOrder
  <2>4. DOMAIN orders' = DOMAIN orders
    BY <1>t, <2>2
  <2>5. QED
    BY <2>2, <2>3, <2>4 DEF OrdersInv, Working
<1>3. CASE PlaceReturns
  <2>1. /\ orders' \in Seq(VenueOrder) /\ account' = account
        /\ \A i \in DOMAIN orders' :
             /\ orders'[i].filled <= orders'[i].shares
             /\ orders'[i].status = "working" => orders'[i].filled < orders'[i].shares
    BY <1>3, <1>w DEF PlaceReturns
  <2>2. Awaited \in DOMAIN orders
    BY <1>3, <1>t DEF PlaceReturns, OrdersInv, Awaited
  <2>3. FilledByNow(orders[Awaited]) \in Int
    BY <1>t, <2>2 DEF VenueOrder, FilledByNow, Signed
  <2>4. reported' \in [Symbols -> Int]
    <3> DEFINE s == orders[Awaited].symbol
               total == reported[s] + FilledByNow(orders[Awaited])
    <3>1. s \in Symbols /\ reported \in [Symbols -> Int]
      BY <1>t, <2>2 DEF VenueOrder, TypeOK
    <3>2. total \in Int
      BY <2>3, <3>1
    <3>3. reported' = [reported EXCEPT ![s] = total]
      BY <1>3 DEF PlaceReturns
    <3>4. QED
      <4> HIDE DEF s, total
      <4>1. QED
        BY <3>1, <3>2, <3>3, ReplacedIsAPlan
  <2>5. QED
    BY <1>3, <1>t, <2>1, <2>4 DEF PlaceReturns, TypeOK, VenueTypeOK, OrdersInv, Working
<1>4. CASE Write
  BY <1>4, <1>t DEF Write, TypeOK, VenueTypeOK, venueVars, OrdersInv, Working, Awaited
<1>5. CASE Stop
  <2>1. CASE pc = "waiting"
    <3>1. /\ orders' \in Seq(VenueOrder) /\ account' = account
          /\ \A i \in DOMAIN orders' :
               /\ orders'[i].filled <= orders'[i].shares
               /\ orders'[i].status = "working" => orders'[i].filled < orders'[i].shares
      BY <1>5, <1>w, <2>1 DEF Stop
    <3>2. QED
      BY <1>5, <1>t, <3>1 DEF Stop, TypeOK, VenueTypeOK, OrdersInv, Working, NoPlan
  <2>2. CASE pc # "waiting"
    BY <1>5, <1>t, <2>2 DEF Stop, TypeOK, VenueTypeOK, venueVars, OrdersInv, Working, NoPlan
  <2>3. QED
    BY <2>1, <2>2
<1>6. CASE VenueMoves
  <2>1. PICK i \in DOMAIN orders : Execute(i) \/ Expire(i)
    BY <1>6 DEF VenueMoves, Venue
  <2>2. /\ orders' \in Seq(VenueOrder) /\ account' \in Account
        /\ Len(orders') = Len(orders)
        /\ \A j \in DOMAIN orders : j # i => orders'[j] = orders[j]
        /\ orders'[i].left = orders[i].left
        /\ orders'[i].filled <= orders'[i].shares
        /\ orders'[i].status = "working" => orders'[i].filled < orders'[i].shares
    <3>1. CASE Execute(i)
      <4>1. PICK shares \in 1..Remaining(orders[i]) :
              /\ orders' \in Seq(VenueOrder) /\ account' \in Account
              /\ Len(orders') = Len(orders)
              /\ \A j \in DOMAIN orders : j # i => orders'[j] = orders[j]
              /\ orders'[i] = [orders[i] EXCEPT
                   !.filled = @ + shares,
                   !.status = IF shares = Remaining(orders[i]) THEN "filled" ELSE @]
        BY <3>1, ExecuteEffect
      <4>2. /\ orders'[i].left = orders[i].left /\ orders'[i].shares = orders[i].shares
            /\ orders'[i].filled = orders[i].filled + shares
            /\ orders'[i].status = IF shares = Remaining(orders[i]) THEN "filled"
                                   ELSE orders[i].status
        BY <1>t, <4>1 DEF VenueOrder
      <4>3. orders[i].shares \in Nat /\ orders[i].filled \in Nat
        BY <1>t DEF VenueOrder
      <4>4. QED
        BY <4>1, <4>2, <4>3 DEF Remaining
    <3>2. CASE Expire(i)
      <4>1. /\ orders' \in Seq(VenueOrder) /\ account' = account
            /\ Len(orders') = Len(orders)
            /\ \A j \in DOMAIN orders : j # i => orders'[j] = orders[j]
            /\ orders'[i] = [orders[i] EXCEPT !.status = "dead"]
        BY <3>2, ExpireEffect
      <4>2. /\ orders'[i].left = orders[i].left /\ orders'[i].filled = orders[i].filled
            /\ orders'[i].shares = orders[i].shares /\ orders'[i].status = "dead"
        BY <1>t, <4>1 DEF VenueOrder
      <4>3. QED
        BY <1>t, <4>1, <4>2 DEF OrdersInv
    <3>3. QED
      BY <2>1, <3>1, <3>2
  <2>3. DOMAIN orders' = DOMAIN orders /\ Awaited' = Awaited
    BY <1>t, <2>2 DEF Awaited
  <2>4. TypeOK'
    BY <1>6, <2>2 DEF VenueMoves, TypeOK, VenueTypeOK
  <2>5. pc' = "waiting" => orders' # <<>> /\ orders'[Awaited'].left = 0
    <3>1. pc = "waiting" => orders # <<>> /\ orders[Awaited].left = 0 /\ Awaited \in DOMAIN orders
      BY <1>t DEF OrdersInv, Awaited
    <3>2. QED
      BY <1>6, <1>t, <2>2, <2>3, <3>1 DEF VenueMoves
  <2>6. QED
    BY <1>6, <2>2, <2>3, <2>4, <2>5 DEF VenueMoves, OrdersInv, Working
<1>7. CASE UNCHANGED vars
  BY <1>7, <1>t DEF vars, venueVars, TypeOK, VenueTypeOK, OrdersInv, Working, Awaited
<1>8. CASE PlaceOrder
  BY <1>8, <1>t DEF PlaceOrder, TypeOK, VenueTypeOK, venueVars, OrdersInv, Working, Awaited
<1>9. QED
  BY <1>1, <1>2, <1>3, <1>4, <1>5, <1>6, <1>7, <1>8 DEF Next, Cycle

-----------------------------------------------------------------------------
(* While no order has been left working: the invariant.                    *)

\* The order that is waited for is the only one that can still fill.
Sole == \A i \in DOMAIN orders : Working(i) => pc = "waiting" /\ i = Awaited

AwaitedOf(s) == pc = "waiting" /\ orders[Awaited].symbol = s

InFlight(s) == IF AwaitedOf(s) /\ Working(Awaited)
                 THEN Signed(orders[Awaited], Remaining(orders[Awaited])) ELSE 0

\* Every sell that is planned or on its way is covered by what is held.
Covered == \A s \in Symbols : /\ account.shares[s] >= 0
                              /\ account.shares[s] + plan[s] >= 0
                              /\ account.shares[s] + InFlight(s) >= 0
                              /\ AwaitedOf(s) => plan[s] = 0

FilledSoFar(s) == IF AwaitedOf(s) THEN FilledByNow(orders[Awaited]) ELSE 0

Explained ==
  pc # "idle" =>
    \A s \in Symbols : account.shares[s] = held[s] + reported[s] + FilledSoFar(s)

Recorded == pc = "idle" /\ stops = 0 /\ record # NoRecord => record = account

TrackedInv == Left = {} => Sole /\ Covered /\ Explained /\ Recorded

LEMMA TrackedInit == Init => TrackedInv
BY DEF Init, VenueInit, NoPlan, TrackedInv, Sole, Covered, InFlight, AwaitedOf, Explained, Recorded

\* An order that was left stays one that was.
LEMMA LeftStays ==
  ASSUME TypeOK, OrdersInv, [Next]_vars, Left' = {}
  PROVE  Left = {}
<1> SUFFICES ASSUME NEW j \in DOMAIN orders, orders[j].left > 0
             PROVE  j \in DOMAIN orders' /\ orders'[j].left > 0
  BY DEF Left
<1>t. /\ orders \in Seq(VenueOrder) /\ DOMAIN orders = 1..Len(orders)
      /\ \A i \in DOMAIN orders : orders[i] \in VenueOrder
  BY DEF TypeOK, VenueTypeOK
<1>1. CASE UNCHANGED orders
  BY <1>1
<1>2. CASE HandOver
  <2> DEFINE order == OrderFor(Due(plan), plan[Due(plan)])
  <2>1. /\ order.symbol \in Symbols /\ order.side \in {"BUY", "SELL"} /\ order.shares \in Nat
        /\ Submit(order)
    BY <1>2, DueOrder DEF HandOver, OrdersInv
  <2>2. /\ orders' \in Seq(VenueOrder) /\ Len(orders') = Len(orders) + 1
        /\ orders'[j] = orders[j]
    <3> HIDE DEF order
    <3>1. QED
      BY <2>1, SubmitEffect
  <2>3. QED
    BY <1>t, <2>2
<1>3. CASE StopWaiting /\ pc = "waiting"
  <2>1. orders # <<>> /\ j # Awaited
    BY <1>3 DEF OrdersInv
  <2>2. /\ orders' \in Seq(VenueOrder) /\ Len(orders') = Len(orders)
        /\ orders'[j] = orders[j]
    BY <1>3, <2>1, StopWaitingEffect
  <2>3. QED
    BY <1>t, <2>2
<1>4. CASE VenueMoves
  <2>1. PICK i \in DOMAIN orders : Execute(i) \/ Expire(i)
    BY <1>4 DEF VenueMoves, Venue
  <2>2. CASE Execute(i)
    <3>1. PICK shares \in 1..Remaining(orders[i]) :
            /\ orders' \in Seq(VenueOrder) /\ Len(orders') = Len(orders)
            /\ \A k \in DOMAIN orders : k # i => orders'[k] = orders[k]
            /\ orders'[i] = [orders[i] EXCEPT
                 !.filled = @ + shares,
                 !.status = IF shares = Remaining(orders[i]) THEN "filled" ELSE @]
      BY <2>2, ExecuteEffect
    <3>2. orders'[i].left = orders[i].left
      BY <1>t, <3>1 DEF VenueOrder
    <3>3. j # i => orders'[j] = orders[j]
      BY <3>1
    <3>4. DOMAIN orders' = DOMAIN orders
      BY <1>t, <3>1
    <3>5. QED
      BY <3>2, <3>3, <3>4
  <2>3. CASE Expire(i)
    <3>1. /\ orders' \in Seq(VenueOrder) /\ Len(orders') = Len(orders)
          /\ \A k \in DOMAIN orders : k # i => orders'[k] = orders[k]
          /\ orders'[i] = [orders[i] EXCEPT !.status = "dead"]
      BY <2>3, ExpireEffect
    <3>2. orders'[i].left = orders[i].left
      BY <1>t, <3>1 DEF VenueOrder
    <3>3. j # i => orders'[j] = orders[j]
      BY <3>1
    <3>4. DOMAIN orders' = DOMAIN orders
      BY <1>t, <3>1
    <3>5. QED
      BY <3>2, <3>3, <3>4
  <2>4. QED
    BY <2>1, <2>2, <2>3
<1>5. QED
  BY <1>1, <1>2, <1>3, <1>4
  DEF Next, Cycle, Begin, PlaceOrder, PlaceReturns, Write, Stop, vars, venueVars

\* place hands the order that is due over, and what was planned is in flight.
LEMMA HandedOver ==
  ASSUME TypeOK, OrdersInv, HandOver
  PROVE  \E d \in Symbols :
           /\ account' = account /\ orders' \in Seq(VenueOrder)
           /\ Len(orders') = Len(orders) + 1 /\ Awaited' = Len(orders) + 1
           /\ \A j \in DOMAIN orders : orders'[j] = orders[j]
           /\ orders'[Awaited'].left = 0
           /\ \A s \in Symbols : /\ plan'[s] = IF s = d THEN 0 ELSE plan[s]
                                 /\ AwaitedOf(s)' <=> s = d
                                 /\ InFlight(s)' = IF s = d THEN plan[s] ELSE 0
                                 /\ FilledSoFar(s)' = 0
<1> DEFINE order == OrderFor(Due(plan), plan[Due(plan)])
           d == Due(plan)
           new == orders'[Awaited']
<1>1. /\ d \in Symbols /\ order.symbol = d /\ order.side \in {"BUY", "SELL"}
      /\ order.shares \in Nat \ {0} /\ Signed(order, order.shares) = plan[d]
      /\ Submit(order)
  BY DueOrder DEF HandOver, OrdersInv
<1>2. /\ account' = account /\ Len(orders') = Len(orders) + 1
      /\ orders' \in Seq(VenueOrder)
      /\ \A j \in DOMAIN orders : orders'[j] = orders[j]
      /\ orders'[Len(orders) + 1] =
           [symbol |-> order.symbol, side |-> order.side, shares |-> order.shares,
            filled |-> 0, status |-> "working", left |-> 0]
  <2> HIDE DEF order
  <2>1. QED
    BY <1>1, SubmitEffect
<1>3. Awaited' = Len(orders) + 1
  BY <1>2 DEF Awaited
<1>4. /\ new.symbol = d /\ new.filled = 0 /\ new.status = "working"
      /\ new.shares = order.shares /\ new.side = order.side /\ new.left = 0
  <2> HIDE DEF order, d
  <2>1. QED
    BY <1>1, <1>2, <1>3
<1>5. pc' = "waiting" /\ plan' = [plan EXCEPT ![d] = 0]
  BY DEF HandOver
<1>6. \A s \in Symbols : plan'[s] = IF s = d THEN 0 ELSE plan[s]
  <2> HIDE DEF d
  <2>1. plan \in [Symbols -> Int]
    BY DEF TypeOK
  <2>2. QED
    BY <1>5, <2>1
<1> HIDE DEF order, d, new
<1>7. \A s \in Symbols : AwaitedOf(s)' <=> s = d
  BY <1>4, <1>5 DEF AwaitedOf, new
<1>8. Signed(new, Remaining(new)) = plan[d] /\ FilledByNow(new) = 0
  <2>1. Remaining(new) = order.shares
    BY <1>1, <1>4 DEF Remaining
  <2>2. Signed(new, order.shares) = Signed(order, order.shares)
    <3>1. new.side = order.side
      BY <1>4
    <3>2. QED
      BY ONLY <3>1 DEF Signed
  <2>3. Signed(new, 0) = 0
    <3>1. (\A n \in Int : -n = 0 - n) /\ 0 - 0 = 0 /\ 0 \in Int
      OBVIOUS
    <3>2. -0 = 0
      BY <3>1, Zenon
    <3>3. QED
      BY ONLY <3>2, Zenon DEF Signed
  <2>4. QED
    BY <1>1, <1>4, <2>1, <2>2, <2>3 DEF FilledByNow
<1>9. \A s \in Symbols : /\ InFlight(s)' = IF s = d THEN plan[s] ELSE 0
                         /\ FilledSoFar(s)' = 0
  BY <1>4, <1>7, <1>8 DEF InFlight, FilledSoFar, Working, new
<1>10. new.left = 0
  BY <1>4
<1>11. QED
  BY <1>1, <1>2, <1>3, <1>6, <1>7, <1>9, <1>10 DEF new

\* A fill or a death at the venue: `shares' of one working order.
LEMMA VenueStep ==
  ASSUME TypeOK, OrdersInv, VenueMoves
  PROVE  \E i \in DOMAIN orders, shares \in Nat :
           /\ Working(i) /\ shares <= Remaining(orders[i])
           /\ orders' \in Seq(VenueOrder) /\ Len(orders') = Len(orders)
           /\ \A j \in DOMAIN orders : j # i => orders'[j] = orders[j]
           /\ orders'[i].symbol = orders[i].symbol /\ orders'[i].side = orders[i].side
           /\ orders'[i].shares = orders[i].shares /\ orders'[i].left = orders[i].left
           /\ orders'[i].filled = orders[i].filled + shares
           /\ \A s \in Symbols : account'.shares[s] = account.shares[s]
                + IF s = orders[i].symbol THEN Signed(orders[i], shares) ELSE 0
<1>t. /\ orders \in Seq(VenueOrder) /\ account \in Account
      /\ \A s \in Symbols : account.shares[s] \in Int
  BY DEF TypeOK, VenueTypeOK, Account
<1>1. PICK i \in DOMAIN orders : Execute(i) \/ Expire(i)
  BY DEF VenueMoves, Venue
<1> DEFINE o == orders[i]
           new == orders'[i]
<1>2. o \in VenueOrder /\ Working(i) /\ Remaining(o) \in Int /\ 0 <= Remaining(o)
  <2>1. Working(i)
    BY <1>1 DEF Execute, Expire
  <2>2. o \in VenueOrder /\ o.filled <= o.shares
    BY <1>t DEF OrdersInv
  <2>3. QED
    BY <2>1, <2>2 DEF VenueOrder, Remaining
<1>3. CASE Execute(i)
  <2>1. PICK shares \in 1..Remaining(o) :
          /\ orders' \in Seq(VenueOrder) /\ Len(orders') = Len(orders)
          /\ \A j \in DOMAIN orders : j # i => orders'[j] = orders[j]
          /\ new = [o EXCEPT !.filled = @ + shares,
                             !.status = IF shares = Remaining(o) THEN "filled" ELSE @]
          /\ \A s \in Symbols : account'.shares[s] =
               account.shares[s] + IF s = o.symbol THEN Signed(o, shares) ELSE 0
    BY <1>3, ExecuteEffect
  <2>2. /\ new.symbol = o.symbol /\ new.side = o.side /\ new.shares = o.shares
        /\ new.left = o.left /\ new.filled = o.filled + shares
    BY <1>2, <2>1 DEF VenueOrder
  <2>3. shares \in Nat /\ shares <= Remaining(o)
    BY <1>2
  <2> HIDE DEF o, new
  <2>4. QED
    BY <1>2, <2>1, <2>2, <2>3 DEF o, new
<1>4. CASE Expire(i)
  <2>1. /\ orders' \in Seq(VenueOrder) /\ account' = account /\ Len(orders') = Len(orders)
        /\ \A j \in DOMAIN orders : j # i => orders'[j] = orders[j]
        /\ new = [o EXCEPT !.status = "dead"]
    BY <1>4, ExpireEffect
  <2>2. /\ new.symbol = o.symbol /\ new.side = o.side /\ new.shares = o.shares
        /\ new.left = o.left /\ new.filled = o.filled + 0
    BY <1>2, <2>1 DEF VenueOrder
  <2>3. \A s \in Symbols : account'.shares[s] =
           account.shares[s] + IF s = o.symbol THEN Signed(o, 0) ELSE 0
    BY <1>t, <2>1 DEF Signed
  <2> HIDE DEF o, new
  <2>4. QED
    BY <1>2, <2>1, <2>2, <2>3 DEF o, new
<1>5. QED
  BY <1>1, <1>3, <1>4

LEMMA TrackedNext ==
  TypeOK /\ OrdersInv /\ TrackedInv /\ TypeOK' /\ OrdersInv' /\ [Next]_vars => TrackedInv'
<1> SUFFICES ASSUME TypeOK, OrdersInv, TrackedInv, TypeOK', OrdersInv', [Next]_vars, Left' = {}
             PROVE  Sole' /\ Covered' /\ Explained' /\ Recorded'
  BY DEF TrackedInv
<1>t. /\ orders \in Seq(VenueOrder) /\ DOMAIN orders = 1..Len(orders)
      /\ \A i \in DOMAIN orders : orders[i] \in VenueOrder
      /\ \A s \in Symbols : /\ account.shares[s] \in Int /\ plan[s] \in Int
                            /\ held[s] \in Int /\ reported[s] \in Int
      /\ stops \in Nat /\ account \in Account
  BY DEF TypeOK, VenueTypeOK, Account
<1>i. Sole /\ Covered /\ Explained /\ Recorded
  BY LeftStays DEF TrackedInv
<1>p. NoPlan = [s \in Symbols |-> 0]
  BY DEF NoPlan
<1>1. CASE Begin
  <2>1. UNCHANGED <<account, orders>> /\ Awaited' = Awaited
    BY <1>1 DEF Begin, venueVars, Awaited
  <2>2. pc = "idle" /\ pc' = "placing"
    BY <1>1 DEF Begin
  <2>3. Sole' /\ Recorded'
    BY <1>i, <2>1, <2>2 DEF Sole, Recorded, Working
  <2>4. ASSUME NEW s \in Symbols PROVE account.shares[s] + plan'[s] >= 0
    <3>1. CASE plan' = NoPlan
      BY <1>i, <1>p, <1>t, <3>1 DEF Covered
    <3>2. CASE plan' # NoPlan
      <4>1. PICK want \in Wants : plan' = OrdersFor(account.shares, want, Closes)
        BY <1>1, <3>2 DEF Begin
      <4>2. account.shares \in [Symbols -> Int] /\ want \in [Symbols -> Nat]
        BY <1>t, RunConstants DEF Account
      <4>3. plan'[s] >= 0 \/ account.shares[s] + plan'[s] >= 0
        BY <4>1, <4>2, RunConstants, OrdersForType
      <4>4. plan'[s] \in Int
        BY DEF TypeOK
      <4>5. QED
        BY <1>i, <1>t, <4>3, <4>4 DEF Covered
    <3>3. QED
      BY <3>1, <3>2
  <2>5. Covered'
    BY <1>i, <1>t, <2>1, <2>2, <2>4 DEF Covered, AwaitedOf, InFlight
  <2>6. held' = account.shares /\ reported' = NoPlan
    BY <1>1 DEF Begin
  <2>7. Explained'
    BY <1>p, <1>t, <2>1, <2>2, <2>6 DEF Explained, FilledSoFar, AwaitedOf
  <2>8. QED
    BY <2>3, <2>5, <2>7
<1>2. CASE HandOver
  <2>1. PICK d \in Symbols :
          /\ account' = account /\ orders' \in Seq(VenueOrder)
          /\ Len(orders') = Len(orders) + 1 /\ Awaited' = Len(orders) + 1
          /\ \A j \in DOMAIN orders : orders'[j] = orders[j]
          /\ \A s \in Symbols : /\ plan'[s] = IF s = d THEN 0 ELSE plan[s]
                                /\ AwaitedOf(s)' <=> s = d
                                /\ InFlight(s)' = IF s = d THEN plan[s] ELSE 0
                                /\ FilledSoFar(s)' = 0
    BY <1>2, HandedOver
  <2>2. pc = "qualifying" /\ pc' = "waiting" /\ UNCHANGED <<held, reported>>
    BY <1>2 DEF HandOver
  <2>3. Sole'
    <3>1. \A i \in DOMAIN orders : orders'[i].status # "working"
      BY <1>i, <2>1, <2>2 DEF Sole, Working
    <3>2. \A i \in DOMAIN orders' : i \in DOMAIN orders \/ i = Awaited'
      BY <1>t, <2>1
    <3>3. QED
      BY <2>2, <3>1, <3>2 DEF Sole, Working
  <2>4. Covered'
    BY <1>i, <1>t, <2>1 DEF Covered
  <2>5. Explained'
    <3>1. \A s \in Symbols : FilledSoFar(s) = 0
      BY <2>2 DEF FilledSoFar, AwaitedOf
    <3>2. QED
      BY <1>i, <1>t, <2>1, <2>2, <3>1 DEF Explained
  <2>6. QED
    BY <2>2, <2>3, <2>4, <2>5 DEF Recorded
\* With Left' empty, the order that place stops waiting for is done.
<1>w. ASSUME StopWaiting, pc = "waiting", pc' # "waiting"
      PROVE  /\ Sole' /\ account' = account
             /\ \A s \in Symbols : InFlight(s)' = 0 /\ FilledSoFar(s)' = 0 /\ ~AwaitedOf(s)'
             /\ Awaited \in DOMAIN orders
  <2>1. orders # <<>>
    BY <1>w DEF OrdersInv
  <2>2. /\ orders' \in Seq(VenueOrder) /\ account' = account
        /\ Len(orders') = Len(orders) /\ Awaited \in DOMAIN orders
        /\ \A j \in DOMAIN orders : j # Awaited => orders'[j] = orders[j]
        /\ orders'[Awaited] =
             [orders[Awaited] EXCEPT
                !.left = IF Working(Awaited) THEN Remaining(orders[Awaited]) ELSE 0]
    BY <1>w, <2>1, StopWaitingEffect
  <2>3. DOMAIN orders' = DOMAIN orders
    BY <1>t, <2>2
  <2>4. /\ orders'[Awaited].status = orders[Awaited].status
        /\ orders'[Awaited].left = IF Working(Awaited) THEN Remaining(orders[Awaited]) ELSE 0
    BY <1>t, <2>2 DEF VenueOrder
  <2>5. Working(Awaited) => Remaining(orders[Awaited]) > 0
    BY <1>t, <2>2 DEF OrdersInv, VenueOrder, Remaining
  <2>6. ~(orders'[Awaited].left > 0)
    BY <2>2, <2>3 DEF Left
  <2>7. ~Working(Awaited)
    BY <2>4, <2>5, <2>6
  <2>8. \A j \in DOMAIN orders' : orders'[j].status # "working"
    <3>1. \A j \in DOMAIN orders : j # Awaited => ~Working(j)
      BY <1>i DEF Sole
    <3>2. ASSUME NEW j \in DOMAIN orders, j # Awaited PROVE orders'[j].status # "working"
      BY <2>2, <3>1, <3>2 DEF Working
    <3>3. orders'[Awaited].status # "working"
      BY <2>4, <2>7 DEF Working
    <3>4. QED
      BY <2>3, <3>2, <3>3
  <2>9. QED
    BY <1>w, <2>2, <2>8 DEF Sole, Working, InFlight, FilledSoFar, AwaitedOf
<1>3. CASE PlaceReturns
  <2>1. /\ pc = "waiting" /\ pc' = "placing" /\ UNCHANGED <<plan, held>>
        /\ reported' = [reported EXCEPT
                          ![orders[Awaited].symbol] = @ + FilledByNow(orders[Awaited])]
    BY <1>3 DEF PlaceReturns
  <2>2. /\ Sole' /\ account' = account /\ Awaited \in DOMAIN orders
        /\ \A s \in Symbols : InFlight(s)' = 0 /\ FilledSoFar(s)' = 0 /\ ~AwaitedOf(s)'
    BY <1>3, <1>w DEF PlaceReturns
  <2>3. Covered'
    BY <1>i, <1>t, <2>1, <2>2 DEF Covered
  <2>4. orders[Awaited].symbol \in Symbols /\ reported \in [Symbols -> Int]
    BY <1>t, <2>2 DEF VenueOrder, TypeOK
  <2>5. \A s \in Symbols : reported'[s] = reported[s] + FilledSoFar(s)
    <3>1. \A s \in Symbols : AwaitedOf(s) <=> orders[Awaited].symbol = s
      BY <2>1 DEF AwaitedOf
    <3>2. QED
      BY <2>1, <2>4, <3>1 DEF FilledSoFar
  <2>6. \A s \in Symbols : account.shares[s] = held[s] + reported[s] + FilledSoFar(s)
    BY <1>i, <2>1 DEF Explained
  <2>7. \A s \in Symbols : reported'[s] \in Int
    BY DEF TypeOK
  <2>8. Explained'
    <3>1. \A s \in Symbols : FilledSoFar(s) \in Int
      BY <1>t, <2>2 DEF FilledSoFar, FilledByNow, Signed, VenueOrder
    <3>2. QED
      BY <1>t, <2>1, <2>2, <2>5, <2>6, <2>7, <3>1 DEF Explained
  <2>9. QED
    BY <2>1, <2>2, <2>3, <2>8 DEF Recorded
<1>4. CASE Write
  <2>1. /\ pc = "placing" /\ pc' = "idle" /\ plan' = plan /\ plan = NoPlan
        /\ account' = account /\ orders' = orders /\ record' = account
    BY <1>4 DEF Write, venueVars
  <2>2. Sole'
    BY <1>i, <2>1 DEF Sole, Working
  <2>3. \A s \in Symbols : InFlight(s)' = 0 /\ ~AwaitedOf(s)'
    BY <2>1 DEF InFlight, AwaitedOf
  <2>4. Covered'
    BY <1>i, <1>t, <2>1, <2>3 DEF Covered
  <2>5. QED
    BY <2>1, <2>2, <2>4 DEF Explained, Recorded
<1>5. CASE Stop
  <2>1. pc # "idle" /\ pc' = "idle" /\ plan' = NoPlan /\ stops' = stops + 1
    BY <1>5 DEF Stop
  <2>2. /\ Sole' /\ account' = account
        /\ \A s \in Symbols : InFlight(s)' = 0 /\ ~AwaitedOf(s)'
    <3>1. CASE pc = "waiting"
      BY <1>5, <1>w, <2>1, <3>1 DEF Stop
    <3>2. CASE pc # "waiting"
      BY <1>5, <1>i, <2>1, <3>2 DEF Stop, venueVars, Sole, Working, InFlight, AwaitedOf
    <3>3. QED
      BY <3>1, <3>2
  <2>3. Covered'
    BY <1>i, <1>p, <1>t, <2>1, <2>2 DEF Covered
  <2>4. QED
    BY <1>t, <2>1, <2>2, <2>3 DEF Explained, Recorded
<1>6. CASE VenueMoves
  <2> DEFINE o == orders[Awaited]
             new == orders'[Awaited]
  <2>1. PICK i \in DOMAIN orders, shares \in Nat :
          /\ Working(i) /\ shares <= Remaining(orders[i])
          /\ orders' \in Seq(VenueOrder) /\ Len(orders') = Len(orders)
          /\ \A j \in DOMAIN orders : j # i => orders'[j] = orders[j]
          /\ orders'[i].symbol = orders[i].symbol /\ orders'[i].side = orders[i].side
          /\ orders'[i].shares = orders[i].shares
          /\ orders'[i].filled = orders[i].filled + shares
          /\ \A s \in Symbols : account'.shares[s] = account.shares[s]
               + IF s = orders[i].symbol THEN Signed(orders[i], shares) ELSE 0
    BY <1>6, VenueStep
  <2>2. i = Awaited /\ pc = "waiting" /\ Working(Awaited)
    BY <1>i, <2>1 DEF Sole
  <2>3. UNCHANGED <<pc, plan, held, reported>>
    BY <1>6 DEF VenueMoves
  <2>4. o \in VenueOrder
    BY <1>t, <2>1, <2>2
  <2>5. /\ shares <= Remaining(o)
        /\ orders' \in Seq(VenueOrder) /\ Len(orders') = Len(orders)
        /\ \A j \in DOMAIN orders : j # Awaited => orders'[j] = orders[j]
        /\ new.symbol = o.symbol /\ new.side = o.side /\ new.shares = o.shares
        /\ new.filled = o.filled + shares
        /\ \A s \in Symbols : account'.shares[s] =
             account.shares[s] + IF s = o.symbol THEN Signed(o, shares) ELSE 0
    BY <2>1, <2>2
  <2>6. Awaited' = Awaited /\ DOMAIN orders' = DOMAIN orders
    BY <1>t, <2>5 DEF Awaited
  <2> HIDE DEF o, new
  <2>7. Sole'
    BY <1>i, <2>2, <2>3, <2>5, <2>6 DEF Sole, Working
  <2>8. /\ o.shares \in Nat /\ o.filled \in Nat /\ Remaining(o) \in Int
        /\ Remaining(new) = Remaining(o) - shares
    <3>1. o.shares \in Nat /\ o.filled \in Nat
      BY <2>4 DEF VenueOrder
    <3>2. Remaining(o) = o.shares - o.filled /\ Remaining(new) = new.shares - new.filled
      BY DEF Remaining
    <3>3. new.shares = o.shares /\ new.filled = o.filled + shares
      BY <2>5
    <3>4. QED
      BY <3>1, <3>2, <3>3
  <2>9. \A s \in Symbols : /\ AwaitedOf(s) <=> s = o.symbol
                           /\ AwaitedOf(s)' <=> s = o.symbol
    BY <2>2, <2>3, <2>5, <2>6 DEF AwaitedOf, o, new
  <2>10. ASSUME NEW s \in Symbols, s # o.symbol
         PROVE  /\ InFlight(s)' = 0 /\ FilledSoFar(s)' = 0 /\ FilledSoFar(s) = 0
                /\ account'.shares[s] = account.shares[s]
    BY <1>t, <2>5, <2>9, <2>10 DEF InFlight, FilledSoFar
  <2>11. ASSUME NEW s \in Symbols, s = o.symbol
         PROVE  /\ InFlight(s) = Signed(o, Remaining(o))
                /\ InFlight(s)' \in {Signed(o, Remaining(o) - shares), 0}
                /\ FilledSoFar(s) = Signed(o, o.filled)
                /\ FilledSoFar(s)' = Signed(o, o.filled + shares)
                /\ account'.shares[s] = account.shares[s] + Signed(o, shares)
    <3>1. \A n : Signed(new, n) = Signed(o, n)
      BY <2>5 DEF Signed
    <3>2. InFlight(s) = Signed(o, Remaining(o)) /\ FilledSoFar(s) = Signed(o, o.filled)
      BY <2>2, <2>9, <2>11 DEF InFlight, FilledSoFar, FilledByNow, o
    <3>3. InFlight(s)' \in {Signed(new, Remaining(new)), 0}
      BY <2>6, <2>9, <2>11 DEF InFlight, new
    <3>4. FilledSoFar(s)' = Signed(new, new.filled)
      BY <2>6, <2>9, <2>11 DEF FilledSoFar, FilledByNow, new
    <3>5. QED
      BY <2>5, <2>8, <2>11, <3>1, <3>2, <3>3, <3>4
  <2>12. Covered'
    <3>1. ASSUME NEW s \in Symbols
          PROVE  /\ account.shares[s] >= 0
                 /\ account.shares[s] + plan[s] >= 0
                 /\ account.shares[s] + InFlight(s) >= 0
                 /\ s = o.symbol => plan[s] = 0
      BY <1>i, <2>9 DEF Covered
    <3>2. ASSUME NEW s \in Symbols
          PROVE  /\ account'.shares[s] >= 0
                 /\ account'.shares[s] + plan[s] >= 0
                 /\ account'.shares[s] + InFlight(s)' >= 0
      <4>1. CASE s # o.symbol
        BY <1>t, <2>10, <3>1, <4>1
      <4>2. CASE s = o.symbol
        <5>1. /\ account'.shares[s] = account.shares[s] + Signed(o, shares)
              /\ InFlight(s) = Signed(o, Remaining(o))
              /\ InFlight(s)' \in {Signed(o, Remaining(o) - shares), 0}
              /\ plan[s] = 0 /\ account.shares[s] >= 0
              /\ account.shares[s] + InFlight(s) >= 0
          BY <2>11, <3>1, <4>2
        <5>2. /\ account.shares[s] \in Int /\ shares \in Nat /\ Remaining(o) \in Int
              /\ shares <= Remaining(o)
          BY <1>t, <2>5, <2>8
        <5>3. \/ \A n : Signed(o, n) = n
              \/ \A n : Signed(o, n) = -n
          BY DEF Signed
        <5>4. QED
          BY ONLY <5>1, <5>2, <5>3
      <4>3. QED
        BY <4>1, <4>2
    <3>3. QED
      BY <2>3, <2>9, <3>1, <3>2 DEF Covered
  <2>13. Explained'
    <3>1. ASSUME NEW s \in Symbols
          PROVE  account'.shares[s] = held[s] + reported[s] + FilledSoFar(s)'
      <4>1. account.shares[s] = held[s] + reported[s] + FilledSoFar(s)
        BY <1>i, <2>2 DEF Explained
      <4>2. CASE s # o.symbol
        BY <2>10, <4>1, <4>2
      <4>3. CASE s = o.symbol
        <5>1. /\ FilledSoFar(s) = Signed(o, o.filled)
              /\ FilledSoFar(s)' = Signed(o, o.filled + shares)
              /\ account'.shares[s] = account.shares[s] + Signed(o, shares)
          BY <2>11, <4>3
        <5>2. /\ held[s] \in Int /\ reported[s] \in Int /\ o.filled \in Nat /\ shares \in Nat
          BY <1>t, <2>5, <2>8
        <5>3. \/ \A n : Signed(o, n) = n
              \/ \A n : Signed(o, n) = -n
          BY DEF Signed
        <5>4. QED
          BY ONLY <4>1, <5>1, <5>2, <5>3
      <4>4. QED
        BY <4>2, <4>3
    <3>2. QED
      BY <2>3, <3>1 DEF Explained
  <2>14. QED
    BY <2>2, <2>3, <2>7, <2>12, <2>13 DEF Recorded
<1>7. CASE UNCHANGED vars
  BY <1>7, <1>i DEF vars, venueVars, Sole, Covered, InFlight, AwaitedOf, Explained, FilledSoFar,
     Recorded, Working, Awaited
<1>8. CASE PlaceOrder
  <2>1. /\ pc = "placing" /\ pc' = "qualifying"
        /\ UNCHANGED <<account, orders, plan, held, reported>>
    BY <1>8 DEF PlaceOrder, venueVars
  <2>2. \A s \in Symbols : /\ ~AwaitedOf(s) /\ ~AwaitedOf(s)'
                           /\ InFlight(s)' = 0 /\ FilledSoFar(s) = 0 /\ FilledSoFar(s)' = 0
    BY <2>1 DEF AwaitedOf, InFlight, FilledSoFar
  <2>3. Sole'
    BY <1>i, <2>1 DEF Sole, Working
  <2>4. Covered'
    BY <1>i, <1>t, <2>1, <2>2 DEF Covered
  <2>5. Explained'
    BY <1>i, <2>1, <2>2 DEF Explained
  <2>6. QED
    BY <2>1, <2>3, <2>4, <2>5 DEF Recorded
<1>9. QED
  BY <1>1, <1>2, <1>3, <1>4, <1>5, <1>6, <1>7, <1>8 DEF Next, Cycle

-----------------------------------------------------------------------------
(* With orders left working: how far a position can be off.                *)

\* What an order can still fill.
Open(o) == IF o.status = "working" THEN Remaining(o) ELSE 0

\* What an order that was left has filled since, or will never fill.
Gone(o, side, s) ==
  IF o.left > 0 /\ o.side = side /\ o.symbol = s THEN o.left - Open(o) ELSE 0

GoneOf(os, side, s) == SumOf([i \in DOMAIN os |-> Gone(os[i], side, s)], DOMAIN os)

Lost(n) == IF n < 0 THEN n ELSE 0
Gain(n) == IF n > 0 THEN n ELSE 0

\* Whatever can still fill is waited for, or was left; of what was left, it is part.
LeftIsOpen ==
  \A i \in DOMAIN orders :
    /\ Working(i) => orders[i].left > 0 \/ (pc = "waiting" /\ i = Awaited)
    /\ orders[i].left > 0 => Open(orders[i]) <= orders[i].left

\* With what a plan and the order that is waited for can still do to it, a position
\* is off by what orders that were left have filled behind the cycle's back.
OffByGone ==
  \A s \in Symbols :
    /\ account.shares[s] + GoneOf(orders, "SELL", s) + Lost(plan[s]) + Lost(InFlight(s)) >= 0
    /\ account.shares[s] + Gain(plan[s]) + Gain(InFlight(s))
         <= MostWanted(s) + GoneOf(orders, "BUY", s)

ErrorInv == LeftIsOpen /\ OffByGone

LEMMA IndicesAreFinite ==
  ASSUME NEW os \in Seq(VenueOrder)
  PROVE  IsFiniteSet(DOMAIN os) /\ DOMAIN os = 1..Len(os) /\ Len(os) \in Nat
<1>1. DOMAIN os = 1..Len(os) /\ Len(os) \in Nat
  OBVIOUS
<1>2. 1 \in Int /\ Len(os) \in Int
  BY <1>1
<1>3. IsFiniteSet(1..Len(os))
  BY <1>2, FS_Interval
<1>4. QED
  BY <1>1, <1>3

LEMMA GoneIsInt ==
  ASSUME NEW o \in VenueOrder, NEW side, NEW s
  PROVE  Gone(o, side, s) \in Int /\ Open(o) \in Int
<1>1. o.left \in Int /\ o.shares \in Int /\ o.filled \in Int
  BY DEF VenueOrder
<1>2. QED
  BY <1>1 DEF Gone, Open, Remaining

\* Orders that have gone as far as before add up to as much.
LEMMA GoneKept ==
  ASSUME NEW os, NEW ps, DOMAIN os = DOMAIN ps, NEW side, NEW s,
         \A i \in DOMAIN os : Gone(ps[i], side, s) = Gone(os[i], side, s)
  PROVE  GoneOf(ps, side, s) = GoneOf(os, side, s)
BY DEF GoneOf

LEMMA GoneOfIsInt ==
  ASSUME NEW os \in Seq(VenueOrder), NEW side, NEW s
  PROVE  GoneOf(os, side, s) \in Int
<1> DEFINE w == [i \in DOMAIN os |-> Gone(os[i], side, s)]
<1>1. \A i \in DOMAIN os : w[i] \in Int
  BY GoneIsInt
<1> HIDE DEF w
<1>2. SumOf(w, DOMAIN os) \in Int
  BY <1>1, IndicesAreFinite, SumIsNumber
<1>3. QED
  BY <1>2 DEF GoneOf, w

\* One order goes further, and the sum with it.
LEMMA GoneMoves ==
  ASSUME NEW os \in Seq(VenueOrder), NEW ps \in Seq(VenueOrder), Len(ps) = Len(os),
         NEW i \in DOMAIN os, \A j \in DOMAIN os : j # i => ps[j] = os[j], NEW side, NEW s
  PROVE  GoneOf(ps, side, s) = GoneOf(os, side, s) + Gone(ps[i], side, s) - Gone(os[i], side, s)
<1> DEFINE D == DOMAIN os
           v == [j \in D |-> Gone(os[j], side, s)]
           w == [j \in D |-> Gone(ps[j], side, s)]
<1>1. DOMAIN ps = D /\ IsFiniteSet(D)
  BY IndicesAreFinite
<1>2. \A j \in D : v[j] \in Int /\ w[j] \in Int
  BY <1>1, GoneIsInt
<1>3. \A j \in D \ {i} : w[j] = v[j]
  OBVIOUS
<1>4. v[i] = Gone(os[i], side, s) /\ w[i] = Gone(ps[i], side, s)
  OBVIOUS
<1>5. GoneOf(os, side, s) = SumOf(v, D) /\ GoneOf(ps, side, s) = SumOf(w, D)
  BY <1>1 DEF GoneOf
<1> HIDE DEF v, w
<1>6. /\ SumOf(v, D) = v[i] + SumOf(v, D \ {i}) /\ SumOf(v, D \ {i}) \in Int
      /\ SumOf(w, D) = w[i] + SumOf(w, D \ {i}) /\ SumOf(w, D \ {i}) \in Int
  BY <1>1, <1>2, SumOfOthers
<1>7. IsFiniteSet(D \ {i})
  BY <1>1, FS_Subset
<1>8. SumOf(w, D \ {i}) = SumOf(v, D \ {i})
  BY <1>3, <1>7, SameSums
<1>9. QED
  BY <1>2, <1>4, <1>5, <1>6, <1>8

\* A new order has gone nowhere yet.
LEMMA GoneExtends ==
  ASSUME NEW os \in Seq(VenueOrder), NEW ps \in Seq(VenueOrder), Len(ps) = Len(os) + 1,
         \A j \in DOMAIN os : ps[j] = os[j], ps[Len(os) + 1].left = 0, NEW side, NEW s
  PROVE  GoneOf(ps, side, s) = GoneOf(os, side, s)
<1> DEFINE D == DOMAIN os
           E == DOMAIN ps
           n == Len(os) + 1
           v == [j \in D |-> Gone(os[j], side, s)]
           w == [j \in E |-> Gone(ps[j], side, s)]
<1>1. IsFiniteSet(D) /\ IsFiniteSet(E) /\ n \in E /\ E \ {n} = D
  <2>1. /\ IsFiniteSet(D) /\ D = 1..Len(os) /\ Len(os) \in Nat
        /\ IsFiniteSet(E) /\ E = 1..Len(ps)
    BY IndicesAreFinite
  <2>2. E = 1..n /\ n \in Nat /\ n = Len(os) + 1
    BY <2>1
  <2> HIDE DEF D, E, n
  <2>3. QED
    BY <2>1, <2>2
<1>2. \A j \in E : w[j] \in Int
  BY GoneIsInt
<1>3. \A j \in D : w[j] = v[j]
  BY <1>1
<1>4. w[n] = 0
  BY <1>1 DEF Gone
<1> HIDE DEF v, w, n
<1>5. SumOf(w, E) = w[n] + SumOf(w, E \ {n}) /\ SumOf(w, E \ {n}) \in Int
  BY <1>1, <1>2, SumOfOthers
<1>6. SumOf(w, D) = SumOf(v, D)
  BY <1>1, <1>3, SameSums
<1>7. QED
  BY <1>1, <1>4, <1>5, <1>6 DEF GoneOf, v, w

LEMMA LeftSharesAreSum ==
  ASSUME NEW L, IsFiniteSet(L)
  PROVE  MapThenSumSet(LAMBDA i : orders[i].left, L) = SumOf([i \in L |-> orders[i].left], L)
<1> DEFINE Totals(f) ==
             f = [T \in SUBSET L |-> IF T = {} THEN 0
                                     ELSE orders[First(T)].left + f[T \ {First(T)}]]
           t == CHOOSE f : Totals(f)
           p == [i \in L |-> orders[i].left]
<1>1. MapThenSumSet(LAMBDA i : orders[i].left, L) = t[L]
  BY DEF MapThenSumSet, MapThenFoldSet, First
<1>2. ASSUME NEW f PROVE Totals(f) <=> Sums(f, p, SUBSET L)
  <2>1. \A T \in SUBSET L : T # {} => p[First(T)] = orders[First(T)].left
    BY DEF First
  <2> HIDE DEF p
  <2>2. [T \in SUBSET L |-> IF T = {} THEN 0
                            ELSE orders[First(T)].left + f[T \ {First(T)}]]
          = [T \in SUBSET L |-> IF T = {} THEN 0 ELSE p[First(T)] + f[T \ {First(T)}]]
    BY <2>1
  <2>3. QED
    BY <2>2 DEF Sums
<1>3. PICK g : Sums(g, p, SUBSET L) /\ SumOf(p, L) = g[L]
  BY SumsSum
<1> HIDE DEF Totals, p
<1>4. Totals(t)
  BY <1>2, <1>3, Zenon
<1>5. t[L] = g[L]
  BY <1>2, <1>3, <1>4, SumsAgree
<1>6. QED
  BY <1>1, <1>3, <1>5 DEF p

\* What was left covers what has gone of it.
LEMMA GoneIsOfLeft ==
  ASSUME TypeOK, OrdersInv, LeftIsOpen, NEW side, NEW s
  PROVE  /\ GoneOf(orders, side, s) \in Nat
         /\ LeftShares(side, s) \in Nat /\ GoneOf(orders, side, s) <= LeftShares(side, s)
<1> DEFINE D == DOMAIN orders
           L == LeftOf(side, s)
           w == [i \in D |-> Gone(orders[i], side, s)]
           left == [i \in L |-> orders[i].left]
<1>1. /\ orders \in Seq(VenueOrder) /\ \A i \in D : orders[i] \in VenueOrder
      /\ \A i \in D : orders[i].left \in Nat
  <2>1. orders \in Seq(VenueOrder)
    BY DEF TypeOK, VenueTypeOK
  <2>2. \A i \in D : orders[i] \in VenueOrder
    BY <2>1
  <2>3. QED
    BY <2>1, <2>2 DEF VenueOrder
<1>2. IsFiniteSet(D) /\ L \in SUBSET D /\ IsFiniteSet(L) /\ IsFiniteSet(D \ L)
  <2>1. L \in SUBSET D
    BY DEF LeftOf, Left
  <2>2. QED
    BY <1>1, <2>1, IndicesAreFinite, FS_Subset
<1>3. \A i \in D : w[i] \in Nat
  <2>1. SUFFICES ASSUME NEW i \in D PROVE Gone(orders[i], side, s) \in Nat
    OBVIOUS
  <2>2. Open(orders[i]) \in Int /\ (orders[i].left > 0 => Open(orders[i]) <= orders[i].left)
    BY <1>1, GoneIsInt DEF LeftIsOpen
  <2>3. QED
    BY <1>1, <2>2 DEF Gone
<1>4. \A i \in L : w[i] <= left[i] /\ left[i] \in Nat
  <2>1. SUFFICES ASSUME NEW i \in L PROVE Gone(orders[i], side, s) <= orders[i].left
    BY <1>1, <1>2
  <2>2. i \in D /\ orders[i] \in VenueOrder
    BY <1>1, <1>2
  <2>3. Open(orders[i]) \in Int /\ 0 <= Open(orders[i])
    BY <2>2 DEF OrdersInv, Open, Remaining, VenueOrder
  <2>4. QED
    BY <1>1, <2>2, <2>3 DEF Gone
<1>5. \A i \in D \ L : w[i] = 0
  BY <1>1 DEF LeftOf, Left, Gone
<1>6. LeftShares(side, s) = SumOf(left, L)
  BY <1>2, LeftSharesAreSum DEF LeftShares
<1>7. GoneOf(orders, side, s) = SumOf(w, D)
  BY DEF GoneOf
<1> HIDE DEF w, left, L, D
<1>8. SumOf(w, D) = SumOf(w, L) + SumOf(w, D \ L)
  BY <1>2, <1>3, SumOfParts
<1>9. SumOf(w, D \ L) = 0 * Cardinality(D \ L) /\ Cardinality(D \ L) \in Nat
  <2> DEFINE R == D \ L
  <2>1. IsFiniteSet(R) /\ \A i \in R : w[i] = 0
    BY <1>2, <1>5
  <2> HIDE DEF R
  <2>2. SumOf(w, R) = 0 * Cardinality(R)
    BY <2>1, SumOfEqual
  <2>3. Cardinality(R) \in Nat
    BY <2>1, FS_CardinalityType
  <2>4. QED
    BY <2>2, <2>3 DEF R
<1>10. SumOf(w, L) <= SumOf(left, L) /\ SumOf(w, D) \in Nat /\ SumOf(left, L) \in Nat
       /\ SumOf(w, L) \in Nat
  <2>1. \A i \in L : w[i] \in Int /\ left[i] \in Int /\ w[i] <= left[i]
    BY <1>2, <1>3, <1>4
  <2>2. SumOf(w, L) <= SumOf(left, L)
    BY <1>2, <2>1, SumsGrow
  <2>3. SumOf(w, D) \in Nat
    BY <1>2, <1>3, SumIsNat
  <2>4. SumOf(left, L) \in Nat
    BY <1>2, <1>4, SumIsNat
  <2>5. SumOf(w, L) \in Nat
    BY <1>2, <1>3, SumIsNat
  <2>6. QED
    BY <2>2, <2>3, <2>4, <2>5
<1>11. QED
  BY <1>6, <1>7, <1>8, <1>9, <1>10

LEMMA MostWantedBounds ==
  ASSUME NEW s \in Symbols
  PROVE  /\ MostWanted(s) \in Nat /\ \A want \in Wants : want[s] <= MostWanted(s)
<1> DEFINE some == {want[s] : want \in Wants} \cup {0}
<1>1. IsFiniteSet(Wants)
  BY RunConstants
<1>2. IsFiniteSet({want[s] : want \in Wants})
  <2> DEFINE of == [want \in Wants |-> want[s]]
  <2>1. of \in [Wants -> {want[s] : want \in Wants}]
        /\ \A x \in {want[s] : want \in Wants} : \E want \in Wants : of[want] = x
    OBVIOUS
  <2>2. of \in Surjection(Wants, {want[s] : want \in Wants})
    BY <2>1 DEF Surjection
  <2>3. QED
    BY <1>1, <2>2, FS_Surjection
<1>3. IsFiniteSet({0}) /\ IsFiniteSet(some)
  BY <1>2, FS_Singleton, FS_Union
<1>4. \A n \in some : n \in Nat
  BY RunConstants
<1>5. 0 \in some /\ \A want \in Wants : want[s] \in some
  OBVIOUS
<1> HIDE DEF some
<1>6. Max(some) \in some /\ \A n \in some : Max(some) >= n
  BY <1>3, <1>4, <1>5, LargestIsMember
<1>7. QED
  BY <1>4, <1>5, <1>6 DEF MostWanted, some

\* A plan that leads to n undoes what a position was off by.
LEMMA PlanLeadsTo ==
  ASSUME NEW x \in Int, NEW g \in Nat, NEW h \in Nat, NEW m \in Nat, NEW n \in Nat, n <= m,
         x + g >= 0, x <= m + h
  PROVE  x + g + Lost(n - x) >= 0 /\ x + Gain(n - x) <= m + h
BY DEF Lost, Gain

LEMMA ErrorInit == Init => ErrorInv
<1> SUFFICES ASSUME Init PROVE ErrorInv
  OBVIOUS
<1>1. orders = <<>> /\ DOMAIN orders = {} /\ pc = "idle" /\ plan = NoPlan
  BY DEF Init, VenueInit
<1>2. ASSUME NEW side, NEW s PROVE GoneOf(orders, side, s) = 0
  BY <1>1, SumOfNone DEF GoneOf
<1>3. \A s \in Symbols : account.shares[s] = 0 /\ plan[s] = 0 /\ InFlight(s) = 0
  BY <1>1 DEF Init, VenueInit, NoPlan, InFlight, AwaitedOf
<1>4. \A s \in Symbols : MostWanted(s) \in Nat
  BY MostWantedBounds
<1>5. Lost(0) = 0 /\ Gain(0) = 0
  BY DEF Lost, Gain
<1>6. ASSUME NEW s \in Symbols
      PROVE  /\ account.shares[s] + GoneOf(orders, "SELL", s) + Lost(plan[s]) + Lost(InFlight(s)) >= 0
             /\ account.shares[s] + Gain(plan[s]) + Gain(InFlight(s))
                  <= MostWanted(s) + GoneOf(orders, "BUY", s)
  <2>1. /\ account.shares[s] = 0 /\ plan[s] = 0 /\ InFlight(s) = 0 /\ MostWanted(s) \in Nat
        /\ GoneOf(orders, "SELL", s) = 0 /\ GoneOf(orders, "BUY", s) = 0
    BY <1>2, <1>3, <1>4
  <2>2. QED
    BY <1>5, <2>1
<1>7. QED
  BY <1>1, <1>6 DEF ErrorInv, LeftIsOpen, OffByGone

LEMMA InFlightIsInt ==
  ASSUME TypeOK, OrdersInv, NEW s \in Symbols
  PROVE  InFlight(s) \in Int
<1>1. ASSUME AwaitedOf(s), Working(Awaited)
      PROVE  Signed(orders[Awaited], Remaining(orders[Awaited])) \in Int
  <2>1. orders[Awaited] \in VenueOrder
    <3>1. orders \in Seq(VenueOrder) /\ orders # <<>>
      BY <1>1 DEF TypeOK, VenueTypeOK, AwaitedOf, OrdersInv
    <3>2. QED
      BY <3>1 DEF Awaited
  <2>2. QED
    BY <2>1 DEF VenueOrder, Signed, Remaining
<1>2. QED
  BY <1>1 DEF InFlight

LEMMA ErrorNext ==
  TypeOK /\ OrdersInv /\ ErrorInv /\ TypeOK' /\ OrdersInv' /\ [Next]_vars => ErrorInv'
<1> SUFFICES ASSUME TypeOK, OrdersInv, ErrorInv, TypeOK', OrdersInv', [Next]_vars
             PROVE  ErrorInv'
  OBVIOUS
<1>t. /\ orders \in Seq(VenueOrder) /\ orders' \in Seq(VenueOrder)
      /\ DOMAIN orders = 1..Len(orders) /\ DOMAIN orders' = 1..Len(orders')
      /\ \A i \in DOMAIN orders : orders[i] \in VenueOrder
      /\ \A s \in Symbols : /\ account.shares[s] \in Int /\ plan[s] \in Int
                            /\ account'.shares[s] \in Int /\ plan'[s] \in Int
  BY DEF TypeOK, VenueTypeOK, Account
<1>e. LeftIsOpen /\ OffByGone
  BY DEF ErrorInv
<1>g. \A side, s : /\ GoneOf(orders, side, s) \in Int /\ GoneOf(orders', side, s) \in Int
                   /\ GoneOf(orders, side, s) \in Nat
  BY <1>e, <1>t, GoneOfIsInt, GoneIsOfLeft
<1>m. \A s \in Symbols : MostWanted(s) \in Nat
  BY MostWantedBounds
<1>f. \A s \in Symbols : InFlight(s) \in Int
  BY InFlightIsInt
\* A step in which no order goes further, and less is on its way than was.
<1>k. ASSUME \A s \in Symbols : account'.shares[s] = account.shares[s],
             \A side, s : GoneOf(orders', side, s) = GoneOf(orders, side, s),
             \A s \in Symbols : plan'[s] = plan[s] \/ plan'[s] = 0,
             \A s \in Symbols : InFlight(s)' = InFlight(s) \/ InFlight(s)' = 0
      PROVE  OffByGone'
  <2>1. ASSUME NEW s \in Symbols
        PROVE  /\ account'.shares[s] + GoneOf(orders', "SELL", s)
                    + Lost(plan'[s]) + Lost(InFlight(s)') >= 0
               /\ account'.shares[s] + Gain(plan'[s]) + Gain(InFlight(s)')
                    <= MostWanted(s) + GoneOf(orders', "BUY", s)
    <3>1. /\ account.shares[s] \in Int /\ plan[s] \in Int /\ InFlight(s) \in Int
          /\ GoneOf(orders, "SELL", s) \in Int
          /\ MostWanted(s) + GoneOf(orders, "BUY", s) \in Int
      BY <1>f, <1>g, <1>m, <1>t
    <3>2. /\ account.shares[s] + GoneOf(orders, "SELL", s) + Lost(plan[s]) + Lost(InFlight(s)) >= 0
          /\ account.shares[s] + Gain(plan[s]) + Gain(InFlight(s))
               <= MostWanted(s) + GoneOf(orders, "BUY", s)
      BY <1>e DEF OffByGone
    <3>3. /\ plan'[s] = plan[s] \/ plan'[s] = 0
          /\ InFlight(s)' = InFlight(s) \/ InFlight(s)' = 0
      <4>1. plan'[s] = plan[s] \/ plan'[s] = 0
        BY <1>k
      <4>2. InFlight(s)' = InFlight(s) \/ InFlight(s)' = 0
        BY <1>k
      <4>3. QED
        BY <4>1, <4>2
    <3>4. /\ account.shares[s] + GoneOf(orders, "SELL", s)
               + Lost(plan'[s]) + Lost(InFlight(s)') >= 0
          /\ account.shares[s] + Gain(plan'[s]) + Gain(InFlight(s)')
               <= MostWanted(s) + GoneOf(orders, "BUY", s)
      <4> DEFINE x == account.shares[s]
                 g == GoneOf(orders, "SELL", s)
                 h == MostWanted(s) + GoneOf(orders, "BUY", s)
                 p == plan[s]
                 f == InFlight(s)
                 q == plan'[s]
                 e == InFlight(s)'
      <4>1. /\ x \in Int /\ g \in Int /\ h \in Int /\ p \in Int /\ f \in Int
            /\ x + g + Lost(p) + Lost(f) >= 0 /\ x + Gain(p) + Gain(f) <= h
            /\ q \in Int /\ e \in Int /\ (q = p \/ q = 0) /\ (e = f \/ e = 0)
        <5>1. x \in Int /\ g \in Int /\ h \in Int /\ p \in Int /\ f \in Int
          BY <3>1
        <5>2. x + g + Lost(p) + Lost(f) >= 0 /\ x + Gain(p) + Gain(f) <= h
          BY <3>2
        <5>3. q \in Int /\ e \in Int /\ (q = p \/ q = 0) /\ (e = f \/ e = 0)
          BY <3>1, <3>3
        <5>4. QED
          BY <5>1, <5>2, <5>3
      <4> HIDE DEF x, g, h, p, f, q, e
      <4>2. x + g + Lost(q) + Lost(e) >= 0 /\ x + Gain(q) + Gain(e) <= h
        BY <4>1 DEF Lost, Gain
      <4>3. QED
        BY <4>2 DEF x, g, h, q, e
    <3>5. QED
      BY <1>k, <3>4
  <2>2. QED
    BY <2>1 DEF OffByGone, MostWanted
<1>1. CASE Begin
  <2>1. orders' = orders /\ account' = account /\ pc = "idle" /\ pc' = "placing"
    BY <1>1 DEF Begin, venueVars
  <2>2. LeftIsOpen'
    BY <1>e, <2>1 DEF LeftIsOpen, Working, Awaited
  <2>3. \A s \in Symbols : plan[s] = 0 /\ InFlight(s) = 0 /\ InFlight(s)' = 0
    BY <2>1 DEF OrdersInv, NoPlan, InFlight, AwaitedOf
  <2>4. ASSUME NEW s \in Symbols
        PROVE  plan'[s] = 0 \/ \E n \in 0..MostWanted(s) : plan'[s] = n - account.shares[s]
    <3>1. CASE plan' = NoPlan
      BY <3>1 DEF NoPlan
    <3>2. CASE plan' # NoPlan
      <4>1. PICK want \in Wants : plan' = OrdersFor(account.shares, want, Closes)
        BY <1>1, <3>2 DEF Begin
      <4>2. account.shares \in [Symbols -> Int] /\ want \in [Symbols -> Nat]
        BY RunConstants DEF TypeOK, VenueTypeOK, Account
      <4>3. plan'[s] \in {0, want[s] - account.shares[s]}
        BY <4>1, <4>2, RunConstants, OrdersForType
      <4>4. want[s] \in 0..MostWanted(s)
        BY <4>2, MostWantedBounds
      <4>5. QED
        BY <4>3, <4>4
    <3>3. QED
      BY <3>1, <3>2
  <2>5. ASSUME NEW s \in Symbols
        PROVE  /\ account.shares[s] + GoneOf(orders, "SELL", s) + Lost(plan'[s]) + Lost(0) >= 0
               /\ account.shares[s] + Gain(plan'[s]) + Gain(0)
                    <= MostWanted(s) + GoneOf(orders, "BUY", s)
    <3>1. /\ account.shares[s] + GoneOf(orders, "SELL", s) + Lost(0) + Lost(0) >= 0
          /\ account.shares[s] + Gain(0) + Gain(0) <= MostWanted(s) + GoneOf(orders, "BUY", s)
      BY <1>e, <2>3 DEF OffByGone
    <3>2. Lost(0) = 0 /\ Gain(0) = 0
      BY DEF Lost, Gain
    <3>3. CASE plan'[s] = 0
      BY <3>1, <3>3
    <3>4. CASE plan'[s] # 0
      <4>1. PICK n \in 0..MostWanted(s) : plan'[s] = n - account.shares[s]
        BY <2>4, <3>4
      <4>2. n \in Nat /\ n <= MostWanted(s)
        BY <1>m
      <4>3. QED
        <5>1. /\ account.shares[s] \in Int /\ MostWanted(s) \in Nat
              /\ GoneOf(orders, "SELL", s) \in Nat /\ GoneOf(orders, "BUY", s) \in Nat
              /\ n - account.shares[s] \in Int
          BY <1>g, <1>m, <1>t, <4>2
        <5>2. /\ account.shares[s] + GoneOf(orders, "SELL", s) >= 0
              /\ account.shares[s] <= MostWanted(s) + GoneOf(orders, "BUY", s)
          BY <3>1, <3>2, <5>1
        <5>3. /\ account.shares[s] + GoneOf(orders, "SELL", s) + Lost(plan'[s]) >= 0
              /\ account.shares[s] + Gain(plan'[s]) <= MostWanted(s) + GoneOf(orders, "BUY", s)
          BY <4>1, <4>2, <5>1, <5>2, PlanLeadsTo
        <5>4. Lost(plan'[s]) \in Int /\ Gain(plan'[s]) \in Int
          BY <4>1, <5>1 DEF Lost, Gain
        <5>5. QED
          BY <3>2, <5>1, <5>3, <5>4
    <3>5. QED
      BY <3>3, <3>4
  <2>6. OffByGone'
    BY <2>1, <2>3, <2>5 DEF OffByGone, MostWanted
  <2>7. QED
    BY <2>2, <2>6 DEF ErrorInv
<1>2. CASE HandOver
  <2>1. PICK d \in Symbols :
          /\ account' = account
          /\ Len(orders') = Len(orders) + 1 /\ Awaited' = Len(orders) + 1
          /\ \A j \in DOMAIN orders : orders'[j] = orders[j]
          /\ orders'[Awaited'].left = 0
          /\ \A s \in Symbols : /\ plan'[s] = IF s = d THEN 0 ELSE plan[s]
                                /\ InFlight(s)' = IF s = d THEN plan[s] ELSE 0
    BY <1>2, HandedOver
  <2>2. pc = "qualifying" /\ pc' = "waiting"
    BY <1>2 DEF HandOver
  <2>3. \A s \in Symbols : InFlight(s) = 0
    BY <2>2 DEF InFlight, AwaitedOf
  <2>4. \A side, s : GoneOf(orders', side, s) = GoneOf(orders, side, s)
    BY <1>t, <2>1, GoneExtends
  <2>5. LeftIsOpen'
    <3>1. \A i \in DOMAIN orders' : i \in DOMAIN orders \/ i = Awaited'
      BY <1>t, <2>1
    <3>2. ASSUME NEW i \in DOMAIN orders
          PROVE  /\ orders'[i].status = "working" => orders'[i].left > 0
                 /\ orders'[i].left > 0 => Open(orders'[i]) <= orders'[i].left
      BY <1>e, <2>1, <2>2 DEF LeftIsOpen, Working
    <3>3. ~(orders'[Awaited'].left > 0)
      BY <2>1
    <3>4. QED
      BY <2>2, <3>1, <3>2, <3>3 DEF LeftIsOpen, Working
  <2>6. OffByGone'
    <3>1. ASSUME NEW s \in Symbols
          PROVE  /\ account'.shares[s] + GoneOf(orders', "SELL", s)
                      + Lost(plan'[s]) + Lost(InFlight(s)') >= 0
                 /\ account'.shares[s] + Gain(plan'[s]) + Gain(InFlight(s)')
                      <= MostWanted(s) + GoneOf(orders', "BUY", s)
      <4>1. /\ account.shares[s] + GoneOf(orders, "SELL", s) + Lost(plan[s]) + Lost(0) >= 0
            /\ account.shares[s] + Gain(plan[s]) + Gain(0)
                 <= MostWanted(s) + GoneOf(orders, "BUY", s)
        BY <1>e, <2>3 DEF OffByGone
      <4>2. Lost(0) = 0 /\ Gain(0) = 0 /\ Lost(plan[s]) \in Int /\ Gain(plan[s]) \in Int
        BY <1>t DEF Lost, Gain
      <4>3. CASE s = d
        <5>1. plan'[s] = 0 /\ InFlight(s)' = plan[s]
          BY <2>1, <4>3
        <5>2. /\ account.shares[s] \in Int /\ GoneOf(orders, "SELL", s) \in Int
              /\ MostWanted(s) + GoneOf(orders, "BUY", s) \in Int
          BY <1>g, <1>m, <1>t
        <5>3. QED
          BY <2>1, <2>4, <4>1, <4>2, <5>1, <5>2
      <4>4. CASE s # d
        <5>1. plan'[s] = plan[s] /\ InFlight(s)' = 0
          BY <2>1, <4>4
        <5>2. QED
          BY <2>1, <2>4, <4>1, <5>1
      <4>5. QED
        BY <4>3, <4>4
    <3>2. QED
      BY <3>1 DEF OffByGone, MostWanted
  <2>7. QED
    BY <2>5, <2>6 DEF ErrorInv
<1>w. ASSUME StopWaiting, pc = "waiting", pc' # "waiting",
             \A s \in Symbols : plan'[s] = plan[s] \/ plan'[s] = 0
      PROVE  ErrorInv'
  <2>1. orders # <<>> /\ orders[Awaited].left = 0
    BY <1>w DEF OrdersInv
  <2>2. /\ account' = account /\ Len(orders') = Len(orders) /\ Awaited \in DOMAIN orders
        /\ \A j \in DOMAIN orders : j # Awaited => orders'[j] = orders[j]
        /\ orders'[Awaited] =
             [orders[Awaited] EXCEPT
                !.left = IF Working(Awaited) THEN Remaining(orders[Awaited]) ELSE 0]
    BY <1>w, <2>1, StopWaitingEffect
  <2> DEFINE o == orders[Awaited]
             new == orders'[Awaited]
  <2>3. /\ new.status = o.status /\ new.shares = o.shares /\ new.filled = o.filled
        /\ new.left = Open(o)
    BY <1>t, <2>2 DEF VenueOrder, Open, Working
  <2>4. Open(new) = Open(o) /\ Open(o) \in Int
    BY <1>t, <2>2, <2>3, GoneIsInt DEF Open, Remaining
  <2>5. o.status = "working" => Open(o) > 0
    <3>1. o \in VenueOrder /\ (o.status = "working" => o.filled < o.shares)
      BY <1>t, <2>2 DEF OrdersInv, Working
    <3>2. QED
      BY <3>1 DEF Open, Remaining, VenueOrder
  <2> HIDE DEF o, new
  <2>6. ASSUME NEW side, NEW s
        PROVE  GoneOf(orders', side, s) = GoneOf(orders, side, s)
    <3>1. Gone(new, side, s) = 0 /\ Gone(o, side, s) = 0
      BY <2>1, <2>3, <2>4 DEF Gone, o
    <3>2. \A i \in DOMAIN orders : Gone(orders'[i], side, s) = Gone(orders[i], side, s)
      BY <2>2, <3>1 DEF o, new
    <3>3. QED
      BY <1>t, <2>2, <3>2, GoneKept
  <2>7. LeftIsOpen'
    <3>1. ASSUME NEW i \in DOMAIN orders
          PROVE  /\ orders'[i].status = "working" => orders'[i].left > 0
                 /\ orders'[i].left > 0 => Open(orders'[i]) <= orders'[i].left
      <4>1. CASE i = Awaited
        BY <2>3, <2>4, <2>5, <4>1 DEF o, new
      <4>2. CASE i # Awaited
        BY <1>e, <2>2, <4>2 DEF LeftIsOpen, Working
      <4>3. QED
        BY <4>1, <4>2
    <3>2. DOMAIN orders' = DOMAIN orders
      BY <1>t, <2>2
    <3>3. QED
      BY <3>1, <3>2 DEF LeftIsOpen, Working
  <2>8. \A s \in Symbols : InFlight(s)' = 0
    BY <1>w DEF InFlight, AwaitedOf
  <2>9. OffByGone'
    BY <1>k, <1>w, <2>2, <2>6, <2>8
  <2>10. QED
    BY <2>7, <2>9 DEF ErrorInv
<1>3. CASE PlaceReturns
  BY <1>3, <1>w DEF PlaceReturns
<1>s. ASSUME UNCHANGED venueVars, pc # "waiting", pc' # "waiting",
             \A s \in Symbols : plan'[s] = plan[s] \/ plan'[s] = 0
      PROVE  ErrorInv'
  <2>1. orders' = orders /\ account' = account
    BY <1>s DEF venueVars
  <2>2. LeftIsOpen'
    BY <1>e, <1>s, <2>1 DEF LeftIsOpen, Working, Awaited
  <2>3. \A s \in Symbols : InFlight(s)' = 0
    BY <1>s DEF InFlight, AwaitedOf
  <2>4. OffByGone'
    BY <1>k, <1>s, <2>1, <2>3
  <2>5. QED
    BY <2>2, <2>4 DEF ErrorInv
<1>4. CASE Write
  BY <1>4, <1>s DEF Write
<1>5. CASE Stop
  <2>1. \A s \in Symbols : plan'[s] = 0
    BY <1>5 DEF Stop, NoPlan
  <2>2. QED
    BY <1>5, <1>s, <1>w, <2>1 DEF Stop
<1>6. CASE VenueMoves
  <2>1. PICK i \in DOMAIN orders, shares \in Nat :
          /\ Working(i) /\ shares <= Remaining(orders[i])
          /\ Len(orders') = Len(orders)
          /\ \A j \in DOMAIN orders : j # i => orders'[j] = orders[j]
          /\ orders'[i].symbol = orders[i].symbol /\ orders'[i].side = orders[i].side
          /\ orders'[i].shares = orders[i].shares /\ orders'[i].left = orders[i].left
          /\ orders'[i].filled = orders[i].filled + shares
          /\ \A s \in Symbols : account'.shares[s] = account.shares[s]
               + IF s = orders[i].symbol THEN Signed(orders[i], shares) ELSE 0
    BY <1>6, VenueStep
  <2> DEFINE o == orders[i]
             new == orders'[i]
  <2>s. PICK on \in Symbols : on = o.symbol
    BY <1>t DEF VenueOrder
  <2>2. UNCHANGED <<pc, plan>> /\ Awaited' = Awaited /\ DOMAIN orders' = DOMAIN orders
    BY <1>6, <1>t, <2>1 DEF VenueMoves, Awaited
  <2>3. /\ o \in VenueOrder /\ new \in VenueOrder /\ Remaining(o) \in Nat /\ Open(o) = Remaining(o)
        /\ Open(new) \in {Remaining(o) - shares, 0}
        /\ o.left \in Nat /\ new.left = o.left
    <3>1. o \in VenueOrder /\ o.filled <= o.shares /\ o.status = "working"
      BY <1>t, <2>1 DEF OrdersInv, Working
    <3>2. Remaining(o) \in Nat /\ Open(o) = Remaining(o) /\ o.left \in Nat
      BY <3>1 DEF Open, Remaining, VenueOrder
    <3>3. Remaining(new) = Remaining(o) - shares
      <4>1. new.shares = o.shares /\ new.filled = o.filled + shares
        BY <2>1
      <4>2. o.shares \in Int /\ o.filled \in Int
        BY <3>1 DEF VenueOrder
      <4>3. QED
        BY <4>1, <4>2 DEF Remaining
    <3>4. new \in VenueOrder /\ new.left = o.left
      BY <1>t, <2>1, <2>2
    <3>5. QED
      BY <3>1, <3>2, <3>3, <3>4 DEF Open
  <2>4. o.left > 0 \/ (pc = "waiting" /\ i = Awaited /\ o.left = 0)
    BY <1>e, <2>1 DEF LeftIsOpen, OrdersInv
  <2>5. o.left > 0 => Open(o) <= o.left
    BY <1>e DEF LeftIsOpen
  <2>6. /\ new.symbol = on /\ new.side = o.side /\ o.side \in {"BUY", "SELL"} /\ o.symbol = on
        /\ shares \in Nat /\ shares <= Remaining(o)
    BY <2>1, <2>3, <2>s DEF VenueOrder
  <2>7. \A side, s : GoneOf(orders', side, s) =
                       GoneOf(orders, side, s) + Gone(new, side, s) - Gone(o, side, s)
    BY <1>t, <2>1, GoneMoves
  <2>8. LeftIsOpen'
    <3>1. orders'[i].status = "working" => o.left > 0 \/ (pc = "waiting" /\ i = Awaited)
      BY <2>4
    <3>2. new.left > 0 => Open(new) <= new.left
      BY <2>3, <2>5, <2>6
    <3>3. QED
      BY <1>e, <2>1, <2>2, <2>3, <3>1, <3>2 DEF LeftIsOpen, Working
  <2>9. \A s \in Symbols : AwaitedOf(s)' <=> AwaitedOf(s)
    <3>1. pc = "waiting" => Awaited \in DOMAIN orders
      BY <1>t DEF OrdersInv, Awaited
    <3>2. QED
      BY <2>1, <2>2, <3>1 DEF AwaitedOf
  <2>10. ASSUME i # Awaited, NEW s PROVE InFlight(s)' = InFlight(s)
    <3>1. pc = "waiting" => Awaited \in DOMAIN orders /\ orders'[Awaited] = orders[Awaited]
      BY <1>t, <2>1, <2>10 DEF OrdersInv, Awaited
    <3>2. QED
      BY <2>2, <3>1 DEF InFlight, AwaitedOf, Working
  <2> HIDE DEF o, new
  <2>11. \A side, s : side # o.side \/ s # on \/ ~(o.left > 0) =>
                        GoneOf(orders', side, s) = GoneOf(orders, side, s)
    <3>1. ASSUME NEW side, NEW s, side # o.side \/ s # on \/ ~(o.left > 0)
          PROVE  Gone(new, side, s) = 0 /\ Gone(o, side, s) = 0
      BY <2>3, <2>6, <3>1 DEF Gone
    <3>2. QED
      BY <1>g, <2>7, <3>1
  <2>12. o.left > 0 => GoneOf(orders', o.side, on) >= GoneOf(orders, o.side, on) + shares
    <3>1. ASSUME o.left > 0 PROVE Gone(new, o.side, on) >= Gone(o, o.side, on) + shares
      BY <2>3, <2>6, <3>1 DEF Gone
    <3>2. Gone(new, o.side, on) \in Int /\ Gone(o, o.side, on) \in Int
      BY <2>3, GoneIsInt
    <3>3. QED
      BY <1>g, <2>6, <2>7, <3>1, <3>2
  <2>13. Signed(o, shares) = IF o.side = "BUY" THEN shares ELSE -shares
    BY DEF Signed
  <2>14. \A s \in Symbols :
           account'.shares[s] = account.shares[s] + IF s = on THEN Signed(o, shares) ELSE 0
    BY <2>1, <2>s DEF o
  <2>15. ASSUME NEW s \in Symbols, s # on
         PROVE  /\ account'.shares[s] = account.shares[s] /\ InFlight(s)' = InFlight(s)
                /\ \A side : GoneOf(orders', side, s) = GoneOf(orders, side, s)
    <3>1. InFlight(s)' = InFlight(s)
      <4>1. CASE i = Awaited
        BY <2>6, <2>9, <2>15, <4>1 DEF InFlight, AwaitedOf, o
      <4>2. CASE i # Awaited
        BY <2>10, <4>2
      <4>3. QED
        BY <4>1, <4>2
    <3>2. QED
      BY <1>t, <2>11, <2>14, <2>15, <3>1
  <2> DEFINE x == account.shares[on]
             g == GoneOf(orders, "SELL", on)
             h == MostWanted(on) + GoneOf(orders, "BUY", on)
             f == InFlight(on)
             y == account'.shares[on]
             gg == GoneOf(orders', "SELL", on)
             hh == MostWanted(on) + GoneOf(orders', "BUY", on)
             ff == InFlight(on)'
             p == plan[on]
  <2>16. /\ x \in Int /\ g \in Int /\ h \in Int /\ f \in Int /\ p \in Int
         /\ y \in Int /\ gg \in Int /\ hh \in Int /\ Remaining(o) \in Nat
    BY <1>f, <1>g, <1>m, <1>t, <2>3, <2>6
  <2>17. x + g + Lost(p) + Lost(f) >= 0 /\ x + Gain(p) + Gain(f) <= h
    BY <1>e, <2>6 DEF OffByGone
  <2>18. y = IF o.side = "BUY" THEN x + shares ELSE x - shares
    BY <2>6, <2>13, <2>14, <2>16
  <2>19. y + gg + Lost(p) + Lost(ff) >= 0 /\ y + Gain(p) + Gain(ff) <= hh
    <3>1. CASE o.left > 0
      <4>1. ff = f
        <5>1. CASE i = Awaited
          <6>1. pc # "waiting"
            BY <3>1, <5>1 DEF OrdersInv, o
          <6>2. QED
            BY <2>2, <6>1 DEF InFlight, AwaitedOf
        <5>2. QED
          BY <2>10, <5>1
      <4>2. CASE o.side = "BUY"
        <5>1. gg = g /\ hh >= h + shares /\ y = x + shares
          BY <1>g, <1>m, <2>6, <2>11, <2>12, <2>18, <3>1, <4>2
        <5> HIDE DEF x, g, h, f, y, gg, hh, ff, p
        <5>2. Lost(p) \in Int /\ Lost(f) \in Int /\ Gain(p) \in Int /\ Gain(f) \in Int
          BY <2>16 DEF Lost, Gain
        <5>3. QED
          BY <2>16, <2>17, <4>1, <5>1, <5>2
      <4>3. CASE o.side = "SELL"
        <5>1. gg >= g + shares /\ hh = h /\ y = x - shares
          BY <1>g, <1>m, <2>6, <2>11, <2>12, <2>18, <3>1, <4>3
        <5> HIDE DEF x, g, h, f, y, gg, hh, ff, p
        <5>2. Lost(p) \in Int /\ Lost(f) \in Int /\ Gain(p) \in Int /\ Gain(f) \in Int
          BY <2>16 DEF Lost, Gain
        <5>3. QED
          BY <2>6, <2>16, <2>17, <4>1, <5>1, <5>2
      <4>4. QED
        BY <2>6, <4>2, <4>3
    <3>2. CASE ~(o.left > 0)
      <4>1. pc = "waiting" /\ i = Awaited
        BY <2>4, <3>2
      <4>2. gg = g /\ hh = h
        BY <2>11, <3>2
      <4>3. f = Signed(o, Remaining(o))
        BY <2>1, <2>6, <4>1 DEF InFlight, AwaitedOf, o
      <4>4. ff \in {Signed(o, Remaining(o) - shares), 0}
        <5>1. new.status = "working" => Open(new) = Remaining(new)
          BY DEF Open
        <5>2. Remaining(new) = Remaining(o) - shares
          <6>1. new.shares = o.shares /\ new.filled = o.filled + shares
            BY <2>1 DEF o, new
          <6>2. o.shares \in Int /\ o.filled \in Int
            BY <2>3 DEF VenueOrder
          <6>3. QED
            BY <6>1, <6>2 DEF Remaining
        <5>3. Signed(new, Remaining(new)) = Signed(o, Remaining(new))
          BY <2>6 DEF Signed
        <5>4. ff \in {Signed(new, Remaining(new)), 0}
          BY <2>2, <4>1 DEF InFlight, new
        <5>5. QED
          BY <5>2, <5>3, <5>4
      <4>5. CASE o.side = "BUY"
        <5>1. f = Remaining(o) /\ ff \in {Remaining(o) - shares, 0} /\ y = x + shares
          BY <2>18, <4>3, <4>4, <4>5 DEF Signed
        <5> HIDE DEF x, g, h, f, y, gg, hh, ff, p
        <5>2. Lost(p) \in Int /\ Gain(p) \in Int
          BY <2>16 DEF Lost, Gain
        <5>3. Lost(f) = 0 /\ Gain(f) = Remaining(o)
          BY <2>16, <5>1 DEF Lost, Gain
        <5>4. Lost(ff) = 0 /\ Gain(ff) \in Int /\ Gain(ff) <= Remaining(o) - shares
          BY <2>6, <2>16, <5>1 DEF Lost, Gain
        <5>5. QED
          BY <2>6, <2>16, <2>17, <4>2, <5>1, <5>2, <5>3, <5>4
      <4>6. CASE o.side = "SELL"
        <5>1. f = -Remaining(o) /\ ff \in {-(Remaining(o) - shares), 0} /\ y = x - shares
          BY <2>18, <4>3, <4>4, <4>6 DEF Signed
        <5> HIDE DEF x, g, h, f, y, gg, hh, ff, p
        <5>2. Lost(p) \in Int /\ Gain(p) \in Int
          BY <2>16 DEF Lost, Gain
        <5>3. Lost(f) = -Remaining(o) /\ Gain(f) = 0
          BY <2>16, <5>1 DEF Lost, Gain
        <5>4. Gain(ff) = 0 /\ Lost(ff) \in Int /\ Lost(ff) >= -(Remaining(o) - shares)
          BY <2>6, <2>16, <5>1 DEF Lost, Gain
        <5>5. QED
          BY <2>6, <2>16, <2>17, <4>2, <5>1, <5>2, <5>3, <5>4
      <4>7. QED
        BY <2>6, <4>5, <4>6
    <3>3. QED
      BY <3>1, <3>2
  <2>20. ASSUME NEW s \in Symbols
         PROVE  /\ account'.shares[s] + GoneOf(orders', "SELL", s)
                     + Lost(plan'[s]) + Lost(InFlight(s)') >= 0
                /\ account'.shares[s] + Gain(plan'[s]) + Gain(InFlight(s)')
                     <= MostWanted(s) + GoneOf(orders', "BUY", s)
    <3>1. CASE s = on
      BY <2>2, <2>19, <3>1
    <3>2. CASE s # on
      <4>1. /\ account.shares[s] + GoneOf(orders, "SELL", s)
                 + Lost(plan[s]) + Lost(InFlight(s)) >= 0
            /\ account.shares[s] + Gain(plan[s]) + Gain(InFlight(s))
                 <= MostWanted(s) + GoneOf(orders, "BUY", s)
        BY <1>e DEF OffByGone
      <4>2. QED
        BY <2>2, <2>15, <3>2, <4>1
    <3>3. QED
      BY <3>1, <3>2
  <2>21. OffByGone'
    BY <2>20 DEF OffByGone, MostWanted
  <2>22. QED
    BY <2>8, <2>21 DEF ErrorInv
<1>7. CASE UNCHANGED vars
  <2>1. UNCHANGED <<orders, account, plan, pc>>
    BY <1>7 DEF vars, venueVars
  <2>2. LeftIsOpen'
    BY <1>e, <2>1 DEF LeftIsOpen, Working, Awaited
  <2>3. \A s \in Symbols : InFlight(s)' = InFlight(s)
    BY <2>1 DEF InFlight, AwaitedOf, Working, Awaited
  <2>4. OffByGone'
    BY <1>k, <2>1, <2>3
  <2>5. QED
    BY <2>2, <2>4 DEF ErrorInv
<1>8. CASE PlaceOrder
  BY <1>8, <1>s DEF PlaceOrder
<1>9. QED
  BY <1>1, <1>2, <1>3, <1>4, <1>5, <1>6, <1>7, <1>8 DEF Next, Cycle

-----------------------------------------------------------------------------

IInv == TypeOK /\ OrdersInv /\ TrackedInv /\ ErrorInv

LEMMA IInvHolds == Spec => []IInv
<1>1. Init => IInv
  BY TypeInit, TrackedInit, ErrorInit DEF IInv
<1>2. IInv /\ [Next]_vars => IInv'
  BY TypeNext, TrackedNext, ErrorNext DEF IInv
<1>3. QED
  BY <1>1, <1>2, PTL DEF Spec

-----------------------------------------------------------------------------
(* The theorems: for any symbols, prices, wants, and any number of orders  *)
(* and of cycles cut short.                                                *)

\* The types: plans and sizes stay whole shares, and what the venue may do to an
\* account leaves an account (ibkr.py:110-129, 190-229).
THEOREM IBKRTypes == Spec => []TypeOK
<1>1. IInv => TypeOK
  BY DEF IInv
<1>2. QED
  BY <1>1, IInvHolds, PTL

\* Nothing happens to an account but the fills that place reports, unless an
\* order was left working (ibkr.py:193, cycle.py:180-181).
THEOREM IBKRFillsExplainAccount == Spec => []FillsExplainAccount
<1>1. ASSUME IInv, pc \in {"placing", "qualifying"}, Left = {}, NEW s \in Symbols
      PROVE  account.shares[s] = held[s] + reported[s]
  <2>1. account.shares[s] = held[s] + reported[s] + FilledSoFar(s)
    BY <1>1 DEF IInv, TrackedInv, Explained
  <2>2. FilledSoFar(s) = 0
    BY <1>1 DEF FilledSoFar, AwaitedOf
  <2>3. held[s] \in Int /\ reported[s] \in Int
    BY <1>1 DEF IInv, TypeOK
  <2>4. QED
    BY <2>1, <2>2, <2>3
<1>2. IInv => FillsExplainAccount
  BY <1>1 DEF FillsExplainAccount
<1>3. QED
  BY <1>2, IInvHolds, PTL

\* Between cycles, none of them cut short and no order left, the newest record
\* is the account (cycle.py:167-185).
THEOREM IBKRBeliefIsTruth == Spec => []BeliefIsTruth
<1>1. IInv => BeliefIsTruth
  BY DEF IInv, TrackedInv, Recorded, BeliefIsTruth
<1>2. QED
  BY <1>1, IInvHolds, PTL

\* Each order left working puts its position off by at most what it still had to
\* fill, below zero or above all that was wanted, however many cycles size
\* without seeing it (ibkr.py:110-129, 209-220).
THEOREM IBKRErrorIsWhatWasLeft == Spec => []ErrorIsWhatWasLeft
<1>1. ASSUME IInv, NEW s \in Symbols
      PROVE  account.shares[s] \in -LeftShares("SELL", s) .. MostWanted(s) + LeftShares("BUY", s)
  <2> DEFINE x == account.shares[s]
             sold == GoneOf(orders, "SELL", s)
             bought == GoneOf(orders, "BUY", s)
             l == LeftShares("SELL", s)
             r == LeftShares("BUY", s)
             p == plan[s]
             f == InFlight(s)
             m == MostWanted(s)
  <2>1. x + sold + Lost(p) + Lost(f) >= 0 /\ x + Gain(p) + Gain(f) <= m + bought
    BY <1>1 DEF IInv, ErrorInv, OffByGone
  <2>2. /\ sold \in Nat /\ l \in Nat /\ sold <= l
        /\ bought \in Nat /\ r \in Nat /\ bought <= r
    BY <1>1, GoneIsOfLeft DEF IInv, ErrorInv
  <2>3. x \in Int /\ p \in Int /\ f \in Int /\ m \in Nat
    <3>1. x \in Int /\ p \in Int
      BY <1>1 DEF IInv, TypeOK, VenueTypeOK, Account
    <3>2. f \in Int
      BY <1>1, InFlightIsInt DEF IInv
    <3>3. QED
      BY <3>1, <3>2, MostWantedBounds
  <2> HIDE DEF x, sold, bought, l, r, p, f, m
  <2>4. x \in -l .. m + r
    BY <2>1, <2>2, <2>3 DEF Lost, Gain
  <2>5. QED
    BY <2>4 DEF x, l, m, r
<1>2. IInv => ErrorIsWhatWasLeft
  BY <1>1 DEF ErrorIsWhatWasLeft
<1>3. QED
  BY <1>2, IInvHolds, PTL
-----------------------------------------------------------------------------
(* A cycle comes closer to its end.                                         *)

\* Where a cycle is with an order.
StepsOfPlace == IF pc = "qualifying" THEN 0 ELSE IF pc = "placing" THEN 1 ELSE 2

\* No more steps are left to a cycle: three for every order that it has not handed
\* over, those for the order it is at, and one for the record.
StepsLeft ==
  IF pc = "idle" THEN 0 ELSE 1 + 3 * Cardinality(Planned(plan, Symbols)) + StepsOfPlace

\* A cycle that has begun has ever less to do, whatever the venue does, and whether
\* the gateway answers or not.
CyclesComeCloser ==
  [][pc # "idle" => /\ StepsLeft' <= StepsLeft
                    /\ Cycle \/ HandOver \/ Stop => StepsLeft' < StepsLeft]_vars

\* Every step of a cycle, one that cuts it short included, leaves it fewer steps
\* than it had, and no fill, part of a fill or death of an order leaves it more:
\* at most two and three for every symbol (ibkr.py:190-229, cycle.py:157-185).
THEOREM IBKRCyclesGetDone == Spec => CyclesComeCloser
<1>1. ASSUME TypeOK, OrdersInv, [Next]_vars, pc # "idle"
      PROVE  StepsLeft' <= StepsLeft /\ (Cycle \/ HandOver \/ Stop => StepsLeft' < StepsLeft)
  <2> DEFINE k == Cardinality(Planned(plan, Symbols))
             l == Cardinality(Planned(plan, Symbols)')
  <2>1. Symbols \in SUBSET Nat /\ IsFiniteSet(Symbols) /\ plan \in [Symbols -> Int]
    BY <1>1, RunConstants DEF TypeOK
  <2>2. k \in Nat
    BY <2>1, PlannedAreFew
  <2>3. l \in Nat
    <3>1. \A sizes : Cardinality(Planned(sizes, Symbols)) \in Nat
      BY <2>1, PlannedAreFew
    <3>2. Planned(plan, Symbols)' = Planned(plan', Symbols)
      BY DEF Planned
    <3>3. QED
      BY <3>1, <3>2
  <2>4. pc \in {"placing", "qualifying", "waiting"}
    BY <1>1 DEF TypeOK
  <2>5. /\ StepsLeft = 1 + 3 * k + StepsOfPlace
        /\ StepsLeft' = IF pc' = "idle" THEN 0 ELSE 1 + 3 * l + StepsOfPlace'
        /\ StepsOfPlace \in 0..2
    BY <2>4 DEF StepsLeft, StepsOfPlace
  <2>6. CASE HandOver
    <3>1. /\ pc = "qualifying" /\ pc' = "waiting" /\ plan # NoPlan
          /\ plan' = [plan EXCEPT ![Due(plan)] = 0]
      BY <1>1, <2>6 DEF HandOver, OrdersInv
    <3>2. PICK t \in Symbols : plan[t] # 0
      BY <2>1, <3>1 DEF NoPlan
    <3>3. Cardinality(Planned([plan EXCEPT ![Due(plan)] = 0], Symbols)) = k - 1
      BY <2>1, <3>2, StruckIsOneLess
    <3>4. l = k - 1
      BY <3>1, <3>3 DEF Planned
    <3> HIDE DEF k, l
    <3>5. QED
      BY <2>2, <2>3, <2>5, <3>1, <3>4 DEF StepsOfPlace
  <2>7. CASE PlaceReturns
    <3>1. pc = "waiting" /\ pc' = "placing" /\ plan' = plan
      BY <2>7 DEF PlaceReturns
    <3>2. l = k
      BY <3>1 DEF Planned
    <3> HIDE DEF k, l
    <3>3. QED
      BY <2>2, <2>5, <3>1, <3>2 DEF StepsOfPlace
  <2>8. CASE Write \/ Stop
    <3>1. pc' = "idle"
      BY <2>8 DEF Write, Stop
    <3> HIDE DEF k, l
    <3>2. QED
      BY <2>2, <2>4, <2>5, <3>1
  <2>9. CASE VenueMoves \/ UNCHANGED vars
    <3>1. pc' = pc /\ plan' = plan /\ ~(Cycle \/ HandOver \/ Stop)
      <4>1. pc' = pc /\ plan' = plan
        BY <2>9 DEF VenueMoves, vars
      <4>2. Cycle \/ HandOver \/ Stop => pc' # pc
        BY DEF Cycle, PlaceOrder, HandOver, PlaceReturns, Write, Stop
      <4>3. QED
        BY <4>1, <4>2
    <3>2. l = k
      BY <3>1 DEF Planned
    <3> HIDE DEF k, l
    <3>3. QED
      BY <2>2, <2>4, <2>5, <3>1, <3>2 DEF StepsOfPlace
  <2>10. CASE PlaceOrder
    <3>1. pc = "placing" /\ pc' = "qualifying" /\ plan' = plan
      BY <2>10 DEF PlaceOrder
    <3>2. l = k
      BY <3>1 DEF Planned
    <3> HIDE DEF k, l
    <3>3. QED
      BY <2>2, <2>5, <3>1, <3>2 DEF StepsOfPlace
  <2>11. QED
    BY <1>1, <2>6, <2>7, <2>8, <2>9, <2>10 DEF Next, Cycle, Begin
<1>2. IInv /\ [Next]_vars =>
        [pc # "idle" => /\ StepsLeft' <= StepsLeft
                        /\ Cycle \/ HandOver \/ Stop => StepsLeft' < StepsLeft]_vars
  BY <1>1 DEF IInv
<1>3. QED
  BY <1>2, IInvHolds, PTL DEF Spec, CyclesComeCloser
=============================================================================
