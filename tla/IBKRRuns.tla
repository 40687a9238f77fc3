------------------------------ MODULE IBKRRuns -----------------------------
(***************************************************************************)
(* Daily cycles against IBKRBroker, one at a time.  Orders outlive the     *)
(* cycle that placed them, and the snapshot shows positions and cash but   *)
(* no open orders.  The journal keeps whole records here; TradingRuns has  *)
(* its failures.                                                           *)
(***************************************************************************)
EXTENDS IBKRBroker, OrderPlan, Reconcile

CONSTANTS Closes,         \* stored closes; 0 for a symbol without a bar
          Wants,          \* bound: the holdings targets may be sized to
          MaxOrders, MaxStops     \* bounds

ASSUME RunConstants ==
  /\ Symbols \subseteq Nat /\ IsFiniteSet(Symbols) /\ Closes \in [Symbols -> Nat]
  /\ Wants \subseteq [Symbols -> Nat]
  /\ \A want \in Wants, s \in Symbols : Closes[s] = 0 => want[s] = 0
  /\ IsFiniteSet(Wants) /\ MaxOrders \in Nat /\ MaxStops \in Nat

VARIABLES pc, plan,       \* the cycle's progress
          held,           \* its first snapshot's positions
          reported,       \* the fills place has reported to it, by symbol
          record,         \* the newest record's cash and positions
          stops           \* cycles cut short so far

vars == <<venueVars, pc, plan, held, reported, record, stops>>

NoPlan == [s \in Symbols |-> 0]
NoRecord == [none |-> TRUE]

TypeOK == /\ VenueTypeOK
          /\ pc \in {"idle", "placing", "qualifying", "waiting"}
          /\ plan \in [Symbols -> Int]
          /\ held \in [Symbols -> Int] /\ reported \in [Symbols -> Int]
          /\ record \in Account \cup {NoRecord}
          /\ stops \in Nat

Init == /\ VenueInit
        /\ pc = "idle" /\ plan = NoPlan
        /\ held = NoPlan /\ reported = NoPlan
        /\ record = NoRecord /\ stops = 0

Believed == record # NoRecord => Reconciled(record.shares, record.cash, account)

\* run, from the snapshot to the orders.  The gate may block for other reasons.
Begin ==
  /\ pc = "idle" /\ pc' = "placing"
  /\ Len(orders) < MaxOrders
  /\ \/ Believed /\ \E want \in Wants : plan' = OrdersFor(account.shares, want, Closes)
     \/ plan' = NoPlan
  /\ held' = account.shares /\ reported' = NoPlan
  /\ UNCHANGED <<venueVars, record, stops>>

\* place begins by asking the gateway what the contract is.
PlaceOrder == /\ pc = "placing" /\ pc' = "qualifying" /\ plan # NoPlan
              /\ UNCHANGED <<venueVars, plan, held, reported, record, stops>>

\* The gateway has answered, which it may never do: nothing limits that wait.
HandOver ==
  /\ pc = "qualifying" /\ pc' = "waiting"
  /\ Submit(OrderFor(Due(plan), plan[Due(plan)]))
  /\ plan' = [plan EXCEPT ![Due(plan)] = 0]
  /\ UNCHANGED <<held, reported, record, stops>>

\* A bug: place waits for the order to be done, however long.
PlaceReturnsWhenDone ==
  /\ pc = "waiting" /\ pc' = "placing" /\ ~Working(Awaited)
  /\ StopWaiting
  /\ reported' = [reported EXCEPT ![orders[Awaited].symbol] = @ + FilledByNow(orders[Awaited])]
  /\ UNCHANGED <<plan, held, record, stops>>

\* A fill, or an OrderError that the cycle notes; the next order is due.
PlaceReturns ==
  /\ pc = "waiting" /\ pc' = "placing"
  /\ StopWaiting
  /\ reported' = [reported EXCEPT ![orders[Awaited].symbol] = @ + FilledByNow(orders[Awaited])]
  /\ UNCHANGED <<plan, held, record, stops>>

\* A bug: the record repeats the first snapshot's positions.
WriteFirstSnapshot ==
  /\ pc = "placing" /\ pc' = "idle" /\ plan = NoPlan
  /\ record' = [account EXCEPT !.shares = held]
  /\ UNCHANGED <<venueVars, plan, held, reported, stops>>

\* The second snapshot, and the record.
Write ==
  /\ pc = "placing" /\ pc' = "idle" /\ plan = NoPlan
  /\ record' = account
  /\ UNCHANGED <<venueVars, plan, held, reported, stops>>

\* The process dies, or the session is lost and place or snapshot raises: the
\* order that was waited for goes on.
Stop ==
  /\ pc # "idle" /\ pc' = "idle" /\ plan' = NoPlan
  /\ stops < MaxStops /\ stops' = stops + 1
  /\ IF pc = "waiting" THEN StopWaiting ELSE UNCHANGED venueVars
  /\ UNCHANGED <<held, reported, record>>

VenueMoves == Venue /\ UNCHANGED <<pc, plan, held, reported, record, stops>>

Cycle == PlaceOrder \/ PlaceReturns \/ Write

Next == Begin \/ Cycle \/ HandOver \/ Stop \/ VenueMoves

Spec == Init /\ [][Next]_vars

\* A cycle that has begun goes on where it waits for nobody, or for a while: the
\* gateway owes no answer, and the venue no fill.
FairSpec == Spec /\ WF_vars(Cycle)

-----------------------------------------------------------------------------
(* What must hold.                                                         *)

Left == {i \in DOMAIN orders : orders[i].left > 0}

LeftOf(side, s) == {i \in Left : orders[i].side = side /\ orders[i].symbol = s}

LeftShares(side, s) == MapThenSumSet(LAMBDA i : orders[i].left, LeftOf(side, s))

MostWanted(s) == Max({want[s] : want \in Wants} \cup {0})

\* An order left working puts a position off by at most what it still had to
\* fill, over any number of cycles that size without seeing it
\* (ibkr.py:110-129, 209-220).
ErrorIsWhatWasLeft ==
  \A s \in Symbols :
    account.shares[s] \in -LeftShares("SELL", s) .. MostWanted(s) + LeftShares("BUY", s)

\* With no order left working, the fills a cycle was told of are all that
\* happened to its account (ibkr.py:193, cycle.py:180-181).
FillsExplainAccount ==
  pc \in {"placing", "qualifying"} /\ Left = {} =>
    \A s \in Symbols : account.shares[s] = held[s] + reported[s]

\* Between cycles that were not cut short and left no order, the newest record
\* is the account: the next reconciliation does not halt (cycle.py:167-185).
BeliefIsTruth ==
  pc = "idle" /\ stops = 0 /\ Left = {} /\ record # NoRecord => record = account

\* An order that the venue is silent about holds no cycle: each one ends if the
\* gateway, which is asked about a contract before an order is handed over and is
\* waited for without a limit, answers whenever it is asked (ibkr.py:203, 210-213).
CyclesEnd ==
  (pc = "qualifying" ~> pc # "qualifying") => (pc # "idle" ~> pc = "idle")
=============================================================================
