----------------------------- MODULE IBKRBroker ----------------------------
(***************************************************************************)
(* ghambla.ibkr.IBKRBroker and the venue behind it.  place hands a market  *)
(* order over, waits for it to finish for a while, and reports what it has *)
(* filled by then.  The venue fills an order in parts or lets it die, at   *)
(* its own pace: nothing cancels an order that place stopped waiting for.  *)
(***************************************************************************)
EXTENDS Integers, Sequences

CONSTANTS Symbols,
          InitialCash,
          FillPrices      \* what the venue fills at

ASSUME VenueConstants == InitialCash \in Nat /\ FillPrices \subseteq Nat

VARIABLES account,        \* cash and positions, as the broker has them
          orders          \* every order ever placed, oldest first

venueVars == <<account, orders>>

Account == [cash : Int, shares : [Symbols -> Int]]

\* left: what was still to be filled when place stopped waiting (history).
VenueOrder == [symbol : Symbols, side : {"BUY", "SELL"}, shares : Nat,
               filled : Nat, status : {"working", "filled", "dead"}, left : Nat]

VenueTypeOK == account \in Account /\ orders \in Seq(VenueOrder)

VenueInit == /\ account = [cash |-> InitialCash, shares |-> [s \in Symbols |-> 0]]
             /\ orders = <<>>

Working(i) == orders[i].status = "working"

Remaining(order) == order.shares - order.filled

-----------------------------------------------------------------------------
(* The venue.                                                              *)

Signed(order, shares) == IF order.side = "BUY" THEN shares ELSE -shares

\* Part of an order, or what is left of it, is filled.
Execute(i) ==
  /\ Working(i)
  /\ \E shares \in 1..Remaining(orders[i]), price \in FillPrices :
       /\ orders' = [orders EXCEPT
                       ![i].filled = @ + shares,
                       ![i].status = IF shares = Remaining(orders[i]) THEN "filled" ELSE @]
       /\ account' = [account EXCEPT !.cash = @ - Signed(orders[i], shares) * price,
                                     !.shares[orders[i].symbol] = @ + Signed(orders[i], shares)]

\* Cancelled, ApiCancelled or Inactive, whatever was filled before.
Expire(i) == /\ Working(i)
             /\ orders' = [orders EXCEPT ![i].status = "dead"]
             /\ UNCHANGED account

Venue == \E i \in DOMAIN orders : Execute(i) \/ Expire(i)

-----------------------------------------------------------------------------
(* place, in two steps: the order that is waited for is the last one.      *)

Awaited == Len(orders)

Submit(order) ==
  /\ orders' = Append(orders, [symbol |-> order.symbol, side |-> order.side,
                               shares |-> order.shares, filled |-> 0,
                               status |-> "working", left |-> 0])
  /\ UNCHANGED account

\* The wait is over because the order is done, or because its time is up.
StopWaiting ==
  /\ orders' = [orders EXCEPT ![Awaited].left =
                   IF Working(Awaited) THEN Remaining(orders[Awaited]) ELSE 0]
  /\ UNCHANGED account

\* A bug: a finished wait counts as a full fill.
FilledAsAsked(order) == Signed(order, order.shares)

\* The fill that place returns; none is an OrderError, dead or not.
FilledByNow(order) == Signed(order, order.filled)
=============================================================================
