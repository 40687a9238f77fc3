----------------------------- MODULE OrderPlan -----------------------------
(***************************************************************************)
(* DailyCycle._orders_for: from the holdings wanted to the orders that     *)
(* lead there, and the order in which they are sent.  A plan is a function *)
(* from symbols to signed sizes, zero where there is no order.             *)
(***************************************************************************)
EXTENDS Integers, FiniteSetsExt

CONSTANT MinTradeValue

ASSUME MinTradeValueIsPositive == MinTradeValue \in Nat \ {0}

Size(delta) == IF delta < 0 THEN -delta ELSE delta

\* A bug: what is held already is ordered again.
OrdersForFromFlat(held, want, list) ==
  [s \in DOMAIN held |-> IF want[s] * list[s] < MinTradeValue THEN 0 ELSE want[s]]

\* No price, no order; nor for a difference not worth trading.
OrdersFor(held, want, list) ==
  [s \in DOMAIN held |->
     LET delta == want[s] - held[s]
     IN  IF Size(delta) * list[s] < MinTradeValue THEN 0 ELSE delta]

\* A bug: orders are placed in symbol order alone.
DueFirstSymbol(orders) == Min({s \in DOMAIN orders : orders[s] # 0})

\* Sells first, so that their proceeds fund the buys; by symbol within a side.
Due(orders) ==
  LET sells == {s \in DOMAIN orders : orders[s] < 0}
      buys  == {s \in DOMAIN orders : orders[s] > 0}
  IN  IF sells # {} THEN Min(sells) ELSE Min(buys)

\* A bug: the size keeps its sign.
OrderForSigned(s, delta) == [symbol |-> s, side |-> IF delta < 0 THEN "SELL" ELSE "BUY",
                             shares |-> delta]

OrderFor(s, delta) == [symbol |-> s, side |-> IF delta < 0 THEN "SELL" ELSE "BUY",
                       shares |-> Size(delta)]
=============================================================================
