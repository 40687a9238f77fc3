-------------------------------- MODULE Costs ------------------------------
(***************************************************************************)
(* What a trade costs: ghambla.costs, and the spread the broker and the    *)
(* backtest add to a price.  Prices and cash are in one small unit.        *)
(***************************************************************************)
EXTENDS Integers

CONSTANTS HalfSpread,     \* paid on every fill, in price ticks
          PerShare, MinPerOrder,  \* commission: per share, and its minimum,
          ValueDivisor            \* capped at this part of the trade's value

ASSUME CostConstants ==
  /\ HalfSpread \in Nat /\ PerShare \in Nat /\ MinPerOrder \in Nat
  /\ ValueDivisor \in Nat \ {0}

Larger(a, b) == IF a > b THEN a ELSE b
Smaller(a, b) == IF a < b THEN a ELSE b

\* ibkr_tiered_commission
Commission(shares, price) ==
  Smaller(Larger(PerShare * shares, MinPerOrder), (shares * price) \div ValueDivisor)
=============================================================================
