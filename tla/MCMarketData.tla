---------------------------- MODULE MCMarketData ---------------------------
(***************************************************************************)
(* Three symbols over four days and two months: one split on the third     *)
(* day, one that left the index and stopped trading, and the benchmark.    *)
(***************************************************************************)
EXTENDS MarketData, TLC

ThePrices == <<(1 :> 8 @@ 2 :> 8 @@ 3 :> 4 @@ 4 :> 6), (1 :> 3 @@ 2 :> 5), (1 :> 7 @@ 4 :> 9)>>
TheSplits == <<(3 :> 2), <<>>, <<>>>>
TheFilings ==
  {[symbol |-> 1, period |-> 1, accn |-> 1, value |-> 10, filed |-> 2],
   [symbol |-> 1, period |-> 1, accn |-> 2, value |-> 20, filed |-> 3]}

Span(t, a, b) == [ticker |-> t, from |-> a, to |-> b]
AtFirst == {Span(1, 1, 4), Span(2, 1, 1)}
Corrected == {Span(1, 1, 2), Span(2, 1, 1), Span(2, 3, 4)}
TheMembers == <<AtFirst, AtFirst, AtFirst, Corrected>>
=============================================================================
