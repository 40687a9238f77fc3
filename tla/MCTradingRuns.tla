---------------------------- MODULE MCTradingRuns ---------------------------
(***************************************************************************)
(* Values for the constants of TradingRuns that a cfg cannot write.        *)
(***************************************************************************)
EXTENDS TradingRuns

\* Days' closes, by symbol.  From Even to Sag and back moves less than a round
\* trip costs; Gap has no bar of symbol 2.
Even  == <<8, 6>>
Sag   == <<7, 6>>
Calm  == <<4, 3>>
Gap   == <<4, 0>>

EvenOrSag    == {Even, Sag}
CalmOnly     == {Calm}
CalmOrGap    == {Calm, Gap}

\* A slide of a quarter and then a third.
Sliding == {<<8, 8>>, <<6, 6>>, <<4, 4>>}

\* A live quote above the close, for one name only.
NoQuotes == {}
OneQuoted == {<<6, 0>>}

UpToOne == [Symbols -> 0..1]
UpToTwo == [Symbols -> 0..2]
=============================================================================
