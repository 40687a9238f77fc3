---------------------------- MODULE MarkToMarket ----------------------------
(***************************************************************************)
(* ghambla.marktomarket: a process that reads the account file once and    *)
(* then, for hours, marks what it read at quoted prices, while the runs    *)
(* that own the file go on trading.  The market state is left out: it is   *)
(* only counted.                                                           *)
(***************************************************************************)
EXTENDS BrokerSession, FiniteSets, FiniteSetsExt

CONSTANTS Marks,        \* prices a live quote may have
          MaxSamples    \* bound: samples of a session

ASSUME TrackerConstants ==
  Marks \subseteq Nat /\ MaxSamples \in Nat /\ IsFiniteSet(Symbols)

VARIABLES book,         \* what load_account returned: cash and the shares held
          first,        \* first_value, with the prices it came from (history)
          sample        \* the last record written, the prices it came from (history)

trackerVars == <<book, first, sample>>

Idle == [idle |-> TRUE]
Unsampled == [unsampled |-> TRUE]

Tracking == book # Idle

Positions(account) == {s \in Symbols : account.shares[s] > 0}

\* load_account: a file that is missing or does not parse is an empty account.
LoadAccount ==
  IF Saved THEN [cash |-> disk.cash, shares |-> [s \in Positions(disk) |-> disk.shares[s]]]
  ELSE [cash |-> 0, shares |-> [s \in {} |-> 0]]

Holdings(b) == DOMAIN b.shares

\* What the fetch of every symbol may leave: prices of some of them.
PriceMaps(b) == UNION {[answered -> Marks] : answered \in SUBSET Holdings(b)}

\* mark_book: a holding without a price is left out of the total and reported.
MarkBook(b, prices) ==
  [total |-> b.cash + MapThenSumSet(LAMBDA s : b.shares[s] * prices[s], DOMAIN prices),
   missing |-> Holdings(b) \ DOMAIN prices]

-----------------------------------------------------------------------------

TrackInit == SessionInit /\ book = Idle /\ first = Unsampled /\ sample = Unsampled

StartTracking == /\ ~Tracking
                 /\ book' = LoadAccount
                 /\ UNCHANGED <<sessionVars, first, sample>>

Samples == IF sample = Unsampled THEN 0 ELSE sample.count

PnlRecord(marked, prices, from) ==
  [count |-> Samples + 1, prices |-> prices,
   missing |-> marked.missing, value |-> marked.total, pnl |-> marked.total - from]

\* A bug: every sample reads the account again.
SampleRereading(prices) ==
  LET again == LoadAccount
      quoted == [s \in DOMAIN prices \cap Holdings(again) |-> prices[s]]
      marked == MarkBook(again, quoted)
  IN  /\ Tracking /\ Samples < MaxSamples
      /\ book' = again
      /\ first' = IF first = Unsampled THEN [value |-> marked.total, prices |-> quoted] ELSE first
      /\ sample' = PnlRecord(marked, quoted, first'.value)
      /\ UNCHANGED sessionVars

Sample(prices) ==
  LET marked == MarkBook(book, prices)
  IN  /\ Tracking /\ Samples < MaxSamples
      /\ first' = IF first = Unsampled THEN [value |-> marked.total, prices |-> prices] ELSE first
      /\ sample' = PnlRecord(marked, prices, first'.value)
      /\ UNCHANGED <<sessionVars, book>>

TakeSample == Tracking /\ \E prices \in PriceMaps(book) : Sample(prices)

\* The session ends, or its process is killed; the log stays.
StopTracking == /\ Tracking
                /\ book' = Idle /\ first' = Unsampled /\ sample' = Unsampled
                /\ UNCHANGED sessionVars

TrackNext == \/ SessionNext /\ UNCHANGED trackerVars
             \/ StartTracking \/ TakeSample \/ StopTracking

TrackSpec == TrackInit /\ [][TrackNext]_<<sessionVars, trackerVars>>

-----------------------------------------------------------------------------

\* When the first sample had every price, what a session reports is the move of
\* the prices and nothing else, whatever is traded meanwhile: the moves of the
\* holdings that have a price, less what those reported missing were first
\* worth (marktomarket.py:48-51: silently dropping one reads as a loss that
\* never happened; 183-205).
PnlIsPrices ==
  Samples > 0 /\ DOMAIN first.prices = Holdings(book) =>
    sample.pnl =
      MapThenSumSet(LAMBDA s : book.shares[s] * (sample.prices[s] - first.prices[s]),
                    Holdings(book) \ sample.missing)
      - MapThenSumSet(LAMBDA s : book.shares[s] * first.prices[s], sample.missing)
=============================================================================
