----------------------------- MODULE Reconcile -----------------------------
(***************************************************************************)
(* ghambla.reconcile: what the last journal entry believes against what    *)
(* the broker reports.  Holdings are functions from symbols to shares,     *)
(* zero where the code's dictionary has no entry.                          *)
(***************************************************************************)
EXTENDS Integers

CONSTANTS ShareTolerance, CashTolerance

ASSUME TolerancesAreNat == ShareTolerance \in Nat /\ CashTolerance \in Nat

Apart(a, b, tolerance) == a - b > tolerance \/ b - a > tolerance

\* A position of no more than the tolerance is no position.
Material(shares) == IF Apart(shares, 0, ShareTolerance) THEN shares ELSE 0

SharesBreak(expected, actual, s) ==
  Apart(Material(expected[s]), Material(actual[s]), ShareTolerance)

CashBreak(expected, actual) == Apart(expected, actual, CashTolerance)

\* reconcile(...).ok
Reconciled(expectedShares, expectedCash, account) ==
  /\ \A s \in DOMAIN expectedShares : ~SharesBreak(expectedShares, account.shares, s)
  /\ ~CashBreak(expectedCash, account.cash)
=============================================================================
