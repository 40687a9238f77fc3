------------------------------ MODULE RiskGate ------------------------------
(***************************************************************************)
(* The veto layer, ghambla.risk.RiskGate.evaluate, as operators over the   *)
(* wanted weights and the risk state.  Weights are whole percentages, in a *)
(* function whose domain is the symbols wanted; symbols are numbers, so    *)
(* that their order is the alphabetical one of the code.                   *)
(***************************************************************************)
EXTENDS Integers, FiniteSets, FiniteSetsExt

CONSTANTS MaxPositionWeight,  \* percent of equity in one name
          MaxGrossExposure,   \* percent of equity in all of them
          MaxDailyLoss,       \* halt at this loss since the last cycle, percent
          MaxDrawdown,        \* halt at this fall from the peak, percent
          MaxStaleness,       \* days the market data may be old
          MinPositions, MaxPositions

ASSUME RiskLimitsAreNat ==
  /\ MaxPositionWeight \in Nat /\ MaxGrossExposure \in Nat
  /\ MaxDailyLoss \in Nat /\ MaxDrawdown \in Nat /\ MaxStaleness \in Nat
  /\ MinPositions \in Nat /\ MaxPositions \in Nat

\* state: [halted, reconciled, today, dataAsOf, equity, previous, peak, riskOn],
\* riskOn one of "on", "off", "unknown" (True, False, None).

-----------------------------------------------------------------------------
(* Conditions that stop all trading.                                       *)

\* A bug: the size of the move is compared, whatever its sign.
MovedBy(equity, reference, limit) ==
  /\ reference > 0
  /\ \/ 100 * (equity - reference) <= -limit * reference
     \/ 100 * (equity - reference) >= limit * reference

\* equity / reference - 1 <= -limit percent
FellBy(equity, reference, limit) ==
  reference > 0 /\ 100 * (equity - reference) <= -limit * reference

\* A bug: a break is reported and traded through.
BlocksUnreconciled(state) ==
  \/ state.halted
  \/ state.today - state.dataAsOf > MaxStaleness
  \/ state.equity <= 0
  \/ FellBy(state.equity, state.previous, MaxDailyLoss)
  \/ FellBy(state.equity, state.peak, MaxDrawdown)

Blocks(state) ==
  \/ state.halted
  \/ ~state.reconciled
  \/ state.today - state.dataAsOf > MaxStaleness
  \/ state.equity <= 0
  \/ FellBy(state.equity, state.previous, MaxDailyLoss)
  \/ FellBy(state.equity, state.peak, MaxDrawdown)

-----------------------------------------------------------------------------
(* Adjustments that only ever reduce.                                      *)

Only(weights, names) == [s \in names |-> weights[s]]

Gross(weights) == MapThenSumSet(LAMBDA s : weights[s], DOMAIN weights)

\* Sorted by (-weight, symbol), t comes before s.
Outranks(weights, t, s) ==
  weights[t] > weights[s] \/ (weights[t] = weights[s] /\ t < s)

Trim(weights) ==
  Only(weights, {s \in DOMAIN weights :
    Cardinality({t \in DOMAIN weights : Outranks(weights, t, s)}) < MaxPositions})

Cap(weights) ==
  [s \in DOMAIN weights |->
     IF weights[s] > MaxPositionWeight THEN MaxPositionWeight ELSE weights[s]]

\* weight * max_gross / gross, rounded down.
ScaleDown(weights) ==
  IF Gross(weights) <= MaxGrossExposure THEN weights
  ELSE [s \in DOMAIN weights |-> (weights[s] * MaxGrossExposure) \div Gross(weights)]

-----------------------------------------------------------------------------

NoTargets == [s \in {} |-> 0]

Block == [targets |-> NoTargets, blocked |-> TRUE]

Positive(wanted) == Only(wanted, {s \in DOMAIN wanted : wanted[s] > 0})

\* A bug: the names are never capped, only the gross is.
EvaluateUncapped(wanted, state) ==
  LET safe == Trim(Positive(wanted))
  IN  IF Blocks(state) THEN Block
      ELSE IF state.riskOn = "off" THEN [targets |-> NoTargets, blocked |-> FALSE]
      ELSE [targets |-> ScaleDown(safe), blocked |-> FALSE]

\* A bug: counts the names asked for, not those left.
EvaluateCountingAsked(wanted, state) ==
  LET safe == Trim(Positive(wanted))
  IN  IF Blocks(state) THEN Block
      ELSE IF state.riskOn = "off" THEN [targets |-> NoTargets, blocked |-> FALSE]
      ELSE IF safe # NoTargets /\ Cardinality(DOMAIN wanted) < MinPositions THEN Block
      ELSE [targets |-> ScaleDown(Cap(safe)), blocked |-> FALSE]

Evaluate(wanted, state) ==
  LET safe == Trim(Positive(wanted))
  IN  IF Blocks(state) THEN Block
      ELSE IF state.riskOn = "off" THEN [targets |-> NoTargets, blocked |-> FALSE]
      ELSE IF safe # NoTargets /\ Cardinality(DOMAIN safe) < MinPositions THEN Block
      ELSE [targets |-> ScaleDown(Cap(safe)), blocked |-> FALSE]
=============================================================================
