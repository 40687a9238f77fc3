---------------------------- MODULE TradingRuns ----------------------------
(***************************************************************************)
(* Unattended trading: runs of `python -m ghambla.scheduler' (cron) and of *)
(* `ghambla cycle' against the simulated broker.  A run connects, decides  *)
(* on the latest day with data, places its orders one by one, writes one   *)
(* record to the decision log and disconnects.  Runs share the journal and *)
(* the account file and nothing else; any of them may raise or die between *)
(* two steps or inside a write, and comes back as a new run.               *)
(***************************************************************************)
EXTENDS SimulatedBroker, Reconcile, RiskGate, OrderPlan, Sequences

CONSTANTS Schedulers,     \* the runs that are the scheduler's; others are `cycle'
          CashBuffer,     \* percent of equity held back from the targets
          PriceLists,     \* possible closes of a day: per symbol, 0 for no bar
          QuoteLists,     \* possible live quotes, 0 for none
          Failures,       \* which failures happen
          Baseline,       \* TRUE: a first cycle has been journalled already
          Wants,          \* bound: the holdings targets may be sized to
          LastDay, MaxRecords, MaxFaults, MaxDrift   \* bounds

ASSUME RunConstants ==
  /\ Schedulers \subseteq Runs
  /\ Symbols \subseteq Nat /\ IsFiniteSet(Symbols)
  /\ CashBuffer \in 0..100
  /\ PriceLists # {} /\ PriceLists \cup QuoteLists \subseteq [Symbols -> Nat]
  /\ \A list \in PriceLists \cup QuoteLists, s \in Symbols :
       list[s] = 0 \/ list[s] > HalfSpread
  /\ Failures \subseteq {"ingest", "raise", "save", "append", "die"}
  /\ Baseline \in BOOLEAN
  /\ Wants \subseteq [Symbols -> Nat] /\ LastDay \in Nat \ {0} /\ MaxRecords \in Nat
  /\ MaxFaults \in Nat /\ MaxDrift \in Nat

Days == 0..LastDay

\* The fields of a DecisionRecord that a later run reads, and `broke': its
\* risk_vetoes report a reconciliation break.
CycleRecord == [asOf : Days, cash : Int, shares : [Symbols -> Int],
                equity : Int, broke : BOOLEAN]

\* A line of the log that does not decode.
Garbage == [text |-> "garbage"]

VARIABLES today,          \* the calendar
          dataDay,        \* the latest day with bars in the store, 0 for none
          price,          \* its closes
          lines, unterminated,          \* the decision log's file
          pc, asOf, closes, execution, plan, broke,  \* a run's progress and locals
          faults, drift   \* failures and outside changes so far

\* History, which the code does not keep.
VARIABLES filled,         \* how far this run's fills got: "none", "memory" or the "file"
          scored,         \* this run's signals could be evaluated
          traded          \* how many runs had a fill that got to the file, by day

J == INSTANCE JournalFile WITH Record <- CycleRecord

marketVars == <<today, dataDay, price>>
localVars == <<pc, asOf, closes, execution, plan, broke, filled, scored>>
countVars == <<faults, drift>>
logVars == <<lines, unterminated>>
vars == <<marketVars, brokerVars, logVars, localVars, countVars, traded>>

NoPlan == [s \in Symbols |-> 0]
NoCloses == [s \in Symbols |-> 0]

RunTypeOK ==
  /\ BrokerTypeOK
  /\ today \in Days /\ dataDay \in Days
  /\ price \in [Symbols -> Nat]
  /\ pc \in [Runs -> {"idle", "checking", "deciding", "placing", "closing"}]
  /\ asOf \in [Runs -> Days]
  /\ closes \in [Runs -> [Symbols -> Nat]] /\ execution \in [Runs -> [Symbols -> Nat]]
  /\ plan \in [Runs -> [Symbols -> Int]]
  /\ broke \in [Runs -> BOOLEAN]
  /\ filled \in [Runs -> {"none", "memory", "file"}] /\ scored \in [Runs -> BOOLEAN]
  /\ traded \in [Days -> Nat]
  /\ faults \in Nat /\ drift \in Nat

TypeOK == RunTypeOK /\ J!FileTypeOK

\* The record a first cycle leaves when nothing is wanted.
FirstRecord == [asOf |-> 0, cash |-> InitialCash, shares |-> NoPlan,
                equity |-> InitialCash, broke |-> FALSE]

Init ==
  /\ today = 1 /\ price \in PriceLists
  /\ dataDay = 1 \/ ("ingest" \in Failures /\ dataDay = 0)
  /\ IF Baseline THEN lines = <<FirstRecord>> /\ disk = Flat
                 ELSE lines = <<>> /\ disk = Absent
  /\ unterminated = FALSE
  /\ mem = [r \in Runs |-> Flat] /\ connected = [r \in Runs |-> FALSE]
  /\ pc = [r \in Runs |-> "idle"]
  /\ asOf = [r \in Runs |-> 0]
  /\ closes = [r \in Runs |-> NoCloses] /\ execution = [r \in Runs |-> NoCloses]
  /\ plan = [r \in Runs |-> NoPlan]
  /\ broke = [r \in Runs |-> FALSE]
  /\ filled = [r \in Runs |-> "none"] /\ scored = [r \in Runs |-> TRUE]
  /\ traded = [d \in Days |-> 0]
  /\ faults = 0 /\ drift = 0

-----------------------------------------------------------------------------
(* Valuation and sizing.                                                   *)

\* A holding without a bar is carried at its average cost.
Equity(account, list) ==
  account.cash + MapThenSumSet(
    LAMBDA s : account.shares[s] * (IF list[s] = 0 THEN account.average[s] ELSE list[s]),
    Symbols)

Investable(equity) == (equity * (100 - CashBuffer)) \div 100

\* The share counts that weights which passed the gate can size to.
Sized(want, list, investable) ==
  /\ \A s \in Symbols : /\ list[s] = 0 => want[s] = 0
                        /\ 100 * want[s] * list[s] <= MaxPositionWeight * investable
  /\ 100 * MapThenSumSet(LAMBDA s : want[s] * list[s], Symbols)
       <= MaxGrossExposure * investable

-----------------------------------------------------------------------------
(* A run, step by step.                                                    *)

Move(r, from, to) == pc[r] = from /\ pc' = [pc EXCEPT ![r] = to]

\* The process is gone, its locals with it.
Forget(r) == /\ pc' = [pc EXCEPT ![r] = "idle"]
             /\ asOf' = [asOf EXCEPT ![r] = 0]
             /\ closes' = [closes EXCEPT ![r] = NoCloses]
             /\ execution' = [execution EXCEPT ![r] = NoCloses]
             /\ plan' = [plan EXCEPT ![r] = NoPlan]
             /\ broke' = [broke EXCEPT ![r] = FALSE]
             /\ filled' = [filled EXCEPT ![r] = "none"]
             /\ scored' = [scored EXCEPT ![r] = TRUE]

\* main, cmd_cycle: a new process, up to broker.connect.
Start(r) ==
  /\ Move(r, "idle", "checking")
  /\ r \notin Schedulers => Len(lines) < MaxRecords
  /\ Connect(r)
  /\ UNCHANGED <<marketVars, logVars, asOf, closes, execution, plan, broke, filled,
                 scored, countVars, traded>>

\* A bug: only the newest record is looked at, and only for a later date.
AlreadyRanLater(day) == J!HasRecord /\ J!LastRecord.asOf > day

AlreadyRan(day) == \E record \in J!ReadRecords : record.asOf = day

\* Without trading dates in the store a cycle by hand takes the calendar's day.
StoreIsEmpty == dataDay = 0
LatestDay == IF StoreIsEmpty THEN today ELSE dataDay
LatestCloses == IF StoreIsEmpty THEN NoCloses ELSE price

\* A bug: a run waits for a day without a record.
CheckWaits(r) ==
  /\ Move(r, "checking", "deciding")
  /\ ~(r \in Schedulers /\ AlreadyRan(dataDay))
  /\ asOf' = [asOf EXCEPT ![r] = LatestDay]
  /\ closes' = [closes EXCEPT ![r] = LatestCloses]
  /\ UNCHANGED <<marketVars, brokerVars, logVars, execution, plan, broke, filled,
                 scored, countVars, traded>>

\* A bug: any record at all counts as this day's.
CheckOnce(r) ==
  /\ Move(r, "checking", IF r \in Schedulers /\ J!HasRecord THEN "closing" ELSE "deciding")
  /\ asOf' = [asOf EXCEPT ![r] = LatestDay]
  /\ closes' = [closes EXCEPT ![r] = LatestCloses]
  /\ UNCHANGED <<marketVars, brokerVars, logVars, execution, plan, broke, filled,
                 scored, countVars, traded>>

\* run_once up to DailyCycle.run; cmd_cycle does not look for a record.  The run
\* keeps to its day's bars: later reads ask for what was knowable on that day.
Check(r) ==
  /\ Move(r, "checking", IF r \in Schedulers /\ (StoreIsEmpty \/ AlreadyRan(dataDay))
                           THEN "closing" ELSE "deciding")
  /\ asOf' = [asOf EXCEPT ![r] = LatestDay]
  /\ closes' = [closes EXCEPT ![r] = LatestCloses]
  /\ UNCHANGED <<marketVars, brokerVars, logVars, execution, plan, broke, filled,
                 scored, countVars, traded>>

\* What the last readable record says of this account; with none, the broker's
\* own snapshot is adopted.
Belief(account, list) ==
  [ok |-> ~J!HasRecord \/ Reconciled(J!LastRecord.shares, J!LastRecord.cash, account),
   equity |-> IF J!HasRecord THEN J!LastRecord.equity ELSE Equity(account, list)]

\* peak_equity is not among a record's fields, so its default is read: the
\* equity of now, and the larger of the two is that same equity.
PeakEquity(account, list) == Equity(account, list)

\* `today' is the cycle's own date, not the calendar's.
RiskStateOf(account, list, day, halt) ==
  LET belief == Belief(account, list)
  IN  [halted |-> halt, reconciled |-> belief.ok, today |-> day, dataAsOf |-> day,
       equity |-> Equity(account, list), previous |-> belief.equity,
       peak |-> PeakEquity(account, list), riskOn |-> "unknown"]

\* A name without a usable quote, or all of them when the source fails, trades
\* at its stored close.
Quoted(list, quotes) == [s \in Symbols |-> IF quotes[s] = 0 THEN list[s] ELSE quotes[s]]

\* The gate lets the cycle trade: size `want' at the prices orders will fill at.
Allow(r, want) ==
  \E quotes \in (IF r \in Schedulers THEN {} ELSE QuoteLists) \cup {NoCloses} :
    LET list == Quoted(closes[r], quotes)
    IN  /\ Sized(want, list, Investable(Equity(mem[r], closes[r])))
        /\ plan' = [plan EXCEPT ![r] = OrdersFor(mem[r].shares, want, list)]
        /\ execution' = [execution EXCEPT ![r] = list]

\* run, from the snapshot to the orders.  Signals that raise give no scores,
\* and no scores give no targets; too few targets block like the rest.
Decide(r) ==
  /\ Move(r, "deciding", "placing")
  /\ \E halt \in (IF r \in Schedulers THEN {FALSE} ELSE BOOLEAN), ok \in BOOLEAN :
       /\ \/ /\ ~Blocks(RiskStateOf(mem[r], closes[r], asOf[r], halt))
             /\ \E want \in (IF ok THEN Wants ELSE {}) \cup {NoPlan} : Allow(r, want)
          \/ /\ \/ Blocks(RiskStateOf(mem[r], closes[r], asOf[r], halt))
                \/ ok /\ MinPositions > 1
             /\ UNCHANGED <<plan, execution>>
       /\ scored' = [scored EXCEPT ![r] = ok]
  /\ broke' = [broke EXCEPT ![r] = ~Belief(mem[r], closes[r]).ok]
  /\ UNCHANGED <<marketVars, brokerVars, logVars, asOf, closes, filled,
                 countVars, traded>>

NextOrder(r) == OrderFor(Due(plan[r]), plan[r][Due(plan[r])])
NextPrice(r) == execution[r][Due(plan[r])]

Strike(r) == plan' = [plan EXCEPT ![r][Due(plan[r])] = 0]

\* The first fill of a run to get to the file counts the run as one that traded
\* its day; a fill that never does happened to no account.
CountFill(r) == /\ filled' = [filled EXCEPT ![r] = "file"]
                /\ traded' = IF filled[r] = "file" THEN traded
                             ELSE [traded EXCEPT ![asOf[r]] = @ + 1]

\* A fill that is in memory only.
HoldFill(r) == /\ filled' = [filled EXCEPT ![r] = IF @ = "none" THEN "memory" ELSE @]
               /\ UNCHANGED traded

Trade(r) ==
  /\ pc[r] = "placing" /\ plan[r] # NoPlan
  /\ Place(r, NextOrder(r), NextPrice(r))
  /\ Strike(r) /\ CountFill(r)
  /\ UNCHANGED <<marketVars, logVars, pc, asOf, closes, execution, broke, scored, countVars>>

\* OrderError is noted; nothing is sent again.
TradeRejected(r) ==
  /\ pc[r] = "placing" /\ plan[r] # NoPlan
  /\ Reject(r, NextOrder(r), NextPrice(r))
  /\ Strike(r)
  /\ UNCHANGED <<marketVars, logVars, pc, asOf, closes, execution, broke, filled, scored,
                 countVars, traded>>

\* A bug: the record repeats what was believed, not what the broker now holds.
RecordBelieved(r) ==
  [asOf |-> asOf[r],
   cash |-> IF J!HasRecord THEN J!LastRecord.cash ELSE mem[r].cash,
   shares |-> IF J!HasRecord THEN J!LastRecord.shares ELSE mem[r].shares,
   equity |-> Equity(mem[r], closes[r]), broke |-> broke[r]]

RecordOf(r) ==
  [asOf |-> asOf[r], cash |-> mem[r].cash, shares |-> mem[r].shares,
   equity |-> Equity(mem[r], closes[r]), broke |-> broke[r]]

Write(r) ==
  /\ Move(r, "placing", "closing") /\ plan[r] = NoPlan
  /\ J!AppendRecord(RecordOf(r))
  /\ UNCHANGED <<marketVars, brokerVars, asOf, closes, execution, plan, broke, filled, scored,
                 countVars, traded>>

\* The last save takes the fills with it that an earlier one did not.
Finish(r) ==
  /\ pc[r] = "closing"
  /\ Disconnect(r) /\ Forget(r)
  /\ traded' = IF filled[r] = "memory" THEN [traded EXCEPT ![asOf[r]] = @ + 1] ELSE traded
  /\ UNCHANGED <<marketVars, logVars, countVars>>

-----------------------------------------------------------------------------
(* What goes wrong.  A run that raises still disconnects: `finally'.       *)

Fault(kind) == kind \in Failures /\ faults < MaxFaults /\ faults' = faults + 1

\* The store or the journal cannot be read.
Raise(r) ==
  /\ Fault("raise")
  /\ pc[r] \in {"checking", "deciding"} /\ pc' = [pc EXCEPT ![r] = "closing"]
  /\ UNCHANGED <<marketVars, brokerVars, logVars, asOf, closes, execution, plan, broke,
                 filled, scored, drift, traded>>

\* _save raises out of place, and only OrderError is caught there.
SaveRaises(r) ==
  /\ Fault("save")
  /\ Move(r, "placing", "closing") /\ plan[r] # NoPlan
  /\ PlaceSaveFails(r, NextOrder(r), NextPrice(r))
  /\ IF disk' = Torn THEN CountFill(r) ELSE HoldFill(r)
  /\ UNCHANGED <<marketVars, logVars, asOf, closes, execution, plan, broke, scored, drift>>

AppendRaises(r) ==
  /\ Fault("append")
  /\ Move(r, "placing", "closing") /\ plan[r] = NoPlan
  /\ J!InterruptAppend(RecordOf(r))
  /\ UNCHANGED <<marketVars, brokerVars, asOf, closes, execution, plan, broke, filled, scored, drift,
                 traded>>

\* The last save of all fails, before the file is opened or in the write.
FinishRaises(r) ==
  /\ Fault("save")
  /\ pc[r] = "closing"
  /\ Die(r) \/ DieSaving(r)
  /\ Forget(r)
  /\ UNCHANGED <<marketVars, logVars, drift, traded>>

\* The machine stops, or the process is killed, between two steps ...
Killed(r) ==
  /\ Fault("die")
  /\ pc[r] # "idle"
  /\ Die(r) /\ Forget(r)
  /\ UNCHANGED <<marketVars, logVars, drift, traded>>

\* ... inside the save of a fill ...
KilledSaving(r) ==
  /\ {"die", "save"} \subseteq Failures /\ Fault("die")
  /\ pc[r] = "placing" /\ plan[r] # NoPlan
  /\ Accepts(mem[r], NextOrder(r), NextPrice(r))
  /\ DieSaving(r) /\ Forget(r)
  /\ UNCHANGED <<marketVars, logVars, drift, traded>>

\* ... or inside the append.
KilledWriting(r) ==
  /\ {"die", "append"} \subseteq Failures /\ Fault("die")
  /\ pc[r] = "placing" /\ plan[r] = NoPlan
  /\ J!InterruptAppend(RecordOf(r))
  /\ Die(r) /\ Forget(r)
  /\ UNCHANGED <<marketVars, drift, traded>>

-----------------------------------------------------------------------------
(* The world outside.                                                      *)

\* A trading day ends; its bars are ingested, or the ingest fails.
NewDay ==
  /\ today < LastDay /\ today' = today + 1
  /\ \/ dataDay' = today + 1 /\ price' \in PriceLists
     \/ "ingest" \in Failures /\ UNCHANGED <<dataDay, price>>
  /\ UNCHANGED <<brokerVars, logVars, localVars, countVars, traded>>

\* A deposit, or a trade by hand, while no run holds the account.
Outside ==
  /\ drift < MaxDrift /\ drift' = drift + 1
  /\ Saved /\ \A r \in Runs : pc[r] = "idle"
  /\ \/ disk' = [disk EXCEPT !.cash = @ + 1]
     \/ \E s \in Symbols : disk' = [disk EXCEPT !.shares[s] = @ + 1]
  /\ UNCHANGED <<marketVars, mem, connected, logVars, localVars, faults, traded>>

Step(r) == \/ Check(r) \/ Decide(r) \/ Trade(r) \/ TradeRejected(r) \/ Write(r) \/ Finish(r)

Fail(r) == \/ Raise(r) \/ SaveRaises(r) \/ AppendRaises(r) \/ FinishRaises(r)
           \/ Killed(r) \/ KilledSaving(r) \/ KilledWriting(r)

Next == NewDay \/ Outside \/ \E r \in Runs : Start(r) \/ Step(r) \/ Fail(r)

Spec == Init /\ [][Next]_vars

\* A process that has started runs on, and cron keeps starting the schedulers.
Fairness == /\ \A r \in Runs : WF_vars(Step(r))
            /\ \A r \in Schedulers : WF_vars(Start(r))

FairSpec == Spec /\ Fairness

-----------------------------------------------------------------------------
(* What must hold.                                                         *)

\* A date is traded by one run, whatever fails and however often cron fires:
\* a run that traded and left no record is caught by reconciliation
\* (scheduler.py:36-38, cycle.py:92-98).
OncePerDate == \A d \in Days : traded[d] <= 1

Agrees(account) ==
  J!HasRecord => Reconciled(J!LastRecord.shares, J!LastRecord.cash, account)

\* A run starts trading only from the account the newest record describes
\* (cycle.py:5-10).
TradesOnlyReconciled ==
  [][\A r \in Runs : filled[r] = "none" /\ filled'[r] # "none" => Agrees(mem[r])]_vars

Quiet == \A r \in Runs : pc[r] = "idle"

\* Between runs that did not fail, belief is the truth: the newest record is the
\* account, so reconciliation never halts without a cause (cycle.py:167-185).
BeliefIsTruth ==
  Quiet /\ faults = 0 /\ drift = 0 /\ J!HasRecord =>
    Saved /\ J!LastRecord.cash = disk.cash /\ J!LastRecord.shares = disk.shares

Placing(r) == pc[r] = "placing" /\ plan[r] # NoPlan

\* The buffer and the order of the plan fund every order of it: with a price
\* for every holding, the broker refuses none (cycle.py:35-39, 205).
PlansAreFunded ==
  \A r \in Runs : Placing(r) => Accepts(mem[r], NextOrder(r), NextPrice(r))

\* Every run ends.
RunsEnd == \A r \in Runs : pc[r] # "idle" ~> pc[r] = "idle"

\* Runs may raise and die: the newest day with bars still gets its record, for
\* good, so that a day that halted can be told from one that never ran, unless a
\* save was cut short and no run can connect again (scheduler.py:6-7, 62-64,
\* broker.py:106-114).
LatestDayIsRecorded == <>[](StoreIsEmpty \/ AlreadyRan(dataDay) \/ disk = Torn)

-----------------------------------------------------------------------------
(* What the repository says, and the code does not do.                     *)

\* reconcile.py:7 "any mismatch halts trading until a human clears it".
BreaksHoldTrading ==
  \A r \in Runs : Placing(r) => ~(J!HasRecord /\ J!LastRecord.broke)

\* risk.py:26 "halt after -25% from peak".
DrawdownHalts ==
  \A r \in Runs : Placing(r) /\ filled[r] = "none" =>
    \A record \in J!ReadRecords :
      ~FellBy(Equity(mem[r], closes[r]), record.equity, MaxDrawdown)
=============================================================================
