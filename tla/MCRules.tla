------------------------------ MODULE MCRules ------------------------------
(***************************************************************************)
(* The rules without a state, each over every small request: the risk      *)
(* gate, the rank allocator, the weighting of the chosen names, the cut of *)
(* a period into windows, and the verdict.  One step answers a request.    *)
(***************************************************************************)
EXTENDS Strategy, RiskGate, WalkForward

CONSTANTS Names, Weights, Equities, Ages,   \* what the gate is asked
          Values, Vols,                     \* scores and volatilities
          MaxDays, MaxWindows, Percents     \* bounds of the periods

ASSUME RulesConstants ==
  /\ Names \subseteq Nat /\ IsFiniteSet(Names)
  /\ Weights \subseteq Int /\ Equities \subseteq Int /\ Ages \subseteq Nat
  /\ Values \subseteq Int /\ Vols \subseteq Nat
  /\ MaxDays \in Nat /\ MaxWindows \in Nat /\ Percents \subseteq 0..100

\* The code's weights and scores are floating point.  Percents are fine enough
\* when scaling rounds no wanted name to nothing, ...
ASSUME UnitIsFine ==
  /\ MaxPositionWeight > 0 /\ MaxGrossExposure >= MaxPositions
  /\ \A w \in Weights : w > 0 => w * MaxGrossExposure >= MaxPositions * MaxPositionWeight

\* ... and scores when one divided by a volatility is not nothing.
ASSUME ScoresAreFine == \A v \in Vols : 2 * v <= Unit

TheValues == {-5, 1, 2, 6}   \* a set the .cfg cannot write

VARIABLES request, answer

vars == <<request, answer>>

Pending == [rule |-> "pending"]

Requests(rule) == IF request.rule = rule THEN {request} ELSE {}

GateStates ==
  [halted : BOOLEAN, reconciled : BOOLEAN, today : Ages, dataAsOf : {0},
   equity : Equities, previous : {0, 100}, peak : {0, 100}, riskOn : {"on", "off", "unknown"}]

Scores(names) == [names -> [value : Values, confident : {TRUE}] \cup {NoOpinion}]

Result(kind, p) ==
  [kind |-> kind, note |-> p = "no data", edge |-> IF p = "weak" THEN SharpeEdge - 1 ELSE SharpeEdge,
   fall |-> IF p = "deep" THEN LargestFall(<<100, 70>>) ELSE LargestFall(<<100, 120, 96>>),
   benchmarkFall |-> LargestFall(<<100, 80, 90>>)]

Outcomes == {"pass", "weak", "deep", "no data"}

\* The results of a walk-forward: some research windows, and a holdout or none.
Rows(n) ==
  {[i \in 1..n |-> Result("research", p[i])] \o h :
     p \in [1..n -> Outcomes], h \in {<<>>} \cup {<<Result("holdout", o)>> : o \in Outcomes}}

Results == UNION {Rows(n) : n \in 0..MaxWindows}

Init ==
  /\ answer = Pending
  /\ \/ \E wanted \in UNION {[names -> Weights] : names \in SUBSET Names}, state \in GateStates :
          request = [rule |-> "gate", wanted |-> wanted, state |-> state]
     \/ \E one \in Scores(Names), two \in Scores(Names) :
          request = [rule |-> "rank", bySignal |-> [a |-> one, b |-> two]]
     \/ \E scores \in Scores(Names), known \in SUBSET Names : \E vols \in [known -> Vols] :
          request = [rule |-> "weigh", scores |-> scores, vols |-> vols]
     \/ \E days \in 0..MaxDays, n \in 1..MaxWindows, p \in Percents :
          request = [rule |-> "windows", end |-> days, n |-> n, percent |-> p]
     \/ \E results \in Results : request = [rule |-> "verdict", results |-> results]

Gate == \E q \in Requests("gate") : answer' = [rule |-> "gate", of |-> Evaluate(q.wanted, q.state)]

Rank == \E q \in Requests("rank") : answer' = [rule |-> "rank", of |-> CombineScores(q.bySignal)]

Weigh == \E q \in Requests("weigh") :
           answer' = [rule |-> "weigh", equal |-> EqualWeightTopN(q.scores, TopN),
                      inverse |-> InverseVolTopN(q.scores, TopN, q.vols)]

Cut == \E q \in Requests("windows") :
         /\ ~Raises(0, q.end, q.n, q.percent)
         /\ answer' = [rule |-> "windows", of |-> Windows(0, q.end, q.n, q.percent)]

Judge == \E q \in Requests("verdict") : answer' = [rule |-> "verdict", of |-> Verdict(q.results)]

Next == /\ answer = Pending
        /\ Gate \/ Rank \/ Weigh \/ Cut \/ Judge
        /\ UNCHANGED request

Spec == Init /\ [][Next]_vars

Answered(rule) == answer.rule = rule

-----------------------------------------------------------------------------
(* The gate.                                                               *)

Allowed == Answered("gate") /\ ~answer.of.blocked

\* The gate can only reduce: no name is added or raised, none exceeds its cap,
\* and the book as a whole is never levered (risk.py:6-7, 23-24).
OnlyReduces ==
  Allowed =>
    /\ DOMAIN answer.of.targets \subseteq DOMAIN request.wanted
    /\ \A s \in DOMAIN answer.of.targets :
         /\ answer.of.targets[s] \in 0..request.wanted[s]
         /\ answer.of.targets[s] <= MaxPositionWeight
    /\ Gross(answer.of.targets) <= MaxGrossExposure

\* What is at least as bad: halted by hand, out of step with the broker, a day
\* staler, or poorer.
Worse(st) == {[st EXCEPT !.halted = TRUE], [st EXCEPT !.reconciled = FALSE],
              [st EXCEPT !.today = st.today + 1]}
             \cup {[st EXCEPT !.equity = e] : e \in {x \in Equities : x <= st.equity}}

\* A halt cannot be lifted by things getting worse, and it holds the book: the
\* targets are empty (risk.py:61-98).
HaltsHold ==
  Answered("gate") /\ answer.of.blocked =>
    /\ answer.of.targets = NoTargets
    /\ \A st \in Worse(request.state) : Evaluate(request.wanted, st).blocked

\* What passed the gate passes it again unchanged, so the limits interact in
\* one pass: scaling does not undo a cap, capping does not undo the trim.
PassesAgain == Allowed => Evaluate(answer.of.targets, request.state) = answer.of

-----------------------------------------------------------------------------
(* The rules of research.                                                  *)

Renamings == {f \in [Names -> Names] : \A s, t \in Names : f[s] = f[t] => s = t}
Renamed(scores, f) == [s \in Names |-> scores[f[s]]]

\* Only the opinions count, never what a stock is called: with every name
\* exchanged for another the combined scores are exchanged alike, ties and
\* abstentions included (allocator.py:34-36: midranks, or ties are broken
\* alphabetically, which silently becomes a preference).
NamesDoNotMatter ==
  Answered("rank") =>
    \A f \in Renamings :
      CombineScores([name \in DOMAIN request.bySignal |-> Renamed(request.bySignal[name], f)])
        = Renamed(answer.of, f)

\* Weighting decides size, never which names are held: both schemes hold the
\* same, deploy no more than everything, and give a calmer name no less; a name
\* whose volatility is unknown gets no more than the calmest known and no less
\* than the wildest (portfolio.py:3-5, 46-51).
WeightingOnlySizes ==
  Answered("weigh") =>
    LET chosen == DOMAIN answer.equal
        w == answer.inverse
        known == {s \in chosen \cap DOMAIN request.vols : request.vols[s] > 0}
    IN  /\ DOMAIN w = chosen
        /\ \A x \in {answer.equal, w} : Gross(x) <= 100 /\ (chosen # {} => Gross(x) > 100 - TopN)
        /\ \A s, t \in known : request.vols[s] <= request.vols[t] => w[s] >= w[t]
        /\ \A s \in chosen \ known : known # {} =>
             (\E t \in known : w[s] <= w[t]) /\ (\E t \in known : w[s] >= w[t])

\* Research never sees the holdout: no day is in two windows, every window has a
\* day, research ends before the holdout begins, and with a holdout no day of
\* the period is left out (walkforward.py:11-12, 156-158).
HoldoutIsUntouched ==
  Answered("windows") =>
    LET windows == answer.of
        In(d) == {i \in DOMAIN windows : windows[i].first <= d /\ d <= windows[i].last}
    IN  /\ \A d \in 0..request.end : Cardinality(In(d)) <= 1
        /\ \A i \in DOMAIN windows : 0 <= windows[i].first /\ windows[i].first <= windows[i].last
        /\ \A i \in Kind(windows, "research"), j \in Kind(windows, "holdout") :
             windows[i].last < windows[j].first
        /\ Kind(windows, "holdout") # {} => \A d \in 0..request.end : In(d) # {}

\* A window without data speaks against the strategy, it is never left out of
\* the count: losing the data of a window turns no failure into a pass, and a
\* pass rests on a holdout that passed and on more research windows that passed
\* than failed or had no data, so that half of them is no pass
\* (walkforward.py:83-85, 106-112).
MissingDataNeverHelps ==
  Answered("verdict") =>
    LET results == request.results
        won == {i \in DOMAIN results : Passed(results[i])}
        research == Kind(results, "research")
    IN  /\ \A i \in DOMAIN results : Verdict([results EXCEPT ![i].note = TRUE]) => answer.of
        /\ answer.of => /\ Cardinality(research \ won) < Cardinality(research \cap won)
                        /\ Kind(results, "holdout") \cap won # {}
=============================================================================
