---------------------------- MODULE MCRules_proof ----------------------------
(***************************************************************************)
(* The rules without a state, for every request: any weights, scores,      *)
(* volatilities and lengths of a period, and any limits of the gate.       *)
(***************************************************************************)
EXTENDS MCRules, Planning_proof, SequenceTheorems

-----------------------------------------------------------------------------
(* What is asked and what is answered.                                     *)

GateAsked(q) ==
  /\ q.rule = "gate"
  /\ \E names \in SUBSET Names : q.wanted \in [names -> Weights]
  /\ q.state \in GateStates

RankAsked(q) ==
  /\ q.rule = "rank"
  /\ \E one \in Scores(Names), two \in Scores(Names) : q.bySignal = [a |-> one, b |-> two]

WeighAsked(q) ==
  /\ q.rule = "weigh" /\ q.scores \in Scores(Names)
  /\ \E known \in SUBSET Names : q.vols \in [known -> Vols]

WindowsAsked(q) ==
  /\ q.rule = "windows"
  /\ q.end \in 0..MaxDays /\ q.n \in 1..MaxWindows /\ q.percent \in Percents

VerdictAsked(q) == q.rule = "verdict" /\ q.results \in Results

\* The answer is the rule's, to a request it was asked.
RulesInv ==
  /\ \/ GateAsked(request) \/ RankAsked(request) \/ WeighAsked(request)
     \/ WindowsAsked(request) \/ VerdictAsked(request)
  /\ \/ answer = Pending
     \/ /\ request.rule = "gate"
        /\ answer = [rule |-> "gate", of |-> Evaluate(request.wanted, request.state)]
     \/ /\ request.rule = "rank"
        /\ answer = [rule |-> "rank", of |-> CombineScores(request.bySignal)]
     \/ /\ request.rule = "weigh"
        /\ answer = [rule |-> "weigh", equal |-> EqualWeightTopN(request.scores, TopN),
                     inverse |-> InverseVolTopN(request.scores, TopN, request.vols)]
     \/ /\ request.rule = "windows"
        /\ ~Raises(0, request.end, request.n, request.percent)
        /\ answer = [rule |-> "windows",
                     of |-> Windows(0, request.end, request.n, request.percent)]
     \/ /\ request.rule = "verdict"
        /\ answer = [rule |-> "verdict", of |-> Verdict(request.results)]

LEMMA RulesInvInit == Init => RulesInv
<1>1. SUFFICES ASSUME Init
               PROVE  \/ GateAsked(request) \/ RankAsked(request) \/ WeighAsked(request)
                      \/ WindowsAsked(request) \/ VerdictAsked(request)
  BY DEF Init, RulesInv
<1>2. CASE \E wanted \in UNION {[names -> Weights] : names \in SUBSET Names},
              state \in GateStates :
             request = [rule |-> "gate", wanted |-> wanted, state |-> state]
  <2>1. PICK wanted \in UNION {[names -> Weights] : names \in SUBSET Names}, state \in GateStates :
               request = [rule |-> "gate", wanted |-> wanted, state |-> state]
    BY <1>2
  <2>2. request.rule = "gate" /\ request.wanted = wanted /\ request.state = state
    BY <2>1
  <2>3. \E names \in SUBSET Names : wanted \in [names -> Weights]
    OBVIOUS
  <2>4. QED
    BY <2>2, <2>3 DEF GateAsked
<1>3. CASE \E one \in Scores(Names), two \in Scores(Names) :
             request = [rule |-> "rank", bySignal |-> [a |-> one, b |-> two]]
  BY <1>3 DEF RankAsked
<1>4. CASE \E scores \in Scores(Names), known \in SUBSET Names : \E vols \in [known -> Vols] :
             request = [rule |-> "weigh", scores |-> scores, vols |-> vols]
  <2>1. PICK scores \in Scores(Names), known \in SUBSET Names : \E vols \in [known -> Vols] :
               request = [rule |-> "weigh", scores |-> scores, vols |-> vols]
    BY <1>4
  <2> PICK vols \in [known -> Vols] :
               request = [rule |-> "weigh", scores |-> scores, vols |-> vols]
    BY <2>1
  <2>2. request.rule = "weigh" /\ request.scores = scores /\ request.vols = vols
    OBVIOUS
  <2>3. QED
    BY <2>2 DEF WeighAsked
<1>5. CASE \E days \in 0..MaxDays, n \in 1..MaxWindows, p \in Percents :
             request = [rule |-> "windows", end |-> days, n |-> n, percent |-> p]
  <2>1. PICK days \in 0..MaxDays, n \in 1..MaxWindows, p \in Percents :
               request = [rule |-> "windows", end |-> days, n |-> n, percent |-> p]
    BY <1>5
  <2>2. request.rule = "windows" /\ request.end = days /\ request.n = n /\ request.percent = p
    BY <2>1
  <2>3. QED
    BY <2>2 DEF WindowsAsked
<1>6. CASE \E results \in Results : request = [rule |-> "verdict", results |-> results]
  BY <1>6 DEF VerdictAsked
<1>7. QED
  BY <1>1, <1>2, <1>3, <1>4, <1>5, <1>6 DEF Init

LEMMA RulesInvNext == RulesInv /\ [Next]_vars => RulesInv'
<1> SUFFICES ASSUME RulesInv, [Next]_vars PROVE RulesInv'
  OBVIOUS
<1>1. request' = request
  BY DEF Next, vars
<1>2. (\/ GateAsked(request) \/ RankAsked(request) \/ WeighAsked(request)
       \/ WindowsAsked(request) \/ VerdictAsked(request))'
  BY <1>1 DEF RulesInv, GateAsked, RankAsked, WeighAsked, WindowsAsked, VerdictAsked
<1>3. CASE UNCHANGED vars
  BY <1>2, <1>3 DEF RulesInv, vars
<1>4. CASE Gate
  BY <1>1, <1>2, <1>4 DEF RulesInv, Gate, Requests
<1>5. CASE Rank
  BY <1>1, <1>2, <1>5 DEF RulesInv, Rank, Requests
<1>6. CASE Weigh
  BY <1>1, <1>2, <1>6 DEF RulesInv, Weigh, Requests
<1>7. CASE Cut
  BY <1>1, <1>2, <1>7 DEF RulesInv, Cut, Requests
<1>8. CASE Judge
  BY <1>1, <1>2, <1>8 DEF RulesInv, Judge, Requests
<1>9. QED
  BY <1>3, <1>4, <1>5, <1>6, <1>7, <1>8 DEF Next

LEMMA GateAnswered ==
  ASSUME RulesInv, Answered("gate")
  PROVE  /\ GateAsked(request)
         /\ answer.of = Evaluate(request.wanted, request.state)
  BY DEF RulesInv, Answered, Pending, GateAsked, RankAsked, WeighAsked, WindowsAsked, VerdictAsked

-----------------------------------------------------------------------------
(* The gate.                                                               *)

\* The gate never adds or raises a name, never exceeds a cap, never levers the
\* book: for any wanted weights, any limits and any state of the account.
THEOREM GateOnlyReduces == Spec => []OnlyReduces
<1>1. RulesInv => OnlyReduces
  <2>1. SUFFICES ASSUME RulesInv, Answered("gate")
                 PROVE  /\ DOMAIN answer.of.targets \subseteq DOMAIN request.wanted
                        /\ \A s \in DOMAIN answer.of.targets :
                             /\ answer.of.targets[s] \in 0..request.wanted[s]
                             /\ answer.of.targets[s] <= MaxPositionWeight
                        /\ Gross(answer.of.targets) <= MaxGrossExposure
    BY DEF OnlyReduces, Allowed
  <2>2. GateAsked(request) /\ answer.of = Evaluate(request.wanted, request.state)
    BY <2>1, GateAnswered
  <2>3. PICK names \in SUBSET Names : request.wanted \in [names -> Weights]
    BY <2>2 DEF GateAsked
  <2>4. /\ names \in SUBSET Nat /\ IsFiniteSet(names)
        /\ request.wanted \in [names -> Int] /\ DOMAIN request.wanted = names
    <3>1. names \in SUBSET Nat /\ IsFiniteSet(names)
      BY RulesConstants, FS_Subset
    <3>2. \A s \in names : request.wanted[s] \in Int
      BY <2>3, RulesConstants
    <3>3. QED
      BY <2>3, <3>1, <3>2
  <2> DEFINE targets == answer.of.targets
             wanted == request.wanted
  <2>5. /\ DOMAIN targets \in SUBSET names
        /\ targets \in [DOMAIN targets -> Nat]
        /\ \A s \in DOMAIN targets : targets[s] <= wanted[s] /\ targets[s] <= MaxPositionWeight
        /\ Gross(targets) <= MaxGrossExposure
    BY <2>2, <2>4, GateReduces
  <2>6. \A s \in names : wanted[s] \in Int
    BY <2>4
  <2> HIDE DEF targets, wanted
  <2>7. \A s \in DOMAIN targets : targets[s] \in 0..wanted[s]
    BY <2>5, <2>6
  <2>8. QED
    BY <2>4, <2>5, <2>7 DEF targets, wanted
<1>2. QED
  BY <1>1, RulesInvInit, RulesInvNext, PTL DEF Spec

\* What fell too far has fallen too far when the equity is lower still.
LEMMA FallsFurther ==
  ASSUME NEW e \in Int, NEW lower \in Int, lower <= e,
         NEW reference \in Int, NEW limit \in Int, FellBy(e, reference, limit)
  PROVE  FellBy(lower, reference, limit)
<1>1. 100 * (lower - reference) <= 100 * (e - reference)
  OBVIOUS
<1>2. reference > 0 /\ 100 * (e - reference) <= -limit * reference
  BY DEF FellBy
<1>3. -limit * reference \in Int
  OBVIOUS
<1>4. QED
  BY <1>1, <1>2, <1>3 DEF FellBy

\* What blocks goes on blocking when things get worse.
LEMMA WorseBlocks ==
  ASSUME NEW state \in GateStates, NEW st \in Worse(state)
  PROVE  st.riskOn = state.riskOn /\ (Blocks(state) => Blocks(st))
<1>1. /\ state.today \in Int /\ state.dataAsOf \in Int /\ state.equity \in Int
      /\ state.previous \in Int /\ state.peak \in Int
  <2>1. /\ state.today \in Ages /\ state.dataAsOf \in {0} /\ state.equity \in Equities
        /\ state.previous \in {0, 100} /\ state.peak \in {0, 100}
    BY DEF GateStates
  <2>2. (\A x \in Ages : x \in Int) /\ (\A x \in Equities : x \in Int)
    BY RulesConstants
  <2>3. state.today \in Int /\ state.equity \in Int
    BY <2>1, <2>2
  <2>4. state.dataAsOf \in Int /\ state.previous \in Int /\ state.peak \in Int
    BY <2>1
  <2>5. QED
    BY <2>3, <2>4
<1>2. CASE st \in {[state EXCEPT !.halted = TRUE], [state EXCEPT !.reconciled = FALSE]}
  <2>1. {"halted", "reconciled", "riskOn"} \subseteq DOMAIN state
    BY DEF GateStates
  <2>2. \A x : /\ [state EXCEPT !.halted = x].halted = x
               /\ [state EXCEPT !.halted = x].riskOn = state.riskOn
               /\ [state EXCEPT !.reconciled = x].reconciled = x
               /\ [state EXCEPT !.reconciled = x].riskOn = state.riskOn
    BY <2>1, Zenon
  <2>3. st.riskOn = state.riskOn /\ (st.halted = TRUE \/ st.reconciled = FALSE)
    BY <1>2, <2>2, Zenon
  <2>4. QED
    BY <2>3 DEF Blocks
<1>3. CASE st = [state EXCEPT !.today = state.today + 1]
  <2>1. /\ st.today = state.today + 1 /\ st.dataAsOf = state.dataAsOf
        /\ st.equity = state.equity /\ st.previous = state.previous /\ st.peak = state.peak
        /\ st.halted = state.halted /\ st.reconciled = state.reconciled
        /\ st.riskOn = state.riskOn
    BY <1>3 DEF GateStates
  <2>2. state.today - state.dataAsOf > MaxStaleness => st.today - st.dataAsOf > MaxStaleness
    BY <1>1, <2>1, RiskLimitsAreNat
  <2>3. QED
    BY <2>1, <2>2 DEF Blocks
<1>4. CASE \E e \in {x \in Equities : x <= state.equity} : st = [state EXCEPT !.equity = e]
  <2>1. PICK e \in Equities : e <= state.equity /\ st = [state EXCEPT !.equity = e]
    BY <1>4
  <2>2. /\ st.today = state.today /\ st.dataAsOf = state.dataAsOf
        /\ st.equity = e /\ st.previous = state.previous /\ st.peak = state.peak
        /\ st.halted = state.halted /\ st.reconciled = state.reconciled
        /\ st.riskOn = state.riskOn
    BY <2>1 DEF GateStates
  <2>3. e \in Int /\ (state.equity <= 0 => e <= 0)
    BY <1>1, <2>1, RulesConstants
  <2>4. /\ FellBy(state.equity, state.previous, MaxDailyLoss) =>
             FellBy(e, state.previous, MaxDailyLoss)
        /\ FellBy(state.equity, state.peak, MaxDrawdown) => FellBy(e, state.peak, MaxDrawdown)
    BY <1>1, <2>1, <2>3, FallsFurther, RiskLimitsAreNat
  <2>5. QED
    BY <2>2, <2>3, <2>4 DEF Blocks
<1>5. QED
  BY <1>2, <1>3, <1>4 DEF Worse

\* A halt leaves no targets, and no worsening of the account or of the data
\* lifts it: for any wanted weights and any limits.
THEOREM GateHaltsHold == Spec => []HaltsHold
<1>1. RulesInv => HaltsHold
  <2>1. SUFFICES ASSUME RulesInv, Answered("gate"), answer.of.blocked,
                        NEW st \in Worse(request.state)
                 PROVE  /\ answer.of.targets = NoTargets
                        /\ Evaluate(request.wanted, st).blocked
    <3>1. Worse(request.state) # {}
      BY DEF Worse
    <3>2. QED
      BY <3>1 DEF HaltsHold
  <2>2. GateAsked(request) /\ answer.of = Evaluate(request.wanted, request.state)
    BY <2>1, GateAnswered
  <2>3. st.riskOn = request.state.riskOn /\ (Blocks(request.state) => Blocks(st))
    BY <2>1, <2>2, WorseBlocks DEF GateAsked
  <2>4. QED
    BY <2>1, <2>2, <2>3 DEF Evaluate, Block
<1>2. QED
  BY <1>1, RulesInvInit, RulesInvNext, PTL DEF Spec

\* What the gate lets through has at most MaxPositions names, each of a weight
\* that the scaling does not round away.
LEMMA ScaledStaysPositive ==
  ASSUME NEW E, IsFiniteSet(E), Cardinality(E) <= MaxPositions,
         NEW safe \in [E -> Nat \ {0}], \A s \in E : safe[s] \in Weights
  PROVE  ScaleDown(Cap(safe)) \in [E -> Nat \ {0}]
<1> DEFINE c == Cap(safe)
           g == Gross(c)
           M == MaxGrossExposure
           most == MaxPositions * MaxPositionWeight
<1>1. M \in Nat /\ MaxPositions \in Nat /\ MaxPositionWeight \in Nat \ {0} /\ most \in Nat
  BY RiskLimitsAreNat, UnitIsFine
<1>2. c \in [E -> Nat \ {0}] /\ \A s \in E : c[s] <= MaxPositionWeight
  BY <1>1 DEF Cap
<1>3. \A s \in E : c[s] * M >= most
  <2>1. TAKE s \in E
  <2>2. c[s] = safe[s] \/ c[s] = MaxPositionWeight
    BY DEF Cap
  <2>3. safe[s] * M >= most
    BY UnitIsFine
  <2>4. MaxPositionWeight * M >= most
    <3>1. MaxPositions <= M
      BY <1>1, UnitIsFine
    <3>2. MaxPositionWeight * MaxPositions <= MaxPositionWeight * M
      BY <1>1, <3>1, ProductsCompare
    <3>3. QED
      BY <1>1, <3>2
  <2>5. QED
    BY <2>2, <2>3, <2>4
<1>4. g \in Nat /\ g <= most
  <2> DEFINE cap == [s \in E |-> MaxPositionWeight]
  <2>1. \A s \in E : c[s] \in Nat /\ c[s] \in Int /\ cap[s] \in Int /\ c[s] <= cap[s]
    BY <1>1, <1>2
  <2>2. g = SumOf(c, E)
    BY <1>2, GrossIsSum
  <2> HIDE DEF c
  <2>3. SumOf(c, E) \in Nat
    BY <2>1, SumIsNat
  <2> HIDE DEF g
  <2>4. SumOf(cap, E) = MaxPositionWeight * Cardinality(E)
    <3>1. \A s \in E : cap[s] = MaxPositionWeight
      OBVIOUS
    <3> HIDE DEF cap
    <3>2. QED
      BY <1>1, <3>1, SumOfEqual
  <2> HIDE DEF cap
  <2>5. SumOf(c, E) <= SumOf(cap, E)
    BY <2>1, SumsGrow
  <2>6. Cardinality(E) \in Nat
    BY FS_CardinalityType
  <2>7. MaxPositionWeight * Cardinality(E) <= MaxPositionWeight * MaxPositions
    BY <1>1, <2>6, ProductsCompare
  <2>8. MaxPositionWeight * Cardinality(E) \in Nat
    BY <1>1, <2>6
  <2>9. QED
    BY <1>1, <2>2, <2>3, <2>4, <2>5, <2>7, <2>8
<1> HIDE DEF c
<1>5. CASE g <= M
  BY <1>2, <1>5 DEF ScaleDown, c
<1>6. CASE ~(g <= M)
  <2>1. g \in Nat \ {0}
    BY <1>1, <1>4, <1>6
  <2>2. ASSUME NEW s \in E
        PROVE  (c[s] * M) \div g \in Nat \ {0}
    <3>1. c[s] \in Nat /\ c[s] * M \in Nat
      BY <1>1, <1>2
    <3> HIDE DEF g, most, M
    <3>2. c[s] * M >= g
      BY <1>1, <1>3, <1>4, <3>1
    <3> DEFINE a == c[s] * M
    <3>3. a \in Nat /\ a >= g
      BY <3>1, <3>2
    <3> HIDE DEF a
    <3>4. a \div g \in Nat \ {0}
      BY <2>1, <3>3
    <3>5. QED
      BY <3>4 DEF a
  <2>3. ScaleDown(c) = [s \in E |-> (c[s] * M) \div g]
    BY <1>2, <1>6 DEF ScaleDown
  <2> HIDE DEF g, M
  <2>4. QED
    BY <2>2, <2>3 DEF c
<1>7. QED
  BY <1>5, <1>6 DEF c

\* What passed the gate passes it again as it is: the trim, the caps and the
\* scale do not disturb one another, for any limits and any weights of a unit
\* fine enough for them.
THEOREM GatePassesAgain == Spec => []PassesAgain
<1>1. RulesInv => PassesAgain
  <2>1. SUFFICES ASSUME RulesInv, Answered("gate"), ~answer.of.blocked
                 PROVE  Evaluate(answer.of.targets, request.state) = answer.of
    BY DEF PassesAgain, Allowed
  <2>2. GateAsked(request) /\ answer.of = Evaluate(request.wanted, request.state)
    BY <2>1, GateAnswered
  <2>3. PICK names \in SUBSET Names : request.wanted \in [names -> Weights]
    BY <2>2 DEF GateAsked
  <2> DEFINE wanted == request.wanted
             state == request.state
             safe == Trim(Positive(wanted))
             E == DOMAIN safe
             t == answer.of.targets
  <2>4. names \in SUBSET Nat /\ IsFiniteSet(names) /\ wanted \in [names -> Int]
    <3>1. names \in SUBSET Nat /\ IsFiniteSet(names)
      BY RulesConstants, FS_Subset
    <3>2. \A s \in names : request.wanted[s] \in Int
      BY <2>3, RulesConstants
    <3>3. QED
      BY <2>3, <3>1, <3>2
  <2>5. /\ E \in SUBSET names /\ IsFiniteSet(E) /\ Cardinality(E) <= MaxPositions
        /\ safe \in [E -> Nat \ {0}] /\ \A s \in E : safe[s] = wanted[s]
    BY <2>4, SafeIs
  <2>6. ~Blocks(state) /\ answer.of = [targets |-> t, blocked |-> FALSE]
    <3>1. \/ answer.of = Block
          \/ ~Blocks(state) /\ answer.of = [targets |-> NoTargets, blocked |-> FALSE]
          \/ ~Blocks(state) /\ answer.of = [targets |-> ScaleDown(Cap(safe)), blocked |-> FALSE]
      <4>1. answer.of = Evaluate(wanted, state)
        BY <2>2
      <4> HIDE DEF wanted, state
      <4>2. QED
        BY <4>1 DEF Evaluate
    <3>2. answer.of # Block
      BY <2>1 DEF Block
    <3>3. \E x : answer.of = [targets |-> x, blocked |-> FALSE]
      BY <3>1, <3>2
    <3>4. answer.of = [targets |-> answer.of.targets, blocked |-> FALSE]
      BY <3>3
    <3>5. QED
      BY <3>1, <3>2, <3>4
  <2>7. CASE t = NoTargets
    <3>1. Evaluate(NoTargets, state) = IF state.riskOn = "off" THEN [targets |-> NoTargets, blocked |-> FALSE]
                                       ELSE [targets |-> ScaleDown(Cap(NoTargets)), blocked |-> FALSE]
      BY <2>6, NothingIsWanted DEF Evaluate
    <3>2. Cap(NoTargets) = NoTargets
      BY NothingIsWanted, CapIs
    <3>3. ScaleDown(NoTargets) = NoTargets
      BY NothingIsWanted, RiskLimitsAreNat DEF ScaleDown
    <3>4. QED
      BY <2>6, <2>7, <3>1, <3>2, <3>3
  <2>8. CASE t # NoTargets
    <3>1. /\ state.riskOn # "off" /\ t = ScaleDown(Cap(safe))
          /\ ~(safe # NoTargets /\ Cardinality(E) < MinPositions)
      BY <2>1, <2>2, <2>8 DEF Evaluate, Block
    <3>2. t \in [E -> Nat \ {0}]
      <4>1. \A s \in E : safe[s] \in Weights
        BY <2>3, <2>5
      <4> HIDE DEF safe, E, t
      <4>2. QED
        BY <2>5, <3>1, <4>1, ScaledStaysPositive
    <3>3. Gross(t) <= MaxGrossExposure /\ \A s \in E : t[s] <= MaxPositionWeight
      <4>1. /\ DOMAIN t \in SUBSET names
            /\ \A s \in DOMAIN t : t[s] <= MaxPositionWeight
            /\ Gross(t) <= MaxGrossExposure
        BY <2>2, <2>4, GateReduces
      <4>2. DOMAIN t = E
        BY <3>2
      <4>3. QED
        BY <4>1, <4>2
    <3>4. safe # NoTargets
      <4>1. ASSUME safe = NoTargets PROVE FALSE
        <5>1. E = {}
          BY <4>1, NothingIsWanted
        <5>2. t = NoTargets
          BY <3>2, <5>1, NothingIsWanted
        <5>3. QED
          BY <2>8, <5>2
      <4>2. QED
        BY <4>1
    <3>5. ~(Cardinality(E) < MinPositions)
      BY <3>1, <3>4
    <3> HIDE DEF safe, E, t
    <3>6. Positive(t) = t
      <4>1. {s \in DOMAIN t : t[s] > 0} = E /\ t = [s \in E |-> t[s]]
        BY <3>2
      <4>2. QED
        BY <4>1 DEF Positive, Only
    <3>7. Trim(t) = t
      <4>1. E \in SUBSET Nat /\ t \in [E -> Int]
        BY <2>4, <2>5, <3>2
      <4>2. QED
        BY <2>5, <4>1, TrimKeeps
    <3>8. Cap(t) = t
      <4>1. t \in [E -> Nat]
        BY <3>2
      <4>2. QED
        BY <3>3, <4>1, CapIs
    <3>9. ScaleDown(t) = t
      BY <3>3 DEF ScaleDown
    <3>10. DOMAIN t = E
      BY <3>2
    <3>11. Evaluate(t, state) = [targets |-> t, blocked |-> FALSE]
      BY <2>6, <3>1, <3>5, <3>6, <3>7, <3>8, <3>9, <3>10 DEF Evaluate
    <3>12. QED
      BY <2>6, <3>11 DEF t
  <2>9. QED
    BY <2>7, <2>8
<1>2. QED
  BY <1>1, RulesInvInit, RulesInvNext, PTL DEF Spec

-----------------------------------------------------------------------------
(* The verdict.                                                            *)

LEMMA VerdictAnswered ==
  ASSUME RulesInv, Answered("verdict")
  PROVE  request.results \in Results /\ answer.of = Verdict(request.results)
  BY DEF RulesInv, Answered, Pending, GateAsked, RankAsked, WeighAsked, WindowsAsked, VerdictAsked

LEMMA ResultFields ==
  ASSUME NEW kind, NEW o
  PROVE  {"kind", "note"} \subseteq DOMAIN Result(kind, o)
<1>1. \A a, b, c, d : {"kind", "note"} \subseteq
        DOMAIN [kind |-> kind, note |-> a, edge |-> b, fall |-> c, benchmarkFall |-> d]
  OBVIOUS
<1>2. QED
  BY <1>1, Zenon DEF Result

\* Results are a row of finitely many records.
LEMMA ResultsAre ==
  ASSUME NEW results \in Results
  PROVE  /\ IsFiniteSet(DOMAIN results)
         /\ DOMAIN results \subseteq Nat
         /\ \A i \in DOMAIN results : {"kind", "note"} \subseteq DOMAIN results[i]
<1> DEFINE Row == {Result(kind, o) : kind \in {"research", "holdout"}, o \in Outcomes}
<1>1. PICK n \in 0..MaxWindows : results \in Rows(n)
  BY DEF Results
<1>2. PICK p \in [1..n -> Outcomes],
           h \in {<<>>} \cup {<<Result("holdout", o)>> : o \in Outcomes} :
        results = [i \in 1..n |-> Result("research", p[i])] \o h
  BY <1>1 DEF Rows
<1>3. n \in Nat
  BY RulesConstants
<1>4. \A i \in 1..n : Result("research", p[i]) \in Row
  BY <1>2
<1>5. [i \in 1..n |-> Result("research", p[i])] \in Seq(Row)
  <2> HIDE DEF Row
  <2>1. QED
    BY <1>3, <1>4
<1>6. h \in Seq(Row)
  <2>1. \A o \in Outcomes : Result("holdout", o) \in Row
    OBVIOUS
  <2>2. h = <<>> \/ \E o \in Outcomes : h = <<Result("holdout", o)>>
    BY <1>2
  <2> HIDE DEF Row
  <2>3. <<>> \in Seq(Row) /\ \A x \in Row : <<x>> \in Seq(Row)
    OBVIOUS
  <2>4. QED
    BY <2>1, <2>2, <2>3
<1>7. results \in Seq(Row)
  <2> HIDE DEF Row
  <2>1. QED
    BY <1>2, <1>5, <1>6
<1>8. DOMAIN results = 1..Len(results) /\ Len(results) \in Nat
      /\ \A i \in DOMAIN results : results[i] \in Row
  <2> HIDE DEF Row
  <2>1. QED
    BY <1>7
<1>9. IsFiniteSet(DOMAIN results) /\ DOMAIN results \subseteq Nat
  <2>1. IsFiniteSet(1..Len(results))
    <3>1. 1 \in Int /\ Len(results) \in Int
      BY <1>8
    <3>2. QED
      BY <3>1, FS_Interval
  <2>2. QED
    BY <1>8, <2>1
<1>10. \A x \in Row : {"kind", "note"} \subseteq DOMAIN x
  BY ResultFields
<1>11. QED
  BY <1>8, <1>9, <1>10

\* Losing the data of a window makes its result one that did not pass.
LEMMA LostData ==
  ASSUME NEW results \in Results, NEW i \in DOMAIN results
  PROVE  LET lost == [results EXCEPT ![i].note = TRUE]
         IN  /\ \A kind : Kind(lost, kind) = Kind(results, kind)
             /\ \A j \in DOMAIN results : Passed(lost[j]) => Passed(results[j])
<1> DEFINE lost == [results EXCEPT ![i].note = TRUE]
<1>1. {"kind", "note"} \subseteq DOMAIN results[i]
  BY ResultsAre
<1>2. DOMAIN lost = DOMAIN results /\ \A j \in DOMAIN results : j # i => lost[j] = results[j]
  BY Zenon
<1>3. \A x : LET r == [results EXCEPT ![i].note = x]
             IN  r[i].kind = results[i].kind /\ r[i].note = x
  BY <1>1, Zenon
<1>4. lost[i].kind = results[i].kind /\ lost[i].note = TRUE
  BY <1>3, Zenon
<1> HIDE DEF lost
<1>5. ~Passed(lost[i])
  BY <1>4 DEF Passed
<1>6. \A kind : Kind(lost, kind) = Kind(results, kind)
  BY <1>2, <1>4 DEF Kind
<1>7. QED
  BY <1>2, <1>5, <1>6 DEF lost

LEMMA MorePasses ==
  ASSUME NEW R, IsFiniteSet(R), NEW A \in SUBSET R, NEW B \in SUBSET A,
         2 * Cardinality(B) > Cardinality(R)
  PROVE  2 * Cardinality(A) > Cardinality(R)
<1>1. IsFiniteSet(A) /\ IsFiniteSet(B)
  BY FS_Subset
<1>2. Cardinality(A) \in Nat /\ Cardinality(B) \in Nat /\ Cardinality(R) \in Nat
  BY <1>1, FS_CardinalityType
<1>3. Cardinality(B) <= Cardinality(A)
  BY <1>1, FS_Subset
<1>4. QED
  BY <1>2, <1>3

\* A window that loses its data never turns a failure into a pass, and a pass has
\* a holdout and a strict majority of all research windows behind it: for any row
\* of results.
THEOREM VerdictMissesNothing == Spec => []MissingDataNeverHelps
<1>1. RulesInv => MissingDataNeverHelps
  <2> SUFFICES ASSUME RulesInv, Answered("verdict") PROVE MissingDataNeverHelps
    BY DEF MissingDataNeverHelps
  <2> DEFINE results == request.results
             won == {i \in DOMAIN results : Passed(results[i])}
             research == Kind(results, "research")
             holdout == Kind(results, "holdout")
  <2>2. results \in Results /\ answer.of = Verdict(results)
    BY VerdictAnswered
  <2>1. SUFFICES /\ \A i \in DOMAIN results :
                      Verdict([results EXCEPT ![i].note = TRUE]) => Verdict(results)
                 /\ Verdict(results) =>
                      /\ Cardinality(research \ won) < Cardinality(research \cap won)
                      /\ holdout \cap won # {}
    BY <2>2 DEF MissingDataNeverHelps
  <2> HIDE DEF results
  <2>3. ASSUME NEW i \in DOMAIN results, Verdict([results EXCEPT ![i].note = TRUE])
        PROVE  Verdict(results)
    <3> DEFINE lost == [results EXCEPT ![i].note = TRUE]
               R == Kind(results, "research")
               A == {j \in R : Passed(results[j])}
               B == {j \in R : Passed(lost[j])}
    <3>1. /\ \A kind : Kind(lost, kind) = Kind(results, kind)
          /\ \A j \in DOMAIN results : Passed(lost[j]) => Passed(results[j])
      BY <2>2, LostData
    <3>2. Verdict(lost)
      BY <2>3
    <3> HIDE DEF lost
    <3>3. /\ R # {} /\ 2 * Cardinality(B) > Cardinality(R)
          /\ Kind(results, "holdout") # {} /\ Passed(lost[Max(Kind(results, "holdout"))])
      BY <3>1, <3>2, Zenon DEF Verdict
    <3>4. IsFiniteSet(R) /\ A \in SUBSET R /\ B \in SUBSET A
      <4>1. IsFiniteSet(DOMAIN results) /\ R \in SUBSET DOMAIN results
        BY <2>2, ResultsAre DEF Kind
      <4>2. IsFiniteSet(R)
        BY <4>1, FS_Subset
      <4>3. QED
        BY <3>1, <4>1, <4>2
    <3>5. 2 * Cardinality(A) > Cardinality(R)
      <4> HIDE DEF R, A, B
      <4>1. QED
        BY <3>3, <3>4, MorePasses
    <3>6. Passed(results[Max(Kind(results, "holdout"))])
      <4>1. Max(Kind(results, "holdout")) \in DOMAIN results
        <5>1. Kind(results, "holdout") \in SUBSET DOMAIN results
          BY DEF Kind
        <5>2. IsFiniteSet(DOMAIN results) /\ DOMAIN results \subseteq Nat
          BY <2>2, ResultsAre
        <5>3. QED
          BY <3>3, <5>1, <5>2, FS_Subset, LargestIsMember
      <4>2. QED
        BY <3>1, <3>3, <4>1
    <3>7. QED
      BY <3>3, <3>5, <3>6 DEF Verdict
  <2>4. ASSUME Verdict(results)
        PROVE  /\ Cardinality(research \ won) < Cardinality(research \cap won)
               /\ holdout \cap won # {}
    <3>1. IsFiniteSet(DOMAIN results) /\ DOMAIN results \subseteq Nat
      BY <2>2, ResultsAre
    <3>2. research \in SUBSET DOMAIN results /\ holdout \in SUBSET DOMAIN results
      BY DEF Kind
    <3>3. 2 * Cardinality(research \cap won) > Cardinality(research)
      <4>1. {i \in research : Passed(results[i])} = research \cap won
        BY <3>2
      <4>2. QED
        BY <2>4, <4>1 DEF Verdict
    <3>4. Cardinality(research \ won) < Cardinality(research \cap won)
      <4> HIDE DEF research, won
      <4>1. IsFiniteSet(research) /\ IsFiniteSet(research \cap won)
        BY <3>1, <3>2, FS_Subset
      <4>2. Cardinality(research \ won) = Cardinality(research) - Cardinality(research \cap won)
        BY <4>1, FS_Difference
      <4>3. Cardinality(research) \in Nat /\ Cardinality(research \cap won) \in Nat
        BY <4>1, FS_CardinalityType
      <4>4. QED
        BY <3>3, <4>2, <4>3
    <3>5. Max(holdout) \in holdout
      <4>1. IsFiniteSet(holdout) /\ \A i \in holdout : i \in Int
        BY <3>1, <3>2, FS_Subset
      <4>2. holdout # {}
        BY <2>4 DEF Verdict
      <4> HIDE DEF holdout
      <4>3. QED
        BY <4>1, <4>2, LargestIsMember
    <3>6. Passed(results[Max(holdout)])
      BY <2>4 DEF Verdict
    <3>7. QED
      BY <3>2, <3>4, <3>5, <3>6
  <2>5. QED
    BY <2>3, <2>4
<1>2. QED
  BY <1>1, RulesInvInit, RulesInvNext, PTL DEF Spec

-----------------------------------------------------------------------------
(* The cut of a period into windows.                                       *)

LEMMA HoldoutIsAPart ==
  ASSUME NEW end \in Nat, NEW percent \in 0..100
  PROVE  HoldoutDays(0, end, percent) \in 0..end
<1> DEFINE x == (end - 0) * percent
           q == x \div 100
           r == x % 100
<1>1. x \in Nat /\ x <= 100 * end
  <2>1. 0 * end <= percent * end /\ percent * end <= 100 * end
    BY ProductsCompare
  <2>2. x = percent * end
    OBVIOUS
  <2>3. QED
    BY <2>1, <2>2
<1> HIDE DEF x
<1>2. q \in Nat /\ r \in 0..99 /\ x = 100 * q + r
  BY <1>1
<1>3. HoldoutDays(0, end, percent)
        = IF 2 * r > 100 \/ (2 * r = 100 /\ q % 2 = 1) THEN q + 1 ELSE q
  BY DEF HoldoutDays, Round, x
<1> HIDE DEF q, r
<1>4. q <= end /\ (r > 0 => q + 1 <= end)
  BY <1>1, <1>2
<1>5. QED
  BY <1>2, <1>3, <1>4

\* Where a window begins: the i-th part, of n, of the days up to H.
Border(H, n, i) == (i * H) \div n

LEMMA BordersAscend ==
  ASSUME NEW n \in Nat \ {0}, NEW H \in Nat, H >= n, NEW i \in Nat, NEW j \in Nat, i < j
  PROVE  /\ Border(H, n, i) \in Nat /\ Border(H, n, j) \in Nat
         /\ Border(H, n, i) + 1 <= Border(H, n, j)
         /\ Border(H, n, 0) = 0 /\ Border(H, n, n) = H
<1>1. /\ i * H \in Nat /\ j * H \in Nat /\ n * H \in Nat /\ (i + 1) * H = i * H + H
      /\ (i + 1) * H <= j * H
  BY ProductsCompare
<1> DEFINE a == i * H
           b == j * H
<1>2. a \in Nat /\ b \in Nat /\ a + n <= b
  BY <1>1
<1> HIDE DEF a, b
<1>3. a \div n \in Nat /\ b \div n \in Nat /\ (a \div n) + 1 <= b \div n
  BY <1>2, QuotientsAscend
<1>4. (0 * H) \div n = 0
  OBVIOUS
<1>5. (n * H) \div n = H
  BY Cancels
<1>6. QED
  BY <1>3, <1>4, <1>5 DEF Border, a, b

\* What the windows are: none or n of research up to the day before the
\* holdout, and the holdout when it has a day.
LEMMA WindowsAre ==
  ASSUME NEW end \in Nat, NEW n \in Nat \ {0}, NEW percent \in 0..100,
         ~Raises(0, end, n, percent)
  PROVE  LET days == HoldoutDays(0, end, percent)
             H == end - days - 1
             m == IF H >= 0 THEN n ELSE 0
             windows == Windows(0, end, n, percent)
         IN  /\ days \in 0..end /\ (H >= 0 => H >= n)
             /\ DOMAIN windows = 1..(IF days > 0 THEN m + 1 ELSE m)
             /\ \A i \in 1..m :
                  windows[i] = [kind |-> "research", first |-> Border(H, n, i - 1),
                                last |-> IF i = n THEN H ELSE Border(H, n, i) - 1]
             /\ days > 0 => windows[m + 1] = [kind |-> "holdout", first |-> H + 1, last |-> end]
<1> DEFINE days == HoldoutDays(0, end, percent)
           H == end - days - 1
           m == IF H >= 0 THEN n ELSE 0
           window(i) == [kind |-> "research", first |-> Border(H, n, i - 1),
                         last |-> IF i = n THEN H ELSE Border(H, n, i) - 1]
           holdout == [kind |-> "holdout", first |-> H + 1, last |-> end]
           research == [i \in 1..m |-> window(i)]
           tail == IF days > 0 THEN <<holdout>> ELSE <<>>
<1>1. days \in 0..end
  BY HoldoutIsAPart
<1>2. H >= 0 => H >= n
  BY <1>1 DEF Raises
<1>3. Windows(0, end, n, percent) = research \o tail
  <2>1. end - days = H + 1 /\ H \in Int
    BY <1>1
  <2>2. CASE H >= 0
    <3>1. CalendarWindows(0, H, n) = research
      BY <2>1, <2>2 DEF CalendarWindows, Border
    <3>2. QED
      BY <2>1, <2>2, <3>1 DEF Windows
  <2>3. CASE ~(H >= 0)
    <3>1. research = <<>>
      BY <2>1, <2>3
    <3>2. QED
      BY <2>1, <2>3, <3>1 DEF Windows
  <2>4. QED
    BY <2>2, <2>3
<1>4. /\ m \in Nat
      /\ DOMAIN (research \o tail) = 1..(IF days > 0 THEN m + 1 ELSE m)
      /\ \A i \in 1..m : (research \o tail)[i] = window(i)
      /\ days > 0 => (research \o tail)[m + 1] = holdout
  <2> DEFINE T == {window(i) : i \in 1..m} \cup {holdout}
  <2>1. m \in Nat
    BY <1>1
  <2> HIDE DEF window, holdout, m
  <2>2. research \in Seq(T) /\ Len(research) = m
    BY <2>1
  <2>3. tail \in Seq(T) /\ Len(tail) = (IF days > 0 THEN 1 ELSE 0)
    <3>1. holdout \in T
      OBVIOUS
    <3> HIDE DEF T, days
    <3>2. <<holdout>> \in Seq(T) /\ Len(<<holdout>>) = 1
      BY <3>1
    <3>3. <<>> \in Seq(T) /\ Len(<<>>) = 0
      BY EmptySeq
    <3>4. QED
      BY <3>2, <3>3
  <2>4. /\ research \o tail \in Seq(T)
        /\ Len(research \o tail) = Len(research) + Len(tail)
        /\ \A i \in 1..Len(research) + Len(tail) :
             (research \o tail)[i] = IF i <= Len(research) THEN research[i]
                                     ELSE tail[i - Len(research)]
    <3> HIDE DEF research, tail, T
    <3>1. QED
      BY <2>2, <2>3, ConcatProperties
  <2>5. DOMAIN (research \o tail) = 1..(Len(research) + Len(tail))
    <3> HIDE DEF research, tail, T
    <3>1. QED
      BY <2>4, LenProperties
  <2>6. \A i \in 1..m : (research \o tail)[i] = window(i)
    <3>1. \A i \in 1..m : research[i] = window(i)
      OBVIOUS
    <3> HIDE DEF research, tail, T
    <3>2. QED
      BY <2>1, <2>2, <2>3, <2>4, <3>1
  <2>7. days > 0 => (research \o tail)[m + 1] = holdout
    <3>1. days > 0 => tail[1] = holdout
      OBVIOUS
    <3> HIDE DEF research, tail, T
    <3>2. days > 0 => (research \o tail)[m + 1] = tail[1]
      BY <2>1, <2>2, <2>3, <2>4
    <3>3. QED
      BY <3>1, <3>2
  <2>8. (IF days > 0 THEN m + 1 ELSE m) = Len(research) + Len(tail)
    <3> HIDE DEF research, tail
    <3>1. QED
      BY <2>1, <2>2, <2>3
  <2>9. QED
    BY <2>1, <2>5, <2>6, <2>7, <2>8
<1>5. QED
  BY <1>1, <1>2, <1>3, <1>4

\* Every day up to H is in the part that begins last before it.
LEMMA PartsCover ==
  ASSUME NEW n \in Nat \ {0}, NEW H \in Nat, H >= n, NEW d \in 0..H
  PROVE  \E i \in 1..n : /\ Border(H, n, i - 1) <= d
                         /\ d <= IF i = n THEN H ELSE Border(H, n, i) - 1
<1> DEFINE begun == {i \in 0..(n - 1) : Border(H, n, i) <= d}
<1>1. 0 \in begun
  <2>1. Border(H, n, 0) = 0
    BY BordersAscend
  <2>2. QED
    BY <2>1
<1>2. IsFiniteSet(begun) /\ \A i \in begun : i \in Int
  <2>1. 0 \in Int /\ n - 1 \in Int
    OBVIOUS
  <2>2. IsFiniteSet(0..(n - 1))
    BY <2>1, FS_Interval
  <2>3. begun \in SUBSET (0..(n - 1))
    OBVIOUS
  <2>4. QED
    BY <2>2, <2>3, FS_Subset
<1>3. PICK k \in begun : \A i \in begun : k >= i
  <2> HIDE DEF begun
  <2>1. QED
    BY <1>1, <1>2, FiniteHasLargest
<1>4. k \in 0..(n - 1) /\ Border(H, n, k) <= d /\ (k + 1) - 1 = k
  OBVIOUS
<1>5. CASE k + 1 = n
  BY <1>4, <1>5
<1>6. CASE k + 1 # n
  <2>1. k + 1 \in 0..(n - 1) /\ k + 1 \in 1..n
    BY <1>4, <1>6
  <2>2. k + 1 \notin begun
    BY <1>3, <1>4
  <2>3. Border(H, n, k + 1) \in Nat
    <3>1. k \in Nat /\ k + 1 \in Nat /\ k < k + 1
      BY <1>4
    <3>2. QED
      BY <3>1, BordersAscend
  <2>4. d <= Border(H, n, k + 1) - 1
    BY <2>1, <2>2, <2>3
  <2>5. QED
    BY <1>4, <1>6, <2>1, <2>4
<1>7. QED
  BY <1>5, <1>6

\* At most one element, when no two differ.
LEMMA AtMostOne ==
  ASSUME NEW S, \A x, y \in S : x = y
  PROVE  Cardinality(S) <= 1
<1>1. CASE S = {}
  BY <1>1, FS_EmptySet
<1>2. CASE S # {}
  <2>1. PICK x \in S : S = {x}
    BY <1>2
  <2>2. QED
    BY <2>1, FS_Singleton
<1>3. QED
  BY <1>1, <1>2

LEMMA WindowsAnswered ==
  ASSUME RulesInv, Answered("windows")
  PROVE  /\ request.end \in Nat /\ request.n \in Nat \ {0} /\ request.percent \in 0..100
         /\ ~Raises(0, request.end, request.n, request.percent)
         /\ answer.of = Windows(0, request.end, request.n, request.percent)
<1>1. /\ WindowsAsked(request)
      /\ ~Raises(0, request.end, request.n, request.percent)
      /\ answer.of = Windows(0, request.end, request.n, request.percent)
  BY DEF RulesInv, Answered, Pending, GateAsked, RankAsked, WeighAsked, WindowsAsked, VerdictAsked
<1>2. /\ request.end \in 0..MaxDays /\ request.n \in 1..MaxWindows /\ request.percent \in Percents
      /\ MaxDays \in Nat /\ MaxWindows \in Nat /\ Percents \subseteq 0..100
  BY <1>1, RulesConstants DEF WindowsAsked
<1>3. request.end \in Nat /\ request.n \in Nat \ {0} /\ request.percent \in 0..100
  <2>1. \A e \in 0..MaxDays : e \in Nat
    BY <1>2
  <2>2. \A k \in 1..MaxWindows : k \in Nat \ {0}
    BY <1>2
  <2>3. QED
    BY <1>2, <2>1, <2>2, Zenon
<1>4. QED
  BY <1>1, <1>3

\* Research never sees the holdout: for a period of any length, any number of
\* windows that it is long enough for, and any share held out.
THEOREM ResearchSeesNoHoldout == Spec => []HoldoutIsUntouched
<1>1. ASSUME RulesInv, Answered("windows") PROVE HoldoutIsUntouched
  <2> DEFINE end == request.end
             n == request.n
             days == HoldoutDays(0, end, request.percent)
             H == end - days - 1
             m == IF H >= 0 THEN n ELSE 0
             windows == answer.of
             In(d) == {i \in DOMAIN windows : windows[i].first <= d /\ d <= windows[i].last}
  <2>1. end \in Nat /\ n \in Nat \ {0}
    BY <1>1, WindowsAnswered
  <2>0. /\ request.percent \in 0..100 /\ ~Raises(0, end, n, request.percent)
        /\ windows = Windows(0, end, n, request.percent)
    BY <1>1, WindowsAnswered
  <2>2. /\ days \in 0..end /\ (H >= 0 => H >= n)
        /\ DOMAIN windows = 1..(IF days > 0 THEN m + 1 ELSE m)
        /\ \A i \in 1..m :
             windows[i] = [kind |-> "research", first |-> Border(H, n, i - 1),
                           last |-> IF i = n THEN H ELSE Border(H, n, i) - 1]
        /\ days > 0 => windows[m + 1] = [kind |-> "holdout", first |-> H + 1, last |-> end]
    <3> HIDE DEF end, n, windows
    <3>1. LET W == Windows(0, end, n, request.percent)
          IN  /\ days \in 0..end /\ (H >= 0 => H >= n)
              /\ DOMAIN W = 1..(IF days > 0 THEN m + 1 ELSE m)
              /\ \A i \in 1..m :
                   W[i] = [kind |-> "research", first |-> Border(H, n, i - 1),
                           last |-> IF i = n THEN H ELSE Border(H, n, i) - 1]
              /\ days > 0 => W[m + 1] = [kind |-> "holdout", first |-> H + 1, last |-> end]
      BY <2>1, <2>0, WindowsAre
    <3>2. QED
      BY <2>0, <3>1
  <2>3. H \in Int /\ H + 1 \in 0..end /\ m \in Nat /\ (days > 0 => H < end) /\ (m > 0 => H \in Nat /\ H >= n /\ m = n)
    BY <2>1, <2>2
  <2> HIDE DEF windows, days, H, m, end, n
  <2>4. \A i \in 1..m :
          /\ windows[i].kind = "research"
          /\ windows[i].first = Border(H, n, i - 1)
          /\ windows[i].last = IF i = n THEN H ELSE Border(H, n, i) - 1
    <3>1. TAKE i \in 1..m
    <3>2. windows[i] = [kind |-> "research", first |-> Border(H, n, i - 1),
                        last |-> IF i = n THEN H ELSE Border(H, n, i) - 1]
      BY <2>2
    <3>3. QED
      BY <3>2
  <2>5. days > 0 => /\ windows[m + 1].kind = "holdout"
                    /\ windows[m + 1].first = H + 1 /\ windows[m + 1].last = end
    BY <2>2
  <2>6. ASSUME NEW i \in 1..m
        PROVE  /\ windows[i].first \in Nat /\ windows[i].last \in Nat
               /\ windows[i].first <= windows[i].last /\ windows[i].last <= H
    <3>1. H \in Nat /\ H >= n /\ m = n /\ i - 1 \in Nat /\ i \in Nat /\ i - 1 < i /\ i \in 1..n
      BY <2>3
    <3>2. /\ Border(H, n, i - 1) \in Nat /\ Border(H, n, i) \in Nat
          /\ Border(H, n, i - 1) + 1 <= Border(H, n, i) /\ Border(H, n, n) = H
      BY <2>1, <3>1, BordersAscend
    <3>3. i # n => Border(H, n, i) + 1 <= Border(H, n, n)
      BY <2>1, <3>1, BordersAscend
    <3>4. QED
      BY <2>4, <3>1, <3>2, <3>3
  <2>7. ASSUME NEW i \in 1..m, NEW j \in 1..m, i < j
        PROVE  windows[i].last < windows[j].first
    <3>1. H \in Nat /\ H >= n /\ m = n /\ i \in Nat /\ j \in Nat /\ j - 1 \in Nat /\ i \in 1..n /\ j \in 1..n
          /\ i # n
      BY <2>1, <2>3, <2>7
    <3>2. Border(H, n, i) \in Nat /\ Border(H, n, j - 1) \in Nat
      <4>1. i < i + 1 /\ j - 1 < j /\ i + 1 \in Nat
        BY <3>1
      <4>2. QED
        BY <2>1, <3>1, <4>1, BordersAscend
    <3>3. CASE i = j - 1
      BY <2>4, <3>1, <3>2, <3>3
    <3>4. CASE i # j - 1
      <4>1. i < j - 1
        BY <2>7, <3>1, <3>4
      <4>2. Border(H, n, i) + 1 <= Border(H, n, j - 1)
        BY <2>1, <3>1, <4>1, BordersAscend
      <4>3. QED
        BY <2>4, <3>1, <3>2, <4>2
    <3>5. QED
      BY <3>3, <3>4
  <2>8. ASSUME NEW i \in DOMAIN windows, NEW j \in DOMAIN windows, i < j
        PROVE  windows[i].last < windows[j].first
    <3>1. CASE i \in 1..m /\ j \in 1..m
      BY <2>7, <2>8, <3>1
    <3>2. CASE ~(i \in 1..m /\ j \in 1..m)
      <4>1. days > 0 /\ j = m + 1 /\ i \in 1..m
        BY <2>2, <2>3, <2>8, <3>2
      <4>2. QED
        BY <2>3, <2>5, <2>6, <4>1
    <3>3. QED
      BY <3>1, <3>2
  <2>9. \A i \in DOMAIN windows : /\ i \in Int
                                  /\ windows[i].first \in Nat /\ windows[i].last \in Nat
                                  /\ windows[i].first <= windows[i].last
    <3>1. ASSUME NEW i \in DOMAIN windows, i \notin 1..m
          PROVE  days > 0 /\ i = m + 1
      BY <2>2, <2>3, <3>1
    <3>2. QED
      BY <2>1, <2>2, <2>3, <2>5, <2>6, <3>1
  <2>10. \A d \in 0..end : Cardinality(In(d)) <= 1
    <3>1. SUFFICES ASSUME NEW d \in 0..end, NEW i \in In(d), NEW j \in In(d) PROVE i = j
      <4> HIDE DEF In
      <4>1. QED
        BY AtMostOne
    <3>2. d \in Int /\ i \in Int /\ j \in Int
      BY <2>1, <2>9
    <3>3. ~(i < j) /\ ~(j < i)
      BY <2>8, <2>9, <3>2
    <3>4. QED
      BY <3>2, <3>3
  <2>11. ASSUME NEW i \in Kind(windows, "research"), NEW j \in Kind(windows, "holdout")
         PROVE  windows[i].last < windows[j].first
    <3>1. i \in DOMAIN windows /\ j \in DOMAIN windows /\ i \in Int /\ j \in Int
          /\ windows[i].kind = "research" /\ windows[j].kind = "holdout"
      BY <2>9 DEF Kind
    <3>2. j = m + 1
      BY <2>2, <2>3, <2>4, <3>1
    <3>3. i < j
      BY <2>2, <2>3, <3>1, <3>2
    <3>4. QED
      BY <2>8, <3>1, <3>3
  <2>12. ASSUME Kind(windows, "holdout") # {}, NEW d \in 0..end PROVE In(d) # {}
    <3>1. PICK j \in DOMAIN windows : windows[j].kind = "holdout"
      BY <2>12 DEF Kind
    <3>2. j = m + 1 /\ days > 0
      BY <2>2, <2>3, <2>4, <3>1
    <3>3. CASE d > H
      <4>1. m + 1 \in DOMAIN windows /\ windows[m + 1].first <= d /\ d <= windows[m + 1].last
        BY <2>1, <2>3, <2>5, <3>1, <3>2, <3>3
      <4>2. QED
        BY <4>1
    <3>4. CASE ~(d > H)
      <4>1. H \in Nat /\ H >= n /\ m = n /\ d \in 0..H
        BY <2>1, <2>2, <2>3, <3>4 DEF m
      <4>2. PICK i \in 1..n : /\ Border(H, n, i - 1) <= d
                              /\ d <= IF i = n THEN H ELSE Border(H, n, i) - 1
        BY <2>1, <4>1, PartsCover
      <4>3. i \in 1..m /\ i \in DOMAIN windows
        BY <2>2, <2>3, <4>1
      <4>4. windows[i].first <= d /\ d <= windows[i].last
        BY <2>4, <4>2, <4>3
      <4>5. QED
        BY <4>3, <4>4
    <3>5. QED
      BY <2>1, <2>3, <3>3, <3>4
  <2>13. QED
    BY <2>9, <2>10, <2>11, <2>12 DEF HoldoutIsUntouched, windows, end
<1>2. RulesInv => HoldoutIsUntouched
  BY <1>1 DEF HoldoutIsUntouched
<1>3. QED
  BY <1>2, RulesInvInit, RulesInvNext, PTL DEF Spec

-----------------------------------------------------------------------------
(* The rank allocator.                                                     *)

\* An exchange of names counts a set of names like the set it comes from.
LEMMA RenamedCount ==
  ASSUME NEW f \in Renamings, NEW A \in SUBSET Names
  PROVE  Cardinality({s \in Names : f[s] \in A}) = Cardinality(A)
<1> DEFINE B == {s \in Names : f[s] \in A}
           g == [s \in B |-> f[s]]
<1>1. f \in [Names -> Names] /\ \A s, t \in Names : f[s] = f[t] => s = t
  BY DEF Renamings
<1>2. f \in Injection(Names, Names)
  BY <1>1 DEF Injection, IsInjective
<1>3. f \in Surjection(Names, Names)
  BY <1>2, RulesConstants, FS_Injection
<1>4. \A a \in A : \E s \in Names : f[s] = a
  BY <1>3 DEF Surjection
<1>5. g \in Bijection(B, A)
  <2>1. g \in [B -> A]
    OBVIOUS
  <2>2. \A s, t \in B : g[s] = g[t] => s = t
    BY <1>1
  <2>3. \A a \in A : \E s \in B : g[s] = a
    BY <1>4
  <2>4. DOMAIN g = B
    OBVIOUS
  <2> HIDE DEF g, B
  <2>5. QED
    BY <2>1, <2>2, <2>3, <2>4 DEF Bijection, Injection, Surjection, IsInjective
<1>6. IsFiniteSet(B)
  <2>1. B \in SUBSET Names
    OBVIOUS
  <2>2. QED
    BY <2>1, RulesConstants, FS_Subset
<1>7. QED
  <2> HIDE DEF B, g
  <2>1. ExistsBijection(B, A)
    BY <1>5 DEF ExistsBijection
  <2>2. Cardinality(A) = Cardinality(B)
    BY <1>6, <2>1, FS_Bijection
  <2>3. QED
    BY <2>2 DEF B

\* Who is ahead of a name, and who is not behind it, go by the opinions only.
Below(scores, s) == {t \in Voted(scores) : scores[t].value < scores[s].value}
UpTo(scores, s) == {t \in Voted(scores) : scores[t].value <= scores[s].value}

LEMMA RenamedVotes ==
  ASSUME NEW f \in Renamings, NEW scores, DOMAIN scores = Names
  PROVE  /\ DOMAIN Renamed(scores, f) = Names
         /\ Voted(Renamed(scores, f)) = {s \in Names : f[s] \in Voted(scores)}
         /\ Cardinality(Voted(Renamed(scores, f))) = Cardinality(Voted(scores))
         /\ \A s \in Names :
              /\ f[s] \in Names
              /\ Cardinality(Below(Renamed(scores, f), s)) = Cardinality(Below(scores, f[s]))
              /\ Cardinality(UpTo(Renamed(scores, f), s)) = Cardinality(UpTo(scores, f[s]))
<1> DEFINE R == Renamed(scores, f)
<1>1. \A s \in Names : f[s] \in Names
  BY DEF Renamings
<1>2. DOMAIN R = Names /\ \A s \in Names : R[s] = scores[f[s]]
  BY DEF Renamed
<1> HIDE DEF R
<1>3. Voted(R) = {s \in Names : f[s] \in Voted(scores)} /\ Voted(scores) \in SUBSET Names
  BY <1>1, <1>2 DEF Voted
<1>4. ASSUME NEW s \in Names
      PROVE  /\ Cardinality(Below(R, s)) = Cardinality(Below(scores, f[s]))
             /\ Cardinality(UpTo(R, s)) = Cardinality(UpTo(scores, f[s]))
  <2>1. Below(R, s) = {t \in Names : f[t] \in Below(scores, f[s])}
    BY <1>1, <1>2, <1>3 DEF Below
  <2>2. UpTo(R, s) = {t \in Names : f[t] \in UpTo(scores, f[s])}
    BY <1>1, <1>2, <1>3 DEF UpTo
  <2>3. Below(scores, f[s]) \in SUBSET Names /\ UpTo(scores, f[s]) \in SUBSET Names
    BY <1>3 DEF Below, UpTo
  <2>4. QED
    BY <2>1, <2>2, <2>3, RenamedCount
<1>5. QED
  BY <1>1, <1>2, <1>3, <1>4, RenamedCount DEF R

LEMMA RenamedRanks ==
  ASSUME NEW f \in Renamings, NEW scores, DOMAIN scores = Names
  PROVE  /\ DOMAIN Ranks(Renamed(scores, f)) = {s \in Names : f[s] \in DOMAIN Ranks(scores)}
         /\ \A s \in DOMAIN Ranks(Renamed(scores, f)) :
              Ranks(Renamed(scores, f))[s] = Ranks(scores)[f[s]]
<1> DEFINE R == Renamed(scores, f)
           RankIn(sc, s) ==
             IF Cardinality(Voted(sc)) - 1 = 0 THEN Unit \div 2
             ELSE (Unit * (Cardinality(Below(sc, s)) + (Cardinality(UpTo(sc, s)) - 1)))
                    \div (2 * (Cardinality(Voted(sc)) - 1))
<1>1. \A sc : Ranks(sc) = [s \in Voted(sc) |-> RankIn(sc, s)]
  BY DEF Ranks, Below, UpTo
<1>2. \A sc : DOMAIN Ranks(sc) = Voted(sc) /\ \A s \in Voted(sc) : Ranks(sc)[s] = RankIn(sc, s)
  BY <1>1
<1>3. \A s \in Names : RankIn(R, s) = RankIn(scores, f[s])
  BY RenamedVotes
<1>4. Voted(R) = {s \in Names : f[s] \in Voted(scores)}
  BY RenamedVotes
<1> HIDE DEF RankIn, R
<1>5. QED
  BY <1>2, <1>3, <1>4 DEF R

\* The sum of a name's ranks, as a sum over the signals that have one.
Votes(by, s) == [name \in DOMAIN by |-> Ranks(by[name])[s]]
Total(by, s, V) == MapThenSumSet(LAMBDA name : Ranks(by[name])[s], V)

LEMMA TotalIsSum ==
  ASSUME NEW by, NEW s, NEW V \in SUBSET (DOMAIN by), IsFiniteSet(V)
  PROVE  Total(by, s, V) = SumOf(Votes(by, s), V)
<1> DEFINE Totals(f) ==
             f = [T \in SUBSET V |-> IF T = {} THEN 0
                                     ELSE Ranks(by[First(T)])[s] + f[T \ {First(T)}]]
           t == CHOOSE f : Totals(f)
           w == Votes(by, s)
<1>1. Total(by, s, V) = t[V]
  BY DEF Total, MapThenSumSet, MapThenFoldSet, First
<1>2. ASSUME NEW f PROVE Totals(f) <=> Sums(f, w, SUBSET V)
  <2>1. \A T \in SUBSET V : T # {} => w[First(T)] = Ranks(by[First(T)])[s]
    BY DEF Votes, First
  <2> HIDE DEF w
  <2>2. [T \in SUBSET V |-> IF T = {} THEN 0
                            ELSE Ranks(by[First(T)])[s] + f[T \ {First(T)}]]
          = [T \in SUBSET V |-> IF T = {} THEN 0 ELSE w[First(T)] + f[T \ {First(T)}]]
    BY <2>1
  <2>3. QED
    BY <2>2 DEF Sums
<1>3. PICK g : Sums(g, w, SUBSET V) /\ SumOf(w, V) = g[V]
  BY SumsSum
<1> HIDE DEF Totals, w
<1>4. Totals(t)
  BY <1>2, <1>3, Zenon
<1>5. t[V] = g[V]
  BY <1>2, <1>3, <1>4, SumsAgree
<1>6. QED
  BY <1>1, <1>3, <1>5 DEF w

Voters(by, s) == {name \in DOMAIN by : s \in DOMAIN Ranks(by[name])}

LEMMA CombineIs ==
  ASSUME NEW by
  PROVE  Combine(by) = [s \in UNION {DOMAIN by[name] : name \in DOMAIN by} |->
           IF Voters(by, s) = {} THEN NoOpinion
           ELSE Opinion(Total(by, s, Voters(by, s)) \div Cardinality(Voters(by, s)) - Unit \div 2)]
  BY Zenon DEF Combine, Voters, Total

LEMMA RankAnswered ==
  ASSUME RulesInv, Answered("rank")
  PROVE  /\ DOMAIN request.bySignal = {"a", "b"}
         /\ \A name \in DOMAIN request.bySignal : DOMAIN request.bySignal[name] = Names
         /\ answer.of = CombineScores(request.bySignal)
<1>1. RankAsked(request) /\ answer.of = CombineScores(request.bySignal)
  BY DEF RulesInv, Answered, Pending, GateAsked, RankAsked, WeighAsked, WindowsAsked, VerdictAsked
<1>2. PICK one \in Scores(Names), two \in Scores(Names) :
             request.bySignal = [a |-> one, b |-> two]
  BY <1>1 DEF RankAsked
<1>3. DOMAIN one = Names /\ DOMAIN two = Names
  BY DEF Scores
<1> DEFINE by == request.bySignal
<1>4. DOMAIN by = {"a", "b"} /\ by["a"] = one /\ by["b"] = two
  BY <1>2
<1> HIDE DEF by
<1>5. \A name \in DOMAIN by : DOMAIN by[name] = Names
  BY <1>3, <1>4
<1>6. QED
  BY <1>1, <1>4, <1>5 DEF by

\* With the names exchanged the combined scores are exchanged alike.
LEMMA RenamedCombine ==
  ASSUME NEW f \in Renamings, NEW by, IsFiniteSet(DOMAIN by), DOMAIN by # {},
         \A name \in DOMAIN by : DOMAIN by[name] = Names
  PROVE  Combine([name \in DOMAIN by |-> Renamed(by[name], f)]) = Renamed(Combine(by), f)
<1> DEFINE new == [name \in DOMAIN by |-> Renamed(by[name], f)]
<1>1. /\ DOMAIN new = DOMAIN by
      /\ \A name \in DOMAIN by : new[name] = Renamed(by[name], f)
  OBVIOUS
<1> HIDE DEF new
<1>2. \A name \in DOMAIN by : DOMAIN new[name] = Names
  BY <1>1, RenamedVotes
<1>3. \A s \in Names : f[s] \in Names
  BY DEF Renamings
<1>4. ASSUME NEW s \in Names
      PROVE  /\ Voters(new, s) = Voters(by, f[s])
             /\ \A name \in Voters(new, s) : Ranks(new[name])[s] = Ranks(by[name])[f[s]]
  <2>1. \A name \in DOMAIN by :
          /\ s \in DOMAIN Ranks(new[name]) <=> f[s] \in DOMAIN Ranks(by[name])
          /\ s \in DOMAIN Ranks(new[name]) => Ranks(new[name])[s] = Ranks(by[name])[f[s]]
    <3>1. TAKE name \in DOMAIN by
    <3>2. new[name] = Renamed(by[name], f) /\ DOMAIN by[name] = Names
      BY <1>1
    <3> DEFINE one == by[name]
    <3> HIDE DEF one
    <3>3. /\ DOMAIN Ranks(Renamed(one, f)) = {t \in Names : f[t] \in DOMAIN Ranks(one)}
          /\ \A t \in DOMAIN Ranks(Renamed(one, f)) : Ranks(Renamed(one, f))[t] = Ranks(one)[f[t]]
      BY <3>2, RenamedRanks DEF one
    <3>4. QED
      BY <3>2, <3>3 DEF one
  <2>2. QED
    BY <1>1, <2>1 DEF Voters
<1>5. ASSUME NEW s \in Names
      PROVE  Total(new, s, Voters(new, s)) = Total(by, f[s], Voters(by, f[s]))
  <2> DEFINE V == Voters(by, f[s])
  <2>1. V \in SUBSET DOMAIN by /\ V \in SUBSET DOMAIN new /\ IsFiniteSet(V)
    BY <1>1, FS_Subset DEF Voters
  <2>2. V = Voters(new, s)
    BY <1>4
  <2> HIDE DEF V
  <2>3. \A name \in V : Votes(new, s)[name] = Votes(by, f[s])[name]
    BY <1>1, <1>4, <2>1, <2>2 DEF Votes
  <2>4. SumOf(Votes(new, s), V) = SumOf(Votes(by, f[s]), V)
    BY <2>1, <2>3, SameSums
  <2>5. Total(new, s, V) = Total(by, f[s], V)
    BY <2>1, <2>4, TotalIsSum
  <2>6. QED
    BY <2>2, <2>5 DEF V
<1>6. /\ UNION {DOMAIN by[name] : name \in DOMAIN by} = Names
      /\ UNION {DOMAIN new[name] : name \in DOMAIN new} = Names
  BY <1>1, <1>2
<1>7. /\ Combine(by) = [s \in Names |->
           IF Voters(by, s) = {} THEN NoOpinion
           ELSE Opinion(Total(by, s, Voters(by, s)) \div Cardinality(Voters(by, s)) - Unit \div 2)]
      /\ Combine(new) = [s \in Names |->
           IF Voters(new, s) = {} THEN NoOpinion
           ELSE Opinion(Total(new, s, Voters(new, s)) \div Cardinality(Voters(new, s)) - Unit \div 2)]
  BY <1>6, CombineIs, Zenon
<1>8. \A s \in Names : Combine(new)[s] = Combine(by)[f[s]]
  BY <1>3, <1>4, <1>5, <1>7
<1>9. Combine(new) = [s \in Names |-> Combine(new)[s]]
  BY <1>7
<1>10. Renamed(Combine(by), f) = [s \in Names |-> Combine(by)[f[s]]]
  BY DEF Renamed
<1>11. QED
  BY <1>8, <1>9, <1>10 DEF new

\* Only the opinions count, never what a stock is called: for any set of names
\* and any two signals over them.
THEOREM RanksKnowNoNames == Spec => []NamesDoNotMatter
<1>1. ASSUME RulesInv, Answered("rank"), NEW f \in Renamings
      PROVE  CombineScores([name \in DOMAIN request.bySignal |-> Renamed(request.bySignal[name], f)])
               = Renamed(answer.of, f)
  <2> DEFINE by == request.bySignal
             new == [name \in DOMAIN by |-> Renamed(by[name], f)]
  <2>1. /\ DOMAIN by = {"a", "b"} /\ answer.of = CombineScores(by)
        /\ \A name \in DOMAIN by : DOMAIN by[name] = Names
    BY <1>1, RankAnswered
  <2>2. IsFiniteSet({"a", "b"}) /\ Cardinality({"a", "b"}) # 1
    <3>1. IsFiniteSet({"b"}) /\ Cardinality({"b"}) = 1
      BY FS_Singleton
    <3>2. {"a", "b"} = {"b"} \cup {"a"} /\ "a" \notin {"b"}
      OBVIOUS
    <3>3. IsFiniteSet({"b"} \cup {"a"}) /\ Cardinality({"b"} \cup {"a"}) = 1 + 1
      BY <3>1, <3>2, FS_AddElement
    <3>4. QED
      BY <3>2, <3>3
  <2>3. DOMAIN new = {"a", "b"}
    BY <2>1
  <2> HIDE DEF by
  <2>4. Combine(new) = Renamed(Combine(by), f)
    BY <2>1, <2>2, RenamedCombine
  <2> HIDE DEF new
  <2>5. CombineScores(by) = Combine(by) /\ CombineScores(new) = Combine(new)
    BY <2>1, <2>2, <2>3 DEF CombineScores
  <2>6. QED
    BY <2>1, <2>4, <2>5 DEF by, new
<1>2. RulesInv => NamesDoNotMatter
  BY <1>1 DEF NamesDoNotMatter
<1>3. QED
  BY <1>2, RulesInvInit, RulesInvNext, PTL DEF Spec

-----------------------------------------------------------------------------
(* The weighting of the chosen names.                                      *)

LEMMA WeighAnswered ==
  ASSUME RulesInv, Answered("weigh")
  PROVE  /\ DOMAIN request.scores = Names
         /\ \A s \in Names : request.scores[s].value \in Int
         /\ DOMAIN request.vols \subseteq Names
         /\ \A s \in DOMAIN request.vols : request.vols[s] \in Vols
         /\ answer.equal = EqualWeightTopN(request.scores, TopN)
         /\ answer.inverse = InverseVolTopN(request.scores, TopN, request.vols)
<1>1. /\ WeighAsked(request)
      /\ answer.equal = EqualWeightTopN(request.scores, TopN)
      /\ answer.inverse = InverseVolTopN(request.scores, TopN, request.vols)
  BY DEF RulesInv, Answered, Pending, GateAsked, RankAsked, WeighAsked, WindowsAsked, VerdictAsked
<1>2. PICK known \in SUBSET Names : request.vols \in [known -> Vols]
  BY <1>1 DEF WeighAsked
<1>3. request.scores \in [Names -> [value : Values, confident : {TRUE}] \cup {NoOpinion}]
  BY <1>1 DEF WeighAsked, Scores
<1>4. \A o \in [value : Values, confident : {TRUE}] \cup {NoOpinion} : o.value \in Int
  <2>1. TAKE o \in [value : Values, confident : {TRUE}] \cup {NoOpinion}
  <2>2. CASE o = NoOpinion
    BY <2>2 DEF NoOpinion
  <2>3. CASE o \in [value : Values, confident : {TRUE}]
    <3>1. o.value \in Values
      BY <2>3
    <3>2. QED
      BY <3>1, RulesConstants
  <2>4. QED
    BY <2>2, <2>3
<1>5. QED
  BY <1>1, <1>2, <1>3, <1>4

\* No more names are chosen than asked for.
LEMMA FewAreChosen ==
  ASSUME NEW scores, DOMAIN scores = Names, \A s \in Names : scores[s].value \in Int
  PROVE  /\ Chosen(scores, TopN) \in SUBSET Names /\ IsFiniteSet(Chosen(scores, TopN))
         /\ Cardinality(Chosen(scores, TopN)) \in Nat
         /\ Cardinality(Chosen(scores, TopN)) <= TopN
<1> DEFINE D == Eligible(scores)
           Leads(t, s) == \/ scores[t].value > scores[s].value
                          \/ scores[t].value = scores[s].value /\ t < s
           ahead == [s \in D |-> {t \in D : Leads(t, s)}]
           B == {s \in D : Cardinality(ahead[s]) < TopN}
<1>1. D \in SUBSET Names /\ IsFiniteSet(D)
  <2>1. D \in SUBSET Names
    BY DEF Eligible, Voted
  <2>2. QED
    BY <2>1, RulesConstants, FS_Subset
<1>2. \A s \in D : s \in Nat /\ scores[s].value \in Int
  BY <1>1, RulesConstants
<1>3. Chosen(scores, TopN) = B
  BY DEF Chosen
<1> HIDE DEF D
<1>4. Ranking(ahead, D)
  <2>1. \A s \in D : ~Leads(s, s)
    BY <1>2
  <2>2. \A s, t \in D : s = t \/ Leads(s, t) \/ Leads(t, s)
    BY <1>2
  <2>3. \A r, s, t \in D : Leads(r, s) /\ Leads(s, t) => Leads(r, t)
    BY <1>2
  <2> HIDE DEF Leads
  <2>4. ahead \in [D -> SUBSET D]
    OBVIOUS
  <2>5. /\ \A s \in D : s \notin ahead[s]
        /\ \A s, t \in D : s = t \/ s \in ahead[t] \/ t \in ahead[s]
        /\ \A s, t \in D : s \in ahead[t] => ahead[s] \subseteq ahead[t]
    BY <2>1, <2>2, <2>3
  <2> HIDE DEF ahead
  <2>6. QED
    BY <2>4, <2>5 DEF Ranking
<1> HIDE DEF ahead
<1>5. IsFiniteSet(B) /\ Cardinality(B) <= TopN
  BY <1>1, <1>4, FewAreFirst, StrategyConstants
<1>6. B \in SUBSET Names
  BY <1>1
<1>7. QED
  BY <1>3, <1>5, <1>6, FS_CardinalityType

\* Twice the median lies between twice the least and twice the greatest.
LEMMA MedianIsBetween ==
  ASSUME NEW vols, NEW symbols, IsFiniteSet(symbols), symbols # {},
         \A s \in symbols : s \in Nat /\ vols[s] \in Nat
  PROVE  \E s, t \in symbols : TwiceMedian(vols, symbols) = vols[s] + vols[t]
<1> DEFINE n == Cardinality(symbols)
           Calmer(t, s) == vols[t] < vols[s] \/ (vols[t] = vols[s] /\ t < s)
           ahead == [s \in symbols |-> {t \in symbols : Calmer(t, s)}]
           at(k) == CHOOSE s \in symbols : Cardinality({t \in symbols : Calmer(t, s)}) = k
<1>1. n \in Nat /\ n > 0
  BY FS_CardinalityType, FS_EmptySet
<1>2. Ranking(ahead, symbols)
  <2>1. \A s \in symbols : ~Calmer(s, s)
    OBVIOUS
  <2>2. \A s, t \in symbols : s = t \/ Calmer(s, t) \/ Calmer(t, s)
    OBVIOUS
  <2>3. \A r, s, t \in symbols : Calmer(r, s) /\ Calmer(s, t) => Calmer(r, t)
    OBVIOUS
  <2> HIDE DEF Calmer
  <2>4. ahead \in [symbols -> SUBSET symbols]
    OBVIOUS
  <2>5. /\ \A s \in symbols : s \notin ahead[s]
        /\ \A s, t \in symbols : s = t \/ s \in ahead[t] \/ t \in ahead[s]
        /\ \A s, t \in symbols : s \in ahead[t] => ahead[s] \subseteq ahead[t]
    BY <2>1, <2>2, <2>3
  <2> HIDE DEF ahead
  <2>6. QED
    BY <2>4, <2>5 DEF Ranking
<1>3. ASSUME NEW k \in Nat, k < n PROVE at(k) \in symbols
  <2> HIDE DEF Calmer
  <2>1. \E s \in symbols : Cardinality(ahead[s]) = k
    <3> HIDE DEF ahead
    <3>1. QED
      BY <1>2, <1>3, EveryRankIsTaken
  <2>2. \E s \in symbols : Cardinality({t \in symbols : Calmer(t, s)}) = k
    BY <2>1
  <2>3. QED
    BY <2>2, Zenon
<1>4. /\ (n - 1) \div 2 \in Nat /\ (n - 1) \div 2 < n
      /\ n \div 2 \in Nat /\ n \div 2 < n
  BY <1>1
<1>5. TwiceMedian(vols, symbols) = vols[at((n - 1) \div 2)] + vols[at(n \div 2)]
  BY Zenon DEF TwiceMedian
<1> HIDE DEF at, n
<1>6. QED
  BY <1>3, <1>4, <1>5

\* The terms of InverseVolTopN: whose volatility is known, what each weight is
\* inverse to, and its share before it is divided by the total.
Known(chosen, vols) == {s \in chosen \cap DOMAIN vols : vols[s] > 0}

Twice(chosen, vols, s) ==
  IF s \in Known(chosen, vols) THEN 2 * vols[s]
  ELSE IF Known(chosen, vols) # {} THEN TwiceMedian(vols, Known(chosen, vols)) ELSE 1

Inverses(chosen, vols) == [s \in chosen |-> Unit \div Twice(chosen, vols, s)]

InverseTotal(chosen, vols) ==
  MapThenSumSet(LAMBDA s : Unit \div Twice(chosen, vols, s), chosen)

LEMMA InverseTotalIsSum ==
  ASSUME NEW chosen, IsFiniteSet(chosen), NEW vols
  PROVE  InverseTotal(chosen, vols) = SumOf(Inverses(chosen, vols), chosen)
<1> DEFINE Totals(f) ==
             f = [T \in SUBSET chosen |->
                    IF T = {} THEN 0
                    ELSE (Unit \div Twice(chosen, vols, First(T))) + f[T \ {First(T)}]]
           t == CHOOSE f : Totals(f)
           w == Inverses(chosen, vols)
<1>1. InverseTotal(chosen, vols) = t[chosen]
  BY DEF InverseTotal, MapThenSumSet, MapThenFoldSet, First
<1>2. ASSUME NEW f PROVE Totals(f) <=> Sums(f, w, SUBSET chosen)
  <2>1. \A T \in SUBSET chosen :
          T # {} => w[First(T)] = Unit \div Twice(chosen, vols, First(T))
    BY DEF Inverses, First
  <2> HIDE DEF w
  <2>2. [T \in SUBSET chosen |->
            IF T = {} THEN 0
            ELSE (Unit \div Twice(chosen, vols, First(T))) + f[T \ {First(T)}]]
          = [T \in SUBSET chosen |-> IF T = {} THEN 0 ELSE w[First(T)] + f[T \ {First(T)}]]
    BY <2>1
  <2>3. QED
    BY <2>2 DEF Sums
<1>3. PICK g : Sums(g, w, SUBSET chosen) /\ SumOf(w, chosen) = g[chosen]
  BY SumsSum
<1> HIDE DEF Totals, w
<1>4. Totals(t)
  BY <1>2, <1>3, Zenon
<1>5. t[chosen] = g[chosen]
  BY <1>2, <1>3, <1>4, SumsAgree
<1>6. QED
  BY <1>1, <1>3, <1>5 DEF w

LEMMA InverseVolIs ==
  ASSUME NEW scores, NEW n, NEW vols, IsFiniteSet(Chosen(scores, n))
  PROVE  LET chosen == Chosen(scores, n)
             inv == Inverses(chosen, vols)
             w == InverseVolTopN(scores, n, vols)
         IN  /\ DOMAIN w = chosen
             /\ \A s \in chosen : w[s] = (100 * inv[s]) \div SumOf(inv, chosen)
<1> DEFINE chosen == Chosen(scores, n)
<1>1. InverseVolTopN(scores, n, vols)
        = [s \in chosen |-> (100 * (Unit \div Twice(chosen, vols, s)))
                              \div InverseTotal(chosen, vols)]
  BY Zenon DEF InverseVolTopN, Twice, Known, InverseTotal
<1>2. InverseTotal(chosen, vols) = SumOf(Inverses(chosen, vols), chosen)
  BY InverseTotalIsSum
<1>3. \A s \in chosen : Inverses(chosen, vols)[s] = Unit \div Twice(chosen, vols, s)
  BY DEF Inverses
<1> HIDE DEF chosen
<1>4. QED
  BY <1>1, <1>2, <1>3 DEF chosen

\* What a weight is inverse to is a positive number not above Unit; of names of
\* unknown volatility it lies between those of two known ones.
LEMMA TwiceIsBetween ==
  ASSUME NEW chosen \in SUBSET Names, IsFiniteSet(chosen), NEW vols,
         DOMAIN vols \subseteq Names, \A s \in DOMAIN vols : vols[s] \in Vols, NEW s \in chosen
  PROVE  /\ Twice(chosen, vols, s) \in 1..Unit
         /\ s \notin Known(chosen, vols) /\ Known(chosen, vols) # {} =>
              \E a, b \in Known(chosen, vols) :
                /\ Twice(chosen, vols, a) <= Twice(chosen, vols, s)
                /\ Twice(chosen, vols, s) <= Twice(chosen, vols, b)
<1> DEFINE K == Known(chosen, vols)
<1>1. K \in SUBSET chosen /\ \A a \in K : a \in DOMAIN vols /\ vols[a] > 0
  BY DEF Known
<1>2. Unit \in Nat \ {0}
  BY StrategyConstants
<1>3. \A a \in K : /\ a \in Nat /\ vols[a] \in Nat \ {0} /\ 2 * vols[a] <= Unit
                   /\ Twice(chosen, vols, a) = 2 * vols[a]
  <2>1. TAKE a \in K
  <2>2. a \in Nat /\ vols[a] \in Vols /\ vols[a] \in Nat /\ vols[a] > 0
    BY <1>1, RulesConstants
  <2>3. 2 * vols[a] <= Unit
    BY <2>2, ScoresAreFine
  <2>4. Twice(chosen, vols, a) = 2 * vols[a]
    BY DEF Twice
  <2>5. QED
    BY <2>2, <2>3, <2>4
<1>4. CASE s \in K
  BY <1>2, <1>3, <1>4
<1>5. CASE s \notin K /\ K # {}
  <2>1. IsFiniteSet(K)
    BY <1>1, FS_Subset
  <2>2. Twice(chosen, vols, s) = TwiceMedian(vols, K)
    BY <1>5 DEF Twice
  <2> HIDE DEF K
  <2>3. PICK a, b \in K : TwiceMedian(vols, K) = vols[a] + vols[b]
    BY <1>3, <1>5, <2>1, MedianIsBetween
  <2>4. CASE vols[a] <= vols[b]
    BY <1>2, <1>3, <2>2, <2>3, <2>4 DEF K
  <2>5. CASE ~(vols[a] <= vols[b])
    BY <1>2, <1>3, <2>2, <2>3, <2>5 DEF K
  <2>6. QED
    BY <2>4, <2>5
<1>6. CASE s \notin K /\ K = {}
  BY <1>2, <1>6 DEF Twice
<1>7. QED
  BY <1>4, <1>5, <1>6

\* Weighting decides size, never which names are held: for any scores, any
\* volatilities, known or not, and any number of names held.
THEOREM SizesOnly == Spec => []WeightingOnlySizes
<1>1. ASSUME RulesInv, Answered("weigh") PROVE WeightingOnlySizes
  <2> DEFINE scores == request.scores
             vols == request.vols
             chosen == Chosen(scores, TopN)
             equal == answer.equal
             w == answer.inverse
             inv == Inverses(chosen, vols)
             known == Known(chosen, vols)
  <2>1. /\ DOMAIN scores = Names /\ \A s \in Names : scores[s].value \in Int
        /\ DOMAIN vols \subseteq Names /\ \A s \in DOMAIN vols : vols[s] \in Vols
        /\ equal = EqualWeightTopN(scores, TopN) /\ w = InverseVolTopN(scores, TopN, vols)
    BY <1>1, WeighAnswered
  <2> HIDE DEF scores, vols, equal, w
  <2>2. /\ chosen \in SUBSET Names /\ IsFiniteSet(chosen)
        /\ Cardinality(chosen) \in Nat /\ Cardinality(chosen) <= TopN
    BY <2>1, FewAreChosen
  <2>3. DOMAIN w = chosen /\ \A s \in chosen : w[s] = (100 * inv[s]) \div SumOf(inv, chosen)
    BY <2>1, <2>2, InverseVolIs
  <2>4. DOMAIN equal = chosen /\ \A s \in chosen : equal[s] = 100 \div Cardinality(chosen)
    BY <2>1 DEF EqualWeightTopN
  <2> HIDE DEF chosen
  <2>5. TopN \in Nat /\ Unit \in Nat \ {0}
    BY StrategyConstants
  <2>6. /\ \A s \in chosen : Twice(chosen, vols, s) \in 1..Unit
        /\ \A s \in chosen \ known : known # {} =>
             \E a, b \in known : /\ Twice(chosen, vols, a) <= Twice(chosen, vols, s)
                                 /\ Twice(chosen, vols, s) <= Twice(chosen, vols, b)
    BY <2>1, <2>2, TwiceIsBetween
  <2>7. \A s \in chosen : inv[s] \in Nat \ {0}
    <3>1. TAKE s \in chosen
    <3> DEFINE t == Twice(chosen, vols, s)
    <3>2. inv[s] = Unit \div t /\ t \in 1..Unit
      BY <2>6 DEF Inverses
    <3> HIDE DEF t
    <3>3. t \div t = 1 /\ t \in Nat \ {0} /\ t <= Unit
      BY <3>2
    <3>4. t \div t <= Unit \div t /\ Unit \div t \in Nat
      BY <2>5, <3>3, QuotientsCompare, Quotient
    <3>5. QED
      BY <3>2, <3>3, <3>4
  <2>8. \A s, t \in chosen : Twice(chosen, vols, s) <= Twice(chosen, vols, t) => w[s] >= w[t]
    <3>1. SUFFICES ASSUME NEW s \in chosen, NEW t \in chosen,
                          Twice(chosen, vols, s) <= Twice(chosen, vols, t)
                   PROVE  w[t] <= w[s]
      <4>1. \A s \in chosen : w[s] \in Int
        <5> HIDE DEF inv
        <5>1. \A s \in chosen : 100 * inv[s] \in Nat
          BY <2>7
        <5>2. \A s \in chosen : SumOf(inv, chosen) \in Nat \ {0}
          BY <2>2, <2>3, <2>7, SharesOfSum
        <5>3. \A s \in chosen : w[s] \in Nat
          BY <2>3, <5>1, <5>2, Quotient
        <5>4. QED
          BY <5>3
      <4>2. QED
        BY <4>1
    <3>2. inv[t] <= inv[s]
      <4> DEFINE d == Twice(chosen, vols, s)
                 e == Twice(chosen, vols, t)
      <4>1. inv[s] = Unit \div d /\ inv[t] = Unit \div e
        BY DEF Inverses
      <4>2. d \in Nat \ {0} /\ e \in Nat \ {0} /\ d <= e
        BY <2>6, <3>1
      <4> HIDE DEF d, e
      <4>3. Unit \in Nat /\ Unit <= Unit
        BY <2>5
      <4>4. Unit \div e <= Unit \div d
        BY <4>2, <4>3, QuotientsCompare
      <4> HIDE DEF inv
      <4>5. QED
        BY <4>1, <4>4
    <3> HIDE DEF inv
    <3>3. SumOf(inv, chosen) \in Nat \ {0}
      BY <2>2, <2>3, <2>7, SharesOfSum
    <3>4. 100 * inv[t] \in Nat /\ 100 * inv[s] \in Nat /\ 100 * inv[t] <= 100 * inv[s]
      BY <2>7, <3>2
    <3>5. (100 * inv[t]) \div SumOf(inv, chosen) <= (100 * inv[s]) \div SumOf(inv, chosen)
      BY <3>3, <3>4, QuotientsCompare
    <3>6. QED
      BY <2>3, <3>5
  <2>9. Gross(w) <= 100 /\ (chosen # {} => Gross(w) > 100 - TopN)
    <3>1. Gross(w) = SumOf(w, chosen)
      BY <2>3, GrossIsSum
    <3>2. CASE chosen = {}
      BY <3>1, <3>2, SumOfNone
    <3>3. CASE chosen # {}
      <4> HIDE DEF inv
      <4>1. /\ SumOf(w, chosen) \in Nat /\ SumOf(w, chosen) <= 100
            /\ SumOf(w, chosen) + Cardinality(chosen) > 100
        BY <2>2, <2>3, <2>7, <3>3, SharesOfSum
      <4>2. QED
        BY <2>2, <2>5, <3>1, <4>1
    <3>4. QED
      BY <3>2, <3>3
  <2>10. Gross(equal) <= 100 /\ (chosen # {} => Gross(equal) > 100 - TopN)
    <3>1. Gross(equal) = SumOf(equal, chosen)
      BY <2>4, GrossIsSum
    <3>2. CASE chosen = {}
      BY <3>1, <3>2, SumOfNone
    <3>3. CASE chosen # {}
      <4> DEFINE n == Cardinality(chosen)
                 c == 100 \div n
      <4>1. n \in Nat \ {0}
        BY <2>2, <3>3, FS_EmptySet
      <4>2. c \in Nat /\ n * c <= 100 /\ 100 < n * c + n
        BY <4>1, Quotient
      <4> HIDE DEF c
      <4>3. SumOf(equal, chosen) = c * n
        BY <2>2, <2>4, <4>2, SumOfEqual DEF c
      <4> HIDE DEF n
      <4>4. c * n = n * c /\ n * c \in Nat
        BY <4>1, <4>2
      <4>5. n <= TopN
        BY <2>2 DEF n
      <4>6. QED
        BY <2>5, <3>1, <4>1, <4>2, <4>3, <4>4, <4>5
    <3>4. QED
      BY <3>2, <3>3
  <2>11. \A s, t \in known : vols[s] <= vols[t] => w[s] >= w[t]
    <3>1. SUFFICES ASSUME NEW s \in known, NEW t \in known, vols[s] <= vols[t]
                   PROVE  w[s] >= w[t]
      OBVIOUS
    <3>2. /\ s \in chosen /\ t \in chosen /\ s \in DOMAIN vols /\ t \in DOMAIN vols
          /\ Twice(chosen, vols, s) = 2 * vols[s] /\ Twice(chosen, vols, t) = 2 * vols[t]
      BY DEF Twice, Known
    <3>3. vols[s] \in Nat /\ vols[t] \in Nat
      BY <2>1, <3>2, RulesConstants
    <3>4. Twice(chosen, vols, s) <= Twice(chosen, vols, t)
      BY <3>1, <3>2, <3>3
    <3>5. QED
      BY <2>8, <3>2, <3>4
  <2>12. \A s \in chosen \ known : known # {} =>
           (\E t \in known : w[s] <= w[t]) /\ (\E t \in known : w[s] >= w[t])
    <3>1. SUFFICES ASSUME NEW s \in chosen \ known, known # {}
                   PROVE  (\E t \in known : w[s] <= w[t]) /\ (\E t \in known : w[s] >= w[t])
      OBVIOUS
    <3>2. PICK a, b \in known : /\ Twice(chosen, vols, a) <= Twice(chosen, vols, s)
                                /\ Twice(chosen, vols, s) <= Twice(chosen, vols, b)
      BY <2>6, <3>1
    <3>3. a \in chosen /\ b \in chosen
      BY DEF Known
    <3>4. w[a] >= w[s] /\ w[s] >= w[b]
      BY <2>8, <3>2, <3>3
    <3>5. w[s] <= w[a]
      <4>1. w[a] \in Int /\ w[s] \in Int
        <5> HIDE DEF inv
        <5>1. \A x \in chosen : w[x] \in Nat
          BY <2>2, <2>3, <2>7, <3>3, SharesOfSum
        <5>2. QED
          BY <3>3, <5>1
      <4>2. QED
        BY <3>4, <4>1
    <3>6. QED
      BY <3>4, <3>5
  <2>13. known = {s \in chosen \cap DOMAIN vols : vols[s] > 0}
    BY DEF Known
  <2> HIDE DEF known, inv
  <2>14. QED
    BY <2>3, <2>4, <2>9, <2>10, <2>11, <2>12, <2>13 DEF WeightingOnlySizes, equal, w, vols
<1>2. RulesInv => WeightingOnlySizes
  BY <1>1 DEF WeightingOnlySizes
<1>3. QED
  BY <1>2, RulesInvInit, RulesInvNext, PTL DEF Spec
=============================================================================
