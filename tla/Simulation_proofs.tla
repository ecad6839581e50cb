---------------------------- MODULE Simulation_proofs ----------------------------
(***************************************************************************)
(* Proofs about Simulation, for every input, every answer of the loan and  *)
(* savings simulations and every monotone payment function: the sections   *)
(* are filled in order, each from the earlier ones (the inductive          *)
(* invariant), and the safety properties follow.                           *)
(***************************************************************************)
EXTENDS Simulation, SequenceTheorems, TLAPS

LEMMA PaymentMonotone ==
  ASSUME NEW r \in Rates, NEW s \in Rates, NEW m \in Months, NEW n \in Months,
         NEW p \in Amounts, r <= s, n <= m
  PROVE  /\ Payment(r, m, p) \in Nat /\ Payment(s, n, p) \in Nat
         /\ Payment(r, m, p) <= Payment(s, n, p)
  <1>1. p <= p
    BY RecommendationAssumption DEF Amounts
  <1> QED BY <1>1, PaymentAssumption, Zenon

\* A scenario passes when nothing is unknown and no check fails.
LEMMA PassMeans ==
  ASSUME NEW in, NEW s
  PROVE  ScenarioVerdict(in, s) = "PASS"
            <=> /\ ~in.blocked /\ AppliedRate(in, s) # None /\ in.committed # None
                /\ ~FailsSomeCheck(in, s)
  BY DEF ScenarioVerdict

LEMMA OverallPass ==
  ASSUME NEW in
  PROVE  Overall(RunStressTest(in)) = "PASS"
            <=> \A i \in DOMAIN in.scenarios :
                    ScenarioVerdict(in, in.scenarios[i]) = "PASS"
  <1> DEFINE v == RunStressTest(in)
  <1>1. DOMAIN v = DOMAIN in.scenarios
        /\ \A i \in DOMAIN in.scenarios : v[i] = ScenarioVerdict(in, in.scenarios[i])
    BY DEF RunStressTest
  <1>2. \A i \in DOMAIN in.scenarios :
            ScenarioVerdict(in, in.scenarios[i]) \in {"PASS", "FAIL", "UNKNOWN"}
    BY DEF ScenarioVerdict
  <1> HIDE DEF v
  <1>3. Overall(v) = "PASS" <=> \A i \in DOMAIN v : v[i] # "FAIL" /\ v[i] # "UNKNOWN"
    BY DEF Overall
  <1> QED BY <1>1, <1>2, <1>3 DEF v

\* With a lower rate, a longer term, and rooms no smaller, what passed passes.
LEMMA ChecksMonotone ==
  ASSUME NEW in \in StressInput, NEW jn \in StressInput,
         NEW s \in StressScenario, NEW t \in StressScenario,
         jn.principal = in.principal, jn.committed = in.committed, in.committed # None,
         in.months <= jn.months,
         AppliedRate(in, s) \in Rates, AppliedRate(jn, t) \in Rates,
         AppliedRate(jn, t) <= AppliedRate(in, s),
         s.dsr <= t.dsr, s.cash <= t.cash,
         ~FailsSomeCheck(in, s)
  PROVE  ~FailsSomeCheck(jn, t)
  <1> DEFINE p == Payment(AppliedRate(in, s), in.months, in.principal)
             q == Payment(AppliedRate(jn, t), jn.months, in.principal)
  <1>1. /\ in.months \in Months /\ jn.months \in Months /\ in.principal \in Amounts
        /\ in.committed \in Nat
        /\ s.dsr \in Int /\ t.dsr \in Int /\ s.cash \in Int /\ t.cash \in Int
    BY RecommendationAssumption DEF StressInput, StressScenario, Amounts
  <1>2. p \in Nat /\ q \in Nat /\ q <= p
    BY <1>1, PaymentMonotone
  <1>3. ~(12 * p > s.dsr) /\ ~(p > s.cash)
        /\ ~(in.committed > (IF s.cash > p THEN s.cash - p ELSE 0))
    BY DEF FailsSomeCheck
  <1> HIDE DEF p, q
  <1>4. ~(12 * q > t.dsr) /\ ~(q > t.cash)
        /\ ~(in.committed > (IF t.cash > q THEN t.cash - q ELSE 0))
    BY <1>1, <1>2, <1>3
  <1> QED BY <1>4 DEF FailsSomeCheck, q

\* The rate applied to a scenario does not depend on the term.
LEMMA RateIgnoresTerm ==
  ASSUME NEW in \in StressInput, NEW m \in Months, NEW s
  PROVE  AppliedRate([in EXCEPT !.months = m], s) = AppliedRate(in, s)
  BY DEF AppliedRate, RateRises, StressInput

\* The rates of a stress input are rates.
RatesKnown(in) ==
    \A i \in DOMAIN in.scenarios :
        AppliedRate(in, in.scenarios[i]) \in Rates \cup {None}

LEMMA PassesMonotone ==
  ASSUME NEW in \in StressInput, RatesKnown(in),
         NEW m \in Months, NEW n \in Months, m <= n, Passes(in, m)
  PROVE  Passes(in, n)
  <1> DEFINE a == [in EXCEPT !.months = m]
             b == [in EXCEPT !.months = n]
  <1>1. /\ a \in StressInput /\ b \in StressInput
        /\ a.scenarios = in.scenarios /\ b.scenarios = in.scenarios
        /\ a.principal = in.principal /\ b.principal = in.principal
        /\ a.committed = in.committed /\ b.committed = in.committed
        /\ a.blocked = in.blocked /\ b.blocked = in.blocked
        /\ a.months = m /\ b.months = n
    BY DEF StressInput
  <1>2. \A i \in DOMAIN in.scenarios : in.scenarios[i] \in StressScenario
    <2>1. in.scenarios \in Seq(StressScenario)
      BY DEF StressInput
    <2> QED BY <2>1, ElementOfSeq
  <1>3. \A i \in DOMAIN in.scenarios :
            /\ AppliedRate(a, in.scenarios[i]) = AppliedRate(in, in.scenarios[i])
            /\ AppliedRate(b, in.scenarios[i]) = AppliedRate(in, in.scenarios[i])
    BY RateIgnoresTerm
  <1>4. \A r \in Rates : r <= r
    BY RecommendationAssumption
  <1> HIDE DEF a, b
  <1>5. \A i \in DOMAIN in.scenarios : ScenarioVerdict(a, in.scenarios[i]) = "PASS"
    BY <1>1, OverallPass DEF Passes, a
  <1>6. ASSUME NEW i \in DOMAIN in.scenarios
        PROVE  ScenarioVerdict(b, in.scenarios[i]) = "PASS"
    <2> DEFINE s == in.scenarios[i]
    <2>1. ~in.blocked /\ AppliedRate(in, s) # None /\ in.committed # None
          /\ ~FailsSomeCheck(a, s)
      BY <1>1, <1>3, <1>5, PassMeans
    <2>2. AppliedRate(a, s) \in Rates /\ AppliedRate(b, s) = AppliedRate(a, s)
      BY <2>1, <1>3 DEF RatesKnown
    <2>3. s \in StressScenario /\ s.dsr <= s.dsr /\ s.cash <= s.cash
      <3>1. s \in StressScenario
        BY <1>2
      <3>2. s.dsr \in Int /\ s.cash \in Int
        BY <3>1 DEF StressScenario
      <3> QED BY <3>1, <3>2
    <2>4. AppliedRate(b, s) <= AppliedRate(a, s)
      BY <2>2, <1>4
    <2> HIDE DEF s
    <2>5. ~FailsSomeCheck(b, s)
      BY <1>1, <2>1, <2>2, <2>3, <2>4, ChecksMonotone
    <2> QED BY <1>1, <1>3, <2>1, <2>2, <2>5, PassMeans DEF s
  <1>7. \A i \in DOMAIN b.scenarios : ScenarioVerdict(b, b.scenarios[i]) = "PASS"
    BY <1>1, <1>6
  <1>8. Overall(RunStressTest(b)) = "PASS"
    BY <1>7, OverallPass
  <1> QED BY <1>8 DEF Passes, b
-------------------------------------------------------------------------------
(* What the sections are made of has its type. *)

LEMMA NoneIsNoNumber ==
  /\ None \notin Int /\ None \notin Months /\ None \notin Amounts /\ None \notin Rates
  /\ None \notin LoanOffer /\ None \notin LoanResult /\ None \notin SavingsPlan
  /\ None \notin StressInput /\ None \notin Recommendations /\ None \notin Strategies
  <1>1. None \notin Int /\ Rates \subseteq Int
    BY RecommendationAssumption
  <1>2. Months \subseteq Int /\ Amounts \subseteq Int
    BY RecommendationAssumption DEF Months, Amounts
  <1>3. None \notin LoanOffer \cup LoanResult \cup SavingsPlan \cup StressInput
                    \cup Recommendations \cup Strategies
    BY InputAssumption
  <1> QED BY <1>1, <1>2, <1>3

LEMMA ExecutableOffers ==
  ASSUME NEW result \in LoanResults
  PROVE  /\ Executable(result) \subseteq LoanOffer
         /\ \A o \in Executable(result) :
                \E k \in DOMAIN result.executable : o = result.executable[k]
  <1>1. result.executable \in Seq(LoanOffer)
    BY InputAssumption DEF LoanResult
  <1>2. DOMAIN result.executable = 1..Len(result.executable)
    BY <1>1
  <1>3. \A k \in 1..Len(result.executable) : result.executable[k] \in LoanOffer
    BY <1>1, ElementOfSeq
  <1> QED BY <1>2, <1>3 DEF Executable

LEMMA PrimaryIsOffered ==
  ASSUME NEW result \in LoanResults \cup {None}, NEW required,
         NEW p \in Primaries(result, required)
  PROVE  /\ p # None => /\ result # None /\ required # 0
                        /\ p \in Executable(result) /\ p \in LoanOffer
         /\ (p = None /\ result # None /\ required # 0) => result.executable = << >>
  <1>1. result # None => Executable(result) \subseteq LoanOffer
    BY ExecutableOffers
  <1> QED BY <1>1, NoneIsNoNumber DEF Primaries

LEMMA SavingsStatusOf ==
  ASSUME NEW plan \in SavingsPlan \cup {None}
  PROVE  /\ SavingsStatus(plan) \in Statuses
         /\ plan = None => SavingsStatus(plan) = "NOT_REQUESTED"
         /\ SavingsStatus(plan) \in {"READY", "PARTIAL"} =>
                /\ plan # None /\ plan.policy = "PASS"
                /\ plan.status \in {"COMPLETE", "PARTIAL"}
         /\ SavingsStatus(plan) = "NOT_REQUIRED" =>
                /\ plan # None /\ plan.policy = "PASS"
                /\ plan.status \notin {"COMPLETE", "PARTIAL"}
  <1>1. CASE plan = None
    BY <1>1 DEF SavingsStatus, Statuses
  <1>2. CASE plan # None
    <2>1. plan \in SavingsPlan
      BY <1>2
    <2>2. /\ plan.status \in {"COMPLETE", "PARTIAL", "INFEASIBLE", "NO_ALLOCATION_REQUIRED"}
          /\ plan.policy \in {"PASS", "FAIL", "UNKNOWN", None}
      BY <2>1 DEF SavingsPlan
    <2>3. None \notin {"PASS", "FAIL", "UNKNOWN"}
      BY RecommendationAssumption
    <2>4. PolicyStatus(plan) \in {"PASS", "FAIL", "UNKNOWN"}
          /\ (PolicyStatus(plan) = "PASS" => plan.policy = "PASS")
      BY <2>2, <2>3 DEF PolicyStatus
    <2>5. /\ PlanStatus(plan) \in {"READY", "PARTIAL", "NOT_REQUIRED", "INFEASIBLE"}
          /\ PlanStatus(plan) \in {"READY", "PARTIAL"} => plan.status \in {"COMPLETE", "PARTIAL"}
          /\ PlanStatus(plan) = "NOT_REQUIRED" => plan.status \notin {"COMPLETE", "PARTIAL"}
      BY <2>2 DEF PlanStatus
    <2>6. SavingsStatus(plan) = IF PolicyStatus(plan) = "UNKNOWN" THEN "UNKNOWN"
                                ELSE IF PolicyStatus(plan) = "FAIL" THEN "INFEASIBLE"
                                ELSE PlanStatus(plan)
      BY <1>2, <2>4 DEF SavingsStatus
    <2> QED BY <1>2, <2>4, <2>5, <2>6 DEF Statuses
  <1> QED BY <1>1, <1>2

LEMMA RecommendedType ==
  ASSUME NEW result \in LoanResults \cup {None}, NEW required \in Amounts,
         NEW months \in Months, NEW plan \in SavingsPlan \cup {None},
         NEW p \in Primaries(result, required)
  PROVE  Recommended(result, required, months, p, plan) \in Recommendations
  <1>1. LoanStatus(result, required, p) \in Statuses
    BY DEF LoanStatus, Statuses
  <1>2. p \in LoanOffer \cup {None}
    BY PrimaryIsOffered
  <1>3. 0 \in Amounts
    BY RecommendationAssumption DEF Amounts
  <1>4. ASSUME result # None
        PROVE  ComparedMonths(result, months) \in Months
    <2>1. result.executable \in Seq(LoanOffer)
      BY <1>4, InputAssumption DEF LoanResult
    <2>2. result.executable # << >> => 1 \in 1..Len(result.executable)
      BY <2>1
    <2>3. result.executable # << >> => result.executable[1] \in LoanOffer
      BY <2>1, <2>2, ElementOfSeq
    <2> QED BY <2>3 DEF ComparedMonths, LoanOffer
  <1>5. SavingsStatus(plan) \in Statuses
    BY SavingsStatusOf
  <1>6. CombinedStatus(LoanStatus(result, required, p), p, SavingsStatus(plan))
            \in {"COMPLETE", "PARTIAL", "NEEDS_REVIEW", "INFEASIBLE"}
    BY DEF CombinedStatus
  <1> QED BY <1>1, <1>2, <1>3, <1>4, <1>5, <1>6 DEF Recommended, Recommendations
\* What a recommendation says of its own parts.
LEMMA RecommendedParts ==
  ASSUME NEW result, NEW required, NEW months, NEW plan, NEW p
  PROVE  LET r == Recommended(result, required, months, p, plan) IN
         /\ r.primary = p /\ r.plan = plan /\ r.savings = SavingsStatus(plan)
         /\ r.loan = LoanStatus(result, required, p)
         /\ r.required = (IF result = None THEN 0 ELSE required)
         /\ r.months = (IF result = None \/ required = 0 THEN None
                        ELSE ComparedMonths(result, months))
  BY DEF Recommended

LEMMA CommitmentType ==
  ASSUME NEW r \in Recommendations,
         r.savings \in {"READY", "PARTIAL"} => r.plan # None
  PROVE  /\ Commitment(r) \in Amounts \cup {None}
         /\ r.savings \notin {"READY", "PARTIAL"} => Commitment(r) \in {0, None}
  <1>1. 0 \in Amounts
    BY RecommendationAssumption DEF Amounts
  <1>2. r.savings \in Statuses /\ r.plan \in SavingsPlan \cup {None}
    BY DEF Recommendations
  <1>3. CASE r.savings \in {"READY", "PARTIAL"}
    <2>1. r.plan \in SavingsPlan
      BY <1>2, <1>3
    <2>2. r.plan.monthly \in Amounts
      BY <2>1 DEF SavingsPlan
    <2>3. Commitment(r) = r.plan.monthly
      BY <1>3 DEF Commitment
    <2> QED BY <1>3, <2>2, <2>3
  <1>4. CASE r.savings \in {"NOT_REQUESTED", "NOT_REQUIRED", "INFEASIBLE"}
    <2>1. Commitment(r) = 0
      BY <1>4 DEF Commitment
    <2> QED BY <1>1, <2>1
  <1>5. CASE r.savings = "UNKNOWN"
    <2>1. Commitment(r) = None
      BY <1>5 DEF Commitment
    <2> QED BY <1>5, <2>1
  <1> QED BY <1>2, <1>3, <1>4, <1>5 DEF Statuses

LEMMA StressInputType ==
  ASSUME NEW r \in Recommendations, NEW months \in Months,
         NEW scenarios \in Seq(StressScenario),
         r.savings \in {"READY", "PARTIAL"} => r.plan # None
  PROVE  BuildStressInput(r, months, scenarios) \in StressInput
  <1>1. 0 \in Amounts /\ 0 \in Rates
    BY RecommendationAssumption DEF Amounts
  <1>2. Commitment(r) \in Amounts \cup {None}
    BY CommitmentType
  <1>3. r.primary \in LoanOffer \cup {None} /\ r.months \in Months \cup {None}
    BY DEF Recommendations
  <1>4. r.primary # None => /\ r.primary.amount \in Amounts /\ r.primary.rate \in Rates
                            /\ r.primary.shock \in Shocks
    BY <1>3 DEF LoanOffer
  <1>5. StressedTerm(r, months) \in Months
    BY <1>3 DEF StressedTerm
  <1> QED BY <1>1, <1>2, <1>4, <1>5 DEF BuildStressInput, StressInput, Shocks

\* A rate that meets every rise of its scenarios is a rate in each of them.
LEMMA RatesAreKnown ==
  ASSUME NEW in \in StressInput, in.shock = "APPLIES" =>
            \A i \in DOMAIN in.scenarios : in.rate + in.scenarios[i].raise \in Rates
  PROVE  RatesKnown(in)
  <1>1. in.rate \in Rates
    BY DEF StressInput
  <1> QED BY <1>1 DEF RatesKnown, AppliedRate

LEMMA SequenceOfJudgements ==
  ASSUME NEW S, NEW s \in Seq(S), NEW f,
         f = [i \in DOMAIN s |-> f[i]],
         \A i \in DOMAIN s : f[i] \in Judgements
  PROVE  f \in Seq(Judgements)
  <1>1. Len(s) \in Nat /\ DOMAIN s = 1..Len(s)
    BY SeqDef
  <1>2. f \in [1..Len(s) -> Judgements]
    BY <1>1
  <1> QED BY <1>1, <1>2, SeqDef

LEMMA VerdictsType ==
  ASSUME NEW in \in StressInput
  PROVE  RunStressTest(in) \in Seq(Judgements)
  <1> DEFINE v == RunStressTest(in)
  <1>1. in.scenarios \in Seq(StressScenario)
    BY DEF StressInput
  <1>2. v = [i \in DOMAIN in.scenarios |-> v[i]]
    BY DEF RunStressTest
  <1>3. \A i \in DOMAIN in.scenarios : v[i] \in Judgements
    BY DEF RunStressTest, ScenarioVerdict, Judgements
  <1> HIDE DEF v
  <1>4. v \in Seq(Judgements)
    BY <1>1, <1>2, <1>3, SequenceOfJudgements
  <1> QED BY <1>4 DEF v

LEMMA CompareType ==
  ASSUME NEW r, NEW scenarios \in Seq(CostScenario), NEW equity, NEW extra,
         NEW capacity, NEW v
  PROVE  Compare(r, scenarios, equity, extra, capacity, v) \in Strategies
  <1> DEFINE c == Compare(r, scenarios, equity, extra, capacity, v)
             early == [i \in DOMAIN scenarios |->
                        Judge(scenarios[i].early, equity, EarlyLoan(r))]
             asset == [i \in DOMAIN scenarios |->
                        Judge(scenarios[i].later, AccumulatedEquity(r, extra), capacity)]
  <1>1. \A i \in DOMAIN scenarios : early[i] \in Judgements /\ asset[i] \in Judgements
    BY DEF Judge, Judgements
  <1>2. early = [i \in DOMAIN scenarios |-> early[i]]
        /\ asset = [i \in DOMAIN scenarios |-> asset[i]]
    OBVIOUS
  <1>3. c = [early |-> early, asset |-> asset,
             status |-> ComparisonStatus(asset, early, AssetParts(r, asset),
                                         EarlyParts(r, early, v))]
    BY DEF Compare
  <1> HIDE DEF early, asset, c
  <1>4. early \in Seq(Judgements) /\ asset \in Seq(Judgements)
    BY <1>1, <1>2, SequenceOfJudgements
  <1>5. ComparisonStatus(asset, early, AssetParts(r, asset), EarlyParts(r, early, v))
            \in {"COMPLETE", "PROVISIONAL", "INFEASIBLE", "UNAVAILABLE"}
    BY DEF ComparisonStatus
  <1>6. c \in Strategies
    BY <1>3, <1>4, <1>5 DEF Strategies
  <1> QED BY <1>6 DEF c
LEMMA CallType ==
  ASSUME NEW c \in Calls
  PROVE  /\ c.required \in Amounts /\ c.months \in Months
         /\ c.scenarios \in Seq(StressScenario) /\ c.homes \in Seq(CostScenario)
         /\ c.plan \in SavingsPlan \cup {None}
         /\ c.equity \in Nat /\ c.extra \in Nat /\ c.planned \in Nat \cup {None}
         /\ c.scenarios # << >> /\ c.homes # << >>
  <1>1. c \in SimulationInput /\ c.scenarios # << >> /\ c.homes # << >>
    BY InputAssumption
  <1> QED BY <1>1 DEF SimulationInput

\* What the standing recommendation says about loans and savings.
LEMMA RecommendationFacts ==
  ASSUME TypeOK, RecommendationIsOf, recommendation # None
  PROVE  /\ recommendation \in Recommendations
         /\ recommendation.plan = savings
         /\ recommendation.savings = SavingsStatus(savings)
         /\ recommendation.loan = LoanStatus(loans, call.required, recommendation.primary)
         /\ recommendation.required = (IF loans = None THEN 0 ELSE call.required)
         /\ recommendation.primary # None =>
              /\ loans # None /\ call.required # 0 /\ loans \in LoanResults
              /\ recommendation.primary \in Executable(loans)
              /\ recommendation.primary \in LoanOffer
              /\ recommendation.months = ComparedMonths(loans, call.months)
         /\ (recommendation.primary = None /\ loans # None /\ call.required # 0) =>
              loans.executable = << >>
         /\ recommendation.savings \in {"READY", "PARTIAL"} =>
              recommendation.plan # None
  <1>1. PICK p \in Primaries(loans, call.required) :
            recommendation = Recommended(loans, call.required, call.months, p, savings)
    BY DEF RecommendationIsOf
  <1>2. loans \in LoanResults \cup {None} /\ savings \in SavingsPlan \cup {None}
        /\ call \in Calls /\ recommendation \in Recommendations
    BY DEF TypeOK
  <1>3. /\ recommendation.primary = p /\ recommendation.plan = savings
        /\ recommendation.savings = SavingsStatus(savings)
        /\ recommendation.loan = LoanStatus(loans, call.required, p)
        /\ recommendation.required = (IF loans = None THEN 0 ELSE call.required)
        /\ recommendation.months = (IF loans = None \/ call.required = 0 THEN None
                                    ELSE ComparedMonths(loans, call.months))
    BY <1>1, RecommendedParts
  <1>4. /\ p # None => /\ loans # None /\ call.required # 0
                       /\ p \in Executable(loans) /\ p \in LoanOffer
        /\ (p = None /\ loans # None /\ call.required # 0) => loans.executable = << >>
    BY <1>2, PrimaryIsOffered
  <1>5. SavingsStatus(savings) \in {"READY", "PARTIAL"} => savings # None
    BY <1>2, SavingsStatusOf
  <1> QED BY <1>2, <1>3, <1>4, <1>5

\* The stress input is what the recommendation and the call make it.
LEMMA StressFacts ==
  ASSUME TypeOK, RecommendationIsOf, InOrder, StressIsOf, stress # None
  PROVE  /\ stress \in StressInput /\ RatesKnown(stress)
         /\ recommendation # None
         /\ stress.scenarios = call.scenarios
         /\ stress.months = StressedTerm(recommendation, call.months)
         /\ stress.committed = Commitment(recommendation)
         /\ verdicts = RunStressTest(stress)
  <1>1. recommendation # None
    BY DEF InOrder
  <1>2. /\ stress \in StressInput
        /\ stress = BuildStressInput(recommendation, call.months, call.scenarios)
        /\ verdicts = RunStressTest(stress)
    BY DEF TypeOK, StressIsOf
  <1>3. /\ stress.scenarios = call.scenarios
        /\ stress.months = StressedTerm(recommendation, call.months)
        /\ stress.committed = Commitment(recommendation)
    BY <1>2 DEF BuildStressInput
  <1>4. ASSUME stress.shock = "APPLIES", NEW i \in DOMAIN stress.scenarios
        PROVE  stress.rate + stress.scenarios[i].raise \in Rates
    <2>1. recommendation.primary # None /\ stress.rate = recommendation.primary.rate
      BY <1>2, <1>4 DEF BuildStressInput
    <2>2. PICK k \in DOMAIN loans.executable : recommendation.primary = loans.executable[k]
      BY <1>1, <2>1, RecommendationFacts, ExecutableOffers
    <2>3. call \in Calls /\ loans \in LoanResults
      BY <1>1, <2>1, RecommendationFacts DEF TypeOK
    <2>4. loans.executable[k].rate + call.scenarios[i].raise \in Rates
      BY <1>3, <1>4, <2>3, InputAssumption
    <2> QED BY <1>3, <2>1, <2>2, <2>4
  <1>5. RatesKnown(stress)
    BY <1>2, <1>4, RatesAreKnown
  <1> QED BY <1>1, <1>2, <1>3, <1>5

-------------------------------------------------------------------------------
(* Every step keeps every part of the invariant. *)

LEMMA TypeStep ==
  ASSUME IInv, Next
  PROVE  TypeOK'
  <1> USE DEF IInv, TypeOK, Stages
  <1>1. CASE BuildLoanRequest
    BY <1>1 DEF BuildLoanRequest, Lacks, RequestGaps, Gaps, LoanGaps
  <1>2. CASE SimulateSavings
    <2>1. savings' \in SavingsPlan \cup {None} /\ missing' \subseteq Gaps
      <3>1. CASE call.plan # None
        BY <1>2, <3>1, CallType DEF SimulateSavings
      <3>2. CASE call.plan = None
        <4>1. PICK outcome \in SavingsOutcomes :
                savings' = outcome.plan /\ Lacks(outcome.lacks)
          BY <1>2, <3>2 DEF SimulateSavings
        <4>2. outcome.plan \in SavingsPlan \cup {None} /\ outcome.lacks \subseteq SavingsGaps
          BY InputAssumption
        <4> QED BY <4>1, <4>2 DEF Lacks, Gaps
      <3> QED BY <3>1, <3>2
    <2> QED BY <1>2, <2>1 DEF SimulateSavings
  <1>3. CASE SimulateLoans
    <2>1. loans' \in LoanResults \cup {None} /\ missing' \subseteq Gaps
      BY <1>3 DEF SimulateLoans, Lacks, Gaps, LoanGaps, OtherGaps
    <2> QED BY <1>3, <2>1 DEF SimulateLoans
  <1>4. CASE SkipRecommendation
    BY <1>4 DEF SkipRecommendation, sections
  <1>5. CASE RecommendRaises
    BY <1>5 DEF RecommendRaises, sections
  <1>6. CASE Recommend
    <2>1. recommendation' \in Recommendations
      <3>1. PICK p \in Primaries(loans, call.required) :
              recommendation' = Recommended(loans, call.required, call.months, p, savings)
        BY <1>6 DEF Recommend
      <3> QED BY <3>1, CallType, RecommendedType
    <2>2. missing' \subseteq Gaps
      BY <1>6 DEF Recommend, Lacks, Gaps, OtherGaps
    <2> QED BY <1>6, <2>1, <2>2 DEF Recommend
  <1>7. CASE StressRaises
    BY <1>7 DEF StressRaises, sections
  <1>8. CASE RunStress
    <2>1. stress' \in StressInput
      <3>1. recommendation # None
        BY <1>8 DEF RunStress, InOrder
      <3>2. call.months \in Months /\ call.scenarios \in Seq(StressScenario)
        BY CallType
      <3>3. /\ recommendation \in Recommendations
            /\ recommendation.savings \in {"READY", "PARTIAL"} => recommendation.plan # None
        BY <3>1, RecommendationFacts
      <3> QED BY <1>8, <3>2, <3>3, StressInputType DEF RunStress
    <2>2. verdicts' \in Seq(Judgements)
      BY <1>8, <2>1, VerdictsType DEF RunStress
    <2>3. missing' \subseteq Gaps
      BY <1>8 DEF RunStress, Lacks, StressGaps, Gaps, OtherGaps
    <2> QED BY <1>8, <2>1, <2>2, <2>3 DEF RunStress
  <1>9. CASE PlanBasisOnly
    <2>1. stress # None => stress.months \in Months
      BY DEF StressInput
    <2>2. plans' \in [basis : Months, resilient : Months \cup {None}] \cup {None}
      BY <1>9, <2>1 DEF PlanBasisOnly, InOrder
    <2> QED BY <1>9, <2>2 DEF PlanBasisOnly
  <1>10. CASE BeginStretch
    <2>1. stress # None => stress.months \in Months
      BY DEF StressInput
    <2>2. call.months \in Months
      BY CallType
    <2>3. search' \in [lo : Months, hi : Months]
      BY <1>10, <2>1, <2>2 DEF BeginStretch, InOrder
    <2> QED BY <1>10, <2>3 DEF BeginStretch
  <1>11. CASE HalveStretch
    <2>1. search \in [lo : Months, hi : Months] /\ search.hi - search.lo > 1
      BY <1>11 DEF HalveStretch
    <2>2. search.lo \in Months /\ search.hi \in Months
      BY <2>1
    <2>3. Middle \in Months
      BY <2>1, <2>2, RecommendationAssumption DEF Middle, Months
    <2>4. search' \in [lo : Months, hi : Months]
      BY <1>11, <2>1, <2>3 DEF HalveStretch
    <2> QED BY <1>11, <2>4 DEF HalveStretch
  <1>12. CASE EndStretch
    <2>1. stress # None => stress.months \in Months
      BY DEF StressInput
    <2>2. search.hi \in Months
      BY <1>12 DEF EndStretch
    <2>3. plans' \in [basis : Months, resilient : Months \cup {None}]
      BY <1>12, <2>1, <2>2 DEF EndStretch, InOrder
    <2> QED BY <1>12, <2>3 DEF EndStretch
  <1>13. CASE BuildHomes
    BY <1>13 DEF BuildHomes, Lacks, Gaps, CostGaps
  <1>14. CASE SkipStrategy
    BY <1>14 DEF SkipStrategy, sections
  <1>15. CASE StrategyRaises
    BY <1>15 DEF StrategyRaises, sections
  <1>16. CASE CompareStrategies
    <2>1. homes \in Seq(CostScenario)
      BY <1>16, CallType DEF CompareStrategies, NothingToCompare
    <2>2. strategy' \in Strategies
      BY <1>16, <2>1, CompareType DEF CompareStrategies
    <2>3. missing' \subseteq Gaps
      BY <1>16 DEF CompareStrategies, Lacks, StrategyGaps, Gaps, OtherGaps
    <2> QED BY <1>16, <2>2, <2>3 DEF CompareStrategies
  <1> QED BY <1>1, <1>2, <1>3, <1>4, <1>5, <1>6, <1>7, <1>8, <1>9, <1>10, <1>11, <1>12,
             <1>13, <1>14, <1>15, <1>16 DEF Next
LEMMA OrderStep ==
  ASSUME IInv, Next
  PROVE  InOrder'
  <1> USE DEF IInv, InOrder
  <1>1. CASE BuildLoanRequest
    BY <1>1 DEF BuildLoanRequest
  <1>2. CASE SimulateSavings
    BY <1>2 DEF SimulateSavings
  <1>3. CASE SimulateLoans
    BY <1>3 DEF SimulateLoans
  <1>4. CASE SkipRecommendation
    BY <1>4 DEF SkipRecommendation, sections
  <1>5. CASE RecommendRaises
    BY <1>5 DEF RecommendRaises, sections
  <1>6. CASE Recommend
    <2>1. recommendation' # None
      <3>1. PICK p \in Primaries(loans, call.required) :
              recommendation' = Recommended(loans, call.required, call.months, p, savings)
        BY <1>6 DEF Recommend
      <3>2. loans \in LoanResults \cup {None} /\ savings \in SavingsPlan \cup {None}
            /\ call \in Calls
        BY DEF TypeOK
      <3>3. recommendation' \in Recommendations
        BY <3>1, <3>2, CallType, RecommendedType
      <3> QED BY <3>3, NoneIsNoNumber
    <2> QED BY <1>6, <2>1 DEF Recommend
  <1>7. CASE StressRaises
    BY <1>7 DEF StressRaises, sections
  <1>8. CASE RunStress
    <2>1. stress' # None
      <3>1. recommendation # None
        BY <1>8 DEF RunStress
      <3>2. call \in Calls
        BY DEF TypeOK
      <3>3. call.months \in Months /\ call.scenarios \in Seq(StressScenario)
        BY <3>2, CallType
      <3>4. /\ recommendation \in Recommendations
            /\ recommendation.savings \in {"READY", "PARTIAL"} => recommendation.plan # None
        BY <3>1, RecommendationFacts
      <3>5. stress' \in StressInput
        BY <1>8, <3>3, <3>4, StressInputType DEF RunStress
      <3> QED BY <3>5, NoneIsNoNumber
    <2> QED BY <1>8, <2>1 DEF RunStress
  <1>9. CASE PlanBasisOnly
    BY <1>9 DEF PlanBasisOnly
  <1>10. CASE BeginStretch
    BY <1>10 DEF BeginStretch
  <1>11. CASE HalveStretch
    BY <1>11 DEF HalveStretch
  <1>12. CASE EndStretch
    BY <1>12 DEF EndStretch
  <1>13. CASE BuildHomes
    BY <1>13 DEF BuildHomes
  <1>14. CASE SkipStrategy
    BY <1>14 DEF SkipStrategy, sections
  <1>15. CASE StrategyRaises
    BY <1>15 DEF StrategyRaises, sections
  <1>16. CASE CompareStrategies
    BY <1>16 DEF CompareStrategies
  <1> QED BY <1>1, <1>2, <1>3, <1>4, <1>5, <1>6, <1>7, <1>8, <1>9, <1>10, <1>11, <1>12,
             <1>13, <1>14, <1>15, <1>16 DEF Next

\* A recommendation stands while nothing changes what it is made of.
LEMMA RecommendationStep ==
  ASSUME IInv, Next
  PROVE  RecommendationIsOf'
  <1>1. CASE Recommend
    BY <1>1 DEF Recommend, RecommendationIsOf, CannotRecommend, NothingToRecommend
  <1>2. CASE BuildLoanRequest \/ SimulateSavings \/ SimulateLoans
    <2>1. recommendation = None /\ recommendation' = None
      BY <1>2 DEF IInv, InOrder, BuildLoanRequest, SimulateSavings, SimulateLoans
    <2> QED BY <2>1 DEF RecommendationIsOf
  <1>3. CASE UNCHANGED <<call, savings, loans, recommendation>>
    BY <1>3 DEF IInv, RecommendationIsOf, NothingToRecommend
  <1>4. Recommend \/ BuildLoanRequest \/ SimulateSavings \/ SimulateLoans
        \/ UNCHANGED <<call, savings, loans, recommendation>>
    BY DEF Next, sections, SkipRecommendation, RecommendRaises, StressRaises, RunStress,
           PlanBasisOnly, BeginStretch, HalveStretch, EndStretch, BuildHomes,
           SkipStrategy, StrategyRaises, CompareStrategies
  <1> QED BY <1>1, <1>2, <1>3, <1>4

LEMMA StressStep ==
  ASSUME IInv, Next
  PROVE  StressIsOf'
  <1>1. CASE RunStress
    BY <1>1 DEF RunStress, StressIsOf
  <1>2. CASE BuildLoanRequest \/ SimulateSavings \/ SimulateLoans \/ Recommend
    <2>1. stress = None /\ stress' = None
      BY <1>2 DEF IInv, InOrder, BuildLoanRequest, SimulateSavings, SimulateLoans, Recommend
    <2> QED BY <2>1 DEF StressIsOf
  <1>3. CASE UNCHANGED <<call, recommendation, stress, verdicts>>
    BY <1>3 DEF IInv, StressIsOf
  <1>4. RunStress \/ BuildLoanRequest \/ SimulateSavings \/ SimulateLoans \/ Recommend
        \/ UNCHANGED <<call, recommendation, stress, verdicts>>
    BY DEF Next, sections, SkipRecommendation, RecommendRaises, StressRaises,
           PlanBasisOnly, BeginStretch, HalveStretch, EndStretch, BuildHomes,
           SkipStrategy, StrategyRaises, CompareStrategies
  <1> QED BY <1>1, <1>2, <1>3, <1>4

LEMMA BracketStep ==
  ASSUME IInv, Next
  PROVE  StretchBracket'
  <1>1. CASE BeginStretch
    <2>1. /\ stress # None /\ stress \in StressInput /\ verdicts = RunStressTest(stress)
          /\ search' = [lo |-> stress.months, hi |-> call.months]
          /\ stress' = stress /\ call' = call
          /\ Overall(verdicts) # "PASS"
          /\ stress.months < call.months /\ Passes(stress, call.months)
      BY <1>1 DEF IInv, TypeOK, InOrder, StressIsOf, BeginStretch, Stretchable
    <2>2. [stress EXCEPT !.months = stress.months] = stress
      BY <2>1 DEF StressInput
    <2>3. ~Passes(stress, stress.months)
      BY <2>1, <2>2 DEF Passes
    <2>4. stress.months \in Months /\ call.months \in Months
      BY <2>1, CallType DEF IInv, TypeOK, StressInput
    <2>5. stress.months <= stress.months /\ call.months <= call.months
      BY <2>4, RecommendationAssumption DEF Months
    <2> QED BY <2>1, <2>3, <2>5 DEF StretchBracket
  <1>2. CASE HalveStretch
    <2>1. search \in [lo : Months, hi : Months] /\ search # Idle
      BY <1>2 DEF IInv, TypeOK, HalveStretch
    <2>2. /\ stress.months <= search.lo /\ search.lo < search.hi
          /\ search.hi <= call.months
          /\ Passes(stress, search.hi) /\ ~Passes(stress, search.lo)
      BY <2>1 DEF IInv, StretchBracket
    <2>3. search.lo \in Int /\ search.hi \in Int /\ search.hi - search.lo > 1
      BY <1>2, <2>1, RecommendationAssumption DEF Months, HalveStretch
    <2>4. Middle \in Int /\ search.lo < Middle /\ Middle < search.hi
      BY <2>3 DEF Middle
    <2>5. stress.months \in Int /\ call.months \in Int
      <3>1. stress \in StressInput /\ call \in Calls
        BY <1>2 DEF IInv, InOrder, TypeOK, HalveStretch
      <3>2. stress.months \in Months /\ call.months \in Months
        BY <3>1, CallType DEF StressInput
      <3> QED BY <3>2, RecommendationAssumption DEF Months
    <2>6. stress' = stress /\ call' = call
          /\ search' = IF Passes(stress, Middle) THEN [search EXCEPT !.hi = Middle]
                                                 ELSE [search EXCEPT !.lo = Middle]
      BY <1>2 DEF HalveStretch
    <2>7. CASE Passes(stress, Middle)
      <3>1. search'.lo = search.lo /\ search'.hi = Middle
        BY <2>1, <2>6, <2>7
      <3>2. stress.months <= search.lo /\ search.lo < Middle /\ Middle <= call.months
        BY <2>2, <2>3, <2>4, <2>5
      <3> QED BY <2>2, <2>6, <2>7, <3>1, <3>2 DEF StretchBracket
    <2>8. CASE ~Passes(stress, Middle)
      <3>1. search'.lo = Middle /\ search'.hi = search.hi
        BY <2>1, <2>6, <2>8
      <3>2. stress.months <= Middle /\ Middle < search.hi /\ search.hi <= call.months
        BY <2>2, <2>3, <2>4, <2>5
      <3> QED BY <2>2, <2>6, <2>8, <3>1, <3>2 DEF StretchBracket
    <2> QED BY <2>7, <2>8
  <1>3. CASE RunStress \/ EndStretch
    <2>1. search' = Idle
      BY <1>3 DEF IInv, InOrder, RunStress, EndStretch
    <2> QED BY <2>1 DEF StretchBracket
  <1>4. CASE UNCHANGED <<call, stress, search>>
    BY <1>4 DEF IInv, StretchBracket
  <1>5. BeginStretch \/ HalveStretch \/ RunStress \/ EndStretch
        \/ UNCHANGED <<call, stress, search>>
    BY DEF Next, sections, BuildLoanRequest, SimulateSavings, SimulateLoans, Recommend,
           SkipRecommendation, RecommendRaises, StressRaises, PlanBasisOnly, BuildHomes,
           SkipStrategy, StrategyRaises, CompareStrategies
  <1> QED BY <1>1, <1>2, <1>3, <1>4, <1>5
LEMMA StrategyStep ==
  ASSUME IInv, Next
  PROVE  StrategyIsOf'
  <1>1. CASE CompareStrategies
    <2>1. recommendation # None /\ homes # << >> /\ homes \in {<< >>, call.homes}
      BY <1>1 DEF IInv, TypeOK, CompareStrategies, NothingToCompare
    <2> QED BY <1>1, <2>1 DEF CompareStrategies, StrategyIsOf, FutureCapacity
  <1>2. CASE stage # "done" /\ strategy' = strategy
    <2>1. strategy' = None
      BY <1>2 DEF IInv, InOrder
    <2> QED BY <2>1 DEF StrategyIsOf
  <1>3. CompareStrategies \/ (stage # "done" /\ strategy' = strategy)
    BY DEF Next, sections, BuildLoanRequest, SimulateSavings, SimulateLoans, Recommend,
           SkipRecommendation, RecommendRaises, StressRaises, RunStress, PlanBasisOnly,
           BeginStretch, HalveStretch, EndStretch, BuildHomes, SkipStrategy, StrategyRaises
  <1> QED BY <1>1, <1>2, <1>3

\* Nothing that was named missing is taken back.
LEMMA MissingGrows ==
  ASSUME IInv, Next
  PROVE  missing \subseteq missing'
  BY DEF Next, sections, Lacks, BuildLoanRequest, SimulateSavings, SimulateLoans, Recommend,
         SkipRecommendation, RecommendRaises, StressRaises, RunStress, PlanBasisOnly,
         BeginStretch, HalveStretch, EndStretch, BuildHomes, SkipStrategy, StrategyRaises,
         CompareStrategies

LEMMA GapsStep ==
  ASSUME IInv, Next
  PROVE  GapsSoFar'
  <1> USE MissingGrows DEF IInv, InOrder, GapsSoFar
  <1>1. CASE BuildLoanRequest
    BY <1>1 DEF BuildLoanRequest, Lacks, RequestGaps, LoanGaps, TypeOK
  <1>2. CASE SimulateSavings
    BY <1>2 DEF SimulateSavings
  <1>3. CASE SimulateLoans
    <2>1. CASE ~requested
      BY <1>3, <2>1 DEF SimulateLoans
    <2>2. CASE requested /\ ~call.candidates
      <3>1. "loan_product_candidates" \in missing' \cap LoanGaps
        BY <1>3, <2>2 DEF SimulateLoans, Lacks, LoanGaps
      <3> QED BY <1>3, <2>2, <3>1 DEF SimulateLoans
    <2>3. CASE requested /\ call.candidates
      <3>1. loans' # None
        BY <1>3, <2>3, InputAssumption, NoneIsNoNumber DEF SimulateLoans
      <3> QED BY <1>3, <2>3, <3>1 DEF SimulateLoans
    <2> QED BY <2>1, <2>2, <2>3
  <1>4. CASE SkipRecommendation
    BY <1>4 DEF SkipRecommendation, sections, NothingToRecommend
  <1>5. CASE RecommendRaises
    BY <1>5 DEF RecommendRaises, sections
  <1>6. CASE Recommend
    <2>1. recommendation' # None
      <3>1. PICK p \in Primaries(loans, call.required) :
              recommendation' = Recommended(loans, call.required, call.months, p, savings)
        BY <1>6 DEF Recommend
      <3>2. loans \in LoanResults \cup {None} /\ savings \in SavingsPlan \cup {None}
            /\ call \in Calls
        BY DEF TypeOK
      <3>3. recommendation' \in Recommendations
        BY <3>1, <3>2, CallType, RecommendedType
      <3> QED BY <3>3, NoneIsNoNumber
    <2> QED BY <1>6, <2>1 DEF Recommend
  <1>7. CASE StressRaises
    BY <1>7 DEF StressRaises, sections
  <1>8. CASE RunStress
    BY <1>8 DEF RunStress
  <1>9. CASE PlanBasisOnly
    BY <1>9 DEF PlanBasisOnly
  <1>10. CASE BeginStretch
    BY <1>10 DEF BeginStretch
  <1>11. CASE HalveStretch
    BY <1>11 DEF HalveStretch
  <1>12. CASE EndStretch
    BY <1>12 DEF EndStretch
  <1>13. CASE BuildHomes
    <2>1. call.homes # << >>
      BY CallType DEF TypeOK
    <2>2. homes' = << >> => missing' \cap CostGaps # {}
      BY <1>13, <2>1 DEF BuildHomes, Lacks, CostGaps
    <2> QED BY <1>13, <2>2 DEF BuildHomes
  <1>14. CASE SkipStrategy
    BY <1>14 DEF SkipStrategy, sections, NothingToCompare
  <1>15. CASE StrategyRaises
    BY <1>15 DEF StrategyRaises, sections
  <1>16. CASE CompareStrategies
    <2>1. strategy' # None
      <3>1. homes \in Seq(CostScenario)
        BY <1>16, CallType DEF CompareStrategies, NothingToCompare, TypeOK
      <3>2. strategy' \in Strategies
        BY <1>16, <3>1, CompareType DEF CompareStrategies
      <3> QED BY <3>2, NoneIsNoNumber
    <2> QED BY <1>16, <2>1 DEF CompareStrategies
  <1> QED BY <1>1, <1>2, <1>3, <1>4, <1>5, <1>6, <1>7, <1>8, <1>9, <1>10, <1>11, <1>12,
             <1>13, <1>14, <1>15, <1>16 DEF Next

\* The bisection ends at the shortest term, as passing is monotone in the term.
LEMMA ResilientStep ==
  ASSUME IInv, Next
  PROVE  ResilientIsShortest'
  <1>1. CASE PlanBasisOnly
    <2>1. stress # None /\ stress' = stress /\ call' = call
      BY <1>1 DEF IInv, InOrder, PlanBasisOnly
    <2>2. /\ stress \in StressInput /\ RatesKnown(stress) /\ verdicts = RunStressTest(stress)
      BY <2>1, StressFacts DEF IInv
    <2>3. stress.months \in Months /\ call.months \in Months
      BY <2>2, CallType DEF IInv, TypeOK, StressInput
    <2>4. SUFFICES ASSUME plans' # None
                   PROVE  Passes(stress, stress.months) \/ ~Passes(stress, call.months)
      <3>1. plans' # None => plans' = [basis |-> stress.months, resilient |-> None]
        BY <1>1 DEF PlanBasisOnly
      <3> QED BY <2>1, <3>1 DEF ResilientIsShortest
    <2>5. Overall(verdicts) = "PASS" \/ ~Stretchable
      BY <1>1, <2>4 DEF PlanBasisOnly
    <2>6. CASE Overall(verdicts) = "PASS"
      <3>1. [stress EXCEPT !.months = stress.months] = stress
        BY <2>2 DEF StressInput
      <3> QED BY <2>2, <2>6, <3>1 DEF Passes
    <2>7. CASE ~Stretchable
      <3>1. CASE stress.months < call.months
        BY <2>7, <3>1 DEF Stretchable
      <3>2. CASE ~(stress.months < call.months)
        <4>1. call.months <= stress.months
          BY <2>3, <3>2, RecommendationAssumption DEF Months
        <4> QED BY <2>2, <2>3, <4>1, PassesMonotone
      <3> QED BY <3>1, <3>2
    <2> QED BY <2>5, <2>6, <2>7
  <1>2. CASE EndStretch
    <2>1. stress # None /\ stress' = stress /\ call' = call /\ search # Idle
      BY <1>2 DEF IInv, InOrder, EndStretch
    <2>2. stress \in StressInput /\ RatesKnown(stress)
      BY <2>1, StressFacts DEF IInv
    <2>3. /\ search.lo < search.hi /\ search.hi <= call.months
          /\ Passes(stress, search.hi) /\ ~Passes(stress, search.lo)
      BY <2>1 DEF IInv, StretchBracket
    <2>4. search.lo \in Months /\ search.hi \in Months /\ stress.months \in Months
      BY <2>1, <2>2 DEF IInv, TypeOK, StressInput
    <2>5. search.hi - 1 = search.lo
      BY <1>2, <2>3, <2>4, RecommendationAssumption DEF EndStretch, Months
    <2>6. ASSUME NEW m \in stress.months..(search.hi - 1)
          PROVE  ~Passes(stress, m)
      <3>1. m \in Months /\ m <= search.lo
        BY <2>4, <2>5, RecommendationAssumption DEF Months
      <3> QED BY <2>2, <2>3, <2>4, <3>1, PassesMonotone
    <2>7. plans' = [basis |-> stress.months, resilient |-> search.hi]
      BY <1>2 DEF EndStretch
    <2>8. plans'.basis = stress.months /\ plans'.resilient = search.hi
          /\ plans'.resilient # None
      BY <2>4, <2>7, NoneIsNoNumber
    <2> QED BY <2>1, <2>3, <2>6, <2>8 DEF ResilientIsShortest
  <1>3. CASE RunStress
    <2>1. plans' = None
      BY <1>3 DEF IInv, InOrder, RunStress
    <2> QED BY <2>1 DEF ResilientIsShortest
  <1>4. CASE UNCHANGED <<call, stress, plans>>
    BY <1>4 DEF IInv, ResilientIsShortest
  <1>5. PlanBasisOnly \/ EndStretch \/ RunStress \/ UNCHANGED <<call, stress, plans>>
    BY DEF Next, sections, BuildLoanRequest, SimulateSavings, SimulateLoans, Recommend,
           SkipRecommendation, RecommendRaises, StressRaises, BeginStretch, HalveStretch,
           BuildHomes, SkipStrategy, StrategyRaises, CompareStrategies
  <1> QED BY <1>1, <1>2, <1>3, <1>4, <1>5

-------------------------------------------------------------------------------
LEMMA Start == Init => IInv
  <1> SUFFICES ASSUME Init PROVE IInv
    OBVIOUS
  <1>1. TypeOK
    BY DEF Init, TypeOK, Stages
  <1> QED BY <1>1 DEF Init, IInv, InOrder, RecommendationIsOf, StressIsOf, StretchBracket,
                      StrategyIsOf, GapsSoFar, ResilientIsShortest

LEMMA Invariance == Spec => []IInv
  <1>1. IInv /\ [Next]_vars => IInv'
    <2>1. CASE Next
      BY <2>1, TypeStep, OrderStep, RecommendationStep, StressStep, BracketStep,
         StrategyStep, GapsStep, ResilientStep DEF IInv
    <2>2. CASE UNCHANGED vars
      BY <2>2 DEF vars, sections, IInv, TypeOK, InOrder, RecommendationIsOf, StressIsOf,
                  StretchBracket, StrategyIsOf, GapsSoFar, ResilientIsShortest,
                  NothingToRecommend, NothingToCompare, FutureCapacity
    <2> QED BY <2>1, <2>2
  <1> QED BY <1>1, Start, PTL DEF Spec

\* Every section has its type, whatever comes in.
THEOREM TypeCorrect == Spec => []TypeOK
  <1>1. IInv => TypeOK
    BY DEF IInv
  <1> QED BY <1>1, Invariance, PTL

\* The bisection over the terms finds the shortest term that passes, for every
\* payment function that is monotone in rate, term and principal.
THEOREM ResilientTermIsShortest == Spec => []ResilientIsShortest
  <1>1. IInv => ResilientIsShortest
    BY DEF IInv
  <1> QED BY <1>1, Invariance, PTL

\* No shock is a relief.
THEOREM HarderIsNeverEasier == Spec => []HarderNeverEasier
  <1>1. ASSUME IInv PROVE HarderNeverEasier
    <2> SUFFICES ASSUME verdicts # None, NEW i \in DOMAIN verdicts, NEW k \in DOMAIN verdicts,
                        call.scenarios[i].raise <= call.scenarios[k].raise,
                        call.scenarios[k].dsr <= call.scenarios[i].dsr,
                        call.scenarios[k].cash <= call.scenarios[i].cash,
                        verdicts[k] = "PASS"
                 PROVE  verdicts[i] = "PASS"
      BY DEF HarderNeverEasier
    <2>1. stress # None
      BY <1>1 DEF IInv, InOrder
    <2>2. /\ stress \in StressInput /\ RatesKnown(stress)
          /\ stress.scenarios = call.scenarios /\ verdicts = RunStressTest(stress)
      BY <1>1, <2>1, StressFacts DEF IInv
    <2> DEFINE s == stress.scenarios[k]
               t == stress.scenarios[i]
    <2>3. /\ i \in DOMAIN stress.scenarios /\ k \in DOMAIN stress.scenarios
          /\ verdicts[i] = ScenarioVerdict(stress, t)
          /\ verdicts[k] = ScenarioVerdict(stress, s)
      BY <2>2 DEF RunStressTest
    <2>4. s \in StressScenario /\ t \in StressScenario
      BY <2>2, <2>3, ElementOfSeq DEF StressInput
    <2>5. t.raise <= s.raise /\ s.dsr <= t.dsr /\ s.cash <= t.cash
      BY <2>2
    <2>6. AppliedRate(stress, s) \in Rates \cup {None}
          /\ AppliedRate(stress, t) \in Rates \cup {None}
      BY <2>2, <2>3 DEF RatesKnown
    <2> HIDE DEF s, t
    <2>7. /\ ~stress.blocked /\ AppliedRate(stress, s) # None
          /\ stress.committed # None /\ ~FailsSomeCheck(stress, s)
      BY <2>3, PassMeans
    <2>8. s.raise \in Nat /\ t.raise \in Nat /\ stress.rate \in Nat /\ Rates \subseteq Nat
      BY <2>2, <2>4, RecommendationAssumption DEF StressScenario, StressInput
    <2>9. AppliedRate(stress, t) # None /\ AppliedRate(stress, t) <= AppliedRate(stress, s)
      BY <2>5, <2>6, <2>7, <2>8, RecommendationAssumption DEF AppliedRate, RateRises
    <2>10. stress.months <= stress.months
      BY <2>2, RecommendationAssumption DEF StressInput, Months
    <2>11. ~FailsSomeCheck(stress, t)
      BY <2>2, <2>4, <2>5, <2>6, <2>7, <2>9, <2>10, ChecksMonotone
    <2> QED BY <2>3, <2>7, <2>9, <2>11, PassMeans
  <1> QED BY <1>1, Invariance, PTL

\* What is stressed is repaid in the months of the option it recommends.
THEOREM StressedTermIsRepaid == Spec => []StressJudgesTheTermRepaid
  <1>1. ASSUME IInv PROVE StressJudgesTheTermRepaid
    <2> SUFFICES ASSUME stress # None, recommendation.primary # None
                 PROVE  /\ stress.months = recommendation.primary.months
                        /\ \A o \in Executable(loans) : o.months = stress.months
      BY DEF StressJudgesTheTermRepaid
    <2>1. recommendation # None /\ stress.months = StressedTerm(recommendation, call.months)
      BY <1>1, StressFacts DEF IInv
    <2>2. /\ loans # None /\ loans \in LoanResults
          /\ recommendation.primary \in Executable(loans)
          /\ recommendation.months = ComparedMonths(loans, call.months)
      BY <1>1, <2>1, RecommendationFacts DEF IInv
    <2>3. \A o, p \in Executable(loans) : o.months = p.months
      BY <1>1, <2>1, <2>2 DEF IInv, RecommendationIsOf, OneTerm
    <2>4. loans.executable \in Seq(LoanOffer)
      BY <2>2, InputAssumption DEF LoanResult
    <2>5. Len(loans.executable) # 0 /\ loans.executable # << >>
          /\ 1 \in 1..Len(loans.executable)
      BY <2>2, <2>4 DEF Executable
    <2>6. loans.executable[1] \in Executable(loans)
      BY <2>5 DEF Executable
    <2>7. loans.executable[1].months \in Months
      BY <2>2, <2>6, ExecutableOffers DEF LoanOffer
    <2>8. stress.months = loans.executable[1].months
      BY <2>1, <2>2, <2>5, <2>7, NoneIsNoNumber DEF StressedTerm, ComparedMonths
    <2> QED BY <2>2, <2>3, <2>6, <2>8
  <1> QED BY <1>1, Invariance, PTL

\* Savings nobody verified are neither a burden nor equity.
THEOREM UnverifiedSavingsDoNotCount == Spec => []UnverifiedSavingsNeverCount
  <1>1. ASSUME IInv PROVE UnverifiedSavingsNeverCount
    <2> SUFFICES ASSUME savings # None => savings.policy # "PASS"
                 PROVE  /\ stress # None => stress.committed \in {0, None}
                        /\ strategy # None =>
                             \A i \in DOMAIN strategy.asset : strategy.asset[i] = "UNKNOWN"
      BY DEF UnverifiedSavingsNeverCount
    <2>1. savings \in SavingsPlan \cup {None}
      BY <1>1 DEF IInv, TypeOK
    <2>2. SavingsStatus(savings) \notin {"READY", "PARTIAL", "NOT_REQUIRED"}
      BY <2>1, SavingsStatusOf
    <2>3. recommendation # None =>
            /\ recommendation \in Recommendations
            /\ recommendation.savings \notin {"READY", "PARTIAL", "NOT_REQUIRED"}
      BY <1>1, <2>2, RecommendationFacts DEF IInv
    <2>4. ASSUME stress # None PROVE stress.committed \in {0, None}
      <3>1. recommendation # None /\ stress.committed = Commitment(recommendation)
        BY <1>1, <2>4, StressFacts DEF IInv
      <3> QED BY <2>3, <3>1, CommitmentType
    <2>5. ASSUME strategy # None, NEW i \in DOMAIN strategy.asset
          PROVE  strategy.asset[i] = "UNKNOWN"
      <3>1. /\ recommendation # None
            /\ strategy = Compare(recommendation, homes, call.equity, call.extra,
                                  FutureCapacity, verdicts)
        BY <1>1, <2>5 DEF IInv, StrategyIsOf
      <3>2. AccumulatedEquity(recommendation, call.extra) = None
        BY <2>3, <3>1 DEF AccumulatedEquity
      <3>3. strategy.asset = [j \in DOMAIN homes |->
                Judge(homes[j].later, AccumulatedEquity(recommendation, call.extra),
                      FutureCapacity)]
        BY <3>1 DEF Compare
      <3> QED BY <2>5, <3>2, <3>3 DEF Judge
    <2> QED BY <2>4, <2>5
  <1> QED BY <1>1, Invariance, PTL

\* What was left out for want of a loan input is named, and a refusal was calculated.
THEOREM GapsAreAlwaysNamed == Spec => []GapsAreNamed
  <1>1. ASSUME IInv PROVE GapsAreNamed
    <2>1. ASSUME stage = "done"
          PROVE  /\ loans = None => missing \cap LoanGaps # {}
                 /\ recommendation = None => missing \cap LoanGaps # {}
                 /\ stress = None => missing \cap LoanGaps # {}
                 /\ strategy = None => missing \cap (LoanGaps \cup CostGaps) # {}
      BY <1>1, <2>1 DEF IInv, GapsSoFar, NothingToCompare
    <2>2. ASSUME recommendation # None, recommendation.loan = "INFEASIBLE"
          PROVE  /\ call.candidates /\ loans # None
                 /\ ~loans.unresolved /\ loans.executable = << >>
      <3>1. LoanStatus(loans, call.required, recommendation.primary) = "INFEASIBLE"
        BY <1>1, <2>2, RecommendationFacts DEF IInv
      <3>2. /\ loans # None /\ call.required # 0 /\ recommendation.primary = None
            /\ ~loans.unresolved
        BY <3>1 DEF LoanStatus
      <3>3. loans.executable = << >>
        BY <1>1, <2>2, <3>2, RecommendationFacts DEF IInv
      <3> QED BY <1>1, <3>2, <3>3 DEF IInv, GapsSoFar
    <2> QED BY <2>1, <2>2 DEF GapsAreNamed
  <1> QED BY <1>1, Invariance, PTL

\* A purchase judged to work is funded by what earlier sections computed.
THEOREM PurchasesAreFunded == Spec => []FundedByWhatWasComputed
  <1>1. ASSUME IInv PROVE FundedByWhatWasComputed
    <2> SUFFICES ASSUME strategy # None PROVE FundedByWhatWasComputed
      BY DEF FundedByWhatWasComputed
    <2>1. /\ recommendation # None /\ homes = call.homes
          /\ strategy = Compare(recommendation, homes, call.equity, call.extra,
                                FutureCapacity, verdicts)
      BY <1>1 DEF IInv, StrategyIsOf
    <2>2. /\ strategy.early = [j \in DOMAIN homes |->
                Judge(homes[j].early, call.equity, EarlyLoan(recommendation))]
          /\ strategy.asset = [j \in DOMAIN homes |->
                Judge(homes[j].later, AccumulatedEquity(recommendation, call.extra),
                      FutureCapacity)]
      BY <2>1 DEF Compare
    <2>3. /\ call.equity \in Nat /\ call.extra \in Nat /\ call.planned \in Nat \cup {None}
          /\ homes \in Seq(CostScenario)
      BY <1>1, <2>1, CallType DEF IInv, TypeOK
    <2>4. \A j \in DOMAIN homes : homes[j].early \in Nat /\ homes[j].later \in Nat
      <3>1. \A j \in DOMAIN homes : homes[j] \in CostScenario
        BY <2>3, ElementOfSeq
      <3> QED BY <3>1 DEF CostScenario
    <2>5. recommendation.primary # None =>
            /\ loans # None /\ recommendation.primary \in Executable(loans)
            /\ recommendation.primary.amount \in Nat
      BY <1>1, <2>1, RecommendationFacts, RecommendationAssumption
         DEF IInv, LoanOffer, Amounts
    <2>6. ASSUME NEW i \in DOMAIN strategy.early, strategy.early[i] = "PASS"
          PROVE  \/ call.equity >= homes[i].early
                 \/ loans # None /\ \E o \in Executable(loans) :
                        call.equity + o.amount >= homes[i].early
      <3>1. i \in DOMAIN homes
            /\ Judge(homes[i].early, call.equity, EarlyLoan(recommendation)) = "PASS"
        BY <2>2, <2>6
      <3>2. \/ call.equity >= homes[i].early
            \/ /\ EarlyLoan(recommendation) # None
               /\ call.equity + EarlyLoan(recommendation) >= homes[i].early
        BY <3>1 DEF Judge
      <3>3. CASE recommendation.primary # None
        BY <2>5, <3>2, <3>3 DEF EarlyLoan
      <3>4. CASE recommendation.primary = None
        BY <2>3, <3>2, <3>4 DEF EarlyLoan
      <3> QED BY <3>3, <3>4
    <2>7. ASSUME NEW i \in DOMAIN strategy.asset, strategy.asset[i] = "PASS"
          PROVE  LET saved == call.extra + (IF savings.status \in {"COMPLETE", "PARTIAL"}
                                            THEN savings.maturity ELSE 0) IN
                 /\ savings.policy = "PASS"
                 /\ \/ saved >= homes[i].later
                    \/ call.planned # None /\ saved + call.planned >= homes[i].later
                    \/ /\ call.planned = None /\ loans # None
                       /\ \E o \in Executable(loans) : saved + o.amount >= homes[i].later
      <3> DEFINE saved == call.extra + (IF savings.status \in {"COMPLETE", "PARTIAL"}
                                        THEN savings.maturity ELSE 0)
                 equity == AccumulatedEquity(recommendation, call.extra)
      <3>1. i \in DOMAIN homes /\ Judge(homes[i].later, equity, FutureCapacity) = "PASS"
        BY <2>2, <2>7
      <3>2. /\ equity # None
            /\ \/ equity >= homes[i].later
               \/ FutureCapacity # None /\ equity + FutureCapacity >= homes[i].later
        BY <3>1 DEF Judge
      <3>3. /\ recommendation.plan = savings
            /\ recommendation.savings = SavingsStatus(savings)
            /\ savings \in SavingsPlan \cup {None}
        BY <1>1, <2>1, RecommendationFacts DEF IInv, TypeOK
      <3>4. recommendation.savings \in {"READY", "PARTIAL", "NOT_REQUIRED"}
        BY <3>2 DEF AccumulatedEquity
      <3>5. savings # None /\ savings.policy = "PASS" /\ equity = saved
        BY <2>3, <3>3, <3>4, SavingsStatusOf DEF AccumulatedEquity
      <3>6. saved \in Nat
        <4>1. savings.maturity \in Nat
          BY <3>3, <3>5, RecommendationAssumption DEF SavingsPlan, Amounts
        <4> QED BY <2>3, <4>1
      <3> HIDE DEF saved, equity
      <3>7. CASE call.planned # None
        BY <3>2, <3>5, <3>7 DEF FutureCapacity, saved
      <3>8. CASE call.planned = None /\ recommendation.primary # None
        BY <2>5, <3>2, <3>5, <3>8 DEF FutureCapacity, saved
      <3>9. CASE call.planned = None /\ recommendation.primary = None
        <4>1. saved >= homes[i].later
          BY <3>2, <3>5, <3>6, <3>9 DEF FutureCapacity
        <4> QED BY <3>5, <4>1 DEF saved
      <3> QED BY <3>7, <3>8, <3>9
    <2> QED BY <2>6, <2>7 DEF FundedByWhatWasComputed
  <1> QED BY <1>1, Invariance, PTL
=============================================================================
