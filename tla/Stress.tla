--------------------------------- MODULE Stress ---------------------------------
(***************************************************************************)
(* services/stress_simulation.py and engines/stress: whether a plan        *)
(* survives worse times. Every scenario raises the rate of the recommended *)
(* loan and lowers what income and expenses leave for it; a scenario is    *)
(* UNKNOWN, never passed, when something needed to judge it is not known.  *)
(***************************************************************************)
EXTENDS Recommendation

\* What a scenario leaves for the new loan: dsr a year under the safe DSR, cash
\* a month above the buffer. raise is the rise of the interest rate.
StressScenario == [raise : Nat, dsr : Int, cash : Int]

\* committed is the monthly saving of the plan, blocked a missing precondition.
StressInput ==
    [blocked : BOOLEAN, principal : Amounts, rate : Rates, months : Months,
     committed : Amounts \cup {None}, shock : Shocks, scenarios : Seq(StressScenario)]

-------------------------------------------------------------------------------
\* _monthly_savings_commitment
Commitment(recommendation) ==
    CASE recommendation.savings = "UNKNOWN" -> None
      [] recommendation.savings \in {"NOT_REQUESTED", "NOT_REQUIRED", "INFEASIBLE"} -> 0
      [] recommendation.savings \in {"READY", "PARTIAL"} -> recommendation.plan.monthly

\* Fault: the requested term is judged, not the one the plan repays in.
StressedTermRequested(recommendation, requested) == requested

\* The term is the one of the recommendation; only without loans the requested.
StressedTerm(recommendation, requested) ==
    IF recommendation.months = None THEN requested ELSE recommendation.months

\* build_stress_input. Nothing recommended is nothing to repay, unless a loan
\* is needed: then nothing can be judged.
BuildStressInput(recommendation, requested, scenarios) ==
    LET loan == recommendation.primary IN
    [blocked |-> loan = None /\ recommendation.required > 0,
     principal |-> IF loan = None THEN 0 ELSE loan.amount,
     rate |-> IF loan = None THEN 0 ELSE loan.rate,
     months |-> StressedTerm(recommendation, requested),
     committed |-> Commitment(recommendation),
     shock |-> IF loan = None THEN "NOT_APPLIES"
               ELSE IF loan.amount = 0 THEN "NOT_APPLIES" ELSE loan.shock,
     scenarios |-> scenarios]

-------------------------------------------------------------------------------
RateRises(in, s) == in.principal # 0 /\ s.raise # 0

\* Fault: the rise lowers the rate.
AppliedRateLowered(in, s) ==
    IF ~RateRises(in, s) \/ in.shock = "NOT_APPLIES" THEN in.rate
    ELSE IF in.shock = "APPLIES" THEN IF in.rate < s.raise THEN 0 ELSE in.rate - s.raise
    ELSE None

\* _applied_rate
AppliedRate(in, s) ==
    IF ~RateRises(in, s) \/ in.shock = "NOT_APPLIES" THEN in.rate
    ELSE IF in.shock = "APPLIES" THEN in.rate + s.raise
    ELSE None

\* The three checks: safe DSR, cash buffer, and the monthly saving out of what
\* the buffer leaves.
FailsSomeCheck(in, s) ==
    LET pay == Payment(AppliedRate(in, s), in.months, in.principal)
        spare == IF s.cash > pay THEN s.cash - pay ELSE 0 IN
    \/ 12 * pay > s.dsr
    \/ pay > s.cash
    \/ in.committed # None /\ in.committed > spare

\* evaluate_stress_scenario: a failed check outweighs an unknown saving.
ScenarioVerdict(in, s) ==
    IF in.blocked \/ AppliedRate(in, s) = None THEN "UNKNOWN"
    ELSE IF FailsSomeCheck(in, s) THEN "FAIL"
    ELSE IF in.committed = None THEN "UNKNOWN" ELSE "PASS"

\* run_stress_test
RunStressTest(in) == [i \in DOMAIN in.scenarios |-> ScenarioVerdict(in, in.scenarios[i])]

Overall(verdicts) ==
    IF \E i \in DOMAIN verdicts : verdicts[i] = "FAIL" THEN "FAIL"
    ELSE IF \E i \in DOMAIN verdicts : verdicts[i] = "UNKNOWN" THEN "UNKNOWN" ELSE "PASS"

\* _passes of services/term_plans.py: the same input in another term.
Passes(in, months) == Overall(RunStressTest([in EXCEPT !.months = months])) = "PASS"
=============================================================================
