-------------------------------- MODULE Strategy --------------------------------
(***************************************************************************)
(* services/strategy_comparison.py and engines/strategy: buy now with what *)
(* is there, or save until the target date? Both are judged over the same  *)
(* scenarios of the purchase cost. A figure nobody established is None and *)
(* makes the judgement UNKNOWN, neither zero nor a failure.                *)
(*                                                                         *)
(* The scores themselves are left out: the callers of src never supply     *)
(* enough of the weighted parts (MinimumCompleteness) for both strategies. *)
(***************************************************************************)
EXTENDS Recommendation

\* The cost of buying now and of buying at the target date.
CostScenario == [early : Nat, later : Nat]

Judgements == {"PASS", "FAIL", "UNKNOWN"}


MinimumCompleteness == 60       \* percent

Weight == [attainment |-> 35, cashflow |-> 25, cost |-> 20, timing |-> 10,
           flexibility |-> 10]

-------------------------------------------------------------------------------
\* evaluate_strategy_scenario: own money first; a loan is only looked at if it
\* does not suffice.
Judge(cost, equity, loan) ==
    IF equity = None THEN "UNKNOWN"
    ELSE IF equity >= cost THEN "PASS"
    ELSE IF loan = None THEN "UNKNOWN"
    ELSE IF equity + loan >= cost THEN "PASS" ELSE "FAIL"

\* Fault: buying now is credited with all that is required.
EarlyLoanRequired(recommendation) == recommendation.required

\* What a purchase now can borrow: the recommended amount, nothing if nothing
\* is required.
EarlyLoan(recommendation) ==
    IF recommendation.primary # None THEN recommendation.primary.amount
    ELSE IF recommendation.required = 0 THEN 0 ELSE None

\* _verified_accumulation_values: only a validated plan becomes equity.
AccumulatedEquity(recommendation, extra) ==
    IF recommendation.savings \in {"READY", "PARTIAL"}
    THEN extra + recommendation.plan.maturity
    ELSE IF recommendation.savings = "NOT_REQUIRED" THEN extra ELSE None

\* The shares of the score that can be computed (_evaluate_unscored and the
\* arguments run_simulation leaves out: no flexibility, no future cost).
EarlyParts(recommendation, judgements, stress) ==
    {"timing"}
    \cup {p \in {"attainment"} : \A i \in DOMAIN judgements : judgements[i] # "UNKNOWN"}
    \cup {p \in {"cashflow"} : /\ stress # None
                               /\ \A i \in DOMAIN stress : stress[i] # "UNKNOWN"}

AssetParts(recommendation, judgements) ==
    {p \in {"attainment"} : \A i \in DOMAIN judgements : judgements[i] # "UNKNOWN"}
    \cup {p \in {"timing"} : recommendation.savings \in {"READY", "PARTIAL"}}

Completeness(parts) == MapThenSumSet(LAMBDA p : Weight[p], parts)

\* The comparison of two scored strategies, None where the weight is missing.
ComparisonStatus(asset, early, assetParts, earlyParts) ==
    IF \A i \in DOMAIN asset : asset[i] = "FAIL" /\ early[i] = "FAIL" THEN "INFEASIBLE"
    ELSE IF \E parts \in {assetParts, earlyParts} :
                Completeness(parts) < MinimumCompleteness THEN "UNAVAILABLE"
    ELSE IF \A parts \in {assetParts, earlyParts} : Completeness(parts) = 100
         THEN "COMPLETE" ELSE "PROVISIONAL"

\* compare_recommended_purchase_strategies with compare_strategies.
Compare(recommendation, scenarios, equity, extra, capacity, stress) ==
    LET early == [i \in DOMAIN scenarios |->
                    Judge(scenarios[i].early, equity, EarlyLoan(recommendation))]
        asset == [i \in DOMAIN scenarios |->
                    Judge(scenarios[i].later,
                          AccumulatedEquity(recommendation, extra), capacity)] IN
    [early |-> early, asset |-> asset,
     status |-> ComparisonStatus(asset, early, AssetParts(recommendation, asset),
                                 EarlyParts(recommendation, early, stress))]
=============================================================================
