------------------------------- MODULE Simulation -------------------------------
(***************************************************************************)
(* services/simulation_orchestrator.py, run_simulation: one simulation     *)
(* from its input to its assembled result. Savings and loans are simulated *)
(* as far as their inputs go, what comes of them is recommended, stressed, *)
(* stretched over a longer term (services/term_plans.py) and compared with *)
(* saving until the target date. A section that cannot run is left out and *)
(* what it lacks is named.                                                 *)
(*                                                                         *)
(* LoanResults and SavingsOutcomes are what simulate_loan_options (module  *)
(* LoanLimit) and simulate_savings_portfolio may answer. The cash flow and *)
(* the loan combinations (module LoanCombination) are reported next to     *)
(* the rest and decide nothing in it.                                      *)
(***************************************************************************)
EXTENDS Stress, Strategy

CONSTANTS Calls, LoanResults, SavingsOutcomes

LoanGaps == {"loan_request", "regulation_region", "loan_product_candidates"}
CostGaps == {"acquisition_costs", "scenario_total_purchase_cost"}
SavingsGaps == {"savings_request", "savings_inputs"}
OtherGaps == {"loan_inputs", "savings_policy_validation", "recommended_loan_option",
              "interest_rate_shock_applicability", "monthly_savings_commitment",
              "verified_savings_maturity_amount", "future_loan_capacity"}
Gaps == LoanGaps \cup CostGaps \cup SavingsGaps \cup OtherGaps

\* An input: does it ask for a loan, is its region known, is the regulation day
\* today, were products passed in? derived: the housing status tells how many
\* homes there will be. acquisition: the facts that price the purchase; homes
\* are its scenarios, handed in by the caller if given. plan: savings the caller
\* already has. planned: future_loan_capacity. late: the target date is past.
SimulationInput ==
    [asked : BOOLEAN, region : BOOLEAN, sameDay : BOOLEAN, candidates : BOOLEAN,
     derived : BOOLEAN, late : BOOLEAN, required : Amounts, months : Months,
     scenarios : Seq(StressScenario),
     acquisition : {"absent", "unsettled", "uncounted", "settled"},
     given : BOOLEAN, homes : Seq(CostScenario),
     equity : Nat, extra : Nat, planned : Nat \cup {None},
     plan : SavingsPlan \cup {None}]

Recommendations ==
    [loan : Statuses, required : Amounts, primary : LoanOffer \cup {None},
     months : Months \cup {None}, savings : Statuses, plan : SavingsPlan \cup {None},
     status : {"COMPLETE", "PARTIAL", "NEEDS_REVIEW", "INFEASIBLE"}]

Strategies ==
    [early : Seq(Judgements), asset : Seq(Judgements),
     status : {"COMPLETE", "PROVISIONAL", "INFEASIBLE", "UNAVAILABLE"}]

ASSUME InputAssumption ==
    /\ Calls \subseteq SimulationInput
    /\ LoanResults \subseteq LoanResult
    /\ SavingsOutcomes \subseteq [plan : SavingsPlan \cup {None}, lacks : SUBSET SavingsGaps]
    /\ None \notin LoanOffer \cup LoanResult \cup SavingsPlan \cup StressInput
                    \cup Recommendations \cup Strategies
    /\ \A c \in Calls : c.scenarios # << >> /\ c.homes # << >>
    /\ \A c \in Calls, r \in LoanResults :
        \A i \in DOMAIN c.scenarios, k \in DOMAIN r.executable :
            r.executable[k].rate + c.scenarios[i].raise \in Rates

VARIABLES call,
          stage,            \* the section whose turn it is
          requested,        \* the loan request could be built
          savings,          \* the savings plan, or None
          loans,            \* the loan result, or None
          recommendation, stress, verdicts,
          search,           \* the bisection for a resilient term
          plans,            \* the terms compared, or None
          homes,            \* the cost scenarios, << >> if there are none
          strategy,
          missing           \* what the sections say they lack

sections == <<requested, savings, loans, recommendation, stress, verdicts, search,
              plans, homes, strategy>>
vars == <<call, stage, sections, missing>>

Idle == [lo |-> 0, hi |-> 0]

Init ==
    /\ call \in Calls
    /\ stage = "request"
    /\ requested = FALSE
    /\ savings = None /\ loans = None /\ recommendation = None
    /\ stress = None /\ verdicts = None
    /\ search = Idle /\ plans = None
    /\ homes = << >> /\ strategy = None
    /\ missing = {}

Lacks(gaps) == missing' = missing \cup gaps

-------------------------------------------------------------------------------
\* Fault: a region that cannot be resolved goes unmentioned.
RequestGapsSilent ==
    IF ~call.asked THEN {"loan_request"} ELSE {}

\* What keeps build_loan_request from building a request.
RequestGaps ==
    IF ~call.asked THEN {"loan_request"}
    ELSE IF ~call.region THEN {"regulation_region"} ELSE {}

BuildLoanRequest ==
    /\ stage = "request"
    /\ stage' = "savings"
    /\ requested' = (call.asked /\ call.region)
    /\ Lacks(RequestGaps)
    /\ UNCHANGED <<call, savings, loans, recommendation, stress, verdicts, search,
                   plans, homes, strategy>>

\* A plan of the caller is not calculated again.
SimulateSavings ==
    /\ stage = "savings"
    /\ stage' = "loans"
    /\ \/ /\ call.plan # None
          /\ savings' = call.plan
          /\ UNCHANGED missing
       \/ /\ call.plan = None
          /\ \E outcome \in SavingsOutcomes :
                savings' = outcome.plan /\ Lacks(outcome.lacks)
    /\ UNCHANGED <<call, requested, loans, recommendation, stress, verdicts, search,
                   plans, homes, strategy>>

\* loan_max stays below the required amount; a term is never prolonged.
MayResult(result) ==
    \A i \in DOMAIN result.executable :
        /\ \/ result.executable[i].amount < call.required
           \/ result.executable[i].amount = 0
        /\ result.executable[i].months <= call.months

\* No product at all is an input that is missing, not a refusal.
SimulateLoans ==
    /\ stage = "loans"
    /\ stage' = "recommendation"
    /\ \/ /\ ~requested
          /\ UNCHANGED <<loans, missing>>
       \/ /\ requested /\ ~call.candidates
          /\ Lacks({"loan_product_candidates"})
          /\ UNCHANGED loans
       \/ /\ requested /\ call.candidates
          /\ \E result \in LoanResults :
                /\ MayResult(result)
                /\ loans' = result
                /\ Lacks({g \in {"loan_inputs"} : result.unresolved})
    /\ UNCHANGED <<call, requested, savings, recommendation, stress, verdicts, search,
                   plans, homes, strategy>>

-------------------------------------------------------------------------------
NothingToRecommend == loans = None /\ savings = None

\* recommend_from_results raises ValueError: the loan request has another day,
\* or its options do not have one term.
CannotRecommend == loans # None /\ (~call.sameDay \/ ~OneTerm(loans))

SkipRecommendation ==
    /\ stage = "recommendation" /\ NothingToRecommend
    /\ stage' = "homes"
    /\ UNCHANGED <<call, sections, missing>>

RecommendRaises ==
    /\ stage = "recommendation" /\ CannotRecommend
    /\ stage' = "raised"
    /\ UNCHANGED <<call, sections, missing>>

Recommend ==
    /\ stage = "recommendation" /\ ~NothingToRecommend /\ ~CannotRecommend
    /\ \E primary \in Primaries(loans, call.required) :
        recommendation' = Recommended(loans, call.required, call.months, primary, savings)
    /\ stage' = IF requested THEN "stress" ELSE "homes"
    /\ Lacks({g \in {"savings_policy_validation"} : savings # None /\ savings.policy = None})
    /\ UNCHANGED <<call, requested, savings, loans, stress, verdicts, search,
                   plans, homes, strategy>>

-------------------------------------------------------------------------------
\* build_stress_input checks the day again, also when no loan was simulated.
StressRaises ==
    /\ stage = "stress" /\ ~call.sameDay
    /\ stage' = "raised"
    /\ UNCHANGED <<call, sections, missing>>

\* What the scenarios lack (build_simulation_result collects it).
StressGaps(in, v) ==
    {g \in {"recommended_loan_option"} : in.blocked}
    \cup {g \in {"interest_rate_shock_applicability"} :
            /\ ~in.blocked
            /\ \E i \in DOMAIN v : AppliedRate(in, in.scenarios[i]) = None}
    \cup {g \in {"monthly_savings_commitment"} :
            /\ ~in.blocked /\ in.committed = None
            /\ \E i \in DOMAIN v : AppliedRate(in, in.scenarios[i]) # None}

RunStress ==
    /\ stage = "stress" /\ call.sameDay
    /\ stage' = "terms"
    /\ stress' = BuildStressInput(recommendation, call.months, call.scenarios)
    /\ verdicts' = RunStressTest(stress')
    /\ Lacks(StressGaps(stress', verdicts'))
    /\ UNCHANGED <<call, requested, savings, loans, recommendation, search,
                   plans, homes, strategy>>

-------------------------------------------------------------------------------
Stretchable == stress.months < call.months /\ Passes(stress, call.months)

\* compare_term_plans with nothing to repay, or with a term that passes, or
\* when not even the requested term does.
PlanBasisOnly ==
    /\ stage = "terms" /\ search = Idle
    /\ stress.principal = 0 \/ Overall(verdicts) = "PASS" \/ ~Stretchable
    /\ plans' = IF stress.principal = 0 THEN None
                ELSE [basis |-> stress.months, resilient |-> None]
    /\ stage' = "homes"
    /\ UNCHANGED <<call, requested, savings, loans, recommendation, stress, verdicts,
                   search, homes, strategy, missing>>

\* shortest_stress_resilient_months: lo is a term that does not pass, hi one
\* that does.
BeginStretch ==
    /\ stage = "terms" /\ search = Idle
    /\ stress.principal # 0 /\ Overall(verdicts) # "PASS" /\ Stretchable
    /\ search' = [lo |-> stress.months, hi |-> call.months]
    /\ UNCHANGED <<call, stage, requested, savings, loans, recommendation, stress,
                   verdicts, plans, homes, strategy, missing>>

Middle == (search.lo + search.hi) \div 2

\* Fault: the halves are swapped.
HalveStretchSwapped ==
    /\ stage = "terms" /\ search # Idle /\ search.hi - search.lo > 1
    /\ search' = IF Passes(stress, Middle) THEN [search EXCEPT !.lo = Middle]
                                           ELSE [search EXCEPT !.hi = Middle]
    /\ UNCHANGED <<call, stage, requested, savings, loans, recommendation, stress,
                   verdicts, plans, homes, strategy, missing>>

HalveStretch ==
    /\ stage = "terms" /\ search # Idle /\ search.hi - search.lo > 1
    /\ search' = IF Passes(stress, Middle) THEN [search EXCEPT !.hi = Middle]
                                           ELSE [search EXCEPT !.lo = Middle]
    /\ UNCHANGED <<call, stage, requested, savings, loans, recommendation, stress,
                   verdicts, plans, homes, strategy, missing>>

EndStretch ==
    /\ stage = "terms" /\ search # Idle /\ search.hi - search.lo <= 1
    /\ plans' = [basis |-> stress.months, resilient |-> search.hi]
    /\ search' = Idle
    /\ stage' = "homes"
    /\ UNCHANGED <<call, requested, savings, loans, recommendation, stress, verdicts,
                   homes, strategy, missing>>

-------------------------------------------------------------------------------
\* _with_derived_home_count: the number of homes comes from the loan request.
Priced ==
    \/ call.acquisition = "settled"
    \/ call.acquisition = "uncounted" /\ call.asked /\ call.derived

\* build_housing_cost_scenarios, unless the caller brought scenarios along.
BuildHomes ==
    /\ stage = "homes"
    /\ stage' = "strategy"
    /\ \/ /\ call.given \/ Priced
          /\ homes' = call.homes
          /\ UNCHANGED missing
       \/ /\ ~call.given /\ ~Priced
          /\ homes' = << >>
          /\ Lacks({IF call.acquisition = "absent" THEN "acquisition_costs"
                                                    ELSE "scenario_total_purchase_cost"})
    /\ UNCHANGED <<call, requested, savings, loans, recommendation, stress, verdicts,
                   search, plans, strategy>>

\* _future_loan_capacity: without a figure of the caller, what can be borrowed
\* today, nothing if nothing is required.
FutureCapacity ==
    IF call.planned # None THEN call.planned
    ELSE IF recommendation.primary # None THEN recommendation.primary.amount
    ELSE IF recommendation.required = 0 THEN 0 ELSE None

NothingToCompare == recommendation = None \/ homes = << >>

SkipStrategy ==
    /\ stage = "strategy" /\ NothingToCompare
    /\ stage' = "done"
    /\ UNCHANGED <<call, sections, missing>>

\* StrategyComparisonInput refuses a target date before today.
StrategyRaises ==
    /\ stage = "strategy" /\ ~NothingToCompare /\ call.late
    /\ stage' = "raised"
    /\ UNCHANGED <<call, sections, missing>>

StrategyGaps ==
    {g \in {"verified_savings_maturity_amount"} :
        recommendation.savings \notin {"READY", "PARTIAL", "NOT_REQUIRED"}}
    \cup {g \in {"future_loan_capacity"} : FutureCapacity = None}
    \cup {g \in {"recommended_loan_option"} :
            recommendation.primary = None /\ recommendation.required > 0}

CompareStrategies ==
    /\ stage = "strategy" /\ ~NothingToCompare /\ ~call.late
    /\ strategy' = Compare(recommendation, homes, call.equity, call.extra,
                           FutureCapacity, verdicts)
    /\ stage' = "done"
    /\ Lacks(StrategyGaps)
    /\ UNCHANGED <<call, requested, savings, loans, recommendation, stress, verdicts,
                   search, plans, homes>>

Next ==
    \/ BuildLoanRequest \/ SimulateSavings \/ SimulateLoans
    \/ SkipRecommendation \/ RecommendRaises \/ Recommend
    \/ StressRaises \/ RunStress
    \/ PlanBasisOnly \/ BeginStretch \/ HalveStretch \/ EndStretch
    \/ BuildHomes \/ SkipStrategy \/ StrategyRaises \/ CompareStrategies

Spec == Init /\ [][Next]_vars

-------------------------------------------------------------------------------
Stages == {"request", "savings", "loans", "recommendation", "stress", "terms",
           "homes", "strategy", "done", "raised"}

\* Every variable has its type.
TypeOK ==
    /\ call \in Calls
    /\ stage \in Stages
    /\ requested \in BOOLEAN
    /\ savings \in SavingsPlan \cup {None}
    /\ loans \in LoanResults \cup {None}
    /\ recommendation \in Recommendations \cup {None}
    /\ stress \in StressInput \cup {None}
    /\ verdicts \in Seq(Judgements) \cup {None}
    /\ search \in [lo : Months, hi : Months] \cup {Idle}
    /\ plans \in [basis : Months, resilient : Months \cup {None}] \cup {None}
    /\ homes \in {<< >>, call.homes}
    /\ strategy \in Strategies \cup {None}
    /\ missing \subseteq Gaps

\* The term offered against hard times passes every scenario and no shorter one
\* does; if none is offered, the requested term would not pass either.
ResilientIsShortest ==
    plans # None =>
        IF plans.resilient # None
        THEN /\ Passes(stress, plans.resilient)
             /\ plans.resilient <= call.months
             /\ \A m \in plans.basis..(plans.resilient - 1) : ~Passes(stress, m)
        ELSE Passes(stress, plans.basis) \/ ~Passes(stress, call.months)

\* A scenario that is harder in every respect is not passed where the easier
\* one is not (a bad rate, a swapped sign would turn a shock into a relief).
HarderNeverEasier ==
    verdicts # None =>
        \A i, k \in DOMAIN verdicts :
            (/\ call.scenarios[i].raise <= call.scenarios[k].raise
             /\ call.scenarios[k].dsr <= call.scenarios[i].dsr
             /\ call.scenarios[k].cash <= call.scenarios[i].cash
             /\ verdicts[k] = "PASS")
            => verdicts[i] = "PASS"

\* The months every section goes on with are those the recommended option
\* repays in, whatever was requested, and no option has others.
StressJudgesTheTermRepaid ==
    (stress # None /\ recommendation.primary # None) =>
        /\ stress.months = recommendation.primary.months
        /\ \A o \in Executable(loans) : o.months = stress.months

\* A savings plan that did not pass the last check of its product rules binds
\* no monthly saving in the stress test and gives the later purchase no money.
UnverifiedSavingsNeverCount ==
    (savings # None => savings.policy # "PASS") =>
        /\ stress # None => stress.committed \in {0, None}
        /\ strategy # None => \A i \in DOMAIN strategy.asset : strategy.asset[i] = "UNKNOWN"

\* A section that rests on the loan and was left out - the loans, the recommendation,
\* the stress test, the strategy - has a name for what it lacked, and a refusal was
\* calculated: from products, on a settled request. (What the savings lack is said by
\* the savings stage itself, in SavingsOutcomes.)
GapsAreNamed ==
    /\ stage = "done" =>
        /\ loans = None => missing \cap LoanGaps # {}
        /\ recommendation = None => missing \cap LoanGaps # {}
        /\ stress = None => missing \cap LoanGaps # {}
        /\ strategy = None => missing \cap (LoanGaps \cup CostGaps) # {}
    /\ (recommendation # None /\ recommendation.loan = "INFEASIBLE") =>
        /\ call.candidates /\ loans # None
        /\ ~loans.unresolved /\ loans.executable = << >>

\* A purchase that is said to work is paid for by what earlier sections
\* established: the equity, a validated plan, and what some executable option
\* really lends.
FundedByWhatWasComputed ==
    strategy # None =>
        /\ \A i \in DOMAIN strategy.early : strategy.early[i] = "PASS" =>
            \/ call.equity >= homes[i].early
            \/ loans # None /\ \E o \in Executable(loans) :
                    call.equity + o.amount >= homes[i].early
        /\ \A i \in DOMAIN strategy.asset : strategy.asset[i] = "PASS" =>
            LET saved == call.extra + (IF savings.status \in {"COMPLETE", "PARTIAL"}
                                       THEN savings.maturity ELSE 0) IN
            /\ savings.policy = "PASS"
            /\ \/ saved >= homes[i].later
               \/ call.planned # None /\ saved + call.planned >= homes[i].later
               \/ /\ call.planned = None /\ loans # None
                  /\ \E o \in Executable(loans) : saved + o.amount >= homes[i].later

\* routes/simulations.py: what cannot be settled is a section that did not run
\* with its missing inputs, never an error.
NeverRaises == stage # "raised"

\* simulation_orchestrator.py: a capacity of zero says that it was calculated
\* that no loan is needed, not that the capacity is unknown.
CapacityWasComputed ==
    (/\ stage = "strategy" /\ ~NothingToCompare
     /\ call.planned = None /\ FutureCapacity = 0) => loans # None

-------------------------------------------------------------------------------
(* The inductive strengthening: the sections are filled in order, each from
   the earlier ones as they still stand.                                    *)

InOrder ==
    /\ stage \in {"request", "savings"} => savings = None
    /\ stage \in {"request", "savings", "loans"} => loans = None
    /\ stage \in {"request", "savings", "loans", "recommendation"} => recommendation = None
    /\ recommendation = None => stress = None
    /\ stage = "stress" => recommendation # None /\ stress = None /\ requested
    /\ stage = "terms" => stress # None /\ plans = None
    /\ stress = None => plans = None /\ verdicts = None
    /\ search # Idle => stage = "terms"
    /\ stage \notin {"strategy", "done", "raised"} => homes = << >>
    /\ stage # "done" => strategy = None

RecommendationIsOf ==
    recommendation # None =>
        /\ ~NothingToRecommend
        /\ loans # None => OneTerm(loans)
        /\ \E primary \in Primaries(loans, call.required) :
            recommendation = Recommended(loans, call.required, call.months, primary, savings)

StressIsOf ==
    stress # None =>
        /\ stress = BuildStressInput(recommendation, call.months, call.scenarios)
        /\ verdicts = RunStressTest(stress)

\* The bracket of the bisection.
StretchBracket ==
    search # Idle =>
        /\ stress.months <= search.lo /\ search.lo < search.hi
        /\ search.hi <= call.months
        /\ Passes(stress, search.hi) /\ ~Passes(stress, search.lo)

StrategyIsOf ==
    strategy # None =>
        /\ recommendation # None /\ homes = call.homes
        /\ strategy = Compare(recommendation, homes, call.equity, call.extra,
                              FutureCapacity, verdicts)

\* The gaps are named when the section is passed over.
GapsSoFar ==
    /\ requested => call.asked /\ call.region
    /\ (stage # "request" /\ ~requested) => missing \cap LoanGaps # {}
    /\ (stage \notin {"request", "savings", "loans"} /\ loans = None)
            => missing \cap LoanGaps # {}
    /\ loans # None => requested /\ call.candidates
    /\ (stage \in {"homes", "strategy", "done"} /\ recommendation = None) => loans = None
    /\ (stage \in {"homes", "strategy", "done"} /\ stress = None)
            => recommendation = None \/ ~requested
    /\ (stage \in {"strategy", "done"} /\ homes = << >>) => missing \cap CostGaps # {}
    /\ (stage = "done" /\ strategy = None) => NothingToCompare

IInv ==
    /\ TypeOK /\ InOrder /\ RecommendationIsOf /\ StressIsOf /\ StretchBracket
    /\ StrategyIsOf /\ GapsSoFar /\ ResilientIsShortest
=============================================================================
