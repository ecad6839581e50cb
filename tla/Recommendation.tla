----------------------------- MODULE Recommendation -----------------------------
(***************************************************************************)
(* services/recommendation.py and engines/recommendation: what a           *)
(* simulation recommends from a loan result and a savings plan. The        *)
(* options that can be executed are ranked, the savings plan counts only   *)
(* with the verdict of its product rules, and each keeps its own status.   *)
(*                                                                         *)
(* The score of an option is taken as given, with its completeness as one  *)
(* rank; None stands for a score that is UNAVAILABLE. A score is never     *)
(* COMPLETE: the total cost enters it only for options that lend all that  *)
(* is required, and loan_max stays below its target.                       *)
(***************************************************************************)
EXTENDS Integers, Sequences, FiniteSetsExt

CONSTANTS Rates, MaxMonths, MaxAmount,
          Payment(_, _, _),     \* monthly payment: rate, months, principal
          Tolerance,            \* loan_amount_tolerance
          None

Months == 1..MaxMonths
Amounts == 0..MaxAmount

ASSUME RecommendationAssumption ==
    /\ Rates \subseteq Nat /\ 0 \in Rates
    /\ MaxMonths \in Nat \ {0} /\ MaxAmount \in Nat /\ Tolerance \in Nat
    /\ None \notin Int /\ None \notin {"PASS", "FAIL", "UNKNOWN"}

ASSUME PaymentAssumption ==
    \A r, s \in Rates, m, n \in Months, p, q \in Amounts :
        /\ Payment(r, m, p) \in Nat
        /\ (r <= s /\ n <= m /\ p <= q) => Payment(r, m, p) <= Payment(s, n, q)

Shocks == {"APPLIES", "NOT_APPLIES", "UNKNOWN"}

\* An executable option; shock says whether a rise of the rates reaches it.
LoanOffer == [amount : Amounts, rate : Rates, months : Months, shock : Shocks,
              score : Nat \cup {None}]

\* unresolved: some option, or the regulation, lacked an input.
LoanResult == [executable : Seq(LoanOffer), unresolved : BOOLEAN]

\* monthly is what the instalment savings of the plan take every month, policy
\* the verdict of the last pass over the product rules (None: nobody passed).
SavingsPlan ==
    [status : {"COMPLETE", "PARTIAL", "INFEASIBLE", "NO_ALLOCATION_REQUIRED"},
     policy : {"PASS", "FAIL", "UNKNOWN", None}, monthly : Amounts, maturity : Amounts]

Statuses == {"NOT_REQUESTED", "NOT_REQUIRED", "READY", "PARTIAL", "INFEASIBLE", "UNKNOWN"}

-------------------------------------------------------------------------------
\* An option that misses the required amount by no more than the tolerance
\* covers it.
Covers(o, required) == required - o.amount <= Tolerance

Score(o) == IF o.score = None THEN -1 ELSE o.score

\* _loan_sort_key: cover, then score, then amount; names break the last ties.
RanksFirst(o, p, required) ==
    \/ Covers(o, required) /\ ~Covers(p, required)
    \/ /\ Covers(o, required) = Covers(p, required)
       /\ \/ Score(o) > Score(p)
          \/ Score(o) = Score(p) /\ o.amount >= p.amount

Executable(result) == {result.executable[i] : i \in 1..Len(result.executable)}

\* The options that may become primary. Nothing is chosen if nothing is needed.
Primaries(result, required) ==
    IF result = None \/ required = 0 THEN {None}
    ELSE IF result.executable = << >> THEN {None}
    ELSE {o \in Executable(result) :
            \A p \in Executable(result) : RanksFirst(o, p, required)}

\* Fault: the term of the first option is taken for the term of all.
OneTermUnchecked(result) == TRUE

\* _loan_input compares options of one term only and raises otherwise.
OneTerm(result) ==
    \A o, p \in Executable(result) : o.months = p.months

\* recommend_loans. READY needs an amount that reaches the required one.
LoanStatus(result, required, primary) ==
    IF result = None THEN "NOT_REQUESTED"
    ELSE IF required = 0 THEN "NOT_REQUIRED"
    ELSE IF primary = None THEN IF result.unresolved THEN "UNKNOWN" ELSE "INFEASIBLE"
    ELSE IF primary.amount < required THEN "PARTIAL" ELSE "READY"

\* _savings_input: a plan nobody validated is UNKNOWN.
PolicyStatus(plan) == IF plan.policy = None THEN "UNKNOWN" ELSE plan.policy

PlanStatus(plan) ==
    CASE plan.status = "COMPLETE" -> "READY"
      [] plan.status = "PARTIAL" -> "PARTIAL"
      [] plan.status = "NO_ALLOCATION_REQUIRED" -> "NOT_REQUIRED"
      [] plan.status = "INFEASIBLE" -> "INFEASIBLE"

\* Fault: only a plan that failed its rules is kept back.
SavingsStatusTrusting(plan) ==
    IF plan = None THEN "NOT_REQUESTED"
    ELSE IF PolicyStatus(plan) = "FAIL" THEN "INFEASIBLE" ELSE PlanStatus(plan)

\* recommend_savings: the verdict of the product rules comes before the plan.
SavingsStatus(plan) ==
    IF plan = None THEN "NOT_REQUESTED"
    ELSE CASE PolicyStatus(plan) = "UNKNOWN" -> "UNKNOWN"
           [] PolicyStatus(plan) = "FAIL" -> "INFEASIBLE"
           [] PolicyStatus(plan) = "PASS" -> PlanStatus(plan)

\* _combined_status. A primary option always has an incomplete score.
CombinedStatus(loan, primary, savings) ==
    LET active == {loan, savings} \ {"NOT_REQUESTED", "NOT_REQUIRED"} IN
    IF "UNKNOWN" \in active \/ primary # None THEN "NEEDS_REVIEW"
    ELSE IF active \subseteq {"READY"} THEN "COMPLETE"
    ELSE IF active \cap {"READY", "PARTIAL"} # {} THEN "PARTIAL"
    ELSE "INFEASIBLE"

\* The term all options are compared in, the requested one if there is none.
ComparedMonths(result, requested) ==
    IF result.executable = << >> THEN requested ELSE result.executable[1].months

\* build_combined_recommendation, with one of the options that may be primary.
\* Without loans to rank it requires nothing and has no term.
Recommended(result, required, requested, primary, plan) ==
    [loan |-> LoanStatus(result, required, primary),
     required |-> IF result = None THEN 0 ELSE required,
     primary |-> primary,
     months |-> IF result = None \/ required = 0 THEN None
                ELSE ComparedMonths(result, requested),
     savings |-> SavingsStatus(plan),
     plan |-> plan,
     status |-> CombinedStatus(LoanStatus(result, required, primary), primary,
                               SavingsStatus(plan))]
=============================================================================
