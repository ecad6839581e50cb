--------------------------- MODULE SavingsPortfolio ---------------------------
(***************************************************************************)
(* services/savings_portfolio.py with the engine below it: one request for *)
(* a savings portfolio. The budgets are read from the request or derived   *)
(* from the cash flow, the products are routed by their rules with the     *)
(* whole budget as the amount, each rate option is evaluated, the budgets  *)
(* are distributed over at most three products, and the amounts that came  *)
(* out are put to the rules once more. An option whose amount the rules    *)
(* then refuse is dropped for good and the rest is distributed again.      *)
(*                                                                         *)
(* Amounts are whole units of 100 won; what is left of a protection room   *)
(* that does not divide is less than a unit. Interest is simple and is     *)
(* kept per mille of the principal over the term. The score of an option   *)
(* weighs its rate against its distance to the day the money is needed;    *)
(* which of the two prevails is left open (request.prefers), and so are    *)
(* ties of the interest (the code then compares the scores).               *)
(***************************************************************************)
EXTENDS ProductPacks, Cashflow, Functions, Sequences

CONSTANTS Options,              \* the rate options of the products in the database
          SavingsRequests       \* the requests that may arrive

Institutions == {"KB"}
Bases == {"MONTHLY", "LUMP_SUM"}

\* NormalizedSavingsOption with the product it belongs to: base rate in basis
\* points (no bonus is assumed), term in months. The id is the place of the
\* candidate_id in the order of these texts.
Option ==
    [id : Nat, name : STRING, institution : Institutions, term : Nat \ {0}, rate : Nat]

\* SavingsRequestInput, what _user_facts reads of the profile, and the snapshot
\* the cash flow is diagnosed from. The day the money is needed is given in
\* months from as_of.
SavingsRequest ==
    [present : BOOLEAN, asOf : Nat, candidates : SUBSET Options,
     monthly : Nat \cup {None}, lumpSum : Nat \cup {None}, needed : Nat,
     existing : [Institutions -> Nat], maxProducts : 1..3, timing : {"BEGINNING", "END"},
     prefers : {"rate", "maturity"}, age : Nat, applicantType : ApplicantTypes \cup {None},
     isFirst : {"yes", "no", None}, snapshot : Snapshot, months : EmergencyMonths]

ASSUME SavingsAssumption ==
    /\ Options \subseteq Option /\ \A o, p \in Options : o.id = p.id => o = p
    /\ SavingsRequests \subseteq SavingsRequest

VARIABLES savingsRequest, savingsPhase, budgets, active, portfolio, removed

savingsVars == <<savingsRequest, savingsPhase, budgets, active, portfolio, removed>>

-------------------------------------------------------------------------------
\* get_deposit_protection_limit; None before the first period.
ProtectionLimit(day) ==
    IF day >= 20250901 THEN 100 * Million
    ELSE IF day >= 20010101 THEN 50 * Million ELSE None

\* The pack behind an option. Registered packs make it unique.
PackOf(o, r) == CHOOSE p \in Resolved(PRODUCT_RULE_PACKS, o.name, r.asOf) : TRUE

\* How long a unit of the principal earns interest, in half months: all of the term,
\* or half of it on average, half a month more or less as the instalments are paid
\* at the beginning or the end of the month.
DepositHalfMonths(o) == 2 * o.term
InstalmentHalfMonths(o, timing) == IF timing = "BEGINNING" THEN o.term + 1 ELSE o.term - 1

\* calculate_savings with simple interest, after 15.4 % tax: per mille of the principal.
NetPerMille(o, basis, timing) ==
    LET halfMonths == IF basis = "LUMP_SUM" THEN DepositHalfMonths(o)
                      ELSE InstalmentHalfMonths(o, timing) IN
    (o.rate * halfMonths * 846) \div 240000

\* SavingsPortfolioCandidate, prepared: what an option allows, and the principal
\* and the interest (per mille) that a unit of allocation comes to.
Candidate(o, r) ==
    LET pack == PackOf(o, r)
        basis == IF pack.category = "TERM_DEPOSIT" THEN "LUMP_SUM" ELSE "MONTHLY" IN
    [option |-> o, basis |-> basis, low |-> Minimum(pack), high |-> Maximum(pack),
     principal |-> IF basis = "LUMP_SUM" THEN 1 ELSE o.term,
     net |-> NetPerMille(o, basis, r.timing)]

Candidates(r) == {Candidate(o, r) : o \in r.candidates}

\* _user_facts: only what is known is filled in.
UserFacts(r, deposit, monthly) ==
    [f \in Fields |->
        CASE f = "age" -> r.age
          [] f = "deposit_amount" -> deposit
          [] f = "monthly_payment_amount" -> monthly
          [] f = "applicant_type" -> r.applicantType
          [] f = "is_first_payment" -> r.isFirst
          [] OTHER -> None]

\* What the protection of an institution has room for, besides what is there.
ProtectionLeft(r, institution) == ProtectionLimit(r.asOf) - r.existing[institution]

\* evaluate_savings_option: the two ways an option is not eligible. The third, a
\* principal at risk, does not occur: the service states that it is protected.
Eligible(c, r) == c.option.term <= r.needed /\ ProtectionLeft(r, c.option.institution) > 0

\* _candidate_value as an order: rate and closeness to the day of need, then the
\* candidate_id.
ComesFirst(r, c, d) ==
    LET key(x) == IF r.prefers = "rate" THEN <<x.option.rate, x.option.term>>
                  ELSE <<x.option.term, x.option.rate>> IN
    \/ key(c)[1] > key(d)[1]
    \/ key(c)[1] = key(d)[1] /\ key(c)[2] > key(d)[2]
    \/ key(c) = key(d) /\ c.option.id < d.option.id

-------------------------------------------------------------------------------
\* A plan maps the selected candidates to their amounts.
Allocated(plan, basis) == SumFunctionOnSet(plan, {c \in DOMAIN plan : c.basis = basis})

\* What a unit of allocation comes to at the end, in mille.
MaturityPerUnit(c) == c.principal * (1000 + c.net)

\* The maturity amounts at an institution, in mille; all count as protected.
Protected(plan, institution) ==
    SumFunctionOnSet([c \in DOMAIN plan |-> plan[c] * MaturityPerUnit(c)],
                     {c \in DOMAIN plan : c.option.institution = institution})

\* _expected_net_interest
Interest(plan) == SumFunction([c \in DOMAIN plan |-> plan[c] * (c.principal * c.net)]) \div 1000

\* _institution_capacity, in units of the allocation.
ProtectionRoom(plan, c, r) ==
    LET i == c.option.institution IN
    (ProtectionLeft(r, i) * 1000 - Protected(plan, i)) \div MaturityPerUnit(c)

\* What a plan must keep to: the budgets and the protection of each institution.
WithinLimits(plan, b, r) ==
    /\ \A basis \in Bases : Allocated(plan, basis) <= b[basis]
    /\ \A i \in Institutions : Protected(plan, i) <= ProtectionLeft(r, i) * 1000

AtMinimum(ranked) == [c \in Range(ranked) |-> c.low]

Capacity(plan, c) == IF c.high = None THEN {} ELSE {c.high - plan[c]}

\* What is added to an option: the budget left, its own cap, the protection.
Increment(plan, c, b, r) ==
    Min({b[c.basis] - Allocated(plan, c.basis), ProtectionRoom(plan, c, r)}
            \cup Capacity(plan, c))

Raised(plan, c, b, r) == [plan EXCEPT ![c] = @ + Larger(0, Increment(plan, c, b, r))]

\* _allocate_subset: each option is put on top of its minimum, one after the other.
Filled(ranked, b, r) ==
    LET plan[n \in 0..Len(ranked)] ==
            IF n = 0 THEN AtMinimum(ranked) ELSE Raised(plan[n - 1], ranked[n], b, r) IN
    plan[Len(ranked)]

\* The combinations of at most maxProducts options, one option per product, each in
\* the order of value.
Combinations(candidates, r) ==
    {ranked \in UNION {[1..k -> candidates] : k \in 1..r.maxProducts} :
        \A i, j \in DOMAIN ranked :
            i < j => /\ ComesFirst(r, ranked[i], ranked[j])
                     /\ ranked[i].option.name # ranked[j].option.name}

\* Those whose minimums fit, filled.
Plans(candidates, b, r) ==
    {Filled(x, b, r) :
        x \in {y \in Combinations(candidates, r) : WithinLimits(AtMinimum(y), b, r)}}

\* _is_complete
IsComplete(plan, b) == \A basis \in Bases : Allocated(plan, basis) = b[basis]

\* Fault: among plans of one completeness, the one that spends more wins.
SpendingRank(plan, b) ==
    <<IF IsComplete(plan, b) THEN 1 ELSE 0,
      Allocated(plan, "MONTHLY") + Allocated(plan, "LUMP_SUM")>>

\* _plan_is_better: complete plans first, then the interest earned.
Rank(plan, b) == <<IF IsComplete(plan, b) THEN 1 ELSE 0, Interest(plan)>>

Outranks(x, y) == x[1] > y[1] \/ (x[1] = y[1] /\ x[2] > y[2])

\* Every plan with its rank.
PlansByRank(candidates, b, r) == {<<p, Rank(p, b)>> : p \in Plans(candidates, b, r)}

\* The results build_savings_portfolio may come to. Without a plan the result is
\* INFEASIBLE and allocates nothing.
Best(plans) == {x[1] : x \in {y \in plans : \A z \in plans : ~Outranks(z[2], y[2])}}

Portfolios(candidates, b, r) ==
    UNION {IF plans = {} THEN {<<>>} ELSE Best(plans) : plans \in {PlansByRank(candidates, b, r)}}

-------------------------------------------------------------------------------
SavingsInit ==
    /\ savingsRequest = None
    /\ savingsPhase = "idle"
    /\ budgets = None
    /\ active = {} /\ portfolio = <<>> /\ removed = {}

\* The endpoint calls simulate_savings_portfolio.
AskSavings(r) ==
    /\ savingsPhase = "idle"
    /\ savingsRequest' = r /\ savingsPhase' = "reading"
    /\ UNCHANGED <<budgets, active, portfolio, removed>>

SavingsBlocked(r) ==
    \/ ~r.present
    \/ r.candidates = {}
    \/ ProtectionLimit(r.asOf) = None
    \/ r.monthly = None /\ Diagnosed(r.snapshot, r.months).housing = None

BlockSavings ==
    /\ savingsPhase = "reading" /\ SavingsBlocked(savingsRequest)
    /\ savingsPhase' = "blocked"
    /\ UNCHANGED <<savingsRequest, budgets, active, portfolio, removed>>

\* _resolve_budget: what the request states is used as it is.
BudgetsOf(r) ==
    LET flow == Diagnosed(r.snapshot, r.months) IN
    [MONTHLY |-> IF r.monthly = None THEN flow.housing ELSE r.monthly,
     LUMP_SUM |-> IF r.lumpSum = None THEN flow.usable ELSE r.lumpSum]

ResolveBudget ==
    /\ savingsPhase = "reading" /\ ~SavingsBlocked(savingsRequest)
    /\ budgets' = BudgetsOf(savingsRequest)
    /\ savingsPhase' = "routing"
    /\ UNCHANGED <<savingsRequest, active, portfolio, removed>>

\* A product without a pack on the day: ProductRulePackNotFoundError is not caught.
PackMissing ==
    /\ savingsPhase = "routing"
    /\ \E o \in savingsRequest.candidates :
        Resolved(PRODUCT_RULE_PACKS, o.name, savingsRequest.asOf) = {}
    /\ savingsPhase' = "raised"
    /\ UNCHANGED <<savingsRequest, budgets, active, portfolio, removed>>

\* The options that get as far as the distribution: their product passes with
\* the whole budget as the amount, there is something to put into them (a budget
\* of nothing is not a positive amount), and they are eligible.
Forwardable(r, b) ==
    {c \in Candidates(r) :
        /\ Status(PackOf(c.option, r), UserFacts(r, b["LUMP_SUM"], b["MONTHLY"])) = "PASS"
        /\ b[c.basis] > 0}

\* route_product_candidates and _evaluated_candidates. Options that are not
\* eligible are candidates too: build_savings_portfolio leaves them out.
RouteSavings ==
    LET r == savingsRequest IN
    /\ savingsPhase = "routing"
    /\ \A o \in r.candidates : Resolved(PRODUCT_RULE_PACKS, o.name, r.asOf) # {}
    /\ active' = Forwardable(r, budgets)
    /\ savingsPhase' = IF Forwardable(r, budgets) = {} THEN "blocked" ELSE "building"
    /\ UNCHANGED <<savingsRequest, budgets, portfolio, removed>>

\* build_savings_portfolio: options that are not eligible are left out.
BuildPortfolio ==
    LET r == savingsRequest IN
    /\ savingsPhase = "building"
    /\ portfolio' \in Portfolios({c \in active : Eligible(c, r)}, budgets, r)
    /\ savingsPhase' = "checking"
    /\ UNCHANGED <<savingsRequest, budgets, active, removed>>

\* revalidate_savings_portfolio_policy: the facts with the amount of the
\* allocation in place of the budget.
Accepted(c, amount, r, b) ==
    Status(PackOf(c.option, r),
           IF c.basis = "LUMP_SUM" THEN UserFacts(r, amount, b["MONTHLY"])
           ELSE UserFacts(r, b["LUMP_SUM"], amount)) = "PASS"

Rejected(plan, r, b) == {c \in DOMAIN plan : ~Accepted(c, plan[c], r, b)}

\* Fault: the portfolio is delivered as it was built.
DeliverUnchecked ==
    /\ savingsPhase = "checking"
    /\ savingsPhase' = "delivered"
    /\ UNCHANGED <<savingsRequest, budgets, active, portfolio, removed>>

DeliverPortfolio ==
    /\ savingsPhase = "checking"
    /\ Rejected(portfolio, savingsRequest, budgets) = {}
    /\ savingsPhase' = "delivered"
    /\ UNCHANGED <<savingsRequest, budgets, active, portfolio, removed>>

\* Fault: what was rejected stays among the candidates.
DropNothing ==
    LET rejected == Rejected(portfolio, savingsRequest, budgets) IN
    /\ savingsPhase = "checking" /\ rejected # {}
    /\ removed' = removed \cup rejected
    /\ savingsPhase' = "building"
    /\ UNCHANGED <<savingsRequest, budgets, active, portfolio>>

DropRejected ==
    LET rejected == Rejected(portfolio, savingsRequest, budgets) IN
    /\ savingsPhase = "checking" /\ rejected # {}
    /\ removed' = removed \cup rejected
    /\ active' = active \ rejected
    /\ savingsPhase' = "building"
    /\ UNCHANGED <<savingsRequest, budgets, portfolio>>

SavingsStep ==
    \/ BlockSavings \/ ResolveBudget \/ PackMissing \/ RouteSavings
    \/ BuildPortfolio \/ DeliverPortfolio \/ DropRejected

SavingsNext == SavingsStep \/ \E r \in SavingsRequests : AskSavings(r)

SavingsSafety == SavingsInit /\ [][SavingsNext]_savingsVars

SavingsSpec == SavingsSafety /\ WF_savingsVars(SavingsStep)

-------------------------------------------------------------------------------
CandidateRecord ==
    [option : Options, basis : Bases, low : Nat, high : Nat \cup {None}, principal : Nat,
     net : Nat]

SavingsTypeOK ==
    /\ savingsRequest \in SavingsRequests \cup {None}
    /\ savingsPhase \in {"idle", "reading", "blocked", "routing", "raised", "building",
                        "checking", "delivered"}
    /\ budgets \in [Bases -> Nat] \cup {None}
    /\ active \subseteq CandidateRecord /\ removed \subseteq CandidateRecord
    /\ DOMAIN portfolio \subseteq CandidateRecord
    /\ \A c \in DOMAIN portfolio : portfolio[c] \in Nat

Delivered == savingsPhase = "delivered"

\* What is delivered can be signed as it is: the amounts fit both budgets, they
\* stay, with what the household already has there, within the deposit protection
\* of the institution, and the rules of every product pass with the amount that is
\* put into it - not only with the budget it was routed with
\* (_build_and_revalidate).
PortfolioIsSound ==
    Delivered =>
        LET r == savingsRequest IN
        /\ DOMAIN portfolio # {} => WithinLimits(portfolio, budgets, r)
        /\ \A c \in DOMAIN portfolio : Accepted(c, portfolio[c], r, budgets)

\* Distributing over several products, and dropping what the rules refuse on the
\* way, never ends with less interest than a product that was not dropped would earn
\* alone (the history in _plan_is_better: ranking by what is spent, or by an average
\* score, chose worse plans). An answer that spends the budgets counts before one
\* that does not.
NoSingleProductEarnsMore ==
    Delivered =>
        LET r == savingsRequest IN
        \A c \in {x \in Forwardable(r, budgets) \ removed :
                    Eligible(x, r) /\ WithinLimits(AtMinimum(<<x>>), budgets, r)} :
            LET alone == Filled(<<c>>, budgets, r) IN
            /\ IsComplete(alone, budgets) => IsComplete(portfolio, budgets)
            /\ IsComplete(alone, budgets) = IsComplete(portfolio, budgets) =>
                    Interest(alone) <= Interest(portfolio)

\* With budgets derived from the cash flow, the deposits leave the emergency fund
\* in hand, and the instalments leave the safety buffer and the instalment of the
\* emergency fund in every month (_resolve_budget, calculate_cashflow).
ReserveIsKept ==
    Delivered /\ savingsRequest.monthly = None /\ savingsRequest.lumpSum = None =>
        LET r == savingsRequest
            s == r.snapshot
            monthly == Allocated(portfolio, "MONTHLY")
            lumpSum == Allocated(portfolio, "LUMP_SUM") IN
        /\ lumpSum > 0 => s.liquid - lumpSum >= Target(s, r.months)
        /\ monthly > 0 => Surplus(s) - monthly >= Buffer(s) + Contribution(s, r.months)

-------------------------------------------------------------------------------
\* The invariant the properties follow from: what each phase has found out. The
\* portfolio is always the best one over what is left of the forwardable options.
SavingsInv ==
    LET r == savingsRequest IN
    /\ SavingsTypeOK
    /\ savingsPhase # "idle" => r \in SavingsRequests
    /\ savingsPhase \in {"idle", "reading", "routing"} => removed = {}
    /\ savingsPhase \in {"routing", "building", "checking", "delivered"} =>
            ~SavingsBlocked(r) /\ budgets = BudgetsOf(r)
    /\ savingsPhase \in {"building", "checking", "delivered"} =>
            /\ \A o \in r.candidates : Resolved(PRODUCT_RULE_PACKS, o.name, r.asOf) # {}
            /\ active = Forwardable(r, budgets) \ removed
    /\ savingsPhase \in {"checking", "delivered"} =>
            portfolio \in Portfolios({c \in active : Eligible(c, r)}, budgets, r)
    /\ Delivered => Rejected(portfolio, r, budgets) = {}
===============================================================================
