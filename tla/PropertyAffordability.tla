------------------------- MODULE PropertyAffordability -------------------------
(***************************************************************************)
(* services/property_affordability.py and property_affordability_api.py    *)
(* with engines/affordability: can this household buy this home? What the  *)
(* home costs is estimated, the emergency fund is set aside, the rest of   *)
(* the liquid assets pays first, and for what is then short a loan is      *)
(* looked for, within the limits of the region. What is not known stays    *)
(* unknown in the verdict; the result names it, and the user may come back *)
(* with it. A search assesses each of its listings on its own: this is one *)
(* of them.                                                                *)
(*                                                                         *)
(* The loan search is LoanCombination; here it may give any result that    *)
(* its invariants allow. Amounts are won.                                  *)
(***************************************************************************)
EXTENDS Regulations, PurchaseCosts, Cashflow

CONSTANTS HomeRequests,     \* the requests that may arrive
          Answers,          \* what the user may answer, of each missing input
          Shortages         \* by how much a loan plan may miss what is needed

\* PropertyAffordabilityCase and PropertyLoanProfile: the facts of the purchase,
\* the place (services pass its code only), the household, its housing status if a
\* loan is asked for at all, the day of the rules that apply to it if that is not
\* as_of, and the loan products of the catalog.
HomeRequest ==
    [costs : PurchaseCostInput, region : Region, code : {"valid", "invalid"},
     snapshot : Snapshot, months : EmergencyMonths, status : HousingStatus \cup {None},
     day : Nat \cup {None}, catalog : {"given", "empty", "failed"}]

CostFacts == LegalFacts \cup {"nationalScale", "registration"}
AnswerTo(input) ==
    IF input = "property_loan_profile" THEN HousingStatus
    ELSE IF input = "homes" THEN Nat \ {0}
    ELSE IF input = "registration" THEN Nat ELSE {"yes", "no"}

\* What is known of a LoanCombinationResult: what its best plan lends on the home
\* and without it, and whether the household can bear it in bad times.
LoanResult ==
    [result : {"UNRESOLVED", "INFEASIBLE", "PLAN"}, secured : Nat, credit : Nat,
     strained : BOOLEAN]

ASSUME NoneIsNoLoan == None \notin LoanResult
ASSUME HomeAssumption ==
    /\ HomeRequests \subseteq HomeRequest /\ Shortages \subseteq Nat
    /\ \A h \in HomeRequests : AsListed(h.region) /\ ListIsComplete(h.region)
    /\ DOMAIN Answers = CostFacts \cup {"property_loan_profile"}
    /\ \A input \in DOMAIN Answers : Answers[input] \subseteq AnswerTo(input)

VARIABLES home,             \* the request
          homePhase,        \* idle, costing, funding, judging, judged, unavailable
          homeCosts,        \* PurchaseCostResult
          ltvLimit,         \* the amount the region allows to be lent on the home
          homeLoan,         \* LoanCombinationResult, or None if there is none
          homeGaps,         \* missing_inputs
          verdict

homeVars == <<home, homePhase, homeCosts, ltvLimit, homeLoan, homeGaps, verdict>>

Verdicts == {"AFFORDABLE", "TIGHT", "SHORTFALL", "UNKNOWN", "UNSUPPORTED"}
LOAN_AMOUNT_TOLERANCE == 100000

ASSUME NoneIsNoVerdict == None \notin Verdicts

-------------------------------------------------------------------------------
\* usable_liquid_assets_after_target and the target of the emergency fund, in won.
FundsAtHand(h) == 100 * Diagnosed(h.snapshot, h.months).usable
FundTarget(h) == 100 * Target(h.snapshot, h.months)
LiquidAssets(h) == 100 * h.snapshot.liquid

\* evaluated_cost: the total, or as long as it is not known the minimum.
Evaluated(costs) == IF costs.total = None THEN costs.minimum ELSE costs.total

\* What the household is short of for a cost.
Short(h, cost) == Larger(0, cost - FundsAtHand(h))

\* _loan_funding_amount
LoanFunding(h, costs, loan) ==
    IF Short(h, Evaluated(costs)) = 0 THEN 0
    ELSE IF loan = None THEN None
    ELSE CASE loan.result = "PLAN" -> loan.secured + loan.credit
           [] loan.result = "INFEASIBLE" -> 0
           [] loan.result = "UNRESOLVED" -> None

\* A cost less what is lent for it.
Gap(h, cost, funding) == Larger(0, Short(h, cost) - funding)

\* What makes a purchase tight that can be paid.
Tight(h, costs, loan, funding) ==
    \/ Gap(h, Evaluated(costs), funding) > 0
    \/ LiquidAssets(h) < FundTarget(h)
    \/ Short(h, Evaluated(costs)) > 0 /\ loan.strained

\* Fault: costs that are not known are taken for nothing.
JudgedByMinimum(h, costs, loan) ==
    LET funding == LoanFunding(h, costs, loan) IN
    IF costs.status = "UNSUPPORTED" THEN "UNSUPPORTED"
    ELSE IF costs.status = "POLICY_OUT_OF_RANGE" \/ funding = None THEN "UNKNOWN"
    ELSE IF Gap(h, Evaluated(costs), funding) > LOAN_AMOUNT_TOLERANCE THEN "SHORTFALL"
    ELSE IF Tight(h, costs, loan, funding) THEN "TIGHT" ELSE "AFFORDABLE"

\* evaluate_property_affordability. Only a shortage can be told from the minimum.
Judgement(h, costs, loan) ==
    LET funding == LoanFunding(h, costs, loan) IN
    IF costs.status = "UNSUPPORTED" THEN "UNSUPPORTED"
    ELSE IF costs.status = "POLICY_OUT_OF_RANGE" \/ funding = None THEN "UNKNOWN"
    ELSE IF Gap(h, Evaluated(costs), funding) > LOAN_AMOUNT_TOLERANCE THEN "SHORTFALL"
    ELSE IF costs.total = None THEN "UNKNOWN"
    ELSE IF Tight(h, costs, loan, funding) THEN "TIGHT" ELSE "AFFORDABLE"

-------------------------------------------------------------------------------
HomeInit ==
    /\ home = None /\ homePhase = "idle" /\ homeCosts = None
    /\ ltvLimit = None /\ homeLoan = None /\ homeGaps = {} /\ verdict = None

AskHome(h) ==
    /\ homePhase = "idle"
    /\ home' = h /\ homePhase' = "costing"
    /\ UNCHANGED <<homeCosts, ltvLimit, homeLoan, homeGaps, verdict>>

\* get_property_loan_candidates: a catalog that cannot be read is answered with
\* 503, not taken for an empty one.
CatalogFails ==
    /\ homePhase = "costing" /\ home.catalog = "failed"
    /\ homePhase' = "unavailable"
    /\ UNCHANGED <<home, homeCosts, ltvLimit, homeLoan, homeGaps, verdict>>

EstimateCosts ==
    /\ homePhase = "costing" /\ home.catalog # "failed"
    /\ homeCosts' = PurchaseCosts(home.costs)
    /\ homeGaps' = homeCosts'.missing
    /\ ltvLimit' = None /\ homeLoan' = None
    /\ homePhase' = "funding"
    /\ UNCHANGED <<home, verdict>>

NeedsLoan == Short(home, Evaluated(homeCosts)) > 0
CanRunLoan == homeCosts.status \notin {"UNSUPPORTED", "POLICY_OUT_OF_RANGE"}

\* _loan_request_for_property: where the home is, under the rules of which day.
RulesDay(h) == IF h.day = None THEN h.costs.asOf ELSE h.day
ZoneOf(h) == ResolvedZone(h.region, [code |-> h.code, named |-> FALSE], RulesDay(h))

\* Why no loan was looked for, or {} if one is.
LoanMissing ==
    IF ~NeedsLoan THEN {}
    ELSE IF ~CanRunLoan THEN {"loan_combination"}
    ELSE IF home.status = None THEN {"property_loan_profile"}
    ELSE IF home.catalog = "empty" THEN {"loan_product_candidates"}
    ELSE IF ZoneOf(home) = None THEN {"regulation_region"} ELSE {}

GoWithoutLoan ==
    /\ homePhase = "funding"
    /\ ~NeedsLoan \/ LoanMissing # {}
    /\ homeGaps' = homeGaps \cup LoanMissing
    /\ homePhase' = "judging"
    /\ UNCHANGED <<home, homeCosts, ltvLimit, homeLoan, verdict>>

\* The limits of the region; the service never allows unverified ratios.
RegionRatio(h) == LtvRatio(ZoneOf(h), h.status, RulesDay(h), FALSE)
RegionDti(h) == DtiRatio(h.region.seoul, h.region.capital, RulesDay(h))
RegionStress(h) == StressRate(ZoneOf(h), h.region.capital, RulesDay(h))

Unresolved == [result |-> "UNRESOLVED", secured |-> 0, credit |-> 0, strained |-> FALSE]
Infeasible == [result |-> "INFEASIBLE", secured |-> 0, credit |-> 0, strained |-> FALSE]

\* simulate_loan_options: limits that are not known are not left out.
LimitUnknown ==
    /\ homePhase = "funding" /\ NeedsLoan /\ LoanMissing = {}
    /\ RegionRatio(home) = None \/ RegionDti(home) = None
    /\ homeLoan' = Unresolved
    /\ homeGaps' = homeGaps \cup {"ltv_limit_amount"}
    /\ homePhase' = "judging"
    /\ UNCHANGED <<home, homeCosts, ltvLimit, verdict>>

\* The results of combine_loan_options: nothing could be computed, no combination
\* fits, or the best one, which mortgages the home within the limit (not at all if
\* the stress rate of a mortgage is not known) and never lends more than is needed.
CombinationResults(required, limit, stress) ==
    LET mortgage == IF stress = None THEN 0 ELSE Smaller(required, limit)
        credits == {0} \cup {required - mortgage - x : x \in Shortages} IN
    {Unresolved, Infeasible}
        \cup {plan \in [result : {"PLAN"}, secured : {0, mortgage}, credit : credits,
                        strained : BOOLEAN] :
                plan.credit >= 0 /\ plan.secured + plan.credit \in 1..required}

Combine ==
    LET required == Short(home, Evaluated(homeCosts)) IN
    /\ homePhase = "funding" /\ NeedsLoan /\ LoanMissing = {}
    /\ RegionRatio(home) # None /\ RegionDti(home) # None
    /\ ltvLimit' = LtvLimit(home.costs.price, ZoneOf(home), home.region.capital,
                            RegionRatio(home), RulesDay(home))
    /\ homeLoan' \in CombinationResults(required, ltvLimit', RegionStress(home))
    /\ homeGaps' = homeGaps
            \cup (IF homeLoan' = Unresolved THEN {"loan_leg_candidates"} ELSE {})
    /\ homePhase' = "judging"
    /\ UNCHANGED <<home, homeCosts, verdict>>

Judge ==
    /\ homePhase = "judging"
    /\ verdict' = Judgement(home, homeCosts, homeLoan)
    /\ homePhase' = "judged"
    /\ UNCHANGED <<home, homeCosts, ltvLimit, homeLoan, homeGaps>>

\* The user asks again, with an answer to one of the inputs that are missing. A
\* home that is not housing cannot be of national housing scale.
SupplyCostFact ==
    /\ homePhase = "judged"
    /\ \E f \in homeGaps \cap CostFacts : \E a \in Answers[f] :
        /\ f = "registered" => ~(a = "no" /\ home.costs.nationalScale = "yes")
        /\ f = "nationalScale" => ~(a = "yes" /\ home.costs.registered = "no")
        /\ home' = [home EXCEPT !.costs[f] = a]
    /\ homePhase' = "costing" /\ verdict' = None
    /\ UNCHANGED <<homeCosts, ltvLimit, homeLoan, homeGaps>>

SupplyLoanProfile ==
    /\ homePhase = "judged" /\ "property_loan_profile" \in homeGaps
    /\ \E a \in Answers["property_loan_profile"] : home' = [home EXCEPT !.status = a]
    /\ homePhase' = "costing" /\ verdict' = None
    /\ UNCHANGED <<homeCosts, ltvLimit, homeLoan, homeGaps>>

HomeStep ==
    \/ CatalogFails \/ EstimateCosts \/ GoWithoutLoan \/ LimitUnknown \/ Combine \/ Judge

HomeNext ==
    \/ HomeStep \/ SupplyCostFact \/ SupplyLoanProfile
    \/ \E h \in HomeRequests : AskHome(h)

HomeSafety == HomeInit /\ [][HomeNext]_homeVars

HomeSpec == HomeSafety /\ WF_homeVars(HomeStep)

-------------------------------------------------------------------------------
HomeTypeOK ==
    /\ home \in HomeRequest \cup {None}
    /\ homePhase \in {"idle", "costing", "funding", "judging", "judged", "unavailable"}
    /\ homeCosts = None \/ homeCosts.minimum \in Nat
    /\ ltvLimit \in Nat \cup {None}
    /\ homeLoan \in LoanResult \cup {None}
    /\ verdict \in Verdicts \cup {None}

\* A purchase called affordable leaves the emergency fund whole: every cost is
\* known, the loan and the household's own money pay all of it to the won, and the
\* liquid assets that remain are still the target
\* (evaluate_property_affordability: the order of its checks).
ReserveSurvivesPurchase ==
    verdict = "AFFORDABLE" =>
        /\ homeCosts.total # None
        /\ LET lent == LoanFunding(home, homeCosts, homeLoan) IN
           LiquidAssets(home) - (homeCosts.total - lent) >= FundTarget(home)

\* Learning more about a purchase never makes it cheaper: the minimum that a
\* shortage is judged by only rises as unknown costs become known, and a total
\* that is known stays (estimate_purchase_costs: unknown is not zero, and not a
\* guess either).
MinimumNeverOverstates ==
    [][homeCosts # None =>
        /\ homeCosts'.minimum >= homeCosts.minimum
        /\ homeCosts.total # None => homeCosts'.total = homeCosts.total]_homeVars

\* The limit that a loan is computed with is never looser than the law of that day
\* at that place, whatever has been designated since the list was made
\* (resolve_region answers "not known" after DESIGNATION_LIST_VERIFIED_THROUGH).
\* Not so for a district whose code the list lacks (화성시 동탄구).
NeverLooserThanTheWorld ==
    ltvLimit # None /\ (home.region.coded \/ home.region.listed = None) =>
        LET day == RulesDay(home)
            zone == ZoneSince(day, home.region.designated)
            ratio == LtvRatio(zone, home.status, day, FALSE) IN
        ratio # None =>
            ltvLimit <= LtvLimit(home.costs.price, zone, home.region.capital, ratio, day)

\* A verdict that could not be reached says what it lacks (the result's
\* missing_inputs), so that the user can come back with it.
UnknownNamesItsGap == verdict = "UNKNOWN" => homeGaps # {}
===============================================================================
