----------------------------- MODULE PurchaseCosts -----------------------------
(***************************************************************************)
(* engines/purchase_costs: what buying a home costs besides its price. A   *)
(* cost that depends on a fact nobody has given is unknown, not zero: the  *)
(* minimum is the price and the costs that are known, and the total is     *)
(* known only if all of them are.                                          *)
(*                                                                         *)
(* Prices are in units of 100,000 won and costs in won, rounded down.      *)
(***************************************************************************)
EXTENDS Money

\* PurchaseCostInput. A flag is "yes", "no" or None.
Flag == {"yes", "no", None}
LegalFacts == {"corporation", "homes", "registered", "luxury"}
PurchaseCostInput ==
    {i \in [asOf : Nat, price : Nat \ {0}, corporation : Flag,
            homes : (Nat \ {0}) \cup {None}, registered : Flag, luxury : Flag,
            area : (Nat \ {0}) \cup {None}, nationalScale : Flag,
            registration : Nat \cup {None}] :
        ~(i.registered = "no" /\ i.nationalScale = "yes")}

\* PurchaseCostPolicy.supports
PolicyCovers(day) == 20260701 <= day /\ day <= 20261231

\* acquisition_tax_rate in parts of a million: between 600 and 900 million won it
\* rises from 1 to 3 per cent, rounded to four places.
AcquisitionTaxRate(price) ==
    IF price <= 6000 THEN 10000
    ELSE IF price > 9000 THEN 30000
    ELSE HalfUp(price * 20, 3) - 30000

\* A share of the price in parts of a million, and a tenth of it.
AcquisitionTax(price) == (price * AcquisitionTaxRate(price)) \div 10
LocalEducationTax(price) == (price * AcquisitionTaxRate(price)) \div 100

\* resolve_national_housing_scale: between 85 and 100 square metres it depends on
\* where the home is.
NationalScale(i) ==
    IF i.nationalScale # None THEN i.nationalScale
    ELSE IF i.area = None THEN None
    ELSE IF i.area <= 85 THEN "yes" ELSE IF i.area > 100 THEN "no" ELSE None

\* brokerage_fee_upper_bound, per mille of the price with a cap.
BrokerageFee(price) ==
    LET share(mille) == price * 100 * mille IN
    IF price < 500 THEN Smaller(share(6), 250000)
    ELSE IF price < 2000 THEN Smaller(share(5), 800000)
    ELSE IF price < 9000 THEN share(4)
    ELSE IF price < 12000 THEN share(5)
    ELSE IF price < 15000 THEN share(6) ELSE share(7)

\* _tax_scope: the facts that are missing, and whether the case is a standard one.
MissingFacts(i) == {f \in LegalFacts : i[f] = None}
Standard(i) == i.corporation = "no" /\ i.homes = 1 /\ i.registered = "yes" /\ i.luxury = "no"

\* Fault: whatever is not ruled out is taxed as the standard case.
TaxedEagerly(i) ==
    i.corporation # "yes" /\ i.homes \in {1, None} /\ i.registered # "no" /\ i.luxury # "yes"

Taxed(i) == MissingFacts(i) = {} /\ Standard(i)

RuralSpecialTax(i) ==
    IF ~Taxed(i) THEN None
    ELSE CASE NationalScale(i) = "yes" -> 0
           [] NationalScale(i) = "no" -> i.price * 200
           [] OTHER -> None

\* The six components; None is UNKNOWN.
Components(i) ==
    [acquisition |-> IF Taxed(i) THEN AcquisitionTax(i.price) ELSE None,
     education |-> IF Taxed(i) THEN LocalEducationTax(i.price) ELSE None,
     rural |-> RuralSpecialTax(i),
     brokerage |-> IF i.registered = "yes" THEN BrokerageFee(i.price) ELSE None,
     vat |-> IF i.registered = "yes" THEN BrokerageFee(i.price) \div 10 ELSE None,
     registration |-> i.registration]

KnownCost(amount) == IF amount = None THEN 0 ELSE amount

KnownCosts(c) ==
    KnownCost(c.acquisition) + KnownCost(c.education) + KnownCost(c.rural)
        + KnownCost(c.brokerage) + KnownCost(c.vat) + KnownCost(c.registration)

AllKnown(c) ==
    None \notin {c.acquisition, c.education, c.rural, c.brokerage, c.vat, c.registration}

Price(i) == i.price * 100000

\* Fault: the scale of the home is not asked for.
MissingCostsButScale(i) ==
    MissingFacts(i) \cup (IF i.registration = None THEN {"registration"} ELSE {})

\* What is missing for the total.
MissingCosts(i) ==
    MissingFacts(i)
        \cup (IF Taxed(i) /\ NationalScale(i) = None THEN {"nationalScale"} ELSE {})
        \cup (IF i.registration = None THEN {"registration"} ELSE {})

\* estimate_purchase_costs
PurchaseCosts(i) ==
    LET c == Components(i) IN
    IF ~PolicyCovers(i.asOf)
    THEN [status |-> "POLICY_OUT_OF_RANGE", minimum |-> Price(i), total |-> None,
          missing |-> {"purchase_cost_policy"}]
    ELSE [status |-> IF MissingFacts(i) = {} /\ ~Standard(i) THEN "UNSUPPORTED"
                     ELSE IF AllKnown(c) THEN "COMPLETE" ELSE "PARTIAL",
          minimum |-> Price(i) + KnownCosts(c),
          total |-> IF AllKnown(c) THEN Price(i) + KnownCosts(c) ELSE None,
          missing |-> MissingCosts(i)]
===============================================================================
