--------------------------- MODULE ProductPredicates ---------------------------
(***************************************************************************)
(* The predicates of rule_engine/product_packs/packs: the conditions of    *)
(* single products that a comparison of one field cannot express. Each     *)
(* passes, fails, or says that what is known does not settle the answer.   *)
(***************************************************************************)
EXTENDS Money

ApplicantTypes ==
    {"individual", "sole_proprietor", "unincorporated_association", "corporation"}

ASSUME NoneAssumption == None \notin Nat /\ None \notin {"yes", "no"} \cup ApplicantTypes

\* The facts a rule of some pack reads (user_facts of the services).
Fields ==
    {"age", "deposit_amount", "monthly_payment_amount", "applicant_type",
     "is_first_payment", "requested_amount", "loan_term_years", "is_foreigner",
     "owns_house", "combined_annual_income", "child_count", "is_newlywed",
     "is_first_home_buyer", "is_multi_child_or_jeonse_fraud_victim",
     "lease_deposit", "is_capital_region", "owned_house_count", "is_household_head",
     "is_newlywed_or_multi_child", "is_regulated_region",
     "financial_cost_burden_ratio", "is_overdraft_type", "employment_months",
     "salary_transfer_count", "is_sole_proprietor", "is_pension_transfer_recipient"}

Flags ==
    {"is_first_payment", "is_foreigner", "owns_house", "is_newlywed",
     "is_first_home_buyer", "is_multi_child_or_jeonse_fraud_victim",
     "is_capital_region", "is_household_head", "is_newlywed_or_multi_child",
     "is_regulated_region", "is_overdraft_type", "is_sole_proprietor",
     "is_pension_transfer_recipient"}

\* What is known of an applicant, by the types of the request schemas: a rule
\* never meets a value of another type. A flag is "yes" or "no".
TypeOfFact(field) ==
    IF field \in Flags THEN {"yes", "no"}
    ELSE IF field = "applicant_type" THEN ApplicantTypes ELSE Nat

Facts ==
    {facts \in [Fields -> Nat \cup {"yes", "no", None} \cup ApplicantTypes] :
        \A f \in Fields : facts[f] = None \/ facts[f] \in TypeOfFact(f)}

Known(facts, fields) == \A f \in fields : facts[f] # None

\* What a rule makes of True and False; None makes it "UNKNOWN".
Passed(condition) == IF condition THEN "PASS" ELSE "FAIL"

\* An answer that needs one more fact.
WhenKnown(facts, field, condition) ==
    IF facts[field] = None THEN "UNKNOWN" ELSE Passed(condition)

Tier(condition, more, less) == (IF condition THEN more ELSE less) * Million

MinimumByInstalment(facts) ==
    Passed(facts["monthly_payment_amount"]
               >= (IF facts["is_first_payment"] = "yes" THEN Manwon ELSE Manwon \div 10))

LongTermRequiresYoungAge(facts) ==
    IF facts["loan_term_years"] <= 40 THEN "PASS"
    ELSE WhenKnown(facts, "age", facts["age"] <= 34)

AdultHomeless(facts) == Passed(facts["age"] >= 19 /\ facts["owns_house"] = "no")

\* Incomes up to 70 million always pass and above 100 million never do; between
\* them children count first, then a recent marriage.
IncomeWithinHouseholdTier(facts) ==
    LET income == facts["combined_annual_income"]
        children == facts["child_count"] IN
    IF income <= 70 * Million THEN "PASS"
    ELSE IF income > 100 * Million THEN "FAIL"
    ELSE IF children = None THEN "UNKNOWN"
    ELSE IF children >= 2 THEN "PASS"
    ELSE IF children = 1 THEN Passed(income <= 90 * Million)
    ELSE WhenKnown(facts, "is_newlywed",
                   income <= Tier(facts["is_newlywed"] = "yes", 85, 70))

\* Fault: a fact that is not known counts as no.
BogeumjariAmountGuessed(facts) ==
    LET amount == facts["requested_amount"] IN
    IF amount > 420 * Million THEN "FAIL"
    ELSE Passed(\/ amount <= 360 * Million
                \/ facts["is_first_home_buyer"] = "yes"
                \/ /\ amount <= 400 * Million
                   /\ facts["is_multi_child_or_jeonse_fraud_victim"] = "yes")

\* _loan_amount_within_tier of the Bogeumjari loan: one yes is enough up to 400
\* million, and two noes are needed for a no.
BogeumjariAmount(facts) ==
    LET amount == facts["requested_amount"]
        answers == {facts["is_first_home_buyer"]} \cup
            (IF amount <= 400 * Million
             THEN {facts["is_multi_child_or_jeonse_fraud_victim"]} ELSE {}) IN
    IF amount <= 360 * Million THEN "PASS"
    ELSE IF amount > 420 * Million THEN "FAIL"
    ELSE IF "yes" \in answers THEN "PASS"
    ELSE IF None \in answers THEN "UNKNOWN" ELSE "FAIL"

LeaseDepositWithinRegionCap(facts) ==
    Passed(facts["lease_deposit"] <= Tier(facts["is_capital_region"] = "yes", 700, 500))

HugAmount(facts) ==
    Passed(/\ facts["requested_amount"] >= 5 * Million
           /\ facts["requested_amount"] <= Tier(facts["owned_house_count"] >= 1, 200, 400))

HfAmount(facts) ==
    LET amount == facts["requested_amount"] IN
    IF amount < 5 * Million \/ amount > 222 * Million THEN "FAIL"
    ELSE IF amount <= 200 * Million THEN "PASS"
    ELSE WhenKnown(facts, "is_newlywed_or_multi_child",
                   facts["is_newlywed_or_multi_child"] = "no")

SgiAmount(facts) ==
    LET amount == facts["requested_amount"] IN
    IF amount < 5 * Million THEN "FAIL"
    ELSE IF facts["owned_house_count"] < 1 THEN Passed(amount <= 500 * Million)
    ELSE IF amount <= 200 * Million THEN "PASS"
    ELSE IF amount > 300 * Million THEN "FAIL"
    ELSE WhenKnown(facts, "is_regulated_region", facts["is_regulated_region"] = "no")

CreditAmount(facts) ==
    LET amount == facts["requested_amount"] IN
    IF amount <= 100 * Million THEN "PASS"
    ELSE IF amount > 350 * Million THEN "FAIL"
    ELSE IF facts["is_overdraft_type"] = None THEN "UNKNOWN"
    ELSE IF facts["is_overdraft_type"] = "yes" THEN Passed(amount <= 150 * Million)
    ELSE WhenKnown(facts, "employment_months",
                   amount <= Tier(facts["employment_months"] < 12, 100, 350))

NotExcludedApplicant(facts) ==
    Passed(facts["is_sole_proprietor"] = "no" /\ facts["is_pension_transfer_recipient"] = "no")

SalaryAmount(facts) ==
    LET amount == facts["requested_amount"] IN
    IF amount <= 100 * Million THEN "PASS"
    ELSE IF amount > 150 * Million THEN "FAIL"
    ELSE WhenKnown(facts, "is_overdraft_type", facts["is_overdraft_type"] = "no")

\* A predicate is named in its rule; the fields it requires stand beside it.
RequiredFields ==
    [MinimumByInstalment |-> {"is_first_payment", "monthly_payment_amount"},
     LongTermRequiresYoungAge |-> {"loan_term_years"},
     AdultHomeless |-> {"age", "owns_house"},
     IncomeWithinHouseholdTier |-> {"combined_annual_income"},
     BogeumjariAmount |-> {"requested_amount"},
     LeaseDepositWithinRegionCap |-> {"lease_deposit", "is_capital_region"},
     HugAmount |-> {"requested_amount", "owned_house_count"},
     HfAmount |-> {"requested_amount"},
     SgiAmount |-> {"requested_amount", "owned_house_count"},
     CreditAmount |-> {"requested_amount"},
     NotExcludedApplicant |-> {"is_sole_proprietor", "is_pension_transfer_recipient"},
     SalaryAmount |-> {"requested_amount"}]

Predicates == DOMAIN RequiredFields

\* The predicate of a rule, called once its required fields are known.
Answer(predicate, facts) ==
    CASE predicate = "MinimumByInstalment" -> MinimumByInstalment(facts)
      [] predicate = "LongTermRequiresYoungAge" -> LongTermRequiresYoungAge(facts)
      [] predicate = "AdultHomeless" -> AdultHomeless(facts)
      [] predicate = "IncomeWithinHouseholdTier" -> IncomeWithinHouseholdTier(facts)
      [] predicate = "BogeumjariAmount" -> BogeumjariAmount(facts)
      [] predicate = "LeaseDepositWithinRegionCap" -> LeaseDepositWithinRegionCap(facts)
      [] predicate = "HugAmount" -> HugAmount(facts)
      [] predicate = "HfAmount" -> HfAmount(facts)
      [] predicate = "SgiAmount" -> SgiAmount(facts)
      [] predicate = "CreditAmount" -> CreditAmount(facts)
      [] predicate = "NotExcludedApplicant" -> NotExcludedApplicant(facts)
      [] predicate = "SalaryAmount" -> SalaryAmount(facts)
===============================================================================
