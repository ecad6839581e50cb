----------------------------- MODULE ProductPacks -----------------------------
(***************************************************************************)
(* The packs of rule_engine/product_packs/packs, and the registry they are *)
(* in. Amounts are in units of 100 won, ratios in per cent, days yyyymmdd. *)
(* The texts, codes and versions of the rules are left out, and so are the *)
(* aliases: only the example pack, which is not in the registry, has one.  *)
(***************************************************************************)
EXTENDS ProductRules

AtLeast(field, bound) == [field |-> field, op |-> "GTE", expected |-> bound]
AtMost(field, bound) == [field |-> field, op |-> "LTE", expected |-> bound]
Between(field, low, high) == [field |-> field, op |-> "BETWEEN", expected |-> <<low, high>>]
Is(field, answer) == [field |-> field, op |-> "EQ", expected |-> answer]
Member(types) == [field |-> "applicant_type", op |-> "IN", expected |-> types]
Holds(predicate) == [op |-> "PREDICATE", predicate |-> predicate]

Persons == {"individual", "sole_proprietor"}
PersonsAndClubs == Persons \cup {"unincorporated_association"}

Pack(name, category, from, to, rules) ==
    [names |-> {name}, category |-> category, from |-> from, to |-> to, rules |-> rules]

Deposit(name, from, to, rules) == Pack(name, "TERM_DEPOSIT", from, to, rules)
Savings(name, from, to, rules) == Pack(name, "INSTALLMENT_SAVINGS", from, to, rules)

-------------------------------------------------------------------------------
KB_GOLDEN_LIFE_PENSION_DEPOSIT_PACK ==
    Deposit("KBGoldenLifePensionDeposit", 20260721, 20280630,
            {AtLeast("deposit_amount", Million), Member(PersonsAndClubs)})

KB_SUPER_TERM_DEPOSIT_PACK ==
    Deposit("KBSuperTermDeposit", 20260721, 20280630, {AtLeast("deposit_amount", Million)})

KB_STAR_TERM_DEPOSIT_PACK ==
    Deposit("KBStarTermDeposit", 20260722, None,
            {AtLeast("deposit_amount", Million), Member(Persons)})

KB_GENERAL_TERM_DEPOSIT_PACK ==
    Deposit("KBGeneralTermDeposit", 20260721, 20280630,
            {AtLeast("deposit_amount", 10 * Manwon)})

KB_GENERAL_INSTALLMENT_SAVINGS_PACK ==
    Savings("KBGeneralInstallmentSavings", 20241230, 20261031,
            {AtLeast("monthly_payment_amount", Manwon)})

KB_PREMIUM_INSTALLMENT_SAVINGS_PACK ==
    Savings("KBPremiumSavings", 20241113, 20260930,
            {Member({"individual"}), Between("monthly_payment_amount", Manwon, 300 * Manwon)})

KB_MUTUAL_INSTALLMENT_FREE_PACK ==
    Savings("KBMutualInstallmentFree", 20241113, 20260930,
            {Between("monthly_payment_amount", Manwon, 500 * Manwon)})

KB_MUTUAL_INSTALLMENT_FIXED_PACK ==
    Savings("KBMutualInstallmentFixed", 20241113, 20260930,
            {AtLeast("monthly_payment_amount", Manwon)})

KB_MY_OWN_SAVINGS_PACK ==
    Savings("KBMyOwnSavings", 20260126, 20271231,
            {Member(PersonsAndClubs), Between("monthly_payment_amount", Manwon, 100 * Manwon)})

KB_FREESTYLE_SAVINGS_PACK == Savings("KBFreestyleSavings", 20260720, None, {Member(Persons)})

KB_MERCHANT_PREFERRED_SAVINGS_PACK ==
    Savings("KBMerchantPreferredSavings", 20241113, 20260930,
            {AtLeast("age", 14), Holds("MinimumByInstalment"),
             AtMost("monthly_payment_amount", 1000 * Manwon)})

KB_TRAVEL_SAVINGS_PACK ==
    Savings("KBTravelSavings", 20260526, 20280430,
            {Member({"individual"}), Between("monthly_payment_amount", 5 * Manwon, 100 * Manwon)})

KB_CLEAR_SKY_SAVINGS_PACK ==
    Savings("KBClearSkySavings", 20260720, None, {Member({"individual"})})

KB_STAR_SAVINGS_3_PACK ==
    Savings("KBStarSavingsIII", 20260413, 20270331,
            {AtLeast("age", 19), Member({"individual"}),
             Between("monthly_payment_amount", Manwon, 30 * Manwon)})

-------------------------------------------------------------------------------
KB_MORTGAGE_LOAN_PACK ==
    Pack("KBMortgageLoan", "MORTGAGE_LOAN", 20260421, 20271231,
         {Holds("LongTermRequiresYoungAge")})

HF_BOGEUMJARI_LOAN_PACK ==
    Pack("HFBogeumjariLoan", "MORTGAGE_LOAN", 20251120, 20271031,
         {Holds("AdultHomeless"), Holds("IncomeWithinHouseholdTier"), Holds("BogeumjariAmount")})

KB_STAR_APARTMENT_MORTGAGE_LOAN_PACK ==
    Pack("KBStarApartmentMortgageLoan", "MORTGAGE_LOAN", 20260421, 20271231,
         {AtLeast("age", 19), Is("is_foreigner", "no"), Holds("LongTermRequiresYoungAge"),
          Between("requested_amount", 10 * Million, 1000 * Million)})

\* What the three Jeonse loans ask for.
JeonseRules ==
    {AtLeast("age", 19), Is("is_household_head", "yes"), AtMost("owned_house_count", 1)}

KB_STAR_JEONSE_LOAN_HUG_PACK ==
    Pack("KBStarJeonseLoanHUG", "JEONSE_LOAN", 20260421, 20271231,
         JeonseRules \cup {Holds("LeaseDepositWithinRegionCap"), Holds("HugAmount")})

KB_STAR_JEONSE_LOAN_HF_PACK ==
    Pack("KBStarJeonseLoanHF", "JEONSE_LOAN", 20260622, 20280531,
         JeonseRules \cup {Holds("LeaseDepositWithinRegionCap"), Holds("HfAmount")})

KB_STAR_JEONSE_LOAN_SGI_PACK ==
    Pack("KBStarJeonseLoanSGI", "JEONSE_LOAN", 20260421, 20271231,
         JeonseRules \cup {AtMost("financial_cost_burden_ratio", 40), Holds("SgiAmount")})

KB_CREDIT_LOAN_PACK ==
    Pack("KBCreditLoan", "CREDIT_LOAN", 20260101, 20271130, {Holds("CreditAmount")})

KB_SALARY_CREDIT_LOAN_PACK ==
    Pack("KBSalaryCreditLoan", "CREDIT_LOAN", 20260101, 20271130,
         {AtLeast("employment_months", 12), AtLeast("salary_transfer_count", 1),
          Holds("NotExcludedApplicant"), Holds("SalaryAmount")})

KB_EMERGENCY_CASH_LOAN_PACK ==
    Pack("KBEmergencyCashLoan", "CREDIT_LOAN", 20241017, 20260930,
         {AtLeast("age", 19), Is("is_foreigner", "no"),
          Between("requested_amount", 50 * Manwon, 300 * Manwon)})

-------------------------------------------------------------------------------
SavingsPacks ==
    {KB_GOLDEN_LIFE_PENSION_DEPOSIT_PACK, KB_SUPER_TERM_DEPOSIT_PACK,
     KB_STAR_TERM_DEPOSIT_PACK, KB_GENERAL_TERM_DEPOSIT_PACK,
     KB_GENERAL_INSTALLMENT_SAVINGS_PACK, KB_PREMIUM_INSTALLMENT_SAVINGS_PACK,
     KB_MUTUAL_INSTALLMENT_FREE_PACK, KB_MUTUAL_INSTALLMENT_FIXED_PACK,
     KB_MY_OWN_SAVINGS_PACK, KB_FREESTYLE_SAVINGS_PACK,
     KB_MERCHANT_PREFERRED_SAVINGS_PACK, KB_TRAVEL_SAVINGS_PACK,
     KB_CLEAR_SKY_SAVINGS_PACK, KB_STAR_SAVINGS_3_PACK}

LoanPacks ==
    {KB_MORTGAGE_LOAN_PACK, HF_BOGEUMJARI_LOAN_PACK, KB_STAR_APARTMENT_MORTGAGE_LOAN_PACK,
     KB_STAR_JEONSE_LOAN_HUG_PACK, KB_STAR_JEONSE_LOAN_HF_PACK, KB_STAR_JEONSE_LOAN_SGI_PACK,
     KB_CREDIT_LOAN_PACK, KB_SALARY_CREDIT_LOAN_PACK, KB_EMERGENCY_CASH_LOAN_PACK}

\* DEFAULT_PRODUCT_RULE_PACK_REGISTRY
PRODUCT_RULE_PACKS == SavingsPacks \cup LoanPacks
===============================================================================
