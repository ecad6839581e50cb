------------------------------- MODULE MCAdvice -------------------------------
(***************************************************************************)
(* Model checking Advice: requests at the boundaries of the rules, budgets *)
(* and prices.                                                             *)
(***************************************************************************)
EXTENDS Advice

-------------------------------------------------------------------------------
\* Questions: of every pack the values at and beside its bounds.
Around(bounds) == UNION {{b - 1, b, b + 1} : b \in bounds}
YesNo == {"yes", "no"}
Question(pack, values) == [product |-> pack, values |-> values]

Monthly(pack, bounds) ==
    Question(pack, [monthly_payment_amount |-> Around(bounds), applicant_type |-> ApplicantTypes])

MCSavingsQuestions ==
    {Question(p, [deposit_amount |-> Around({Million, 10 * Manwon}),
                  applicant_type |-> ApplicantTypes]) :
        p \in {q \in SavingsPacks : q.category = "TERM_DEPOSIT"}}
    \cup {Monthly(KB_GENERAL_INSTALLMENT_SAVINGS_PACK, {Manwon}),
          Monthly(KB_PREMIUM_INSTALLMENT_SAVINGS_PACK, {Manwon, 300 * Manwon}),
          Monthly(KB_MUTUAL_INSTALLMENT_FREE_PACK, {Manwon, 500 * Manwon}),
          Monthly(KB_MUTUAL_INSTALLMENT_FIXED_PACK, {Manwon}),
          Monthly(KB_MY_OWN_SAVINGS_PACK, {Manwon, 100 * Manwon}),
          Monthly(KB_FREESTYLE_SAVINGS_PACK, {Manwon}),
          Monthly(KB_TRAVEL_SAVINGS_PACK, {5 * Manwon, 100 * Manwon}),
          Monthly(KB_CLEAR_SKY_SAVINGS_PACK, {Manwon}),
          Question(KB_STAR_SAVINGS_3_PACK,
                   [age |-> {18, 19}, applicant_type |-> ApplicantTypes,
                    monthly_payment_amount |-> Around({Manwon, 30 * Manwon})]),
          Question(KB_MERCHANT_PREFERRED_SAVINGS_PACK,
                   [age |-> {13, 14}, is_first_payment |-> YesNo,
                    monthly_payment_amount |-> Around({10, Manwon, 1000 * Manwon})])}

LongTerm == {40, 41}
Young == {18, 19, 34, 35}
Household == [age |-> {18, 19}, is_household_head |-> YesNo, owned_house_count |-> {0, 1, 2}]

MCLoanQuestions ==
    {Question(KB_MORTGAGE_LOAN_PACK, [age |-> Young, loan_term_years |-> LongTerm]),
     Question(KB_STAR_APARTMENT_MORTGAGE_LOAN_PACK,
              [age |-> Young, loan_term_years |-> LongTerm, is_foreigner |-> YesNo,
               requested_amount |-> Around({10 * Million, 1000 * Million})]),
     Question(HF_BOGEUMJARI_LOAN_PACK,
              [age |-> {18, 19}, owns_house |-> YesNo, requested_amount |-> {360 * Million},
               combined_annual_income |-> Around({70 * Million, 85 * Million, 90 * Million,
                                                  100 * Million}),
               child_count |-> 0..2, is_newlywed |-> YesNo]),
     Question(HF_BOGEUMJARI_LOAN_PACK,
              [age |-> {19}, owns_house |-> {"no"}, combined_annual_income |-> {70 * Million},
               requested_amount |-> Around({360 * Million, 400 * Million, 420 * Million}),
               is_first_home_buyer |-> YesNo,
               is_multi_child_or_jeonse_fraud_victim |-> YesNo]),
     Question(KB_STAR_JEONSE_LOAN_HUG_PACK,
              [age |-> {19}, is_household_head |-> {"yes"}, owned_house_count |-> {0, 1, 2},
               lease_deposit |-> Around({500 * Million, 700 * Million}),
               is_capital_region |-> YesNo, requested_amount |-> {400 * Million}]),
     Question(KB_STAR_JEONSE_LOAN_HUG_PACK,
              [age |-> {19}, is_household_head |-> {"yes"}, owned_house_count |-> {0, 1, 2},
               lease_deposit |-> {500 * Million}, is_capital_region |-> {"no"},
               requested_amount |-> Around({5 * Million, 200 * Million, 400 * Million})]),
     Question(KB_STAR_JEONSE_LOAN_HF_PACK,
              [age |-> {18, 19}, is_household_head |-> YesNo, owned_house_count |-> {1},
               lease_deposit |-> {500 * Million}, is_capital_region |-> {"no"},
               requested_amount |-> Around({5 * Million, 200 * Million, 222 * Million}),
               is_newlywed_or_multi_child |-> YesNo]),
     Question(KB_STAR_JEONSE_LOAN_SGI_PACK,
              [age |-> {19}, is_household_head |-> {"yes"}, owned_house_count |-> {0, 1, 2},
               financial_cost_burden_ratio |-> {40, 41},
               requested_amount |-> Around({5 * Million, 200 * Million, 300 * Million,
                                            500 * Million}),
               is_regulated_region |-> YesNo]),
     Question(KB_CREDIT_LOAN_PACK,
              [requested_amount |-> Around({100 * Million, 150 * Million, 350 * Million}),
               is_overdraft_type |-> YesNo, employment_months |-> {11, 12}]),
     Question(KB_SALARY_CREDIT_LOAN_PACK,
              [employment_months |-> {11, 12}, salary_transfer_count |-> {0, 1},
               is_sole_proprietor |-> YesNo, is_pension_transfer_recipient |-> YesNo,
               requested_amount |-> Around({100 * Million, 150 * Million}),
               is_overdraft_type |-> YesNo]),
     Question(KB_EMERGENCY_CASH_LOAN_PACK,
              [age |-> {18, 19}, is_foreigner |-> YesNo,
               requested_amount |-> Around({50 * Manwon, 300 * Manwon})])}

MCQuestions == MCSavingsQuestions \cup MCLoanQuestions

-------------------------------------------------------------------------------
\* Households; the instalments of the emergency fund are whole.
Household1(liquid, reserve) ==
    [income |-> 40000, expense |-> 15000, debt |-> 5000, liquid |-> liquid, reserve |-> reserve]

\* Savings requests. 997000 of the protected million leaves little room.
Named(id, pack, term, rate) ==
    [id |-> id, name |-> CHOOSE n \in pack.names : TRUE, institution |-> "KB", term |-> term,
     rate |-> rate]

MCOptions ==
    {Named(1, KB_MERCHANT_PREFERRED_SAVINGS_PACK, 12, 300),
     Named(2, KB_MERCHANT_PREFERRED_SAVINGS_PACK, 24, 330),
     Named(3, KB_MY_OWN_SAVINGS_PACK, 12, 320),
     Named(4, KB_STAR_SAVINGS_3_PACK, 12, 500),
     Named(5, KB_GENERAL_TERM_DEPOSIT_PACK, 6, 250),
     Named(6, KB_GENERAL_TERM_DEPOSIT_PACK, 24, 260),
     Named(7, KB_STAR_TERM_DEPOSIT_PACK, 12, 270)}

MCSavingsRequests ==
    [present : {TRUE}, asOf : {20260801},
     candidates : {{o \in MCOptions : o.name \in names} :
                    names \in {s \in SUBSET {o.name : o \in MCOptions} : Cardinality(s) <= 3}},
     monthly : {None, 3000}, lumpSum : {None, 5000}, needed : {24},
     existing : [Institutions -> {0, 997000}], maxProducts : {3},
     timing : {"END"}, prefers : {"rate", "maturity"}, age : {30},
     applicantType : {"individual"}, isFirst : {"yes"},
     snapshot : {Household1(200000, 78000)}, months : {6}]
    \cup
    [present : BOOLEAN, asOf : {20001231, 20260801, 20270601},
     candidates : {{o \in MCOptions : o.term <= 12}}, monthly : {None}, lumpSum : {None, 0},
     needed : {6, 12}, existing : [Institutions -> {0, 1000000}], maxProducts : {2},
     timing : {"BEGINNING"}, prefers : {"rate"}, age : {18}, applicantType : {"individual"},
     isFirst : {None}, snapshot : {Household1(100000, None), Household1(100000, 90000)},
     months : {6}]

-------------------------------------------------------------------------------
\* Homes.
Purchase(day, price, corporation, homes, registered, area, registration) ==
    [asOf |-> day, price |-> price, corporation |-> corporation, homes |-> homes,
     registered |-> registered, luxury |-> "no", area |-> area, nationalScale |-> None,
     registration |-> registration]

Place(seoul, capital, listed, coded, designated) ==
    [seoul |-> seoul, capital |-> capital, listed |-> listed, coded |-> coded,
     designated |-> designated]

MCPlaces ==
    {Place(TRUE, TRUE, 20251016, TRUE, 20251016), Place(FALSE, TRUE, 20260701, FALSE, 20260701),
     Place(FALSE, FALSE, None, TRUE, 20260801), Place(FALSE, TRUE, None, TRUE, None)}

\* A price of 500 million and one of 1.2 billion won; the household has less than
\* its emergency fund, exactly that, some money and almost the price.
MCHomeRequests ==
    [costs : {Purchase(20260715, 5000, "no", None, "yes", 90, None),
              Purchase(20260801, 12000, "no", 1, "yes", 80, 2000000)},
     region : MCPlaces, code : {"valid"},
     snapshot : {Household1(l, 80000) : l \in {80000, 90000, 1000000, 5400000}}, months : {6},
     status : {"NO_HOUSE", "MULTI_HOUSE", None}, day : {None, 20260615}, catalog : {"given"}]
    \cup
    [costs : {Purchase(20260715, 5000, "no", 1, "yes", 110, 2000000),
              Purchase(20270101, 5000, "no", 1, "yes", 80, 2000000),
              Purchase(20260715, 7000, None, 1, None, None, 0)},
     region : MCPlaces, code : {"valid", "invalid"}, snapshot : {Household1(200000, 80000)},
     months : {6}, status : {"FIRST_HOME_BUYER"}, day : {None, 20170101},
     catalog : {"given", "empty", "failed"}]

MCAnswers ==
    [corporation |-> YesNo, homes |-> {1, 2}, registered |-> YesNo, luxury |-> {"no"},
     nationalScale |-> YesNo, registration |-> {0, 2000000},
     property_loan_profile |-> {"NO_HOUSE"}]

-------------------------------------------------------------------------------
\* Plans with small loans, whose rounding shows.
Leg(principal, rate, months, kind) ==
    [principal |-> principal, rate |-> rate, months |-> months, kind |-> kind]

MCLegs ==
    {Leg(p, r, n, k) : p \in {0, 2, 7, 50, 200}, r \in {0, 1, 4}, n \in {1, 3},
                       k \in RepaymentKind}
    \cup {Leg(p, r, 4, k) : p \in {2, 7}, r \in {0, 4}, k \in {"BULLET", "EQUAL_PRINCIPAL"}}

SecondLegs ==
    {Leg(2, 0, 4, "EQUAL_PRINCIPAL"), Leg(7, 1, 3, "EQUAL_PAYMENT"), Leg(0, 1, 3, "BULLET")}

MCLifePlans ==
    [savings : {{}, {[amount |-> 5, term |-> 2, basis |-> "MONTHLY"],
                     [amount |-> 9, term |-> 1, basis |-> "LUMP_SUM"]}},
     loans : {<<>>} \cup {<<leg>> : leg \in MCLegs}
             \cup {leg \in MCLegs : leg.principal \in {7, 50} /\ leg.rate = 4} \X SecondLegs,
     purchase : {0, 3, None}]

-------------------------------------------------------------------------------
\* Trades: three of one area, pairs of one price; the last may be loaded later.
Trade(id, area, price) == [id |-> id, area |-> area, price |-> price]
MCTrades == {Trade(1, 84, 5), Trade(2, 59, 5), Trade(3, 59, 5), Trade(4, 59, 7), Trade(5, 84, 5)}
MCStocks == {{}, {t \in MCTrades : t.id < 5}}
===============================================================================
