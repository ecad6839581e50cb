---------------------------- MODULE Products_proofs ----------------------------
(***************************************************************************)
(* Theorems about the products: whether an applicant may take one, and the *)
(* portfolio of savings. A verdict that is settled stays when more is      *)
(* known, because each predicate asks for a fact before it uses it; so an  *)
(* answer, once given, stands. A registry is never ambiguous, because two  *)
(* packs of one name that are both active on a day overlap. A portfolio is *)
(* within its limits because each of its amounts is raised by no more than *)
(* the limits leave, and the sums grow by as much.                         *)
(***************************************************************************)
EXTENDS Eligibility, SavingsPortfolio, FiniteSums

\* What is known stays, with its type.
LEMMA FactKept ==
    ASSUME NEW f \in Facts, NEW g \in Facts, KnowsMore(f, g), NEW x \in Fields, f[x] # None
    PROVE  g[x] = f[x] /\ f[x] \in TypeOfFact(x)
  BY DEF Facts, KnowsMore

\* One lemma per predicate: what it answers does not change when more is known.
LEMMA MinimumByInstalmentKept ==
    ASSUME NEW f \in Facts, NEW g \in Facts, KnowsMore(f, g),
           Known(f, RequiredFields["MinimumByInstalment"]), MinimumByInstalment(f) # "UNKNOWN"
    PROVE  MinimumByInstalment(g) = MinimumByInstalment(f)
<1>1. \A x \in {"is_first_payment", "monthly_payment_amount"} : g[x] = f[x] /\ f[x] \in TypeOfFact(x)
  BY FactKept DEF Known, RequiredFields, Fields
<1> QED BY <1>1 DEF MinimumByInstalment, Million, Manwon, Tier, Passed, WhenKnown, TypeOfFact, Flags

LEMMA LongTermRequiresYoungAgeKept ==
    ASSUME NEW f \in Facts, NEW g \in Facts, KnowsMore(f, g),
           Known(f, RequiredFields["LongTermRequiresYoungAge"]), LongTermRequiresYoungAge(f) # "UNKNOWN"
    PROVE  LongTermRequiresYoungAge(g) = LongTermRequiresYoungAge(f)
<1>1. \A x \in {"loan_term_years"} : g[x] = f[x] /\ f[x] \in TypeOfFact(x)
  BY FactKept DEF Known, RequiredFields, Fields
<1>2. \A x \in {"age"} : f[x] # None => g[x] = f[x] /\ f[x] \in TypeOfFact(x)
  BY FactKept DEF Fields
<1> QED BY <1>1, <1>2 DEF LongTermRequiresYoungAge, Million, Manwon, Tier, Passed, WhenKnown, TypeOfFact, Flags

LEMMA AdultHomelessKept ==
    ASSUME NEW f \in Facts, NEW g \in Facts, KnowsMore(f, g),
           Known(f, RequiredFields["AdultHomeless"]), AdultHomeless(f) # "UNKNOWN"
    PROVE  AdultHomeless(g) = AdultHomeless(f)
<1>1. \A x \in {"age", "owns_house"} : g[x] = f[x] /\ f[x] \in TypeOfFact(x)
  BY FactKept DEF Known, RequiredFields, Fields
<1> QED BY <1>1 DEF AdultHomeless, Million, Manwon, Tier, Passed, WhenKnown, TypeOfFact, Flags

LEMMA IncomeWithinHouseholdTierKept ==
    ASSUME NEW f \in Facts, NEW g \in Facts, KnowsMore(f, g),
           Known(f, RequiredFields["IncomeWithinHouseholdTier"]), IncomeWithinHouseholdTier(f) # "UNKNOWN"
    PROVE  IncomeWithinHouseholdTier(g) = IncomeWithinHouseholdTier(f)
<1>1. \A x \in {"combined_annual_income"} : g[x] = f[x] /\ f[x] \in TypeOfFact(x)
  BY FactKept DEF Known, RequiredFields, Fields
<1>2. \A x \in {"child_count", "is_newlywed"} : f[x] # None => g[x] = f[x] /\ f[x] \in TypeOfFact(x)
  BY FactKept DEF Fields
<1> QED BY <1>1, <1>2 DEF IncomeWithinHouseholdTier, Million, Manwon, Tier, Passed, WhenKnown, TypeOfFact, Flags

LEMMA BogeumjariAmountKept ==
    ASSUME NEW f \in Facts, NEW g \in Facts, KnowsMore(f, g),
           Known(f, RequiredFields["BogeumjariAmount"]), BogeumjariAmount(f) # "UNKNOWN"
    PROVE  BogeumjariAmount(g) = BogeumjariAmount(f)
<1> DEFINE amount == f["requested_amount"]
<1>1. amount \in Nat /\ g["requested_amount"] = amount
  BY FactKept DEF Known, RequiredFields, Fields, Flags, TypeOfFact
<1>2. \A x \in {"is_first_home_buyer", "is_multi_child_or_jeonse_fraud_victim"} :
        /\ f[x] # None => g[x] = f[x] /\ f[x] \in {"yes", "no"}
        /\ g[x] # None => g[x] \in {"yes", "no"}
  BY FactKept DEF TypeOfFact, Fields, Flags, Facts
<1>3. None # "yes" /\ None # "no"
  BY NoneAssumption
<1>4. CASE amount <= 360 * Million \/ amount > 420 * Million
  BY <1>1, <1>4 DEF BogeumjariAmount, Million
<1>5. CASE amount > 360 * Million /\ amount <= 400 * Million
  BY <1>1, <1>2, <1>3, <1>5 DEF BogeumjariAmount, Million
<1>6. CASE amount > 400 * Million /\ amount <= 420 * Million
  BY <1>1, <1>2, <1>3, <1>6 DEF BogeumjariAmount, Million
<1> QED BY <1>1, <1>4, <1>5, <1>6 DEF Million

LEMMA LeaseDepositWithinRegionCapKept ==
    ASSUME NEW f \in Facts, NEW g \in Facts, KnowsMore(f, g),
           Known(f, RequiredFields["LeaseDepositWithinRegionCap"]), LeaseDepositWithinRegionCap(f) # "UNKNOWN"
    PROVE  LeaseDepositWithinRegionCap(g) = LeaseDepositWithinRegionCap(f)
<1>1. \A x \in {"lease_deposit", "is_capital_region"} : g[x] = f[x] /\ f[x] \in TypeOfFact(x)
  BY FactKept DEF Known, RequiredFields, Fields
<1> QED BY <1>1 DEF LeaseDepositWithinRegionCap, Million, Manwon, Tier, Passed, WhenKnown, TypeOfFact, Flags

LEMMA HugAmountKept ==
    ASSUME NEW f \in Facts, NEW g \in Facts, KnowsMore(f, g),
           Known(f, RequiredFields["HugAmount"]), HugAmount(f) # "UNKNOWN"
    PROVE  HugAmount(g) = HugAmount(f)
<1>1. \A x \in {"requested_amount", "owned_house_count"} : g[x] = f[x] /\ f[x] \in TypeOfFact(x)
  BY FactKept DEF Known, RequiredFields, Fields
<1> QED BY <1>1 DEF HugAmount, Million, Manwon, Tier, Passed, WhenKnown, TypeOfFact, Flags

LEMMA HfAmountKept ==
    ASSUME NEW f \in Facts, NEW g \in Facts, KnowsMore(f, g),
           Known(f, RequiredFields["HfAmount"]), HfAmount(f) # "UNKNOWN"
    PROVE  HfAmount(g) = HfAmount(f)
<1>1. \A x \in {"requested_amount"} : g[x] = f[x] /\ f[x] \in TypeOfFact(x)
  BY FactKept DEF Known, RequiredFields, Fields
<1>2. \A x \in {"is_newlywed_or_multi_child"} : f[x] # None => g[x] = f[x] /\ f[x] \in TypeOfFact(x)
  BY FactKept DEF Fields
<1> QED BY <1>1, <1>2 DEF HfAmount, Million, Manwon, Tier, Passed, WhenKnown, TypeOfFact, Flags

LEMMA SgiAmountKept ==
    ASSUME NEW f \in Facts, NEW g \in Facts, KnowsMore(f, g),
           Known(f, RequiredFields["SgiAmount"]), SgiAmount(f) # "UNKNOWN"
    PROVE  SgiAmount(g) = SgiAmount(f)
<1>1. \A x \in {"requested_amount", "owned_house_count"} : g[x] = f[x] /\ f[x] \in TypeOfFact(x)
  BY FactKept DEF Known, RequiredFields, Fields
<1>2. \A x \in {"is_regulated_region"} : f[x] # None => g[x] = f[x] /\ f[x] \in TypeOfFact(x)
  BY FactKept DEF Fields
<1> QED BY <1>1, <1>2 DEF SgiAmount, Million, Manwon, Tier, Passed, WhenKnown, TypeOfFact, Flags

LEMMA CreditAmountKept ==
    ASSUME NEW f \in Facts, NEW g \in Facts, KnowsMore(f, g),
           Known(f, RequiredFields["CreditAmount"]), CreditAmount(f) # "UNKNOWN"
    PROVE  CreditAmount(g) = CreditAmount(f)
<1>1. \A x \in {"requested_amount"} : g[x] = f[x] /\ f[x] \in TypeOfFact(x)
  BY FactKept DEF Known, RequiredFields, Fields
<1>2. \A x \in {"is_overdraft_type", "employment_months"} : f[x] # None => g[x] = f[x] /\ f[x] \in TypeOfFact(x)
  BY FactKept DEF Fields
<1> QED BY <1>1, <1>2 DEF CreditAmount, Million, Manwon, Tier, Passed, WhenKnown, TypeOfFact, Flags

LEMMA NotExcludedApplicantKept ==
    ASSUME NEW f \in Facts, NEW g \in Facts, KnowsMore(f, g),
           Known(f, RequiredFields["NotExcludedApplicant"]), NotExcludedApplicant(f) # "UNKNOWN"
    PROVE  NotExcludedApplicant(g) = NotExcludedApplicant(f)
<1>1. \A x \in {"is_sole_proprietor", "is_pension_transfer_recipient"} : g[x] = f[x] /\ f[x] \in TypeOfFact(x)
  BY FactKept DEF Known, RequiredFields, Fields
<1> QED BY <1>1 DEF NotExcludedApplicant, Million, Manwon, Tier, Passed, WhenKnown, TypeOfFact, Flags

LEMMA SalaryAmountKept ==
    ASSUME NEW f \in Facts, NEW g \in Facts, KnowsMore(f, g),
           Known(f, RequiredFields["SalaryAmount"]), SalaryAmount(f) # "UNKNOWN"
    PROVE  SalaryAmount(g) = SalaryAmount(f)
<1>1. \A x \in {"requested_amount"} : g[x] = f[x] /\ f[x] \in TypeOfFact(x)
  BY FactKept DEF Known, RequiredFields, Fields
<1>2. \A x \in {"is_overdraft_type"} : f[x] # None => g[x] = f[x] /\ f[x] \in TypeOfFact(x)
  BY FactKept DEF Fields
<1> QED BY <1>1, <1>2 DEF SalaryAmount, Million, Manwon, Tier, Passed, WhenKnown, TypeOfFact, Flags

\* The twelve lemmas as one fact about the predicate of a rule.
LEMMA AnswerKept ==
    ASSUME NEW p \in Predicates, NEW f \in Facts, NEW g \in Facts, KnowsMore(f, g),
           Known(f, RequiredFields[p]), Answer(p, f) # "UNKNOWN"
    PROVE  Answer(p, g) = Answer(p, f)
<1>1. CASE p = "MinimumByInstalment"
  BY <1>1, MinimumByInstalmentKept DEF Answer
<1>2. CASE p = "LongTermRequiresYoungAge"
  BY <1>2, LongTermRequiresYoungAgeKept DEF Answer
<1>3. CASE p = "AdultHomeless"
  BY <1>3, AdultHomelessKept DEF Answer
<1>4. CASE p = "IncomeWithinHouseholdTier"
  BY <1>4, IncomeWithinHouseholdTierKept DEF Answer
<1>5. CASE p = "BogeumjariAmount"
  BY <1>5, BogeumjariAmountKept DEF Answer
<1>6. CASE p = "LeaseDepositWithinRegionCap"
  BY <1>6, LeaseDepositWithinRegionCapKept DEF Answer
<1>7. CASE p = "HugAmount"
  BY <1>7, HugAmountKept DEF Answer
<1>8. CASE p = "HfAmount"
  BY <1>8, HfAmountKept DEF Answer
<1>9. CASE p = "SgiAmount"
  BY <1>9, SgiAmountKept DEF Answer
<1>10. CASE p = "CreditAmount"
  BY <1>10, CreditAmountKept DEF Answer
<1>11. CASE p = "NotExcludedApplicant"
  BY <1>11, NotExcludedApplicantKept DEF Answer
<1>12. CASE p = "SalaryAmount"
  BY <1>12, SalaryAmountKept DEF Answer
<1> QED BY <1>1, <1>2, <1>3, <1>4, <1>5, <1>6, <1>7, <1>8, <1>9, <1>10, <1>11, <1>12 DEF Predicates, RequiredFields

\* A rule whose verdict is settled keeps it when more is known.
LEMMA VerdictKept ==
    ASSUME NEW rule \in Rule, NEW f \in Facts, NEW g \in Facts, KnowsMore(f, g),
           Verdict(rule, f) # "UNKNOWN"
    PROVE  Verdict(rule, g) = Verdict(rule, f)
<1>1. Required(rule) \subseteq Fields
  <2>1. CASE rule \in PredicateRule
    <3>1. rule.op = "PREDICATE" /\ rule.predicate \in Predicates
      BY <2>1 DEF PredicateRule
    <3>2. RequiredFields[rule.predicate] \subseteq Fields
      BY <3>1 DEF Predicates, RequiredFields, Fields
    <3> QED BY <3>1, <3>2 DEF Required
  <2>2. CASE rule \in ComparisonRule
    <3>1. rule.op # "PREDICATE" /\ rule.field \in Fields
      BY <2>2 DEF ComparisonRule, Bounding, Fields, Flags
    <3> QED BY <3>1 DEF Required
  <2> QED BY <2>1, <2>2 DEF Rule
<1>2. Known(f, Required(rule))
  BY DEF Verdict
<1>3. Known(g, Required(rule)) /\ \A x \in Required(rule) : g[x] = f[x]
  BY <1>1, <1>2 DEF Known, KnowsMore
<1>4. CASE rule.op = "PREDICATE"
  <2>1. rule.predicate \in Predicates
    BY <1>4 DEF Rule, ComparisonRule, PredicateRule, Bounding
  <2> QED BY <1>2, <1>3, <1>4, <2>1, AnswerKept DEF Verdict, Required
<1>5. CASE rule.op # "PREDICATE"
  BY <1>2, <1>3, <1>5 DEF Verdict, Required
<1> QED BY <1>4, <1>5

\* Knowing more settles an UNKNOWN and never overturns a verdict: a product that
\* was passed on, or turned down, with what was known stays so when the applicant
\* fills in the rest (evaluate_product on facts that hold only what is known).
THEOREM NeverOverturned ==
    ASSUME NEW pack \in ProductRulePack, NEW f \in Facts, NEW g \in Facts, KnowsMore(f, g),
           Status(pack, f) # "UNKNOWN"
    PROVE  Status(pack, g) = Status(pack, f)
<1>1. pack.rules \subseteq Rule
  BY DEF ProductRulePack
<1>2. \A r \in pack.rules : Verdict(r, f) # "UNKNOWN" => Verdict(r, g) = Verdict(r, f)
  BY <1>1, VerdictKept
<1>3. CASE Status(pack, f) = "FAIL"
  <2>1. PICK r \in pack.rules : Verdict(r, f) = "FAIL"
    BY <1>3 DEF Status
  <2> QED BY <1>2, <1>3, <2>1 DEF Status
<1>4. CASE Status(pack, f) = "PASS"
  <2>1. \A r \in pack.rules : Verdict(r, f) \notin {"FAIL", "UNKNOWN"}
    BY <1>4 DEF Status
  <2>2. \A r \in pack.rules : Verdict(r, g) \notin {"FAIL", "UNKNOWN"}
    BY <1>2, <2>1
  <2> QED BY <1>4, <2>2 DEF Status
<1> QED BY <1>3, <1>4 DEF Status

\* A registry that refuses overlapping packs never has two packs to choose from:
\* ProductRulePackAmbiguousError cannot be raised.
THEOREM NeverAmbiguous ==
    ASSUME NEW registry \in SUBSET ProductRulePack, Registered(registry),
           NEW name \in STRING, NEW day \in Nat,
           NEW p \in Resolved(registry, name, day), NEW q \in Resolved(registry, name, day)
    PROVE  p = q
<1>1. /\ p \in registry /\ name \in p.names /\ IsActiveOn(p, day)
      /\ q \in registry /\ name \in q.names /\ IsActiveOn(q, day)
  BY DEF Resolved
<1>2. /\ p.from \in Nat /\ (p.to # None => p.to \in Nat)
      /\ q.from \in Nat /\ (q.to # None => q.to \in Nat)
  BY <1>1 DEF ProductRulePack
<1>3. PeriodsOverlap(p, q)
  BY <1>1, <1>2 DEF PeriodsOverlap, IsActiveOn
<1>4. p.names \cap q.names # {}
  BY <1>1
<1> QED BY <1>1, <1>3, <1>4 DEF Registered, Conflicts

-------------------------------------------------------------------------------
\* The facts as one function, which TLC cannot enumerate.
Typed ==
    /\ question \in Questions \cup {None}
    /\ facts \in Facts
    /\ eligible \in {"PASS", "FAIL", "UNKNOWN"}

\* The inductive invariant: the answer is that of the rules to what is known.
Answered ==
    /\ Typed
    /\ question = None => eligible = "UNKNOWN"
    /\ question # None => eligible = Status(question.product, facts)

LEMMA NothingKnownIsFacts == NothingKnown \in Facts
BY DEF NothingKnown, Facts

LEMMA AnsweredHolds == EligibilitySpec => []Answered
<1>1. EligibilityInit => Answered
  BY NothingKnownIsFacts DEF EligibilityInit, Answered, Typed
<1>2. Answered /\ [EligibilityNext]_eligibilityVars => Answered'
  <2> SUFFICES ASSUME Answered, [EligibilityNext]_eligibilityVars PROVE Answered'
    OBVIOUS
  <2>1. ASSUME NEW q \in Questions, AskProduct(q) PROVE Answered'
    <3>1. question' = q /\ eligible' = Status(q.product, facts) /\ facts' = facts
      BY <2>1 DEF AskProduct
    <3>2. eligible' \in {"PASS", "FAIL", "UNKNOWN"}
      BY <3>1 DEF Status
    <3>3. question = None /\ eligible = "UNKNOWN"
      BY <2>1 DEF AskProduct, Answered
    <3>4. CASE question' # None
      BY <3>1, <3>2, <3>4 DEF Answered, Typed
    <3>5. CASE question' = None
      BY <3>1, <3>5, QuestionAssumption
    <3> QED BY <3>4, <3>5
  <2>2. ASSUME question # None, NEW f \in DOMAIN question.values,
               NEW v \in question.values[f], LearnFact(f, v)
        PROVE  Answered'
    <3>1. question \in Questions
      BY <2>2 DEF Answered, Typed
    <3>2. f \in Fields /\ v \in TypeOfFact(f)
      BY <2>2, <3>1, QuestionAssumption
    <3>3. facts' = [facts EXCEPT ![f] = v] /\ question' = question
          /\ eligible' = Status(question.product, facts')
      BY <2>2 DEF LearnFact
    <3>4. facts' \in Facts
      BY <3>2, <3>3 DEF Answered, Typed, Facts, TypeOfFact
    <3>5. eligible' \in {"PASS", "FAIL", "UNKNOWN"}
      BY <3>3 DEF Status
    <3> QED BY <2>2, <3>1, <3>3, <3>4, <3>5 DEF Answered, Typed
  <2>3. CASE UNCHANGED eligibilityVars
    BY <2>3 DEF Answered, Typed, eligibilityVars, Status, Verdict, Answer
  <2> QED BY <2>1, <2>2, <2>3 DEF EligibilityNext, Learn
<1> QED BY <1>1, <1>2, PTL DEF EligibilitySpec

\* Type correctness of Eligibility.
THEOREM EligibilityTypeCorrect == EligibilitySpec => []EligibilityTypeOK
<1>1. Answered => EligibilityTypeOK
  BY DEF Answered, Typed, EligibilityTypeOK, Facts
<1> QED BY <1>1, AnsweredHolds, PTL

\* Answers stand (AnswersStand), for every set of packs and every order in which
\* the facts become known: Eligibility implements Settling.
THEOREM AnswersNeverTurn == EligibilitySpec => AnswersStand
<1>1. EligibilityInit => Judged!SettlingInit
  BY DEF EligibilityInit, Judged!SettlingInit
<1>2. Answered /\ Answered' /\ [EligibilityNext]_eligibilityVars
        => [Judged!Settle]_eligible
  <2> SUFFICES ASSUME Answered, Answered', [EligibilityNext]_eligibilityVars,
                      eligible' # eligible
               PROVE  Judged!Settle
    OBVIOUS
  <2>1. eligible' \in {"PASS", "FAIL", "UNKNOWN"}
    BY DEF Answered, Typed
  <2>2. ASSUME NEW q \in Questions, AskProduct(q) PROVE eligible = "UNKNOWN"
    BY <2>2 DEF AskProduct, Answered
  <2>3. ASSUME question # None, NEW f \in DOMAIN question.values,
               NEW v \in question.values[f], LearnFact(f, v)
        PROVE  eligible = "UNKNOWN"
    <3>1. question \in Questions /\ facts \in Facts /\ facts' \in Facts
      BY <2>3 DEF Answered, Typed
    <3>2. question.product \in ProductRulePack /\ f \in Fields
      BY <2>3, <3>1, QuestionAssumption
    <3>3. /\ facts[f] = None /\ facts' = [facts EXCEPT ![f] = v]
          /\ eligible' = Status(question.product, facts')
          /\ eligible = Status(question.product, facts)
      BY <2>3 DEF LearnFact, Answered
    <3>4. KnowsMore(facts, facts')
      BY <3>1, <3>3 DEF KnowsMore, Facts
    <3> QED BY <3>1, <3>2, <3>3, <3>4, NeverOverturned
  <2>4. eligible = "UNKNOWN"
    BY <2>2, <2>3 DEF EligibilityNext, Learn, eligibilityVars
  <2> QED BY <2>1, <2>4 DEF Judged!Settle
<1> QED BY <1>1, <1>2, AnsweredHolds, PTL DEF EligibilitySpec, AnswersStand, Judged!SettlingSpec
-------------------------------------------------------------------------------
(* The numbers in the packs. *)

\* A rule that compares has a number to compare with.
Comparable(rule) ==
    \/ rule.op \in {"GTE", "LTE"} /\ rule.expected \in Nat
    \/ rule.op = "BETWEEN" /\ rule.expected[1] \in Nat /\ rule.expected[2] \in Nat
    \/ rule.op \in {"EQ", "IN", "PREDICATE"}

LEMMA BoundsCompare == \A f : \A n \in Nat : Comparable(AtLeast(f, n)) /\ Comparable(AtMost(f, n))
  BY DEF Comparable, AtLeast, AtMost

LEMMA BetweenCompares == \A f : \A m, n \in Nat : Comparable(Between(f, m, n))
  BY DEF Comparable, Between

LEMMA IsCompares == \A f, a : Comparable(Is(f, a))
  BY DEF Comparable, Is

LEMMA MemberCompares == \A a : Comparable(Member(a))
  BY DEF Comparable, Member

LEMMA HoldsCompares == \A a : Comparable(Holds(a))
  BY DEF Comparable, Holds

LEMMA OneIsFinite == \A a : IsFiniteSet({a})
  BY FS_Singleton

LEMMA TwoAreFinite == \A a, b : IsFiniteSet({a, b})
<1> SUFFICES ASSUME NEW a, NEW b PROVE IsFiniteSet({a, b})
  OBVIOUS
<1>1. IsFiniteSet({a} \cup {b})
  BY OneIsFinite, FS_Union
<1>2. {a} \cup {b} = {a, b}
  OBVIOUS
<1> QED BY <1>1, <1>2

LEMMA ThreeAreFinite == \A a, b, c : IsFiniteSet({a, b, c})
<1> SUFFICES ASSUME NEW a, NEW b, NEW c PROVE IsFiniteSet({a, b, c})
  OBVIOUS
<1>1. IsFiniteSet({a, b} \cup {c})
  BY OneIsFinite, TwoAreFinite, FS_Union
<1>2. {a, b} \cup {c} = {a, b, c}
  OBVIOUS
<1> QED BY <1>1, <1>2

LEMMA FourAreFinite == \A a, b, c, d : IsFiniteSet({a, b, c, d})
<1> SUFFICES ASSUME NEW a, NEW b, NEW c, NEW d PROVE IsFiniteSet({a, b, c, d})
  OBVIOUS
<1>1. IsFiniteSet({a, b, c} \cup {d})
  BY OneIsFinite, ThreeAreFinite, FS_Union
<1>2. {a, b, c} \cup {d} = {a, b, c, d}
  OBVIOUS
<1> QED BY <1>1, <1>2

SoundRules(rules) == IsFiniteSet(rules) /\ \A rule \in rules : Comparable(rule)

Sound(pack) == SoundRules(pack.rules)

LEMMA OneIsSound == \A a : Comparable(a) => SoundRules({a})
  BY OneIsFinite DEF SoundRules

LEMMA TwoAreSound == \A a, b : Comparable(a) /\ Comparable(b) => SoundRules({a, b})
  BY TwoAreFinite DEF SoundRules

LEMMA ThreeAreSound ==
    \A a, b, c : Comparable(a) /\ Comparable(b) /\ Comparable(c) => SoundRules({a, b, c})
  BY ThreeAreFinite DEF SoundRules

LEMMA FourAreSound ==
    \A a, b, c, d : Comparable(a) /\ Comparable(b) /\ Comparable(c) /\ Comparable(d)
        => SoundRules({a, b, c, d})
  BY FourAreFinite DEF SoundRules

LEMMA SoundPack == \A n, k, f, t, rules : SoundRules(rules) => Sound(Pack(n, k, f, t, rules))
  BY DEF Sound, Pack

LEMMA SavingsPacksAreSound == \A pack \in SavingsPacks : Sound(pack)
<1>1. Sound(KB_GOLDEN_LIFE_PENSION_DEPOSIT_PACK)
  BY BoundsCompare, MemberCompares, TwoAreSound, SoundPack DEF KB_GOLDEN_LIFE_PENSION_DEPOSIT_PACK, Deposit, Million
<1>2. Sound(KB_SUPER_TERM_DEPOSIT_PACK)
  BY BoundsCompare, OneIsSound, SoundPack DEF KB_SUPER_TERM_DEPOSIT_PACK, Deposit, Million
<1>3. Sound(KB_STAR_TERM_DEPOSIT_PACK)
  BY BoundsCompare, MemberCompares, TwoAreSound, SoundPack DEF KB_STAR_TERM_DEPOSIT_PACK, Deposit, Million
<1>4. Sound(KB_GENERAL_TERM_DEPOSIT_PACK)
  BY BoundsCompare, OneIsSound, SoundPack DEF KB_GENERAL_TERM_DEPOSIT_PACK, Deposit, Manwon
<1>5. Sound(KB_GENERAL_INSTALLMENT_SAVINGS_PACK)
  BY BoundsCompare, OneIsSound, SoundPack DEF KB_GENERAL_INSTALLMENT_SAVINGS_PACK, Savings, Manwon
<1>6. Sound(KB_PREMIUM_INSTALLMENT_SAVINGS_PACK)
  BY BetweenCompares, MemberCompares, TwoAreSound, SoundPack DEF KB_PREMIUM_INSTALLMENT_SAVINGS_PACK, Savings, Manwon
<1>7. Sound(KB_MUTUAL_INSTALLMENT_FREE_PACK)
  BY BetweenCompares, OneIsSound, SoundPack DEF KB_MUTUAL_INSTALLMENT_FREE_PACK, Savings, Manwon
<1>8. Sound(KB_MUTUAL_INSTALLMENT_FIXED_PACK)
  BY BoundsCompare, OneIsSound, SoundPack DEF KB_MUTUAL_INSTALLMENT_FIXED_PACK, Savings, Manwon
<1>9. Sound(KB_MY_OWN_SAVINGS_PACK)
  BY BetweenCompares, MemberCompares, TwoAreSound, SoundPack DEF KB_MY_OWN_SAVINGS_PACK, Savings, Manwon
<1>10. Sound(KB_FREESTYLE_SAVINGS_PACK)
  BY MemberCompares, OneIsSound, SoundPack DEF KB_FREESTYLE_SAVINGS_PACK, Savings
<1>11. Sound(KB_MERCHANT_PREFERRED_SAVINGS_PACK)
  BY BoundsCompare, HoldsCompares, ThreeAreSound, SoundPack DEF KB_MERCHANT_PREFERRED_SAVINGS_PACK, Savings, Manwon
<1>12. Sound(KB_TRAVEL_SAVINGS_PACK)
  BY BetweenCompares, MemberCompares, TwoAreSound, SoundPack DEF KB_TRAVEL_SAVINGS_PACK, Savings, Manwon
<1>13. Sound(KB_CLEAR_SKY_SAVINGS_PACK)
  BY MemberCompares, OneIsSound, SoundPack DEF KB_CLEAR_SKY_SAVINGS_PACK, Savings
<1>14. Sound(KB_STAR_SAVINGS_3_PACK)
  BY BetweenCompares, BoundsCompare, MemberCompares, ThreeAreSound, SoundPack DEF KB_STAR_SAVINGS_3_PACK, Savings, Manwon
<1> QED BY <1>1, <1>2, <1>3, <1>4, <1>5, <1>6, <1>7, <1>8, <1>9, <1>10, <1>11, <1>12, <1>13, <1>14 DEF SavingsPacks

LEMMA JeonsePackIsSound ==
    ASSUME NEW n, NEW k, NEW f, NEW t, NEW a, NEW b, Comparable(a), Comparable(b)
    PROVE  Sound(Pack(n, k, f, t, JeonseRules \cup {a, b}))
<1>1. IsFiniteSet(JeonseRules) /\ IsFiniteSet({a, b})
  BY TwoAreFinite, ThreeAreFinite DEF JeonseRules
<1>2. IsFiniteSet(JeonseRules \cup {a, b})
  BY <1>1, FS_Union
<1>3. \A rule \in JeonseRules : Comparable(rule)
  BY BoundsCompare, IsCompares DEF JeonseRules
<1> QED BY <1>2, <1>3 DEF Sound, SoundRules, Pack

LEMMA LoanPacksAreSound == \A pack \in LoanPacks : Sound(pack)
<1>1. Sound(KB_MORTGAGE_LOAN_PACK)
  BY HoldsCompares, OneIsSound, SoundPack DEF KB_MORTGAGE_LOAN_PACK
<1>2. Sound(HF_BOGEUMJARI_LOAN_PACK)
  BY HoldsCompares, ThreeAreSound, SoundPack DEF HF_BOGEUMJARI_LOAN_PACK
<1>3. Sound(KB_STAR_APARTMENT_MORTGAGE_LOAN_PACK)
  BY BetweenCompares, BoundsCompare, HoldsCompares, IsCompares, FourAreSound, SoundPack DEF KB_STAR_APARTMENT_MORTGAGE_LOAN_PACK, Million
<1>4. Sound(KB_STAR_JEONSE_LOAN_HUG_PACK)
  BY JeonsePackIsSound, BoundsCompare, HoldsCompares DEF KB_STAR_JEONSE_LOAN_HUG_PACK
<1>5. Sound(KB_STAR_JEONSE_LOAN_HF_PACK)
  BY JeonsePackIsSound, BoundsCompare, HoldsCompares DEF KB_STAR_JEONSE_LOAN_HF_PACK
<1>6. Sound(KB_STAR_JEONSE_LOAN_SGI_PACK)
  BY JeonsePackIsSound, BoundsCompare, HoldsCompares DEF KB_STAR_JEONSE_LOAN_SGI_PACK
<1>7. Sound(KB_CREDIT_LOAN_PACK)
  BY HoldsCompares, OneIsSound, SoundPack DEF KB_CREDIT_LOAN_PACK
<1>8. Sound(KB_SALARY_CREDIT_LOAN_PACK)
  BY BoundsCompare, HoldsCompares, FourAreSound, SoundPack DEF KB_SALARY_CREDIT_LOAN_PACK
<1>9. Sound(KB_EMERGENCY_CASH_LOAN_PACK)
  BY BetweenCompares, BoundsCompare, IsCompares, ThreeAreSound, SoundPack DEF KB_EMERGENCY_CASH_LOAN_PACK, Manwon
<1> QED BY <1>1, <1>2, <1>3, <1>4, <1>5, <1>6, <1>7, <1>8, <1>9 DEF LoanPacks

\* What resolve_allocation_bounds reads from a pack is a number, or no bound.
LEMMA BoundsAreNumbers ==
    ASSUME NEW pack \in PRODUCT_RULE_PACKS
    PROVE  Minimum(pack) \in Nat /\ Maximum(pack) \in Nat \cup {None}
<1>1. Sound(pack)
  BY SavingsPacksAreSound, LoanPacksAreSound DEF PRODUCT_RULE_PACKS
<1>2. BoundRules(pack) \subseteq pack.rules /\ IsFiniteSet(BoundRules(pack))
  <2>1. BoundRules(pack) \subseteq pack.rules
    BY DEF BoundRules
  <2> QED BY <1>1, <2>1, FS_Subset DEF Sound, SoundRules
<1>3. \A r \in BoundRules(pack) :
        Lowest(r) \subseteq Nat /\ Highest(r) \subseteq Nat /\ IsFiniteSet(Lowest(r))
  <2> SUFFICES ASSUME NEW r \in BoundRules(pack)
               PROVE  Lowest(r) \subseteq Nat /\ Highest(r) \subseteq Nat /\ IsFiniteSet(Lowest(r))
    OBVIOUS
  <2>1. Comparable(r)
    BY <1>1, <1>2 DEF Sound, SoundRules
  <2> QED BY <2>1, FS_EmptySet, FS_Singleton DEF Comparable, Lowest, Highest
<1>4. Minimum(pack) \in Nat
  <2> DEFINE low == [r \in BoundRules(pack) |-> Lowest(r)]
             lows == {low[r] : r \in BoundRules(pack)}
             all == {1} \cup UNION {Lowest(r) : r \in BoundRules(pack)}
  <2>1. IsFiniteSet(lows)
    <3> HIDE DEF low
    <3> QED BY <1>2, ImageIsFinite
  <2>2. \A s \in lows : s \subseteq Nat /\ IsFiniteSet(s)
    BY <1>3
  <2>3. IsFiniteSet(UNION lows) /\ UNION lows \subseteq Nat
    <3> HIDE DEF lows
    <3> QED BY <2>1, <2>2, FS_UNION
  <2>7. UNION lows = UNION {Lowest(r) : r \in BoundRules(pack)}
    OBVIOUS
  <2>4. IsFiniteSet(all) /\ all # {} /\ \A x \in all : x \in Nat /\ x \in Int
    <3>1. IsFiniteSet({1} \cup UNION lows)
      BY <2>3, FS_Singleton, FS_Union
    <3>2. \A x \in UNION lows : x \in Nat
      BY <2>3
    <3>3. \A x \in all : x \in Nat
      BY <2>7, <3>2
    <3>4. all = {1} \cup UNION lows
      BY <2>7
    <3> HIDE DEF lows, all
    <3>5. IsFiniteSet(all)
      BY <3>1, <3>4
    <3>6. 1 \in all
      BY <3>4
    <3> QED BY <3>3, <3>5, <3>6
  <2>5. Minimum(pack) = Max(all)
    BY DEF Minimum
  <2> HIDE DEF all
  <2> QED BY <2>4, <2>5, MaxOfFinite
<1>5. Maximum(pack) \in Nat \cup {None}
  <2> DEFINE all == UNION {Highest(r) : r \in BoundRules(pack)}
  <2>1. all \subseteq Nat
    BY <1>3
  <2>2. Maximum(pack) = IF all = {} THEN None ELSE Min(all)
    BY DEF Maximum
  <2> HIDE DEF all
  <2> QED BY <2>1, <2>2, MinOfNumbers
<1> QED BY <1>4, <1>5
-------------------------------------------------------------------------------
(* What the options come to. *)

\* A request that was not blocked, every option of which has a pack on the day.
Routable(r) ==
    /\ r \in SavingsRequests /\ ~SavingsBlocked(r)
    /\ \A o \in r.candidates : Resolved(PRODUCT_RULE_PACKS, o.name, r.asOf) # {}

LEMMA RequestTyped ==
    ASSUME NEW r \in SavingsRequests
    PROVE  /\ r.candidates \subseteq Options /\ Options \subseteq Option
           /\ r.asOf \in Nat /\ r.maxProducts \in 1..3 /\ r.existing \in [Institutions -> Nat]
           /\ r.monthly \in Nat \cup {None} /\ r.lumpSum \in Nat \cup {None}
           /\ r.snapshot \in Snapshot /\ r.months \in EmergencyMonths
  BY SavingsAssumption DEF SavingsRequest

LEMMA NetIsNat ==
    ASSUME NEW o \in Option, NEW basis, NEW timing
    PROVE  NetPerMille(o, basis, timing) \in Nat
<1>1. o.term \in Nat \ {0} /\ o.rate \in Nat
  BY DEF Option
<1> DEFINE halfMonths == IF basis = "LUMP_SUM" THEN DepositHalfMonths(o)
                         ELSE InstalmentHalfMonths(o, timing)
<1>2. halfMonths \in Nat
  BY <1>1 DEF DepositHalfMonths, InstalmentHalfMonths
<1> HIDE DEF halfMonths
<1>3. o.rate * halfMonths \in Nat
  BY <1>1, <1>2
<1>4. (o.rate * halfMonths) * 846 \in Nat
  BY <1>3
<1>5. ((o.rate * halfMonths) * 846) \div 240000 \in Nat
  BY <1>4
<1> QED BY <1>5 DEF NetPerMille, halfMonths

LEMMA PackIsResolved ==
    ASSUME NEW o, NEW r, Resolved(PRODUCT_RULE_PACKS, o.name, r.asOf) # {}
    PROVE  PackOf(o, r) \in PRODUCT_RULE_PACKS
  BY DEF PackOf, Resolved

\* Of an option with a pack: bounds, a positive principal, an interest.
LEMMA CandidateTyped ==
    ASSUME NEW r, Routable(r), NEW c \in Candidates(r)
    PROVE  /\ c \in CandidateRecord /\ c.option \in r.candidates
           /\ c.basis \in Bases /\ c.low \in Nat /\ c.high \in Nat \cup {None}
           /\ c.principal \in Nat \ {0} /\ c.net \in Nat
           /\ c.option.institution \in Institutions
<1>1. PICK o \in r.candidates : c = Candidate(o, r)
  BY DEF Candidates
<1>2. o \in Options /\ o \in Option
  BY RequestTyped DEF Routable
<1>3. PackOf(o, r) \in PRODUCT_RULE_PACKS
  BY PackIsResolved DEF Routable
<1>4. Minimum(PackOf(o, r)) \in Nat /\ Maximum(PackOf(o, r)) \in Nat \cup {None}
  BY <1>3, BoundsAreNumbers
<1>5. \A basis : NetPerMille(o, basis, r.timing) \in Nat
  BY <1>2, NetIsNat
<1>6. o.term \in Nat \ {0} /\ o.institution \in Institutions
  BY <1>2 DEF Option
<1> QED BY <1>1, <1>2, <1>4, <1>5, <1>6 DEF Candidate, CandidateRecord, Bases

\* What the proofs below need of the candidates; any of them.
Computable(c) ==
    /\ c.basis \in Bases /\ c.low \in Nat /\ c.high \in Nat \cup {None}
    /\ c.principal \in Nat \ {0} /\ c.net \in Nat /\ c.option.institution \in Institutions

LEMMA MaturityIsPositive ==
    ASSUME NEW c, Computable(c) PROVE MaturityPerUnit(c) \in Nat \ {0}
  BY DEF Computable, MaturityPerUnit

LEMMA LeftIsInt ==
    ASSUME NEW r, Routable(r), NEW i \in Institutions
    PROVE  ProtectionLeft(r, i) \in Int
<1>1. ProtectionLimit(r.asOf) \in Nat
  BY RequestTyped DEF Routable, SavingsBlocked, ProtectionLimit, Million
<1>2. r.existing[i] \in Nat
  BY RequestTyped DEF Routable
<1> QED BY <1>1, <1>2 DEF ProtectionLeft

-------------------------------------------------------------------------------
(* Plans. *)

\* A plan gives each of finitely many options a number.
Plan(plan, X) == IsFiniteSet(X) /\ (\A c \in X : Computable(c)) /\ plan \in [X -> Nat]

LEMMA SumsOfPlan ==
    ASSUME NEW X, NEW plan, Plan(plan, X)
    PROVE  /\ \A basis : Allocated(plan, basis) \in Nat
           /\ \A i : Protected(plan, i) \in Nat
           /\ Interest(plan) \in Nat
<1> USE DEF Plan
<1>1. ASSUME NEW basis PROVE Allocated(plan, basis) \in Nat
  <2> DEFINE S == {c \in DOMAIN plan : c.basis = basis}
  <2>1. IsFiniteSet(S) /\ \A c \in S : plan[c] \in Nat
    BY FS_Subset
  <2> HIDE DEF S
  <2>2. SumFunctionOnSet(plan, S) \in Nat
    BY <2>1, SumIsNat
  <2> QED BY <2>2 DEF S, Allocated
<1>2. ASSUME NEW i PROVE Protected(plan, i) \in Nat
  <2> DEFINE S == {c \in DOMAIN plan : c.option.institution = i}
             w == [c \in DOMAIN plan |-> plan[c] * MaturityPerUnit(c)]
  <2>1. ASSUME NEW c \in S PROVE w[c] \in Nat
    <3>1. plan[c] \in Nat /\ MaturityPerUnit(c) \in Nat
      BY MaturityIsPositive
    <3>2. plan[c] * MaturityPerUnit(c) \in Nat
      BY <3>1
    <3> QED BY <3>2
  <2>2. IsFiniteSet(S)
    BY FS_Subset
  <2>3. Protected(plan, i) = SumFunctionOnSet(w, S)
    BY DEF Protected
  <2> HIDE DEF S, w
  <2> QED BY <2>1, <2>2, <2>3, SumIsNat
<1>3. Interest(plan) \in Nat
  <2> DEFINE w == [c \in DOMAIN plan |-> plan[c] * (c.principal * c.net)]
  <2>1. ASSUME NEW c \in X PROVE w[c] \in Nat
    <3>1. plan[c] \in Nat /\ c.principal \in Nat /\ c.net \in Nat
      BY DEF Computable
    <3>2. c.principal * c.net \in Nat
      BY <3>1
    <3>3. plan[c] * (c.principal * c.net) \in Nat
      BY <3>1, <3>2
    <3> QED BY <3>3
  <2>2. DOMAIN w = X
    OBVIOUS
  <2>3. Interest(plan) = SumFunctionOnSet(w, X) \div 1000
    BY <2>2 DEF Interest, SumFunction
  <2> HIDE DEF w
  <2>4. SumFunctionOnSet(w, X) \in Nat
    BY <2>1, SumIsNat
  <2> QED BY <2>3, <2>4
<1> QED BY <1>1, <1>2, <1>3
\* Limits that are numbers.
Limits(b, r) == b \in [Bases -> Nat] /\ \A i \in Institutions : ProtectionLeft(r, i) \in Int

\* An increment is at most what each limit leaves.
LEMMA IncrementBounds ==
    ASSUME NEW X, NEW plan, Plan(plan, X), NEW b, NEW r, Limits(b, r), NEW c \in X
    PROVE  /\ Increment(plan, c, b, r) \in Int
           /\ Increment(plan, c, b, r) <= b[c.basis] - Allocated(plan, c.basis)
           /\ Increment(plan, c, b, r) <= ProtectionRoom(plan, c, r)
<1>1. Computable(c) /\ plan[c] \in Nat
  BY DEF Plan
<1>2. b[c.basis] - Allocated(plan, c.basis) \in Int
  BY <1>1, SumsOfPlan DEF Computable, Limits
<1>3. ProtectionRoom(plan, c, r) \in Int
  <2>1. ProtectionLeft(r, c.option.institution) * 1000 - Protected(plan, c.option.institution) \in Int
    BY <1>1, SumsOfPlan DEF Computable, Limits
  <2>2. MaturityPerUnit(c) \in Nat \ {0}
    BY <1>1, MaturityIsPositive
  <2> QED BY <2>1, <2>2 DEF ProtectionRoom
<1>4. Capacity(plan, c) = {} \/ \E n \in Int : Capacity(plan, c) = {n}
  BY <1>1 DEF Capacity, Computable
<1> DEFINE S == {b[c.basis] - Allocated(plan, c.basis), ProtectionRoom(plan, c, r)} \cup Capacity(plan, c)
<1>5. \E x \in S : \A y \in S : x <= y
  <2>1. ASSUME NEW m \in Int, NEW n \in Int, NEW C, C = {} \/ \E k \in Int : C = {k}
        PROVE  \E x \in {m, n} \cup C : \A y \in {m, n} \cup C : x <= y
    BY <2>1
  <2> QED BY <1>2, <1>3, <1>4, <2>1
<1>6. Increment(plan, c, b, r) \in S /\ \A y \in S : Increment(plan, c, b, r) <= y
  BY <1>5 DEF Increment, Min
<1>7. \A y \in S : y \in Int
  BY <1>2, <1>3, <1>4
<1> QED BY <1>6, <1>7

\* Raising an option by what is left keeps every limit.
LEMMA RaisedStays ==
    ASSUME NEW X, NEW plan, Plan(plan, X), NEW b, NEW r, Limits(b, r),
           WithinLimits(plan, b, r), NEW c
    PROVE  Plan(Raised(plan, c, b, r), X) /\ WithinLimits(Raised(plan, c, b, r), b, r)
<1> DEFINE more == Larger(0, Increment(plan, c, b, r))
           next == Raised(plan, c, b, r)
<1>1. CASE c \notin X
  <2>1. next = plan
    BY <1>1 DEF Raised, Plan
  <2> QED BY <2>1
<1>2. CASE c \in X
  <2>1. Computable(c) /\ plan[c] \in Nat
    BY <1>2 DEF Plan
  <2>2. /\ Increment(plan, c, b, r) \in Int
        /\ Increment(plan, c, b, r) <= b[c.basis] - Allocated(plan, c.basis)
        /\ Increment(plan, c, b, r) <= ProtectionRoom(plan, c, r)
    BY <1>2, IncrementBounds
  <2>3. b[c.basis] \in Nat /\ Allocated(plan, c.basis) \in Nat /\ Allocated(plan, c.basis) <= b[c.basis]
    BY <2>1, SumsOfPlan DEF Limits, WithinLimits, Computable
  <2>4. more \in Nat /\ more <= b[c.basis] - Allocated(plan, c.basis)
    BY <2>2, <2>3 DEF Larger
  <2>5. next \in [X -> Nat] /\ next[c] = plan[c] + more /\ \A d \in X \ {c} : next[d] = plan[d]
    BY <1>2, <2>1, <2>4 DEF Raised, Plan
  <2>6. Plan(next, X)
    BY <2>5 DEF Plan
  <2> HIDE DEF next, more
  <2>7. ASSUME NEW basis \in Bases PROVE Allocated(next, basis) <= b[basis]
    <3> DEFINE S == {d \in X : d.basis = basis}
    <3>1. /\ Allocated(next, basis) = SumFunctionOnSet(next, S)
          /\ Allocated(plan, basis) = SumFunctionOnSet(plan, S)
      BY <2>5 DEF Allocated, Plan
    <3>2. IsFiniteSet(S)
      BY FS_Subset DEF Plan
    <3>3. \A d \in S : plan[d] \in Int /\ next[d] \in Int
      BY <2>5 DEF Plan
    <3>4. CASE c.basis = basis
      <4>1. c \in S /\ \A d \in S \ {c} : next[d] = plan[d]
        BY <1>2, <2>5, <3>4
      <4> HIDE DEF S
      <4>2. SumFunctionOnSet(next, S) = SumFunctionOnSet(plan, S) + next[c] - plan[c]
        BY <3>2, <3>3, <4>1, SumChanges
      <4>3. Allocated(plan, basis) \in Nat
        BY SumsOfPlan
      <4> QED BY <2>1, <2>3, <2>4, <2>5, <3>1, <3>4, <4>2, <4>3
    <3>5. CASE c.basis # basis
      <4>1. \A d \in S : next[d] = plan[d]
        BY <2>5, <3>5
      <4> HIDE DEF S
      <4>2. SumFunctionOnSet(plan, S) = SumFunctionOnSet(next, S)
        BY <3>2, <3>3, <4>1, SumSame
      <4> QED BY <3>1, <4>2 DEF WithinLimits
    <3> QED BY <3>4, <3>5
  <2>8. ASSUME NEW i \in Institutions PROVE Protected(next, i) <= ProtectionLeft(r, i) * 1000
    <3> DEFINE S == {d \in X : d.option.institution = i}
               w == [d \in X |-> plan[d] * MaturityPerUnit(d)]
               v == [d \in X |-> next[d] * MaturityPerUnit(d)]
    <3>1. Protected(next, i) = SumFunctionOnSet(v, S) /\ Protected(plan, i) = SumFunctionOnSet(w, S)
      BY <2>5 DEF Protected, Plan
    <3>2. IsFiniteSet(S)
      BY FS_Subset DEF Plan
    <3>3. ASSUME NEW d \in S PROVE w[d] \in Int /\ v[d] \in Int
      <4>1. plan[d] \in Nat /\ next[d] \in Nat /\ MaturityPerUnit(d) \in Nat
        BY <2>5, MaturityIsPositive DEF Plan
      <4>2. plan[d] * MaturityPerUnit(d) \in Int /\ next[d] * MaturityPerUnit(d) \in Int
        BY <4>1
      <4> QED BY <4>2
    <3>4. Protected(plan, i) \in Nat /\ ProtectionLeft(r, i) \in Int /\ Protected(plan, i) <= ProtectionLeft(r, i) * 1000
      BY SumsOfPlan DEF Limits, WithinLimits
    <3>5. CASE c.option.institution = i
      <4>1. c \in S /\ (\A d \in S \ {c} : v[d] = w[d]) /\ w[c] = plan[c] * MaturityPerUnit(c)
            /\ v[c] = (plan[c] + more) * MaturityPerUnit(c)
        BY <1>2, <2>5, <3>5
      <4>2. MaturityPerUnit(c) \in Nat \ {0}
        BY <2>1, MaturityIsPositive
      <4>3. more * MaturityPerUnit(c) <= ProtectionLeft(r, i) * 1000 - Protected(plan, i)
        <5> DEFINE room == ProtectionLeft(r, i) * 1000 - Protected(plan, i)
                   k == MaturityPerUnit(c)
        <5>1. room \in Nat /\ k \in Nat \ {0}
          BY <3>4, <4>2
        <5>2. ProtectionRoom(plan, c, r) = room \div k
          BY <3>5 DEF ProtectionRoom
        <5> HIDE DEF room, k
        <5>3. room \div k \in Nat /\ (room \div k) * k <= room
          BY <5>1
        <5>4. more <= room \div k
          BY <2>2, <5>2, <5>3 DEF more, Larger
        <5>5. more * k <= (room \div k) * k
          BY <2>4, <5>1, <5>3, <5>4
        <5>6. more * k \in Nat /\ (room \div k) * k \in Nat
          BY <2>4, <5>1, <5>3
        <5> QED BY <5>1, <5>3, <5>5, <5>6 DEF room, k
      <4>4. (plan[c] + more) * MaturityPerUnit(c) = plan[c] * MaturityPerUnit(c) + more * MaturityPerUnit(c)
        BY <2>1, <2>4, <4>2
      <4>5. plan[c] * MaturityPerUnit(c) \in Nat /\ more * MaturityPerUnit(c) \in Nat
        BY <2>1, <2>4, <4>2
      <4> HIDE DEF S, w, v
      <4>6. SumFunctionOnSet(v, S) = SumFunctionOnSet(w, S) + v[c] - w[c]
        BY <3>2, <3>3, <4>1, SumChanges
      <4> QED BY <3>1, <3>4, <4>1, <4>3, <4>4, <4>5, <4>6
    <3>6. CASE c.option.institution # i
      <4>1. \A d \in S : v[d] = w[d]
        BY <2>5, <3>6
      <4> HIDE DEF S, w, v
      <4>2. SumFunctionOnSet(w, S) = SumFunctionOnSet(v, S)
        BY <3>2, <3>3, <4>1, SumSame
      <4> QED BY <3>1, <3>4, <4>2
    <3> QED BY <3>5, <3>6
  <2>9. WithinLimits(next, b, r)
    BY <2>7, <2>8 DEF WithinLimits
  <2> QED BY <2>6, <2>9 DEF next
<1> QED BY <1>1, <1>2

\* Filling the options of a sequence one after the other makes a plan over them that
\* keeps every limit.
LEMMA FilledStays ==
    ASSUME NEW k \in Nat, NEW T, \A c \in T : Computable(c), NEW ranked \in [1..k -> T],
           NEW b, NEW r, Limits(b, r), WithinLimits(AtMinimum(ranked), b, r)
    PROVE  Plan(Filled(ranked, b, r), Range(ranked)) /\ WithinLimits(Filled(ranked, b, r), b, r)
<1> DEFINE X == Range(ranked)
           D == {p \in [X -> Nat] : WithinLimits(p, b, r)}
           step == [n \in 1..k |-> [p \in D |-> Raised(p, ranked[n], b, r)]]
           Filling(f) == f = [n \in 0..Len(ranked) |->
                               IF n = 0 THEN AtMinimum(ranked) ELSE Raised(f[n - 1], ranked[n], b, r)]
           plan == CHOOSE f : Filling(f)
<1>1. X = {ranked[n] : n \in 1..k} /\ X \subseteq T
  BY DEF Range
<1>2. IsFiniteSet(X) /\ \A c \in X : Computable(c)
  <2>1. IsFiniteSet(1..k)
    BY FS_Interval
  <2>2. IsFiniteSet({ranked[n] : n \in 1..k})
    BY <2>1, ImageIsFinite
  <2> QED BY <1>1, <2>2
<1>3. Len(ranked) = k
  OBVIOUS
<1>4. AtMinimum(ranked) \in D
  BY <1>2 DEF AtMinimum, Computable
<1>5. ASSUME NEW p \in D, NEW c PROVE Raised(p, c, b, r) \in D
  <2>1. Plan(p, X) /\ WithinLimits(p, b, r)
    BY <1>2 DEF Plan
  <2> HIDE DEF X
  <2>2. Plan(Raised(p, c, b, r), X) /\ WithinLimits(Raised(p, c, b, r), b, r)
    BY <2>1, RaisedStays
  <2> QED BY <2>2 DEF Plan, D
<1>6. Filled(ranked, b, r) = plan[k]
  BY <1>3 DEF Filled
<1>7. \E f : Filling(f)
  <2>1. step \in [1..k -> [D -> D]]
    BY <1>5
  <2> HIDE DEF D, step
  <2>2. PICK f \in [0..k -> D] : Iterated(f, k, AtMinimum(ranked), step)
    BY <1>4, <2>1, IterationExists
  <2>3. \A n \in 0..k : n # 0 => step[n][f[n - 1]] = Raised(f[n - 1], ranked[n], b, r)
    <3> SUFFICES ASSUME NEW n \in 0..k, n # 0
                 PROVE  step[n][f[n - 1]] = Raised(f[n - 1], ranked[n], b, r)
      OBVIOUS
    <3>1. n \in 1..k /\ n - 1 \in 0..k
      OBVIOUS
    <3>2. f[n - 1] \in D
      BY <2>2, <3>1
    <3> QED BY <3>1, <3>2 DEF step
  <2>4. f = [n \in 0..k |-> IF n = 0 THEN AtMinimum(ranked) ELSE Raised(f[n - 1], ranked[n], b, r)]
    BY <2>2, <2>3 DEF Iterated
  <2> QED BY <1>3, <2>4
<1>8. plan = [n \in 0..k |-> IF n = 0 THEN AtMinimum(ranked) ELSE Raised(plan[n - 1], ranked[n], b, r)]
  BY <1>3, <1>7
<1>9. plan[k] \in D
  <2> HIDE DEF plan, D
  <2>1. plan[0] \in D
    BY <1>4, <1>8
  <2>2. \A n \in 1..k : plan[n - 1] \in D => plan[n] \in D
    <3> SUFFICES ASSUME NEW n \in 1..k, plan[n - 1] \in D PROVE plan[n] \in D
      OBVIOUS
    <3>1. n \in 0..k /\ n # 0
      OBVIOUS
    <3>2. plan[n] = Raised(plan[n - 1], ranked[n], b, r)
      BY <1>8, <3>1
    <3> QED BY <1>5, <3>2
  <2>3. \A n \in 0..k : plan[n] \in D
    BY <2>1, <2>2, IterationStays
  <2> QED BY <2>3
<1> QED BY <1>2, <1>6, <1>9 DEF Plan
-------------------------------------------------------------------------------
(* Portfolios. *)

\* A plan over some of the candidates is within the limits.
LEMMA PlanOfCandidates ==
    ASSUME NEW T, \A c \in T : Computable(c), NEW r, r.maxProducts \in 1..3, NEW b, Limits(b, r),
           NEW p \in Plans(T, b, r)
    PROVE  \E X \in SUBSET T : Plan(p, X) /\ WithinLimits(p, b, r)
<1>1. PICK ranked \in Combinations(T, r) :
        p = Filled(ranked, b, r) /\ WithinLimits(AtMinimum(ranked), b, r)
  BY DEF Plans
<1>2. PICK k \in 1..r.maxProducts : ranked \in [1..k -> T]
  BY DEF Combinations
<1>3. Range(ranked) \subseteq T /\ k \in Nat
  BY <1>2 DEF Range
<1>4. Plan(p, Range(ranked)) /\ WithinLimits(p, b, r)
  BY <1>1, <1>2, <1>3, FilledStays
<1> QED BY <1>3, <1>4

\* What is chosen is a plan that none outranks; nothing only if there is no plan.
LEMMA ChosenPortfolio ==
    ASSUME NEW T, NEW b, NEW r, NEW p \in Portfolios(T, b, r)
    PROVE  \/ Plans(T, b, r) = {} /\ p = <<>>
           \/ p \in Plans(T, b, r) /\ \A q \in Plans(T, b, r) : ~Outranks(Rank(q, b), Rank(p, b))
<1>1. p \in IF PlansByRank(T, b, r) = {} THEN {<<>>} ELSE Best(PlansByRank(T, b, r))
  BY DEF Portfolios
<1>2. CASE PlansByRank(T, b, r) = {}
  <2>1. Plans(T, b, r) = {}
    BY <1>2 DEF PlansByRank
  <2> QED BY <1>1, <1>2, <2>1
<1>3. CASE PlansByRank(T, b, r) # {}
  <2>1. PICK x \in PlansByRank(T, b, r) :
            p = x[1] /\ \A z \in PlansByRank(T, b, r) : ~Outranks(z[2], x[2])
    BY <1>1, <1>3 DEF Best
  <2>2. PICK q \in Plans(T, b, r) : x = <<q, Rank(q, b)>>
    BY DEF PlansByRank
  <2>3. p = q /\ x[2] = Rank(p, b)
    BY <2>1, <2>2
  <2>4. \A z \in Plans(T, b, r) : ~Outranks(Rank(z, b), x[2])
    <3> TAKE z \in Plans(T, b, r)
    <3> DEFINE y == <<z, Rank(z, b)>>
    <3>1. y \in PlansByRank(T, b, r) /\ y[2] = Rank(z, b)
      BY DEF PlansByRank
    <3> HIDE DEF y
    <3>2. ~Outranks(y[2], x[2])
      BY <2>1, <3>1
    <3> QED BY <3>1, <3>2
  <2> QED BY <2>2, <2>3, <2>4
<1> QED BY <1>2, <1>3

\* The amounts of a portfolio are a plan over the candidates, or nothing.
LEMMA PortfolioTyped ==
    ASSUME NEW T, \A c \in T : Computable(c), NEW r, r.maxProducts \in 1..3, NEW b, Limits(b, r),
           NEW p \in Portfolios(T, b, r)
    PROVE  /\ DOMAIN p \subseteq T
           /\ \A c \in DOMAIN p : p[c] \in Nat
           /\ DOMAIN p # {} => WithinLimits(p, b, r)
           /\ \A basis \in Bases : Allocated(p, basis) \in Nat /\ Allocated(p, basis) <= b[basis]
<1>1. CASE p = <<>>
  <2>1. DOMAIN p = {}
    BY <1>1
  <2>2. \A basis \in Bases : {c \in DOMAIN p : c.basis = basis} = {}
    BY <2>1
  <2>3. \A basis \in Bases : Allocated(p, basis) = 0
    BY <2>2, SumEmpty DEF Allocated
  <2> QED BY <2>1, <2>3 DEF Limits
<1>2. CASE p \in Plans(T, b, r)
  <2>1. PICK X \in SUBSET T : Plan(p, X) /\ WithinLimits(p, b, r)
    BY <1>2, PlanOfCandidates
  <2>2. DOMAIN p = X /\ \A c \in X : p[c] \in Nat
    BY <2>1 DEF Plan
  <2>3. \A basis : Allocated(p, basis) \in Nat
    BY <2>1, SumsOfPlan
  <2> QED BY <2>1, <2>2, <2>3 DEF WithinLimits
<1> QED BY <1>1, <1>2, ChosenPortfolio

-------------------------------------------------------------------------------
(* Budgets. *)

LEMMA CashflowNumbers ==
    ASSUME NEW s \in Snapshot, NEW months \in EmergencyMonths
    PROVE  /\ s.liquid \in Nat /\ Surplus(s) \in Int /\ Buffer(s) \in Nat
           /\ Available(s) \in Nat /\ Target(s, months) \in Nat
           /\ s.reserve # None => Contribution(s, months) \in Nat
<1>1. /\ s.income \in Nat /\ s.expense \in Nat /\ s.debt \in Nat /\ s.liquid \in Nat
      /\ s.reserve \in Nat \cup {None}
  BY DEF Snapshot
<1>2. months \in Nat /\ BuildMonths \in Nat \ {0} /\ BufferFloor \in Nat /\ BufferShare \in Nat \ {0}
  BY CashflowAssumption
<1>3. Surplus(s) \in Int
  BY <1>1 DEF Surplus
<1>4. Buffer(s) \in Nat
  BY <1>1, <1>2 DEF Buffer, Larger
<1>5. Available(s) \in Nat
  BY <1>3, <1>4 DEF Available, Larger
<1>6. Target(s, months) \in Nat
  BY <1>1, <1>2 DEF Target
<1>7. ASSUME s.reserve # None PROVE Contribution(s, months) \in Nat
  <2>1. Shortfall(s, months) \in Nat
    BY <1>1, <1>6, <1>7 DEF Shortfall, Larger
  <2>2. Shortfall(s, months) \div BuildMonths \in Nat
    BY <1>2, <2>1
  <2> QED BY <1>5, <2>2 DEF Contribution, Smaller
<1> QED BY <1>1, <1>3, <1>4, <1>5, <1>6, <1>7

LEMMA BudgetsAreNumbers ==
    ASSUME NEW r \in SavingsRequests, ~SavingsBlocked(r)
    PROVE  /\ BudgetsOf(r) \in [Bases -> Nat]
           /\ r.monthly = None => r.snapshot.reserve # None
<1> DEFINE s == r.snapshot
           flow == Diagnosed(s, r.months)
<1>1. s \in Snapshot /\ r.months \in EmergencyMonths
  BY RequestTyped
<1>2. flow.usable \in Nat
  BY <1>1, CashflowNumbers DEF Diagnosed, Larger
<1>3. ASSUME r.monthly = None PROVE s.reserve # None /\ flow.housing \in Nat
  <2>1. flow.housing # None
    BY <1>3 DEF SavingsBlocked
  <2>2. s.reserve # None
    BY <2>1 DEF Diagnosed
  <2>3. flow.housing = Larger(0, Available(s) - Contribution(s, r.months))
    BY <2>2 DEF Diagnosed
  <2> QED BY <1>1, <2>2, <2>3, CashflowNumbers DEF Larger
<1>4. r.monthly \in Nat \cup {None} /\ r.lumpSum \in Nat \cup {None}
  BY RequestTyped
<1> HIDE DEF flow
<1>5. BudgetsOf(r) = [MONTHLY |-> IF r.monthly = None THEN flow.housing ELSE r.monthly,
                      LUMP_SUM |-> IF r.lumpSum = None THEN flow.usable ELSE r.lumpSum]
  BY DEF BudgetsOf, flow
<1> QED BY <1>2, <1>3, <1>4, <1>5 DEF Bases

\* A derived budget leaves the reserve alone.
LEMMA BudgetsSpareTheReserve ==
    ASSUME NEW r \in SavingsRequests, ~SavingsBlocked(r), r.monthly = None, r.lumpSum = None,
           NEW monthly \in Nat, monthly <= BudgetsOf(r)["MONTHLY"],
           NEW lumpSum \in Nat, lumpSum <= BudgetsOf(r)["LUMP_SUM"]
    PROVE  LET s == r.snapshot IN
           /\ lumpSum > 0 => s.liquid - lumpSum >= Target(s, r.months)
           /\ monthly > 0 => Surplus(s) - monthly >= Buffer(s) + Contribution(s, r.months)
<1> DEFINE s == r.snapshot
<1>1. s \in Snapshot /\ r.months \in EmergencyMonths /\ s.reserve # None
  BY RequestTyped, BudgetsAreNumbers
<1>2. /\ s.liquid \in Nat /\ Surplus(s) \in Int /\ Buffer(s) \in Nat /\ Available(s) \in Nat
      /\ Target(s, r.months) \in Nat /\ Contribution(s, r.months) \in Nat
  BY <1>1, CashflowNumbers
<1>3. /\ lumpSum <= Larger(0, s.liquid - Target(s, r.months))
      /\ monthly <= Larger(0, Available(s) - Contribution(s, r.months))
  BY <1>1 DEF BudgetsOf, Diagnosed
<1>4. lumpSum > 0 => s.liquid - lumpSum >= Target(s, r.months)
  BY <1>2, <1>3 DEF Larger
<1>5. monthly > 0 => Available(s) >= monthly + Contribution(s, r.months)
  BY <1>2, <1>3 DEF Larger
<1>6. monthly > 0 => Surplus(s) - monthly >= Buffer(s) + Contribution(s, r.months)
  BY <1>2, <1>5 DEF Available, Larger
<1> QED BY <1>4, <1>6
-------------------------------------------------------------------------------
(* The service. *)

LEMMA ForwardableTyped ==
    ASSUME NEW r, Routable(r), NEW b
    PROVE  \A c \in Forwardable(r, b) : c \in CandidateRecord /\ Computable(c)
  BY CandidateTyped DEF Forwardable, Computable

LEMMA BudgetsAreLimits ==
    ASSUME NEW r, Routable(r)
    PROVE  BudgetsOf(r) \in [Bases -> Nat] /\ Limits(BudgetsOf(r), r) /\ r.maxProducts \in 1..3
  BY BudgetsAreNumbers, LeftIsInt, RequestTyped DEF Routable, Limits

LEMMA SavingsInvInit == SavingsInit => SavingsInv
  BY DEF SavingsInit, SavingsInv, SavingsTypeOK, Delivered

\* What the built portfolio is, once the invariant tells where it comes from.
LEMMA BuiltPortfolio ==
    ASSUME NEW r, Routable(r), NEW b, b = BudgetsOf(r), NEW T,
           \A c \in T : c \in CandidateRecord /\ Computable(c), NEW p \in Portfolios(T, b, r)
    PROVE  /\ DOMAIN p \subseteq T /\ DOMAIN p \subseteq CandidateRecord
           /\ \A c \in DOMAIN p : p[c] \in Nat
           /\ DOMAIN p # {} => WithinLimits(p, b, r)
           /\ \A basis \in Bases : Allocated(p, basis) \in Nat /\ Allocated(p, basis) <= b[basis]
<1>1. Limits(b, r) /\ r.maxProducts \in 1..3
  BY BudgetsAreLimits
<1>2. /\ DOMAIN p \subseteq T
      /\ \A c \in DOMAIN p : p[c] \in Nat
      /\ DOMAIN p # {} => WithinLimits(p, b, r)
      /\ \A basis \in Bases : Allocated(p, basis) \in Nat /\ Allocated(p, basis) <= b[basis]
  BY <1>1, PortfolioTyped
<1> QED BY <1>2

LEMMA SavingsInvStep == SavingsInv /\ [SavingsNext]_savingsVars => SavingsInv'
<1> SUFFICES ASSUME SavingsInv, [SavingsNext]_savingsVars PROVE SavingsInv'
  OBVIOUS
<1> DEFINE r == savingsRequest
<1> USE DEF Delivered
<1>1. ASSUME NEW q \in SavingsRequests, AskSavings(q) PROVE SavingsInv'
  BY <1>1 DEF AskSavings, SavingsInv, SavingsTypeOK
<1>2. CASE BlockSavings
  BY <1>2 DEF BlockSavings, SavingsInv, SavingsTypeOK
<1>3. CASE ResolveBudget
  <2>1. r \in SavingsRequests /\ ~SavingsBlocked(r)
    BY <1>3 DEF ResolveBudget, SavingsInv
  <2>2. BudgetsOf(r) \in [Bases -> Nat]
    BY <2>1, BudgetsAreNumbers
  <2> QED BY <1>3, <2>1, <2>2 DEF ResolveBudget, SavingsInv, SavingsTypeOK
<1>4. CASE PackMissing
  BY <1>4 DEF PackMissing, SavingsInv, SavingsTypeOK
<1>5. CASE RouteSavings
  <2>1. Routable(r) /\ budgets = BudgetsOf(r) /\ removed = {} /\ SavingsTypeOK
    BY <1>5 DEF RouteSavings, SavingsInv, Routable
  <2>2. active' = Forwardable(r, budgets) /\ active' \subseteq CandidateRecord
    BY <1>5, <2>1, ForwardableTyped DEF RouteSavings
  <2>3. active' = Forwardable(r, budgets) \ removed
    BY <2>1, <2>2
  <2>4. /\ savingsPhase' \in {"blocked", "building"}
        /\ UNCHANGED <<savingsRequest, budgets, portfolio, removed>>
    BY <1>5 DEF RouteSavings
  <2>5. SavingsTypeOK'
    BY <2>1, <2>2, <2>4 DEF SavingsTypeOK
  <2> QED BY <2>1, <2>3, <2>4, <2>5 DEF SavingsInv, Routable
<1>6. CASE BuildPortfolio
  <2> DEFINE T == {c \in active : Eligible(c, r)}
  <2>1. Routable(r) /\ budgets = BudgetsOf(r) /\ active = Forwardable(r, budgets) \ removed
        /\ SavingsTypeOK
    BY <1>6 DEF BuildPortfolio, SavingsInv, Routable
  <2>2. portfolio' \in Portfolios(T, budgets, r) /\ savingsPhase' = "checking"
        /\ UNCHANGED <<savingsRequest, budgets, active, removed>>
    BY <1>6 DEF BuildPortfolio
  <2>3. \A c \in T : c \in CandidateRecord /\ Computable(c)
    BY <2>1, ForwardableTyped
  <2> HIDE DEF T
  <2>4. DOMAIN portfolio' \subseteq CandidateRecord /\ \A c \in DOMAIN portfolio' : portfolio'[c] \in Nat
    BY <2>1, <2>2, <2>3, BuiltPortfolio
  <2>5. SavingsTypeOK'
    BY <2>1, <2>2, <2>4 DEF SavingsTypeOK
  <2>6. (portfolio \in Portfolios({c \in active : Eligible(c, savingsRequest)}, budgets, savingsRequest))'
    BY <2>2 DEF T
  <2> QED BY <2>1, <2>2, <2>5, <2>6 DEF SavingsInv, Routable
<1>7. CASE DeliverPortfolio
  BY <1>7 DEF DeliverPortfolio, SavingsInv, SavingsTypeOK
<1>8. CASE DropRejected
  <2> DEFINE rejected == Rejected(portfolio, r, budgets)
  <2>1. rejected \subseteq CandidateRecord /\ SavingsTypeOK
    BY DEF SavingsInv, SavingsTypeOK, Rejected
  <2>2. /\ savingsPhase = "checking" /\ savingsPhase' = "building"
        /\ removed' = removed \cup rejected /\ active' = active \ rejected
        /\ UNCHANGED <<savingsRequest, budgets, portfolio>>
    BY <1>8 DEF DropRejected
  <2>3. /\ r \in SavingsRequests /\ ~SavingsBlocked(r) /\ budgets = BudgetsOf(r)
        /\ \A o \in r.candidates : Resolved(PRODUCT_RULE_PACKS, o.name, r.asOf) # {}
        /\ active = Forwardable(r, budgets) \ removed
    BY <2>2 DEF SavingsInv
  <2> HIDE DEF rejected
  <2>4. active' = Forwardable(r, budgets) \ removed'
    BY <2>2, <2>3
  <2>5. SavingsTypeOK'
    BY <2>1, <2>2 DEF SavingsTypeOK
  <2> QED BY <2>2, <2>3, <2>4, <2>5 DEF SavingsInv
<1>9. CASE UNCHANGED savingsVars
  BY <1>9 DEF savingsVars, SavingsInv, SavingsTypeOK
<1> QED BY <1>1, <1>2, <1>3, <1>4, <1>5, <1>6, <1>7, <1>8, <1>9 DEF SavingsNext, SavingsStep

LEMMA SavingsInvHolds == SavingsSafety => []SavingsInv
<1> QED BY SavingsInvInit, SavingsInvStep, PTL DEF SavingsSafety

\* The variables of the savings service stay in their types: whatever the rules refuse
\* and however often the budgets are distributed again, amounts are natural numbers.
THEOREM SavingsTypeCorrect == SavingsSafety => []SavingsTypeOK
<1>1. SavingsInv => SavingsTypeOK
  BY DEF SavingsInv
<1> QED BY <1>1, SavingsInvHolds, PTL

\* What a delivered portfolio is, given the invariant.
LEMMA DeliveredPortfolio ==
    ASSUME SavingsInv, Delivered
    PROVE  LET r == savingsRequest
               T == {c \in active : Eligible(c, r)} IN
           /\ Routable(r) /\ budgets = BudgetsOf(r) /\ active = Forwardable(r, budgets) \ removed
           /\ \A c \in T : c \in CandidateRecord /\ Computable(c)
           /\ portfolio \in Portfolios(T, budgets, r)
           /\ Rejected(portfolio, r, budgets) = {}
<1> DEFINE r == savingsRequest
<1>1. /\ Routable(r) /\ budgets = BudgetsOf(r) /\ active = Forwardable(r, budgets) \ removed
      /\ portfolio \in Portfolios({c \in active : Eligible(c, r)}, budgets, r)
      /\ Rejected(portfolio, r, budgets) = {}
  BY DEF SavingsInv, Delivered, Routable
<1>2. \A c \in active : c \in CandidateRecord /\ Computable(c)
  BY <1>1, ForwardableTyped
<1> QED BY <1>1, <1>2

\* A delivered portfolio fits both budgets and the deposit protection of every
\* institution, and the rules of each product pass with the amount that is put into it
\* (_build_and_revalidate).
THEOREM SoundPortfolios == SavingsSafety => []PortfolioIsSound
<1>1. SavingsInv => PortfolioIsSound
  <2> SUFFICES ASSUME SavingsInv, Delivered
               PROVE  /\ DOMAIN portfolio # {} => WithinLimits(portfolio, budgets, savingsRequest)
                      /\ \A c \in DOMAIN portfolio :
                            Accepted(c, portfolio[c], savingsRequest, budgets)
    BY DEF PortfolioIsSound
  <2> DEFINE r == savingsRequest
             T == {c \in active : Eligible(c, r)}
  <2>1. /\ Routable(r) /\ budgets = BudgetsOf(r) /\ portfolio \in Portfolios(T, budgets, r)
        /\ \A c \in T : c \in CandidateRecord /\ Computable(c)
        /\ Rejected(portfolio, r, budgets) = {}
    BY DeliveredPortfolio
  <2> HIDE DEF T
  <2>2. DOMAIN portfolio # {} => WithinLimits(portfolio, budgets, r)
    BY <2>1, BuiltPortfolio
  <2> QED BY <2>1, <2>2 DEF Rejected
<1> QED BY <1>1, SavingsInvHolds, PTL

\* With budgets derived from the cash flow, what is delivered leaves the emergency fund
\* in hand, and the buffer and the instalment of the fund in every month.
THEOREM ReserveStays == SavingsSafety => []ReserveIsKept
<1>1. SavingsInv => ReserveIsKept
  <2> DEFINE r == savingsRequest
             s == r.snapshot
             T == {c \in active : Eligible(c, r)}
             monthly == Allocated(portfolio, "MONTHLY")
             lumpSum == Allocated(portfolio, "LUMP_SUM")
  <2> SUFFICES ASSUME SavingsInv, Delivered, r.monthly = None, r.lumpSum = None
               PROVE  /\ lumpSum > 0 => s.liquid - lumpSum >= Target(s, r.months)
                      /\ monthly > 0 =>
                            Surplus(s) - monthly >= Buffer(s) + Contribution(s, r.months)
    BY DEF ReserveIsKept
  <2>1. /\ Routable(r) /\ budgets = BudgetsOf(r) /\ portfolio \in Portfolios(T, budgets, r)
        /\ \A c \in T : c \in CandidateRecord /\ Computable(c)
    BY DeliveredPortfolio
  <2>2. r \in SavingsRequests /\ ~SavingsBlocked(r)
    BY <2>1 DEF Routable
  <2> HIDE DEF T
  <2>3. \A basis \in Bases :
            Allocated(portfolio, basis) \in Nat /\ Allocated(portfolio, basis) <= budgets[basis]
    BY <2>1, BuiltPortfolio
  <2>4. /\ monthly \in Nat /\ monthly <= BudgetsOf(r)["MONTHLY"]
        /\ lumpSum \in Nat /\ lumpSum <= BudgetsOf(r)["LUMP_SUM"]
    BY <2>1, <2>3 DEF Bases
  <2> HIDE DEF monthly, lumpSum
  <2> QED BY <2>2, <2>4, BudgetsSpareTheReserve
<1> QED BY <1>1, SavingsInvHolds, PTL

\* An option that may be taken alone is one of the combinations.
LEMMA AloneIsAPlan ==
    ASSUME NEW T, NEW r, r.maxProducts \in 1..3, NEW b, NEW c \in T,
           WithinLimits(AtMinimum(<<c>>), b, r)
    PROVE  Filled(<<c>>, b, r) \in Plans(T, b, r)
<1>1. <<c>> \in [1..1 -> T] /\ 1 \in 1..r.maxProducts
  OBVIOUS
<1>2. \A i, j \in DOMAIN <<c>> : ~(i < j)
  OBVIOUS
<1>3. <<c>> \in Combinations(T, r)
  BY <1>1, <1>2 DEF Combinations
<1> QED BY <1>3 DEF Plans

\* However the budgets are spread and whatever the rules refuse on the way, no product
\* that is still in the running would earn more alone than what is delivered
\* (_plan_is_better).
THEOREM SpreadingPays == SavingsSafety => []NoSingleProductEarnsMore
<1>1. SavingsInv => NoSingleProductEarnsMore
  <2> DEFINE r == savingsRequest
             T == {c \in active : Eligible(c, r)}
  <2> SUFFICES ASSUME SavingsInv, Delivered, NEW c \in Forwardable(r, budgets) \ removed,
                      Eligible(c, r), WithinLimits(AtMinimum(<<c>>), budgets, r)
               PROVE  LET alone == Filled(<<c>>, budgets, r) IN
                      /\ IsComplete(alone, budgets) => IsComplete(portfolio, budgets)
                      /\ IsComplete(alone, budgets) = IsComplete(portfolio, budgets) =>
                            Interest(alone) <= Interest(portfolio)
    BY DEF NoSingleProductEarnsMore
  <2> DEFINE alone == Filled(<<c>>, budgets, r)
  <2>1. /\ Routable(r) /\ budgets = BudgetsOf(r) /\ active = Forwardable(r, budgets) \ removed
        /\ portfolio \in Portfolios(T, budgets, r)
        /\ \A d \in T : d \in CandidateRecord /\ Computable(d)
    BY DeliveredPortfolio
  <2>2. c \in T
    BY <2>1
  <2>3. Limits(budgets, r) /\ r.maxProducts \in 1..3
    BY <2>1, BudgetsAreLimits
  <2> HIDE DEF T
  <2>4. alone \in Plans(T, budgets, r)
    BY <2>2, <2>3, AloneIsAPlan
  <2>5. portfolio \in Plans(T, budgets, r) /\ ~Outranks(Rank(alone, budgets), Rank(portfolio, budgets))
    BY <2>1, <2>4, ChosenPortfolio
  <2>6. Interest(alone) \in Nat /\ Interest(portfolio) \in Nat
    BY <2>1, <2>3, <2>4, <2>5, PlanOfCandidates, SumsOfPlan
  <2> HIDE DEF alone
  <2>7. /\ IsComplete(alone, budgets) => IsComplete(portfolio, budgets)
        /\ IsComplete(alone, budgets) = IsComplete(portfolio, budgets) =>
                Interest(alone) <= Interest(portfolio)
    <3>1. /\ Rank(alone, budgets)[1] = IF IsComplete(alone, budgets) THEN 1 ELSE 0
          /\ Rank(portfolio, budgets)[1] = IF IsComplete(portfolio, budgets) THEN 1 ELSE 0
          /\ Rank(alone, budgets)[2] = Interest(alone)
          /\ Rank(portfolio, budgets)[2] = Interest(portfolio)
      BY DEF Rank
    <3>2. IsComplete(alone, budgets) \in BOOLEAN /\ IsComplete(portfolio, budgets) \in BOOLEAN
      BY DEF IsComplete
    <3> QED BY <2>5, <2>6, <3>1, <3>2 DEF Outranks
  <2> QED BY <2>7 DEF alone
<1> QED BY <1>1, SavingsInvHolds, PTL
===============================================================================
