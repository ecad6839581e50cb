----------------------------- MODULE ProductRules -----------------------------
(***************************************************************************)
(* rule_engine/product_packs: the conditions a product puts on whoever     *)
(* takes it. A pack is the set of rules of one product for a period. Facts *)
(* that are not known make a rule UNKNOWN, never PASS and never FAIL. The  *)
(* registry holds the packs under their normalised names, and              *)
(* resolve_allocation_bounds reads from a pack the amounts it allows.      *)
(***************************************************************************)
EXTENDS ProductPredicates, FiniteSetsExt

Amounts == {"deposit_amount", "monthly_payment_amount"}
Bounding == {"GT", "GTE", "LT", "LTE"}

\* A comparison of one field with a bound, two bounds, a list or a value; or a
\* predicate. Lists and values that a pack writes as a predicate are the same
\* condition.
ComparisonRule ==
    [field : Fields, op : Bounding, expected : Nat]
        \cup [field : Fields, op : {"BETWEEN"}, expected : Nat \X Nat]
        \cup [field : {"applicant_type"}, op : {"IN"}, expected : SUBSET ApplicantTypes]
        \cup [field : Flags, op : {"EQ"}, expected : {"yes", "no"}]
PredicateRule == [op : {"PREDICATE"}, predicate : Predicates]
Rule == ComparisonRule \cup PredicateRule

Categories ==
    {"TERM_DEPOSIT", "INSTALLMENT_SAVINGS", "MORTGAGE_LOAN", "JEONSE_LOAN", "CREDIT_LOAN"}

\* Days are numbers (yyyymmdd); the end is included. rules is never empty: a
\* product without conditions would pass on its own.
ProductRulePack ==
    [names : SUBSET STRING \ {{}}, from : Nat, to : Nat \cup {None},
     category : Categories, rules : SUBSET Rule \ {{}}]

\* PredicateRule.required_fields, or the one field of a comparison.
Required(rule) ==
    IF rule.op = "PREDICATE" THEN RequiredFields[rule.predicate] ELSE {rule.field}

\* _compare
Compare(actual, op, expected) ==
    \/ op = "EQ" /\ actual = expected
    \/ op = "GT" /\ actual > expected
    \/ op = "GTE" /\ actual >= expected
    \/ op = "LT" /\ actual < expected
    \/ op = "LTE" /\ actual <= expected
    \/ op = "IN" /\ actual \in expected
    \/ op = "BETWEEN" /\ expected[1] <= actual /\ actual <= expected[2]

\* ComparisonRule.evaluate and PredicateRule.evaluate
Verdict(rule, facts) ==
    IF ~Known(facts, Required(rule)) THEN "UNKNOWN"
    ELSE IF rule.op = "PREDICATE" THEN Answer(rule.predicate, facts)
    ELSE Passed(Compare(facts[rule.field], rule.op, rule.expected))

\* evaluate_product
Status(pack, facts) ==
    LET verdicts == {Verdict(rule, facts) : rule \in pack.rules} IN
    IF "FAIL" \in verdicts THEN "FAIL"
    ELSE IF "UNKNOWN" \in verdicts THEN "UNKNOWN" ELSE "PASS"

IsActiveOn(pack, day) == pack.from <= day /\ (pack.to # None => day <= pack.to)

PeriodsOverlap(p, q) ==
    /\ q.to # None => p.from <= q.to
    /\ p.to # None => q.from <= p.to

\* register: what makes the registry refuse a second pack.
Conflicts(p, q) == p.names \cap q.names # {} /\ PeriodsOverlap(p, q)

\* The packs of a registry, every one of which was registered.
Registered(registry) == \A p, q \in registry : p # q => ~Conflicts(p, q)

\* resolve: the packs a name stands for on a day. None of them is an error, and
\* so would be two.
Resolved(registry, name, day) == {p \in registry : name \in p.names /\ IsActiveOn(p, day)}

AmountField(pack) ==
    IF pack.category = "TERM_DEPOSIT" THEN "deposit_amount" ELSE "monthly_payment_amount"

BoundRules(pack) ==
    {r \in pack.rules : r.op \in Bounding \cup {"BETWEEN"} /\ r.field = AmountField(pack)}

Lowest(rule) ==
    CASE rule.op = "BETWEEN" -> {rule.expected[1]}
      [] rule.op = "GTE" -> {rule.expected}
      [] rule.op = "GT" -> {rule.expected + 1}
      [] OTHER -> {}

Highest(rule) ==
    CASE rule.op = "BETWEEN" -> {rule.expected[2]}
      [] rule.op = "LTE" -> {rule.expected}
      [] rule.op = "LT" -> {rule.expected - 1}
      [] OTHER -> {}

\* resolve_allocation_bounds: the amounts the comparisons of a pack allow.
\* Predicates are not looked at. No upper bound is None, not zero.
Minimum(pack) == Max({1} \cup UNION {Lowest(r) : r \in BoundRules(pack)})

Maximum(pack) ==
    LET bounds == UNION {Highest(r) : r \in BoundRules(pack)} IN
    IF bounds = {} THEN None ELSE Min(bounds)

-------------------------------------------------------------------------------
\* A fact may become known; what is known stays.
KnowsMore(facts, more) == \A f \in Fields : facts[f] # None => more[f] = facts[f]

\* An amount within the bounds of a pack.
WithinBounds(pack, amount) ==
    Minimum(pack) <= amount /\ (Maximum(pack) # None => amount <= Maximum(pack))
===============================================================================
