---------------------------- MODULE LoanCombination ----------------------------
(***************************************************************************)
(* engines/loan/combination.py: the search for loan combinations. Every    *)
(* set of at most MaxLegs offers of distinct products is asked at the gate *)
(* of the double-use table; one that passes is tried below, and with a     *)
(* credit leg also above, the stress threshold, in three fill orders. One  *)
(* attempt is _allocate: the legs first consume their floors, then take in *)
(* turn all that the shared budgets, their own cap and their DTI limit     *)
(* leave. The plans found are deduplicated, ranked and cut to TopN.        *)
(*                                                                         *)
(* Amounts are whole won (increments are rounded down), payment factors    *)
(* are monthly costs per won scaled to integers. The score of a plan is    *)
(* left open: it only decides between plans of the same amount.            *)
(***************************************************************************)
EXTENDS Integers, FiniteSetsExt

CONSTANTS Offers,           \* candidate ids, numbered in their string order
          Products,
          Inputs,           \* calls of build_loan_combinations
          MaxLegs, TopN, Epsilon, Tolerance,    \* LoanCombinationPolicy
          NoLimit, Unknown

ASSUME PolicyAssumption ==
    /\ Offers \subseteq Nat
    /\ MaxLegs \in 1..3 /\ TopN \in Nat \ {0}
    /\ Epsilon \in Nat \ {0} /\ Tolerance \in Nat
    /\ NoLimit \notin Int /\ Unknown \notin Int

LoanLegCandidate ==
    [kind : {"mortgage", "credit", "other"}, product : Products,
     actual : Nat, assess : Nat, assessAbove : Nat \cup {Unknown},
     floor : Nat, cap : Nat \cup {NoLimit}, dti : Nat \cup {NoLimit},
     flexibility : Nat \cup {Unknown}]

\* Capacities are differences and may be negative; the gate answers for pairs.
LoanCombinationBudget ==
    [dsr : Int, cashflow : Int, ltv : Nat, required : Nat,
     threshold : Nat \cup {Unknown}, existing : Nat \cup {Unknown}]

ASSUME InputAssumption ==
    \A i \in Inputs :
        /\ DOMAIN i.legs \subseteq Offers /\ IsFiniteSet(DOMAIN i.legs)
        /\ \A l \in DOMAIN i.legs : i.legs[l] \in LoanLegCandidate
        /\ i.budget \in LoanCombinationBudget

VARIABLES input,
          pending,      \* subsets still to be considered
          phase,        \* "subset", "floors", "fill" or "done"
          subset, above, order,         \* the current attempt
          todo, amounts, remaining, binding,
          plans,        \* plans found, in no particular order
          feasible, blocked, unresolved, infeasible,    \* outcome of subsets
          top, status

attempt == <<todo, amounts, remaining, binding>>
outcome == <<feasible, blocked, unresolved, infeasible>>
result == <<top, status>>
vars == <<input, pending, phase, subset, above, order, attempt, plans, outcome, result>>

-------------------------------------------------------------------------------
leg(l) == input.legs[l]
IsCredit(l) == leg(l).kind = "credit"
HasCredit(S) == \E l \in S : IsCredit(l)

\* itertools.combinations over the candidates, one option of a product each.
Considered(legs) ==
    {S \in SUBSET DOMAIN legs :
        /\ S # {} /\ Cardinality(S) <= MaxLegs
        /\ \A k, l \in S : legs[k].product = legs[l].product => k = l}

Headroom(b) ==
    IF Unknown \in {b.threshold, b.existing} THEN Unknown
    ELSE IF b.existing < b.threshold THEN b.threshold - b.existing ELSE 0

\* assessment_rate_for: the rate above the threshold concerns credit only.
AssessmentFactor(l, high) ==
    IF high /\ IsCredit(l) THEN leg(l).assessAbove ELSE leg(l).assess

Budgets == {"required", "dsr", "cashflow", "ltv", "credit_threshold"}
Constraints == Budgets \cup {"product", "dti"}

\* min() of _allocate keeps the first of equals.
Position == [required |-> 1, dsr |-> 2, cashflow |-> 3, ltv |-> 4,
             credit_threshold |-> 5, product |-> 6, dti |-> 7]

\* What one won lent through leg l costs of each constraint; 0 where the
\* constraint does not concern the leg.
Price(l, c) ==
    CASE c = "required" -> 1
      [] c = "dsr" -> 12 * AssessmentFactor(l, above)
      [] c = "cashflow" -> leg(l).actual
      [] c = "ltv" -> IF leg(l).kind = "mortgage" THEN 1 ELSE 0
      [] c = "credit_threshold" -> IF IsCredit(l) /\ ~above THEN 1 ELSE 0
      [] c = "product" -> IF leg(l).cap = NoLimit THEN 0 ELSE 1
      [] c = "dti" -> IF leg(l).dti = NoLimit THEN 0 ELSE 1

\* What is left of each constraint for leg l.
Room(l, c) ==
    CASE c = "product" -> IF leg(l).cap = NoLimit THEN 0 ELSE leg(l).cap - amounts[l]
      [] c = "dti" -> IF leg(l).dti = NoLimit THEN 0 ELSE leg(l).dti - amounts[l]
      [] OTHER -> remaining[c]

Fits(l, n) == \A c \in Constraints : n * Price(l, c) <= Room(l, c)

\* Fault: amounts are rounded to a grain coarser than Epsilon.
CoarseIncrements(l) ==
    {n \in 0..remaining["required"] :
        n % (Epsilon + 2) = 0 /\ Fits(l, n) /\ ~Fits(l, n + Epsilon + 2)}

\* The smallest headroom rounded down to the won, as a set of one number.
Increments(l) == {n \in 0..remaining["required"] : Fits(l, n) /\ ~Fits(l, n + 1)}

\* Fault: every mortgage leg has an LTV ceiling of its own.
ConsumedPerLeg(l, n) ==
    [b \in Budgets |-> IF b = "ltv" THEN remaining[b] ELSE remaining[b] - n * Price(l, b)]

Consumed(l, n) == [b \in Budgets |-> remaining[b] - n * Price(l, b)]

\* The constraint with the smallest headroom Room / Price.
Tightest(l) ==
    {c \in Constraints :
        /\ Price(l, c) > 0
        /\ \A d \in Constraints :
            Price(l, d) > 0 => Room(l, c) * Price(l, d) <= Room(l, d) * Price(l, c)}

\* Fault: the first constraint of the list is reported.
FirstLabels(l) == {"required"}

BindingLabels(l) == {c \in Tightest(l) : \A d \in Tightest(l) : Position[c] <= Position[d]}

\* _order_key: cheaper first, more flexible first, unknown flexibility last.
Before(k, l) ==
    LET less(x, y) == x < y \/ (x = y /\ k < l) IN
    CASE order = "assessment_cost" ->
            less(AssessmentFactor(k, above), AssessmentFactor(l, above))
      [] order = "actual_cost" -> less(leg(k).actual, leg(l).actual)
      [] order = "flexibility" ->
            \/ leg(k).flexibility # Unknown /\ leg(l).flexibility = Unknown
            \/ leg(k).flexibility = Unknown /\ leg(l).flexibility = Unknown /\ k < l
            \/ /\ Unknown \notin {leg(k).flexibility, leg(l).flexibility}
               /\ less(leg(l).flexibility, leg(k).flexibility)

\* A plan keeps the legs that got an amount; sums over them.
Lent(p) == {l \in p.subset : p.amounts[l] > 0}
Total(p) == SumFunctionOnSet(p.amounts, Lent(p))
NewCredit(p) == SumFunctionOnSet(p.amounts, {l \in Lent(p) : IsCredit(l)})
Fingerprint(p) == {<<l, p.amounts[l]>> : l \in Lent(p)}
Covers(p) == input.budget.required - Total(p) <= Tolerance
CrossesThreshold(p) == input.budget.existing + NewCredit(p) > input.budget.threshold

-------------------------------------------------------------------------------
\* Verdict of the double-use table on a pair of products. A call without a
\* gate is one whose every pair is UNKNOWN.
Verdict(k, l) == input.gate[{leg(k).product, leg(l).product}]
Doubtful(S, verdict) == \E k, l \in S : k # l /\ Verdict(k, l) = verdict
Allowed(S) == \A k, l \in S : k # l => Verdict(k, l) = "ALLOWED"

FirstBudget(high) ==
    [b \in Budgets |->
        CASE b = "required" -> input.budget.required
          [] b = "dsr" -> input.budget.dsr
          [] b = "cashflow" -> input.budget.cashflow
          [] b = "ltv" -> input.budget.ltv
          [] b = "credit_threshold" ->
                IF high \/ Headroom(input.budget) = Unknown THEN 0
                ELSE Headroom(input.budget)]

Init ==
    /\ input \in Inputs
    /\ pending = Considered(input.legs)
    /\ phase = "subset"
    /\ subset = {} /\ above = FALSE /\ order = "flexibility"
    /\ todo = {} /\ amounts = << >> /\ binding = {}
    /\ remaining = FirstBudget(FALSE)
    /\ plans = {}
    /\ feasible = {} /\ blocked = {} /\ unresolved = {} /\ infeasible = {}
    /\ top = {} /\ status = "none"

\* Fault: one size of subset is left after its first member.
TakeOnePerSize(S) ==
    /\ phase = "subset"
    /\ S \in pending
    /\ \A T \in pending : Cardinality(S) <= Cardinality(T)
    /\ pending' = {T \in pending : Cardinality(T) > Cardinality(S)}
    /\ UNCHANGED <<input, plans, feasible, infeasible, result>>

\* Fault: the subset stays on the list.
TakeAgain(S) ==
    /\ phase = "subset"
    /\ S \in pending
    /\ \A T \in pending : Cardinality(S) <= Cardinality(T)
    /\ UNCHANGED <<input, pending, plans, feasible, infeasible, result>>

\* _check_gate and the head of _plans_for_subset.
Take(S) ==
    /\ phase = "subset"
    /\ S \in pending
    /\ \A T \in pending : Cardinality(S) <= Cardinality(T)
    /\ pending' = pending \ {S}
    /\ UNCHANGED <<input, plans, feasible, infeasible, result>>

SetAside(S) ==
    /\ Take(S)
    /\ UNCHANGED <<phase, subset, above, order, attempt>>
    /\ \/ /\ Doubtful(S, "BLOCKED")
          /\ blocked' = blocked \cup {S} /\ UNCHANGED unresolved
       \/ /\ ~Doubtful(S, "BLOCKED") /\ Doubtful(S, "UNKNOWN")
          /\ unresolved' = unresolved \cup {S} /\ UNCHANGED blocked
       \/ /\ Allowed(S) /\ HasCredit(S) /\ Headroom(input.budget) = Unknown
          /\ unresolved' = unresolved \cup {S} /\ UNCHANGED blocked

Attempt(S, high, fillOrder) ==
    /\ phase' = "floors"
    /\ subset' = S /\ above' = high /\ order' = fillOrder
    /\ todo' = S
    /\ amounts' = [l \in S |-> leg(l).floor]
    /\ remaining' = FirstBudget(high)
    /\ binding' = {}

\* Fault: the gate is not asked.
TryUnasked(S) ==
    /\ Take(S)
    /\ HasCredit(S) => Headroom(input.budget) # Unknown
    /\ Attempt(S, FALSE, "assessment_cost")
    /\ UNCHANGED <<blocked, unresolved>>

Try(S) ==
    /\ Take(S)
    /\ Allowed(S)
    /\ HasCredit(S) => Headroom(input.budget) # Unknown
    /\ Attempt(S, FALSE, "assessment_cost")
    /\ UNCHANGED <<blocked, unresolved>>

\* _build_regime fails above the threshold when a credit rate is missing.
RatesKnown(S) == \A l \in S : IsCredit(l) => leg(l).assessAbove # Unknown

\* The next fill order, the regime above the threshold, or the end of the
\* subset: infeasible when no attempt gave a plan.
MoveOn ==
    \/ /\ order # "flexibility"
       /\ Attempt(subset, above, IF order = "assessment_cost" THEN "actual_cost"
                                                             ELSE "flexibility")
       /\ UNCHANGED <<unresolved, infeasible>>
    \/ /\ order = "flexibility" /\ ~above /\ HasCredit(subset) /\ RatesKnown(subset)
       /\ Attempt(subset, TRUE, "assessment_cost")
       /\ UNCHANGED <<unresolved, infeasible>>
    \/ /\ order = "flexibility"
       /\ above \/ ~HasCredit(subset) \/ ~RatesKnown(subset)
       /\ unresolved' = IF above \/ ~HasCredit(subset) THEN unresolved
                        ELSE unresolved \cup {subset}
       /\ infeasible' = IF subset \in feasible' THEN infeasible
                        ELSE infeasible \cup {subset}
       /\ phase' = "subset"
       /\ UNCHANGED <<subset, above, order, attempt>>

\* _allocate: every leg first consumes its floor.
Floor(l) ==
    /\ phase = "floors"
    /\ l \in todo /\ \A k \in todo : l <= k
    /\ remaining' = Consumed(l, amounts[l])
    /\ todo' = todo \ {l}
    /\ UNCHANGED <<input, pending, phase, subset, above, order, amounts, binding,
                   plans, outcome, result>>

FloorsFit ==
    /\ \A b \in Budgets : remaining[b] >= 0
    /\ \A l \in subset :
        /\ leg(l).cap # NoLimit => amounts[l] <= leg(l).cap
        /\ leg(l).dti # NoLimit => amounts[l] <= leg(l).dti

FloorsDone ==
    /\ phase = "floors" /\ todo = {}
    /\ UNCHANGED <<input, pending, plans, feasible, blocked, result>>
    /\ \/ /\ FloorsFit
          /\ phase' = "fill" /\ todo' = subset
          /\ UNCHANGED <<subset, above, order, amounts, remaining, binding,
                         unresolved, infeasible>>
       \/ ~FloorsFit /\ MoveOn

\* One leg takes the whole won that fit, unless they are no more than Epsilon.
Fill(l) ==
    /\ phase = "fill"
    /\ l \in todo /\ \A k \in todo \ {l} : Before(l, k)
    /\ \E n \in Increments(l) :
        \/ n <= Epsilon /\ UNCHANGED <<amounts, remaining>>
        \/ /\ n > Epsilon
           /\ amounts' = [amounts EXCEPT ![l] = @ + n]
           /\ remaining' = Consumed(l, n)
    /\ \E label \in BindingLabels(l) : binding' = binding \cup {label}
    /\ todo' = todo \ {l}
    /\ UNCHANGED <<input, pending, phase, subset, above, order, plans, outcome, result>>

Plan == [subset |-> subset, above |-> above, order |-> order,
         amounts |-> amounts, binding |-> binding]

PremiseHolds(p) ==
    IF HasCredit(p.subset) THEN CrossesThreshold(p) = above ELSE ~above

\* _minimums_respected: nothing lent below the minimum of its product.
MinimumsRespected(p) == \A l \in Lent(p) : p.amounts[l] >= leg(l).floor

Usable(p) == Lent(p) # {} /\ PremiseHolds(p) /\ MinimumsRespected(p)

\* The plan is kept unless the same amounts were found before.
Conclude ==
    /\ phase = "fill" /\ todo = {}
    /\ \/ /\ Usable(Plan)
          /\ feasible' = feasible \cup {subset}
          /\ plans' = IF \E p \in plans : Fingerprint(p) = Fingerprint(Plan)
                      THEN plans ELSE plans \cup {Plan}
       \/ ~Usable(Plan) /\ UNCHANGED <<feasible, plans>>
    /\ MoveOn
    /\ UNCHANGED <<input, pending, blocked, result>>

\* Fault: the plan that borrows less scores better and wins.
BetterWhenSmaller(p, q) == Total(p) < Total(q)

\* _plan_sort_key down to the amount; the score decides the rest.
Better(p, q) ==
    \/ Covers(p) /\ ~Covers(q)
    \/ Covers(p) = Covers(q) /\ Total(p) > Total(q)

Shortlists ==
    {T \in SUBSET plans :
        /\ Cardinality(T) = Min({TopN, Cardinality(plans)})
        /\ \A p \in T, q \in plans \ T : ~Better(q, p)}

Rank ==
    /\ phase = "subset" /\ pending = {}
    /\ phase' = "done"
    /\ top' \in Shortlists
    /\ status' = IF DOMAIN input.legs = {} THEN "UNRESOLVED"
                 ELSE IF plans = {} THEN "INFEASIBLE"
                 ELSE IF \E p \in top' : Covers(p) THEN "COMPLETE" ELSE "PARTIAL"
    /\ UNCHANGED <<input, pending, subset, above, order, attempt, plans, outcome>>

Next ==
    \/ \E S \in pending : SetAside(S) \/ Try(S)
    \/ \E l \in todo : Floor(l) \/ Fill(l)
    \/ FloorsDone \/ Conclude \/ Rank

\* One call computes without waiting for anybody.
Spec == Init /\ [][Next]_vars /\ WF_vars(Next)

-------------------------------------------------------------------------------
Orders == {"assessment_cost", "actual_cost", "flexibility"}
Subsets == Considered(input.legs)

\* Every variable has its type.
TypeOK ==
    /\ input \in Inputs
    /\ pending \subseteq Subsets
    /\ phase \in {"subset", "floors", "fill", "done"}
    /\ subset \in Subsets \cup {{}} /\ above \in BOOLEAN /\ order \in Orders
    /\ todo \subseteq subset
    /\ phase \in {"floors", "fill"} => amounts \in [subset -> Nat] /\ subset # {}
    /\ remaining \in [Budgets -> Int]
    /\ binding \subseteq Constraints
    /\ \A p \in plans : p.subset \in Subsets /\ p.amounts \in [p.subset -> Nat]
    /\ feasible \subseteq Subsets /\ blocked \subseteq Subsets
    /\ unresolved \subseteq Subsets /\ infeasible \subseteq Subsets
    /\ top \subseteq plans
    /\ status \in {"none", "COMPLETE", "PARTIAL", "INFEASIBLE", "UNRESOLVED"}

\* The rate a lender will assess: the higher one once the credit balance of
\* the whole plan, old and new, crosses the threshold.
TrueFactor(p, l) == AssessmentFactor(l, HasCredit(Lent(p)) /\ CrossesThreshold(p))
Spent(p, cost(_)) == SumFunction([l \in Lent(p) |-> cost(l) * p.amounts[l]])

WithinBudgets(p) ==
    /\ Spent(p, LAMBDA l : 12 * TrueFactor(p, l)) <= input.budget.dsr
    /\ Spent(p, LAMBDA l : leg(l).actual) <= input.budget.cashflow
    /\ Spent(p, LAMBDA l : IF leg(l).kind = "mortgage" THEN 1 ELSE 0) <= input.budget.ltv
    /\ Total(p) <= input.budget.required

\* The legs of a plan share one DSR budget, one cash flow, one LTV ceiling and
\* one required amount: at the rates that truly apply, none is used twice.
SharedBudgetsHold == \A p \in plans : WithinBudgets(p)

\* During the filling no shared budget is ever overdrawn, and no leg leaves
\* the range its product allows.
NeverOverdrawn ==
    phase = "fill" => FloorsFit /\ \A l \in subset : amounts[l] >= leg(l).floor

\* A leg that has had its turn could not take more than Epsilon further won:
\* what later legs take never makes room again for it.
FilledToTheBrim ==
    phase = "fill" => \A l \in subset \ todo : ~Fits(l, Epsilon + 1)

\* Every constraint a plan reports as binding still binds one of its legs when
\* the plan is complete.
BindingStillBinds ==
    phase = "fill" =>
        \A c \in binding : \E l \in subset \ todo : (Epsilon + 1) * Price(l, c) > Room(l, c)

\* No plan lends two products together unless the table allows the pair, two
\* options of one product, or credit to a borrower whose balance is unknown.
OnlyConfirmedCombinations ==
    \A p \in plans :
        /\ Allowed(Lent(p))
        /\ \A k, l \in Lent(p) : leg(k).product = leg(l).product => k = l
        /\ HasCredit(Lent(p)) => Headroom(input.budget) # Unknown

\* No subset disappears: each is pending, in work, or reported; and none is
\* both a plan and infeasible, or both blocked and anything else.
EverySubsetAccounted ==
    /\ Subsets = pending \cup feasible \cup blocked \cup unresolved \cup infeasible
                    \cup (IF phase \in {"floors", "fill"} THEN {subset} ELSE {})
    /\ feasible \cap infeasible = {}
    /\ blocked \cap (pending \cup feasible \cup unresolved \cup infeasible) = {}

\* The shortlist and the status tell the best that was found: PARTIAL means
\* that no plan at all covers the amount, not only none of the shortlist.
StatusTellsTheBest ==
    phase = "done" =>
        /\ status = "COMPLETE" <=> \E p \in plans : Covers(p)
        /\ status = "PARTIAL" <=> plans # {} /\ \A p \in plans : ~Covers(p)
        /\ plans # {} => \E p \in top : \A q \in plans : Total(q) <= Total(p)

\* The search ends.
Terminates == <>(status # "none")

\* combination_models.py: INFEASIBLE is "no combination satisfies the
\* constraints", UNRESOLVED "not computed for lack of input". So INFEASIBLE
\* should mean that some combination was computed and failed.
InfeasibleWasComputed == status = "INFEASIBLE" => infeasible # {}

-------------------------------------------------------------------------------
(* The inductive strengthening behind the safety properties. *)

InWork == phase \in {"floors", "fill"}

\* An attempt works on a subset that may be tried, with every rate it needs.
Tryable(S) ==
    /\ S \in Subsets /\ Allowed(S)
    /\ HasCredit(S) => Headroom(input.budget) # Unknown

AttemptIsSound ==
    InWork =>
        /\ Tryable(subset)
        /\ above => RatesKnown(subset)
        /\ \A l \in subset : amounts[l] >= leg(l).floor
        /\ phase = "floors" => binding = {}

PlansAreTryable == IsFiniteSet(plans) /\ \A p \in plans : Tryable(p.subset)

\* What the legs of S take of a budget.
Charged(b, S) == SumFunction([l \in S |-> amounts[l] * Price(l, b)])

\* What is left of a budget is what the legs that had their floor leave of it.
BudgetsAreShared ==
    InWork =>
        \A b \in Budgets :
            remaining[b] = FirstBudget(above)[b]
                - Charged(b, IF phase = "floors" THEN subset \ todo ELSE subset)

\* A subset is decided once.
NothingRevisited ==
    /\ pending \cap (feasible \cup blocked \cup unresolved \cup infeasible) = {}
    /\ InWork => subset \notin pending \cup blocked \cup unresolved \cup infeasible

IInv ==
    /\ TypeOK
    /\ AttemptIsSound /\ PlansAreTryable /\ NothingRevisited
    /\ NeverOverdrawn /\ FilledToTheBrim /\ BindingStillBinds
    /\ EverySubsetAccounted
    /\ BudgetsAreShared /\ SharedBudgetsHold
    /\ StatusTellsTheBest
================================================================================
