------------------------- MODULE LoanCombination_proofs -------------------------
(***************************************************************************)
(* Proofs about LoanCombination, for every set of offers, budgets, gates   *)
(* and policies: the inductive invariant and the safety properties that    *)
(* follow from it. Termination stays with the model checker.               *)
(***************************************************************************)
EXTENDS LoanCombination, FiniteSums, TLAPS

LEMMA ProductNat == ASSUME NEW n \in Nat, NEW p \in Nat PROVE n * p \in Nat
  OBVIOUS

LEMMA ProductMonotone ==
  ASSUME NEW n \in Nat, NEW m \in Nat, NEW p \in Nat, n <= m
  PROVE  n * p <= m * p
  <1>1. (m - n) \in Nat
    OBVIOUS
  <1>2. (m - n) * p \in Nat
    BY <1>1, ProductNat
  <1>3. (m - n) * p = m * p - n * p
    OBVIOUS
  <1> QED BY <1>2, <1>3, ProductNat

\* The smallest headroom, cross-multiplied, bounds the increment.
LEMMA SmallestHeadroom ==
  ASSUME NEW x \in Int, NEW y \in Int, NEW c \in Nat, NEW d \in Nat, NEW m \in Nat,
         c > 0, d > 0, x * d <= y * c, y < m * d
  PROVE  x < m * c
  <1>1. y * c < m * d * c
    OBVIOUS
  <1>2. m * d * c = m * c * d
    OBVIOUS
  <1>3. x * d < (m * c) * d
    BY <1>1, <1>2, ProductNat
  <1> QED BY <1>3, ProductNat

LEMMA LegType ==
  ASSUME input \in Inputs, NEW S \in Subsets, NEW l \in S
  PROVE  l \in Offers /\ l \in Nat /\ leg(l) \in LoanLegCandidate
  BY InputAssumption, PolicyAssumption DEF Subsets, Considered, leg

LEMMA HeadroomType ==
  ASSUME input \in Inputs PROVE Headroom(input.budget) \in Nat \cup {Unknown}
  <1>1. input.budget \in LoanCombinationBudget
    BY InputAssumption
  <1> QED BY <1>1 DEF LoanCombinationBudget, Headroom

LEMMA FirstBudgetType ==
  ASSUME input \in Inputs, NEW high \in BOOLEAN
  PROVE  FirstBudget(high) \in [Budgets -> Int]
  <1>1. input.budget \in LoanCombinationBudget
    BY InputAssumption
  <1>2. Headroom(input.budget) = Unknown \/ Headroom(input.budget) \in Int
    BY HeadroomType
  <1> QED BY <1>1, <1>2 DEF LoanCombinationBudget, FirstBudget, Budgets

LEMMA PriceType ==
  ASSUME TypeOK, AttemptIsSound, InWork, NEW l \in subset, NEW c \in Constraints
  PROVE  Price(l, c) \in Nat
  <1>1. subset \in Subsets
    BY DEF AttemptIsSound, Tryable
  <1>2. leg(l) \in LoanLegCandidate
    BY <1>1, LegType DEF TypeOK
  <1>3. AssessmentFactor(l, above) \in Nat
    BY <1>2 DEF AttemptIsSound, RatesKnown, AssessmentFactor, LoanLegCandidate,
                TypeOK
  <1>4. 12 * AssessmentFactor(l, above) \in Nat /\ leg(l).actual \in Nat
    BY <1>2, <1>3 DEF LoanLegCandidate
  <1> QED BY <1>4 DEF Price, Constraints, Budgets

LEMMA RoomType ==
  ASSUME TypeOK, AttemptIsSound, InWork, NEW l \in subset, NEW c \in Constraints
  PROVE  Room(l, c) \in Int
  <1>1. subset \in Subsets
    BY DEF AttemptIsSound, Tryable
  <1>2. leg(l) \in LoanLegCandidate /\ amounts[l] \in Nat
    BY <1>1, LegType DEF TypeOK, InWork
  <1>3. c \in Budgets => remaining[c] \in Int
    BY DEF TypeOK
  <1> QED BY <1>2, <1>3 DEF LoanLegCandidate, Room, Constraints

\* The start of an attempt satisfies everything said about one.
LEMMA AttemptStarts ==
  ASSUME input \in Inputs, UNCHANGED input,
         NEW S, NEW high \in BOOLEAN, NEW fillOrder \in Orders,
         Tryable(S), high => RatesKnown(S), Attempt(S, high, fillOrder)
  PROVE  /\ phase' = "floors" /\ subset' = S /\ todo' = S
         /\ S \in Subsets /\ S # {}
         /\ above' \in BOOLEAN /\ order' \in Orders /\ binding' = {}
         /\ amounts' \in [S -> Nat] /\ remaining' \in [Budgets -> Int]
         /\ AttemptIsSound' /\ BudgetsAreShared'
  <1>1. S \in Subsets /\ S # {}
    BY DEF Tryable, Subsets, Considered
  <1>2. \A l \in S : leg(l) \in LoanLegCandidate
    BY <1>1, LegType
  <1>3. amounts' = [l \in S |-> leg(l).floor] /\ \A l \in S : leg(l).floor \in Nat
    BY <1>2 DEF Attempt, LoanLegCandidate
  <1>4. amounts' \in [S -> Nat]
    BY <1>3
  <1>5. remaining' \in [Budgets -> Int]
    BY FirstBudgetType DEF Attempt
  <1>6. Tryable(S)' /\ (high => RatesKnown(S)')
    BY DEF Tryable, RatesKnown, Subsets, Allowed, Verdict, HasCredit, IsCredit, leg
  <1>7. \A l \in S : amounts'[l] >= leg(l)'.floor
    BY <1>3 DEF leg
  <1>8. AttemptIsSound'
    BY <1>6, <1>7 DEF AttemptIsSound, Attempt
  <1>9. BudgetsAreShared'
    <2>1. FirstBudget(above)' = FirstBudget(high) /\ remaining' = FirstBudget(high)
      BY DEF FirstBudget, Attempt, Headroom
    <2>2. \A b : Charged(b, {})' = 0
      BY SumEmpty DEF Charged, SumFunction
    <2>3. \A b \in Budgets : FirstBudget(high)[b] \in Int
      BY FirstBudgetType
    <2>4. phase' = "floors" /\ subset' \ todo' = {}
      BY DEF Attempt
    <2> QED BY <2>1, <2>2, <2>3, <2>4 DEF BudgetsAreShared
  <1> QED BY <1>1, <1>4, <1>5, <1>8, <1>9 DEF Attempt

-------------------------------------------------------------------------------
(* What the legs take of the shared budgets. *)

LEMMA SubsetsAreFinite == ASSUME input \in Inputs, NEW S \in Subsets PROVE IsFiniteSet(S)
  BY InputAssumption, FS_Subset DEF Subsets, Considered

LEMMA ChargeType ==
  ASSUME TypeOK, AttemptIsSound, InWork, NEW b \in Budgets
  PROVE  /\ IsFiniteSet(subset)
         /\ \A l \in subset : /\ amounts[l] \in Nat /\ Price(l, b) \in Nat
                               /\ amounts[l] * Price(l, b) \in Nat
  <1>1. subset \in Subsets /\ IsFiniteSet(subset)
    BY SubsetsAreFinite DEF AttemptIsSound, Tryable, TypeOK
  <1>2. \A l \in subset : amounts[l] \in Nat /\ Price(l, b) \in Nat
    BY PriceType DEF TypeOK, InWork, Constraints
  <1> QED BY <1>1, <1>2, ProductNat

LEMMA ChargedNothing == ASSUME NEW b PROVE Charged(b, {}) = 0
  BY SumEmpty DEF Charged, SumFunction

LEMMA ChargedAdds ==
  ASSUME TypeOK, AttemptIsSound, InWork, NEW b \in Budgets,
         NEW S \in SUBSET subset, NEW l \in subset \ S
  PROVE  /\ Charged(b, S) \in Nat
         /\ Charged(b, S \cup {l}) = Charged(b, S) + amounts[l] * Price(l, b)
  <1> DEFINE T == S \cup {l}
             w == [k \in S |-> amounts[k] * Price(k, b)]
             v == [k \in T |-> amounts[k] * Price(k, b)]
  <1>1. IsFiniteSet(S) /\ \A k \in T : amounts[k] * Price(k, b) \in Nat
    BY ChargeType, FS_Subset
  <1>2. \A k \in S : w[k] \in Int /\ w[k] \in Nat /\ w[k] = v[k]
    BY <1>1
  <1>3. (\A k \in T : v[k] \in Int) /\ v[l] = amounts[l] * Price(l, b)
    BY <1>1
  <1>4. Charged(b, S) = SumFunctionOnSet(w, S) /\ Charged(b, T) = SumFunctionOnSet(v, T)
    BY DEF Charged, SumFunction
  <1> HIDE DEF w, v
  <1>5. SumFunctionOnSet(v, T) = SumFunctionOnSet(v, S) + v[l]
    BY <1>1, <1>3, SumAdds
  <1>6. SumFunctionOnSet(w, S) = SumFunctionOnSet(v, S)
    BY <1>1, <1>2, SumSame
  <1>7. SumFunctionOnSet(w, S) \in Nat
    BY <1>1, <1>2, SumIsNat
  <1> QED BY <1>3, <1>4, <1>5, <1>6, <1>7

\* What a plan that is about to be kept takes of a budget is within that budget:
\* w is what each leg that got an amount takes.
LEMMA PlanWithinBudget ==
  ASSUME IInv, phase = "fill", NEW b \in Budgets, NEW w,
         \A l \in Lent(Plan) : w[l] = amounts[l] * Price(l, b)
  PROVE  SumFunctionOnSet(w, Lent(Plan)) <= FirstBudget(above)[b]
  <1> DEFINE v == [l \in subset |-> amounts[l] * Price(l, b)]
  <1>1. InWork /\ TypeOK /\ AttemptIsSound /\ above \in BOOLEAN /\ input \in Inputs
    BY DEF InWork, IInv, TypeOK
  <1>2. /\ IsFiniteSet(subset) /\ \A l \in subset : v[l] \in Int
        /\ \A l \in subset : amounts[l] \in Nat /\ Price(l, b) \in Nat
    BY <1>1, ChargeType
  <1>3. Lent(Plan) = {l \in subset : amounts[l] > 0}
    BY DEF Lent, Plan
  <1>4. \A l \in subset \ Lent(Plan) : v[l] = 0
    <2> SUFFICES ASSUME NEW l \in subset \ Lent(Plan) PROVE v[l] = 0
      OBVIOUS
    <2>1. amounts[l] = 0 /\ Price(l, b) \in Nat
      BY <1>2, <1>3
    <2> QED BY <2>1
  <1>5. Lent(Plan) \in SUBSET subset /\ IsFiniteSet(Lent(Plan))
    BY <1>2, <1>3, FS_Subset
  <1>6. \A l \in Lent(Plan) : v[l] = w[l] /\ v[l] \in Int
    BY <1>2, <1>5
  <1>7. Charged(b, subset) = SumFunctionOnSet(v, subset)
    BY DEF Charged, SumFunction
  <1> HIDE DEF v
  <1>8. SumFunctionOnSet(v, Lent(Plan)) = SumFunctionOnSet(v, subset)
    BY <1>2, <1>4, <1>5, SumDropsZeros
  <1>9. SumFunctionOnSet(w, Lent(Plan)) = SumFunctionOnSet(v, Lent(Plan))
    BY <1>5, <1>6, SumSame
  <1>10. SumFunctionOnSet(v, subset) \in Int
    BY <1>2, SumIsInt
  <1>11. remaining[b] = FirstBudget(above)[b] - Charged(b, subset) /\ remaining[b] >= 0
    BY <1>1 DEF IInv, BudgetsAreShared, NeverOverdrawn, FloorsFit
  <1>12. FirstBudget(above)[b] \in Int
    BY <1>1, FirstBudgetType
  <1> QED BY <1>7, <1>8, <1>9, <1>10, <1>11, <1>12

\* The regime a plan was filled in is the one that applies to it.
LEMMA RegimeApplies ==
  ASSUME IInv, phase = "fill", Usable(Plan), NEW l \in Lent(Plan)
  PROVE  TrueFactor(Plan, l) = AssessmentFactor(l, above)
  <1>1. Lent(Plan) \subseteq subset /\ Plan.subset = subset
    BY DEF Lent, Plan
  <1>2. above \in BOOLEAN /\ PremiseHolds(Plan)
    BY DEF IInv, TypeOK, Usable
  <1>3. CASE IsCredit(l)
    <2>1. HasCredit(Lent(Plan)) /\ HasCredit(subset)
      BY <1>1, <1>3 DEF HasCredit
    <2>2. CrossesThreshold(Plan) = above
      BY <1>1, <1>2, <2>1 DEF PremiseHolds
    <2> QED BY <1>2, <2>1, <2>2 DEF TrueFactor, AssessmentFactor
  <1>4. CASE ~IsCredit(l)
    BY <1>4 DEF TrueFactor, AssessmentFactor
  <1> QED BY <1>3, <1>4

LEMMA PlanSharesBudgets ==
  ASSUME IInv, phase = "fill", Usable(Plan)
  PROVE  WithinBudgets(Plan)
  <1> DEFINE L == Lent(Plan)
  <1>0. InWork /\ TypeOK /\ AttemptIsSound
    BY DEF InWork, IInv
  <1>1. /\ L \subseteq subset /\ Plan.amounts = amounts
        /\ \A b \in Budgets, l \in L : amounts[l] \in Nat /\ Price(l, b) \in Nat
    BY <1>0, ChargeType DEF Lent, Plan
  <1>2. /\ FirstBudget(above)["dsr"] = input.budget.dsr
        /\ FirstBudget(above)["cashflow"] = input.budget.cashflow
        /\ FirstBudget(above)["ltv"] = input.budget.ltv
        /\ FirstBudget(above)["required"] = input.budget.required
    BY DEF FirstBudget, Budgets
  <1>3. ASSUME NEW l \in L
        PROVE  /\ Price(l, "dsr") = 12 * TrueFactor(Plan, l)
               /\ Price(l, "cashflow") = leg(l).actual
               /\ Price(l, "ltv") = (IF leg(l).kind = "mortgage" THEN 1 ELSE 0)
               /\ Price(l, "required") = 1
    <2>1. TrueFactor(Plan, l) = AssessmentFactor(l, above)
      BY RegimeApplies
    <2> QED BY <2>1 DEF Price
  <1>4. {"dsr", "cashflow", "ltv", "required"} \subseteq Budgets
    BY DEF Budgets
  <1> HIDE DEF L
  <1>5. Spent(Plan, LAMBDA l : 12 * TrueFactor(Plan, l)) <= input.budget.dsr
    <2> DEFINE w == [l \in L |-> (12 * TrueFactor(Plan, l)) * amounts[l]]
    <2>1. \A l \in L : w[l] = amounts[l] * Price(l, "dsr")
      <3> SUFFICES ASSUME NEW l \in L PROVE w[l] = amounts[l] * Price(l, "dsr")
        OBVIOUS
      <3>1. w[l] = Price(l, "dsr") * amounts[l]
        BY <1>3
      <3> QED BY <1>1, <1>4, <3>1
    <2>2. Spent(Plan, LAMBDA l : 12 * TrueFactor(Plan, l)) = SumFunctionOnSet(w, L)
      BY <1>1 DEF Spent, SumFunction, L
    <2> HIDE DEF w
    <2> QED BY <1>2, <1>4, <2>1, <2>2, PlanWithinBudget DEF L
  <1>6. Spent(Plan, LAMBDA l : leg(l).actual) <= input.budget.cashflow
    <2> DEFINE w == [l \in L |-> leg(l).actual * amounts[l]]
    <2>1. \A l \in L : w[l] = amounts[l] * Price(l, "cashflow")
      <3> SUFFICES ASSUME NEW l \in L PROVE w[l] = amounts[l] * Price(l, "cashflow")
        OBVIOUS
      <3>1. w[l] = Price(l, "cashflow") * amounts[l]
        BY <1>3
      <3> QED BY <1>1, <1>4, <3>1
    <2>2. Spent(Plan, LAMBDA l : leg(l).actual) = SumFunctionOnSet(w, L)
      BY <1>1 DEF Spent, SumFunction, L
    <2> HIDE DEF w
    <2> QED BY <1>2, <1>4, <2>1, <2>2, PlanWithinBudget DEF L
  <1>7. Spent(Plan, LAMBDA l : IF leg(l).kind = "mortgage" THEN 1 ELSE 0) <= input.budget.ltv
    <2> DEFINE w == [l \in L |-> (IF leg(l).kind = "mortgage" THEN 1 ELSE 0) * amounts[l]]
    <2>1. \A l \in L : w[l] = amounts[l] * Price(l, "ltv")
      <3> SUFFICES ASSUME NEW l \in L PROVE w[l] = amounts[l] * Price(l, "ltv")
        OBVIOUS
      <3>1. w[l] = Price(l, "ltv") * amounts[l]
        BY <1>3
      <3> QED BY <1>1, <1>4, <3>1
    <2>2. Spent(Plan, LAMBDA l : IF leg(l).kind = "mortgage" THEN 1 ELSE 0)
            = SumFunctionOnSet(w, L)
      BY <1>1 DEF Spent, SumFunction, L
    <2> HIDE DEF w
    <2> QED BY <1>2, <1>4, <2>1, <2>2, PlanWithinBudget DEF L
  <1>8. Total(Plan) <= input.budget.required
    <2>1. \A l \in L : amounts[l] = amounts[l] * Price(l, "required")
      <3> SUFFICES ASSUME NEW l \in L PROVE amounts[l] = amounts[l] * Price(l, "required")
        OBVIOUS
      <3>1. Price(l, "required") = 1 /\ amounts[l] \in Nat
        BY <1>1, <1>3, <1>4
      <3> QED BY <3>1
    <2> QED BY <1>1, <1>2, <1>4, <2>1, PlanWithinBudget DEF Total, L
  <1> QED BY <1>5, <1>6, <1>7, <1>8 DEF WithinBudgets

-------------------------------------------------------------------------------
LEMMA SameInput ==
  ASSUME UNCHANGED input
  PROVE  /\ Subsets' = Subsets
         /\ \A l : leg(l)' = leg(l)
         /\ \A S : Tryable(S)' = Tryable(S) /\ RatesKnown(S)' = RatesKnown(S)
  BY DEF Subsets, Tryable, RatesKnown, Allowed, Verdict, HasCredit, IsCredit, leg

\* Whatever follows an attempt, the bookkeeping of the subsets stays exact.
LEMMA MoveOnKeeps ==
  ASSUME IInv, InWork, MoveOn, UNCHANGED <<input, pending, blocked>>,
         feasible' = feasible \/ feasible' = feasible \cup {subset}
  PROVE  /\ phase' \in {"subset", "floors"} /\ subset' = subset
         /\ above' \in BOOLEAN /\ order' \in Orders
         /\ todo' \subseteq subset' /\ binding' \subseteq Constraints
         /\ phase' = "floors" => amounts' \in [subset -> Nat] /\ subset # {}
         /\ remaining' \in [Budgets -> Int]
         /\ feasible' \subseteq Subsets
         /\ unresolved' \subseteq Subsets /\ infeasible' \subseteq Subsets
         /\ AttemptIsSound' /\ NothingRevisited' /\ EverySubsetAccounted'
         /\ BudgetsAreShared'
  <1>. USE SameInput
  <1>1. /\ Tryable(subset) /\ subset \in Subsets /\ feasible' \subseteq Subsets
        /\ above \in BOOLEAN /\ (above => RatesKnown(subset))
    BY DEF IInv, AttemptIsSound, Tryable, TypeOK
  <1>2. ASSUME NEW high \in BOOLEAN, NEW fillOrder \in Orders, high => RatesKnown(subset),
               Attempt(subset, high, fillOrder), UNCHANGED <<unresolved, infeasible>>
        PROVE  /\ phase' = "floors" /\ subset' = subset /\ todo' = subset
               /\ above' \in BOOLEAN /\ order' \in Orders /\ binding' = {}
               /\ amounts' \in [subset -> Nat] /\ subset # {}
               /\ remaining' \in [Budgets -> Int]
               /\ AttemptIsSound' /\ NothingRevisited' /\ EverySubsetAccounted'
               /\ BudgetsAreShared'
    <2>1. /\ phase' = "floors" /\ subset' = subset /\ todo' = subset
          /\ above' \in BOOLEAN /\ order' \in Orders /\ binding' = {}
          /\ amounts' \in [subset -> Nat] /\ subset # {}
          /\ remaining' \in [Budgets -> Int]
          /\ AttemptIsSound' /\ BudgetsAreShared'
      BY <1>1, <1>2, AttemptStarts DEF IInv, TypeOK
    <2>2. NothingRevisited'
      BY <1>2, <2>1 DEF IInv, NothingRevisited, InWork
    <2>3. EverySubsetAccounted'
      BY <1>2, <2>1 DEF IInv, NothingRevisited, EverySubsetAccounted, InWork
    <2> QED BY <2>1, <2>2, <2>3
  <1>3. CASE order # "flexibility"
    <2>1. PICK fillOrder \in Orders :
            Attempt(subset, above, fillOrder) /\ UNCHANGED <<unresolved, infeasible>>
      BY <1>3 DEF MoveOn, Orders
    <2> QED BY <1>1, <1>2, <2>1 DEF IInv, TypeOK
  <1>4. CASE order = "flexibility" /\ ~above /\ HasCredit(subset) /\ RatesKnown(subset)
    <2>1. Attempt(subset, TRUE, "assessment_cost") /\ UNCHANGED <<unresolved, infeasible>>
      BY <1>4 DEF MoveOn
    <2> QED BY <1>1, <1>2, <1>4, <2>1 DEF IInv, TypeOK, Orders
  <1>5. CASE order = "flexibility" /\ (above \/ ~HasCredit(subset) \/ ~RatesKnown(subset))
    <2>1. /\ unresolved' = unresolved \/ unresolved' = unresolved \cup {subset}
          /\ infeasible' = (IF subset \in feasible' THEN infeasible
                            ELSE infeasible \cup {subset})
          /\ phase' = "subset"
          /\ UNCHANGED <<subset, above, order, attempt>>
      BY <1>5 DEF MoveOn
    <2>2. ~InWork'
      BY <2>1 DEF InWork
    <2>3. NothingRevisited'
      BY <2>1, <2>2 DEF IInv, NothingRevisited, InWork
    <2>4. EverySubsetAccounted'
      BY <2>1 DEF IInv, NothingRevisited, EverySubsetAccounted, InWork
    <2>5. unresolved' \subseteq Subsets /\ infeasible' \subseteq Subsets
      BY <1>1, <2>1 DEF IInv, TypeOK
    <2>6. BudgetsAreShared'
      BY <2>2 DEF BudgetsAreShared
    <2> QED BY <1>1, <2>1, <2>2, <2>3, <2>4, <2>5, <2>6
            DEF IInv, TypeOK, AttemptIsSound, attempt
  <1> QED BY <1>3, <1>4, <1>5 DEF MoveOn

\* Outside the filling the three facts about it hold trivially.
LEMMA NotFilling ==
  ASSUME phase' # "fill" PROVE NeverOverdrawn' /\ FilledToTheBrim' /\ BindingStillBinds'
  BY DEF NeverOverdrawn, FilledToTheBrim, BindingStillBinds

LEMMA SameBudgets ==
  ASSUME UNCHANGED input PROVE \A p : WithinBudgets(p)' = WithinBudgets(p)
  BY DEF WithinBudgets, Spent, Total, TrueFactor, AssessmentFactor, CrossesThreshold,
         NewCredit, HasCredit, IsCredit, leg

\* What is said of plans and of the shortlist holds as long as they stay.
LEMMA PlansStay ==
  ASSUME UNCHANGED <<input, plans>>
  PROVE  /\ SharedBudgetsHold' = SharedBudgetsHold
         /\ \A p : Total(p)' = Total(p) /\ Covers(p)' = Covers(p)
  BY SameBudgets DEF SharedBudgetsHold, Total, Covers

LEMMA NotDone == ASSUME phase' # "done" PROVE StatusTellsTheBest'
  BY DEF StatusTellsTheBest

LEMMA SetAsideKeeps ==
  ASSUME IInv, NEW S \in pending, SetAside(S) PROVE IInv'
  <1>. USE SameInput
  <1>1. /\ phase = "subset" /\ phase' = "subset" /\ ~InWork /\ ~InWork'
        /\ UNCHANGED <<input, subset, above, order, attempt, plans, feasible, infeasible, result>>
        /\ pending' = pending \ {S}
        /\ \/ blocked' = blocked \cup {S} /\ unresolved' = unresolved
           \/ blocked' = blocked /\ unresolved' = unresolved \cup {S}
    BY DEF SetAside, Take, InWork
  <1>2. TypeOK'
    BY <1>1 DEF IInv, TypeOK, attempt, result
  <1>3. AttemptIsSound' /\ PlansAreTryable'
    BY <1>1 DEF IInv, AttemptIsSound, PlansAreTryable
  <1>4. NothingRevisited' /\ EverySubsetAccounted'
    <2>1. NothingRevisited'
      BY <1>1 DEF IInv, NothingRevisited
    <2>2. EverySubsetAccounted'
      BY <1>1 DEF IInv, NothingRevisited, EverySubsetAccounted, TypeOK
    <2> QED BY <2>1, <2>2
  <1>5. BudgetsAreShared' /\ SharedBudgetsHold' /\ StatusTellsTheBest'
    BY <1>1, PlansStay, NotDone DEF IInv, BudgetsAreShared
  <1> QED BY <1>1, <1>2, <1>3, <1>4, <1>5, NotFilling DEF IInv

LEMMA TryKeeps ==
  ASSUME IInv, NEW S \in pending, Try(S) PROVE IInv'
  <1>. USE SameInput
  <1>1. /\ phase = "subset" /\ ~InWork
        /\ UNCHANGED <<input, plans, outcome, result>>
        /\ pending' = pending \ {S} /\ S \in Subsets
        /\ Tryable(S) /\ Attempt(S, FALSE, "assessment_cost")
    BY DEF Try, Take, InWork, Tryable, IInv, TypeOK, outcome
  <1>2. /\ phase' = "floors" /\ subset' = S /\ todo' = S /\ S # {}
        /\ above' \in BOOLEAN /\ order' \in Orders /\ binding' = {}
        /\ amounts' \in [S -> Nat] /\ remaining' \in [Budgets -> Int]
        /\ AttemptIsSound' /\ BudgetsAreShared'
    BY <1>1, AttemptStarts DEF IInv, TypeOK, Orders
  <1>3. TypeOK'
    BY <1>1, <1>2 DEF IInv, TypeOK, outcome, result
  <1>4. PlansAreTryable'
    BY <1>1 DEF IInv, PlansAreTryable
  <1>5. NothingRevisited'
    BY <1>1, <1>2 DEF IInv, NothingRevisited, outcome, EverySubsetAccounted
  <1>6. EverySubsetAccounted'
    BY <1>1, <1>2 DEF IInv, NothingRevisited, EverySubsetAccounted, outcome, TypeOK
  <1>7. SharedBudgetsHold' /\ StatusTellsTheBest'
    BY <1>1, <1>2, PlansStay, NotDone DEF IInv
  <1> QED BY <1>2, <1>3, <1>4, <1>5, <1>6, <1>7, NotFilling DEF IInv

LEMMA ConsumedType ==
  ASSUME TypeOK, AttemptIsSound, InWork, NEW l \in subset, NEW n \in Nat
  PROVE  /\ Consumed(l, n) \in [Budgets -> Int]
         /\ \A b \in Budgets : /\ n * Price(l, b) \in Nat
                               /\ Consumed(l, n)[b] = remaining[b] - n * Price(l, b)
                               /\ Consumed(l, n)[b] <= remaining[b]
  <1>1. \A b \in Budgets : n * Price(l, b) \in Nat
    BY PriceType, ProductNat DEF Constraints
  <1>2. \A b \in Budgets : remaining[b] \in Int
    BY DEF TypeOK
  <1> QED BY <1>1, <1>2 DEF Consumed

LEMMA FloorKeeps ==
  ASSUME IInv, NEW l \in todo, Floor(l) PROVE IInv'
  <1>. USE SameInput
  <1>1. /\ phase = "floors" /\ phase' = "floors" /\ InWork /\ InWork'
        /\ l \in subset /\ amounts[l] \in Nat
        /\ remaining' = Consumed(l, amounts[l])
        /\ todo' = todo \ {l}
        /\ UNCHANGED <<input, pending, subset, above, order, amounts, binding,
                       plans, outcome, result>>
    BY DEF Floor, IInv, TypeOK, InWork
  <1>2. remaining' \in [Budgets -> Int]
    BY <1>1, ConsumedType DEF IInv
  <1>3. TypeOK'
    BY <1>1, <1>2 DEF IInv, TypeOK, outcome, result
  <1>4. AttemptIsSound' /\ PlansAreTryable'
    BY <1>1 DEF IInv, AttemptIsSound, PlansAreTryable
  <1>5. NothingRevisited' /\ EverySubsetAccounted'
    BY <1>1 DEF IInv, NothingRevisited, EverySubsetAccounted, outcome
  <1>6. BudgetsAreShared'
    <2> DEFINE T == subset \ todo
    <2>1. FirstBudget(above)' = FirstBudget(above)
          /\ \A b, S : Charged(b, S)' = Charged(b, S)
      BY <1>1 DEF FirstBudget, Headroom, Charged, Price, AssessmentFactor, IsCredit, leg
    <2>2. T \in SUBSET subset /\ l \in subset \ T /\ subset' \ todo' = T \cup {l}
      BY <1>1
    <2> SUFFICES ASSUME NEW b \in Budgets
                 PROVE  remaining'[b] = FirstBudget(above)[b] - Charged(b, T \cup {l})
      BY <1>1, <2>1, <2>2 DEF BudgetsAreShared
    <2> HIDE DEF T
    <2>3. Charged(b, T) \in Nat /\ Charged(b, T \cup {l}) = Charged(b, T) + amounts[l] * Price(l, b)
      BY <1>1, <2>2, ChargedAdds DEF IInv
    <2>4. remaining[b] = FirstBudget(above)[b] - Charged(b, T) /\ FirstBudget(above)[b] \in Int
      BY <1>1, FirstBudgetType DEF IInv, TypeOK, BudgetsAreShared, T
    <2>5. /\ remaining'[b] = remaining[b] - amounts[l] * Price(l, b)
          /\ amounts[l] * Price(l, b) \in Nat
      BY <1>1, ConsumedType DEF IInv
    <2> QED BY <2>3, <2>4, <2>5
  <1>7. SharedBudgetsHold' /\ StatusTellsTheBest'
    BY <1>1, PlansStay, NotDone DEF IInv
  <1> QED BY <1>1, <1>3, <1>4, <1>5, <1>6, <1>7, NotFilling DEF IInv

LEMMA FloorsDoneKeeps ==
  ASSUME IInv, FloorsDone PROVE IInv'
  <1>. USE SameInput
  <1>1. /\ phase = "floors" /\ InWork /\ todo = {}
        /\ UNCHANGED <<input, pending, plans, feasible, blocked, result>>
    BY DEF FloorsDone, InWork
  <1>2. CASE /\ FloorsFit /\ phase' = "fill" /\ todo' = subset
             /\ UNCHANGED <<subset, above, order, amounts, remaining, binding,
                            unresolved, infeasible>>
    <2>1. TypeOK'
      BY <1>1, <1>2 DEF IInv, TypeOK, result, InWork
    <2>2. AttemptIsSound' /\ PlansAreTryable'
      BY <1>1, <1>2 DEF IInv, AttemptIsSound, PlansAreTryable, InWork
    <2>3. NothingRevisited' /\ EverySubsetAccounted'
      BY <1>1, <1>2 DEF IInv, NothingRevisited, EverySubsetAccounted, InWork
    <2>4. NeverOverdrawn'
      <3>1. FloorsFit'
        BY <1>1, <1>2 DEF FloorsFit
      <3> QED BY <1>1, <1>2, <3>1 DEF IInv, AttemptIsSound, NeverOverdrawn
    <2>5. FilledToTheBrim'
      BY <1>2 DEF FilledToTheBrim
    <2>6. BindingStillBinds'
      <3>1. binding = {}
        BY <1>1 DEF IInv, AttemptIsSound, InWork
      <3> QED BY <1>2, <3>1 DEF BindingStillBinds
    <2>7. BudgetsAreShared'
      <3>1. FirstBudget(above)' = FirstBudget(above)
            /\ \A b, S : Charged(b, S)' = Charged(b, S)
        BY <1>1, <1>2 DEF FirstBudget, Headroom, Charged, Price, AssessmentFactor, IsCredit, leg
      <3>2. \A b \in Budgets : remaining[b] = FirstBudget(above)[b] - Charged(b, subset)
        <4>1. subset \ todo = subset
          BY <1>1
        <4> QED BY <1>1, <4>1 DEF IInv, BudgetsAreShared
      <3> QED BY <1>2, <3>1, <3>2 DEF BudgetsAreShared
    <2>8. SharedBudgetsHold' /\ StatusTellsTheBest'
      BY <1>1, <1>2, PlansStay, NotDone DEF IInv
    <2> QED BY <2>1, <2>2, <2>3, <2>4, <2>5, <2>6, <2>7, <2>8 DEF IInv
  <1>3. CASE ~FloorsFit /\ MoveOn
    <2>1. TypeOK' /\ AttemptIsSound' /\ NothingRevisited' /\ EverySubsetAccounted'
          /\ BudgetsAreShared' /\ phase' # "fill" /\ phase' # "done"
      BY <1>1, <1>3, MoveOnKeeps DEF IInv, TypeOK, result, InWork
    <2>2. PlansAreTryable'
      BY <1>1 DEF IInv, PlansAreTryable
    <2>3. SharedBudgetsHold' /\ StatusTellsTheBest'
      BY <1>1, <2>1, PlansStay, NotDone DEF IInv
    <2> QED BY <2>1, <2>2, <2>3, NotFilling DEF IInv
  <1> QED BY <1>2, <1>3 DEF FloorsDone

LEMMA ConcludeKeeps ==
  ASSUME IInv, Conclude PROVE IInv'
  <1>. USE SameInput
  <1>1. /\ phase = "fill" /\ InWork /\ MoveOn
        /\ UNCHANGED <<input, pending, blocked, result>>
        /\ feasible' = feasible \/ feasible' = feasible \cup {subset}
        /\ plans' = plans \/ (plans' = plans \cup {Plan} /\ Usable(Plan))
    BY DEF Conclude, InWork
  <1>2. /\ Tryable(subset) /\ subset \in Subsets
        /\ Plan.subset = subset /\ Plan.amounts = amounts /\ amounts \in [subset -> Nat]
    BY <1>1 DEF IInv, AttemptIsSound, Tryable, TypeOK, Plan
  <1>3. TypeOK' /\ AttemptIsSound' /\ NothingRevisited' /\ EverySubsetAccounted'
        /\ BudgetsAreShared' /\ phase' # "fill" /\ phase' # "done"
    <2>1. \A p \in plans' : p.subset \in Subsets' /\ p.amounts \in [p.subset -> Nat]
      BY <1>1, <1>2 DEF IInv, TypeOK
    <2>2. top' \subseteq plans' /\ UNCHANGED <<top, status>>
      BY <1>1 DEF IInv, TypeOK, result
    <2> QED BY <1>1, <2>1, <2>2, MoveOnKeeps DEF IInv, TypeOK, InWork
  <1>4. PlansAreTryable'
    <2>1. IsFiniteSet(plans')
      BY <1>1, FS_AddElement DEF IInv, PlansAreTryable
    <2> QED BY <1>1, <1>2, <2>1 DEF IInv, PlansAreTryable
  <1>5. SharedBudgetsHold'
    <2> SUFFICES ASSUME NEW p \in plans' PROVE WithinBudgets(p)
      BY <1>1, SameBudgets DEF SharedBudgetsHold
    <2>1. CASE p \in plans
      BY <2>1 DEF IInv, SharedBudgetsHold
    <2>2. CASE p = Plan /\ Usable(Plan)
      BY <1>1, <2>2, PlanSharesBudgets
    <2> QED BY <1>1, <2>1, <2>2
  <1> QED BY <1>3, <1>4, <1>5, NotFilling, NotDone DEF IInv

LEMMA TotalType ==
  ASSUME IInv, NEW p \in plans PROVE Total(p) \in Nat
  <1>1. IsFiniteSet(Lent(p)) /\ \A l \in Lent(p) : p.amounts[l] \in Nat
    BY SubsetsAreFinite, FS_Subset DEF IInv, TypeOK, Lent
  <1> QED BY <1>1, SumIsNat DEF Total

\* Coverage and amount never pull in different directions, so that the shortlist
\* has the plan that lends most, and a plan that covers if there is one.
LEMMA ShortlistHasTheBest ==
  ASSUME IInv, plans # {}, NEW T \in Shortlists
  PROVE  \E p \in T : \A q \in plans : Total(q) <= Total(p) /\ (Covers(q) => Covers(p))
  <1>1. /\ T \subseteq plans /\ IsFiniteSet(T) /\ IsFiniteSet(plans)
        /\ Cardinality(plans) \in Nat /\ Cardinality(plans) # 0
    BY FS_Subset, FS_CardinalityType, FS_EmptySet DEF Shortlists, IInv, PlansAreTryable
  <1>2. T # {}
    <2>1. TopN \in Nat /\ TopN # 0
      BY PolicyAssumption
    <2>2. Min({TopN, Cardinality(plans)}) # 0
      BY <1>1, <2>1 DEF Min
    <2>3. Cardinality(T) # 0
      BY <2>2 DEF Shortlists
    <2> QED BY <2>3, FS_EmptySet
  <1>3. \A p \in plans : Total(p) \in Int
    BY TotalType
  <1>4. PICK p \in T : \A q \in T : Total(q) <= Total(p)
    <2> DEFINE w == [p \in T |-> Total(p)]
    <2>1. \A p \in T : w[p] \in Int /\ w[p] = Total(p)
      BY <1>1, <1>3
    <2> HIDE DEF w
    <2> QED BY <1>1, <1>2, <2>1, GreatestWeight
  <1>5. input.budget.required \in Nat /\ Tolerance \in Nat
    BY InputAssumption, PolicyAssumption DEF IInv, TypeOK, LoanCombinationBudget
  <1>6. ASSUME NEW q \in plans PROVE Total(q) <= Total(p)
    <2>1. CASE q \in T
      BY <1>4, <2>1
    <2>2. CASE q \notin T
      <3>1. ~Better(q, p)
        BY <2>2 DEF Shortlists
      <3>2. ASSUME Total(q) > Total(p) PROVE FALSE
        <4>1. Covers(p) => Covers(q)
          BY <1>1, <1>3, <1>5, <3>2 DEF Covers
        <4>2. Covers(p) \in BOOLEAN /\ Covers(q) \in BOOLEAN
          BY DEF Covers
        <4> QED BY <3>1, <3>2, <4>1, <4>2 DEF Better
      <3> QED BY <1>1, <1>3, <3>2
    <2> QED BY <2>1, <2>2
  <1>7. ASSUME NEW q \in plans, Covers(q) PROVE Covers(p)
    BY <1>1, <1>3, <1>5, <1>6, <1>7 DEF Covers
  <1> QED BY <1>6, <1>7

LEMMA RankKeeps ==
  ASSUME IInv, Rank PROVE IInv'
  <1>. USE SameInput
  <1>1. /\ phase = "subset" /\ phase' = "done" /\ ~InWork /\ ~InWork'
        /\ UNCHANGED <<input, pending, subset, above, order, attempt, plans, outcome>>
        /\ top' \subseteq plans
        /\ status' \in {"COMPLETE", "PARTIAL", "INFEASIBLE", "UNRESOLVED"}
    BY DEF Rank, Shortlists, InWork
  <1>2. TypeOK'
    BY <1>1 DEF IInv, TypeOK, attempt, outcome
  <1>3. AttemptIsSound' /\ PlansAreTryable'
    BY <1>1 DEF IInv, AttemptIsSound, PlansAreTryable
  <1>4. NothingRevisited' /\ EverySubsetAccounted'
    BY <1>1 DEF IInv, NothingRevisited, EverySubsetAccounted, outcome, InWork
  <1>5. BudgetsAreShared' /\ SharedBudgetsHold'
    BY <1>1, PlansStay DEF IInv, BudgetsAreShared
  <1>6. StatusTellsTheBest'
    <2>1. /\ top' \in Shortlists /\ top' \subseteq plans
          /\ status' = IF DOMAIN input.legs = {} THEN "UNRESOLVED"
                        ELSE IF plans = {} THEN "INFEASIBLE"
                        ELSE IF \E p \in top' : Covers(p) THEN "COMPLETE" ELSE "PARTIAL"
      BY DEF Rank, Shortlists
    <2>2. UNCHANGED <<input, plans>>
      BY <1>1
    <2> SUFFICES /\ status' = "COMPLETE" <=> \E p \in plans : Covers(p)
                 /\ status' = "PARTIAL" <=> plans # {} /\ \A p \in plans : ~Covers(p)
                 /\ plans # {} => \E p \in top' : \A q \in plans : Total(q) <= Total(p)
      BY <2>2, PlansStay DEF StatusTellsTheBest
    <2>3. CASE plans = {}
      BY <2>1, <2>3
    <2>4. CASE plans # {}
      <3>1. DOMAIN input.legs # {}
        BY <2>4 DEF IInv, TypeOK, Subsets, Considered
      <3>2. status' = IF \E p \in top' : Covers(p) THEN "COMPLETE" ELSE "PARTIAL"
        BY <2>1, <2>2, <2>4, <3>1, PlansStay
      <3>3. PICK p \in top' : \A q \in plans : Total(q) <= Total(p) /\ (Covers(q) => Covers(p))
        BY <2>1, <2>4, ShortlistHasTheBest
      <3> QED BY <2>1, <2>4, <3>2, <3>3
    <2> QED BY <2>3, <2>4
  <1> QED BY <1>1, <1>2, <1>3, <1>4, <1>5, <1>6, NotFilling DEF IInv

\* One turn of the filling: m is what the leg is given, possibly nothing.
LEMMA FillKeeps ==
  ASSUME IInv, NEW l \in todo, Fill(l) PROVE IInv'
  <1>. USE SameInput
  <1>1. /\ phase = "fill" /\ phase' = "fill" /\ InWork /\ InWork'
        /\ l \in subset /\ subset \in Subsets
        /\ amounts \in [subset -> Nat] /\ remaining \in [Budgets -> Int]
        /\ todo' = todo \ {l} /\ todo' \subseteq subset
        /\ UNCHANGED <<input, pending, subset, above, order, plans, outcome, result>>
    BY DEF Fill, IInv, TypeOK, InWork, AttemptIsSound, Tryable
  <1>2. \A k \in subset, c \in Constraints : Price(k, c) \in Nat /\ Room(k, c) \in Int
    BY <1>1, PriceType, RoomType DEF IInv
  <1>3. PICK n \in Nat, label \in Constraints :
          /\ Fits(l, n) /\ ~Fits(l, n + 1) /\ label \in Tightest(l)
          /\ binding' = binding \cup {label}
          /\ \/ n <= Epsilon /\ UNCHANGED <<amounts, remaining>>
             \/ /\ n > Epsilon
                /\ amounts' = [amounts EXCEPT ![l] = @ + n]
                /\ remaining' = Consumed(l, n)
    BY DEF Fill, Increments, BindingLabels, Tightest
  <1> DEFINE m == IF n <= Epsilon THEN 0 ELSE n
  <1>4. m \in Nat /\ m <= n /\ n + 1 <= Epsilon + 1 + m /\ Epsilon \in Nat
    BY PolicyAssumption
  <1>5. /\ amounts' = [amounts EXCEPT ![l] = amounts[l] + m]
        /\ remaining' \in [Budgets -> Int]
        /\ \A b \in Budgets : remaining'[b] = remaining[b] - m * Price(l, b)
    <2>1. CASE n <= Epsilon
      <3>1. \A b \in Budgets : Price(l, b) \in Nat
        BY <1>1, <1>2 DEF Constraints
      <3> QED BY <1>1, <1>3, <2>1, <3>1, PolicyAssumption
    <2>2. CASE n > Epsilon
      <3>1. n \in Nat /\ m = n
        BY <2>2, PolicyAssumption
      <3>2. remaining' = Consumed(l, n) /\ amounts' = [amounts EXCEPT ![l] = @ + n]
        BY <1>3, <2>2, PolicyAssumption
      <3> QED BY <1>1, <3>1, <3>2, ConsumedType DEF IInv
    <2> QED BY <2>1, <2>2, PolicyAssumption
  <1> HIDE DEF m
  <1>6. amounts' \in [subset -> Nat] /\ amounts'[l] = amounts[l] + m
        /\ \A k \in subset : amounts'[k] >= amounts[k] /\ (k # l => amounts'[k] = amounts[k])
    BY <1>1, <1>4, <1>5
  <1>7. \A k \in subset, c \in Constraints : Price(k, c)' = Price(k, c)
    BY <1>1 DEF Price, AssessmentFactor, IsCredit, leg
  <1>8. \A c \in Constraints : m * Price(l, c) \in Nat
    BY <1>1, <1>2, <1>4, ProductNat
  <1>9. \A c \in Constraints : Room(l, c)' = Room(l, c) - m * Price(l, c)
    <2>0. leg(l) \in LoanLegCandidate /\ leg(l)' = leg(l)
      BY <1>1, LegType DEF IInv, TypeOK, leg
    <2>1. \A c \in Budgets : Room(l, c)' = Room(l, c) - m * Price(l, c)
      BY <1>5 DEF Room, Budgets
    <2>2. Room(l, "product")' = Room(l, "product") - m * Price(l, "product")
      BY <1>1, <1>4, <1>6, <2>0 DEF Room, Price, LoanLegCandidate
    <2>3. Room(l, "dti")' = Room(l, "dti") - m * Price(l, "dti")
      BY <1>1, <1>4, <1>6, <2>0 DEF Room, Price, LoanLegCandidate
    <2> QED BY <2>1, <2>2, <2>3 DEF Constraints
  <1>10. \A k \in subset, c \in Constraints : Room(k, c)' <= Room(k, c) /\ Room(k, c)' \in Int
    <2> SUFFICES ASSUME NEW k \in subset, NEW c \in Constraints
                 PROVE  Room(k, c)' <= Room(k, c) /\ Room(k, c)' \in Int
      OBVIOUS
    <2>1. CASE k = l
      BY <1>1, <1>2, <1>8, <1>9, <2>1
    <2>2. CASE k # l /\ c \in Budgets
      <3>1. Room(k, c)' = remaining'[c] /\ Room(k, c) = remaining[c]
        BY <2>2 DEF Room, Budgets
      <3>2. c \in Constraints /\ remaining'[c] = remaining[c] - m * Price(l, c)
        BY <1>5, <2>2 DEF Constraints
      <3> QED BY <1>1, <1>8, <2>2, <3>1, <3>2
    <2>3. CASE k # l /\ c \in {"product", "dti"}
      <3>1. Room(k, c)' = Room(k, c)
        BY <1>1, <1>6, <2>3 DEF Room, leg
      <3> QED BY <1>2, <3>1
    <2> QED BY <2>1, <2>2, <2>3 DEF Constraints
  <1>11. \A c \in Constraints : m * Price(l, c) <= Room(l, c)
    <2> SUFFICES ASSUME NEW c \in Constraints PROVE m * Price(l, c) <= Room(l, c)
      OBVIOUS
    <2>1. n * Price(l, c) <= Room(l, c)
      BY <1>3 DEF Fits
    <2>2. m * Price(l, c) <= n * Price(l, c) /\ n * Price(l, c) \in Nat
      BY <1>1, <1>2, <1>4, ProductMonotone, ProductNat
    <2> QED BY <1>1, <1>2, <1>8, <2>1, <2>2
  <1>12. NeverOverdrawn'
    <2>1. \A b \in Budgets : remaining'[b] >= 0
      <3> SUFFICES ASSUME NEW b \in Budgets PROVE remaining'[b] >= 0
        OBVIOUS
      <3>1. b \in Constraints /\ Room(l, b) = remaining[b] /\ remaining[b] \in Int
        BY <1>1 DEF Constraints, Room, Budgets
      <3> QED BY <1>5, <1>8, <1>11, <3>1
    <2>2. \A k \in subset :
            /\ leg(k).cap # NoLimit => amounts'[k] <= leg(k).cap
            /\ leg(k).dti # NoLimit => amounts'[k] <= leg(k).dti
      <3> SUFFICES ASSUME NEW k \in subset
                   PROVE  /\ leg(k).cap # NoLimit => amounts'[k] <= leg(k).cap
                          /\ leg(k).dti # NoLimit => amounts'[k] <= leg(k).dti
        OBVIOUS
      <3>1. CASE k # l
        BY <1>1, <1>6, <3>1 DEF IInv, NeverOverdrawn, FloorsFit
      <3>2. CASE k = l
        <4>1. leg(l) \in LoanLegCandidate
          BY <1>1, LegType DEF IInv, TypeOK
        <4>2. leg(l).cap # NoLimit => Price(l, "product") = 1
                                       /\ Room(l, "product") = leg(l).cap - amounts[l]
          BY DEF Price, Room
        <4>3. leg(l).dti # NoLimit => Price(l, "dti") = 1
                                       /\ Room(l, "dti") = leg(l).dti - amounts[l]
          BY DEF Price, Room
        <4>4. m * Price(l, "product") <= Room(l, "product")
              /\ m * Price(l, "dti") <= Room(l, "dti")
          BY <1>11 DEF Constraints
        <4> QED BY <1>1, <1>4, <1>6, <3>2, <4>1, <4>2, <4>3, <4>4 DEF LoanLegCandidate
      <3> QED BY <3>1, <3>2
    <2>3. FloorsFit'
      BY <1>1, <2>1, <2>2 DEF FloorsFit, leg
    <2>4. \A k \in subset : amounts'[k] >= leg(k).floor
      <3> SUFFICES ASSUME NEW k \in subset PROVE amounts'[k] >= leg(k).floor
        OBVIOUS
      <3>1. leg(k).floor \in Nat /\ amounts[k] >= leg(k).floor
        BY <1>1, LegType DEF IInv, AttemptIsSound, LoanLegCandidate, TypeOK
      <3> QED BY <1>1, <1>6, <3>1
    <2> QED BY <1>1, <2>3, <2>4 DEF NeverOverdrawn, leg
  <1>13. \A c \in Constraints :
            Room(l, c) < (n + 1) * Price(l, c) => (Epsilon + 1) * Price(l, c) > Room(l, c)'
    <2> SUFFICES ASSUME NEW c \in Constraints, Room(l, c) < (n + 1) * Price(l, c)
                 PROVE  (Epsilon + 1) * Price(l, c) > Room(l, c)'
      OBVIOUS
    <2>0. Price(l, c) \in Nat /\ Room(l, c) \in Int
      BY <1>1, <1>2
    <2>1. (n + 1) * Price(l, c) <= (Epsilon + 1 + m) * Price(l, c)
      BY <1>4, <2>0, ProductMonotone
    <2>2. (Epsilon + 1 + m) * Price(l, c) = (Epsilon + 1) * Price(l, c) + m * Price(l, c)
      BY <1>4, <2>0
    <2>3. /\ (Epsilon + 1) * Price(l, c) \in Nat /\ (n + 1) * Price(l, c) \in Nat
          /\ m * Price(l, c) \in Nat
      BY <1>4, <2>0, ProductNat
    <2> QED BY <1>9, <2>0, <2>1, <2>2, <2>3
  <1>14. PICK d \in Constraints : Room(l, d) < (n + 1) * Price(l, d)
    BY <1>1, <1>2, <1>3, ProductNat DEF Fits
  <1>15. Room(l, label) < (n + 1) * Price(l, label)
    <2>1. /\ Price(l, label) \in Nat /\ Price(l, d) \in Nat
          /\ Room(l, label) \in Int /\ Room(l, d) \in Int
      BY <1>1, <1>2
    <2>2. n * Price(l, d) <= Room(l, d)
      BY <1>3 DEF Fits
    <2>3. Price(l, d) > 0
      BY <1>14, <2>1, <2>2
    <2>4. Price(l, label) > 0
          /\ Room(l, label) * Price(l, d) <= Room(l, d) * Price(l, label)
      BY <1>3, <2>3 DEF Tightest
    <2> QED BY <1>14, <2>1, <2>3, <2>4, SmallestHeadroom
  <1>16. FilledToTheBrim'
    <2> SUFFICES ASSUME NEW k \in subset \ todo' PROVE ~Fits(k, Epsilon + 1)'
      BY <1>1 DEF FilledToTheBrim
    <2>1. CASE k = l
      <3>1. (Epsilon + 1) * Price(l, d) > Room(l, d)'
        BY <1>13, <1>14
      <3>2. Price(l, d) \in Nat /\ Room(l, d)' \in Int /\ Price(l, d)' = Price(l, d)
        BY <1>1, <1>2, <1>7, <1>10
      <3>3. (Epsilon + 1) * Price(l, d) \in Nat
        BY <1>4, <3>2, ProductNat
      <3> QED BY <2>1, <3>1, <3>2, <3>3 DEF Fits
    <2>2. CASE k # l
      <3>1. ~Fits(k, Epsilon + 1)
        BY <1>1, <2>2 DEF IInv, FilledToTheBrim
      <3>2. PICK e \in Constraints : ~((Epsilon + 1) * Price(k, e) <= Room(k, e))
        BY <3>1 DEF Fits
      <3>3. /\ Price(k, e) \in Nat /\ Room(k, e) \in Int /\ Room(k, e)' \in Int
            /\ Room(k, e)' <= Room(k, e) /\ Price(k, e)' = Price(k, e)
        BY <1>2, <1>7, <1>10
      <3>4. (Epsilon + 1) * Price(k, e) \in Nat
        BY <1>4, <3>3, ProductNat
      <3> QED BY <3>2, <3>3, <3>4 DEF Fits
    <2> QED BY <2>1, <2>2
  <1>17. BindingStillBinds'
    <2> SUFFICES ASSUME NEW c \in binding'
                 PROVE  \E k \in subset \ todo' : ((Epsilon + 1) * Price(k, c) > Room(k, c))'
      BY <1>1 DEF BindingStillBinds
    <2>1. CASE c = label
      <3>1. (Epsilon + 1) * Price(l, c) > Room(l, c)'
        BY <1>13, <1>15, <2>1
      <3> QED BY <1>1, <1>7, <2>1, <3>1
    <2>2. CASE c \in binding
      <3>1. c \in Constraints
        BY <2>2 DEF IInv, TypeOK
      <3>2. PICK k \in subset \ todo : (Epsilon + 1) * Price(k, c) > Room(k, c)
        BY <1>1, <2>2 DEF IInv, BindingStillBinds
      <3>3. /\ Price(k, c) \in Nat /\ Room(k, c) \in Int /\ Room(k, c)' \in Int
            /\ Room(k, c)' <= Room(k, c) /\ Price(k, c)' = Price(k, c)
        BY <1>2, <1>7, <1>10, <3>1
      <3>4. (Epsilon + 1) * Price(k, c) \in Nat
        BY <1>4, <3>3, ProductNat
      <3> QED BY <1>1, <3>2, <3>3, <3>4
    <2> QED BY <1>3, <2>1, <2>2
  <1>18. TypeOK'
    BY <1>1, <1>3, <1>5, <1>6 DEF IInv, TypeOK, outcome, result
  <1>19. AttemptIsSound' /\ PlansAreTryable'
    <2>1. \A k \in subset : amounts'[k] >= leg(k).floor
      BY <1>1, <1>12 DEF NeverOverdrawn, leg
    <2> QED BY <1>1, <2>1 DEF IInv, AttemptIsSound, PlansAreTryable
  <1>20. NothingRevisited' /\ EverySubsetAccounted'
    BY <1>1 DEF IInv, NothingRevisited, EverySubsetAccounted, outcome
  <1>21. BudgetsAreShared'
    <2>1. FirstBudget(above)' = FirstBudget(above)
      BY <1>1 DEF FirstBudget, Headroom
    <2> SUFFICES ASSUME NEW b \in Budgets
                 PROVE  remaining'[b] = FirstBudget(above)[b]
                            - SumFunction([k \in subset |-> amounts'[k] * Price(k, b)])
      <3>1. \A b \in Budgets, k \in subset : Price(k, b)' = Price(k, b)
        BY <1>7 DEF Constraints
      <3> QED BY <1>1, <2>1, <3>1 DEF BudgetsAreShared, Charged
    <2> DEFINE w == [k \in subset |-> amounts[k] * Price(k, b)]
               v == [k \in subset |-> amounts'[k] * Price(k, b)]
    <2>2. \A k \in subset : amounts[k] \in Nat /\ amounts'[k] \in Nat /\ Price(k, b) \in Nat
      BY <1>1, <1>2, <1>6 DEF Constraints
    <2>3. \A k \in subset : w[k] \in Int /\ v[k] \in Int /\ (k # l => v[k] = w[k])
      BY <1>6, <2>2, ProductNat
    <2>4. v[l] = w[l] + m * Price(l, b) /\ m * Price(l, b) \in Nat
      BY <1>1, <1>4, <1>6, <2>2, ProductNat
    <2>5. SumFunction(w) = SumFunctionOnSet(w, subset) /\ SumFunction(v) = SumFunctionOnSet(v, subset)
      BY DEF SumFunction
    <2>6. SumFunction(w) = Charged(b, subset)
      BY DEF Charged
    <2> HIDE DEF w, v
    <2>7. IsFiniteSet(subset)
      BY <1>1, ChargeType DEF IInv
    <2>8. SumFunctionOnSet(v, subset) = SumFunctionOnSet(w, subset) + v[l] - w[l]
          /\ SumFunctionOnSet(w, subset) \in Int
      BY <1>1, <2>3, <2>7, SumChanges, SumIsInt
    <2>9. /\ remaining[b] = FirstBudget(above)[b] - Charged(b, subset)
          /\ FirstBudget(above)[b] \in Int
      BY <1>1, FirstBudgetType DEF IInv, TypeOK, BudgetsAreShared
    <2> QED BY <1>1, <1>5, <2>3, <2>4, <2>5, <2>6, <2>8, <2>9 DEF v
  <1>22. SharedBudgetsHold' /\ StatusTellsTheBest'
    BY <1>1, PlansStay, NotDone DEF IInv
  <1> QED BY <1>12, <1>16, <1>17, <1>18, <1>19, <1>20, <1>21, <1>22 DEF IInv

-------------------------------------------------------------------------------
LEMMA InitHolds == Init => IInv
  <1> SUFFICES ASSUME Init PROVE IInv
    OBVIOUS
  <1>1. FirstBudget(FALSE) \in [Budgets -> Int]
    BY FirstBudgetType DEF Init
  <1>2. TypeOK
    BY <1>1 DEF Init, TypeOK, Subsets, Orders
  <1>3. AttemptIsSound /\ PlansAreTryable /\ NothingRevisited
    BY FS_EmptySet DEF Init, AttemptIsSound, PlansAreTryable, NothingRevisited, InWork
  <1>4. NeverOverdrawn /\ FilledToTheBrim /\ BindingStillBinds
    BY DEF Init, NeverOverdrawn, FilledToTheBrim, BindingStillBinds
  <1>5. EverySubsetAccounted
    BY DEF Init, EverySubsetAccounted, Subsets
  <1>6. BudgetsAreShared /\ SharedBudgetsHold /\ StatusTellsTheBest
    BY DEF Init, BudgetsAreShared, InWork, SharedBudgetsHold, StatusTellsTheBest
  <1> QED BY <1>2, <1>3, <1>4, <1>5, <1>6 DEF IInv

LEMMA NextKeeps == IInv /\ [Next]_vars => IInv'
  <1> SUFFICES ASSUME IInv, [Next]_vars PROVE IInv'
    OBVIOUS
  <1>1. ASSUME NEW S \in pending, SetAside(S) PROVE IInv'
    BY <1>1, SetAsideKeeps
  <1>2. ASSUME NEW S \in pending, Try(S) PROVE IInv'
    BY <1>2, TryKeeps
  <1>3. ASSUME NEW l \in todo, Floor(l) PROVE IInv'
    BY <1>3, FloorKeeps
  <1>4. ASSUME NEW l \in todo, Fill(l) PROVE IInv'
    BY <1>4, FillKeeps
  <1>5. CASE FloorsDone
    BY <1>5, FloorsDoneKeeps
  <1>6. CASE Conclude
    BY <1>6, ConcludeKeeps
  <1>7. CASE Rank
    BY <1>7, RankKeeps
  <1>8. CASE UNCHANGED vars
    <2>1. /\ UNCHANGED <<input, pending, phase, subset, above, order, todo, amounts>>
          /\ UNCHANGED <<remaining, binding, plans, feasible, blocked, unresolved>>
          /\ UNCHANGED <<infeasible, top, status>>
      BY <1>8 DEF vars, attempt, outcome, result
    <2>2. TypeOK' /\ PlansAreTryable' /\ AttemptIsSound' /\ NothingRevisited'
          /\ EverySubsetAccounted'
      BY <2>1, SameInput DEF IInv, TypeOK, PlansAreTryable, AttemptIsSound, InWork,
                             NothingRevisited, EverySubsetAccounted
    <2>3. NeverOverdrawn'
      BY <2>1 DEF IInv, NeverOverdrawn, FloorsFit, leg
    <2>4. \A k, c : Price(k, c)' = Price(k, c) /\ Room(k, c)' = Room(k, c)
      BY <2>1 DEF Price, Room, AssessmentFactor, IsCredit, leg
    <2>5. FilledToTheBrim' /\ BindingStillBinds'
      BY <2>1, <2>4 DEF IInv, FilledToTheBrim, BindingStillBinds, Fits
    <2>6. BudgetsAreShared'
      <3>1. FirstBudget(above)' = FirstBudget(above)
            /\ \A b, S : Charged(b, S)' = Charged(b, S)
        BY <2>1 DEF FirstBudget, Headroom, Charged, Price, AssessmentFactor, IsCredit, leg
      <3> QED BY <2>1, <3>1 DEF IInv, BudgetsAreShared, InWork
    <2>7. SharedBudgetsHold' /\ StatusTellsTheBest'
      <3>1. \A p : Total(p)' = Total(p) /\ Covers(p)' = Covers(p)
        BY <2>1, PlansStay
      <3> QED BY <2>1, <3>1, PlansStay DEF IInv, StatusTellsTheBest
    <2> QED BY <2>2, <2>3, <2>5, <2>6, <2>7 DEF IInv
  <1> QED BY <1>1, <1>2, <1>3, <1>4, <1>5, <1>6, <1>7, <1>8 DEF Next

\* Every reachable state of the search satisfies the inductive invariant.
THEOREM Invariant == Spec => []IInv
  BY InitHolds, NextKeeps, PTL DEF Spec

\* Every variable keeps its type, whatever is offered.
THEOREM TypeCorrect == Spec => []TypeOK
  <1>1. IInv => TypeOK
    BY DEF IInv
  <1> QED BY <1>1, Invariant, PTL

\* _allocate overdraws no shared budget and keeps every leg between its floor
\* and its limits, for any costs, caps and budgets.
THEOREM BudgetsNeverOverdrawn == Spec => []NeverOverdrawn
  <1>1. IInv => NeverOverdrawn
    BY DEF IInv
  <1> QED BY <1>1, Invariant, PTL

\* Whatever a plan lends is within the DSR budget, the cash flow, the LTV ceiling
\* and the required amount, each used once, at the rates that apply to the plan.
THEOREM BudgetsUsedOnce == Spec => []SharedBudgetsHold
  <1>1. IInv => SharedBudgetsHold
    BY DEF IInv
  <1> QED BY <1>1, Invariant, PTL

\* COMPLETE and PARTIAL speak of all plans found, and the shortlist has the plan
\* that lends most, whatever TopN and the scores are.
THEOREM StatusIsRight == Spec => []StatusTellsTheBest
  <1>1. IInv => StatusTellsTheBest
    BY DEF IInv
  <1> QED BY <1>1, Invariant, PTL

\* The filling leaves no leg room for more than Epsilon, in any fill order.
THEOREM NothingLeftToGive == Spec => []FilledToTheBrim
  <1>1. IInv => FilledToTheBrim
    BY DEF IInv
  <1> QED BY <1>1, Invariant, PTL

\* The constraints reported to the customer really are the ones that bind.
THEOREM ReportedConstraintsBind == Spec => []BindingStillBinds
  <1>1. IInv => BindingStillBinds
    BY DEF IInv
  <1> QED BY <1>1, Invariant, PTL

\* A plan combines only what the double-use table allows.
THEOREM PlansAreConfirmed == Spec => []OnlyConfirmedCombinations
  <1>1. IInv => OnlyConfirmedCombinations
    <2> SUFFICES ASSUME IInv, NEW p \in plans
                 PROVE  /\ Allowed(Lent(p))
                        /\ \A k, l \in Lent(p) : leg(k).product = leg(l).product => k = l
                        /\ HasCredit(Lent(p)) => Headroom(input.budget) # Unknown
      BY DEF OnlyConfirmedCombinations
    <2>1. Lent(p) \subseteq p.subset /\ Tryable(p.subset)
      BY DEF IInv, PlansAreTryable, Lent
    <2>2. Allowed(Lent(p)) /\ (HasCredit(Lent(p)) => Headroom(input.budget) # Unknown)
      BY <2>1 DEF Tryable, Allowed, HasCredit
    <2>3. \A k, l \in p.subset : leg(k).product = leg(l).product => k = l
      BY <2>1 DEF Tryable, Subsets, Considered, leg
    <2> QED BY <2>1, <2>2, <2>3
  <1> QED BY <1>1, Invariant, PTL

\* No subset of offers is lost or reported twice with opposite outcomes.
THEOREM NoSubsetLost == Spec => []EverySubsetAccounted
  <1>1. IInv => EverySubsetAccounted
    BY DEF IInv
  <1> QED BY <1>1, Invariant, PTL
================================================================================
