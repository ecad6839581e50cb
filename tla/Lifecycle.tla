------------------------------- MODULE Lifecycle -------------------------------
(***************************************************************************)
(* engines/lifecycle and reports/lifecycle_view.py: saving, buying and     *)
(* repaying on one time axis. Each step is a month of the tables the code  *)
(* builds: savings_schedule up to the purchase, then repayment_schedule of *)
(* every loan, merged month by month. Nothing is drawn after a purchase    *)
(* whose date is not known.                                                *)
(*                                                                         *)
(* Amounts are won; a monthly rate is a number of parts in RateScale. A    *)
(* month of the axis stands for the date add_months gives it.              *)
(***************************************************************************)
EXTENDS Money, Sequences, FiniteSetsExt, Functions

CONSTANTS LifePlans,        \* what build_lifecycle is called with
          RateScale,        \* the parts a rate is counted in
          Stride            \* _REPAYMENT_STRIDE: every how many months the chart has a point

RepaymentKind == {"EQUAL_PAYMENT", "EQUAL_PRINCIPAL", "BULLET"}
LoanLeg == [principal : Nat, rate : Nat, months : Nat \ {0}, kind : RepaymentKind]
SavingsLeg == [amount : Nat, term : Nat \ {0}, basis : {"MONTHLY", "LUMP_SUM"}]
LifePlan == [savings : SUBSET SavingsLeg, loans : Seq(LoanLeg), purchase : Nat \cup {None}]

ASSUME LifecycleAssumption ==
    /\ LifePlans \subseteq LifePlan /\ RateScale \in Nat \ {0} /\ Stride \in Nat \ {0}
    /\ \A p \in LifePlans : IsFiniteSet(p.savings)
ASSUME NoneIsNoPlan == None \notin LifePlan

VARIABLES plan,             \* the plan that is laid out
          stage,            \* idle, saving, repaying, drawn
          month,            \* the month of the table that is being filled
          contributed,      \* SavingsMonth.contributed of the last row
          balances,         \* what is left of each loan
          repaid,           \* the principal parts so far, of each loan
          curve,            \* the points of the chart: month and balance of all loans
          lifeMissing       \* LifecycleResult.missing_inputs

lifeVars == <<plan, stage, month, contributed, balances, repaid, curve, lifeMissing>>

-------------------------------------------------------------------------------
Power(base, exponent) ==
    LET power[n \in 0..exponent] == IF n = 0 THEN 1 ELSE base * power[n - 1] IN power[exponent]

\* pmt: the level payment of an annuity, in won.
Payment(leg) ==
    LET grown == Power(RateScale + leg.rate, leg.months) IN
    IF leg.rate = 0 THEN HalfUp(leg.principal, leg.months)
    ELSE HalfUp(leg.principal * leg.rate * grown,
                RateScale * (grown - Power(RateScale, leg.months)))

MonthInterest(leg, balance) == HalfUp(balance * leg.rate, RateScale)

Instalment(leg, balance) ==
    CASE leg.kind = "BULLET" -> 0
      [] leg.kind = "EQUAL_PRINCIPAL" -> HalfUp(leg.principal, leg.months)
      [] leg.kind = "EQUAL_PAYMENT" -> Larger(Payment(leg) - MonthInterest(leg, balance), 0)

\* Fault: the last instalment is like the others.
PrincipalPartUnsettled(leg, m, balance) == Smaller(Instalment(leg, balance), balance)

\* Fault: an instalment may be more than what is left.
PrincipalPartUnbounded(leg, m, balance) ==
    IF m = leg.months THEN balance ELSE Instalment(leg, balance)

\* The principal part of the m-th payment. The last one pays what is left.
PrincipalPart(leg, m, balance) ==
    Smaller(IF m = leg.months THEN balance ELSE Instalment(leg, balance), balance)

\* _merge_repayments adds up the loans that have a row for the month. A loan of
\* nothing has no rows.
Rows(leg) == IF leg.principal = 0 THEN 0 ELSE leg.months

\* contributed: deposits count at once, instalments until the term of the product.
Contributed(legs, m) ==
    SumFunction([leg \in legs |-> IF leg.basis = "LUMP_SUM" THEN leg.amount
                                  ELSE leg.amount * Smaller(m, leg.term)])

\* horizon: to the purchase, or to the last term when its date is not known.
Horizon(p) ==
    IF p.savings = {} THEN 0
    ELSE IF p.purchase # None THEN p.purchase ELSE Max({leg.term : leg \in p.savings})

-------------------------------------------------------------------------------
LifeInit ==
    /\ plan = None /\ stage = "idle" /\ month = 0 /\ contributed = None
    /\ balances = <<>> /\ repaid = <<>> /\ curve = <<>> /\ lifeMissing = {}

\* build_lifecycle: what it is given, and what is missing for the rest.
AskLifecycle(p) ==
    /\ stage = "idle"
    /\ plan' = p /\ stage' = "saving"
    /\ lifeMissing' =
        (IF p.savings = {} THEN {"savings_allocations"} ELSE {})
            \cup (IF p.loans = <<>> THEN {"loan_plan"}
                  ELSE IF p.purchase = None THEN {"purchase_date"} ELSE {})
    /\ UNCHANGED <<month, contributed, balances, repaid, curve>>

\* savings_schedule: a row.
SaveMonth ==
    /\ stage = "saving" /\ month < Horizon(plan)
    /\ month' = month + 1
    /\ contributed' = Contributed(plan.savings, month + 1)
    /\ UNCHANGED <<plan, stage, balances, repaid, curve, lifeMissing>>

\* The merged table has no row after this month.
Ended(m) == \A i \in DOMAIN plan.loans : Rows(plan.loans[i]) <= m

\* build_lifecycle_chart_input: there is a chart when the purchase is still ahead
\* and something was borrowed. A purchase later in the same month has month 0 here
\* and is left without its chart.
Charted == plan.purchase > 0 /\ ~Ended(0)

\* The loans start at the purchase, with the whole principal as the first point.
Buy ==
    /\ stage = "saving" /\ month = Horizon(plan)
    /\ lifeMissing \cap {"loan_plan", "purchase_date"} = {}
    /\ stage' = "repaying" /\ month' = 0
    /\ balances' = [i \in DOMAIN plan.loans |-> plan.loans[i].principal]
    /\ repaid' = [i \in DOMAIN plan.loans |-> 0]
    /\ curve' = IF Charted THEN <<<<0, SumFunction(balances')>>>> ELSE <<>>
    /\ UNCHANGED <<plan, contributed, lifeMissing>>

\* There is nothing to repay, or nobody knows from when.
StayWithSavings ==
    /\ stage = "saving" /\ month = Horizon(plan)
    /\ lifeMissing \cap {"loan_plan", "purchase_date"} # {}
    /\ stage' = "drawn"
    /\ UNCHANGED <<plan, month, contributed, balances, repaid, curve, lifeMissing>>

\* What the loans repay in the m-th month; those that have ended repay nothing.
Part(i, m) ==
    IF m > Rows(plan.loans[i]) THEN 0 ELSE PrincipalPart(plan.loans[i], m, balances[i])

\* Fault: only whole strides have a point.
SparsePoint(m) == m % Stride = 0

\* _repayment_points: every Stride months and the last one.
HasPoint(m) == m % Stride = 0 \/ Ended(m)

\* repayment_schedule: a row of every loan.
RepayMonth ==
    LET m == month + 1 IN
    /\ stage = "repaying" /\ ~Ended(month)
    /\ month' = m
    /\ balances' = [i \in DOMAIN plan.loans |-> balances[i] - Part(i, m)]
    /\ repaid' = [i \in DOMAIN plan.loans |-> repaid[i] + Part(i, m)]
    /\ curve' = IF Charted /\ HasPoint(m) THEN Append(curve, <<m, SumFunction(balances')>>)
                ELSE curve
    /\ UNCHANGED <<plan, stage, contributed, lifeMissing>>

FinishDrawing ==
    /\ stage = "repaying" /\ Ended(month)
    /\ stage' = "drawn"
    /\ UNCHANGED <<plan, month, contributed, balances, repaid, curve, lifeMissing>>

LifeStep == SaveMonth \/ Buy \/ StayWithSavings \/ RepayMonth \/ FinishDrawing

LifeNext == LifeStep \/ \E p \in LifePlans : AskLifecycle(p)

LifeSafety == LifeInit /\ [][LifeNext]_lifeVars

LifeSpec == LifeSafety /\ WF_lifeVars(LifeStep)

-------------------------------------------------------------------------------
Loans == IF plan = None THEN <<>> ELSE plan.loans

LifeTypeOK ==
    /\ plan \in LifePlans \cup {None}
    /\ stage \in {"idle", "saving", "repaying", "drawn"}
    /\ month \in Nat
    /\ contributed \in Nat \cup {None}
    /\ balances = <<>> \/ balances \in [DOMAIN Loans -> Nat]
    /\ repaid = <<>> \/ repaid \in [DOMAIN Loans -> Nat]
    /\ curve \in Seq(Nat \X Nat)
    /\ lifeMissing \subseteq {"savings_allocations", "loan_plan", "purchase_date"}

\* A table of repayments that is drawn to its end leaves no debt: the principal
\* parts of each loan, each rounded to the won, add up to exactly the loan, and in
\* every month before they add up to what the balance is short of it
\* (repayment_schedule: the last instalment settles what rounding has left).
LoanIsRepaidInFull ==
    \A i \in DOMAIN balances :
        /\ repaid[i] + balances[i] = plan.loans[i].principal
        /\ stage = "drawn" => balances[i] = 0

\* No month adds to a debt, and none takes more than what is left of it: the
\* balance of a loan only falls, and never below nothing.
BalancesOnlyFall ==
    [][stage = "repaying" =>
        \A i \in DOMAIN balances : 0 <= balances'[i] /\ balances'[i] <= balances[i]]_lifeVars

\* All that was borrowed.
TotalPrincipal == SumFunction([i \in DOMAIN plan.loans |-> plan.loans[i].principal])

\* The chart thins the months out and still shows the whole story: its first point is
\* the purchase with all that was borrowed, it never rises, and its last point is
\* the month in which nothing is left (_repayment_points).
CurveEndsAtZero ==
    curve # <<>> =>
        /\ curve[1] = <<0, TotalPrincipal>>
        /\ \A k \in 2..Len(curve) :
            curve[k - 1][1] < curve[k][1] /\ curve[k - 1][2] >= curve[k][2]
        /\ stage = "drawn" => curve[Len(curve)] = <<month, 0>>
===============================================================================
