----------------------------- MODULE Advice_proofs -----------------------------
(***************************************************************************)
(* Theorems about Advice and the parts that are not about products: the    *)
(* home that is bought, the table of its loans, the lists of trades, and   *)
(* what the whole keeps. Costs only grow as more is known; what is repaid  *)
(* and what is left make up each loan, so that the points of its chart     *)
(* fall to nothing; the place of a trade in a sorted list only moves back  *)
(* as others are loaded, so that turning the page misses none. Advice      *)
(* takes each step with one part while the others rest, so that each part  *)
(* keeps its own promises.                                                 *)
(***************************************************************************)
EXTENDS Advice, Products_proofs, SequenceTheorems

-------------------------------------------------------------------------------
(* Lifecycle: the table of repayments. *)

\* A rounded quotient is a number.
LEMMA HalfUpIsNat ==
    ASSUME NEW d \in Nat, NEW v \in Nat \ {0} PROVE HalfUp(d, v) \in Nat
BY DEF HalfUp

-------------------------------------------------------------------------------
\* The table of the powers of a base.
PowerTable(f, base, exponent) ==
    f = [n \in 0..exponent |-> IF n = 0 THEN 1 ELSE base * f[n - 1]]

\* Powers are natural numbers, so the table may be typed.
Powers(f, base, exponent) ==
    /\ f \in [0..exponent -> Nat]
    /\ f[0] = 1
    /\ \A n \in 1..exponent : f[n] = base * f[n - 1]

LEMMA PowersExist ==
    ASSUME NEW base \in Nat, NEW exponent \in Nat
    PROVE  \E f : Powers(f, base, exponent)
<1> DEFINE Bad == {n \in Nat : ~\E f : Powers(f, base, n)}
<1>1. SUFFICES ASSUME Bad # {} PROVE FALSE
  OBVIOUS
<1>2. PICK n \in Bad : \A k \in Bad : n <= k
  BY <1>1, LeastNumber
<1>3. n # 0
  <2>1. Powers([i \in 0..0 |-> 1], base, 0)
    BY DEF Powers
  <2> QED BY <2>1, <1>2
<1>4. n - 1 \in Nat /\ n - 1 \notin Bad
  BY <1>2, <1>3
<1>5. PICK f : Powers(f, base, n - 1)
  BY <1>4
<1> DEFINE g == [i \in 0..n |-> IF i = n THEN base * f[n - 1] ELSE f[i]]
<1>6. f[n - 1] \in Nat /\ base * f[n - 1] \in Nat
  BY <1>4, <1>5 DEF Powers
<1>7. g \in [0..n -> Nat]
  BY <1>2, <1>5, <1>6 DEF Powers
<1>8. g[0] = 1
  BY <1>2, <1>3, <1>5 DEF Powers
<1>9. ASSUME NEW i \in 1..n PROVE g[i] = base * g[i - 1]
  <2>1. CASE i = n
    BY <2>1, <1>2
  <2>2. CASE i # n
    <3>1. i \in 1..(n - 1) /\ i \in 0..n /\ i - 1 \in 0..n /\ i - 1 # n
      BY <2>2, <1>2
    <3>2. g[i] = f[i] /\ g[i - 1] = f[i - 1]
      BY <2>2, <3>1
    <3> QED BY <3>1, <3>2, <1>5 DEF Powers
  <2> QED BY <2>1, <2>2
<1> HIDE DEF g
<1>10. Powers(g, base, n)
  BY <1>7, <1>8, <1>9 DEF Powers
<1> QED BY <1>2, <1>10

\* What CHOOSE picks is the typed table.
LEMMA PowerIsInTable ==
    ASSUME NEW base \in Nat, NEW exponent \in Nat
    PROVE  \E f : Powers(f, base, exponent) /\ Power(base, exponent) = f[exponent]
<1> DEFINE c == CHOOSE f : PowerTable(f, base, exponent)
<1>1. Power(base, exponent) = c[exponent]
  BY DEF Power, PowerTable
<1>2. PICK g : Powers(g, base, exponent)
  BY PowersExist
<1>3. PowerTable(g, base, exponent)
  <2>1. ASSUME NEW n \in 0..exponent
        PROVE  g[n] = IF n = 0 THEN 1 ELSE base * g[n - 1]
    BY <1>2 DEF Powers
  <2>2. g = [n \in 0..exponent |-> g[n]]
    BY <1>2 DEF Powers
  <2> QED BY <2>1, <2>2 DEF PowerTable
<1>4. PowerTable(c, base, exponent)
  BY <1>3
<1> HIDE DEF c
<1>5. \A n \in 0..exponent : c[n] = IF n = 0 THEN 1 ELSE base * c[n - 1]
  BY <1>4 DEF PowerTable
<1>6. \A n \in 0..exponent : c[n] = g[n]
  <2> DEFINE Bad == {n \in 0..exponent : c[n] # g[n]}
  <2>1. SUFFICES ASSUME Bad # {} PROVE FALSE
    OBVIOUS
  <2>nat. Bad \subseteq Nat
    OBVIOUS
  <2> HIDE DEF Bad
  <2>least. \E n \in Bad : \A k \in Bad : n <= k
    BY <2>1, <2>nat, LeastNumber
  <2> USE DEF Bad
  <2>2. PICK n \in Bad : \A k \in Bad : n <= k
    BY <2>least
  <2>3. n # 0
    BY <1>2, <1>5, <2>2 DEF Powers
  <2>4. n \in 1..exponent /\ n - 1 \in 0..exponent /\ ~(n <= n - 1)
    BY <2>2, <2>3
  <2>5. c[n - 1] = g[n - 1]
    BY <2>2, <2>4
  <2>6. c[n] = base * c[n - 1] /\ g[n] = base * g[n - 1]
    BY <1>2, <1>5, <2>3, <2>4 DEF Powers
  <2> QED BY <2>2, <2>5, <2>6
<1> QED BY <1>1, <1>2, <1>6

\* A larger base has the larger power.
LEMMA LargerBaseLargerPower ==
    ASSUME NEW R \in Nat \ {0}, NEW r \in Nat \ {0}, NEW n \in Nat \ {0}
    PROVE  /\ Power(R + r, n) \in Nat /\ Power(R, n) \in Nat
           /\ Power(R + r, n) > Power(R, n)
<1>1. PICK f : Powers(f, R + r, n) /\ Power(R + r, n) = f[n]
  BY PowerIsInTable
<1>2. PICK g : Powers(g, R, n) /\ Power(R, n) = g[n]
  BY PowerIsInTable
<1>3. \A k \in 1..n : f[k] > g[k]
  <2> DEFINE Bad == {k \in 1..n : ~(f[k] > g[k])}
  <2>1. SUFFICES ASSUME Bad # {} PROVE FALSE
    OBVIOUS
  <2>nat. Bad \subseteq Nat
    OBVIOUS
  <2> HIDE DEF Bad
  <2>least. \E k \in Bad : \A j \in Bad : k <= j
    BY <2>1, <2>nat, LeastNumber
  <2> USE DEF Bad
  <2>2. PICK k \in Bad : \A j \in Bad : k <= j
    BY <2>least
  <2>3. f[k - 1] \in Nat /\ g[k - 1] \in Nat
        /\ f[k] = (R + r) * f[k - 1] /\ g[k] = R * g[k - 1]
    BY <1>1, <1>2, <2>2 DEF Powers
  <2>4. CASE k = 1
    BY <1>1, <1>2, <2>2, <2>3, <2>4 DEF Powers
  <2>5. CASE k # 1
    <3>1. k - 1 \in 1..n /\ ~(k <= k - 1)
      BY <2>2, <2>5
    <3>2. f[k - 1] > g[k - 1]
      BY <2>2, <3>1
    <3>3. (R + r) * f[k - 1] > R * g[k - 1]
      BY <2>3, <3>2
    <3> QED BY <2>2, <2>3, <3>3
  <2> QED BY <2>4, <2>5
<1>4. f[n] \in Nat /\ g[n] \in Nat
  BY <1>1, <1>2 DEF Powers
<1> QED BY <1>1, <1>2, <1>3, <1>4

-------------------------------------------------------------------------------
LEMMA PaymentIsNat == ASSUME NEW leg \in LoanLeg PROVE Payment(leg) \in Nat
<1> DEFINE grown == Power(RateScale + leg.rate, leg.months)
           still == Power(RateScale, leg.months)
<1>1. /\ leg.principal \in Nat /\ leg.rate \in Nat /\ leg.months \in Nat \ {0}
      /\ RateScale \in Nat \ {0}
  BY LifecycleAssumption DEF LoanLeg
<1>2. CASE leg.rate = 0
  BY <1>1, <1>2, HalfUpIsNat DEF Payment
<1>3. CASE leg.rate # 0
  <2>1. grown \in Nat /\ still \in Nat /\ grown > still
    BY <1>1, <1>3, LargerBaseLargerPower
  <2> HIDE DEF grown, still
  <2>2. leg.principal * leg.rate * grown \in Nat
    BY <1>1, <2>1
  <2>3. grown - still \in Nat \ {0}
    BY <2>1
  <2>4. RateScale * (grown - still) \in Nat \ {0}
    BY <1>1, <2>3
  <2>5. Payment(leg) = HalfUp(leg.principal * leg.rate * grown, RateScale * (grown - still))
    BY <1>3 DEF Payment, grown, still
  <2> QED BY <2>2, <2>4, <2>5, HalfUpIsNat
<1> QED BY <1>2, <1>3

LEMMA InstalmentIsNat ==
    ASSUME NEW leg \in LoanLeg, NEW balance \in Nat PROVE Instalment(leg, balance) \in Nat
<1>1. /\ leg.principal \in Nat /\ leg.rate \in Nat /\ leg.months \in Nat \ {0}
      /\ RateScale \in Nat \ {0} /\ leg.kind \in RepaymentKind
  BY LifecycleAssumption DEF LoanLeg
<1>2. MonthInterest(leg, balance) \in Nat
  <2>1. balance * leg.rate \in Nat
    BY <1>1
  <2> QED BY <1>1, <2>1, HalfUpIsNat DEF MonthInterest
<1>3. Payment(leg) \in Nat
  BY PaymentIsNat
<1>4. HalfUp(leg.principal, leg.months) \in Nat
  BY <1>1, HalfUpIsNat
<1> QED BY <1>1, <1>2, <1>3, <1>4 DEF Instalment, RepaymentKind, Larger

\* A payment takes something between nothing and what is left, the last one all.
LEMMA PartBounds ==
    ASSUME NEW leg \in LoanLeg, NEW balance \in Nat, NEW m
    PROVE  /\ PrincipalPart(leg, m, balance) \in Nat
           /\ PrincipalPart(leg, m, balance) <= balance
           /\ m = leg.months => PrincipalPart(leg, m, balance) = balance
BY InstalmentIsNat DEF PrincipalPart, Smaller

-------------------------------------------------------------------------------
\* The inductive invariant: what is repaid and what is left make up each loan,
\* and a loan past its last row is repaid.
Settled(i) == month >= Rows(plan.loans[i]) => balances[i] = 0

LifeInv ==
    /\ month \in Nat
    /\ stage \in {"idle", "saving", "repaying", "drawn"}
    /\ stage # "idle" => plan \in LifePlans
    /\ stage \in {"idle", "saving"} => balances = <<>>
    /\ stage = "repaying" =>
        /\ DOMAIN balances = DOMAIN plan.loans /\ DOMAIN repaid = DOMAIN plan.loans
        /\ \A i \in DOMAIN plan.loans : Settled(i)
    /\ stage = "drawn" => \A i \in DOMAIN balances : balances[i] = 0
    /\ \A i \in DOMAIN balances :
        /\ balances[i] \in Nat /\ repaid[i] \in Nat
        /\ repaid[i] + balances[i] = plan.loans[i].principal

LEMMA LegOfPlan ==
    ASSUME plan \in LifePlans, NEW i \in DOMAIN plan.loans PROVE plan.loans[i] \in LoanLeg
BY LifecycleAssumption DEF LifePlan

\* What a month takes off a loan.
LEMMA PartOfMonth ==
    ASSUME LifeInv, stage = "repaying", NEW i \in DOMAIN plan.loans
    PROVE  /\ Part(i, month + 1) \in Nat /\ Part(i, month + 1) <= balances[i]
           /\ month + 1 >= Rows(plan.loans[i]) => Part(i, month + 1) = balances[i]
<1> DEFINE leg == plan.loans[i]
<1>1. leg \in LoanLeg /\ balances[i] \in Nat /\ Settled(i) /\ month \in Nat
  BY LegOfPlan DEF LifeInv
<1>2. Rows(leg) \in Nat /\ (Rows(leg) = leg.months \/ Rows(leg) = 0)
  BY <1>1 DEF Rows, LoanLeg
<1>3. CASE month + 1 > Rows(leg)
  BY <1>1, <1>2, <1>3 DEF Part, Settled
<1>4. CASE ~(month + 1 > Rows(leg))
  <2>1. Part(i, month + 1) = PrincipalPart(leg, month + 1, balances[i])
    BY <1>4 DEF Part
  <2>2. month + 1 >= Rows(leg) => month + 1 = leg.months
    BY <1>1, <1>2, <1>4
  <2> QED BY <1>1, <2>1, <2>2, PartBounds
<1> QED BY <1>3, <1>4

LEMMA LifeInvHolds == LifeSafety => []LifeInv
<1>1. LifeInit => LifeInv
  BY DEF LifeInit, LifeInv
<1>2. LifeInv /\ [LifeNext]_lifeVars => LifeInv'
  <2> SUFFICES ASSUME LifeInv, [LifeNext]_lifeVars PROVE LifeInv'
    OBVIOUS
  <2>1. ASSUME NEW p \in LifePlans, AskLifecycle(p) PROVE LifeInv'
    BY <2>1 DEF AskLifecycle, LifeInv, Settled
  <2>2. CASE SaveMonth
    BY <2>2 DEF SaveMonth, LifeInv, Settled
  <2>3. CASE Buy
    <3>1. plan \in LifePlans /\ plan' = plan /\ stage' = "repaying" /\ month' = 0
      BY <2>3 DEF Buy, LifeInv
    <3>2. /\ balances' = [i \in DOMAIN plan.loans |-> plan.loans[i].principal]
          /\ repaid' = [i \in DOMAIN plan.loans |-> 0]
      BY <2>3 DEF Buy
    <3>3. ASSUME NEW i \in DOMAIN plan.loans
          PROVE  /\ balances'[i] = plan.loans[i].principal /\ repaid'[i] = 0
                 /\ plan.loans[i].principal \in Nat /\ Settled(i)'
      <4>1. /\ balances'[i] = plan.loans[i].principal /\ repaid'[i] = 0
            /\ plan.loans[i] \in LoanLeg
        BY <3>1, <3>2, LegOfPlan
      <4> QED BY <3>1, <4>1 DEF Settled, Rows, LoanLeg
    <3>4. DOMAIN balances' = DOMAIN plan.loans /\ DOMAIN repaid' = DOMAIN plan.loans
      BY <3>2
    <3>5. ASSUME NEW i \in DOMAIN balances'
          PROVE  /\ balances'[i] \in Nat /\ repaid'[i] \in Nat
                 /\ repaid'[i] + balances'[i] = plan'.loans[i].principal
      BY <3>1, <3>3, <3>4
    <3> QED BY <3>1, <3>3, <3>4, <3>5 DEF LifeInv
  <2>4. CASE StayWithSavings
    BY <2>4 DEF StayWithSavings, LifeInv, Settled
  <2>5. CASE RepayMonth
    <3>1. /\ stage = "repaying" /\ stage' = "repaying" /\ plan' = plan /\ month' = month + 1
          /\ balances' = [i \in DOMAIN plan.loans |-> balances[i] - Part(i, month + 1)]
          /\ repaid' = [i \in DOMAIN plan.loans |-> repaid[i] + Part(i, month + 1)]
      BY <2>5 DEF RepayMonth
    <3>2. plan \in LifePlans /\ month \in Nat
          /\ DOMAIN balances = DOMAIN plan.loans
      BY <3>1 DEF LifeInv
    <3>3. ASSUME NEW i \in DOMAIN plan.loans
          PROVE  /\ balances'[i] \in Nat /\ repaid'[i] \in Nat
                 /\ repaid'[i] + balances'[i] = plan.loans[i].principal
                 /\ Settled(i)'
      <4>1. /\ balances[i] \in Nat /\ repaid[i] \in Nat
            /\ repaid[i] + balances[i] = plan.loans[i].principal
        BY <3>2 DEF LifeInv
      <4>2. /\ balances'[i] = balances[i] - Part(i, month + 1)
            /\ repaid'[i] = repaid[i] + Part(i, month + 1)
        BY <3>1
      <4>3. /\ Part(i, month + 1) \in Nat /\ Part(i, month + 1) <= balances[i]
            /\ month + 1 >= Rows(plan.loans[i]) => Part(i, month + 1) = balances[i]
        BY <3>1, PartOfMonth
      <4>4. Settled(i)'
        BY <3>1, <4>1, <4>2, <4>3 DEF Settled
      <4>5. plan.loans[i].principal \in Nat
        BY <3>2, LegOfPlan DEF LoanLeg
      <4> QED BY <4>1, <4>2, <4>3, <4>4, <4>5
    <3>4. DOMAIN balances' = DOMAIN plan.loans /\ DOMAIN repaid' = DOMAIN plan.loans
      BY <3>1
    <3>5. ASSUME NEW i \in DOMAIN balances'
          PROVE  /\ balances'[i] \in Nat /\ repaid'[i] \in Nat
                 /\ repaid'[i] + balances'[i] = plan'.loans[i].principal
      BY <3>1, <3>3, <3>4
    <3>6. plan' \in LifePlans /\ stage' = "repaying" /\ month' \in Nat
      BY <3>1, <3>2
    <3>7. DOMAIN plan'.loans = DOMAIN plan.loans /\ \A i \in DOMAIN plan.loans : Settled(i)'
      BY <3>1, <3>3
    <3> QED BY <3>4, <3>5, <3>6, <3>7 DEF LifeInv
  <2>6. CASE FinishDrawing
    <3>1. /\ stage = "repaying" /\ stage' = "drawn" /\ Ended(month)
          /\ UNCHANGED <<plan, month, balances, repaid>>
      BY <2>6 DEF FinishDrawing
    <3>2. ASSUME NEW i \in DOMAIN balances PROVE balances[i] = 0
      <4>1. i \in DOMAIN plan.loans /\ Settled(i) /\ month \in Nat /\ plan \in LifePlans
        BY <3>1 DEF LifeInv
      <4>2. Rows(plan.loans[i]) <= month /\ Rows(plan.loans[i]) \in Nat
        BY <3>1, <4>1, LegOfPlan DEF Ended, Rows, LoanLeg
      <4> QED BY <4>1, <4>2 DEF Settled
    <3> QED BY <3>1, <3>2 DEF LifeInv, Settled
  <2>7. CASE UNCHANGED lifeVars
    BY <2>7 DEF lifeVars, LifeInv, Settled
  <2> QED BY <2>1, <2>2, <2>3, <2>4, <2>5, <2>6, <2>7 DEF LifeNext, LifeStep
<1> QED BY <1>1, <1>2, PTL DEF LifeSafety

\* The table of repayments leaves no debt (LoanIsRepaidInFull), whatever rounding
\* does on the way: for every plan, rate and term.
THEOREM RepaidInFull == LifeSafety => []LoanIsRepaidInFull
<1>1. LifeInv => LoanIsRepaidInFull
  BY DEF LifeInv, LoanIsRepaidInFull
<1> QED BY <1>1, LifeInvHolds, PTL

\* No month adds to a debt or takes more than is left (BalancesOnlyFall).
THEOREM OnlyFalling == LifeSafety => BalancesOnlyFall
<1>1. LifeInv /\ [LifeNext]_lifeVars =>
        [stage = "repaying" =>
            \A i \in DOMAIN balances : 0 <= balances'[i] /\ balances'[i] <= balances[i]]_lifeVars
  <2> SUFFICES ASSUME LifeInv, [LifeNext]_lifeVars, stage = "repaying",
                      NEW i \in DOMAIN balances
               PROVE  0 <= balances'[i] /\ balances'[i] <= balances[i]
    OBVIOUS
  <2>1. balances[i] \in Nat /\ i \in DOMAIN plan.loans
    BY DEF LifeInv
  <2>2. CASE RepayMonth
    <3>1. balances'[i] = balances[i] - Part(i, month + 1)
      BY <2>1, <2>2 DEF RepayMonth
    <3>2. Part(i, month + 1) \in Nat /\ Part(i, month + 1) <= balances[i]
      BY <2>1, PartOfMonth
    <3> QED BY <2>1, <3>1, <3>2
  <2>3. CASE UNCHANGED balances
    BY <2>1, <2>3
  <2>4. RepayMonth \/ UNCHANGED balances
    BY DEF LifeNext, LifeStep, AskLifecycle, SaveMonth, Buy, StayWithSavings,
           FinishDrawing, lifeVars
  <2> QED BY <2>2, <2>3, <2>4
<1> QED BY <1>1, LifeInvHolds, PTL DEF LifeSafety, BalancesOnlyFall

-------------------------------------------------------------------------------
(* Lifecycle: the savings before the purchase, and the chart after it. *)

LEMMA PlanTyped ==
    ASSUME NEW p \in LifePlans
    PROVE  /\ p.savings \subseteq SavingsLeg /\ IsFiniteSet(p.savings)
           /\ p.loans \in Seq(LoanLeg) /\ IsFiniteSet(DOMAIN p.loans)
           /\ p.purchase \in Nat \cup {None} /\ p # None
<1>1. /\ p.savings \subseteq SavingsLeg /\ IsFiniteSet(p.savings)
      /\ p.loans \in Seq(LoanLeg) /\ p.purchase \in Nat \cup {None} /\ p # None
  BY LifecycleAssumption, NoneIsNoPlan DEF LifePlan
<1>2. DOMAIN p.loans = 1..Len(p.loans) /\ Len(p.loans) \in Nat
  BY <1>1
<1>3. IsFiniteSet(1..Len(p.loans))
  BY <1>2, FS_Interval
<1> QED BY <1>1, <1>2, <1>3

LEMMA ContributedIsNat ==
    ASSUME NEW legs, IsFiniteSet(legs), legs \subseteq SavingsLeg, NEW m \in Nat
    PROVE  Contributed(legs, m) \in Nat
<1> DEFINE paid == [leg \in legs |-> IF leg.basis = "LUMP_SUM" THEN leg.amount
                                     ELSE leg.amount * Smaller(m, leg.term)]
<1>1. ASSUME NEW leg \in legs PROVE paid[leg] \in Nat
  <2>1. leg.amount \in Nat /\ leg.term \in Nat
    BY DEF SavingsLeg
  <2>2. Smaller(m, leg.term) \in Nat
    BY <2>1 DEF Smaller
  <2>3. leg.amount * Smaller(m, leg.term) \in Nat
    BY <2>1, <2>2
  <2> QED BY <2>1, <2>3
<1>2. Contributed(legs, m) = SumFunctionOnSet(paid, legs)
  BY DEF Contributed, SumFunction
<1> HIDE DEF paid
<1> QED BY <1>1, <1>2, SumIsNat

\* What all loans together still owe.
LEMMA OwedIsNat ==
    ASSUME NEW X, IsFiniteSet(X), NEW b \in [X -> Nat] PROVE SumFunction(b) \in Nat
<1>1. SumFunction(b) = SumFunctionOnSet(b, X) /\ \A i \in X : b[i] \in Nat
  BY DEF SumFunction
<1> QED BY <1>1, SumIsNat

LEMMA OwedFalls ==
    ASSUME NEW X, IsFiniteSet(X), NEW b \in [X -> Nat], NEW c \in [X -> Nat],
           \A i \in X : c[i] <= b[i]
    PROVE  SumFunction(c) <= SumFunction(b)
<1>1. SumFunction(b) = SumFunctionOnSet(b, X) /\ SumFunction(c) = SumFunctionOnSet(c, X)
  BY DEF SumFunction
<1>2. \A i \in X : c[i] \in Int /\ b[i] \in Int /\ c[i] <= b[i]
  OBVIOUS
<1> QED BY <1>1, <1>2, SumMonotone

LEMMA NothingOwed ==
    ASSUME NEW X, IsFiniteSet(X), NEW b \in [X -> Nat], \A i \in X : b[i] = 0
    PROVE  SumFunction(b) = 0
<1>1. SumFunction(b) = SumFunctionOnSet(b, X)
  BY DEF SumFunction
<1>2. (\A i \in X : b[i] \in Int) /\ \A i \in X \ {} : b[i] = 0
  OBVIOUS
<1>3. SumFunctionOnSet(b, {}) = SumFunctionOnSet(b, X)
  BY <1>2, SumDropsZeros
<1> QED BY <1>1, <1>3, SumEmpty

\* The points so far: each later and none higher than the one before.
PointsFall ==
    \A k \in 2..Len(curve) :
        curve[k - 1][1] < curve[k][1] /\ curve[k - 1][2] >= curve[k][2]

LastPoint == curve[Len(curve)]

\* The last point lies before what is owed now, and it is this month's when the tables
\* have come to their end.
ChartInv ==
    /\ LifeTypeOK
    /\ stage = "idle" => plan = None
    /\ stage \in {"idle", "saving"} => balances = <<>> /\ repaid = <<>> /\ curve = <<>>
    /\ PointsFall
    /\ curve # <<>> => Charted /\ curve[1] = <<0, TotalPrincipal>>
    /\ stage = "repaying" /\ Charted => curve # <<>>
    /\ stage = "repaying" /\ curve # <<>> =>
        /\ LastPoint[1] <= month /\ LastPoint[2] >= SumFunction(balances)
        /\ Ended(month) => LastPoint = <<month, SumFunction(balances)>>
    /\ stage = "drawn" /\ curve # <<>> => LastPoint = <<month, 0>>

\* What is owed while the loans are repaid.
LEMMA OwedTyped ==
    ASSUME LifeInv, LifeTypeOK, stage = "repaying"
    PROVE  /\ plan \in LifePlans /\ IsFiniteSet(DOMAIN plan.loans) /\ Loans = plan.loans
           /\ balances \in [DOMAIN plan.loans -> Nat] /\ repaid \in [DOMAIN plan.loans -> Nat]
<1>1. plan \in LifePlans
  BY DEF LifeInv
<1>2. IsFiniteSet(DOMAIN plan.loans) /\ plan # None
  BY <1>1, PlanTyped
<1>3. DOMAIN balances = DOMAIN plan.loans /\ DOMAIN repaid = DOMAIN plan.loans
  BY DEF LifeInv
<1>4. Loans = plan.loans
  BY <1>2 DEF Loans
<1> DEFINE X == DOMAIN plan.loans
<1>5. ASSUME NEW b, b = <<>> \/ b \in [X -> Nat], DOMAIN b = X PROVE b \in [X -> Nat]
  <2>1. CASE b = <<>>
    <3>1. X = {}
      BY <1>5, <2>1
    <3> QED BY <2>1, <3>1
  <2> QED BY <1>5, <2>1
<1>6. (balances = <<>> \/ balances \in [X -> Nat]) /\ (repaid = <<>> \/ repaid \in [X -> Nat])
  BY <1>4 DEF LifeTypeOK
<1>7. balances \in [X -> Nat]
  <2> HIDE DEF X
  <2> QED BY <1>3, <1>5, <1>6 DEF X
<1>8. repaid \in [X -> Nat]
  <2> HIDE DEF X
  <2> QED BY <1>3, <1>5, <1>6 DEF X
<1> QED BY <1>1, <1>2, <1>4, <1>7, <1>8

LEMMA ChartInitially == LifeInit => ChartInv
  BY DEF LifeInit, ChartInv, LifeTypeOK, PointsFall

LEMMA BuyKeepsChart == ASSUME LifeInv, ChartInv, Buy PROVE ChartInv'
<1>1. /\ stage = "saving" /\ stage' = "repaying" /\ month' = 0
      /\ UNCHANGED <<plan, contributed, lifeMissing>>
      /\ balances' = [i \in DOMAIN plan.loans |-> plan.loans[i].principal]
      /\ repaid' = [i \in DOMAIN plan.loans |-> 0]
      /\ curve' = IF Charted THEN <<<<0, SumFunction(balances')>>>> ELSE <<>>
  BY DEF Buy
<1>2. plan \in LifePlans /\ LifeTypeOK
  BY <1>1 DEF LifeInv, ChartInv
<1>3. plan # None /\ IsFiniteSet(DOMAIN plan.loans) /\ Loans = plan.loans /\ Loans' = plan.loans
  BY <1>1, <1>2, PlanTyped DEF Loans
<1>4. \A i \in DOMAIN plan.loans : plan.loans[i].principal \in Nat
  BY <1>2, LegOfPlan DEF LoanLeg
<1>5. /\ balances' \in [DOMAIN plan.loans -> Nat] /\ repaid' \in [DOMAIN plan.loans -> Nat]
  BY <1>1, <1>4
<1>6. SumFunction(balances') \in Nat
  BY <1>3, <1>5, OwedIsNat
<1> DEFINE owed == SumFunction(balances')
<1>7. /\ curve' = <<>> \/ curve' = <<<<0, owed>>>>
      /\ curve' # <<>> => Charted /\ curve' = <<<<0, owed>>>>
  BY <1>1
<1>8. (Charted' <=> Charted) /\ TotalPrincipal' = owed /\ (Charted => curve' # <<>>)
  BY <1>1 DEF Charted, Ended, TotalPrincipal
<1> HIDE DEF owed
<1>9. owed \in Nat
  BY <1>6 DEF owed
<1>10. curve' \in Seq(Nat \X Nat) /\ PointsFall'
  <2>1. curve' \in Seq(Nat \X Nat)
    <3> DEFINE point == <<0, owed>>
    <3>1. point \in Nat \X Nat
      BY <1>9
    <3>2. curve' = <<>> \/ curve' = <<point>>
      BY <1>7
    <3>3. \A S : <<>> \in Seq(S) /\ \A x \in S : <<x>> \in Seq(S)
      OBVIOUS
    <3> HIDE DEF point
    <3>4. <<>> \in Seq(Nat \X Nat) /\ <<point>> \in Seq(Nat \X Nat)
      BY <3>1, <3>3
    <3> QED BY <3>2, <3>4
  <2>2. Len(curve') = 0 \/ Len(curve') = 1
    <3>1. \A x : Len(<<x>>) = 1
      OBVIOUS
    <3>2. curve' = <<>> => Len(curve') = 0
      OBVIOUS
    <3> QED BY <1>7, <3>1, <3>2
  <2>3. 2..Len(curve') = {}
    BY <2>2
  <2> QED BY <2>1, <2>3 DEF PointsFall
<1>11. curve' # <<>> => LastPoint' = <<0, owed>> /\ curve'[1] = <<0, owed>>
  BY <1>7 DEF LastPoint
<1>12. LifeTypeOK'
  BY <1>1, <1>2, <1>3, <1>5, <1>10 DEF LifeTypeOK
<1>13. curve' # <<>> => /\ LastPoint'[1] <= month' /\ LastPoint'[2] >= SumFunction(balances')
                        /\ LastPoint' = <<month', SumFunction(balances')>>
  BY <1>1, <1>9, <1>11 DEF owed
<1> QED BY <1>1, <1>7, <1>8, <1>10, <1>11, <1>12, <1>13 DEF ChartInv

LEMMA RepayKeepsChart == ASSUME LifeInv, ChartInv, RepayMonth PROVE ChartInv'
<1> DEFINE m == month + 1
           owed == SumFunction(balances')
<1>1. /\ stage = "repaying" /\ stage' = "repaying" /\ month' = m /\ ~Ended(month)
      /\ UNCHANGED <<plan, contributed, lifeMissing>>
      /\ balances' = [i \in DOMAIN plan.loans |-> balances[i] - Part(i, m)]
      /\ repaid' = [i \in DOMAIN plan.loans |-> repaid[i] + Part(i, m)]
      /\ curve' = IF Charted /\ HasPoint(m) THEN Append(curve, <<m, owed>>) ELSE curve
  BY DEF RepayMonth
<1>2. /\ plan \in LifePlans /\ IsFiniteSet(DOMAIN plan.loans) /\ Loans = plan.loans
      /\ balances \in [DOMAIN plan.loans -> Nat] /\ repaid \in [DOMAIN plan.loans -> Nat]
      /\ LifeTypeOK /\ month \in Nat
  BY <1>1, OwedTyped DEF ChartInv, LifeInv
<1>3. \A i \in DOMAIN plan.loans : Part(i, m) \in Nat /\ Part(i, m) <= balances[i]
  BY <1>1, PartOfMonth
<1>4. /\ balances' \in [DOMAIN plan.loans -> Nat] /\ repaid' \in [DOMAIN plan.loans -> Nat]
      /\ \A i \in DOMAIN plan.loans : balances'[i] <= balances[i]
  BY <1>1, <1>2, <1>3
<1>5. owed \in Nat /\ SumFunction(balances) \in Nat /\ owed <= SumFunction(balances)
  BY <1>2, <1>4, OwedIsNat, OwedFalls
<1>6. /\ Loans' = plan.loans /\ (Charted' <=> Charted) /\ (Ended(month)' <=> Ended(m))
      /\ TotalPrincipal' = TotalPrincipal
  BY <1>1, <1>2 DEF Loans, Charted, Ended, TotalPrincipal
<1>7. /\ curve \in Seq(Nat \X Nat) /\ PointsFall /\ (curve # <<>> <=> Charted)
      /\ curve # <<>> => curve[1] = <<0, TotalPrincipal>>
  BY <1>1, <1>2 DEF LifeTypeOK, ChartInv
<1>8. curve # <<>> => /\ LastPoint[1] <= month /\ LastPoint[2] >= SumFunction(balances)
                      /\ LastPoint \in Nat \X Nat
  BY <1>1, <1>7 DEF ChartInv, LastPoint
<1> HIDE DEF m, owed
<1>9. m \in Nat /\ m > month
  BY <1>2 DEF m
<1>10. CASE Charted /\ HasPoint(m)
  <2>1. curve' = Append(curve, <<m, owed>>)
    BY <1>1, <1>10
  <2>2. /\ curve' \in Seq(Nat \X Nat) /\ curve' # <<>> /\ Len(curve') = Len(curve) + 1
        /\ \A k \in 1..Len(curve) : curve'[k] = curve[k]
        /\ curve'[Len(curve) + 1] = <<m, owed>>
    BY <1>5, <1>7, <1>9, <2>1
  <2>3. LastPoint' = <<m, owed>>
    BY <2>2 DEF LastPoint
  <2>4. PointsFall'
    <3> SUFFICES ASSUME NEW k \in 2..Len(curve')
                 PROVE  curve'[k - 1][1] < curve'[k][1] /\ curve'[k - 1][2] >= curve'[k][2]
      BY DEF PointsFall
    <3>1. Len(curve) \in Nat
      BY <1>7
    <3>2. CASE k = Len(curve) + 1
      <4>1. k - 1 = Len(curve) /\ k - 1 \in 1..Len(curve)
        BY <2>2, <3>1, <3>2
      <4>2. curve # <<>>
        BY <3>1, <4>1
      <4>3. curve'[k - 1] = curve[k - 1] /\ curve'[k] = <<m, owed>>
        BY <2>2, <3>2, <4>1
      <4>4. curve'[k - 1] = LastPoint
        BY <4>1, <4>3 DEF LastPoint
      <4>5. /\ LastPoint[1] \in Nat /\ LastPoint[2] \in Nat
            /\ LastPoint[1] < m /\ LastPoint[2] >= owed
        BY <1>2, <1>5, <1>8, <1>9, <4>2
      <4> QED BY <4>3, <4>4, <4>5
    <3>3. CASE k # Len(curve) + 1
      <4>1. k \in 2..Len(curve) /\ k \in 1..Len(curve) /\ k - 1 \in 1..Len(curve)
        BY <2>2, <3>1, <3>3
      <4>2. curve'[k - 1] = curve[k - 1] /\ curve'[k] = curve[k]
        BY <2>2, <4>1
      <4> QED BY <1>7, <4>1, <4>2 DEF PointsFall
    <3> QED BY <3>2, <3>3
  <2>5. LifeTypeOK' /\ curve'[1] = <<0, TotalPrincipal'>>
    <3>1. curve # <<>> /\ 1 \in 1..Len(curve)
      BY <1>7, <1>10
    <3>2. curve'[1] = <<0, TotalPrincipal'>>
      BY <1>6, <1>7, <2>2, <3>1
    <3> QED BY <1>1, <1>2, <1>4, <1>6, <1>9, <2>2, <3>2 DEF LifeTypeOK
  <2>6. /\ LastPoint'[1] <= month' /\ LastPoint'[2] >= SumFunction(balances')
        /\ LastPoint' = <<month', SumFunction(balances')>>
    BY <1>1, <1>5, <1>9, <2>3 DEF owed
  <2> QED BY <1>1, <1>6, <1>10, <2>2, <2>4, <2>5, <2>6 DEF ChartInv
<1>11. CASE ~(Charted /\ HasPoint(m))
  <2>1. curve' = curve
    BY <1>1, <1>11
  <2>2. PointsFall' /\ LastPoint' = LastPoint
    BY <1>7, <2>1 DEF PointsFall, LastPoint
  <2>3. LifeTypeOK'
    BY <1>1, <1>2, <1>4, <1>6, <1>7, <1>9, <2>1 DEF LifeTypeOK
  <2>4. curve' # <<>> =>
            /\ LastPoint'[1] <= month' /\ LastPoint'[2] >= SumFunction(balances')
            /\ ~Ended(month)'
    <3>1. curve # <<>> => ~Ended(m)
      BY <1>7, <1>11 DEF HasPoint
    <3>2. curve # <<>> => LastPoint[1] <= m /\ LastPoint[2] >= owed
      BY <1>2, <1>5, <1>8, <1>9
    <3> QED BY <1>1, <1>6, <2>1, <2>2, <3>1, <3>2 DEF owed
  <2> QED BY <1>1, <1>6, <1>7, <2>1, <2>2, <2>3, <2>4 DEF ChartInv
<1> QED BY <1>10, <1>11

LEMMA ChartStep == LifeInv /\ ChartInv /\ [LifeNext]_lifeVars => ChartInv'
<1> SUFFICES ASSUME LifeInv, ChartInv, [LifeNext]_lifeVars PROVE ChartInv'
  OBVIOUS
<1>1. ASSUME NEW p \in LifePlans, AskLifecycle(p) PROVE ChartInv'
  <2>1. /\ stage = "idle" /\ stage' = "saving" /\ plan' = p
        /\ lifeMissing' \subseteq {"savings_allocations", "loan_plan", "purchase_date"}
        /\ UNCHANGED <<month, contributed, balances, repaid, curve>>
    BY <1>1 DEF AskLifecycle
  <2>2. balances = <<>> /\ repaid = <<>> /\ curve = <<>> /\ LifeTypeOK
    BY <2>1 DEF ChartInv
  <2> QED BY <2>1, <2>2 DEF ChartInv, LifeTypeOK, PointsFall
<1>2. CASE SaveMonth
  <2>1. /\ stage = "saving" /\ month' = month + 1
        /\ contributed' = Contributed(plan.savings, month + 1)
        /\ UNCHANGED <<plan, stage, balances, repaid, curve, lifeMissing>>
    BY <1>2 DEF SaveMonth
  <2>2. plan \in LifePlans /\ month \in Nat
    BY <2>1 DEF LifeInv
  <2>3. contributed' \in Nat
    BY <2>1, <2>2, PlanTyped, ContributedIsNat
  <2>4. balances = <<>> /\ repaid = <<>> /\ curve = <<>> /\ LifeTypeOK
    BY <2>1 DEF ChartInv
  <2> QED BY <2>1, <2>2, <2>3, <2>4 DEF ChartInv, LifeTypeOK, PointsFall
<1>3. CASE Buy
  BY <1>3, BuyKeepsChart
<1>4. CASE StayWithSavings
  <2>1. /\ stage = "saving" /\ stage' = "drawn"
        /\ UNCHANGED <<plan, month, contributed, balances, repaid, curve, lifeMissing>>
    BY <1>4 DEF StayWithSavings
  <2>2. balances = <<>> /\ repaid = <<>> /\ curve = <<>> /\ LifeTypeOK
    BY <2>1 DEF ChartInv
  <2> QED BY <2>1, <2>2 DEF ChartInv, LifeTypeOK, PointsFall
<1>5. CASE RepayMonth
  BY <1>5, RepayKeepsChart
<1>6. CASE FinishDrawing
  <2>1. /\ stage = "repaying" /\ stage' = "drawn" /\ Ended(month)
        /\ UNCHANGED <<plan, month, contributed, balances, repaid, curve, lifeMissing>>
    BY <1>6 DEF FinishDrawing
  <2>2. /\ plan \in LifePlans /\ IsFiniteSet(DOMAIN plan.loans) /\ Loans = plan.loans
        /\ balances \in [DOMAIN plan.loans -> Nat]
    BY <2>1, OwedTyped DEF ChartInv
  <2>3. \A i \in DOMAIN plan.loans : balances[i] = 0
    <3> TAKE i \in DOMAIN plan.loans
    <3>1. Settled(i) /\ month \in Nat
      BY <2>1 DEF LifeInv
    <3>2. Rows(plan.loans[i]) <= month /\ Rows(plan.loans[i]) \in Nat
      BY <2>1, <2>2, LegOfPlan DEF Ended, Rows, LoanLeg
    <3> QED BY <3>1, <3>2 DEF Settled
  <2>4. SumFunction(balances) = 0
    BY <2>2, <2>3, NothingOwed
  <2>5. curve # <<>> => LastPoint = <<month, 0>>
    BY <2>1, <2>4 DEF ChartInv
  <2>6. /\ curve # <<>> => Charted /\ curve[1] = <<0, TotalPrincipal>>
        /\ LifeTypeOK /\ PointsFall
    BY DEF ChartInv
  <2>7. /\ LastPoint' = LastPoint /\ (Charted' <=> Charted) /\ LifeTypeOK' /\ PointsFall'
        /\ TotalPrincipal' = TotalPrincipal
    BY <2>1, <2>6 DEF LastPoint, Charted, Ended, LifeTypeOK, PointsFall, Loans, TotalPrincipal
  <2> QED BY <2>1, <2>5, <2>6, <2>7 DEF ChartInv
<1>7. CASE UNCHANGED lifeVars
  <2>1. UNCHANGED <<plan, stage, month, contributed, balances, repaid, curve, lifeMissing>>
    BY <1>7 DEF lifeVars
  <2>2. /\ LastPoint' = LastPoint /\ (Charted' <=> Charted) /\ (LifeTypeOK' <=> LifeTypeOK)
        /\ (PointsFall' <=> PointsFall) /\ (Ended(month)' <=> Ended(month))
        /\ TotalPrincipal' = TotalPrincipal
    BY <2>1 DEF LastPoint, Charted, Ended, LifeTypeOK, PointsFall, Loans, TotalPrincipal
  <2> QED BY <2>1, <2>2 DEF ChartInv
<1> QED BY <1>1, <1>2, <1>3, <1>4, <1>5, <1>6, <1>7 DEF LifeNext, LifeStep

LEMMA ChartInvHolds == LifeSafety => []ChartInv
<1> QED BY LifeInvHolds, ChartInitially, ChartStep, PTL DEF LifeSafety

\* The tables of a plan stay in their types: for any loans, rates and terms the rows
\* are natural numbers.
THEOREM LifeTypeCorrect == LifeSafety => []LifeTypeOK
<1>1. ChartInv => LifeTypeOK
  BY DEF ChartInv
<1> QED BY <1>1, ChartInvHolds, PTL

\* The thinned-out chart starts at the purchase with all that was borrowed, never rises
\* and ends in the month in which nothing is left (CurveEndsAtZero), however long the
\* tables and whatever the stride.
THEOREM CurveComesToNothing == LifeSafety => []CurveEndsAtZero
<1>1. ChartInv => CurveEndsAtZero
  BY DEF ChartInv, PointsFall, LastPoint, CurveEndsAtZero
<1> QED BY <1>1, ChartInvHolds, PTL

-------------------------------------------------------------------------------
(* PropertyAffordability: the home. *)
\* Purchase costs.

ComponentsType ==
    [acquisition : Nat \cup {None}, education : Nat \cup {None}, rural : Nat \cup {None},
     brokerage : Nat \cup {None}, vat : Nat \cup {None}, registration : Nat \cup {None}]

LEMMA ProductIsNat == ASSUME NEW m \in Nat, NEW n \in Nat PROVE m * n \in Nat
  BY SMT

LEMMA RateIsNat == ASSUME NEW p \in Nat \ {0} PROVE AcquisitionTaxRate(p) \in Nat
  BY DEF AcquisitionTaxRate, HalfUp

LEMMA TaxIsNat ==
    ASSUME NEW p \in Nat \ {0}
    PROVE  AcquisitionTax(p) \in Nat /\ LocalEducationTax(p) \in Nat
<1>1. p * AcquisitionTaxRate(p) \in Nat
  BY RateIsNat, ProductIsNat
<1> DEFINE x == p * AcquisitionTaxRate(p)
<1>2. x \in Nat
  BY <1>1
<1> HIDE DEF x
<1>3. x \div 10 \in Nat /\ x \div 100 \in Nat
  BY <1>2
<1> QED BY <1>3 DEF x, AcquisitionTax, LocalEducationTax

LEMMA FeeIsNat == ASSUME NEW p \in Nat \ {0} PROVE BrokerageFee(p) \in Nat
  BY DEF BrokerageFee, Smaller

LEMMA ComponentsTyped ==
    ASSUME NEW i \in PurchaseCostInput
    PROVE  Components(i) \in ComponentsType
<1>1. i.price \in Nat \ {0} /\ i.registration \in Nat \cup {None}
  BY DEF PurchaseCostInput
<1>2. AcquisitionTax(i.price) \in Nat /\ LocalEducationTax(i.price) \in Nat
  BY <1>1, TaxIsNat
<1>3. BrokerageFee(i.price) \in Nat /\ BrokerageFee(i.price) \div 10 \in Nat
  BY <1>1, FeeIsNat
<1>4. RuralSpecialTax(i) \in Nat \cup {None}
  BY <1>1 DEF RuralSpecialTax
<1> QED BY <1>1, <1>2, <1>3, <1>4 DEF Components, ComponentsType

CostsType ==
    [status : {"COMPLETE", "PARTIAL", "UNSUPPORTED", "POLICY_OUT_OF_RANGE"}, minimum : Nat,
     total : Nat \cup {None},
     missing : SUBSET (LegalFacts \cup {"nationalScale", "registration", "purchase_cost_policy"})]

LEMMA KnownCostsIsNat ==
    ASSUME NEW c \in ComponentsType PROVE KnownCosts(c) \in Nat
  BY NoneIsNoNumber DEF KnownCosts, KnownCost, ComponentsType

LEMMA CostsTyped ==
    ASSUME NEW i \in PurchaseCostInput
    PROVE  PurchaseCosts(i) \in CostsType
<1>1. Price(i) \in Nat
  BY DEF Price, PurchaseCostInput
<1>2. KnownCosts(Components(i)) \in Nat
  BY ComponentsTyped, KnownCostsIsNat
<1>3. MissingCosts(i) \subseteq LegalFacts \cup {"nationalScale", "registration"}
  BY DEF MissingCosts, MissingFacts
<1> QED BY <1>1, <1>2, <1>3 DEF PurchaseCosts, CostsType

-------------------------------------------------------------------------------
\* An answer to a missing fact.

WithAnswer(i, f, a) == [i EXCEPT ![f] = a]

\* What SupplyCostFact asks of an answer.
Admissible(i, f, a) ==
    /\ f \in CostFacts /\ a \in AnswerTo(f)
    /\ f = "registered" => ~(a = "no" /\ i.nationalScale = "yes")
    /\ f = "nationalScale" => ~(a = "yes" /\ i.registered = "no")

LEMMA AnsweredIsInput ==
    ASSUME NEW i \in PurchaseCostInput, NEW f, NEW a, Admissible(i, f, a)
    PROVE  /\ WithAnswer(i, f, a) \in PurchaseCostInput
           /\ WithAnswer(i, f, a).asOf = i.asOf /\ WithAnswer(i, f, a).price = i.price
           /\ WithAnswer(i, f, a).area = i.area
           /\ \A x \in CostFacts : WithAnswer(i, f, a)[x] = IF x = f THEN a ELSE i[x]
<1> USE DEF WithAnswer, PurchaseCostInput, Admissible, CostFacts, LegalFacts, AnswerTo, Flag
<1>1. CASE f = "corporation" BY <1>1
<1>2. CASE f = "homes" BY <1>2
<1>3. CASE f = "registered" BY <1>3
<1>4. CASE f = "luxury" BY <1>4
<1>5. CASE f = "nationalScale" BY <1>5
<1>6. CASE f = "registration" BY <1>6
<1> QED BY <1>1, <1>2, <1>3, <1>4, <1>5, <1>6

\* A component that is known stays as it is when a missing fact becomes known.
LEMMA ComponentsKept ==
    ASSUME NEW i \in PurchaseCostInput, NEW f \in MissingCosts(i), NEW a, Admissible(i, f, a)
    PROVE  LET c == Components(i)
               d == Components(WithAnswer(i, f, a)) IN
           /\ c.acquisition # None => d.acquisition = c.acquisition
           /\ c.education # None => d.education = c.education
           /\ c.rural # None => d.rural = c.rural
           /\ c.brokerage # None => d.brokerage = c.brokerage
           /\ c.vat # None => d.vat = c.vat
           /\ c.registration # None => d.registration = c.registration
<1> DEFINE j == WithAnswer(i, f, a)
<1>1. j.price = i.price /\ j.area = i.area
  BY AnsweredIsInput
<1>2. /\ j.corporation = IF f = "corporation" THEN a ELSE i.corporation
      /\ j.homes = IF f = "homes" THEN a ELSE i.homes
      /\ j.registered = IF f = "registered" THEN a ELSE i.registered
      /\ j.luxury = IF f = "luxury" THEN a ELSE i.luxury
      /\ j.nationalScale = IF f = "nationalScale" THEN a ELSE i.nationalScale
      /\ j.registration = IF f = "registration" THEN a ELSE i.registration
  BY AnsweredIsInput DEF CostFacts, LegalFacts
<1> HIDE DEF j
<1>3. /\ f \in LegalFacts => i[f] = None
      /\ f = "registration" => i.registration = None
      /\ f = "nationalScale" => NationalScale(i) = None
  BY DEF MissingCosts, MissingFacts, LegalFacts
<1>4. None # 1
  BY NoneIsNoNumber
<1>5. Taxed(i) => /\ Taxed(j) /\ f \notin LegalFacts
  BY <1>2, <1>3 DEF Taxed, MissingFacts, Standard, LegalFacts
<1>6. NationalScale(i) # None => NationalScale(j) = NationalScale(i)
  BY <1>1, <1>2, <1>3 DEF NationalScale
<1>7. RuralSpecialTax(i) # None => RuralSpecialTax(j) = RuralSpecialTax(i)
  <2>1. RuralSpecialTax(i) # None => NationalScale(i) \in {"yes", "no"} /\ Taxed(i)
    BY DEF RuralSpecialTax
  <2> QED BY <1>1, <1>5, <1>6, <2>1, NoneIsNoFlag DEF RuralSpecialTax
<1>8. i.registered = "yes" => j.registered = "yes"
  BY <1>2, <1>3, NoneIsNoFlag DEF LegalFacts
<1>9. i.registration # None => j.registration = i.registration
  BY <1>2, <1>3
<1> QED BY <1>1, <1>5, <1>7, <1>8, <1>9 DEF Components, j

LEMMA SumGrows ==
    ASSUME NEW c \in ComponentsType, NEW d \in ComponentsType,
           c.acquisition # None => d.acquisition = c.acquisition,
           c.education # None => d.education = c.education,
           c.rural # None => d.rural = c.rural,
           c.brokerage # None => d.brokerage = c.brokerage,
           c.vat # None => d.vat = c.vat,
           c.registration # None => d.registration = c.registration
    PROVE  /\ KnownCosts(c) <= KnownCosts(d)
           /\ AllKnown(c) => AllKnown(d) /\ KnownCosts(c) = KnownCosts(d)
<1>1. \A m, n \in Nat \cup {None} : (m # None => n = m) =>
        KnownCost(m) \in Nat /\ KnownCost(n) \in Nat /\ KnownCost(m) <= KnownCost(n)
  BY NoneIsNoNumber DEF KnownCost
<1>2. KnownCosts(c) <= KnownCosts(d)
  <2> DEFINE Grows(m, n) == KnownCost(m) \in Nat /\ KnownCost(n) \in Nat /\ KnownCost(m) <= KnownCost(n)
  <2>1. /\ Grows(c.acquisition, d.acquisition) /\ Grows(c.education, d.education)
        /\ Grows(c.rural, d.rural) /\ Grows(c.brokerage, d.brokerage)
        /\ Grows(c.vat, d.vat) /\ Grows(c.registration, d.registration)
    BY <1>1 DEF ComponentsType
  <2> QED BY <2>1 DEF KnownCosts
<1>3. AllKnown(c) => AllKnown(d) /\ KnownCosts(c) = KnownCosts(d)
  BY DEF AllKnown, KnownCosts, ComponentsType
<1> QED BY <1>2, <1>3

\* estimate_purchase_costs is monotone in what is known.
CostsGrow(c, d) == d.minimum >= c.minimum /\ (c.total # None => d.total = c.total)

LEMMA CostsAreMonotone ==
    ASSUME NEW i \in PurchaseCostInput, NEW f \in PurchaseCosts(i).missing \cap CostFacts, NEW a,
           Admissible(i, f, a)
    PROVE  CostsGrow(PurchaseCosts(i), PurchaseCosts(WithAnswer(i, f, a)))
<1> DEFINE j == WithAnswer(i, f, a)
<1>1. j \in PurchaseCostInput /\ j.asOf = i.asOf /\ j.price = i.price
  BY AnsweredIsInput
<1>2. CASE ~PolicyCovers(i.asOf)
  <2>1. PurchaseCosts(i).missing = {"purchase_cost_policy"}
    BY <1>2 DEF PurchaseCosts
  <2> QED BY <2>1 DEF CostFacts, LegalFacts
<1>3. CASE PolicyCovers(i.asOf)
  <2>1. f \in MissingCosts(i)
    BY <1>3 DEF PurchaseCosts
  <2> DEFINE c == Components(i)
             d == Components(j)
  <2>2. c \in ComponentsType /\ d \in ComponentsType
    BY <1>1, ComponentsTyped
  <2>3. KnownCosts(c) <= KnownCosts(d) /\ (AllKnown(c) => AllKnown(d) /\ KnownCosts(c) = KnownCosts(d))
    BY <2>1, <2>2, ComponentsKept, SumGrows
  <2>4. KnownCosts(c) \in Nat /\ KnownCosts(d) \in Nat /\ Price(i) \in Nat /\ Price(j) = Price(i)
    BY <1>1, <2>2, KnownCostsIsNat DEF Price, PurchaseCostInput
  <2>5. PurchaseCosts(j).minimum = Price(j) + KnownCosts(d)
    BY <1>1, <1>3 DEF PurchaseCosts
  <2>6. PurchaseCosts(i).minimum = Price(i) + KnownCosts(c)
    BY <1>3 DEF PurchaseCosts
  <2>7. PurchaseCosts(i).total = (IF AllKnown(c) THEN Price(i) + KnownCosts(c) ELSE None)
    BY <1>3 DEF PurchaseCosts
  <2>8. PurchaseCosts(j).total = (IF AllKnown(d) THEN Price(j) + KnownCosts(d) ELSE None)
    BY <1>1, <1>3 DEF PurchaseCosts
  <2> HIDE DEF c, d, j
  <2>9. PurchaseCosts(j).minimum >= PurchaseCosts(i).minimum
    BY <2>3, <2>4, <2>5, <2>6
  <2>10. PurchaseCosts(i).total # None => PurchaseCosts(j).total = PurchaseCosts(i).total
    BY <2>3, <2>4, <2>7, <2>8
  <2> QED BY <2>9, <2>10 DEF CostsGrow, j
<1> QED BY <1>2, <1>3

\* Costs that are not complete name what is missing.
LEMMA MissingIsNamed ==
    ASSUME NEW i \in PurchaseCostInput, PurchaseCosts(i).status # "UNSUPPORTED",
           PurchaseCosts(i).total = None
    PROVE  PurchaseCosts(i).missing # {}
<1>1. CASE ~PolicyCovers(i.asOf)
  BY <1>1 DEF PurchaseCosts
<1>2. CASE PolicyCovers(i.asOf)
  <2> DEFINE c == Components(i)
  <2>1. PurchaseCosts(i).missing = MissingCosts(i)
    BY <1>2 DEF PurchaseCosts
  <2>2. ~(MissingFacts(i) = {} /\ ~Standard(i))
    BY <1>2 DEF PurchaseCosts
  <2>3. ~AllKnown(c)
    <3>1. Price(i) + KnownCosts(c) # None
      BY ComponentsTyped, KnownCostsIsNat, NoneIsNoNumber DEF Price, PurchaseCostInput
    <3>2. PurchaseCosts(i).total = IF AllKnown(c) THEN Price(i) + KnownCosts(c) ELSE None
      BY <1>2 DEF PurchaseCosts
    <3> HIDE DEF c
    <3> QED BY <3>1, <3>2
  <2>4. SUFFICES ASSUME MissingCosts(i) = {} PROVE FALSE
    BY <2>1
  <2>5. MissingFacts(i) = {} /\ Taxed(i)
    BY <2>2, <2>4 DEF MissingCosts, Taxed
  <2>6. i.registration # None /\ NationalScale(i) # None /\ i.registered = "yes"
    BY <2>4, <2>5 DEF MissingCosts, Taxed, Standard
  <2>7. i.price \in Nat \ {0} /\ i.registration \in Nat
    BY <2>6 DEF PurchaseCostInput
  <2>8. AcquisitionTax(i.price) \in Nat /\ LocalEducationTax(i.price) \in Nat
    BY <2>7, TaxIsNat
  <2>9. BrokerageFee(i.price) \in Nat /\ BrokerageFee(i.price) \div 10 \in Nat
    BY <2>7, FeeIsNat
  <2>10. RuralSpecialTax(i) \in Nat
    <3>1. NationalScale(i) \in {"yes", "no"}
      BY <2>6 DEF NationalScale, PurchaseCostInput, Flag
    <3> QED BY <2>5, <2>7, <3>1 DEF RuralSpecialTax
  <2>11. AllKnown(c)
    BY <2>5, <2>6, <2>7, <2>8, <2>9, <2>10, NoneIsNoNumber DEF Components, AllKnown
  <2> QED BY <2>3, <2>11
<1> QED BY <1>1, <1>2

-------------------------------------------------------------------------------
\* The judgement.

LEMMA LimitsTyped ==
    ASSUME NEW h \in HomeRequest, h.status # None, RegionRatio(h) # None
    PROVE  /\ RegionRatio(h) \in Nat
           /\ LtvLimit(h.costs.price, ZoneOf(h), h.region.capital, RegionRatio(h), RulesDay(h))
                \in Nat
<1>1. h.costs.price \in Nat
  BY DEF HomeRequest, PurchaseCostInput
<1>2. RegionRatio(h) \in Nat
  <2>1. h.status \in HousingStatus
    BY DEF HomeRequest
  <2>2. \A zone, status : status \in HousingStatus =>
            \A row \in LtvHistory(zone, status) : row.ratio \in Nat
    <3> SUFFICES ASSUME NEW zone, NEW status \in HousingStatus, NEW row \in LtvHistory(zone, status)
                 PROVE  row.ratio \in Nat
      OBVIOUS
    <3>1. CASE status \in {"NO_HOUSE", "ONE_HOUSE_DISPOSAL_PLEDGED"}
      BY <3>1 DEF LtvHistory, Ratio
    <3>2. CASE status \in {"MULTI_HOUSE", "ONE_HOUSE_KEEPING"}
      BY <3>2 DEF LtvHistory, Ratio
    <3>3. CASE status = "FIRST_HOME_BUYER"
      BY <3>3 DEF LtvHistory, Ratio
    <3> QED BY <3>1, <3>2, <3>3 DEF HousingStatus
  <2> QED BY <2>1, <2>2 DEF RegionRatio, LtvRatio
<1>3. h.costs.price * 1000 * RegionRatio(h) \in Nat
  BY <1>1, <1>2, ProductIsNat
<1>4. \A p, day : HardCap(p, day) # None => HardCap(p, day) \in Nat
  BY DEF HardCap
<1> QED BY <1>2, <1>3, <1>4 DEF LtvLimit, Smaller

LEMMA MoneyTyped ==
    ASSUME NEW h \in HomeRequest
    PROVE  /\ h.snapshot.liquid \in Nat /\ Target(h.snapshot, h.months) \in Nat
           /\ FundsAtHand(h) \in Nat /\ FundTarget(h) \in Nat
           /\ FundsAtHand(h) = 100 * Larger(0, h.snapshot.liquid - Target(h.snapshot, h.months))
           /\ \A cost \in Nat : Short(h, cost) \in Nat
<1>1. h.snapshot.liquid \in Nat /\ h.snapshot.expense \in Nat /\ h.months \in Nat
  BY CashflowAssumption DEF HomeRequest, Snapshot
<1>2. Target(h.snapshot, h.months) \in Nat
  BY <1>1, ProductIsNat DEF Target
<1>3. FundsAtHand(h) = 100 * Larger(0, h.snapshot.liquid - Target(h.snapshot, h.months))
  BY DEF FundsAtHand, Diagnosed
<1> HIDE DEF Target
<1>4. FundsAtHand(h) \in Nat /\ FundTarget(h) \in Nat
  BY <1>1, <1>2, <1>3 DEF Larger, FundTarget
<1>5. \A cost \in Nat : Short(h, cost) \in Nat
  BY <1>4 DEF Short, Larger
<1> QED BY <1>1, <1>2, <1>3, <1>4, <1>5

\* What an affordable purchase is: all costs known and paid, the fund untouched.
LEMMA AffordableIsPaid ==
    ASSUME NEW h \in HomeRequest, NEW c \in CostsType, NEW l \in LoanResult \cup {None},
           Judgement(h, c, l) = "AFFORDABLE"
    PROVE  /\ c.total # None
           /\ LiquidAssets(h) - (c.total - LoanFunding(h, c, l)) >= FundTarget(h)
<1> DEFINE lent == LoanFunding(h, c, l)
<1>1. lent # None /\ c.total # None /\ ~Tight(h, c, l, lent)
  BY DEF Judgement
<1>2. c.total \in Nat /\ Evaluated(c) = c.total
  BY <1>1 DEF CostsType, Evaluated
<1>3. lent \in Nat
  <2>1. CASE l \in LoanResult
    BY <1>1, <2>1 DEF LoanFunding, LoanResult
  <2>2. CASE l = None
    BY <1>1, <2>2 DEF LoanFunding
  <2> QED BY <2>1, <2>2
<1> HIDE DEF lent
<1>4. Gap(h, c.total, lent) <= 0 /\ LiquidAssets(h) >= FundTarget(h)
  <2>1. Gap(h, c.total, lent) \in Int
    BY <1>2, <1>3, MoneyTyped DEF Gap, Larger
  <2>2. LiquidAssets(h) \in Nat /\ FundTarget(h) \in Nat
    BY MoneyTyped DEF LiquidAssets
  <2> QED BY <1>1, <1>2, <2>1, <2>2 DEF Tight
<1>5. Short(h, c.total) <= lent
  BY <1>2, <1>3, <1>4, MoneyTyped DEF Gap, Larger
<1>6. c.total - FundsAtHand(h) <= lent
  BY <1>2, <1>3, <1>5, MoneyTyped DEF Short, Larger
<1>7. FundsAtHand(h) = LiquidAssets(h) - FundTarget(h)
  BY <1>4, MoneyTyped DEF LiquidAssets, FundTarget, Larger
<1>8. LiquidAssets(h) \in Nat /\ FundTarget(h) \in Nat
  BY MoneyTyped DEF LiquidAssets
<1> QED BY <1>1, <1>2, <1>3, <1>6, <1>7, <1>8 DEF lent

-------------------------------------------------------------------------------
\* The invariant.

HomeInv ==
    /\ homePhase \in {"idle", "costing", "funding", "judging", "judged", "unavailable"}
    /\ homePhase # "idle" => home \in HomeRequest
    /\ homeCosts \in CostsType \cup {None}
    /\ homeLoan \in LoanResult \cup {None}
    /\ ltvLimit \in Nat \cup {None}
    /\ homePhase = "idle" => home = None /\ homeCosts = None
    /\ homePhase \in {"funding", "judging", "judged"} =>
        /\ homeCosts = PurchaseCosts(home.costs) /\ homeCosts.missing \subseteq homeGaps
        /\ homeGaps \cap CostFacts \subseteq homeCosts.missing
    /\ homePhase = "costing" /\ homeCosts # None =>
        CostsGrow(homeCosts, PurchaseCosts(home.costs))
    /\ homePhase = "funding" => homeLoan = None
    /\ homePhase \in {"judging", "judged"} =>
        (LoanFunding(home, homeCosts, homeLoan) = None => homeGaps # {})
    /\ homePhase = "judged" => verdict = Judgement(home, homeCosts, homeLoan)
    /\ homePhase # "judged" => verdict = None

LEMMA HomeInitially == HomeInit => HomeInv
  BY DEF HomeInit, HomeInv

LEMMA CostsOfHome ==
    ASSUME NEW h \in HomeRequest PROVE PurchaseCosts(h.costs) \in CostsType /\ h.costs \in PurchaseCostInput
<1>1. h.costs \in PurchaseCostInput
  BY DEF HomeRequest
<1> QED BY <1>1, CostsTyped

LEMMA EstimateKeeps == ASSUME HomeInv, EstimateCosts PROVE HomeInv'
<1>1. home \in HomeRequest /\ home' = home
  BY DEF HomeInv, EstimateCosts
<1>2. homeCosts' = PurchaseCosts(home.costs) /\ homeCosts' \in CostsType
  BY <1>1, CostsOfHome DEF EstimateCosts
<1> QED BY <1>1, <1>2 DEF HomeInv, EstimateCosts

LEMMA LoanlessIsNamed ==
    ASSUME HomeInv, homePhase = "funding", ~NeedsLoan \/ LoanMissing # {}
    PROVE  LoanFunding(home, homeCosts, None) = None => LoanMissing # {}
<1>1. homeCosts \in CostsType /\ home \in HomeRequest
  BY CostsOfHome DEF HomeInv
<1>2. Evaluated(homeCosts) \in Nat
  BY <1>1 DEF Evaluated, CostsType
<1>3. Short(home, Evaluated(homeCosts)) \in Nat
  BY <1>1, <1>2, MoneyTyped
<1>4. ~NeedsLoan => Short(home, Evaluated(homeCosts)) = 0
  BY <1>3 DEF NeedsLoan
<1> QED BY <1>4, NoneIsNoNumber DEF LoanFunding

LEMMA WithoutLoanKeeps == ASSUME HomeInv, GoWithoutLoan PROVE HomeInv'
<1>1. LoanFunding(home, homeCosts, None) = None => LoanMissing # {}
  BY LoanlessIsNamed DEF GoWithoutLoan
<1>2. LoanMissing \cap CostFacts = {}
  BY DEF LoanMissing, CostFacts, LegalFacts
<1>3. homeLoan = None
  BY DEF HomeInv, GoWithoutLoan
<1> HIDE DEF LoanMissing
<1> QED BY <1>1, <1>2, <1>3 DEF HomeInv, GoWithoutLoan

LEMMA LimitUnknownKeeps == ASSUME HomeInv, LimitUnknown PROVE HomeInv'
<1>1. homeLoan' \in LoanResult
  BY DEF LimitUnknown, Unresolved, LoanResult
<1>2. "ltv_limit_amount" \notin CostFacts
  BY DEF CostFacts, LegalFacts
<1> QED BY <1>1, <1>2 DEF HomeInv, LimitUnknown

LEMMA CombineKeeps == ASSUME HomeInv, Combine PROVE HomeInv'
<1>1. home \in HomeRequest /\ homeCosts \in CostsType /\ home.status # None /\ NeedsLoan
  BY CostsOfHome DEF HomeInv, Combine, LoanMissing
<1>2. ltvLimit' \in Nat
  BY <1>1, LimitsTyped DEF Combine
<1> DEFINE required == Short(home, Evaluated(homeCosts))
<1>3. required \in Nat /\ required > 0
  <2>1. Evaluated(homeCosts) \in Nat
    BY <1>1 DEF Evaluated, CostsType
  <2> QED BY <1>1, <2>1, MoneyTyped DEF NeedsLoan
<1>4. homeLoan' \in CombinationResults(required, ltvLimit', RegionStress(home))
  BY DEF Combine
<1> HIDE DEF required
<1>5. homeLoan' \in LoanResult
  <2> DEFINE mortgage == IF RegionStress(home) = None THEN 0 ELSE Smaller(required, ltvLimit')
  <2>1. mortgage \in Nat
    BY <1>2, <1>3 DEF Smaller
  <2> HIDE DEF mortgage
  <2>2. \A x \in Shortages : required - mortgage - x \in Int
    BY <1>3, <2>1, HomeAssumption
  <2>3. Unresolved \in LoanResult /\ Infeasible \in LoanResult
    BY DEF Unresolved, Infeasible, LoanResult
  <2>4. CASE homeLoan' \notin {Unresolved, Infeasible}
    <3>1. homeLoan' \in [result : {"PLAN"}, secured : {0, mortgage},
                         credit : {0} \cup {required - mortgage - x : x \in Shortages},
                         strained : BOOLEAN]
      BY <1>4, <2>4 DEF CombinationResults, mortgage
    <3>2. homeLoan'.credit >= 0
      BY <1>4, <2>4 DEF CombinationResults
    <3> QED BY <2>1, <2>2, <3>1, <3>2 DEF LoanResult
  <2> QED BY <2>3, <2>4
<1>6. LoanFunding(home, homeCosts, homeLoan') = None => homeGaps' # {}
  <2>1. CASE homeLoan' = Unresolved
    BY <2>1 DEF Combine
  <2>2. CASE homeLoan' = Infeasible
    <3>1. homeLoan'.result = "INFEASIBLE" /\ homeLoan' # None
      BY <1>5, <2>2, NoneIsNoLoan DEF Infeasible
    <3>2. LoanFunding(home, homeCosts, homeLoan') = 0
      BY <3>1 DEF LoanFunding
    <3> QED BY <3>2, NoneIsNoNumber
  <2>3. CASE homeLoan' \notin {Unresolved, Infeasible}
    <3>1. homeLoan'.result = "PLAN"
      BY <1>4, <2>3 DEF CombinationResults
    <3>2. homeLoan'.secured + homeLoan'.credit \in Int
      BY <1>5 DEF LoanResult
    <3> QED BY <1>5, <3>1, <3>2, NoneIsNoNumber, NoneIsNoLoan DEF LoanFunding
  <2> QED BY <2>1, <2>2, <2>3
<1>7. homeGaps' \cap CostFacts = homeGaps \cap CostFacts /\ homeGaps \subseteq homeGaps'
  BY DEF Combine, CostFacts, LegalFacts
<1> QED BY <1>1, <1>2, <1>5, <1>6, <1>7 DEF HomeInv, Combine

LEMMA JudgeKeeps == ASSUME HomeInv, Judge PROVE HomeInv'
  BY DEF HomeInv, Judge, Judgement, LoanFunding, Evaluated, Short, Gap, Tight, FundsAtHand,
         FundTarget, LiquidAssets

LEMMA FactKeeps == ASSUME HomeInv, SupplyCostFact PROVE HomeInv'
<1>a. PICK f \in homeGaps \cap CostFacts : \E a \in Answers[f] :
        /\ f = "registered" => ~(a = "no" /\ home.costs.nationalScale = "yes")
        /\ f = "nationalScale" => ~(a = "yes" /\ home.costs.registered = "no")
        /\ home' = [home EXCEPT !.costs[f] = a]
  BY DEF SupplyCostFact
<1>1. PICK a \in Answers[f] :
        /\ f = "registered" => ~(a = "no" /\ home.costs.nationalScale = "yes")
        /\ f = "nationalScale" => ~(a = "yes" /\ home.costs.registered = "no")
        /\ home' = [home EXCEPT !.costs[f] = a]
  BY <1>a
<1>2. home \in HomeRequest /\ homeCosts = PurchaseCosts(home.costs) /\ f \in homeCosts.missing
  BY <1>1 DEF HomeInv, SupplyCostFact
<1>3. home.costs \in PurchaseCostInput /\ homeCosts \in CostsType
  BY <1>2, CostsOfHome
<1>4. Admissible(home.costs, f, a)
  BY <1>1, HomeAssumption DEF Admissible
<1>5. home' = [home EXCEPT !.costs = WithAnswer(home.costs, f, a)]
  BY <1>1, <1>2 DEF WithAnswer, HomeRequest
<1>6. home' \in HomeRequest /\ home'.costs = WithAnswer(home.costs, f, a)
  BY <1>2, <1>3, <1>4, <1>5, AnsweredIsInput DEF HomeRequest
<1>7. CostsGrow(homeCosts, PurchaseCosts(home'.costs))
  BY <1>2, <1>3, <1>4, <1>6, CostsAreMonotone
<1> QED BY <1>3, <1>6, <1>7 DEF HomeInv, SupplyCostFact

LEMMA ProfileKeeps == ASSUME HomeInv, SupplyLoanProfile PROVE HomeInv'
<1>1. PICK a \in Answers["property_loan_profile"] : home' = [home EXCEPT !.status = a]
  BY DEF SupplyLoanProfile
<1>2. home \in HomeRequest /\ homeCosts = PurchaseCosts(home.costs)
  BY DEF HomeInv, SupplyLoanProfile
<1>3. a \in HousingStatus
  BY <1>1, HomeAssumption DEF AnswerTo
<1>4. home' \in HomeRequest /\ home'.costs = home.costs
  BY <1>1, <1>2, <1>3 DEF HomeRequest
<1>5. homeCosts \in CostsType
  BY <1>2, CostsOfHome
<1>6. CostsGrow(homeCosts, PurchaseCosts(home'.costs))
  BY <1>2, <1>4, <1>5 DEF CostsGrow, CostsType
<1> QED BY <1>4, <1>5, <1>6 DEF HomeInv, SupplyLoanProfile

LEMMA HomeStepKeeps == HomeInv /\ [HomeNext]_homeVars => HomeInv'
<1> SUFFICES ASSUME HomeInv, [HomeNext]_homeVars PROVE HomeInv'
  OBVIOUS
<1>1. CASE EstimateCosts BY <1>1, EstimateKeeps
<1>2. CASE GoWithoutLoan BY <1>2, WithoutLoanKeeps
<1>3. CASE LimitUnknown BY <1>3, LimitUnknownKeeps
<1>4. CASE Combine BY <1>4, CombineKeeps
<1>5. CASE Judge BY <1>5, JudgeKeeps
<1>6. CASE SupplyCostFact BY <1>6, FactKeeps
<1>7. CASE SupplyLoanProfile BY <1>7, ProfileKeeps
<1>8. CASE CatalogFails BY <1>8 DEF HomeInv, CatalogFails
<1>9. ASSUME NEW h \in HomeRequests, AskHome(h) PROVE HomeInv'
  BY <1>9, HomeAssumption DEF HomeInv, AskHome
<1>10. CASE UNCHANGED homeVars
  BY <1>10 DEF HomeInv, homeVars, Judgement, LoanFunding, Evaluated, Short, Gap, Tight,
               FundsAtHand, FundTarget, LiquidAssets
<1> QED BY <1>1, <1>2, <1>3, <1>4, <1>5, <1>6, <1>7, <1>8, <1>9, <1>10 DEF HomeNext, HomeStep

LEMMA HomeInvariant == HomeSafety => []HomeInv
<1>1. HomeInv /\ [HomeNext]_homeVars => HomeInv'
  BY HomeStepKeeps
<1> QED BY <1>1, HomeInitially, PTL DEF HomeSafety

\* The request, the costs and the verdict on a home stay in their types, whatever the
\* user answers when asked again.
THEOREM HomeTypeCorrect == HomeSafety => []HomeTypeOK
<1>1. HomeInv => HomeTypeOK
  <2> SUFFICES ASSUME HomeInv PROVE HomeTypeOK
    OBVIOUS
  <2>1. \A h, costs, loan : Judgement(h, costs, loan) \in Verdicts
    BY DEF Judgement, Verdicts
  <2>2. verdict \in Verdicts \cup {None}
    BY <2>1 DEF HomeInv
  <2> QED BY <2>2 DEF HomeInv, HomeTypeOK, CostsType
<1> QED BY <1>1, HomeInvariant, PTL

-------------------------------------------------------------------------------
\* An affordable purchase is paid in full and leaves the emergency fund whole, for
\* any costs, loans and households (evaluate_property_affordability).
THEOREM AffordableKeepsTheFund == HomeSafety => []ReserveSurvivesPurchase
<1>1. HomeInv => ReserveSurvivesPurchase
  <2> SUFFICES ASSUME HomeInv, verdict = "AFFORDABLE", homePhase = "judged"
               PROVE  ReserveSurvivesPurchase
    BY NoneIsNoVerdict DEF HomeInv, ReserveSurvivesPurchase, Verdicts
  <2>1. home \in HomeRequest /\ homeCosts \in CostsType /\ homeLoan \in LoanResult \cup {None}
    BY CostsOfHome DEF HomeInv
  <2>2. Judgement(home, homeCosts, homeLoan) = "AFFORDABLE"
    BY DEF HomeInv
  <2> QED BY <2>1, <2>2, AffordableIsPaid DEF ReserveSurvivesPurchase
<1> QED BY <1>1, HomeInvariant, PTL

\* A verdict that is UNKNOWN comes with a missing input to ask for
\* (assess_property_affordability: missing_inputs).
THEOREM UnknownIsExplained == HomeSafety => []UnknownNamesItsGap
<1>1. HomeInv => UnknownNamesItsGap
  <2> SUFFICES ASSUME HomeInv, verdict = "UNKNOWN", homePhase = "judged"
               PROVE  homeGaps # {}
    BY NoneIsNoVerdict DEF HomeInv, UnknownNamesItsGap, Verdicts
  <2>1. home.costs \in PurchaseCostInput /\ homeCosts = PurchaseCosts(home.costs)
        /\ homeCosts.missing \subseteq homeGaps
    BY CostsOfHome DEF HomeInv
  <2>2. CASE LoanFunding(home, homeCosts, homeLoan) = None
    BY <2>2 DEF HomeInv
  <2>3. CASE homeCosts.status = "POLICY_OUT_OF_RANGE"
    <3>1. homeCosts.total = None
      BY <2>1, <2>3 DEF PurchaseCosts
    <3> QED BY <2>1, <2>3, <3>1, MissingIsNamed
  <2>4. CASE homeCosts.total = None /\ homeCosts.status # "UNSUPPORTED"
    BY <2>1, <2>4, MissingIsNamed
  <2>5. Judgement(home, homeCosts, homeLoan) = "UNKNOWN"
    BY DEF HomeInv
  <2> QED BY <2>2, <2>3, <2>4, <2>5 DEF Judgement
<1> QED BY <1>1, HomeInvariant, PTL

\* What is learnt of a purchase never lowers its minimum cost, nor changes a total
\* that is known (estimate_purchase_costs).
THEOREM MinimumOnlyRises == HomeSafety => MinimumNeverOverstates
<1>1. HomeInv /\ [HomeNext]_homeVars =>
        [homeCosts # None =>
            /\ homeCosts'.minimum >= homeCosts.minimum
            /\ homeCosts.total # None => homeCosts'.total = homeCosts.total]_homeVars
  <2> SUFFICES ASSUME HomeInv, HomeNext, homeCosts # None
               PROVE  CostsGrow(homeCosts, homeCosts')
    BY DEF CostsGrow
  <2>1. CASE EstimateCosts
    BY <2>1 DEF HomeInv, EstimateCosts
  <2>2. CASE homeCosts' = homeCosts
    BY <2>2 DEF HomeInv, CostsGrow, CostsType
  <2> QED BY <2>1, <2>2 DEF HomeNext, HomeStep, CatalogFails, GoWithoutLoan, LimitUnknown, Combine,
             Judge, SupplyCostFact, SupplyLoanProfile, AskHome
<1> QED BY <1>1, HomeInvariant, PTL DEF HomeSafety, MinimumNeverOverstates

-------------------------------------------------------------------------------
\* The limit of the region.

\* The zone that is resolved from a code is the zone of the world.
LEMMA ZoneIsTrue ==
    ASSUME NEW h \in HomeRequest, AsListed(h.region), ListIsComplete(h.region),
           h.region.coded \/ h.region.listed = None, ZoneOf(h) # None
    PROVE  ZoneOf(h) = ZoneSince(RulesDay(h), h.region.designated)
<1>1. /\ h.region.listed \in Nat \cup {None} /\ h.region.designated \in Nat \cup {None}
      /\ h.code \in {"valid", "invalid"} /\ RulesDay(h) \in Nat
  BY DEF HomeRequest, Region, RulesDay, PurchaseCostInput
<1>2. h.code = "valid" /\ "valid" # None
  BY <1>1 DEF ZoneOf, ResolvedZone
<1>3. CASE h.region.listed # None
  BY <1>1, <1>2, <1>3, NoneIsNoNumber
     DEF ListIsComplete, ZoneOf, ResolvedZone, Found, ZoneSince, DESIGNATION_LIST_VERIFIED_THROUGH
<1>4. CASE h.region.listed = None
  BY <1>1, <1>2, <1>4, NoneIsNoNumber
     DEF ListIsComplete, ZoneOf, ResolvedZone, Found, ZoneSince, DESIGNATION_LIST_VERIFIED_THROUGH
<1> QED BY <1>3, <1>4

LimitOf(h) == LtvLimit(h.costs.price, ZoneOf(h), h.region.capital, RegionRatio(h), RulesDay(h))

LimitInv ==
    /\ homePhase # "idle" => AsListed(home.region) /\ ListIsComplete(home.region)
    /\ homePhase = "idle" => ltvLimit = None
    /\ homePhase = "funding" => ltvLimit = None /\ homeGaps = homeCosts.missing
    /\ "property_loan_profile" \in homeGaps => ltvLimit = None
    /\ ltvLimit # None =>
        /\ home.status # None /\ ZoneOf(home) # None /\ RegionRatio(home) # None
        /\ ltvLimit = LimitOf(home)

LEMMA FactKeepsLimit ==
    ASSUME HomeInv, SupplyCostFact
    PROVE  /\ home'.region = home.region /\ home'.status = home.status
           /\ ZoneOf(home') = ZoneOf(home) /\ RegionRatio(home') = RegionRatio(home)
           /\ LimitOf(home') = LimitOf(home)
<1>1. PICK f \in homeGaps \cap CostFacts : \E a \in Answers[f] :
        /\ f = "registered" => ~(a = "no" /\ home.costs.nationalScale = "yes")
        /\ f = "nationalScale" => ~(a = "yes" /\ home.costs.registered = "no")
        /\ home' = [home EXCEPT !.costs[f] = a]
  BY DEF SupplyCostFact
<1>2. PICK a \in Answers[f] :
        /\ f = "registered" => ~(a = "no" /\ home.costs.nationalScale = "yes")
        /\ f = "nationalScale" => ~(a = "yes" /\ home.costs.registered = "no")
        /\ home' = [home EXCEPT !.costs[f] = a]
  BY <1>1
<1>3. home \in HomeRequest /\ home.costs \in PurchaseCostInput
  BY CostsOfHome DEF HomeInv, SupplyCostFact
<1>4. home' = [home EXCEPT !.costs = WithAnswer(home.costs, f, a)]
  BY <1>2, <1>3 DEF WithAnswer, HomeRequest
<1>5. Admissible(home.costs, f, a)
  BY <1>2, HomeAssumption DEF Admissible
<1>6. home'.costs.asOf = home.costs.asOf /\ home'.costs.price = home.costs.price
  BY <1>3, <1>4, <1>5, AnsweredIsInput DEF HomeRequest
<1>7. /\ home'.region = home.region /\ home'.code = home.code
      /\ home'.status = home.status /\ home'.day = home.day
  BY <1>3, <1>4 DEF HomeRequest
<1>8. RulesDay(home') = RulesDay(home)
  BY <1>6, <1>7 DEF RulesDay
<1>9. ZoneOf(home') = ZoneOf(home)
  BY <1>7, <1>8 DEF ZoneOf
<1>10. RegionRatio(home') = RegionRatio(home)
  BY <1>7, <1>8, <1>9 DEF RegionRatio
<1> QED BY <1>6, <1>7, <1>8, <1>9, <1>10 DEF LimitOf

LEMMA LimitStepKeeps == HomeInv /\ LimitInv /\ [HomeNext]_homeVars => LimitInv'
<1> SUFFICES ASSUME HomeInv, LimitInv, [HomeNext]_homeVars PROVE LimitInv'
  OBVIOUS
<1> USE DEF LimitInv
<1>1. CASE EstimateCosts
  <2>1. PurchaseCosts(home.costs) \in CostsType
    BY <1>1, CostsOfHome DEF HomeInv, EstimateCosts
  <2>2. "property_loan_profile" \notin homeGaps'
    BY <1>1, <2>1 DEF EstimateCosts, CostsType, LegalFacts
  <2> QED BY <1>1, <2>2 DEF EstimateCosts
<1>2. CASE GoWithoutLoan BY <1>2 DEF GoWithoutLoan
<1>3. CASE LimitUnknown BY <1>3 DEF LimitUnknown
<1>4. CASE Combine
  <2>1. home.status # None /\ ZoneOf(home) # None /\ RegionRatio(home) # None
    BY <1>4 DEF Combine, LoanMissing
  <2>2. ltvLimit' = LimitOf(home) /\ home' = home /\ homePhase' = "judging"
    BY <1>4 DEF Combine, LimitOf
  <2>3. homeGaps = homeCosts.missing /\ homeCosts \in CostsType
    BY <1>4, CostsOfHome DEF HomeInv, Combine
  <2>4. "property_loan_profile" \notin homeGaps'
    BY <1>4, <2>3 DEF Combine, CostsType, LegalFacts
  <2>5. AsListed(home.region) /\ ListIsComplete(home.region)
    BY <1>4 DEF Combine
  <2>6. /\ home'.status # None /\ ZoneOf(home') # None /\ RegionRatio(home') # None
        /\ ltvLimit' = LimitOf(home')
    BY <2>1, <2>2
  <2>7. AsListed(home'.region) /\ ListIsComplete(home'.region)
    BY <2>2, <2>5
  <2> QED BY <2>2, <2>4, <2>6, <2>7
<1>5. CASE Judge BY <1>5 DEF Judge
<1>6. CASE SupplyCostFact
  BY <1>6, FactKeepsLimit DEF SupplyCostFact
<1>7. CASE SupplyLoanProfile
  <2>1. ltvLimit = None /\ ltvLimit' = None /\ homeGaps' = homeGaps
    BY <1>7 DEF SupplyLoanProfile
  <2>2. home \in HomeRequest
    BY <1>7 DEF HomeInv, SupplyLoanProfile
  <2>3. home'.region = home.region
    BY <1>7, <2>2 DEF SupplyLoanProfile, HomeRequest
  <2> QED BY <1>7, <2>1, <2>3 DEF SupplyLoanProfile
<1>8. CASE CatalogFails BY <1>8 DEF CatalogFails
<1>9. ASSUME NEW h \in HomeRequests, AskHome(h) PROVE LimitInv'
  BY <1>9, HomeAssumption DEF AskHome
<1>10. CASE UNCHANGED homeVars
  BY <1>10 DEF homeVars
<1> QED BY <1>1, <1>2, <1>3, <1>4, <1>5, <1>6, <1>7, <1>8, <1>9, <1>10 DEF HomeNext, HomeStep

\* The limit a loan is computed with is never looser than the law at the place on
\* the day, whatever was designated since the list was made (resolve_region).
THEOREM LimitIsLawful == HomeSafety => []NeverLooserThanTheWorld
<1>1. HomeInit => HomeInv /\ LimitInv
  BY HomeInitially DEF HomeInit, LimitInv
<1>2. HomeInv /\ LimitInv /\ [HomeNext]_homeVars => (HomeInv /\ LimitInv)'
  BY HomeStepKeeps, LimitStepKeeps
<1>3. HomeInv /\ LimitInv => NeverLooserThanTheWorld
  <2> SUFFICES ASSUME HomeInv, LimitInv, ltvLimit # None,
                      home.region.coded \/ home.region.listed = None
               PROVE  LET zone == ZoneSince(RulesDay(home), home.region.designated)
                          ratio == LtvRatio(zone, home.status, RulesDay(home), FALSE) IN
                      ltvLimit <= LtvLimit(home.costs.price, zone, home.region.capital, ratio,
                                           RulesDay(home))
    BY DEF NeverLooserThanTheWorld
  <2>1. homePhase # "idle" /\ home \in HomeRequest
    BY DEF HomeInv, LimitInv
  <2>2. ZoneOf(home) = ZoneSince(RulesDay(home), home.region.designated)
    BY <2>1, ZoneIsTrue DEF LimitInv
  <2>3. ltvLimit = LimitOf(home) /\ ltvLimit \in Nat
    BY DEF LimitInv, HomeInv
  <2>4. RegionRatio(home) = LtvRatio(ZoneOf(home), home.status, RulesDay(home), FALSE)
    BY DEF RegionRatio
  <2> DEFINE world == ZoneSince(RulesDay(home), home.region.designated)
             ratio == LtvRatio(world, home.status, RulesDay(home), FALSE)
             lawful == LtvLimit(home.costs.price, world, home.region.capital, ratio, RulesDay(home))
  <2>5. LimitOf(home) = lawful
    BY <2>2, <2>4 DEF LimitOf
  <2> HIDE DEF lawful
  <2>6. ltvLimit <= lawful
    BY <2>3, <2>5
  <2> QED BY <2>6 DEF lawful
<1> QED BY <1>1, <1>2, <1>3, PTL DEF HomeSafety

-------------------------------------------------------------------------------
(* RegionTrades: the rows of the pages. *)

LEMMA TradesTyped ==
    ASSUME NEW t \in Trades
    PROVE  t.id \in Nat /\ t.area \in Nat /\ t.price \in Nat
  BY TradeAssumption DEF RegionTrade

\* _ORDER_BY is a strict total order, because no two trades share an id.
LEMMA OneComesFirst ==
    ASSUME NEW t \in Trades, NEW u \in Trades, NEW sort
    PROVE  /\ ~Precedes(t, t, sort)
           /\ t # u => (Precedes(t, u, sort) <=> ~Precedes(u, t, sort))
<1>1. /\ t.id \in Nat /\ t.area \in Nat /\ t.price \in Nat
      /\ u.id \in Nat /\ u.area \in Nat /\ u.price \in Nat
      /\ (t # u => t.id # u.id)
  BY TradesTyped, TradeAssumption
<1> DEFINE upwards == sort \in {"AREA_ASC", "PRICE_ASC"}
<1>2. CASE sort \in {"AREA_ASC", "AREA_DESC"}
  BY <1>1, <1>2 DEF Precedes
<1>3. CASE sort \notin {"AREA_ASC", "AREA_DESC"}
  BY <1>1, <1>3 DEF Precedes
<1> QED BY <1>2, <1>3

\* The trades a list shows up to one of them, and how many these are.
UpTo(trades, t, sort) == {u \in trades : u = t \/ Precedes(u, t, sort)}
PlaceOf(trades, t, sort) == Cardinality(UpTo(trades, t, sort))

LEMMA PlaceIsWithin ==
    ASSUME NEW V \in SUBSET Trades, IsFiniteSet(V), NEW t \in V, NEW sort
    PROVE  PlaceOf(V, t, sort) \in 1..Cardinality(V)
<1>1. UpTo(V, t, sort) \in SUBSET V /\ t \in UpTo(V, t, sort)
  BY DEF UpTo
<1>2. /\ IsFiniteSet(UpTo(V, t, sort)) /\ Cardinality(UpTo(V, t, sort)) <= Cardinality(V)
  BY <1>1, FS_Subset
<1>3. Cardinality(UpTo(V, t, sort)) \in Nat /\ Cardinality(V) \in Nat
  BY <1>2, FS_CardinalityType
<1>4. Cardinality(UpTo(V, t, sort)) # 0
  BY <1>1, <1>2, FS_EmptySet
<1> QED BY <1>2, <1>3, <1>4 DEF PlaceOf

\* As trades are loaded, the others only move back.
LEMMA PlaceMovesBack ==
    ASSUME NEW V, NEW W, V \subseteq W, IsFiniteSet(W), NEW t, NEW sort
    PROVE  /\ PlaceOf(V, t, sort) \in Nat /\ PlaceOf(W, t, sort) \in Nat
           /\ PlaceOf(V, t, sort) <= PlaceOf(W, t, sort)
<1>1. UpTo(V, t, sort) \in SUBSET UpTo(W, t, sort) /\ UpTo(W, t, sort) \in SUBSET W
  BY DEF UpTo
<1>2. IsFiniteSet(UpTo(W, t, sort))
  BY <1>1, FS_Subset
<1>3. /\ IsFiniteSet(UpTo(V, t, sort))
      /\ Cardinality(UpTo(V, t, sort)) <= Cardinality(UpTo(W, t, sort))
  BY <1>1, <1>2, FS_Subset
<1> QED BY <1>2, <1>3, FS_CardinalityType DEF PlaceOf

\* In the order the database delivers, each trade stands at its place.
LEMMA OrderTellsThePlace ==
    ASSUME NEW V \in SUBSET Trades, IsFiniteSet(V), NEW sort, NEW order \in Orders(V, sort)
    PROVE  /\ Cardinality(V) \in Nat /\ Len(order) = Cardinality(V)
           /\ order \in [1..Cardinality(V) -> V]
           /\ \A i, j \in 1..Cardinality(V) : i # j => order[i] # order[j]
           /\ \A t \in V : \E i \in 1..Cardinality(V) : order[i] = t
           /\ \A i \in 1..Cardinality(V) : PlaceOf(V, order[i], sort) = i
<1> DEFINE N == Cardinality(V)
<1>1. N \in Nat
  BY FS_CardinalityType
<1>2. /\ order \in [1..N -> V] /\ \A i, j \in 1..N : i # j => order[i] # order[j]
      /\ \A i, j \in 1..Len(order) : i < j => ~Precedes(order[j], order[i], sort)
  BY DEF Orders, SetToSeqs
<1>3. Len(order) = N
  BY <1>1, <1>2
<1>4. \A t \in V : \E i \in 1..N : order[i] = t
  <2>1. order \in Injection(1..N, V)
    BY <1>2 DEF Injection, IsInjective
  <2>2. Cardinality(1..N) = N
    BY <1>1, FS_Interval
  <2>3. order \in Surjection(1..N, V)
    BY <2>1, <2>2, FS_Injection
  <2> QED BY <2>3 DEF Surjection
<1>5. ASSUME NEW i \in 1..N PROVE PlaceOf(V, order[i], sort) = i
  <2> DEFINE U == UpTo(V, order[i], sort)
             g == [k \in 1..i |-> order[k]]
  <2>1. \A k \in 1..i : k \in 1..N
    BY <1>1
  <2>2. ASSUME NEW k \in 1..N PROVE order[k] \in U <=> k <= i
    <3>1. order[k] \in Trades /\ order[i] \in Trades /\ order[k] \in V
      BY <1>2
    <3>2. CASE k = i
      BY <3>1, <3>2 DEF UpTo
    <3>3. CASE k < i
      <4>1. ~Precedes(order[i], order[k], sort) /\ order[k] # order[i]
        BY <1>2, <1>3, <3>3
      <4>2. Precedes(order[k], order[i], sort)
        BY <3>1, <4>1, OneComesFirst
      <4> QED BY <3>1, <3>3, <4>2 DEF UpTo
    <3>4. CASE i < k
      <4>1. ~Precedes(order[k], order[i], sort) /\ order[k] # order[i]
        BY <1>2, <1>3, <3>4
      <4> QED BY <3>4, <4>1 DEF UpTo
    <3> QED BY <1>1, <3>2, <3>3, <3>4
  <2>3. U \subseteq V
    BY DEF UpTo
  <2> HIDE DEF U
  <2>4. g \in [1..i -> U]
    BY <1>1, <2>1, <2>2
  <2>5. \A a, b \in 1..i : g[a] = g[b] => a = b
    BY <1>2, <2>1
  <2>6. ASSUME NEW t \in U PROVE \E k \in 1..i : g[k] = t
    <3>1. PICK k \in 1..N : order[k] = t
      BY <1>4, <2>3
    <3>2. k <= i
      BY <2>2, <3>1
    <3>3. k \in 1..i
      BY <1>1, <3>2
    <3> QED BY <3>1, <3>3
  <2>7. g \in Bijection(1..i, U)
    BY <2>4, <2>5, <2>6 DEF Bijection, Injection, Surjection, IsInjective
  <2>8. ExistsBijection(1..i, U) /\ i \in Nat
    BY <1>1, <2>7 DEF ExistsBijection
  <2>9. Cardinality(U) = i
    BY <2>8, FS_CountingElements
  <2> QED BY <2>9 DEF PlaceOf, U
<1> QED BY <1>1, <1>2, <1>3, <1>4, <1>5

\* The trades whose places are on a page.
OnPage(trades, sort, n, size) ==
    {t \in trades : (n - 1) * size < PlaceOf(trades, t, sort)
                    /\ PlaceOf(trades, t, sort) <= n * size}

\* A page shows these, each once.
LEMMA RowsOfPage ==
    ASSUME NEW V \in SUBSET Trades, IsFiniteSet(V), NEW sort, NEW order \in Orders(V, sort),
           NEW n \in Nat \ {0}, NEW size \in Nat \ {0}
    PROVE  /\ PageRows(order, n, size) \in Seq(V) /\ IsInjective(PageRows(order, n, size))
           /\ ToSet(PageRows(order, n, size)) = OnPage(V, sort, n, size)
<1> DEFINE N == Cardinality(V)
           before == (n - 1) * size
           upTo == n * size
           last == Min({upTo, N})
           rows == PageRows(order, n, size)
<1>1. /\ N \in Nat /\ Len(order) = N /\ order \in [1..N -> V]
      /\ \A i, j \in 1..N : i # j => order[i] # order[j]
      /\ \A t \in V : \E i \in 1..N : order[i] = t
      /\ \A i \in 1..N : PlaceOf(V, order[i], sort) = i
  BY OrderTellsThePlace
<1>2. before \in Nat /\ upTo \in Nat /\ upTo = before + size
  BY SMT
<1>3. rows = SubSeq(order, before + 1, last)
  BY <1>1 DEF PageRows
<1> HIDE DEF N, before, upTo
<1>4. last \in Nat /\ last <= upTo /\ last <= N /\ (last = upTo \/ last = N)
  <2>1. {upTo, N} \subseteq Nat /\ {upTo, N} # {}
    BY <1>1, <1>2
  <2> DEFINE S == {upTo, N}
  <2>2. upTo \in S /\ N \in S /\ \A x \in S : x = upTo \/ x = N
    OBVIOUS
  <2> HIDE DEF S
  <2>3. Min(S) \in S /\ \A x \in S : Min(S) <= x
    BY <2>1, MinOfNumbers DEF S
  <2>4. last = Min(S)
    BY DEF S
  <2> QED BY <1>1, <1>2, <2>2, <2>3, <2>4
<1> HIDE DEF last, rows
<1>5. \A i \in (before + 1)..last : i \in 1..N /\ order[i] \in V
  BY <1>1, <1>2, <1>4
<1>6. /\ rows \in Seq(V)
      /\ Len(rows) = IF before + 1 <= last THEN last - (before + 1) + 1 ELSE 0
      /\ \A i \in 1..(last - (before + 1) + 1) : rows[i] = order[before + 1 + i - 1]
  <2>1. before + 1 \in Int /\ last \in Int
    BY <1>2, <1>4
  <2> QED BY <1>3, <1>5, <2>1, SubSeqProperties
<1>7. Len(rows) = (IF before < last THEN last - before ELSE 0) /\ DOMAIN rows = 1..Len(rows)
  BY <1>2, <1>4, <1>6
<1>8. ASSUME NEW i \in DOMAIN rows
      PROVE  rows[i] = order[before + i] /\ before + i \in 1..N /\ before + i <= last
  <2>1. i \in 1..(last - (before + 1) + 1) /\ i \in Nat /\ before + i <= last
    BY <1>2, <1>4, <1>7
  <2>2. before + 1 + i - 1 = before + i
    BY <1>2, <2>1
  <2>3. rows[i] = order[before + 1 + i - 1]
    BY <1>6, <2>1
  <2>4. rows[i] = order[before + i]
    BY <2>2, <2>3
  <2>5. before + i \in 1..N
    BY <1>1, <1>2, <1>4, <2>1
  <2> QED BY <2>1, <2>4, <2>5
<1>9. IsInjective(rows)
  <2> SUFFICES ASSUME NEW a \in DOMAIN rows, NEW b \in DOMAIN rows, rows[a] = rows[b]
               PROVE  a = b
    BY DEF IsInjective
  <2>1. before + a = before + b
    BY <1>1, <1>8
  <2>2. a \in Nat /\ b \in Nat
    BY <1>7
  <2> QED BY <1>2, <2>1, <2>2
<1>10. ASSUME NEW t \in ToSet(rows)
       PROVE  t \in V /\ before < PlaceOf(V, t, sort) /\ PlaceOf(V, t, sort) <= upTo
  <2>1. PICK i \in DOMAIN rows : t = rows[i]
    BY DEF ToSet
  <2>2. t = order[before + i] /\ before + i \in 1..N /\ before + i <= last /\ i \in Nat \ {0}
    BY <1>7, <1>8, <2>1
  <2>3. PlaceOf(V, t, sort) = before + i /\ t \in V
    BY <1>1, <2>2
  <2> QED BY <1>2, <1>4, <2>2, <2>3
<1>11. ASSUME NEW t \in V, before < PlaceOf(V, t, sort), PlaceOf(V, t, sort) <= upTo
       PROVE  t \in ToSet(rows)
  <2>1. PICK k \in 1..N : order[k] = t
    BY <1>1
  <2>2. PlaceOf(V, t, sort) = k
    BY <1>1, <2>1
  <2>3. k <= last /\ before < k
    BY <1>1, <1>2, <1>4, <1>11, <2>1, <2>2
  <2>4. k - before \in DOMAIN rows /\ before + (k - before) = k
    BY <1>1, <1>2, <1>4, <1>7, <2>3
  <2>5. rows[k - before] = t
    BY <1>8, <2>1, <2>4
  <2> QED BY <2>4, <2>5 DEF ToSet
<1>12. ToSet(rows) = {t \in V : before < PlaceOf(V, t, sort) /\ PlaceOf(V, t, sort) <= upTo}
  BY <1>10, <1>11
<1> QED BY <1>6, <1>9, <1>12 DEF OnPage, rows, before, upTo

-------------------------------------------------------------------------------
(* RegionTrades: the pages one after the other. *)

\* FlattenSeq as a table: what the first n sequences come to.
Flattened(f, seqs, T) ==
    /\ f \in [0..Len(seqs) -> Seq(T)] /\ f[0] = <<>>
    /\ \A n \in 1..Len(seqs) : f[n] = f[n - 1] \o seqs[n]

LEMMA FlattenedExists ==
    ASSUME NEW T, NEW seqs \in Seq(Seq(T))
    PROVE  \E f : Flattened(f, seqs, T)
<1> DEFINE N == Len(seqs)
           D == Seq(T)
           step == [n \in 1..N |-> [p \in D |-> p \o seqs[n]]]
<1>1. N \in Nat /\ \A n \in 1..N : seqs[n] \in Seq(T)
  OBVIOUS
<1>2. \A p \in D : \A n \in 1..N : p \o seqs[n] \in D
  BY <1>1
<1>3. step \in [1..N -> [D -> D]] /\ <<>> \in D
  BY <1>2
<1>4. \A n \in 1..N : \A p \in D : step[n][p] = p \o seqs[n]
  OBVIOUS
<1> HIDE DEF N, D, step
<1>5. PICK f \in [0..N -> D] : Iterated(f, N, <<>>, step)
  BY <1>1, <1>3, IterationExists
<1>6. f[0] = <<>>
  BY <1>1, <1>5 DEF Iterated
<1>7. ASSUME NEW n \in 1..N PROVE f[n] = f[n - 1] \o seqs[n]
  <2>1. n \in 0..N /\ n - 1 \in 0..N /\ n # 0
    BY <1>1
  <2>2. f[n] = step[n][f[n - 1]] /\ f[n - 1] \in D
    BY <1>5, <2>1 DEF Iterated
  <2> QED BY <1>4, <2>2
<1> QED BY <1>5, <1>6, <1>7 DEF Flattened, N, D

\* What CHOOSE picks in FlattenSeq is the table.
LEMMA FlattenIsTable ==
    ASSUME NEW T, NEW seqs \in Seq(Seq(T)), NEW f, Flattened(f, seqs, T)
    PROVE  FlattenSeq(seqs) = f[Len(seqs)]
<1> DEFINE N == Len(seqs)
           Recurrence(g) == g = [i \in 1..N |-> IF i = 1 THEN seqs[i] ELSE g[i - 1] \o seqs[i]]
           c == CHOOSE g : Recurrence(g)
           h == [i \in 1..N |-> f[i]]
<1>1. N \in Nat /\ \A n \in 1..N : seqs[n] \in Seq(T)
  OBVIOUS
<1>2. CASE N = 0
  <2>1. FlattenSeq(seqs) = seqs /\ seqs = <<>>
    BY <1>2 DEF FlattenSeq
  <2> QED BY <1>2, <2>1 DEF Flattened
<1>3. CASE N # 0
  <2>1. FlattenSeq(seqs) = c[N]
    BY <1>3 DEF FlattenSeq
  <2>2. \A i \in 1..N : h[i] = IF i = 1 THEN seqs[i] ELSE h[i - 1] \o seqs[i]
    <3> TAKE i \in 1..N
    <3>1. f[i] = f[i - 1] \o seqs[i] /\ seqs[i] \in Seq(T)
      BY <1>1 DEF Flattened
    <3>2. CASE i = 1
      <4>1. f[i - 1] = <<>>
        BY <3>2 DEF Flattened
      <4>2. <<>> \o seqs[i] = seqs[i]
        BY <3>1, ConcatEmptySeq
      <4> QED BY <3>1, <3>2, <4>1, <4>2
    <3>3. CASE i # 1
      <4>1. i - 1 \in 1..N
        BY <1>1, <3>3
      <4> QED BY <3>1, <3>3, <4>1
    <3> QED BY <3>2, <3>3
  <2>3. Recurrence(h)
    BY <2>2
  <2>4. Recurrence(c)
    BY <2>3
  <2> HIDE DEF c
  <2>5. \A i \in 1..N : c[i] = IF i = 1 THEN seqs[i] ELSE c[i - 1] \o seqs[i]
    BY <2>4
  <2> DEFINE same == [i \in 0..N |-> IF i = 0 \/ c[i] = f[i] THEN 1 ELSE 0]
         One == {1}
  <2>6. ASSUME NEW n \in 1..N, same[n - 1] \in One PROVE same[n] \in One
    <3>1. n \in 0..N /\ n - 1 \in 0..N /\ n # 0
      BY <1>1
    <3>2. c[n] = (IF n = 1 THEN seqs[n] ELSE c[n - 1] \o seqs[n])
          /\ h[n] = (IF n = 1 THEN seqs[n] ELSE h[n - 1] \o seqs[n]) /\ h[n] = f[n]
      BY <2>2, <2>5
    <3>3. CASE n = 1
      BY <3>1, <3>2, <3>3
    <3>4. CASE n # 1
      <4>1. n - 1 \in 1..N /\ n - 1 # 0
        BY <1>1, <3>4
      <4>2. c[n - 1] = f[n - 1] /\ h[n - 1] = f[n - 1]
        BY <2>6, <3>1, <4>1
      <4> QED BY <3>1, <3>2, <3>4, <4>2
    <3> QED BY <3>3, <3>4
  <2>7. same[0] \in One
    BY <1>1
  <2> HIDE DEF same, One
  <2>8. \A n \in 0..N : same[n] \in One
    BY <1>1, <2>6, <2>7, IterationStays
  <2>9. c[N] = f[N]
    BY <1>1, <1>3, <2>8 DEF same, One
  <2> QED BY <2>1, <2>9
<1> QED BY <1>2, <1>3

\* One page more puts its rows behind those that were seen.
LEMMA FlattenGrows ==
    ASSUME NEW T, NEW seqs \in Seq(Seq(T)), NEW rows \in Seq(T)
    PROVE  /\ FlattenSeq(seqs) \in Seq(T)
           /\ FlattenSeq(Append(seqs, rows)) = FlattenSeq(seqs) \o rows
<1> DEFINE N == Len(seqs)
           more == Append(seqs, rows)
<1>1. PICK f : Flattened(f, seqs, T)
  BY FlattenedExists
<1>2. FlattenSeq(seqs) = f[N] /\ N \in Nat /\ f[N] \in Seq(T)
  <2>1. FlattenSeq(seqs) = f[N]
    BY <1>1, FlattenIsTable
  <2>2. N \in Nat /\ N \in 0..N
    OBVIOUS
  <2> QED BY <1>1, <2>1, <2>2 DEF Flattened
<1> DEFINE g == [i \in 0..N + 1 |-> IF i = N + 1 THEN f[N] \o rows ELSE f[i]]
<1>3. /\ more \in Seq(Seq(T)) /\ Len(more) = N + 1 /\ more[N + 1] = rows
      /\ \A i \in 1..N : more[i] = seqs[i]
  BY AppendProperties
<1>4. f[N] \o rows \in Seq(T)
  BY <1>2
<1>5. g \in [0..N + 1 -> Seq(T)] /\ g[0] = <<>>
  BY <1>1, <1>2, <1>4 DEF Flattened
<1>6. ASSUME NEW i \in 1..N + 1 PROVE g[i] = g[i - 1] \o more[i]
  <2>1. CASE i = N + 1
    <3>1. i \in 0..N + 1 /\ i - 1 = N /\ N \in 0..N + 1 /\ N # N + 1
      BY <1>2, <2>1
    <3> QED BY <1>3, <2>1, <3>1
  <2>2. CASE i # N + 1
    <3>1. i \in 1..N /\ i \in 0..N + 1 /\ i - 1 \in 0..N + 1 /\ i - 1 # N + 1
      BY <1>2, <2>2
    <3>2. f[i] = f[i - 1] \o seqs[i]
      BY <1>1, <3>1 DEF Flattened
    <3> QED BY <1>3, <2>2, <3>1, <3>2
  <2> QED BY <2>1, <2>2
<1> HIDE DEF g, more
<1>7. Flattened(g, more, T)
  BY <1>3, <1>5, <1>6 DEF Flattened
<1>8. FlattenSeq(more) = g[N + 1]
  BY <1>3, <1>7, FlattenIsTable
<1>9. g[N + 1] = f[N] \o rows
  BY <1>2 DEF g
<1> QED BY <1>2, <1>8, <1>9 DEF more

\* The elements of two sequences in a row.
LEMMA RowsTogether ==
    ASSUME NEW T, NEW s \in Seq(T), NEW t \in Seq(T)
    PROVE  /\ ToSet(s \o t) = ToSet(s) \cup ToSet(t)
           /\ IsInjective(s) /\ IsInjective(t) /\ ToSet(s) \cap ToSet(t) = {} => IsInjective(s \o t)
<1> DEFINE m == Len(s)
           n == Len(t)
           st == s \o t
<1>1. m \in Nat /\ n \in Nat /\ DOMAIN s = 1..m /\ DOMAIN t = 1..n
  OBVIOUS
<1>2. DOMAIN st = 1..m + n /\ \A i \in 1..m + n : st[i] = IF i <= m THEN s[i] ELSE t[i - m]
  BY ConcatProperties
<1> HIDE DEF m, n, st
<1>3. \A i \in 1..m : i \in 1..m + n /\ st[i] = s[i]
  BY <1>1, <1>2
<1>4. \A i \in 1..n : m + i \in 1..m + n /\ st[m + i] = t[i]
  <2> TAKE i \in 1..n
  <2>1. m + i \in 1..m + n /\ ~(m + i <= m) /\ m + i - m = i
    BY <1>1
  <2>2. PICK k \in 1..m + n : k = m + i
    BY <2>1
  <2>3. st[k] = t[k - m]
    BY <1>2, <2>1, <2>2
  <2>4. k - m = i
    BY <1>1, <2>2
  <2> QED BY <2>1, <2>2, <2>3, <2>4, Zenon
<1>5. \A i \in 1..m + n : i \in 1..m \/ (i - m \in 1..n /\ m + (i - m) = i)
  BY <1>1
<1>6. ToSet(st) = ToSet(s) \cup ToSet(t)
  <2>1. ASSUME NEW x \in ToSet(st) PROVE x \in ToSet(s) \cup ToSet(t)
    <3>1. PICK i \in 1..m + n : x = st[i]
      BY <1>2 DEF ToSet
    <3>2. CASE i \in 1..m
      BY <1>1, <1>3, <3>1, <3>2 DEF ToSet
    <3>3. CASE i - m \in 1..n /\ m + (i - m) = i
      <4>1. x = t[i - m]
        BY <1>4, <3>1, <3>3
      <4> QED BY <1>1, <3>3, <4>1 DEF ToSet
    <3> QED BY <1>5, <3>2, <3>3
  <2>2. ASSUME NEW x \in ToSet(s) PROVE x \in ToSet(st)
    BY <1>1, <1>2, <1>3 DEF ToSet
  <2>3. ASSUME NEW x \in ToSet(t) PROVE x \in ToSet(st)
    <3>1. PICK i \in 1..n : x = t[i]
      BY <1>1 DEF ToSet
    <3>2. m + i \in DOMAIN st /\ st[m + i] = x
      BY <1>2, <1>4, <3>1
    <3> QED BY <3>2 DEF ToSet
  <2> QED BY <2>1, <2>2, <2>3
<1>7. ASSUME IsInjective(s), IsInjective(t), ToSet(s) \cap ToSet(t) = {} PROVE IsInjective(st)
  <2> SUFFICES ASSUME NEW a \in 1..m + n, NEW b \in 1..m + n, st[a] = st[b] PROVE a = b
    BY <1>2 DEF IsInjective
  <2>1. CASE a \in 1..m /\ b \in 1..m
    BY <1>1, <1>3, <1>7, <2>1 DEF IsInjective
  <2>2. CASE a - m \in 1..n /\ m + (a - m) = a /\ b - m \in 1..n /\ m + (b - m) = b
    <3>1. st[a] = t[a - m] /\ st[b] = t[b - m]
      BY <1>4, <2>2
    <3>2. a - m = b - m
      BY <1>1, <1>7, <2>2, <3>1 DEF IsInjective
    <3> QED BY <2>2, <3>2
  <2>3. CASE a \in 1..m /\ b - m \in 1..n /\ m + (b - m) = b
    <3>1. st[a] = s[a] /\ st[b] = t[b - m]
      BY <1>3, <1>4, <2>3
    <3>2. st[a] \in ToSet(s) /\ st[b] \in ToSet(t)
      BY <1>1, <2>3, <3>1 DEF ToSet
    <3> QED BY <1>7, <3>2
  <2>4. CASE b \in 1..m /\ a - m \in 1..n /\ m + (a - m) = a
    <3>1. st[b] = s[b] /\ st[a] = t[a - m]
      BY <1>3, <1>4, <2>4
    <3>2. st[b] \in ToSet(s) /\ st[a] \in ToSet(t)
      BY <1>1, <2>4, <3>1 DEF ToSet
    <3> QED BY <1>7, <3>2
  <2> QED BY <1>5, <2>1, <2>2, <2>3, <2>4
<1> QED BY <1>6, <1>7 DEF st

-------------------------------------------------------------------------------
(* RegionTrades: the invariant. *)

Seen == FlattenSeq(shown)
IsOpen == tradePhase # "closed"

\* The trades that belong on the first n pages.
OnPages(n) == {t \in valid : PlaceOf(valid, t, list.sort) <= n * list.size}

ListInv ==
    /\ valid \in SUBSET Trades /\ IsFiniteSet(valid) /\ start \in SUBSET Trades
    /\ shown \in Seq(Seq(Trades)) /\ page \in Nat /\ total \in Nat
    /\ tradePhase \in {"closed", "asked", "named", "counted", "shown", "notFound",
                      "unavailable"}
    /\ changed \in {"no", "loaded", "cancelled"} /\ torn \in BOOLEAN

\* Between two pages, as many were read as the page asked for has before it.
PagesInv ==
    /\ ~IsOpen => shown = <<>> /\ list = <<>> /\ changed = "no"
    /\ IsOpen => /\ list \in [sort : TradeSort, size : PageSizes]
                 /\ page \in Nat \ {0}
                 /\ Len(shown) = IF tradePhase = "shown" THEN page ELSE page - 1

\* What the count still says of the trades.
CountInv ==
    /\ changed # "cancelled" => start \subseteq valid
    /\ tradePhase = "counted" /\ changed # "cancelled" /\ ~torn => total = Cardinality(valid)
    /\ tradePhase = "shown" /\ changed = "no" => total = Cardinality(valid)
    /\ tradePhase = "counted" /\ changed = "no" => total = Cardinality(valid)

\* What has been seen.
SeenInv ==
    IsOpen =>
        /\ changed = "no" => ToSet(Seen) = OnPages(Len(shown)) /\ IsInjective(Seen)
        /\ changed # "cancelled" => start \cap OnPages(Len(shown)) \subseteq ToSet(Seen)
        /\ changed # "cancelled" /\ ~torn /\ ReadToTheEnd => start \subseteq ToSet(Seen)

TradesInv == ListInv /\ PagesInv /\ CountInv /\ SeenInv

LEMMA SizeIsPositive ==
    ASSUME PagesInv, IsOpen
    PROVE  list.size \in Nat \ {0} /\ list.sort \in TradeSort
<1>1. list.sort \in TradeSort /\ list.size \in PageSizes
  BY DEF PagesInv
<1>2. \A n \in PageSizes : n \in Nat \ {0}
  BY TradeAssumption
<1> QED BY <1>1, <1>2

\* The pages that are announced hold all trades.
LEMMA PagesAreEnough ==
    ASSUME NEW count \in Nat, NEW size \in Nat \ {0}
    PROVE  /\ TotalPages(count, size) \in Nat \ {0}
           /\ count <= TotalPages(count, size) * size
<1> DEFINE q == (count + size - 1) \div size
           S == {1, q}
           pages == TotalPages(count, size)
<1>1. q \in Nat /\ q * size <= count + size - 1 /\ count + size - 1 < q * size + size
  BY SMTT(30)
<1>2. S \in SUBSET Int /\ S # {} /\ 1 \in S /\ q \in S /\ \A x \in S : x = 1 \/ x = q
  BY <1>1
<1> HIDE DEF q
<1>3. pages = Max(S)
  BY DEF TotalPages, q
<1> HIDE DEF S, pages
<1>4. IsFiniteSet(S)
  <2>1. S = {1} \cup {q}
    BY DEF S
  <2> QED BY <2>1, FS_Singleton, FS_Union
<1>5. pages \in S /\ \A x \in S : x <= pages
  BY <1>2, <1>3, <1>4, MaxOfFinite
<1>6. pages \in Nat \ {0} /\ q <= pages
  BY <1>1, <1>2, <1>5
<1>7. count <= q * size
  BY <1>1
<1>8. q * size <= pages * size
  BY <1>1, <1>6, SMT
<1>9. q * size \in Nat /\ pages * size \in Nat
  BY <1>1, <1>6, SMT
<1> QED BY <1>6, <1>7, <1>8, <1>9 DEF pages

LEMMA TradesInitially == TradesInit => TradesInv
<1> SUFFICES ASSUME TradesInit PROVE TradesInv
  OBVIOUS
<1>1. ListInv
  <2>1. IsFiniteSet({}) /\ <<>> \in Seq(Seq(Trades))
    BY FS_EmptySet
  <2> QED BY <2>1 DEF TradesInit, ListInv
<1>2. PagesInv
  BY DEF TradesInit, PagesInv, IsOpen
<1>3. CountInv
  BY DEF TradesInit, CountInv
<1>4. SeenInv
  BY DEF TradesInit, SeenInv, IsOpen
<1> QED BY <1>1, <1>2, <1>3, <1>4 DEF TradesInv

\* Nothing that was read changes, and no page is delivered.
LEMMA WaitingKeeps ==
    ASSUME TradesInv,
           \/ \E known \in BOOLEAN : ReadRegion(known)
           \/ CountTrades \/ TradesUnavailable \/ AskAgain \/ TurnPage
    PROVE  TradesInv'
<1>1. /\ UNCHANGED <<valid, list, shown, start, changed>> /\ Seen' = Seen
      /\ IsOpen /\ IsOpen' /\ tradePhase' # "shown"
  BY DEF ReadRegion, CountTrades, TradesUnavailable, AskAgain, TurnPage, Seen, IsOpen
<1>2. ListInv'
  <2>1. Cardinality(valid) \in Nat
    BY FS_CardinalityType DEF TradesInv, ListInv
  <2>2. page' \in Nat /\ total' \in Nat /\ torn' \in BOOLEAN
    <3>1. page \in Nat /\ total \in Nat /\ torn \in BOOLEAN
      BY DEF TradesInv, ListInv
    <3>2. page' = page \/ page' = page + 1
      BY DEF ReadRegion, CountTrades, TradesUnavailable, AskAgain, TurnPage
    <3>3. total' = total \/ total' = Cardinality(valid)
      BY DEF ReadRegion, CountTrades, TradesUnavailable, AskAgain, TurnPage
    <3>4. torn' = torn \/ torn' = FALSE
      BY DEF ReadRegion, CountTrades, TradesUnavailable, AskAgain, TurnPage
    <3>5. page' \in Nat
      BY <3>1, <3>2
    <3>6. total' \in Nat
      BY <2>1, <3>1, <3>3
    <3>7. torn' \in BOOLEAN
      BY <3>1, <3>4
    <3> QED BY <3>5, <3>6, <3>7
  <2>3. tradePhase' \in {"asked", "named", "counted", "notFound", "unavailable"}
    BY DEF ReadRegion, CountTrades, TradesUnavailable, AskAgain, TurnPage
  <2> QED BY <1>1, <2>2, <2>3 DEF TradesInv, ListInv
<1>3. PagesInv'
  <2>1. page' \in Nat \ {0} /\ Len(shown) = page' - 1
    <3>1. CASE TurnPage
      BY <1>1, <3>1 DEF TurnPage, TradesInv, PagesInv, ListInv
    <3>2. CASE ~TurnPage
      BY <1>1, <3>2 DEF ReadRegion, CountTrades, TradesUnavailable, AskAgain, TradesInv, PagesInv
    <3> QED BY <3>1, <3>2
  <2> QED BY <1>1, <2>1 DEF TradesInv, PagesInv, IsOpen
<1>4. CountInv'
  BY <1>1 DEF TradesInv, CountInv, ReadRegion, CountTrades, TradesUnavailable, AskAgain, TurnPage
<1>5. SeenInv'
  <2>1. ~ReadToTheEnd'
    BY <1>1 DEF ReadToTheEnd
  <2>2. OnPages(Len(shown))' = OnPages(Len(shown))
    BY <1>1 DEF OnPages
  <2>3. (ToSet(Seen))' = ToSet(Seen) /\ (IsInjective(Seen))' = IsInjective(Seen)
    BY <1>1
  <2> QED BY <1>1, <2>1, <2>2, <2>3 DEF TradesInv, SeenInv
<1> QED BY <1>2, <1>3, <1>4, <1>5 DEF TradesInv

LEMMA OpeningKeeps ==
    ASSUME TradesInv, NEW s \in Stocks, NEW o \in TradeSort, NEW n \in PageSizes,
           OpenList(s, o, n)
    PROVE  TradesInv'
<1>1. /\ ~IsOpen /\ IsOpen' /\ tradePhase' = "asked" /\ page' = 1
      /\ valid' = s /\ start' = s /\ list' = [sort |-> o, size |-> n]
      /\ UNCHANGED <<total, shown, changed, torn>>
  BY DEF OpenList, IsOpen
<1>2. s \in SUBSET Trades /\ IsFiniteSet(s)
  BY TradeAssumption
<1>3. shown = <<>> /\ changed = "no"
  BY <1>1 DEF TradesInv, PagesInv
<1>4. ListInv'
  BY <1>1, <1>2 DEF TradesInv, ListInv
<1>5. PagesInv'
  <2>1. Len(shown') = 0
    BY <1>1, <1>3
  <2> QED BY <1>1, <2>1 DEF PagesInv, IsOpen
<1>6. CountInv'
  BY <1>1 DEF CountInv
<1>7. SeenInv'
  <2>1. Seen' = <<>> /\ Len(shown') = 0
    BY <1>1, <1>3 DEF Seen, FlattenSeq
  <2>2. (ToSet(Seen))' = {} /\ (IsInjective(Seen))'
    BY <2>1 DEF ToSet, IsInjective
  <2>3. ASSUME NEW t \in s PROVE ~(PlaceOf(s, t, o) <= 0 * n)
    <3>1. PlaceOf(s, t, o) \in 1..Cardinality(s)
      BY <1>2, PlaceIsWithin
    <3>2. 0 * n = 0
      BY TradeAssumption
    <3> QED BY <3>1, <3>2
  <2>4. (OnPages(Len(shown)))' = {}
    BY <1>1, <2>1, <2>3 DEF OnPages
  <2>5. ~ReadToTheEnd'
    BY <1>1 DEF ReadToTheEnd
  <2> QED BY <2>2, <2>4, <2>5 DEF SeenInv
<1> QED BY <1>4, <1>5, <1>6, <1>7 DEF TradesInv

\* A page that comes puts the next places behind those that were seen.
LEMMA RowsKeep ==
    ASSUME TradesInv, ReadRows
    PROVE  TradesInv'
<1> DEFINE size == list.size
           sort == list.sort
<1>1. /\ IsOpen /\ IsOpen' /\ tradePhase = "counted" /\ tradePhase' = "shown"
      /\ UNCHANGED <<valid, list, page, total, start, changed, torn>>
  BY DEF ReadRows, IsOpen
<1>2. PICK order \in Orders(valid, list.sort) :
          shown' = Append(shown, PageRows(order, page, list.size))
  BY DEF ReadRows
<1> DEFINE rows == PageRows(order, page, size)
<1>3. size \in Nat \ {0} /\ page \in Nat \ {0} /\ Len(shown) = page - 1
  BY <1>1, SizeIsPositive DEF TradesInv, PagesInv
<1>4. valid \in SUBSET Trades /\ IsFiniteSet(valid) /\ shown \in Seq(Seq(Trades))
  BY DEF TradesInv, ListInv
<1>5. /\ rows \in Seq(valid) /\ IsInjective(rows)
      /\ ToSet(rows) = {t \in valid : (page - 1) * size < PlaceOf(valid, t, sort)
                                      /\ PlaceOf(valid, t, sort) <= page * size}
  <2>1. /\ rows \in Seq(valid) /\ IsInjective(rows)
        /\ ToSet(rows) = OnPage(valid, list.sort, page, list.size)
    BY <1>3, <1>4, RowsOfPage
  <2> QED BY <2>1 DEF OnPage
<1> HIDE DEF rows
<1>6. rows \in Seq(Trades)
  BY <1>4, <1>5
<1>7. shown' \in Seq(Seq(Trades)) /\ Len(shown') = page
  <2>1. /\ Append(shown, rows) \in Seq(Seq(Trades))
        /\ Len(Append(shown, rows)) = Len(shown) + 1
    BY <1>4, <1>6, AppendProperties
  <2> QED BY <1>2, <1>3, <2>1 DEF rows
<1>8. Seen \in Seq(Trades) /\ Seen' = Seen \o rows
  <2>1. FlattenSeq(shown) \in Seq(Trades)
        /\ FlattenSeq(Append(shown, rows)) = FlattenSeq(shown) \o rows
    BY <1>4, <1>6, FlattenGrows
  <2> QED BY <1>2, <2>1 DEF Seen, rows
<1>9. /\ ToSet(Seen') = ToSet(Seen) \cup ToSet(rows)
      /\ IsInjective(Seen) /\ ToSet(Seen) \cap ToSet(rows) = {} => IsInjective(Seen')
  BY <1>5, <1>6, <1>8, RowsTogether
<1> DEFINE first == {t \in valid : PlaceOf(valid, t, sort) <= (page - 1) * size}
           upTo == {t \in valid : PlaceOf(valid, t, sort) <= page * size}
<1>10. OnPages(Len(shown)) = first /\ (OnPages(Len(shown)))' = upTo
  BY <1>1, <1>3, <1>7 DEF OnPages
<1>11. upTo = first \cup ToSet(rows) /\ first \cap ToSet(rows) = {}
  <2>1. (page - 1) * size \in Nat /\ page * size \in Nat /\ (page - 1) * size <= page * size
    <3>1. page - 1 \in Nat /\ page * size = (page - 1) * size + size
      BY <1>3, SMT
    <3>2. (page - 1) * size \in Nat
      BY <1>3, <3>1, SMT
    <3> QED BY <1>3, <3>1, <3>2
  <2>2. \A t \in valid : PlaceOf(valid, t, sort) \in Nat
    BY <1>4, PlaceMovesBack
  <2> QED BY <1>5, <2>1, <2>2
<1> HIDE DEF first, upTo, size, sort
<1>12. ListInv'
  BY <1>1, <1>7 DEF TradesInv, ListInv
<1>13. PagesInv'
  BY <1>1, <1>7 DEF TradesInv, PagesInv
<1>14. CountInv'
  BY <1>1 DEF TradesInv, CountInv
<1>15. ASSUME changed' = "no" PROVE ToSet(Seen') = upTo /\ IsInjective(Seen')
  <2>1. ToSet(Seen) = first /\ IsInjective(Seen)
    BY <1>1, <1>10, <1>15 DEF TradesInv, SeenInv
  <2> QED BY <1>9, <1>11, <2>1
<1>16. ASSUME changed' # "cancelled" PROVE start \cap upTo \subseteq ToSet(Seen')
  <2>1. start \cap first \subseteq ToSet(Seen)
    BY <1>1, <1>10, <1>16 DEF TradesInv, SeenInv
  <2> QED BY <1>9, <1>11, <2>1
<1>17. ASSUME changed' # "cancelled", ~torn', ReadToTheEnd' PROVE start \subseteq ToSet(Seen')
  <2>1. total = Cardinality(valid) /\ start \subseteq valid
    BY <1>1, <1>17 DEF TradesInv, CountInv
  <2>2. page = TotalPages(total, size)
    BY <1>1, <1>17 DEF ReadToTheEnd, size
  <2>3. Cardinality(valid) \in Nat
    BY <1>4, FS_CardinalityType
  <2>4. Cardinality(valid) <= page * size /\ page * size \in Nat
    <3>1. total <= TotalPages(total, size) * size
      BY <1>3, <2>1, <2>3, PagesAreEnough
    <3>2. page * size \in Nat
      BY <1>3, SMT
    <3> QED BY <2>1, <2>2, <3>1, <3>2
  <2>5. ASSUME NEW t \in valid PROVE t \in upTo
    <3>1. PlaceOf(valid, t, sort) \in 1..Cardinality(valid)
      BY <1>4, PlaceIsWithin
    <3> QED BY <2>3, <2>4, <3>1 DEF upTo
  <2> QED BY <1>16, <1>17, <2>1, <2>5
<1>18. SeenInv'
  BY <1>1, <1>10, <1>15, <1>16, <1>17 DEF SeenInv
<1> QED BY <1>12, <1>13, <1>14, <1>18 DEF TradesInv

\* What is loaded pushes others back, what is cancelled ends the promises.
LEMMA ChangesKeep ==
    ASSUME TradesInv, NEW t \in Trades, LoadTrade(t) \/ CancelTrade(t)
    PROVE  TradesInv'
<1>1. /\ IsOpen /\ IsOpen' /\ changed # "cancelled"
      /\ UNCHANGED <<list, tradePhase, page, total, shown, start>> /\ Seen' = Seen
      /\ torn' = (torn \/ tradePhase = "counted")
  BY DEF LoadTrade, CancelTrade, Changed, IsOpen, Seen
<1>2. valid \in SUBSET Trades /\ IsFiniteSet(valid)
  BY DEF TradesInv, ListInv
<1>3. valid' \in SUBSET Trades /\ IsFiniteSet(valid')
  <2>1. IsFiniteSet(valid \cup {t}) /\ IsFiniteSet(valid \ {t})
    BY <1>2, FS_AddElement, FS_RemoveElement
  <2> QED BY <1>2, <2>1 DEF LoadTrade, CancelTrade, Changed
<1>4. ListInv'
  <2>1. torn' \in BOOLEAN
    BY <1>1
  <2>2. changed' \in {"no", "loaded", "cancelled"}
    BY DEF LoadTrade, CancelTrade, Changed
  <2> QED BY <1>1, <1>3, <2>1, <2>2 DEF TradesInv, ListInv
<1>5. PagesInv'
  BY <1>1 DEF TradesInv, PagesInv
<1>6. CASE CancelTrade(t)
  <2>1. changed' = "cancelled"
    BY <1>6 DEF CancelTrade, Changed
  <2>2. CountInv' /\ SeenInv'
    BY <2>1 DEF CountInv, SeenInv
  <2> QED BY <1>4, <1>5, <2>2 DEF TradesInv
<1>7. CASE LoadTrade(t)
  <2>1. valid' = valid \cup {t} /\ changed' = "loaded"
    BY <1>7 DEF LoadTrade, Changed
  <2>2. CountInv'
    BY <1>1, <2>1 DEF TradesInv, CountInv
  <2>3. (OnPages(Len(shown)))' \cap valid \subseteq OnPages(Len(shown))
    <3> SUFFICES ASSUME NEW u \in valid,
                        PlaceOf(valid', u, list.sort) <= Len(shown) * list.size
                 PROVE  PlaceOf(valid, u, list.sort) <= Len(shown) * list.size
      BY <1>1 DEF OnPages
    <3>1. /\ PlaceOf(valid, u, list.sort) \in Nat /\ PlaceOf(valid', u, list.sort) \in Nat
          /\ PlaceOf(valid, u, list.sort) <= PlaceOf(valid', u, list.sort)
      BY <1>3, <2>1, PlaceMovesBack
    <3>2. Len(shown) \in Nat /\ list.size \in Nat
      BY <1>1, SizeIsPositive DEF TradesInv, ListInv
    <3>3. Len(shown) * list.size \in Nat
      BY <3>2, SMT
    <3> QED BY <3>1, <3>3
  <2>4. start \subseteq valid /\ start \cap OnPages(Len(shown)) \subseteq ToSet(Seen)
    BY <1>1 DEF TradesInv, CountInv, SeenInv
  <2>5. start' \cap (OnPages(Len(shown)))' \subseteq ToSet(Seen')
    BY <1>1, <2>3, <2>4
  <2>6. ASSUME ~torn', ReadToTheEnd' PROVE start' \subseteq ToSet(Seen')
    <3>1. ~torn /\ ReadToTheEnd
      BY <1>1, <2>6 DEF ReadToTheEnd
    <3> QED BY <1>1, <3>1 DEF TradesInv, SeenInv
  <2>7. SeenInv'
    BY <2>1, <2>5, <2>6 DEF SeenInv
  <2> QED BY <1>4, <1>5, <2>2, <2>7 DEF TradesInv
<1> QED BY <1>6, <1>7

LEMMA TradesStepKeeps == TradesInv /\ [TradesNext]_tradeVars => TradesInv'
<1> SUFFICES ASSUME TradesInv, [TradesNext]_tradeVars PROVE TradesInv'
  OBVIOUS
<1>1. CASE \E s \in Stocks, o \in TradeSort, n \in PageSizes : OpenList(s, o, n)
  BY <1>1, OpeningKeeps
<1>2. CASE \/ \E known \in BOOLEAN : ReadRegion(known)
           \/ CountTrades \/ TradesUnavailable \/ AskAgain \/ TurnPage
  BY <1>2, WaitingKeeps
<1>3. CASE ReadRows
  BY <1>3, RowsKeep
<1>4. CASE \E t \in Trades : LoadTrade(t) \/ CancelTrade(t)
  BY <1>4, ChangesKeep
<1>5. CASE UNCHANGED tradeVars
  BY <1>5 DEF tradeVars, TradesInv, ListInv, PagesInv, CountInv, SeenInv, IsOpen, Seen, OnPages,
              ReadToTheEnd
<1> QED BY <1>1, <1>2, <1>3, <1>4, <1>5 DEF TradesNext

\* The types of the list and of what is shown of it.
THEOREM TradesTypeCorrect == TradesSpec => []TradesTypeOK
<1>1. TradesInv => TradesTypeOK
  <2> SUFFICES ASSUME TradesInv PROVE TradesTypeOK
    OBVIOUS
  <2>1. ASSUME NEW n \in DOMAIN shown PROVE ToSet(shown[n]) \subseteq Trades
    <3>1. shown[n] \in Seq(Trades)
      BY DEF TradesInv, ListInv
    <3> QED BY <3>1 DEF ToSet
  <2>2. list \in [sort : TradeSort, size : PageSizes] \cup {<<>>}
    BY DEF TradesInv, PagesInv
  <2> QED BY <2>1, <2>2 DEF TradesInv, ListInv, TradesTypeOK
<1> QED BY <1>1, TradesInitially, TradesStepKeeps, PTL DEF TradesSpec

\* Whoever turns the pages to the last one has seen each trade once, and when more
\* are loaded meanwhile, none of those there were at first is missed
\* (read_region_trades: count, rows and pages, each a statement of its own).
THEOREM NoTradeLost == TradesSpec => []NoTradeIsLost
<1>1. TradesInv => NoTradeIsLost
  <2> SUFFICES ASSUME TradesInv, ReadToTheEnd
               PROVE  /\ changed = "no" => ToSet(Seen) = valid /\ IsInjective(Seen)
                      /\ changed = "loaded" /\ ~torn => start \subseteq ToSet(Seen)
    BY DEF NoTradeIsLost, Seen
  <2>1. IsOpen /\ tradePhase = "shown" /\ page = TotalPages(total, list.size)
    BY DEF ReadToTheEnd, IsOpen
  <2>2. ASSUME changed = "no" PROVE ToSet(Seen) = valid /\ IsInjective(Seen)
    <3>1. valid \in SUBSET Trades /\ IsFiniteSet(valid) /\ Cardinality(valid) \in Nat
      BY FS_CardinalityType DEF TradesInv, ListInv
    <3>2. list.size \in Nat \ {0} /\ Len(shown) = page /\ page \in Nat
      BY <2>1, SizeIsPositive DEF TradesInv, PagesInv
    <3>3. total = Cardinality(valid)
      BY <2>1, <2>2 DEF TradesInv, CountInv
    <3>4. Cardinality(valid) <= page * list.size /\ page * list.size \in Nat
      <4>1. total <= TotalPages(total, list.size) * list.size
        BY <3>1, <3>2, <3>3, PagesAreEnough
      <4>2. page * list.size \in Nat
        BY <3>2, SMT
      <4> QED BY <2>1, <3>3, <4>1, <4>2
    <3>5. ASSUME NEW t \in valid PROVE PlaceOf(valid, t, list.sort) <= page * list.size
      <4>1. PlaceOf(valid, t, list.sort) \in 1..Cardinality(valid)
        BY <3>1, PlaceIsWithin
      <4> QED BY <3>1, <3>4, <4>1
    <3>6. OnPages(Len(shown)) = valid
      BY <3>2, <3>5 DEF OnPages
    <3> QED BY <2>1, <2>2, <3>6 DEF TradesInv, SeenInv
  <2>3. ASSUME changed = "loaded", ~torn PROVE start \subseteq ToSet(Seen)
    BY <2>1, <2>3 DEF TradesInv, SeenInv
  <2> QED BY <2>2, <2>3
<1> QED BY <1>1, TradesInitially, TradesStepKeeps, PTL DEF TradesSpec

-------------------------------------------------------------------------------
(* Advice: each step is a step of one part, the others stand still. *)

LEMMA PartsRest ==
    /\ NoQuestion => UNCHANGED eligibilityVars
    /\ NoSavings => UNCHANGED savingsVars
    /\ NoHome => UNCHANGED homeVars
    /\ NoLife => UNCHANGED lifeVars
    /\ NoTrades => UNCHANGED tradeVars
BY DEF NoQuestion, NoSavings, NoHome, NoLife, NoTrades

LEMMA StepIsOfOnePart ==
    ASSUME [AdviceNext]_adviceVars
    PROVE  /\ [EligibilityNext]_eligibilityVars /\ [SavingsNext]_savingsVars
           /\ [HomeNext]_homeVars /\ [LifeNext]_lifeVars /\ [TradesNext]_tradeVars
<1>1. CASE ServeQuestion
  BY <1>1, PartsRest DEF ServeQuestion
<1>2. CASE ServeSavings
  BY <1>2, PartsRest DEF ServeSavings
<1>3. CASE ServeHome
  BY <1>3, PartsRest DEF ServeHome
<1>4. CASE ServeLife
  BY <1>4, PartsRest DEF ServeLife
<1>5. CASE ServeTrades
  BY <1>5, PartsRest DEF ServeTrades
<1>6. CASE UNCHANGED adviceVars
  BY <1>6 DEF adviceVars
<1> QED BY <1>1, <1>2, <1>3, <1>4, <1>5, <1>6 DEF AdviceNext

\* Advice is each of its parts: whatever holds of a part by itself holds of it here.
THEOREM AdviceIsItsParts ==
    AdviceSafety =>
        EligibilitySpec /\ SavingsSafety /\ HomeSafety /\ LifeSafety /\ TradesSpec
<1>1. AdviceInit => EligibilityInit /\ SavingsInit /\ HomeInit /\ LifeInit /\ TradesInit
  BY DEF AdviceInit
<1>2. [AdviceNext]_adviceVars =>
        /\ [EligibilityNext]_eligibilityVars /\ [SavingsNext]_savingsVars
        /\ [HomeNext]_homeVars /\ [LifeNext]_lifeVars /\ [TradesNext]_tradeVars
  BY StepIsOfOnePart
<1> QED BY <1>1, <1>2, PTL
        DEF AdviceSafety, EligibilitySpec, SavingsSafety, HomeSafety, LifeSafety, TradesSpec

\* The types of all parts together.
THEOREM AdviceTypeCorrect == AdviceSpec => []AdviceTypeOK
<1>1. AdviceSpec => AdviceSafety
  BY PTL DEF AdviceSpec
<1> QED BY <1>1, AdviceIsItsParts, EligibilityTypeCorrect, SavingsTypeCorrect, HomeTypeCorrect,
           LifeTypeCorrect, TradesTypeCorrect, PTL DEF AdviceTypeOK

\* Every promise of a part is a promise of the whole service, whatever is asked of
\* the other parts before and after.
THEOREM AdviceKeepsItsPromises ==
    AdviceSpec =>
        /\ AnswersStand /\ BalancesOnlyFall /\ MinimumNeverOverstates
        /\ [](/\ PortfolioIsSound /\ ReserveIsKept /\ NoSingleProductEarnsMore
              /\ ReserveSurvivesPurchase /\ NeverLooserThanTheWorld /\ UnknownNamesItsGap
              /\ LoanIsRepaidInFull /\ CurveEndsAtZero /\ NoTradeIsLost)
<1>1. AdviceSpec => AdviceSafety
  BY PTL DEF AdviceSpec
<1>2. AdviceSafety => AnswersStand /\ BalancesOnlyFall /\ MinimumNeverOverstates
  BY AdviceIsItsParts, AnswersNeverTurn, OnlyFalling, MinimumOnlyRises
<1> QED BY <1>1, <1>2, AdviceIsItsParts, SoundPortfolios, ReserveStays, SpreadingPays,
           AffordableKeepsTheFund, LimitIsLawful, UnknownIsExplained, RepaidInFull,
           CurveComesToNothing, NoTradeLost, PTL
===============================================================================
