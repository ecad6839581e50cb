---------------------------- MODULE LoanLimit_proofs ----------------------------
(***************************************************************************)
(* Proofs about LoanLimit, for every set of options, requests and rates    *)
(* and every monotone payment function: both bisections keep their bracket *)
(* (the inductive invariant), and what is offered can be served, misses    *)
(* the optimum by no more than Epsilon, and loses nothing to the shortened *)
(* term.                                                                   *)
(***************************************************************************)
EXTENDS LoanLimit, WellFoundedInduction, TLAPS

\* A non-empty set of naturals has a least element.
LEMMA Smallest ==
  ASSUME NEW S \in SUBSET Nat, S # {}
  PROVE  \E x \in S : \A y \in S : x <= y
  <1>1. PICK x \in S : \A y \in S : ~ (<<y, x>> \in OpToRel(<, Nat))
    BY NatLessThanWellFounded, WFMin
  <1>2. \A y \in S : <<y, x>> \in Nat \X Nat
    OBVIOUS
  <1>3. \A y \in S : ~(y < x)
    BY <1>1, <1>2 DEF OpToRel
  <1> QED BY <1>3

\* Max of a bounded set of naturals is its largest element.
LEMMA MaxOfBounded ==
  ASSUME NEW n \in Nat, NEW S \in SUBSET (0..n), S # {}
  PROVE  Max(S) \in S /\ \A y \in S : y <= Max(S)
  <1> DEFINE T == {n - x : x \in S}
  <1>1. T \in SUBSET Nat /\ T # {}
    <2>1. \A x \in S : n - x \in Nat
      OBVIOUS
    <2> QED BY <2>1
  <1>2. PICK t \in T : \A u \in T : t <= u
    BY <1>1, Smallest
  <1>3. PICK x \in S : t = n - x
    OBVIOUS
  <1>4. \A y \in S : x >= y
    <2> TAKE y \in S
    <2>1. n - y \in T
      OBVIOUS
    <2>2. t <= n - y
      BY <1>2, <2>1
    <2> HIDE DEF T
    <2> QED BY <1>3, <2>2
  <1> QED BY <1>4 DEF Max

\* Min of the four bounds of an option is one of them and below the others.
LEMMA MinOfFour ==
  ASSUME NEW a \in Nat, NEW b \in Nat, NEW c \in Nat, NEW d \in Nat
  PROVE  LET m == Min({a, b, c, d})
         IN  m \in {a, b, c, d} /\ m <= a /\ m <= b /\ m <= c /\ m <= d
  <1>1. \E x \in {a, b, c, d} : \A y \in {a, b, c, d} : x <= y
    BY Smallest
  <1> QED BY <1>1 DEF Min

LEMMA MinOfTwo ==
  ASSUME NEW a \in Nat, NEW b \in Nat
  PROVE  Min({a, b}) = IF a <= b THEN a ELSE b
  <1>1. \E x \in {a, b} : \A y \in {a, b} : x <= y
    BY Smallest
  <1> QED BY <1>1 DEF Min

-------------------------------------------------------------------------------
LEMMA RequestType ==
  ASSUME request \in Requests, NEW o \in Offers
  PROVE  /\ request.required \in Amounts /\ request.months \in Months
         /\ request.ltv \in Amounts \cup {Unknown}
         /\ request.dti \in Int \cup {NoLimit, Unknown}
         /\ request.dsr \in Int /\ request.cash \in Int
         /\ option(o) \in LoanOption
         /\ option(o).rate \in Rates
         /\ option(o).assess # Unknown =>
                option(o).assess \in Rates /\ option(o).rate <= option(o).assess
  BY RequestAssumption DEF LoanSimulationRequest, LoanOption, option

LEMMA DtiLimitType ==
  ASSUME request \in Requests, NEW o \in Offers PROVE DtiLimit(o) \in Amounts
  <1> DEFINE S == {p \in Amounts :
            p = 0 \/ 12 * Payment(option(o).rate, request.months, p) <= request.dti}
  <1>1. S \in SUBSET (0..MaxAmount) /\ 0 \in S
    BY BoundAssumption DEF Amounts
  <1>2. Max(S) \in S
    BY <1>1, MaxOfBounded, BoundAssumption
  <1> QED BY <1>2 DEF DtiLimit

\* An option whose data are known in a settled request has a target.
LEMMA TargetType ==
  ASSUME request \in Requests, NEW o \in Offers, Settled, option(o).limit # Unknown
  PROVE  Target(o) \in Amounts /\ Target(o) <= request.required
  <1> DEFINE a == request.required
             b == IF option(o).limit = NoLimit THEN request.required ELSE option(o).limit
             c == IF option(o).regulated THEN request.ltv ELSE request.required
             d == IF option(o).regulated /\ request.dti # NoLimit THEN DtiLimit(o)
                                                    ELSE request.required
  <1>1. a \in Amounts /\ b \in Amounts /\ c \in Amounts /\ d \in Amounts
    BY RequestType, DtiLimitType DEF Settled, LoanOption
  <1>2. Amounts \subseteq Nat
    BY DEF Amounts
  <1>3. Min({a, b, c, d}) \in {a, b, c, d} /\ Min({a, b, c, d}) <= a
    BY <1>1, <1>2, MinOfFour
  <1> QED BY <1>1, <1>3 DEF Target, Bounds

\* The payment grows with the rate and the principal and falls with the term.
LEMMA PaymentMonotone ==
  ASSUME NEW r \in Rates, NEW s \in Rates, NEW m \in Months, NEW n \in Months,
         NEW p \in Amounts, NEW q \in Amounts, r <= s, n <= m, p <= q
  PROVE  /\ Payment(r, m, p) \in Nat /\ Payment(s, n, q) \in Nat
         /\ Payment(r, m, p) <= Payment(s, n, q)
  BY PaymentAssumption, Zenon

\* What can be served stays so with more months and with less principal.
LEMMA ServiceableMonotone ==
  ASSUME request \in Requests, NEW o \in Offers, option(o).assess # Unknown,
         NEW m \in Months, NEW n \in Months, NEW p \in Amounts, NEW q \in Amounts,
         m <= n, q <= p, Serviceable(o, m, p)
  PROVE  Serviceable(o, n, q)
  <1>1. option(o).rate \in Rates /\ option(o).assess \in Rates
    BY RequestType
  <1>2. \A r \in Rates : /\ Payment(r, n, q) \in Nat /\ Payment(r, m, p) \in Nat
                         /\ Payment(r, n, q) <= Payment(r, m, p)
    <2> TAKE r \in Rates
    <2>1. r <= r
      BY BoundAssumption
    <2> QED BY <2>1, PaymentMonotone
  <1> QED BY <1>1, <1>2, RequestType DEF Serviceable

-------------------------------------------------------------------------------
\* Each action keeps the brackets.
LEMMA InitInvariant == Init => IInv
  <1> SUFFICES ASSUME Init PROVE IInv
    OBVIOUS
  <1> USE BoundAssumption
  <1>1. request \in Requests /\ passed = {} /\ search = Idle /\ phase = "route"
    BY DEF Init
  <1>2. TypeOK
    BY DEF Init, TypeOK
  <1>3. PassedIsSettled /\ TermBracket /\ AmountBracket
    BY <1>1 DEF PassedIsSettled, TermBracket, AmountBracket
  <1>4. /\ ShortestIsExact /\ TermsGiven /\ AmountIsServiceable
        /\ NearestBelow /\ BelowTarget
    BY DEF Init, ShortestIsExact, TermsGiven, AmountIsServiceable, NearestBelow, BelowTarget
  <1> QED BY <1>2, <1>3, <1>4 DEF IInv

\* The parts of the invariant that speak of the routing and the terms only.
LEMMA Unmoved ==
  ASSUME IInv, UNCHANGED request
  PROVE  /\ Settled' = Settled
         /\ \A o : option(o)' = option(o) /\ Target(o)' = Target(o)
         /\ \A o, m, p : Serviceable(o, m, p)' = Serviceable(o, m, p)
  BY DEF Settled, option, Target, Bounds, DtiLimit, Serviceable

LEMMA PassedOption ==
  ASSUME IInv, NEW o \in passed
  PROVE  /\ o \in Offers /\ Settled /\ option(o).assess # Unknown
         /\ Target(o) \in Amounts /\ Target(o) \in Nat /\ Target(o) <= MaxAmount
         /\ Target(o) <= request.required
         /\ request.months \in Months /\ request.months \in Nat
  <1>1. o \in Offers /\ request \in Requests
    BY DEF IInv, TypeOK
  <1>2. Settled /\ option(o).assess # Unknown /\ option(o).limit # Unknown
    BY DEF IInv, PassedIsSettled
  <1>3. Target(o) \in Amounts /\ Target(o) <= request.required
    BY <1>1, <1>2, TargetType
  <1>4. request.months \in Months
    BY <1>1, RequestType
  <1> QED BY <1>1, <1>2, <1>3, <1>4, BoundAssumption DEF Amounts, Months

LEMMA CommonIsLongest ==
  ASSUME IInv, passed # {}, Common # None
  PROVE  /\ Common \in Months /\ Common <= request.months
         /\ \A o \in passed : shortest[o] \in Months /\ shortest[o] <= Common
         /\ \E k \in passed : shortest[k] = Common
  <1> DEFINE S == {shortest[o] : o \in passed}
  <1>1. \A o \in passed : shortest[o] # None
    BY DEF Common
  <1>2. \A o \in passed : shortest[o] \in Months /\ shortest[o] <= request.months
    BY <1>1 DEF IInv, TypeOK, ShortestIsExact
  <1>3. S \in SUBSET (0..MaxMonths) /\ S # {}
    BY <1>2, BoundAssumption DEF Months
  <1>4. Max(S) \in S /\ \A y \in S : y <= Max(S)
    BY <1>3, MaxOfBounded, BoundAssumption
  <1>5. Common = Max(S)
    BY <1>1 DEF Common
  <1>6. PICK k \in passed : shortest[k] = Common
    BY <1>4, <1>5
  <1>7. \A o \in passed : shortest[o] <= Common
    BY <1>4, <1>5
  <1> QED BY <1>2, <1>6, <1>7

\* The term of a calculation serves the whole target if it is a shortened one.
LEMMA TermServes ==
  ASSUME IInv, NEW o \in passed
  PROVE  /\ Term(o) \in Months /\ Term(o) <= request.months
         /\ Term(o) < request.months => Serviceable(o, Term(o), Target(o))
  <1>1. o \in Offers /\ request \in Requests /\ option(o).assess # Unknown
        /\ Target(o) \in Amounts /\ Target(o) <= Target(o) /\ request.months \in Months
    BY PassedOption DEF IInv, TypeOK, Amounts
  <1>2. Months \subseteq Nat /\ None \notin Months
    BY BoundAssumption DEF Months
  <1>3. CASE Common # None
    <2>1. Common \in Months /\ Common <= request.months
      BY <1>3, CommonIsLongest
    <2>2. shortest[o] \in Months /\ shortest[o] <= Common
      BY <1>3, CommonIsLongest
    <2>3. Serviceable(o, shortest[o], Target(o))
      BY <1>1, <1>2, <2>2 DEF IInv, ShortestIsExact
    <2>4. Serviceable(o, Common, Target(o))
      BY <1>1, <2>1, <2>2, <2>3, ServiceableMonotone
    <2>5. Term(o) = Common
      BY <1>1, <1>2, <1>3, <2>1, MinOfTwo DEF Term
    <2> QED BY <2>1, <2>4, <2>5
  <1>4. CASE Common = None /\ shortest[o] # None
    <2>1. shortest[o] \in Months /\ shortest[o] <= request.months
          /\ Serviceable(o, shortest[o], Target(o))
      BY <1>1, <1>4 DEF IInv, TypeOK, ShortestIsExact
    <2>2. Term(o) = shortest[o]
      BY <1>1, <1>2, <1>4, <2>1, MinOfTwo DEF Term
    <2> QED BY <2>1, <2>2
  <1>5. CASE Common = None /\ shortest[o] = None
    <2>1. Term(o) = request.months
      BY <1>5 DEF Term
    <2>2. request.months \in Nat
      BY <1>1, <1>2
    <2> QED BY <1>1, <2>1, <2>2
  <1> QED BY <1>3, <1>4, <1>5

-------------------------------------------------------------------------------
(* The bisection over months. *)

\* The conjuncts about amounts are untouched while no amount moves.
LEMMA AmountsUntouched ==
  ASSUME IInv, UNCHANGED <<request, months, amount>>
  PROVE  AmountIsServiceable' /\ NearestBelow' /\ BelowTarget'
  BY Unmoved DEF IInv, AmountIsServiceable, NearestBelow, BelowTarget, Serviceable, option

\* The conjuncts of the invariant that a step of the routing or of the terms
\* can disturb only by its own writes.
LEMMA RouteStep ==
  ASSUME IInv, Refuse \/ Routed \/ (\E o \in todo : Adapt(o))
  PROVE  IInv'
  <1>1. /\ UNCHANGED <<request, search, shortest, months, amount, executable, notExecutable>>
        /\ phase = "route" /\ search = Idle
    BY DEF Refuse, Routed, Adapt, result, IInv, PassedIsSettled
  <1>2. \A o \in Offers : shortest[o] = None => shortest'[o] = None
    BY <1>1
  <1>3. passed \subseteq passed'
    BY DEF Refuse, Routed, Adapt, routing
  <1>4. TypeOK'
    BY <1>1 DEF Refuse, Routed, Adapt, routing, Treat, IInv, TypeOK
  <1>5. PassedIsSettled'
    BY <1>1, Unmoved DEF Refuse, Routed, Adapt, routing, Treat, IInv, TypeOK, PassedIsSettled
  <1>6. TermBracket' /\ AmountBracket'
    BY <1>1 DEF TermBracket, AmountBracket
  <1>7. ShortestIsExact'
    BY <1>1, <1>3, Unmoved DEF IInv, ShortestIsExact
  <1>8. \A o \in Offers : months[o] = None /\ amount[o] = None
    BY <1>1 DEF IInv, TermsGiven
  <1>9. TermsGiven'
    <2>1. CASE phase' \in {"route", "terms"}
      BY <1>1, <1>8, <2>1 DEF TermsGiven
    <2>2. CASE Refuse
      BY <1>1, <1>8, <2>2 DEF Refuse, routing, IInv, PassedIsSettled, TermsGiven
    <2> QED BY <2>1, <2>2, <1>1 DEF Routed, Adapt
  <1>10. AmountIsServiceable' /\ NearestBelow' /\ BelowTarget'
    BY <1>1, AmountsUntouched
  <1> QED BY <1>4, <1>5, <1>6, <1>7, <1>9, <1>10 DEF IInv

LEMMA BeginTermStep ==
  ASSUME IInv, NEW o \in todo, BeginTerm(o)
  PROVE  IInv'
  <1>1. /\ UNCHANGED <<request, phase, passed, months, amount>>
        /\ phase = "terms" /\ search = Idle /\ o \in passed /\ todo' \subseteq todo
    BY DEF BeginTerm, routing, result, Treat, IInv, PassedIsSettled
  <1>2. o \in Offers /\ request.months \in Months /\ request.months \in Nat
        /\ 1 \in Months /\ 1 <= request.months
    BY <1>1, PassedOption, BoundAssumption DEF Months
  <1>3. TypeOK'
    BY <1>1, <1>2 DEF BeginTerm, routing, result, Treat, IInv, TypeOK, Searches
  <1>4. PassedIsSettled'
    BY <1>1, Unmoved DEF BeginTerm, IInv, PassedIsSettled, Idle
  <1>5. TermBracket' /\ AmountBracket'
    BY <1>1, <1>2, Unmoved DEF BeginTerm, TermBracket, AmountBracket, Idle
  <1>6. ShortestIsExact'
    BY <1>1, <1>2, Unmoved DEF BeginTerm, IInv, TypeOK, ShortestIsExact
  <1>7. TermsGiven'
    BY <1>1 DEF IInv, TermsGiven
  <1>8. AmountIsServiceable' /\ NearestBelow' /\ BelowTarget'
    BY <1>1, AmountsUntouched
  <1> QED BY <1>3, <1>4, <1>5, <1>6, <1>7, <1>8 DEF IInv

\* The middle of a bracket of at least two months lies strictly inside it.
LEMMA MiddleInside ==
  ASSUME NEW a \in Nat, NEW b \in Nat, b - a > 1
  PROVE  (a + b) \div 2 \in Nat /\ a < (a + b) \div 2 /\ (a + b) \div 2 < b
  OBVIOUS

LEMMA HalveTermStep ==
  ASSUME IInv, HalveTerm
  PROVE  IInv'
  <1>1. /\ UNCHANGED <<request, phase, todo, passed, shortest, months, amount>>
        /\ phase = "terms" /\ search # Idle /\ search \in Searches
        /\ search.hi - search.lo > 1
    BY DEF HalveTerm, routing, result, IInv, TypeOK
  <1>2. search.offer \in passed /\ search.lo \in Nat /\ search.hi \in Nat
    BY <1>1 DEF Searches, IInv, PassedIsSettled
  <1>3. Middle \in Nat /\ search.lo < Middle /\ Middle < search.hi
    BY <1>1, <1>2, MiddleInside DEF Middle
  <1>4. /\ search' \in Searches /\ search' # Idle /\ search'.offer = search.offer
        /\ \/ /\ search'.lo = search.lo /\ search'.hi = Middle
              /\ Serviceable(search.offer, Middle, Target(search.offer))
           \/ /\ search'.lo = Middle /\ search'.hi = search.hi
              /\ ~Serviceable(search.offer, Middle, Target(search.offer))
    BY <1>1, <1>2, <1>3 DEF HalveTerm, Halve, Searches, Idle
  <1>5. TypeOK'
    BY <1>1, <1>4 DEF HalveTerm, routing, result, IInv, TypeOK
  <1>6. PassedIsSettled'
    BY <1>1, <1>4, Unmoved DEF IInv, PassedIsSettled
  <1>7. request.months \in Nat
    BY <1>2, PassedOption
  <1>8. TermBracket' /\ AmountBracket'
    BY <1>1, <1>2, <1>3, <1>4, <1>7, Unmoved DEF IInv, TermBracket, AmountBracket
  <1>9. ShortestIsExact'
    BY <1>1, Unmoved DEF IInv, ShortestIsExact
  <1>10. TermsGiven'
    BY <1>1 DEF IInv, TermsGiven
  <1> QED BY <1>1, <1>5, <1>6, <1>8, <1>9, <1>10, AmountsUntouched DEF IInv

LEMMA EndTermStep ==
  ASSUME IInv, EndTerm
  PROVE  IInv'
  <1>1. /\ UNCHANGED <<request, phase, todo, passed, months, amount>>
        /\ phase = "terms" /\ search # Idle /\ search \in Searches /\ search' = Idle
        /\ search.hi - search.lo <= 1
    BY DEF EndTerm, routing, result, IInv, TypeOK
  <1>2. search.offer \in passed /\ search.lo \in Nat /\ search.hi \in Nat
    BY <1>1 DEF Searches, IInv, PassedIsSettled
  <1>3. request.months \in Months /\ request.months \in Nat
    BY <1>2, PassedOption
  <1>4. /\ search.hi \in Months /\ search.hi <= request.months /\ search.lo = search.hi - 1
        /\ Serviceable(search.offer, search.hi, Target(search.offer))
        /\ ~Serviceable(search.offer, search.hi - 1, Target(search.offer))
    BY <1>1, <1>2, <1>3, BoundAssumption DEF IInv, TermBracket, Months
  <1>5. TypeOK'
    BY <1>1, <1>2, <1>4 DEF EndTerm, routing, result, IInv, TypeOK
  <1>6. PassedIsSettled'
    BY <1>1, Unmoved DEF IInv, PassedIsSettled
  <1>7. ShortestIsExact'
    BY <1>1, <1>2, <1>4, Unmoved DEF EndTerm, IInv, TypeOK, ShortestIsExact
  <1>8. TermBracket' /\ AmountBracket'
    BY <1>1 DEF TermBracket, AmountBracket
  <1>9. TermsGiven'
    BY <1>1 DEF IInv, TermsGiven
  <1> QED BY <1>1, <1>5, <1>6, <1>7, <1>8, <1>9, AmountsUntouched DEF IInv

LEMMA ShortenStep ==
  ASSUME IInv, Shorten
  PROVE  IInv'
  <1>1. /\ UNCHANGED <<request, search, passed, shortest, amount>>
        /\ phase = "terms" /\ phase' = "amounts" /\ search = Idle /\ todo' = passed
        /\ months' = [o \in Offers |-> IF o \in passed THEN Term(o) ELSE None]
    BY DEF Shorten, routing, result
  <1>2. \A o \in Offers : amount[o] = None
    BY <1>1 DEF IInv, TermsGiven
  <1>3. \A o : Term(o)' = Term(o)
    BY <1>1 DEF Term, Common
  <1>4. \A o \in passed : Term(o) \in Months
    BY TermServes
  <1>5. TypeOK'
    BY <1>1, <1>4 DEF Shorten, routing, result, IInv, TypeOK
  <1>6. PassedIsSettled'
    BY <1>1, Unmoved DEF IInv, PassedIsSettled
  <1>7. TermBracket' /\ AmountBracket'
    BY <1>1 DEF TermBracket, AmountBracket
  <1>8. ShortestIsExact'
    BY <1>1, Unmoved DEF IInv, ShortestIsExact
  <1>9. TermsGiven'
    BY <1>1, <1>2, <1>3 DEF TermsGiven
  <1>10. AmountIsServiceable' /\ NearestBelow' /\ BelowTarget'
    BY <1>1, <1>2 DEF AmountIsServiceable, NearestBelow, BelowTarget
  <1> QED BY <1>5, <1>6, <1>7, <1>8, <1>9, <1>10 DEF IInv

-------------------------------------------------------------------------------
(* The bisection over amounts. *)

\* Nothing about the terms changes in this phase.
LEMMA TermsUntouched ==
  ASSUME IInv, UNCHANGED <<request, passed, shortest, months>>,
         phase = "amounts", phase' \in {"amounts", "done"},
         \A o \in Offers : amount'[o] # None => o \in passed
  PROVE  ShortestIsExact' /\ TermsGiven' /\ TermBracket'
  <1>1. \A o : Term(o)' = Term(o)
    BY DEF Term, Common
  <1>2. ShortestIsExact'
    BY Unmoved DEF IInv, ShortestIsExact
  <1>3. TermsGiven'
    BY <1>1 DEF IInv, TermsGiven
  <1> QED BY <1>2, <1>3 DEF TermBracket

LEMMA CalculatedTerm ==
  ASSUME IInv, phase \in {"amounts", "done"}, NEW o \in passed
  PROVE  months[o] = Term(o) /\ months[o] \in Months
  <1>1. o \in Offers
    BY PassedOption
  <1> QED BY <1>1, TermServes DEF IInv, TermsGiven

LEMMA BeginAmountStep ==
  ASSUME IInv, NEW o \in todo, BeginAmount(o)
  PROVE  IInv'
  <1>1. /\ UNCHANGED <<request, phase, passed, shortest, months, amount>>
        /\ phase = "amounts" /\ o \in passed /\ todo' \subseteq todo
        /\ search' = [offer |-> o, lo |-> 0, hi |-> Target(o)]
    BY DEF BeginAmount, routing, result, Treat, IInv, PassedIsSettled
  <1>2. o \in Offers /\ Target(o) \in Nat
    BY <1>1, PassedOption
  <1>3. TypeOK'
    BY <1>1, <1>2 DEF BeginAmount, routing, result, IInv, TypeOK, Searches
  <1>4. PassedIsSettled'
    BY <1>1, Unmoved DEF IInv, PassedIsSettled
  <1>5. AmountBracket'
    BY <1>1, <1>2, Unmoved DEF AmountBracket
  <1>6. ShortestIsExact' /\ TermsGiven' /\ TermBracket'
    BY <1>1, TermsUntouched DEF IInv, TermsGiven
  <1> QED BY <1>1, <1>3, <1>4, <1>5, <1>6, AmountsUntouched DEF IInv

LEMMA HalveAmountStep ==
  ASSUME IInv, HalveAmount
  PROVE  IInv'
  <1>1. /\ UNCHANGED <<request, phase, todo, passed, shortest, months, amount>>
        /\ phase = "amounts" /\ search # Idle /\ search \in Searches
        /\ search.hi - search.lo > Epsilon
    BY DEF HalveAmount, routing, result, IInv, TypeOK
  <1>2. search.offer \in passed /\ search.lo \in Nat /\ search.hi \in Nat
    BY <1>1 DEF Searches, IInv, PassedIsSettled
  <1>3. search.hi - search.lo > 1
    BY <1>1, <1>2, BoundAssumption
  <1>4. Middle \in Nat /\ search.lo < Middle /\ Middle < search.hi
    BY <1>2, <1>3, MiddleInside DEF Middle
  <1>5. /\ search' \in Searches /\ search' # Idle /\ search'.offer = search.offer
        /\ \/ /\ search'.lo = search.lo /\ search'.hi = Middle
              /\ ~Serviceable(search.offer, months[search.offer], Middle)
           \/ /\ search'.lo = Middle /\ search'.hi = search.hi
              /\ Serviceable(search.offer, months[search.offer], Middle)
    BY <1>1, <1>2, <1>4 DEF HalveAmount, Halve, Searches, Idle
  <1>6. TypeOK'
    BY <1>1, <1>5 DEF HalveAmount, routing, result, IInv, TypeOK
  <1>7. PassedIsSettled'
    BY <1>1, <1>5, Unmoved DEF IInv, PassedIsSettled
  <1>8. Target(search.offer) \in Nat
    BY <1>2, PassedOption
  <1>9. AmountBracket'
    BY <1>1, <1>2, <1>4, <1>5, <1>8, Unmoved DEF IInv, AmountBracket
  <1>10. ShortestIsExact' /\ TermsGiven' /\ TermBracket'
    BY <1>1, TermsUntouched DEF IInv, TermsGiven
  <1> QED BY <1>1, <1>6, <1>7, <1>9, <1>10, AmountsUntouched DEF IInv

LEMMA EndAmountStep ==
  ASSUME IInv, EndAmount
  PROVE  IInv'
  <1> DEFINE o == search.offer
  <1>1. /\ UNCHANGED <<request, phase, todo, passed, shortest, months>>
        /\ phase = "amounts" /\ search # Idle /\ search \in Searches /\ search' = Idle
        /\ search.hi - search.lo <= Epsilon
        /\ amount' = [amount EXCEPT ![o] = search.lo]
    BY DEF EndAmount, routing, IInv, TypeOK
  <1>2. o \in passed /\ search.lo \in Nat /\ search.hi \in Nat
    BY <1>1 DEF Searches, IInv, PassedIsSettled
  <1>3. /\ o \in Offers /\ Target(o) \in Nat /\ Target(o) <= MaxAmount
        /\ option(o).assess # Unknown /\ months[o] \in Months
    BY <1>1, <1>2, PassedOption, CalculatedTerm
  <1>4. /\ search.lo = 0 \/ search.lo < search.hi
        /\ search.lo <= search.hi /\ search.hi <= Target(o)
        /\ search.lo > 0 => Serviceable(o, months[o], search.lo)
        /\ search.hi < Target(o) => ~Serviceable(o, months[o], search.hi)
    BY <1>1 DEF IInv, AmountBracket
  <1>5. search.lo \in Amounts /\ search.hi \in Amounts
    BY <1>2, <1>3, <1>4, BoundAssumption DEF Amounts
  <1>6. amount'[o] = search.lo /\ \A k \in Offers \ {o} : amount'[k] = amount[k]
    BY <1>1, <1>3 DEF IInv, TypeOK
  <1>7. TypeOK'
    BY <1>1, <1>2, <1>3, <1>5 DEF EndAmount, routing, IInv, TypeOK
  <1>8. PassedIsSettled' /\ AmountBracket'
    BY <1>1, Unmoved DEF IInv, PassedIsSettled, AmountBracket
  <1>9. ShortestIsExact' /\ TermsGiven' /\ TermBracket'
    BY <1>1, <1>2, <1>6, TermsUntouched DEF IInv, TermsGiven
  <1>10. ASSUME NEW k \in Offers, amount'[k] \notin {None, 0}
         PROVE  amount'[k] <= Target(k) /\ Serviceable(k, months[k], amount'[k])
    <2>1. CASE k = o
      BY <1>2, <1>3, <1>4, <1>6, <1>10, <2>1
    <2>2. CASE k # o
      BY <1>6, <1>10, <2>2 DEF IInv, AmountIsServiceable, Serviceable
    <2> QED BY <2>1, <2>2
  <1>11. AmountIsServiceable'
    BY <1>1, <1>10, Unmoved DEF AmountIsServiceable, Serviceable, option
  <1>12. ASSUME NEW p \in Amounts, p <= Target(o), Serviceable(o, months[o], p)
         PROVE  p <= search.lo + Epsilon
    <2>1. p \in Nat
      BY DEF Amounts
    <2>2. search.hi <= p => Serviceable(o, months[o], search.hi)
      <3>1. request \in Requests /\ months[o] <= months[o]
        BY <1>3, BoundAssumption DEF IInv, TypeOK, Months
      <3> QED BY <1>3, <1>5, <1>12, <3>1, ServiceableMonotone
    <2> QED BY <1>1, <1>2, <1>3, <1>4, <1>12, <2>1, <2>2, BoundAssumption
  <1>13. NearestBelow'
    <2>1. ASSUME NEW k \in Offers, amount'[k] # None, NEW p \in Amounts,
                 p <= Target(k), Serviceable(k, months[k], p)
          PROVE  p <= amount'[k] + Epsilon
      <3>1. CASE k = o
        BY <1>6, <1>12, <2>1, <3>1
      <3>2. CASE k # o
        BY <1>6, <2>1, <3>2 DEF IInv, NearestBelow
      <3> QED BY <3>1, <3>2
    <2> QED BY <1>1, <2>1, Unmoved DEF NearestBelow
  <1>14. BelowTarget'
    <2>1. ASSUME NEW k \in Offers, amount'[k] # None
          PROVE  amount'[k] = 0 \/ amount'[k] < Target(k)
      <3>1. CASE k = o
        BY <1>2, <1>3, <1>4, <1>6, <3>1
      <3>2. CASE k # o
        BY <1>6, <2>1, <3>2 DEF IInv, BelowTarget
      <3> QED BY <3>1, <3>2
    <2> QED BY <1>1, <2>1, Unmoved DEF BelowTarget
  <1> QED BY <1>7, <1>8, <1>9, <1>11, <1>13, <1>14 DEF IInv

LEMMA FinishStep ==
  ASSUME IInv, Finish
  PROVE  IInv'
  <1>1. /\ UNCHANGED <<request, todo, passed, search, shortest, months, amount>>
        /\ phase = "amounts" /\ phase' = "done" /\ search = Idle
    BY DEF Finish, routing, result
  <1>2. TypeOK'
    BY <1>1 DEF Finish, routing, result, IInv, TypeOK
  <1>3. PassedIsSettled' /\ AmountBracket'
    BY <1>1, Unmoved DEF IInv, PassedIsSettled, AmountBracket
  <1>4. ShortestIsExact' /\ TermsGiven' /\ TermBracket'
    BY <1>1, TermsUntouched DEF IInv, TermsGiven
  <1> QED BY <1>1, <1>2, <1>3, <1>4, AmountsUntouched DEF IInv

LEMMA StutterStep ==
  ASSUME IInv, UNCHANGED vars
  PROVE  IInv'
  <1>1. /\ TypeOK' /\ PassedIsSettled' /\ TermBracket' /\ AmountBracket'
        /\ ShortestIsExact'
    BY Unmoved DEF vars, routing, result, IInv, TypeOK, PassedIsSettled, TermBracket,
                   AmountBracket, ShortestIsExact
  <1>2. TermsGiven'
    <2>1. \A o : Term(o)' = Term(o)
      BY DEF vars, routing, Term, Common
    <2> QED BY <2>1 DEF vars, routing, result, IInv, TermsGiven
  <1> QED BY <1>1, <1>2, AmountsUntouched DEF vars, result, IInv

LEMMA StepInvariant == IInv /\ [Next]_vars => IInv'
  <1> SUFFICES ASSUME IInv, [Next]_vars PROVE IInv'
    OBVIOUS
  <1> QED BY RouteStep, BeginTermStep, HalveTermStep, EndTermStep, ShortenStep,
             BeginAmountStep, HalveAmountStep, EndAmountStep, FinishStep, StutterStep
          DEF Next

THEOREM Invariance == Spec => []IInv
  BY InitInvariant, StepInvariant, PTL DEF Spec

-------------------------------------------------------------------------------
\* Every variable of the calculation keeps its type.
THEOREM TypeCorrect == Spec => []TypeOK
  <1>1. IInv => TypeOK
    BY DEF IInv
  <1> QED BY <1>1, Invariance, PTL

\* For every payment function that falls with the term and grows with rate and
\* principal: what is offered passes both tests at the term it is offered with.
THEOREM OffersAreServiceable == Spec => []AmountIsServiceable
  <1>1. IInv => AmountIsServiceable
    BY DEF IInv
  <1> QED BY <1>1, Invariance, PTL

\* The bisection of loan_max misses the largest amount by no more than Epsilon.
THEOREM OffersAreNearest == Spec => []NearestBelow
  <1>1. IInv => NearestBelow
    BY DEF IInv
  <1> QED BY <1>1, Invariance, PTL

\* shorten_to_serviceable_term takes nothing away from what an option lends.
THEOREM ShorteningIsFree == Spec => []ShorteningCostsNothing
  <1>1. ASSUME IInv PROVE ShorteningCostsNothing
    <2> SUFFICES ASSUME NEW o \in Offers, amount[o] # None, months[o] < request.months
                 PROVE  Target(o) - amount[o] <= Epsilon
      BY DEF ShorteningCostsNothing
    <2>1. o \in passed /\ phase \in {"amounts", "done"}
      BY <1>1 DEF IInv, TermsGiven
    <2>2. Target(o) \in Amounts /\ Target(o) \in Nat /\ amount[o] \in Nat
      BY <1>1, <2>1, PassedOption DEF IInv, TypeOK, Amounts
    <2>3. Serviceable(o, months[o], Target(o))
      BY <1>1, <2>1, CalculatedTerm, TermServes
    <2>4. Target(o) <= amount[o] + Epsilon
      BY <1>1, <2>2, <2>3 DEF IInv, NearestBelow
    <2> QED BY <2>2, <2>4, BoundAssumption
  <1> QED BY <1>1, Invariance, PTL

\* The common term serves every option, and one month less fails one of them.
THEOREM CommonTermIsShortest == Spec => []CommonTermIsTight
  <1>1. ASSUME IInv PROVE CommonTermIsTight
    <2> SUFFICES ASSUME phase \in {"amounts", "done"}, Common # None, NEW o \in passed
                 PROVE  /\ Serviceable(o, months[o], Target(o))
                        /\ months[o] > 1 =>
                              \E k \in passed : ~Serviceable(k, months[o] - 1, Target(k))
      BY DEF CommonTermIsTight
    <2>1. /\ Common \in Months /\ Common <= request.months /\ shortest[o] \in Months
          /\ shortest[o] <= Common
      BY <1>1, CommonIsLongest
    <2>2. PICK k \in passed : shortest[k] = Common
      BY <1>1, CommonIsLongest
    <2>3. o \in Offers /\ k \in Offers /\ option(o).assess # Unknown /\ request \in Requests
          /\ Target(o) \in Amounts /\ Target(o) <= Target(o) /\ request.months \in Months
      BY <1>1, PassedOption DEF IInv, TypeOK, Amounts
    <2>4. Months \subseteq Nat /\ None \notin Months
      BY BoundAssumption DEF Months
    <2>5. months[o] = Common
      BY <1>1, <2>1, <2>3, <2>4, MinOfTwo, CalculatedTerm DEF Term
    <2>6. Serviceable(o, shortest[o], Target(o))
      BY <1>1, <2>1, <2>3, <2>4 DEF IInv, ShortestIsExact
    <2>7. Serviceable(o, months[o], Target(o))
      BY <2>1, <2>3, <2>5, <2>6, ServiceableMonotone
    <2>8. months[o] > 1 => ~Serviceable(k, months[o] - 1, Target(k))
      BY <1>1, <2>1, <2>2, <2>3, <2>4, <2>5 DEF IInv, ShortestIsExact
    <2> QED BY <2>7, <2>8
  <1> QED BY <1>1, Invariance, PTL

\* Every call gets amounts short of what it required and no prolonged term,
\* which is all the orchestrator assumes of a loan result.
THEOREM ResultsAreAdmissible == Spec => []ResultIsAdmissible
  <1>1. ASSUME IInv PROVE ResultIsAdmissible
    <2> SUFFICES ASSUME NEW o \in Offers, amount[o] # None
                 PROVE  /\ amount[o] < request.required \/ amount[o] = 0
                        /\ months[o] <= request.months
      BY DEF ResultIsAdmissible
    <2>1. o \in passed /\ phase \in {"amounts", "done"} /\ request \in Requests
      BY <1>1 DEF IInv, TypeOK, TermsGiven
    <2>2. months[o] <= request.months
      BY <1>1, <2>1, CalculatedTerm, TermServes
    <2>3. Target(o) \in Nat /\ amount[o] \in Nat /\ request.required \in Nat
      BY <1>1, <2>1, PassedOption, RequestType DEF IInv, TypeOK, Amounts
    <2>4. Target(o) <= request.required
      BY <1>1, <2>1, PassedOption
    <2>5. amount[o] = 0 \/ amount[o] < Target(o)
      BY <1>1 DEF IInv, BelowTarget
    <2> QED BY <2>2, <2>3, <2>4, <2>5
  <1> QED BY <1>1, Invariance, PTL

\* The stale DTI limit is harmless while the debt service is the tighter rule.
THEOREM DtiHoldsUnderDsr == Spec => []DtiCoveredByDsr
  <1>1. ASSUME IInv PROVE DtiCoveredByDsr
    <2> SUFFICES ASSUME NEW o \in Offers, amount[o] \notin {None, 0},
                        request.dti # NoLimit, request.dsr <= request.dti
                 PROVE  12 * Payment(option(o).rate, months[o], amount[o]) <= request.dti
      BY DEF DtiCoveredByDsr
    <2>1. o \in passed /\ phase \in {"amounts", "done"} /\ request \in Requests
          /\ amount[o] \in Amounts
      BY <1>1 DEF IInv, TypeOK, TermsGiven
    <2>2. /\ months[o] \in Months /\ option(o).rate \in Rates
          /\ option(o).assess \in Rates /\ option(o).rate <= option(o).assess
      BY <1>1, <2>1, CalculatedTerm, PassedOption, RequestType
    <2>3. months[o] <= months[o] /\ amount[o] <= amount[o]
      BY <2>1, <2>2, BoundAssumption DEF Months, Amounts
    <2>4. /\ Payment(option(o).rate, months[o], amount[o]) \in Nat
          /\ Payment(option(o).assess, months[o], amount[o]) \in Nat
          /\ Payment(option(o).rate, months[o], amount[o])
                <= Payment(option(o).assess, months[o], amount[o])
      BY <2>1, <2>2, <2>3, PaymentMonotone
    <2>5. 12 * Payment(option(o).assess, months[o], amount[o]) <= request.dsr
      BY <1>1 DEF IInv, AmountIsServiceable
    <2>6. request.dsr \in Int /\ request.dti \in Int
      BY <1>1, <2>1, RequestType, PassedOption DEF Settled
    <2> QED BY <2>4, <2>5, <2>6
  <1> QED BY <1>1, Invariance, PTL
================================================================================
