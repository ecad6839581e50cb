------------------------------- MODULE LoanLimit -------------------------------
(***************************************************************************)
(* services/loan_simulation.py: how much each loan option can lend. The    *)
(* options are routed by the product rules and the regulations; each one   *)
(* left is asked for the shortest term in which it can be repaid (a        *)
(* bisection over months), the terms are made common, and at its term each *)
(* one is asked for the largest amount it can lend (a bisection over       *)
(* amounts, loan_max).                                                     *)
(*                                                                         *)
(* Amounts count the finest unit of the decimals, so that a midpoint is a  *)
(* whole one. Payment is the annuity formula; the model relies only on its *)
(* monotony. The debts a borrower already has are subtracted from the      *)
(* rooms of a request.                                                     *)
(***************************************************************************)
EXTENDS Integers, FiniteSetsExt

CONSTANTS Offers,           \* loan options, numbered in the order of routing
          Requests,         \* calls of simulate_loan_options
          Rates, MaxMonths, MaxAmount,
          Epsilon,
          Payment(_, _, _), \* monthly payment: rate, months, principal
          NoLimit, Unknown, None

Months == 1..MaxMonths
Amounts == 0..MaxAmount

ASSUME BoundAssumption ==
    /\ Offers \subseteq Nat /\ Rates \subseteq Nat
    /\ MaxMonths \in Nat \ {0} /\ MaxAmount \in Nat /\ Epsilon \in Nat \ {0}
    /\ {NoLimit, Unknown, None} \cap Int = {} /\ NoLimit # Unknown

ASSUME PaymentAssumption ==
    \A r, s \in Rates, m, n \in Months, p, q \in Amounts :
        /\ Payment(r, m, p) \in Nat
        /\ (r <= s /\ n <= m /\ p <= q) => Payment(r, m, p) <= Payment(s, n, q)

\* An option with the verdict of the product rules on it. Only mortgages are
\* regulated; assess is the stressed rate, limit and minimum the product's own.
LoanOption ==
    [rule : {"PASS", "FAIL", "UNKNOWN"}, regulated : BOOLEAN,
     rate : Rates, assess : Rates \cup {Unknown},
     limit : Amounts \cup {NoLimit, Unknown}, minimum : Amounts]

\* dsr and dti are yearly, cash is monthly: what income, less the expenses and
\* debts each rule counts, leaves for the new loan. Any of them may be negative.
LoanSimulationRequest ==
    [required : Amounts, months : Months, ltv : Amounts \cup {Unknown},
     dti : Int \cup {NoLimit, Unknown}, dsr : Int, cash : Int,
     options : [Offers -> LoanOption]]

ASSUME RequestAssumption ==
    /\ Requests \subseteq LoanSimulationRequest
    /\ \A r \in Requests, o \in Offers :
        r.options[o].assess # Unknown => r.options[o].rate <= r.options[o].assess

Idle == [offer |-> None]

VARIABLES request,
          phase,        \* "route", "terms", "amounts" or "done"
          todo,         \* options the phase has still to treat
          passed, rejected, unresolved,     \* outcome of the routing
          search,       \* the running bisection
          shortest,     \* option -> shortest term, or None
          months,       \* option -> term of its calculation
          amount,       \* option -> what it can lend
          executable, notExecutable

routing == <<passed, rejected, unresolved>>
result == <<amount, executable, notExecutable>>
vars == <<request, phase, todo, routing, search, shortest, months, result>>

-------------------------------------------------------------------------------
option(o) == request.options[o]

\* Fault: both tests take the actual rate.
ServiceableUnstressed(o, m, p) ==
    /\ 12 * Payment(option(o).rate, m, p) <= request.dsr
    /\ Payment(option(o).rate, m, p) <= request.cash

\* term_is_serviceable, and the same test inside loan_max: the debt service at
\* the assessed rate, the monthly surplus at the actual one.
Serviceable(o, m, p) ==
    /\ 12 * Payment(option(o).assess, m, p) <= request.dsr
    /\ Payment(option(o).rate, m, p) <= request.cash

\* resolve_dti_limit_amount at the option's rate and the requested term.
DtiLimit(o) ==
    Max({p \in Amounts :
            p = 0 \/ 12 * Payment(option(o).rate, request.months, p) <= request.dti})

\* The bounds of an option; the required amount stands for one that does not
\* apply, so that it does not bind.
Bounds(o) ==
    {request.required,
     IF option(o).limit = NoLimit THEN request.required ELSE option(o).limit,
     IF option(o).regulated THEN request.ltv ELSE request.required,
     IF option(o).regulated /\ request.dti # NoLimit THEN DtiLimit(o)
                                                    ELSE request.required}

Target(o) == Min(Bounds(o))

Init ==
    /\ request \in Requests
    /\ phase = "route"
    /\ todo = Offers
    /\ passed = {} /\ rejected = {} /\ unresolved = {}
    /\ search = Idle
    /\ shortest = [o \in Offers |-> None]
    /\ months = [o \in Offers |-> None]
    /\ amount = [o \in Offers |-> None]
    /\ executable = {} /\ notExecutable = {}

\* The next option of a phase.
Treat(o) ==
    /\ o \in todo /\ \A k \in todo : o <= k
    /\ todo' = todo \ {o}

-------------------------------------------------------------------------------
Settled == request.ltv # Unknown /\ request.dti # Unknown

\* Without the regulations nothing is calculated.
Refuse ==
    /\ phase = "route" /\ ~Settled
    /\ phase' = "done" /\ todo' = {}
    /\ UNCHANGED <<request, routing, search, shortest, months, result>>

Adapt(o) ==
    /\ phase = "route" /\ Settled
    /\ Treat(o)
    /\ \/ /\ option(o).rule = "FAIL"
          /\ rejected' = rejected \cup {o} /\ UNCHANGED <<passed, unresolved>>
       \/ /\ \/ option(o).rule = "UNKNOWN"
             \/ option(o).rule = "PASS" /\ Unknown \in {option(o).assess, option(o).limit}
          /\ unresolved' = unresolved \cup {o} /\ UNCHANGED <<passed, rejected>>
       \/ /\ option(o).rule = "PASS" /\ Unknown \notin {option(o).assess, option(o).limit}
          /\ passed' = passed \cup {o} /\ UNCHANGED <<rejected, unresolved>>
    /\ UNCHANGED <<request, phase, search, shortest, months, result>>

Routed ==
    /\ phase = "route" /\ Settled /\ todo = {}
    /\ phase' = "terms" /\ todo' = passed
    /\ UNCHANGED <<request, routing, search, shortest, months, result>>

-------------------------------------------------------------------------------
\* shortest_serviceable_months: lo is a term that fails, hi one that serves.
BeginTerm(o) ==
    LET serves(m) == Serviceable(o, m, Target(o)) IN
    /\ phase = "terms" /\ search = Idle
    /\ Treat(o)
    /\ \/ /\ Target(o) <= 0 \/ ~serves(request.months)
          /\ UNCHANGED <<shortest, search>>
       \/ /\ Target(o) > 0 /\ serves(request.months) /\ serves(1)
          /\ shortest' = [shortest EXCEPT ![o] = 1]
          /\ UNCHANGED search
       \/ /\ Target(o) > 0 /\ serves(request.months) /\ ~serves(1)
          /\ search' = [offer |-> o, lo |-> 1, hi |-> request.months]
          /\ UNCHANGED shortest
    /\ UNCHANGED <<request, phase, routing, months, result>>

Middle == (search.lo + search.hi) \div 2

Halve(serves) == search' = IF serves THEN [search EXCEPT !.hi = Middle]
                                     ELSE [search EXCEPT !.lo = Middle]

HalveTerm ==
    /\ phase = "terms" /\ search # Idle
    /\ search.hi - search.lo > 1
    /\ Halve(Serviceable(search.offer, Middle, Target(search.offer)))
    /\ UNCHANGED <<request, phase, todo, routing, shortest, months, result>>

EndTerm ==
    /\ phase = "terms" /\ search # Idle
    /\ search.hi - search.lo <= 1
    /\ shortest' = [shortest EXCEPT ![search.offer] = search.hi]
    /\ search' = Idle
    /\ UNCHANGED <<request, phase, todo, routing, months, result>>

\* Fault: the shortest of the shortest terms.
CommonShortest == IF \E o \in passed : shortest[o] = None THEN None
                  ELSE Min({shortest[o] : o \in passed})

\* _common_serviceable_months: the longest of the shortest terms.
Common == IF \E o \in passed : shortest[o] = None THEN None
          ELSE Max({shortest[o] : o \in passed})

\* shorten_to_serviceable_term: without a common term each option takes its own.
Term(o) ==
    LET m == IF Common # None THEN Common ELSE shortest[o] IN
    IF m = None THEN request.months ELSE Min({m, request.months})

Shorten ==
    /\ phase = "terms" /\ search = Idle /\ todo = {}
    /\ phase' = "amounts" /\ todo' = passed
    /\ months' = [o \in Offers |-> IF o \in passed THEN Term(o) ELSE None]
    /\ UNCHANGED <<request, routing, search, shortest, result>>

-------------------------------------------------------------------------------
\* loan_max: lo can be lent (or is nothing), hi is the target or cannot be lent.
BeginAmount(o) ==
    /\ phase = "amounts" /\ search = Idle
    /\ Treat(o)
    /\ search' = [offer |-> o, lo |-> 0, hi |-> Target(o)]
    /\ UNCHANGED <<request, phase, routing, shortest, months, result>>

\* Fault: the halves are swapped.
HalveAmountSwapped ==
    /\ phase = "amounts" /\ search # Idle
    /\ search.hi - search.lo > Epsilon
    /\ Halve(Serviceable(search.offer, months[search.offer], Middle))
    /\ UNCHANGED <<request, phase, todo, routing, shortest, months, result>>

HalveAmount ==
    /\ phase = "amounts" /\ search # Idle
    /\ search.hi - search.lo > Epsilon
    /\ Halve(~Serviceable(search.offer, months[search.offer], Middle))
    /\ UNCHANGED <<request, phase, todo, routing, shortest, months, result>>

\* compute_loan_option: less than the minimum of the product is not lent.
EndAmount ==
    LET o == search.offer IN
    /\ phase = "amounts" /\ search # Idle
    /\ search.hi - search.lo <= Epsilon
    /\ amount' = [amount EXCEPT ![o] = search.lo]
    /\ \/ /\ search.lo >= option(o).minimum
          /\ executable' = executable \cup {o} /\ UNCHANGED notExecutable
       \/ /\ search.lo < option(o).minimum
          /\ notExecutable' = notExecutable \cup {o} /\ UNCHANGED executable
    /\ search' = Idle
    /\ UNCHANGED <<request, phase, todo, routing, shortest, months>>

Finish ==
    /\ phase = "amounts" /\ search = Idle /\ todo = {}
    /\ phase' = "done"
    /\ UNCHANGED <<request, todo, routing, search, shortest, months, result>>

Next ==
    \/ Refuse \/ Routed
    \/ \E o \in todo : Adapt(o) \/ BeginTerm(o) \/ BeginAmount(o)
    \/ HalveTerm \/ EndTerm \/ Shorten
    \/ HalveAmount \/ EndAmount \/ Finish

Spec == Init /\ [][Next]_vars

-------------------------------------------------------------------------------
Searches == [offer : Offers, lo : Nat, hi : Nat]

\* Every variable has its type.
TypeOK ==
    /\ request \in Requests
    /\ phase \in {"route", "terms", "amounts", "done"}
    /\ todo \subseteq Offers
    /\ passed \subseteq Offers /\ rejected \subseteq Offers /\ unresolved \subseteq Offers
    /\ search \in Searches \cup {Idle}
    /\ shortest \in [Offers -> Months \cup {None}]
    /\ months \in [Offers -> Months \cup {None}]
    /\ amount \in [Offers -> Amounts \cup {None}]
    /\ executable \subseteq Offers /\ notExecutable \subseteq Offers

\* The requirements that the term of the calculation, not the requested one,
\* must meet: an amount that is offered passes the stressed debt service and
\* the cash flow test at the rate and the months it is offered with.
AmountIsServiceable ==
    \A o \in Offers : amount[o] \notin {None, 0} =>
        /\ amount[o] <= Target(o)
        /\ 12 * Payment(option(o).assess, months[o], amount[o]) <= request.dsr
        /\ Payment(option(o).rate, months[o], amount[o]) <= request.cash

\* loan_max is conservative by no more than Epsilon: nothing larger than what
\* is offered and Epsilon can be served within the bounds.
NearestBelow ==
    \A o \in Offers : amount[o] # None =>
        \A p \in Amounts :
            (p <= Target(o) /\ Serviceable(o, months[o], p)) => p <= amount[o] + Epsilon

\* A shorter term saves interest and costs no amount: an option calculated
\* with fewer months than requested still lends its whole target.
ShorteningCostsNothing ==
    \A o \in Offers :
        (amount[o] # None /\ months[o] < request.months)
            => Target(o) - amount[o] <= Epsilon

\* When every option can repay its target, the common term is the shortest in
\* which all of them can: one month less fails some option.
CommonTermIsTight ==
    (phase \in {"amounts", "done"} /\ passed # {} /\ Common # None) =>
        \A o \in passed :
            /\ Serviceable(o, months[o], Target(o))
            /\ months[o] > 1 =>
                \E k \in passed : ~Serviceable(k, months[o] - 1, Target(k))

\* The DTI limit is taken at the requested term and not again at the shortened
\* one. It holds at the term of the calculation all the same as long as the
\* debt service the request allows is no looser than its DTI.
DtiCoveredByDsr ==
    \A o \in Offers :
        (/\ amount[o] \notin {None, 0} /\ option(o).regulated
         /\ request.dti # NoLimit /\ request.dsr <= request.dti)
        => 12 * Payment(option(o).rate, months[o], amount[o]) <= request.dti

\* loan_simulation.py: "the same term for all candidates"; the recommendation
\* raises when two executable options have different terms.
OneTermForAll == \A o, k \in executable : months[o] = months[k]

\* What a caller may rely on: an amount is short of what was required, unless
\* nothing was, and a term is never prolonged.
ResultIsAdmissible ==
    \A o \in Offers : amount[o] # None =>
        /\ amount[o] < request.required \/ amount[o] = 0
        /\ months[o] <= request.months

-------------------------------------------------------------------------------
(* The inductive strengthening. *)

\* Only settled options of a settled request are calculated.
PassedIsSettled ==
    /\ passed # {} => Settled
    /\ \A o \in passed : Unknown \notin {option(o).assess, option(o).limit}
    /\ phase # "route" => todo \subseteq passed
    /\ search # Idle => search.offer \in passed /\ phase \in {"terms", "amounts"}

\* The two ends of a bisection.
TermBracket ==
    (phase = "terms" /\ search # Idle) =>
        LET o == search.offer IN
        /\ 1 <= search.lo /\ search.lo < search.hi /\ search.hi <= request.months
        /\ ~Serviceable(o, search.lo, Target(o))
        /\ Serviceable(o, search.hi, Target(o))

AmountBracket ==
    (phase = "amounts" /\ search # Idle) =>
        LET o == search.offer IN
        /\ search.lo = 0 \/ search.lo < search.hi
        /\ search.lo <= search.hi /\ search.hi <= Target(o)
        /\ search.lo > 0 => Serviceable(o, months[o], search.lo)
        /\ search.hi < Target(o) => ~Serviceable(o, months[o], search.hi)

\* The target itself is never offered: loan_max stops below it.
BelowTarget ==
    \A o \in Offers : amount[o] # None => amount[o] = 0 \/ amount[o] < Target(o)

\* The shortest term of an option serves its target, one month less does not.
ShortestIsExact ==
    \A o \in Offers : shortest[o] # None =>
        /\ o \in passed /\ shortest[o] <= request.months
        /\ Serviceable(o, shortest[o], Target(o))
        /\ shortest[o] > 1 => ~Serviceable(o, shortest[o] - 1, Target(o))

\* The term of every calculation is the one the shortening gave.
TermsGiven ==
    /\ phase \in {"route", "terms"} => \A o \in Offers : months[o] = None
    /\ phase \in {"amounts", "done"} =>
        \A o \in Offers : months[o] = IF o \in passed THEN Term(o) ELSE None
    /\ \A o \in Offers : amount[o] # None => o \in passed /\ phase \in {"amounts", "done"}

IInv ==
    /\ TypeOK
    /\ PassedIsSettled /\ TermBracket /\ AmountBracket /\ ShortestIsExact /\ TermsGiven
    /\ AmountIsServiceable /\ NearestBelow /\ BelowTarget
================================================================================
