------------------------------ MODULE Eligibility ------------------------------
(***************************************************************************)
(* Asking whether an applicant may take a product, while what is missing   *)
(* is filled in. The service routes a candidate by the rules of its pack   *)
(* (route_product_candidates): one that passes goes to the calculation,    *)
(* one that fails is rejected, and one whose answer is open waits for      *)
(* review with the facts that are missing. The applicant then comes back   *)
(* with one more fact; the answer may become settled, never overturned.    *)
(***************************************************************************)
EXTENDS ProductRules

CONSTANT Questions      \* a product, and the values some of its facts may have

ASSUME QuestionAssumption ==
    \A q \in Questions :
        /\ q # None
        /\ q.product \in ProductRulePack
        /\ DOMAIN q.values \subseteq Fields
        /\ \A f \in DOMAIN q.values : q.values[f] \subseteq TypeOfFact(f)

VARIABLES question,     \* what is asked, or None
          facts,        \* user_facts
          eligible      \* the status of the last evaluation

eligibilityVars == <<question, facts, eligible>>

NothingKnown == [f \in Fields |-> None]

EligibilityInit == question = None /\ facts = NothingKnown /\ eligible = "UNKNOWN"

\* The first request: nothing is known of the applicant yet.
AskProduct(q) ==
    /\ question = None
    /\ question' = q
    /\ eligible' = Status(q.product, facts)
    /\ UNCHANGED facts

\* Another request, with one more fact.
LearnFact(field, value) ==
    /\ facts[field] = None
    /\ facts' = [facts EXCEPT ![field] = value]
    /\ eligible' = Status(question.product, facts')
    /\ UNCHANGED question

Learn ==
    /\ question # None
    /\ \E f \in DOMAIN question.values : \E v \in question.values[f] : LearnFact(f, v)

EligibilityNext == Learn \/ \E q \in Questions : AskProduct(q)

EligibilitySpec == EligibilityInit /\ [][EligibilityNext]_eligibilityVars

-------------------------------------------------------------------------------
EligibilityTypeOK ==
    /\ question \in Questions \cup {None}
    /\ \A f \in Fields : facts[f] = None \/ facts[f] \in TypeOfFact(f)
    /\ eligible \in {"PASS", "FAIL", "UNKNOWN"}

Judged == INSTANCE Settling WITH answer <- eligible

\* Answers stand: whatever else becomes known of the applicant, and in whatever
\* order, a product that passed is not refused later and one that was refused does
\* not pass. That needs every condition to say UNKNOWN exactly as long as
\* a fact it has not seen could still turn it (PredicateRule.evaluate, the packs).
AnswersStand == Judged!SettlingSpec
===============================================================================
