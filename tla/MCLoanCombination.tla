--------------------------- MODULE MCLoanCombination ---------------------------
(* Three offers: a mortgage, a credit loan and either a second option of the
   mortgage or another mortgage, over budgets that bind in turn.             *)
EXTENDS LoanCombination

CONSTANTS home, card, second

Leg(kind, product, actual, assess, high, floor, cap, dti, flexibility) ==
    [kind |-> kind, product |-> product, actual |-> actual, assess |-> assess,
     assessAbove |-> high, floor |-> floor, cap |-> cap, dti |-> dti,
     flexibility |-> flexibility]

Firsts == {Leg("mortgage", home, 1, 2, Unknown, 0, NoLimit, NoLimit, 1),
           Leg("mortgage", home, 2, 2, Unknown, 2, 4, NoLimit, Unknown)}
Credits == {Leg("credit", card, 2, 3, high, floor, 4, NoLimit, 2) :
                high \in {Unknown, 4}, floor \in {0, 1}}
Thirds == {Leg("mortgage", home, 1, 3, Unknown, 0, NoLimit, 5, 0),
           Leg("mortgage", second, 2, 1, Unknown, 0, 6, 3, Unknown)}

Legs == {<< >>} \cup {<<b>> : b \in Credits}
          \cup {<<a, b>> : a \in Firsts, b \in Credits}
          \cup {<<a, b, c>> : a \in Firsts, b \in Credits, c \in Thirds}

Budget(dsr, cashflow, ltv, existing) ==
    [dsr |-> dsr, cashflow |-> cashflow, ltv |-> ltv, required |-> 7,
     threshold |-> 4, existing |-> existing]
MCBudgets == {Budget(dsr, cashflow, ltv, existing) :
                dsr \in {-12, 96, 200}, cashflow \in {6, 14}, ltv \in {3, 7},
                existing \in {Unknown, 2, 5}}

Pairs == {{home, card}, {home, second}, {card, second}}
Gates == {[q \in Pairs |-> "ALLOWED"],
          [q \in Pairs |-> IF q = {home, second} THEN "BLOCKED" ELSE "ALLOWED"],
          [q \in Pairs |-> IF q = {home, card} THEN "UNKNOWN" ELSE "BLOCKED"]}

MCInputs == [legs : Legs, budget : MCBudgets, gate : Gates]
================================================================================
