------------------------------ MODULE MCSimulation ------------------------------
(* Calls in which any input may be absent, and complete calls over scenarios
   that are survived, that need a longer term and that no term survives.     *)
EXTENDS Simulation

MCPayment(rate, term, principal) ==
    (principal * (60 + rate * term)) \div term

Shock(rise, dsr, cash) == [raise |-> rise, dsr |-> dsr, cash |-> cash]

Mild == <<Shock(0, 9000, 900), Shock(2, 9000, 900), Shock(2, 8900, 800)>>
Tight == <<Shock(0, 3600, 300), Shock(2, 2900, 250), Shock(0, 3000, 210)>>
Marginal == <<Shock(0, 3400, 280), Shock(2, 3400, 280)>>
Hopeless == <<Shock(0, 900, 300), Shock(2, 800, -20), Shock(0, 700, 40)>>

Homes == <<[early |-> 20, later |-> 18], [early |-> 20, later |-> 23]>>

Complete ==
    [asked |-> TRUE, region |-> TRUE, sameDay |-> TRUE, candidates |-> TRUE,
     derived |-> TRUE, late |-> FALSE, required |-> 12, months |-> 6,
     scenarios |-> Tight, acquisition |-> "uncounted", given |-> FALSE,
     homes |-> Homes, equity |-> 9, extra |-> 3, planned |-> None, plan |-> None]

\* Plans a caller hands in: one nobody validated, one that failed.
Plans == {[status |-> "COMPLETE", policy |-> policy, monthly |-> 4, maturity |-> 8] :
            policy \in {None, "FAIL"}}

Full ==
    {[Complete EXCEPT !.required = required, !.months = months, !.scenarios = scenarios,
                      !.equity = equity, !.planned = planned, !.plan = plan] :
        required \in {0, 12}, months \in {2, 6}, scenarios \in {Mild, Marginal, Tight, Hopeless},
        equity \in {9, 21}, planned \in {None, 14}, plan \in {None} \cup Plans}

Partial ==
    {[Complete EXCEPT !.asked = asked, !.region = region, !.sameDay = sameDay,
                      !.candidates = candidates, !.derived = derived, !.late = late,
                      !.acquisition = acquisition, !.given = given] :
        asked \in BOOLEAN, region \in BOOLEAN, sameDay \in BOOLEAN,
        candidates \in BOOLEAN, derived \in BOOLEAN, late \in BOOLEAN,
        acquisition \in {"absent", "unsettled", "uncounted", "settled"},
        given \in BOOLEAN}

MCCalls == Full \cup Partial

Lent(amount, rate, term, shock, score) ==
    [amount |-> amount, rate |-> rate, months |-> term, shock |-> shock, score |-> score]
Lending(executable, unresolved) ==
    [executable |-> executable, unresolved |-> unresolved]

MCLoanResults ==
    {Lending(<< >>, TRUE), Lending(<< >>, FALSE),
     Lending(<<Lent(0, 2, 6, "APPLIES", 5)>>, FALSE),
     Lending(<<Lent(9, 2, 2, "APPLIES", 5), Lent(11, 4, 2, "NOT_APPLIES", None)>>, FALSE),
     Lending(<<Lent(9, 2, 2, "APPLIES", 7), Lent(8, 1, 2, "UNKNOWN", 5)>>, TRUE),
     Lending(<<Lent(11, 2, 4, "APPLIES", 5)>>, FALSE),
     Lending(<<Lent(9, 2, 1, "UNKNOWN", 5)>>, FALSE),
     Lending(<<Lent(8, 2, 2, "APPLIES", 5), Lent(10, 2, 6, "APPLIES", 5)>>, FALSE)}

Planned(status, policy, monthly, maturity) ==
    [status |-> status, policy |-> policy, monthly |-> monthly, maturity |-> maturity]

MCSavingsOutcomes ==
    {[plan |-> None, lacks |-> {"savings_request"}], [plan |-> None, lacks |-> {}],
     [plan |-> Planned("COMPLETE", "PASS", 4, 9), lacks |-> {}],
     [plan |-> Planned("PARTIAL", "PASS", 24, 12), lacks |-> {"savings_inputs"}],
     [plan |-> Planned("INFEASIBLE", "UNKNOWN", 0, 0), lacks |-> {}],
     [plan |-> Planned("NO_ALLOCATION_REQUIRED", "PASS", 0, 0), lacks |-> {}]}
=============================================================================
