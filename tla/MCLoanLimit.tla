----------------------------- MODULE MCLoanLimit -----------------------------
(* Two options, an exact annuity replaced by a coarse one: a principal is paid
   back in equal parts, and the rate adds its share of it every month.       *)
EXTENDS LoanLimit

MCPayment(rate, term, principal) ==
    (principal * (60 + rate * term)) \div term

Option(rule, regulated, rate, assess, limit, minimum) ==
    [rule |-> rule, regulated |-> regulated, rate |-> rate, assess |-> assess,
     limit |-> limit, minimum |-> minimum]

Mortgages ==
    {Option("PASS", TRUE, rate, assess, limit, minimum) :
        rate \in {1, 4}, assess \in {4, 6}, limit \in {NoLimit, 7}, minimum \in {0, 5}}

Others ==
    {Option("PASS", FALSE, 4, 6, 9, 0),
     Option("PASS", FALSE, 6, 6, NoLimit, 3),
     Option("PASS", TRUE, 2, 4, NoLimit, 0),
     Option("PASS", FALSE, 4, Unknown, 9, 0),
     Option("PASS", TRUE, 4, 6, Unknown, 0),
     Option("FAIL", FALSE, 4, Unknown, Unknown, 0),
     Option("UNKNOWN", TRUE, 4, 6, 9, 0)}

MCRequests ==
    [required : {0, 12}, months : {1, 6}, ltv : {8, 11, Unknown},
     dti : {-12, 1800, 3000, NoLimit, Unknown}, dsr : {-60, 1800, 2700},
     cash : {140, 300}, options : {<<m, k>> : m \in Mortgages, k \in Others}]
=============================================================================
