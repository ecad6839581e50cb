\* Calls with another regulation day, or with a target date that is past.
SPECIFICATION Spec
CONSTANTS
    None = None
    Rates = {0, 1, 2, 3, 4, 6}
    MaxMonths = 6
    MaxAmount = 24
    Tolerance = 2
    Payment <- MCPayment
    Calls <- MCCalls
    LoanResults <- MCLoanResults
    SavingsOutcomes <- MCSavingsOutcomes
INVARIANTS
    NeverRaises
CHECK_DEADLOCK FALSE
