\* A credit loan alone, the borrower's credit balance unknown.
SPECIFICATION Spec
CONSTANTS
    home = home
    card = card
    second = second
    NoLimit = NoLimit
    Unknown = Unknown
    Offers = {1, 2, 3}
    Products = {home, card, second}
    Inputs <- MCInputs
    MaxLegs = 3
    TopN = 2
    Epsilon = 1
    Tolerance = 1
INVARIANT InfeasibleWasComputed
\* The call returns when the search has ended.
CHECK_DEADLOCK FALSE
