\* Every call of the search over three offers, to its end.
SPECIFICATION Spec
CONSTANTS
    home = home
    card = card
    second = second
    NoLimit = NoLimit
    Unknown = Unknown
    Offers = {1, 2, 3}
    Products = {home, card, second}
    Inputs <- MCInputs
    MaxLegs = 3
    TopN = 2
    Epsilon = 1
    Tolerance = 1
INVARIANTS
    SharedBudgetsHold
    FilledToTheBrim
    BindingStillBinds
    OnlyConfirmedCombinations
    EverySubsetAccounted
    StatusTellsTheBest
PROPERTY Terminates
\* The call returns when the search has ended.
CHECK_DEADLOCK FALSE
