\* Two options under every mix of limits, terms and rates.
SPECIFICATION Spec
CONSTANTS
    NoLimit = NoLimit
    Unknown = Unknown
    None = None
    Offers = {1, 2}
    Rates = {1, 2, 4, 6}
    MaxMonths = 6
    MaxAmount = 12
    Epsilon = 2
    Payment <- MCPayment
    Requests <- MCRequests
INVARIANTS
    AmountIsServiceable
    NearestBelow
    ShorteningCostsNothing
\* The call returns when the calculation has ended.
CHECK_DEADLOCK FALSE
