CONSTANTS
    None = None
    Questions <- MCQuestions
    EmergencyMonths = {3, 6, 9}
    BuildMonths = 12
    BufferFloor = 3000
    BufferShare = 10
    Options <- MCOptions
    SavingsRequests <- MCSavingsRequests
    HomeRequests <- MCHomeRequests
    Answers <- MCAnswers
    Shortages = {0, 50000, 300000}
    LifePlans <- MCLifePlans
    RateScale = 100
    Stride = 2
    Trades <- MCTrades
    Stocks <- MCStocks
    PageSizes = {2}
SPECIFICATION AdviceSpec
INVARIANTS
    AdviceTypeOK
    PortfolioIsSound
    NoSingleProductEarnsMore
    ReserveIsKept
    ReserveSurvivesPurchase
    NeverLooserThanTheWorld
    UnknownNamesItsGap
    LoanIsRepaidInFull
    CurveEndsAtZero
    NoTradeIsLost
PROPERTIES
    AnswersStand
    MinimumNeverOverstates
    BalancesOnlyFall
    RequestsSettle
\* A request that is settled leaves nothing to do.
CHECK_DEADLOCK FALSE
