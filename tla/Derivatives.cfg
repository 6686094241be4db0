\* Trading on margin, liquidation, expiry and credit in seven
\* scenarios.
SPECIFICATION Spec
CONSTANTS
    Precision = 2
    MarginRate = 5000
    MaintenanceRate = 2500
    Clients <- MCClients
    Perp = "PERP"
    Futures <- MCFutures
    SymbolOrder <- MCSymbolOrder
    TakerBps = 1000
    MakerBps = 500
    LiquidationFeeBps = 2500
    DeliveryFeeBps = 1000
    CollateralPercent = 50
    AutoBorrow = TRUE
    CollateralRate = 1
    InterestDenominator = 4
    FundingInterval = 1
    Tenor = 1
    ObservationWindow = 1
    InitialPerp = 14
    InitialSpot = 6
    NoPrice = NoPrice
    NotListed = NotListed
    Never = Never
    NoSnapshot = NoSnapshot
    NoSymbol = NoSymbol
    Scenarios <- MCScenarios
INVARIANTS
    BooksBalance
    ReservationsExact
    ReduceNeverOvershoots
    LifecycleClean
PROPERTIES
    
    ExpiredSettles
CHECK_DEADLOCK FALSE
