SPECIFICATION PartsSpec
CONSTANTS
    Advancers = {runner}
    Deltas = {1, 2}
    Offsets = {1}
    Intervals = {0, 2}
    MaxEvents = 2
    MaxTime = 4
    RequestChSize = 1
    ResponseChSize = 2
    MaxRequests = 3
    MaxNotifications = 3
    Symbols = {BTC}
    SessionRequestChSize = 2
    MarketDataChSize = 1
    MaxSessions = 2
    MaxSessionRequests = 2
    MaxPublished = 3
INVARIANTS
    PartsCoherent
    CancelledStaysCancelled
PROPERTIES
    AdvanceReturns
    EventuallyReceived
    SessionsIsolated
    CleanupEventuallyServed
CHECK_DEADLOCK FALSE
