SPECIFICATION Spec
CONSTANTS
    Symbols = {BTC}
    RequestChSize = 2
    MarketDataChSize = 1
    MaxSessions = 2
    MaxRequests = 1
    MaxPublished = 1
PROPERTIES
    NoneServedAfterClose
CHECK_DEADLOCK FALSE
