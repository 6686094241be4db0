SPECIFICATION FairSpec
CONSTANTS
    Alice = Alice
    Bob = Bob
    Clients <- MCClients
    Assets <- MCAssets
    Base = "BTC"
    Quote = "USD"
    Requests <- MixedRequests
    Fee <- MixedFee
    InitialBalance <- MixedDeposit
    Precision = 2
    MaxInt = 8
    FeeSourceMayFail = TRUE
    MaxOrders = 4
INVARIANTS
    BookCoherent
    PublicDepthInSync
    
    ValueConserved
    NoPanic
PROPERTY HandlerFinishes
CHECK_DEADLOCK FALSE
