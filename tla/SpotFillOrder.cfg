SPECIFICATION Spec
CONSTANTS
    Alice = Alice
    Bob = Bob
    Clients <- MCClients
    Assets <- MCAssets
    Base = "BTC"
    Quote = "USD"
    Requests <- MixedRequests
    Fee <- MixedFee
    InitialBalance <- MixedDeposit
    Precision = 1
    MaxInt = 100
    FeeSourceMayFail = FALSE
    MaxOrders = 4
PROPERTY FillsBeforeForcedCancel
CHECK_DEADLOCK FALSE
