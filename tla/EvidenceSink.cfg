\* Evidence sinks, the event stream, its readers and its index.
CONSTANTS
    BlockFrames = 2
    MaxClientID = 1
    SymbolSlot <- MCSymbolSlot
    Scenarios <- MCScenarios
    MaxCalls = 3
    Unlimited = 1000
SPECIFICATION Spec
CHECK_DEADLOCK FALSE
INVARIANTS
    ReadIsSound
    AttestedIsComplete
    QueryIsFilter
    
