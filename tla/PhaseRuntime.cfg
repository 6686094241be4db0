SPECIFICATION Spec
CONSTANTS
    Clients = {1, 2}
    Subscribers = {2}
    RequestDelays = {0, 1}
    ResponseDelays = {0, 3}
    MarketDataDelays = {1}
    TickIntervals = {1, 2}
    SnapshotEvery = 3
    Step = 2
    Iterations = 2
    PhaseMaxRounds = 3
    RequestChSize = 1
    ResponseChSize = 1
    MarketDataChSize = 1
    MaxSends = 2
INVARIANTS
    ChannelsInOrder
    LostTickEndsRun
PROPERTIES
    TimeMovesWhenQuiet
    ImplementsResponseStream
    RunEnds
CHECK_DEADLOCK FALSE
