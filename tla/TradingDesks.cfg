SPECIFICATION FairSpec
CONSTANTS
    Desks <- MCDesks
    MaxRefusals = 1
    MaxOthers = 2
INVARIANTS
    BeliefMatchesVenue
    LegsMatched
    TargetsKept
PROPERTIES
    GroupsCloseForGood
    OrdersResolve
