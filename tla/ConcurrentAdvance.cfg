SPECIFICATION Spec
CONSTANTS
    Advancers = {first, second}
    Deltas = {1}
    Offsets = {}
    Intervals = {}
    MaxEvents = 2
    MaxTime = 2
INVARIANT AdvancesCompose
CHECK_DEADLOCK FALSE
