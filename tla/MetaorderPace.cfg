SPECIFICATION FairSpec
CONSTANTS
    Desks <- MCMetaorder
    MaxRefusals = 0
    MaxOthers = 2
INVARIANT
    PaceExcludesOwn
