CONSTANTS
    Keys = {k1}
    Specs <- TightSpecs
    Errors = {"QueryError"}
    ExpireAfter = 2
    MaxTick = 2
    MaxUid = 1
    Peering = FALSE
    EarlyRecreate = FALSE
SPECIFICATION Spec
PROPERTY OverlapBounded
CHECK_DEADLOCK FALSE
\* in its place: INVARIANT SlotsExact
