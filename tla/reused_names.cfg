CONSTANTS
    Keys = {k1}
    Specs <- OneSpec
    Errors = {"QueryError"}
    ExpireAfter = 2
    MaxTick = 4
    MaxUid = 2
    Peering = FALSE
    EarlyRecreate = TRUE
SPECIFICATION Spec
CHECK_DEADLOCK FALSE
INVARIANT OwnRows
