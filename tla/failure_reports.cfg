CONSTANTS
    Keys = {k1}
    Specs <- SystemSpecs
    Errors = {"NodesUnreachable"}
    ExpireAfter = 2
    MaxTick = 2
    MaxUid = 1
    Peering = FALSE
    EarlyRecreate = FALSE
SPECIFICATION Spec
CHECK_DEADLOCK FALSE
INVARIANT AllDownReported
\* in its place: INVARIANT ExpiredAfterLimit
