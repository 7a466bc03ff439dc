CONSTANTS
    Keys = {k1}
    Specs <- OneSpec
    Errors = {"QueryError"}
    ExpireAfter = 2
    MaxTick = 3
    MaxUid = 2
    Peering = TRUE
    EarlyRecreate = TRUE
SPECIFICATION Spec
INVARIANTS TypeOK NoPhantomSlots HealthCoherent CacheIsNewest OwnRowsStay
PROPERTY ImplementsFeed
CHECK_DEADLOCK FALSE
