CONSTANTS
    Keys = {k1}
    Specs <- EditSpecs
    Errors = {"NoLiveNodes"}
    ExpireAfter = 2
    MaxTick = 2
    MaxUid = 1
    Peering = FALSE
    EarlyRecreate = TRUE
SPECIFICATION LoopSpec
PROPERTIES SlotsKept SlotsReleased DrainedOnExit
CHECK_DEADLOCK FALSE
