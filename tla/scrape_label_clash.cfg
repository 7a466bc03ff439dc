CONSTANTS
    Keys = {"k1", "k2"}
    Specs <- Clashing
    Values = {"a", "b"}
    Prefixed = TRUE
    Limit = 1
    MaxEntries = 3
    MaxTicks = 1
    MaxOverlap = 2
SPECIFICATION Spec
INVARIANT LabelsAlwaysKept
