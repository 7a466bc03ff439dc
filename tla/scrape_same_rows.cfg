CONSTANTS
    Keys = {"k1"}
    Specs <- SameRows
    Values = {"a", "b"}
    Prefixed = TRUE
    Limit = 1
    MaxEntries = 3
    MaxTicks = 1
    MaxOverlap = 2
SPECIFICATION Spec
INVARIANT SeriesUnique
