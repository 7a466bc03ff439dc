CONSTANTS
    Keys = {"k1", "k2"}
    Specs <- Merged
    Values = {"a", "b"}
    Prefixed = TRUE
    Limit = 1
    MaxEntries = 3
    MaxTicks = 1
    MaxOverlap = 2
SPECIFICATION Spec
INVARIANTS TypeOK WellFormed LabelsKept PageCoherent
