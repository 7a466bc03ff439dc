CONSTANTS
    Keys = {"k1", "k2"}
    Specs <- Mixed
    Values = {"a", "b"}
    Prefixed = TRUE
    Limit = 1
    MaxEntries = 2
    MaxTicks = 2
    MaxOverlap = 1
SPECIFICATION Spec
INVARIANTS TypeOK WellFormed LabelsKept PageCoherent
