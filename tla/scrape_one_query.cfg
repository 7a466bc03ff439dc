CONSTANTS
    Keys = {"k1"}
    Specs <- Unusable
    Values = {"a", "b"}
    Prefixed = TRUE
    Limit = 2
    MaxEntries = 2
    MaxTicks = 3
    MaxOverlap = 2
SPECIFICATION Spec
INVARIANTS TypeOK WellFormed LabelsKept PageCoherent
