SPECIFICATION Spec
CONSTANTS
    Proc = {p1, p2}
    MaxScan = 1
    MaxChanges = 3
    MaxCAs = 3
    MaxDeaths = 3
    Overlap = FALSE
    Late = TRUE
    Missing = Missing
    Torn = Torn
    None = None
INVARIANTS
    OriginalKept
    CAPaired
    ChangesKept
PROPERTIES
    NoneBelow
CHECK_DEADLOCK FALSE
