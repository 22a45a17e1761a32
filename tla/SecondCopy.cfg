SPECIFICATION Spec
CONSTANTS
    Proc = {p1, p2}
    MaxScan = 1
    MaxChanges = 2
    MaxCAs = 3
    MaxDeaths = 2
    Overlap = FALSE
    Late = FALSE
    Missing = Missing
    Torn = Torn
    None = None
INVARIANTS OneServer
CHECK_DEADLOCK FALSE
