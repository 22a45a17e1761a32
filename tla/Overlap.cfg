SPECIFICATION Spec
CONSTANTS
    Proc = {p1, p2}
    MaxScan = 1
    MaxChanges = 0
    MaxCAs = 2
    MaxDeaths = 1
    Overlap = TRUE
    Late = TRUE
    Missing = Missing
    Torn = Torn
    None = None
PROPERTIES
    NoneBelow
CHECK_DEADLOCK FALSE
