SPECIFICATION Spec
CONSTANTS
    Request = {"q", "r"}
    Value = {"empty", "v"}
    NoValue = "empty"
    Coll = {"c"}
    Patient = FALSE
    MaxActs = 6
    None = None
CHECK_DEADLOCK FALSE
INVARIANTS VariablesStayHome
