SPECIFICATION Spec
CHECK_DEADLOCK FALSE
CONSTANTS
    a = a  b = b  c = c  s1 = s1  s2 = s2
    Segment = {a, b, c}
    Path <- MCPath
    Gap = Gap
    NoRule = NoRule
    Suite = {s1, s2}
    RequireSsl = {s1}
    Mock = {m1}
    Loaded <- MCLoaded
    MaxDepth = 2
    MaxCalls = 2
    MaxOutside = 1
SYMMETRY Same
INVARIANT SuiteRestores
PROPERTIES
    ClickWorks
    StaysLean
