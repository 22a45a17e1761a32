SPECIFICATION ExchangeSpec
CONSTANTS
    MaxDepth = 2
    MaxErrors = 2
    Requests <- MCRequests
    Answers <- MCAnswers
    Value <- MCValue
    Schema <- MCSchema
    Nesting <- MCNesting
    Deepest = 3
    Hole <- MCHole
    Odd = {"{{?}}"}
    Braces = "{{b}}"
    Lower <- MCLower
    Parse <- MCParse
    MaxBytes = 3
    MaxParse = 3
    MaxChars = 2
    Target <- MCTarget
    Elsewhere = Elsewhere
    Unusable = Unusable
    None = None
CHECK_DEADLOCK FALSE
INVARIANT HostIsOwn
