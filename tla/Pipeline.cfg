SPECIFICATION FairSpec
CONSTANTS
    Host = {"h1", "h2"}
    Id = {"a", "b"}
    Slot = {s1}
    Path = {"p"}
    Mock = {"answer"}
    Registry <- MCRegistry
    Matches <- MCMatches
    Scope <- MCScope
    Intercepts = {}
    Delayed = {}
    None = None
PROPERTIES ForwardedHome BlockedDies RequestsEnd
INVARIANTS CacheIsCurrent
