SPECIFICATION Spec
CONSTANTS
    h1 = h1
    h2 = h2
    a = a
    a2 = a2
    b = b
    m = m
    s0 = s0
    s1 = s1
    p = p
    Host = {h1, h2}
    Id = {a, a2}
    Canon <- Distinct
    SlugOf <- OneSlug
    Candidates <- TwoIds
    Port <- Ports
    DefaultSetting = s0
    Mock <- Mocks
    Setting <- Settings
    ProfileName <- Profiles
INVARIANTS
    UniqueIdsAndPorts
    SlicesTotal
    NoStaleListener
    OneInstancePerHost
    RestartKeeps
PROPERTIES
    StablePort
