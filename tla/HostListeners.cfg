SPECIFICATION Spec
CONSTANTS
    h1 = h1
    h2 = h2
    a = a
    a2 = a2
    b = b
    m = m
    s0 = s0
    s1 = s1
    p = p
    Host = {h1, h2}
    Id = {a, a2, b}
    Canon <- Distinct
    SlugOf <- OneSlug
    Candidates <- Numbered
    Port <- Ports
    DefaultSetting = s0
    Mock <- NoMocks
    Setting <- OneValue
    ProfileName <- NoProfile
INVARIANT ListenersFollowSsl
