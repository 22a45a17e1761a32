SPECIFICATION Spec
CONSTANTS
    u = u
    v = v
    a = a
    b = b
    c = c
    r1 = r1
    r2 = r2
    s1 = s1
    s2 = s2
    s3 = s3
    Inst = {u, v}
    Id = {a, b, c}
    Request = {r1}
    Session = {s1}
    Size <- Sizes
    MaxTunnels = 1
    MaxRecords = 1
    MaxLog = 2
    MaxEntries = 1
    MaxFinished = 1
    MaxActive = 2
SYMMETRY Same
INVARIANT OwnTraffic
