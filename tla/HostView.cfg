SPECIFICATION ViewSpec
CONSTANTS
    h1 = h1
    h2 = h2
    Host = {h1, h2}
    Opinion = {"none", "major"}
    MaxHosts = 1
    MaxSeq = 2
    MaxFrames = 2
SYMMETRY Same
INVARIANTS
    ViewCatchesUp
