SPECIFICATION ViewSpec
CONSTANTS
    h1 = h1
    h2 = h2
    Host = {h1}
    Opinion = {"none"}
    MaxHosts = 1
    MaxSeq = 2
    MaxFrames = 1
PROPERTY ClearIsPaired
