SPECIFICATION Spec
CONSTANTS
    h1 = h1
    h2 = h2
    h3 = h3
    Host = {h1, h2, h3}
    Opinion = {"none", "major"}
    MaxHosts = 2
    MaxSeq = 4
PROPERTIES
    OldestMakesRoom
    TouchedIsTold
