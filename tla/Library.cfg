SPECIFICATION Spec
CONSTANTS
    Id = {"x", "x-2", "y"}
    Name = {"m", "n", "o"}
    IdsOf <- MCIdsOf
    Coll <- MCColl
    Inst = {"a", "b"}
    Libraries <- MCLibraries
    MaxChanges = 2
    Nothing = Nothing
INVARIANTS
    RunsOnce
    RowsTellTheRun
    PlacedByHand
PROPERTIES
    KeepsItsName
    DropLands
