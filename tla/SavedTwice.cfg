SPECIFICATION Spec
CONSTANTS
    Id = {"x", "x-2", "y"}
    Name = {"m", "n", "o"}
    IdsOf <- MCIdsOf
    Coll <- MCColl
    Inst = {"a", "b"}
    Libraries <- MCLibraries
    MaxChanges = 3
    Nothing = Nothing
INVARIANTS NamesAreUnique
