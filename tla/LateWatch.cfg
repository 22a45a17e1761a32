SPECIFICATION FilesSpec
CONSTANTS
    Id = {"a", "b"}
    Name = {"m", "n"}
    FileOrder <- MCFileOrder
    CopyOf <- MCCopyOf
    Contents <- MCContents
    MaxWrites = 2
    Absent = Absent
INVARIANTS AlwaysFresh
CHECK_DEADLOCK FALSE
