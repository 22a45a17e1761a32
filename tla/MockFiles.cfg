SPECIFICATION FilesSpec
CONSTANTS
    Id = {"a", "b"}
    Name = {"m", "n"}
    FileOrder <- MCFileOrder
    CopyOf <- MCCopyOf
    Contents <- MCContents
    MaxWrites = 2
    Absent = Absent
INVARIANTS CacheFresh
PROPERTIES RenameFollows
CHECK_DEADLOCK FALSE
