SPECIFICATION FilesSpec
CONSTANTS
    Id = {"a", "b"}
    Name = {"m", "n"}
    FileOrder <- MCFileOrder
    CopyOf <- MCCopyOf
    Contents <- MCContents
    MaxWrites = 2
    Absent = Absent
PROPERTIES NoInertToggle
CHECK_DEADLOCK FALSE
