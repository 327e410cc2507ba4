CONSTANTS
    ID = {i1, i2}
    NoName = NoName
    MaxEdits = 0
    MaxFaults = 0
SPECIFICATION FairSpec
PROPERTIES NothingLeftToDelete
CHECK_DEADLOCK FALSE
