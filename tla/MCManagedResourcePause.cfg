CONSTANTS
    Kinds <- MCDeployment
    ID = {i1, i2}
    NoName = NoName
    ObjectName = ObjectName
    Val = {a, b}
    Unset = Unset
    Missing = Missing
    InitVal = a
    Active = b
    MaxEdits = 1
    MaxFaults = 0
SPECIFICATION FairSpec
PROPERTIES OmittedIsActive
CHECK_DEADLOCK FALSE
