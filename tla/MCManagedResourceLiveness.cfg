CONSTANTS
    Kinds <- MCAllKinds
    ID = {i1, i2, i3}
    NoName = NoName
    ObjectName = ObjectName
    Val = {a, b}
    Unset = Unset
    Missing = Missing
    InitVal = a
    Active = b
    MaxEdits = 1
    MaxFaults = 1
SPECIFICATION FairSpec
PROPERTIES DeletionCompletes Converges ComesToRest
CHECK_DEADLOCK FALSE
