CONSTANTS
    Parent = {p1, p2}
    ID = {i1, i2, i3}
    NoParent = NoParent
    NoName = NoName
    Val = {a, b}
    MaxEdits = 1
    MaxFaults = 1
SPECIFICATION FairSpec
INVARIANTS TypeOK NothingOrphaned ReportedIsMoot
PROPERTIES DeletionCompletes Converges
CHECK_DEADLOCK FALSE
