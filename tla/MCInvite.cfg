CONSTANTS
    ID = {i1, i2, i3, i4, i5}
    NoName = NoName
    MaxEdits = 2
    MaxFaults = 2
SPECIFICATION FairSpec
INVARIANTS TypeOK InviteAccountedFor ReportedIsOver
PROPERTIES RevokedIsReissued DeletionCompletes
CHECK_DEADLOCK FALSE
