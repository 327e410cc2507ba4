CONSTANTS
    Kinds <- MCContrast
    ID = {i1, i2, i3, i4}
    NoName = NoName
    ObjectName = ObjectName
    Val = {a, b}
    Unset = Unset
    Missing = Missing
    InitVal = a
    Active = b
    MaxEdits = 2
    MaxFaults = 1
SPECIFICATION Spec
INVARIANTS TypeOK Tracked CrashBlocksCreation NoSecondCopy
PROPERTIES FinalizerGuards NoBlindOverwrite KeepsPromise
CHECK_DEADLOCK FALSE
