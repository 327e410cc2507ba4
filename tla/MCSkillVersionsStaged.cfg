CONSTANTS
    Content = {c1, c2}
    File = {f1, f2}
    None = None
    MaxEdits = 0
    MaxFaults = 1
SPECIFICATION Spec
INVARIANTS StagedInFull
CHECK_DEADLOCK FALSE
