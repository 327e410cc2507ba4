CONSTANTS
    Content = {c1, c2}
    File = {f1, f2}
    None = None
    MaxEdits = 2
    MaxFaults = 0
SPECIFICATION Spec
INVARIANTS HashAsDocumented
CHECK_DEADLOCK FALSE
