CONSTANTS
    a = a
    d = d
    c1 = c1
    c2 = c2
    s1 = s1
    w1 = w1
    w2 = w2
    User <- MCUser
    Config <- MCConfig
    Source = {s1}
    Workspace = {w1, w2}
    NoSetting = NoSetting
    Nowhere = Nowhere
    Setups <- MCSetups
    Settings <- MCSettings
    Graphs <- MCGraphs
    MaxEdits = 1
    MaxFaults = 1
SPECIFICATION FairSpec
INVARIANTS TypeOK NothingSentUnresolved CallsAsConfigured NoNeedlessReplay ConfigOutlivesUse
PROPERTIES ComesUp AlwaysFollows EverythingCanGo
CHECK_DEADLOCK FALSE
