CONSTANTS
    Content = {c1, c2}
    File = {f1, f2}
    None = None
    MaxEdits = 3
    MaxFaults = 2
SPECIFICATION FairSpec
INVARIANTS TypeOK HashIsOfAnUpload NoSpuriousVersion SkillGoesFirst
PROPERTIES Converges ComesToRest
CHECK_DEADLOCK FALSE
