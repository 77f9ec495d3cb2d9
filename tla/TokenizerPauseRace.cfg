CONSTANTS
    r1 = r1
    r2 = r2
    r3 = r3
    o1 = o1
    o2 = o2
    o3 = o3
    loraA = loraA
    loraB = loraB
    loraC = loraC
    loraP = loraP
    None = None
    Reqs <- MCReqs
    Coroutines <- MCCoroutines
    Configs <- RaceConfigs
SPECIFICATION Spec
CHECK_DEADLOCK FALSE
PROPERTIES
    UpdateQuiet
