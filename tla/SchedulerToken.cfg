CONSTANTS
    tokA = tokA
    tokB = tokB
    r1 = r1
    r2 = r2
    r3 = r3
    NoReq = NoReq
    Reqs = {r1, r2, r3}
    PageSize = 1
    Pages = {1, 2, 3, 4, 5, 6, 7, 8, 9, 10, 11, 12, 13}
    MaxPages = 6
    Configs <- TokenConfigs
SPECIFICATION FairSpec
INVARIANTS
    TypeOK
    CachedKVIsRight
    RowKVIsRight
    PrefillFits
    LocksCounted
    OnePlace
    OneChunkedReq
    NoRequestLost
PROPERTIES
    OutputFinal
    OutputInOrder
    EveryRequestFinishes
