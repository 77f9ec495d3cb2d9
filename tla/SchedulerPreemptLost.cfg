CONSTANTS
    tokA = tokA
    tokB = tokB
    r1 = r1
    r2 = r2
    r3 = r3
    NoReq = NoReq
    Reqs = {r1, r2, r3}
    PageSize = 1
    Pages = {1, 2, 3, 4, 5, 6, 7}
    MaxPages = 6
    Configs <- PreemptLostConfigs
SPECIFICATION Spec
SYMMETRY Symmetry
INVARIANTS
    NoRequestLost
