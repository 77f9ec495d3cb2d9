CONSTANTS
    tokA = tokA
    tokB = tokB
    r1 = r1
    r2 = r2
    r3 = r3
    NoReq = NoReq
    Reqs = {r1, r2}
    PageSize = 1
    Pages = {1, 2, 3, 4, 5, 6, 7, 8, 9, 10, 11}
    MaxPages = 6
    Configs <- MixedDecodeConfigs
SPECIFICATION Spec
SYMMETRY Symmetry
INVARIANTS
    DecodeFits
