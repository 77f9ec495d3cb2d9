CONSTANTS
    tokA = tokA
    tokB = tokB
    r1 = r1
    r2 = r2
    r3 = r3
    NoReq = NoReq
    Reqs = {r1, r2}
    PageSize = 2
    Pages = {1, 2, 3, 4, 5, 6, 7, 8}
    MaxPages = 6
    Configs <- PagedConfigs
SPECIFICATION Spec
SYMMETRY Symmetry
INVARIANTS
    PagesConserved
    EvictableAccounting
    DecodeFits
PROPERTIES
    ImplementsPrefixCache
