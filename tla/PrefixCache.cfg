CONSTANTS
    r1 = r1
    r2 = r2
    p1 = p1
    p2 = p2
    p3 = p3
    p4 = p4
    a = a
    b = b
    Reqs = {r1, r2}
    Pages = {p1, p2, p3, p4}
    Keys = {a, b}
    MaxLen = 3
    Paths <- MCPaths
    Rows <- MCRows
SPECIFICATION Spec
SYMMETRY Symmetry
INVARIANTS
    PageInOnePlace
    NoLeak
    PinnedCached
    PrefixClosed
