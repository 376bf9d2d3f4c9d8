SPECIFICATION MCSpec
CONSTANTS
    Calls = {c1, c2}
    Mixes <- MCMixes
    NULL = NULL
    Packages = {p1, p2}
    Codes = {k1, k2}
    BoundaryTables = {t1, t2}
    r1 = r1
    x1 = x1
    Docs = {r1, x1}
    External = {x1}
    FileIds = {f1, f2, f3}
    Keys = {i1, i2}
SYMMETRY Symmetry
INVARIANTS
    OnboardedExactly
