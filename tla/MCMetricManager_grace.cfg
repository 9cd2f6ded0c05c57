CONSTANTS
    r1 = r1
    r2 = r2
    r3 = r3
    Refs <- MCRefs
    MaxAdd = 2

SPECIFICATION Spec

INVARIANT FinalValueExposed
