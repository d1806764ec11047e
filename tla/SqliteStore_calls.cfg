SPECIFICATION FairSpec
CONSTANTS
    s1 = s1
    s2 = s2
    l1 = l1
    r1 = r1
    r2 = r2
    Rows = {r1, r2}
    Savers = {s1, s2}
    Loaders = {l1}
    Free = Free
    NoRow = NoRow
INVARIANT TypeOK
PROPERTIES
    KeepsLooseContract
    CallsReturn
