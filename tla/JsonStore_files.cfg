SPECIFICATION Spec
CONSTANTS
    m1 = m1
    m2 = m2
    l1 = l1
    l2 = l2
    NoTokens = NoTokens
    Maps = {NoTokens, m1, m2}
    Loaders = {l1, l2}
    Torn = Torn
    Missing = Missing
    NoCall = NoCall
    AllowRecover = TRUE
    MaxDamage = 2
SYMMETRY MapsAndLoaders
INVARIANTS
    TypeOK
    NeverTorn
    OnlyTornBackedUp
PROPERTY KeepsContract
CHECK_DEADLOCK FALSE
