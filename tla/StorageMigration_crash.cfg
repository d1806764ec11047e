SPECIFICATION Spec
CONSTANTS
    Tokens = {a, b}
SYMMETRY AnyToken
INVARIANTS
    TypeOK
    NoTokenLost
    SourceKept
    RowsKept
PROPERTY RenamedWhenDurable
CHECK_DEADLOCK FALSE
