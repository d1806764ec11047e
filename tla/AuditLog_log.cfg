SPECIFICATION Spec
CONSTANTS
    a1 = a1
    a2 = a2
    a3 = a3
    b = b
    Calls = {a1, a2, a3, b}
    Unencodable = {b}
    Newline = Newline
    Part = Part
    MaxRotations = 1
SYMMETRY AnyCall
INVARIANTS
    TypeOK
    FailuresCounted
    LinesStayTogether
CHECK_DEADLOCK FALSE
