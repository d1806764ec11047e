SPECIFICATION Spec
CONSTANTS
    r1 = r1
    r2 = r2
    Requests = {r1, r2}
SYMMETRY AnyRequest
INVARIANT PurgeStopsBeforeClose
CHECK_DEADLOCK FALSE
