SPECIFICATION FairSpec
CONSTANTS
    r1 = r1
    r2 = r2
    Requests = {r1, r2}
INVARIANTS
    TypeOK
    HandlersFinishBeforeClose
PROPERTY SignalEndsProcess
CHECK_DEADLOCK FALSE
