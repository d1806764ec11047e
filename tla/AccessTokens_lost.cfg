SPECIFICATION Spec
CONSTANTS
    h1 = h1
    h2 = h2
    t1 = t1
    t2 = t2
    Handlers = {h1, h2}
    Tokens = {t1, t2}
    AccessTokenTTL = 2
    MaxTime = 4
    NoToken = NoToken
    Free = Free
SYMMETRY HandlersAndTokens
INVARIANT NoIssuedTokenLost
CHECK_DEADLOCK FALSE
