SPECIFICATION FlowFairSpec
CONSTANTS
    h1 = h1
    h2 = h2
    t1 = t1
    t2 = t2
    c1 = c1
    c2 = c2
    uri1 = uri1
    uri2 = uri2
    v1 = v1
    v2 = v2
    ch1 = ch1
    ch2 = ch2
    me = me
    Handlers = {h1, h2}
    Tokens = {t1, t2}
    AccessTokenTTL = 1
    MaxTime = 0
    NoToken = NoToken
    Free = Free
    Codes = {c1, c2}
    RedirectURIs = {uri1, uri2}
    AllowedRedirects = {uri1}
    NoURI = NoURI
    Verifiers = {v1, v2}
    Challenges = {ch1, ch2}
    BadChallenge = BadChallenge
    NoChallenge = NoChallenge
    S256 <- MCS256
    MandatoryPKCE = TRUE
    AuthCodeTTL = 1
    ClientIDs = {me, other}
    ClientID = me
    Secrets = {NoSecret, secret, wrong}
    ClientSecret = secret
    NoSecret = NoSecret
    NoCode = NoCode
    NoRequest = NoRequest
INVARIANT TokenMatchesGrant
PROPERTY RequestAnswered
CHECK_DEADLOCK FALSE
