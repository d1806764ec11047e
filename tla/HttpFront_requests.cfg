CONSTANTS
    ToolNames = {read, write}
    NoName = NoName
    ClientID = ClientID
    operator = operator
    localProxy = localProxy
    proxy = proxy
    outside = outside
    otherClient = otherClient
    Addresses <- MCAddresses
    TrustedProxies <- MCTrustedProxies
    TrustedCIDRs <- MCTrustedCIDRs
    ClientIDs <- MCClientIDs
    MandatoryPKCE = TRUE
    Handlers = {h1, h2}
    Ids = {i1, i2}
    NoId = NoId
    Tokens = {t}
    McpRequests <- MCMcpRequests
    AuthorizeRequests <- MCAuthorizeRequests
    RegisterRequests <- MCRegisterRequests
    BackendResponses <- MCBackendResponses
    MaxSends = 2
    MaxSegments = 2

SPECIFICATION Spec
SYMMETRY AnyHandler
CONSTRAINT LoneAreAlone
CHECK_DEADLOCK FALSE

INVARIANT TypeOK
INVARIANT BodySentWhole
INVARIANT SubPathResolved
INVARIANT ToolsShownAreFiltered
INVARIANT SourceVouchedFor
INVARIANT ErrorsGoWhereTheyMay
INVARIANT RegisteredUsable
INVARIANT ProxiedIsAccounted
INVARIANT RequestIDsDistinct
PROPERTY OnlyAllowedForwarded
