---------------------------- MODULE RequestRules ----------------------------
(***************************************************************************)
(* What the OAuth handlers decide from a request and the configuration     *)
(* alone: the source address behind trusted proxies (security.Request-     *)
(* Info), the redirect allowlist, the answers of /authorize and /register, *)
(* and the mapping of errors to RFC 6749 codes.  An address that does not  *)
(* parse is none of Addresses, a URL that does not has no scheme; a host   *)
(* is the sequence of its labels.                                          *)
(***************************************************************************)
EXTENDS Integers, Sequences, SequencesExt

CONSTANTS
    Addresses,         \* IP addresses
    TrustedProxies,    \* the addresses cfg.OAuthProxy.TrustedProxies covers
    TrustedCIDRs,      \* those cfg.OAuthProxy.TrustedAuthorizeCIDRs covers
    ClientIDs, ClientID,
    MandatoryPKCE

ASSUME AddressAssumption ==
    TrustedProxies \subseteq Addresses /\ TrustedCIDRs \subseteq Addresses

\* Mutation: the first of several X-Forwarded-For entries counts.
SourceIPFirst(peer, forwarded) ==
    IF /\ peer \in TrustedProxies
       /\ forwarded # <<>> /\ forwarded[1] # <<>>
       /\ forwarded[1][1] \in Addresses
    THEN forwarded[1][1] ELSE peer

\* GetRequestInfo, with the lines of the X-Forwarded-For header, each the
\* entries between its commas: Header.Get sees the first line alone.
SourceIP(peer, forwarded) ==
    IF /\ peer \in TrustedProxies
       /\ forwarded # <<>> /\ Len(forwarded[1]) = 1
       /\ forwarded[1][1] \in Addresses
    THEN forwarded[1][1] ELSE peer

IsIPAllowed(ip) == ip \in TrustedCIDRs

allowedHosts == {<<"claude", "ai">>, <<"anthropic", "com">>}

\* The host itself or a name under it: a suffix that begins with a dot.
IsAllowedRedirect(uri) ==
    uri.scheme = "https" /\ \E h \in allowedHosts : IsSuffix(h, uri.host)

-----------------------------------------------------------------------------
\* IssueAuthCode: the first check that fails, or none.
IssueError(q) ==
    CASE q.response_type # "code" -> "unsupported_response_type"
      [] q.client # ClientID -> "unauthorized_client"
      [] ~IsAllowedRedirect(q.redirect) -> "invalid_redirect_uri"
      [] q.state = "" -> "invalid_request"
      [] q.challenge = "" /\ MandatoryPKCE -> "invalid_request"
      [] q.challenge # "" /\ (q.method # "S256" \/ q.challenge = "bad_length") ->
            "invalid_request"
      [] OTHER -> "none"

MapAuthorizeError(err) ==
    IF err = "unsupported_response_type" THEN err ELSE "invalid_request"

\* An answer: its status, where it redirects to if anywhere, and its error.
Direct(status, err) == [status |-> status, location |-> {}, error |-> err]
Redirect(uri, err) == [status |-> 302, location |-> {uri}, error |-> err]

\* Mutation: what IssueAuthCode refuses is redirected, the client included.
HandleAuthorizeRedirectsAll(q) ==
    IF q.verb # "GET" THEN Direct(405, "method")
    ELSE IF ~IsIPAllowed(SourceIP(q.peer, q.forwarded))
    THEN Direct(403, "ip_not_allowed")
    ELSE IF IssueError(q) # "none"
    THEN Redirect(q.redirect, MapAuthorizeError(IssueError(q)))
    ELSE Redirect(q.redirect, "none")

HandleAuthorize(q) ==
    IF q.verb # "GET" THEN Direct(405, "method")
    ELSE IF ~IsIPAllowed(SourceIP(q.peer, q.forwarded))
    THEN Direct(403, "ip_not_allowed")
    ELSE IF ~IsAllowedRedirect(q.redirect) THEN Direct(400, "invalid_redirect_uri")
    ELSE IF q.client # ClientID THEN Direct(401, "unauthorized_client")
    ELSE IF IssueError(q) # "none"
    THEN Redirect(q.redirect, MapAuthorizeError(IssueError(q)))
    ELSE Redirect(q.redirect, "none")

\* Mutation: only the first redirect_uri is checked.
RegisterClientFirst(uris) == uris # <<>> /\ IsAllowedRedirect(uris[1])

RegisterClient(uris) ==
    uris # <<>> /\ \A i \in DOMAIN uris : IsAllowedRedirect(uris[i])

HandleRegister(q) ==
    IF q.verb # "POST" THEN Direct(405, "method")
    ELSE IF ~q.readable THEN Direct(400, "invalid_request")
    ELSE IF ~RegisterClient(q.redirects) THEN Direct(400, "invalid_redirect_uri")
    ELSE Direct(201, "none")
=============================================================================
