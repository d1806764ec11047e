------------------------------ MODULE HttpFront ------------------------------
(***************************************************************************)
(* The HTTP front: requests served by concurrent handlers, from the        *)
(* middleware that numbers them to /authorize and /register, which answer  *)
(* by RequestRules, and /mcp, which AnonymousPolicy and the tokens admit   *)
(* to the one reverse proxy all requests share.  Of the tokens only which  *)
(* ones ValidateAccessToken accepts is seen; AccessTokens tells the rest.  *)
(***************************************************************************)
EXTENDS AnonymousPolicy, RequestRules, FiniteSets

CONSTANTS
    Handlers,          \* goroutines of net/http, one request each
    Ids,               \* values of X-Request-ID
    NoId,
    Tokens,            \* bearer tokens
    \* What clients and the backend may send.
    McpRequests, AuthorizeRequests, RegisterRequests, BackendResponses,
    MaxSends           \* how often http.Transport sends a request

Empty == ""  \* a segment of a path, between two slashes or after the last

ASSUME HttpFrontAssumption ==
    /\ IsFiniteSet(Handlers)
    /\ NoId \notin Ids /\ BackendResponses \subseteq Responses
    \* The path is that of the decoded URL, after /mcp: what ServeMux cleans is
    \* the URL as it was sent, in which %2F parts no segments.
    /\ McpRequests \subseteq
          [to : {"mcp"}, clientID : Ids \cup {NoId}, verb : STRING,
           scheme : {"none", "Bearer", "other"}, token : Tokens,
           path : Seq(STRING), body : Seq(Messages),
           \* The upload of the body: to its end, past the limit of an
           \* inspection, or broken off by the client.
           upload : {"whole", "long", "broken"}]
    /\ \A q \in AuthorizeRequests :
          /\ q.to = "authorize" /\ q.clientID \in Ids \cup {NoId}
          /\ q.redirect.host \in Seq(STRING)
    /\ \A q \in RegisterRequests : q.to = "register" /\ q.clientID \in Ids \cup {NoId}

Requests == McpRequests \cup AuthorizeRequests \cup RegisterRequests

VARIABLES
    setting, enabled,  \* ANONYMOUS_PUBLIC_TOOLS and ANONYMOUS_ENABLED
    valid,             \* tokens ValidateAccessToken accepts now
    pc,                \* where a handler is
    request,           \* its request
    ctx,               \* the request's context
    body,              \* its body: what of it was read, and what is left to read
    response,          \* what the backend answered to it
    shown,             \* the tools in the body passed on to its client
    answer,            \* status, redirection and error of its answer
    entries,           \* its audit entries
    proxyRequestsTotal, proxyErrorsTotal,
    \* History variables.
    drawn,             \* ids generateID has drawn
    received           \* what the backend received from a handler

config == <<setting, enabled>>
passing == <<request, ctx, body, drawn>>
exchange == <<received, response, shown>>
counters == <<proxyRequestsTotal, proxyErrorsTotal>>
vars == <<config, valid, pc, passing, exchange, answer, entries, counters>>

NoRequest == [to |-> "none"]
NoResponse == [form |-> "none", tools |-> {}, long |-> FALSE]
NoAnswer == Direct(0, "none")
NoBody == [read |-> <<>>, left |-> <<>>]

publicTools == bindEnv(setting)

-----------------------------------------------------------------------------
(***************************************************************************)
(* The middleware: numbers the request, and keeps the client's number.     *)
(***************************************************************************)
\* Mutation: the client's number is the request's.
WithRequestIDTrusting(id, clientID) ==
    [request_id |-> IF clientID = NoId THEN id ELSE clientID,
     client_request_id |-> clientID, subPath |-> <<>>, toolsList |-> FALSE]

WithRequestID(id, clientID) ==
    [request_id |-> id, client_request_id |-> clientID,
     subPath |-> <<>>, toolsList |-> FALSE]

Init ==
    /\ setting \in Settings /\ enabled \in BOOLEAN
    /\ Validate(enabled, publicTools)
    /\ valid \in SUBSET Tokens
    /\ pc = [h \in Handlers |-> "idle"]
    /\ request = [h \in Handlers |-> NoRequest]
    /\ ctx = [h \in Handlers |-> WithRequestID(NoId, NoId)]
    /\ body = [h \in Handlers |-> NoBody]
    /\ response = [h \in Handlers |-> NoResponse]
    /\ shown = [h \in Handlers |-> {}]
    /\ answer = [h \in Handlers |-> NoAnswer]
    /\ entries = [h \in Handlers |-> <<>>]
    /\ proxyRequestsTotal = 0 /\ proxyErrorsTotal = 0
    /\ drawn = {} /\ received = [h \in Handlers |-> <<>>]

\* Tokens are issued, expire and are purged.
TokensChange ==
    /\ valid' \in SUBSET Tokens
    /\ UNCHANGED <<config, pc, passing, exchange, answer, entries, counters>>

RequestIDMiddleware(h, q) ==
    /\ pc[h] = "idle"
    /\ \E id \in Ids \ drawn :
           /\ drawn' = drawn \cup {id}
           /\ ctx' = [ctx EXCEPT ![h] = WithRequestID(id, q.clientID)]
    /\ pc' = [pc EXCEPT ![h] = "routed"]
    /\ request' = [request EXCEPT ![h] = q]
    /\ body' = [body EXCEPT
          ![h].left = IF q.to = "mcp" THEN q.body ELSE <<>>]
    /\ UNCHANGED <<config, valid, exchange, answer, entries, counters>>

\* Service.auditLog: entries carry the number in the request's context.
auditLog(h, events) ==
    entries' = [entries EXCEPT ![h] = @ \o
        [i \in DOMAIN events |-> [event |-> events[i],
                                  request_id |-> ctx[h].request_id]]]

Reply(h, reply) ==
    /\ answer' = [answer EXCEPT ![h] = reply]
    /\ pc' = [pc EXCEPT ![h] = "done"]

-----------------------------------------------------------------------------
(***************************************************************************)
(* /authorize and /register.  The code an accepted /authorize issues is    *)
(* OAuthFlow's.                                                            *)
(***************************************************************************)
ServeAuthorize(h) ==
    LET reply == HandleAuthorize(request[h]) IN
    /\ pc[h] = "routed" /\ request[h].to = "authorize"
    /\ Reply(h, reply)
    /\ auditLog(h, CASE reply.status = 405 -> <<>>
                     [] reply.status = 403 -> <<"authorize_forbidden">>
                     [] reply.error # "none" -> <<"authorize_rejected">>
                     [] OTHER -> <<"authorize_approved">>)
    /\ UNCHANGED <<config, valid, passing, exchange, counters>>

ServeRegister(h) ==
    LET reply == HandleRegister(request[h]) IN
    /\ pc[h] = "routed" /\ request[h].to = "register"
    /\ Reply(h, reply)
    /\ auditLog(h, CASE reply.error = "invalid_redirect_uri" -> <<"register_rejected">>
                     [] reply.error = "none" -> <<"client_registered">>
                     [] OTHER -> <<>>)
    /\ UNCHANGED <<config, valid, passing, exchange, counters>>

-----------------------------------------------------------------------------
(***************************************************************************)
(* /mcp, up to the reverse proxy: whom HandleProxy lets through.           *)
(***************************************************************************)
Anonymous(q) == q.scheme = "none"

Unauthorized(q) ==
    \/ q.scheme = "other"
    \/ q.scheme = "Bearer" /\ q.token \notin valid
    \/ Anonymous(q) /\ ~enabled

mcpBasePath == "mcp"

\* Mutation: only a slash at the end is dropped.
CleanSlash(path) ==
    IF Last(path) = Empty THEN Front(path) ELSE path

\* path.Clean of an absolute path.
Clean(path) ==
    LET step(clean, segment) ==
            CASE segment \in {Empty, "."} -> clean
              [] segment = ".." -> IF clean = <<>> THEN clean ELSE Front(clean)
              [] OTHER -> Append(clean, segment)
    IN FoldLeft(step, <<>>, path)

\* A segment with an @ or an encoded dot.
Malformed(path) == "@" \in Range(path)

cleanPath(q) == Clean(<<mcpBasePath>> \o q.path)

\* Mutation: the sub-path is a field of the service, not of the request.
ForwardShared(h, toolsList) ==
    /\ ctx' = [g \in Handlers |-> [ctx[g] EXCEPT
          !.subPath = Tail(cleanPath(request[h])),
          !.toolsList = IF g = h THEN toolsList ELSE @]]
    /\ pc' = [pc EXCEPT ![h] = "proxy"]
    /\ UNCHANGED answer

Forward(h, toolsList) ==
    /\ ctx' = [ctx EXCEPT ![h].subPath = Tail(cleanPath(request[h])),
                          ![h].toolsList = toolsList]
    /\ pc' = [pc EXCEPT ![h] = "proxy"]
    /\ UNCHANGED answer

\* The second half of HandleProxy, after the authorization.
Route(h, allowed, toolsList) ==
    LET clean == cleanPath(request[h])
        Reject(reply) == /\ Reply(h, reply)
                         /\ auditLog(h, Append(allowed, "proxy_rejected"))
                         /\ UNCHANGED ctx
    IN IF Malformed(request[h].path) THEN Reject(Direct(400, "malformed_path"))
       ELSE IF clean = <<>> \/ clean[1] # mcpBasePath
       THEN Reject(Direct(404, "invalid_path"))
       ELSE Forward(h, toolsList) /\ auditLog(h, allowed)

\* allowAnonymousMCPRequest up to io.ReadAll, after which the body is at its end.
ReadBody(h) ==
    LET q == request[h]
        refusal == CASE q.verb # "POST" -> Direct(405, "method_not_allowed")
                     [] q.upload # "whole" -> Direct(400, "body_too_large_or_unreadable")
                     [] OTHER -> NoAnswer
    IN /\ IF refusal = NoAnswer
          THEN /\ body' = [body EXCEPT ![h] = [read |-> @.left, left |-> <<>>]]
               /\ pc' = [pc EXCEPT ![h] = "inspected"]
               /\ UNCHANGED <<answer, entries>>
          ELSE /\ Reply(h, refusal)
               /\ auditLog(h, <<"anonymous_proxy_rejected">>)
               /\ UNCHANGED body
       /\ UNCHANGED ctx

HandleProxy(h) ==
    LET q == request[h] IN
    /\ pc[h] = "routed" /\ q.to = "mcp"
    /\ \/ /\ Unauthorized(q)
          /\ Reply(h, Direct(401, "unauthorized"))
          /\ UNCHANGED <<ctx, body, entries>>
       \/ ~Unauthorized(q) /\ Anonymous(q) /\ ReadBody(h)
       \/ ~Unauthorized(q) /\ ~Anonymous(q) /\ Route(h, <<>>, FALSE) /\ UNCHANGED body
    /\ UNCHANGED <<config, valid, request, drawn, exchange, counters>>

Judge(h) ==
    LET read == body[h].read IN
    IF PayloadAllowed(read, publicTools)
    THEN Route(h, <<"anonymous_proxy_allowed">>, containsToolsList(read))
    ELSE /\ Reply(h, Direct(403, "not_allowed"))
         /\ auditLog(h, <<"anonymous_proxy_rejected">>)
         /\ UNCHANGED ctx

\* Mutation: the body is not restored.
InspectOnly(h) ==
    /\ pc[h] = "inspected" /\ Judge(h)
    /\ UNCHANGED <<config, valid, request, body, drawn, exchange, counters>>

\* The rest of allowAnonymousMCPRequest and of HandleProxy: a new reader over
\* what was read, and the policy's answer to it.
Inspect(h) ==
    /\ pc[h] = "inspected" /\ Judge(h)
    /\ body' = [body EXCEPT ![h] = [read |-> <<>>, left |-> @.read]]
    /\ UNCHANGED <<config, valid, request, drawn, exchange, counters>>

-----------------------------------------------------------------------------
(***************************************************************************)
(* The reverse proxy, built once: what belongs to a request is in its      *)
(* context.                                                                *)
(***************************************************************************)
\* The request as it goes to the backend.  (The URL's RawPath is of no account:
\* it is used only where it decodes to the path set here.)
Director(h, sent) ==
    [subPath |-> ctx[h].subPath, request_id |-> ctx[h].request_id, body |-> sent]

\* The transport reads the body while it sends; what the client breaks off is
\* sent in part.
ServeHTTP(h) ==
    /\ pc[h] = "proxy"
    /\ \E sent \in IF request[h].upload = "broken"
                   THEN Prefixes(body[h].left) ELSE {body[h].left} :
          received' = [received EXCEPT ![h] = Append(@, Director(h, sent))]
    /\ body' = [body EXCEPT ![h].left = <<>>]
    /\ pc' = [pc EXCEPT ![h] = "backend"]
    /\ UNCHANGED <<config, valid, request, ctx, drawn, response, shown, answer,
                   entries, counters>>

\* http.Transport sends a GET without a body again when the connection it
\* reused turns out to be closed.
Resend(h) ==
    /\ pc[h] = "backend" /\ Len(received[h]) < MaxSends
    /\ request[h].verb = "GET" /\ request[h].body = <<>>
    /\ received' = [received EXCEPT ![h] = Append(@, Director(h, body[h].left))]
    /\ UNCHANGED <<config, valid, pc, passing, response, shown, answer, entries,
                   counters>>

\* It lists tools only when it is asked to.
BackendAnswers(h, r) ==
    /\ pc[h] = "backend"
    /\ r.tools # {} => \E m \in Range(received[h][1].body) : m.method = "tools/list"
    /\ response' = [response EXCEPT ![h] = r]
    /\ pc' = [pc EXCEPT ![h] = "modify"]
    /\ UNCHANGED <<config, valid, passing, received, shown, answer, entries, counters>>

\* Mutation: the request ends with the error.
ErrorHandlerEnds(h) ==
    /\ Reply(h, Direct(502, "bad_gateway"))
    /\ auditLog(h, <<"proxy_error">>)
    /\ proxyErrorsTotal' = proxyErrorsTotal + 1
    /\ UNCHANGED <<config, valid, passing, exchange, proxyRequestsTotal>>

\* ServeHTTP returns to HandleProxy after it.
ErrorHandler(h) ==
    /\ answer' = [answer EXCEPT ![h] = Direct(502, "bad_gateway")]
    /\ auditLog(h, <<"proxy_error">>)
    /\ proxyErrorsTotal' = proxyErrorsTotal + 1
    /\ pc' = [pc EXCEPT ![h] = "hit"]
    /\ UNCHANGED <<config, valid, passing, exchange, proxyRequestsTotal>>

\* No connection, no answer, or the client left.
BackendFails(h) == pc[h] \in {"proxy", "backend"} /\ ErrorHandler(h)

PassOn(h, tools) ==
    /\ shown' = [shown EXCEPT ![h] = tools]
    /\ pc' = [pc EXCEPT ![h] = "copy"]
    /\ UNCHANGED <<config, valid, passing, received, response, answer, entries, counters>>

\* A list for an anonymous client is read to its end, or is an error.
ModifyResponse(h) ==
    /\ pc[h] = "modify"
    /\ IF ctx[h].toolsList
       THEN \/ ErrorHandler(h)
            \/ /\ ~response[h].long
               /\ PassOn(h, filterAnonymousToolsList(response[h], publicTools))
       ELSE PassOn(h, response[h].tools)

\* Header and body to the client; when the body cannot be copied to its end
\* ServeHTTP panics with ErrAbortHandler, and HandleProxy with it.
CopyResponse(h) ==
    /\ pc[h] = "copy"
    /\ \/ /\ answer' = [answer EXCEPT ![h] = Direct(200, "none")]
          /\ pc' = [pc EXCEPT ![h] = "hit"]
       \/ /\ pc' = [pc EXCEPT ![h] = "aborted"]
          /\ UNCHANGED answer
    /\ UNCHANGED <<config, valid, passing, exchange, entries, counters>>

\* Mutation: the response is kept.
ProxyHitKeeps(h) ==
    /\ pc[h] = "hit"
    /\ proxyRequestsTotal' = proxyRequestsTotal + 1
    /\ auditLog(h, <<"proxy_hit">>)
    /\ pc' = [pc EXCEPT ![h] = "done"]
    /\ UNCHANGED <<config, valid, passing, exchange, answer, proxyErrorsTotal>>

\* ServeHTTP returned; the response is gone.
ProxyHit(h) ==
    /\ pc[h] = "hit"
    /\ proxyRequestsTotal' = proxyRequestsTotal + 1
    /\ auditLog(h, <<"proxy_hit">>)
    /\ pc' = [pc EXCEPT ![h] = "done"]
    /\ response' = [response EXCEPT ![h] = NoResponse]
    /\ shown' = [shown EXCEPT ![h] = {}]
    /\ UNCHANGED <<config, valid, passing, received, answer, proxyErrorsTotal>>

Next ==
    \/ TokensChange
    \/ \E h \in Handlers :
          \/ \E q \in Requests : RequestIDMiddleware(h, q)
          \/ ServeAuthorize(h) \/ ServeRegister(h) \/ HandleProxy(h)
          \/ Inspect(h) \/ ServeHTTP(h) \/ Resend(h) \/ ModifyResponse(h) \/ CopyResponse(h) \/ ProxyHit(h)
          \/ \E r \in BackendResponses : BackendAnswers(h, r)
          \/ BackendFails(h)

Spec == Init /\ [][Next]_vars

-----------------------------------------------------------------------------
events(h) == {entries[h][i].event : i \in DOMAIN entries[h]}

Serving == {"modify", "copy", "hit", "aborted"}

\* Types, and that a response is held only while it is passed on.
TypeOK ==
    /\ setting \in Settings /\ enabled \in BOOLEAN
    /\ valid \subseteq Tokens /\ drawn \subseteq Ids
    /\ pc \in [Handlers -> {"idle", "routed", "inspected", "proxy", "backend", "done"} \cup Serving]
    /\ \A h \in Handlers :
          /\ request[h] \in Requests \cup {NoRequest}
          /\ ctx[h].request_id \in Ids \cup {NoId}
          /\ response[h] \in BackendResponses \cup {NoResponse}
          /\ response[h] # NoResponse => pc[h] \in Serving
          /\ shown[h] \subseteq ToolNames
    /\ {proxyRequestsTotal, proxyErrorsTotal} \subseteq 0..Cardinality(Handlers)

\* A request goes to the backend only with a token valid when it was looked
\* at, or without an Authorization header when every message of its body is
\* set-up, tools/list or a call of a tool the operator named: also when
\* ANONYMOUS_PUBLIC_TOOLS has an empty name, which Validate lets pass, and
\* wherever in a batch the message is (ARCHITECTURE.md:54).
OnlyAllowedForwarded ==
    [][\A h \in Handlers : pc[h] # "proxy" /\ pc'[h] = "proxy" =>
          LET q == request[h] IN
          IF Anonymous(q)
          THEN /\ enabled
               /\ \A i \in DOMAIN q.body :
                     \/ q.body[i].method \in {"setup", "tools/list"}
                     \/ /\ q.body[i].method = "tools/call"
                        /\ q.body[i].name \in setting.names \cap ToolNames
          ELSE q.scheme = "Bearer" /\ q.token \in valid]_vars

\* What goes to the backend is the whole body, in every copy the transport
\* sends, although the policy has read it before (proxy.go:177-183); in part
\* only what a client with a token has broken off itself.
BodySentWhole ==
    \A h \in Handlers : \A i \in DOMAIN received[h] :
        LET q == request[h] IN
        \/ received[h][i].body = q.body
        \/ ~Anonymous(q) /\ q.upload = "broken" /\ IsPrefix(received[h][i].body, q.body)

\* A request goes to the backend at the path its own client asked for, although
\* all share one ReverseProxy (proxy.go:61): the names that no ".." behind them
\* takes back, in their order, of which the first is mcpBasePath, and no
\* segment the backend could resolve any further (proxy.go:126-145).
SubPathResolved ==
    \A h \in Handlers : \A i \in DOMAIN received[h] :
        LET asked == <<mcpBasePath>> \o request[h].path
            sent == <<mcpBasePath>> \o received[h][i].subPath
            ups(a, b) == {j \in a..b : asked[j] = ".."}
            names(a, b) == {j \in a..b : asked[j] \notin {Empty, ".", ".."}}
            Stays(a) == \A b \in a..Len(asked) :
                            Cardinality(ups(a, b)) < Cardinality(names(a, b))
            kept == {a \in DOMAIN asked : Stays(a)}
        IN /\ Len(sent) = Cardinality(kept)
           /\ \A a \in kept : sent[Cardinality({b \in kept : b <= a})] = asked[a]

\* A client without a token is shown exactly the tools the operator named, if
\* the response has one of the two forms the filter supports
\* (ARCHITECTURE.md:64), also in answer to a batch; a client with a token is
\* shown what the backend listed, whoever else is served meanwhile.
ToolsShownAreFiltered ==
    \A h \in Handlers : pc[h] = "copy" =>
        IF Anonymous(request[h])
        THEN response[h].form # "other" =>
                 shown[h] = response[h].tools \cap setting.names
        ELSE shown[h] = response[h].tools

\* /authorize answers with a redirect only when the connection comes from an
\* operator's address that is no proxy's, or when a proxy's first
\* X-Forwarded-For line has one entry, an operator's address; or when the proxy
\* names nobody so, and is itself an operator's address (handlers.go:98,
\* requestinfo.go:42-56).  No entry counts that stands beside another one.
SourceVouchedFor ==
    \A h \in Handlers : answer[h].location # {} =>
        LET q == request[h]
            line == IF q.forwarded = <<>> THEN <<>> ELSE q.forwarded[1]
            names(S) == Len(line) = 1 /\ line[1] \in S
        IN IF q.peer \in TrustedProxies
           THEN \/ names(TrustedCIDRs)
                \/ q.peer \in TrustedCIDRs /\ ~names(Addresses)
           ELSE q.peer \in TrustedCIDRs

\* "Invalid redirect_uri or invalid client_id -> direct HTTP error (no
\* redirect). All other errors -> redirect to redirect_uri with RFC-standard
\* error codes" (handlers.go:89): the second look IssueAuthCode takes at both
\* never comes to another result than the first.
ErrorsGoWhereTheyMay ==
    \A h \in Handlers : pc[h] = "done" /\ request[h].to = "authorize" =>
        LET q == request[h]
            n == Len(q.redirect.host)
            named == /\ q.redirect.scheme = "https" /\ n >= 2
                     /\ SubSeq(q.redirect.host, n - 1, n) \in allowedHosts
                     /\ q.client = ClientID
        IN /\ answer[h].location # {} => named /\ answer[h].location = {q.redirect}
           /\ answer[h].location = {} /\ named => answer[h].status \in {403, 405}
           /\ answer[h].location # {} =>
                 answer[h].error \in {"none", "invalid_request",
                                      "unsupported_response_type"}

\* A redirect_uri that some client was told is registered is never refused as
\* invalid_redirect_uri by /authorize: the server keeps no registration, so
\* both have to apply one rule (service.go:203, handlers.go:116).
RegisteredUsable ==
    \A g, h \in Handlers :
        (request[g].to = "register" /\ answer[g].status = 201
            /\ answer[h].status = 400 /\ request[h].to = "authorize")
        => request[h].redirect \notin Range(request[g].redirects)

\* A request that reached the backend and was answered, well or with an error,
\* or found no backend, has one proxy_hit and is counted once, however often it
\* was sent, one whose exchange failed also a proxy_error; only an aborted copy
\* leaves neither (proxy.go:157).
ProxiedIsAccounted ==
    /\ \A h \in Handlers : pc[h] = "done" =>
          /\ "proxy_hit" \in events(h) <=> received[h] # <<>> \/ answer[h].status = 502
          /\ answer[h].status = 502 <=> "proxy_error" \in events(h)
    /\ proxyRequestsTotal = Cardinality({h \in Handlers : "proxy_hit" \in events(h)})
    /\ proxyErrorsTotal = Cardinality({h \in Handlers : "proxy_error" \in events(h)})

\* The audit entries of a request and the backend see one X-Request-ID, which
\* no other request has, even if a client sends a number it has seen
\* (middleware.go:14, proxy.go:77).
RequestIDsDistinct ==
    LET idsOf(h) == {entries[h][i].request_id : i \in DOMAIN entries[h]} \cup
                    {received[h][i].request_id : i \in DOMAIN received[h]}
    IN \A g, h \in Handlers :
          /\ Cardinality(idsOf(h)) <= 1
          /\ g # h => idsOf(g) \cap idsOf(h) = {}
=============================================================================
