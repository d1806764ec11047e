---------------------------- MODULE MCHttpFront ----------------------------
(***************************************************************************)
(* TLC instance of HttpFront: two handlers, two tools, four addresses, and *)
(* for each handler every request that differs in what decides about it.   *)
(* Requests that differ only in what decides about them before anything    *)
(* is shared, every path of few segments and every source of /authorize,   *)
(* are served while the other handler has not begun.                       *)
(***************************************************************************)
EXTENDS HttpFront, TLC

CONSTANTS operator, localProxy, proxy, outside, otherClient, MaxSegments

MCAddresses == {operator, localProxy, proxy, outside}
MCTrustedProxies == {localProxy, proxy}
MCTrustedCIDRs == {operator, localProxy}
MCClientIDs == {ClientID, otherClient}

\* Clients without a token send each message alone and pairs of those that
\* matter together, the others little; a client's number is one of the server's
\* where that could matter.
Mcp(ids, scheme, verbs, paths, uploads, bodies) ==
    [to : {"mcp"}, clientID : ids, scheme : {scheme}, token : Tokens, verb : verbs,
     path : paths, upload : uploads, body : bodies]

List == [method |-> "tools/list", name |-> NoName]
Calls == {[method |-> "tools/call", name |-> n] : n \in ToolNames}
Setup == [method |-> "setup", name |-> NoName]

PairedMcp ==
    Mcp({NoId}, "none", {"POST"}, {<<>>}, {"whole"},
        BoundedSeq(Messages, 1) \cup {<<m, n>> : m, n \in Calls \cup {List, Setup}})
    \cup Mcp(Ids, "none", {"POST"}, {<<"sub">>}, {"whole"}, {<<List>>})
    \cup Mcp({NoId}, "none", {"POST"}, {<<"@">>}, {"whole", "long", "broken"}, {<<List>>})
    \cup Mcp({NoId}, "none", {"GET"}, {<<>>}, {"whole"}, {<<>>})
    \cup Mcp({NoId}, "Bearer", {"GET"}, {<<"">>, <<"@">>, <<"..", "">>}, {"whole"}, {<<>>})
    \cup Mcp({NoId}, "Bearer", {"POST"}, {<<"sub", "">>}, {"long", "broken"},
             {<<List, Setup>>})
    \cup Mcp({NoId}, "other", {"POST"}, {<<>>}, {"whole"}, {<<List>>})

\* Every path of few segments, and some that leave /mcp and come back: a GET with
\* a token, some of its slashes sent as %2F; a dot alone ServeMux takes away, but
\* of a CONNECT.
Dots == {<<".">>, <<"..">>}
Paths == BoundedSeq({mcpBasePath, "sub", "..", Empty}, MaxSegments) \ Dots
Longer == {<<"..", mcpBasePath, s>> : s \in {"sub", "..", Empty}}
          \cup {<<"sub", "..", s>> : s \in {"..", "sub"}}
          \cup {<<".", "sub">>, <<"..", "..", mcpBasePath>>}
LoneMcp ==
    Mcp({NoId}, "Bearer", {"CONNECT"}, Dots, {"whole"}, {<<>>})
    \cup Mcp({NoId}, "Bearer", {"GET"}, Paths \cup Longer, {"whole"}, {<<>>})
MCMcpRequests == PairedMcp \cup LoneMcp

\* /authorize: every client and redirect; every source, and each other parameter
\* wrong once.
URIs == {[scheme |-> s, host |-> <<"claude", "ai">>] : s \in {"http", "https"}} \cup
        [scheme : {"https"},
         host : {<<"app", "anthropic", "com">>, <<"notclaude", "ai">>, <<>>}]
Good == [to |-> "authorize", clientID |-> NoId, verb |-> "GET", peer |-> operator,
         forwarded |-> <<>>, client |-> ClientID,
         redirect |-> [scheme |-> "https", host |-> <<"claude", "ai">>],
         response_type |-> "code", state |-> "s", challenge |-> "c", method |-> "S256"]

PairedAuthorize ==
    {[Good EXCEPT !.client = c, !.redirect = u] : c \in MCClientIDs, u \in URIs}
    \cup {[Good EXCEPT !.peer = outside]}

LoneAuthorize ==
    {[Good EXCEPT !.peer = p, !.forwarded = f] : p \in {localProxy, proxy},
         f \in {<<l>> : l \in BoundedSeq({operator, outside}, 2) \cup {<<"unknown">>}}
               \cup {<<>>, <<<<operator>>, <<outside>>>>, <<<<outside>>, <<operator>>>>}}
    \cup {[Good EXCEPT !.peer = outside, !.forwarded = <<<<operator>>>>],
          [Good EXCEPT !.response_type = "token"], [Good EXCEPT !.state = ""],
          [Good EXCEPT !.challenge = ""], [Good EXCEPT !.challenge = "bad_length"],
          [Good EXCEPT !.method = "plain"], [Good EXCEPT !.verb = "POST"]}

MCAuthorizeRequests == PairedAuthorize \cup LoneAuthorize

MCRegisterRequests ==
    [to : {"register"}, clientID : {NoId}, verb : {"POST"}, readable : {TRUE},
     redirects : {<<>>} \cup {<<Good.redirect, u>> : u \in URIs} \cup {<<u>> : u \in URIs}]
    \cup [to : {"register"}, clientID : {NoId}, verb : {"GET", "POST"},
          readable : {FALSE}, redirects : {<<>>}]

MCBackendResponses ==
    {[form |-> "json", tools |-> T, long |-> FALSE] : T \in {{}, ToolNames}} \cup
    {[form |-> f, tools |-> ToolNames, long |-> f = "json"] :
        f \in {"json", "data_lines", "other"}}

\* Where the policy cannot matter, one setting of it is enough.
Lone == (LoneMcp \ PairedMcp) \cup (LoneAuthorize \ PairedAuthorize)
LoneAreAlone ==
    \A h \in Handlers : request[h] \in Lone
        => ~enabled /\ ~setting.isSet /\ \A k \in Handlers \ {h} : pc[k] = "idle"

AnyHandler ==
    Permutations(Handlers) \cup Permutations(Ids) \cup Permutations(ToolNames)
=============================================================================
