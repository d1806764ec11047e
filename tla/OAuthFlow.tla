----------------------------- MODULE OAuthFlow -----------------------------
(***************************************************************************)
(* The authorization-code flow of oauthproxy.Service on top of its token   *)
(* store (AccessTokens): GET /authorize puts a code into authCodes, POST   *)
(* /token takes it out, checks what it was issued for, draws a token and   *)
(* adds it.  Handlers interleave between the consumption of the code, the  *)
(* checks, the wait for tokensMu and the Save; the purge goroutine sweeps  *)
(* expired codes; a crash forgets every code and every request.            *)
(*                                                                         *)
(* A refused /authorize, and a /token refused before line 269 of           *)
(* service.go, change no state: their conditions are guards here.          *)
(***************************************************************************)
EXTENDS AccessTokens

CONSTANTS
    Codes,             \* authorization codes that can be drawn
    RedirectURIs,      \* redirect_uri values a request may carry
    AllowedRedirects,  \* those security.IsAllowedRedirect accepts
    NoURI,             \* the empty redirect_uri
    Verifiers,         \* code_verifier values a request may carry
    Challenges,        \* code_challenge values of a legal length
    BadChallenge,      \* a code_challenge shorter than 43 or longer than 128
    NoChallenge,       \* the empty code_challenge
    S256,              \* verifier -> BASE64URL(SHA256(verifier))
    MandatoryPKCE,     \* cfg.OAuthProxy.MandatoryPKCE
    AuthCodeTTL,       \* cfg.OAuthProxy.AuthCodeTTL, in ticks
    ClientIDs, ClientID,          \* what a request may say, and cfg's
    Secrets, ClientSecret, NoSecret,
    NoCode, NoRequest

ASSUME CodeTTLAssumption == AuthCodeTTL \in Nat \ {0}
ASSUME RedirectAssumption == AllowedRedirects \subseteq RedirectURIs \ {NoURI}
ASSUME PKCEAssumption ==
    /\ MandatoryPKCE \in BOOLEAN
    /\ S256 \in [Verifiers -> Challenges]
    /\ NoChallenge \notin Challenges \cup {BadChallenge}

\* oauthcore.AuthCode; the method is S256 whenever there is a challenge.
AuthCode == [redirect : AllowedRedirects,
             challenge : Challenges \cup {NoChallenge},
             expiresAt : Nat]

\* What ExchangeToken reads of a request once the client is authenticated.
Requests == [code : Codes, redirect : RedirectURIs, verifier : Verifiers]

ASSUME NothingAssumption == NoCode \notin AuthCode /\ NoRequest \notin Requests

VARIABLES
    authCodes,  \* Service.authCodes
    pc,         \* handler -> where it stands in ExchangeToken
    req,        \* handler -> the request it serves
    held,       \* handler -> what ConsumeAuthCode returned
    since,      \* handler -> when it last read the clock
    \* History variables.
    grants,     \* code -> what /authorize issued it for
    origin      \* token -> the request it was drawn for

sessionVars == <<pc, req, held, since>>
flowVars    == <<authCodes, sessionVars, grants, origin>>
allVars     == <<vars, flowVars>>

FlowInit ==
    /\ Init
    /\ authCodes = [c \in Codes |-> NoCode]
    /\ pc = [h \in Handlers |-> "idle"]
    /\ req = [h \in Handlers |-> NoRequest]
    /\ held = [h \in Handlers |-> NoCode]
    /\ since = [h \in Handlers |-> 0]
    /\ grants = [c \in Codes |-> NoCode]
    /\ origin = [t \in Tokens |-> NoRequest]

-----------------------------------------------------------------------------
(***************************************************************************)
(* GET /authorize: the checks of IssueAuthCode, then AddAuthCode.  The     *)
(* expiry is computed before codesMu is waited for.                        *)
(***************************************************************************)
Issuable(type, client, redirect, state, challenge, method) ==
    /\ type = "code"
    /\ client = ClientID
    /\ redirect \in AllowedRedirects
    /\ state # ""
    /\ challenge = NoChallenge => ~MandatoryPKCE
    /\ challenge # NoChallenge => method = "S256" /\ challenge \in Challenges

AddAuthCode(c, data) ==
    /\ authCodes' = [authCodes EXCEPT ![c] = data]
    /\ grants' = [grants EXCEPT ![c] = data]

\* IssueAuthCode once the checks passed, with a code never drawn before.
IssueAuthCode(c, redirect, challenge, exp) ==
    /\ grants[c] = NoCode
    /\ AddAuthCode(c, [redirect |-> redirect, challenge |-> challenge,
                       expiresAt |-> exp])

\* HandleAuthorize; a caller outside TrustedAuthorizeCIDRs is refused too.
Authorize(c, redirect, challenge, exp) ==
    /\ up
    /\ \E type \in {"code", "token"}, client \in ClientIDs,
          state \in {"", "xyz"}, method \in {"", "plain", "S256"} :
           Issuable(type, client, redirect, state, challenge, method)
    /\ IssueAuthCode(c, redirect, challenge, exp)
    /\ UNCHANGED <<vars, sessionVars, origin>>

-----------------------------------------------------------------------------
(***************************************************************************)
(* POST /token.                                                            *)
(***************************************************************************)
authenticateClient(client, secret) ==
    /\ client = ClientID
    /\ \/ secret = NoSecret
       \/ ClientSecret # NoSecret /\ secret = ClientSecret

\* Mutation: the code is read with GetAuthCode and stays.
ReadAuthCode(h, c) ==
    /\ held' = [held EXCEPT ![h] = authCodes[c]]
    /\ UNCHANGED authCodes

\* ConsumeAuthCode: look up and delete under one hold of codesMu.
ConsumeAuthCode(h, c) ==
    /\ held' = [held EXCEPT ![h] = authCodes[c]]
    /\ authCodes' = [authCodes EXCEPT ![c] = NoCode]

ExchangeToken(h, r) ==
    /\ up
    /\ pc[h] = "idle"
    /\ \E grant \in {"authorization_code", "refresh_token"},
          client \in ClientIDs, secret \in Secrets :
           grant = "authorization_code" /\ authenticateClient(client, secret)
    /\ ConsumeAuthCode(h, r.code)
    /\ pc' = [pc EXCEPT ![h] = "check"]
    /\ req' = [req EXCEPT ![h] = r]
    /\ UNCHANGED <<vars, since, grants, origin>>

ValidatePKCE(challenge, verifier) == S256[verifier] = challenge

\* Mutation: the PKCE check is missing.
GrantableWithoutPKCE(r, data, time) ==
    /\ data # NoCode
    /\ data.expiresAt >= time
    /\ r.redirect # NoURI
    /\ r.redirect = data.redirect

\* Lines 270-281, against the code's data and the time the check reads.
Grantable(r, data, time) ==
    /\ data # NoCode
    /\ data.expiresAt >= time
    /\ r.redirect # NoURI
    /\ r.redirect = data.redirect
    /\ data.challenge # NoChallenge => ValidatePKCE(data.challenge, r.verifier)

\* Mutation: the request outlives its answer.
AnswerKeepsRequest(h) ==
    /\ pc' = [pc EXCEPT ![h] = "idle"]
    /\ held' = [held EXCEPT ![h] = NoCode]
    /\ since' = [since EXCEPT ![h] = 0]
    /\ UNCHANGED req

\* The answer is written and the goroutine is gone.
Answer(h) ==
    /\ pc' = [pc EXCEPT ![h] = "idle"]
    /\ req' = [req EXCEPT ![h] = NoRequest]
    /\ held' = [held EXCEPT ![h] = NoCode]
    /\ since' = [since EXCEPT ![h] = 0]

\* Mutation: the code is put back for another attempt.
CheckFailedRestores(h) ==
    /\ pc[h] = "check"
    /\ ~Grantable(req[h], held[h], now)
    /\ authCodes' = [authCodes EXCEPT ![req[h].code] = held[h]]
    /\ Answer(h)
    /\ UNCHANGED <<vars, grants, origin>>

\* invalid_grant: the code stays consumed.
CheckFailed(h) ==
    /\ pc[h] = "check"
    /\ ~Grantable(req[h], held[h], now)
    /\ Answer(h)
    /\ UNCHANGED <<vars, authCodes, grants, origin>>

CheckPassed(h) ==
    /\ pc[h] = "check"
    /\ Grantable(req[h], held[h], now)
    /\ pc' = [pc EXCEPT ![h] = "issue"]
    /\ since' = [since EXCEPT ![h] = now]
    /\ UNCHANGED <<vars, authCodes, req, held, grants, origin>>

\* Mutation: the lifetime is added twice.
AddTokenTwice(h, t, exp) ==
    /\ pc[h] = "issue"
    /\ AddAccessToken(h, t, exp + AccessTokenTTL)
    /\ pc' = [pc EXCEPT ![h] = "add"]
    /\ origin' = [origin EXCEPT ![t] = req[h]]
    /\ UNCHANGED <<authCodes, req, held, since, grants>>

\* The expiry comes from a clock read after the checks and before tokensMu.
AddToken(h, t, exp) ==
    /\ pc[h] = "issue"
    /\ AddAccessToken(h, t, exp)
    /\ pc' = [pc EXCEPT ![h] = "add"]
    /\ origin' = [origin EXCEPT ![t] = req[h]]
    /\ UNCHANGED <<authCodes, req, held, since, grants>>

AddReturns(h) ==
    /\ pc[h] = "add"
    /\ AddSaved(h) \/ AddFailed(h)
    /\ Answer(h)
    /\ UNCHANGED <<authCodes, grants, origin>>

HandleToken(h) ==
    \/ CheckFailed(h)
    \/ CheckPassed(h)
    \/ \E t \in Tokens,
          exp \in (since[h] + AccessTokenTTL) .. (now + AccessTokenTTL) :
           AddToken(h, t, exp)
    \/ AddReturns(h)

-----------------------------------------------------------------------------
\* The first half of PurgeExpired; it reads the clock again for each code.
SweepAuthCodes ==
    /\ SweepCodes
    /\ authCodes' = [c \in Codes |->
                       IF authCodes[c] # NoCode /\ authCodes[c].expiresAt < now
                       THEN NoCode ELSE authCodes[c]]
    /\ UNCHANGED <<sessionVars, grants, origin>>

\* The codes and the requests in flight are memory only.
CrashFlow ==
    /\ Crash
    /\ authCodes' = [c \in Codes |-> NoCode]
    /\ pc' = [h \in Handlers |-> "idle"]
    /\ req' = [h \in Handlers |-> NoRequest]
    /\ held' = [h \in Handlers |-> NoCode]
    /\ since' = [h \in Handlers |-> 0]
    /\ UNCHANGED <<grants, origin>>

\* Steps that touch neither the codes nor a request.
TokensOnly ==
    /\ \/ Tick
       \/ PurgeExpired \/ SweepTokens \/ SyncTokens \/ SyncSave
       \/ NewService
    /\ UNCHANGED flowVars

FlowNext ==
    \/ \E c \in Codes, redirect \in RedirectURIs,
          challenge \in Challenges \cup {BadChallenge, NoChallenge},
          exp \in AuthCodeTTL .. (now + AuthCodeTTL) :
           Authorize(c, redirect, challenge, exp)
    \/ \E h \in Handlers : (\E r \in Requests : ExchangeToken(h, r))
                           \/ HandleToken(h)
    \/ SweepAuthCodes
    \/ CrashFlow
    \/ TokensOnly

FlowSpec == FlowInit /\ [][FlowNext]_allVars

(***************************************************************************)
(* Scheduling: a goroutine that can run does, Save returns, and the Go     *)
(* mutexes do not starve a waiter (strong fairness for the wait in         *)
(* AddToken).  Nothing obliges a client to send a request.                 *)
(***************************************************************************)
FlowFairness ==
    \A h \in Handlers :
        /\ WF_allVars(CheckFailed(h) \/ CheckPassed(h) \/ AddReturns(h))
        /\ SF_allVars(\E t \in Tokens,
                         exp \in (since[h] + AccessTokenTTL) ..
                                 (now + AccessTokenTTL) : AddToken(h, t, exp))

FlowFairSpec == FlowSpec /\ FlowFairness

-----------------------------------------------------------------------------
\* Types, and that a request is being served exactly while its handler is
\* inside ExchangeToken.
FlowTypeOK ==
    /\ authCodes \in [Codes -> AuthCode \cup {NoCode}]
    /\ pc \in [Handlers -> {"idle", "check", "issue", "add"}]
    /\ req \in [Handlers -> Requests \cup {NoRequest}]
    /\ held \in [Handlers -> AuthCode \cup {NoCode}]
    /\ since \in [Handlers -> Nat]
    /\ grants \in [Codes -> AuthCode \cup {NoCode}]
    /\ origin \in [Tokens -> Requests \cup {NoRequest}]
    /\ \A h \in Handlers : pc[h] = "idle" <=> req[h] = NoRequest

\* One code is exchanged for at most one token, however many requests present
\* it at the same time, and even if the one that consumed it fails to persist
\* its token.
CodeRedeemedOnce ==
    \A t, u \in Tokens :
        origin[t] # NoRequest /\ origin[u] # NoRequest /\ t # u
            => origin[t].code # origin[u].code

\* A token is drawn only for a request that names the redirect_uri its code
\* was issued for, and that knows the verifier when there was a challenge
\* (always, with MandatoryPKCE).
TokenMatchesGrant ==
    \A t \in Tokens : origin[t] # NoRequest =>
        LET grant == grants[origin[t].code]
        IN  /\ grant # NoCode
            /\ origin[t].redirect = grant.redirect
            /\ grant.challenge = NoChallenge => ~MandatoryPKCE
            /\ grant.challenge # NoChallenge =>
                   S256[origin[t].verifier] = grant.challenge

\* A code that left authCodes, consumed by whatever request or swept or lost
\* in a crash, never comes back: an attempt that fails PKCE or redirect_uri
\* cannot be repeated, nor one answered with server_error.
SpentCodeStaysSpent ==
    [][\A c \in Codes : grants[c] # NoCode /\ authCodes[c] = NoCode
                            => authCodes'[c] = NoCode]_allVars

\* Every request that reached ExchangeToken is answered, unless the process
\* dies: waiting for tokensMu behind other handlers' disk writes and the
\* purge ends.
RequestAnswered == \A h \in Handlers : pc[h] # "idle" ~> pc[h] = "idle"
=============================================================================
