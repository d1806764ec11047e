-------------------------- MODULE OAuthFlow_proofs --------------------------
(***************************************************************************)
(* The authorization-code flow implements AccessTokens, and with it keeps  *)
(* every safety property proved there; a code is redeemed at most once and *)
(* only by a request that matches what it was issued for.                  *)
(***************************************************************************)
EXTENDS OAuthFlow, AccessTokens_proofs

-----------------------------------------------------------------------------
(***************************************************************************)
(* The inductive invariant, in named parts.                                *)
(***************************************************************************)

\* The request carries what the code's data asks for.
Matches(r, data) ==
    /\ r.redirect = data.redirect
    /\ data.challenge # NoChallenge => S256[r.verifier] = data.challenge

\* The handler consumed a code and has not drawn a token for it.
Holds(h) == pc[h] \in {"check", "issue"} /\ held[h] # NoCode

\* Some token was drawn for code c.
Redeemed(c) == \E t \in Tokens : origin[t] # NoRequest /\ origin[t].code = c

\* A consumed code is out of the map, has no token, and has one holder.
HoldInv ==
    /\ \A h \in Handlers : Holds(h) =>
          /\ authCodes[req[h].code] = NoCode
          /\ grants[req[h].code] = held[h]
          /\ ~Redeemed(req[h].code)
    /\ \A g, h \in Handlers :
          Holds(g) /\ Holds(h) /\ g # h => req[g].code # req[h].code
    /\ \A h \in Handlers : pc[h] = "issue" =>
          held[h] # NoCode /\ Matches(req[h], held[h])

\* A code in the map is as /authorize issued it, and no token came from it.
CodeInv ==
    \A c \in Codes :
        /\ authCodes[c] # NoCode => grants[c] = authCodes[c] /\ ~Redeemed(c)
        /\ grants[c] # NoCode => (grants[c].challenge = NoChallenge => ~MandatoryPKCE)

\* A token's code was issued, for what the token's request carries.
OriginInv ==
    \A t \in Tokens : origin[t] # NoRequest =>
        /\ grants[origin[t].code] # NoCode
        /\ Matches(origin[t], grants[origin[t].code])

FlowInv == FlowTypeOK /\ HoldInv /\ CodeInv /\ OriginInv /\ CodeRedeemedOnce

-----------------------------------------------------------------------------
LEMMA FlowInitInv == FlowInit => FlowInv
  BY NothingAssumption
  DEF FlowInit, FlowInv, FlowTypeOK, HoldInv, CodeInv, OriginInv,
      CodeRedeemedOnce, Holds, Redeemed

\* A step that changes no code, no request and no history keeps the invariant.
LEMMA FlowStutter == FlowInv /\ UNCHANGED flowVars => FlowInv'
  BY DEF flowVars, sessionVars, FlowInv, FlowTypeOK, HoldInv, CodeInv,
         OriginInv, CodeRedeemedOnce, Holds, Redeemed

LEMMA AuthorizeInv ==
    ASSUME FlowInv, NEW c \in Codes, NEW redirect \in RedirectURIs,
           NEW challenge, NEW exp \in Nat,
           Authorize(c, redirect, challenge, exp)
    PROVE  FlowInv'
<1> DEFINE data == [redirect |-> redirect, challenge |-> challenge,
                    expiresAt |-> exp]
<1>1. /\ grants[c] = NoCode
      /\ redirect \in AllowedRedirects
      /\ challenge # NoChallenge => challenge \in Challenges
      /\ challenge = NoChallenge => ~MandatoryPKCE
      /\ authCodes' = [authCodes EXCEPT ![c] = data]
      /\ grants' = [grants EXCEPT ![c] = data]
      /\ UNCHANGED <<pc, req, held, since, origin>>
  BY DEF Authorize, IssueAuthCode, Issuable, AddAuthCode, sessionVars
<1>2. data \in AuthCode /\ data # NoCode
  BY <1>1, NothingAssumption DEF AuthCode
<1>3. data.challenge = NoChallenge => ~MandatoryPKCE
  BY <1>1
<1> HIDE DEF data
<1>4. FlowTypeOK'
  BY <1>1, <1>2 DEF FlowInv, FlowTypeOK
<1>5. ~Redeemed(c)
  BY <1>1 DEF FlowInv, OriginInv, Redeemed
<1>6. \A h \in Handlers : Holds(h) => req[h].code # c
  BY <1>1 DEF FlowInv, HoldInv, Holds
<1>7. HoldInv'
  <2>1. \A h \in Handlers : Holds(h) => req[h].code \in Codes
    BY DEF FlowInv, FlowTypeOK, Holds, Requests
  <2> QED
    BY <1>1, <1>6, <2>1
    DEF FlowInv, FlowTypeOK, HoldInv, Holds, Redeemed, Matches
<1>8. CodeInv'
  BY <1>1, <1>2, <1>3, <1>5 DEF FlowInv, FlowTypeOK, CodeInv, Redeemed
<1>9. OriginInv'
  <2>1. \A t \in Tokens : origin[t] # NoRequest =>
           origin[t].code \in Codes \ {c}
    BY <1>5 DEF FlowInv, FlowTypeOK, Redeemed, Requests
  <2> QED
    BY <1>1, <2>1 DEF FlowInv, FlowTypeOK, OriginInv, Matches
<1>10. CodeRedeemedOnce'
  BY <1>1 DEF FlowInv, CodeRedeemedOnce
<1> QED
  BY <1>4, <1>7, <1>8, <1>9, <1>10 DEF FlowInv

LEMMA ExchangeTokenInv ==
    ASSUME FlowInv, NEW h \in Handlers, NEW r \in Requests, ExchangeToken(h, r)
    PROVE  FlowInv'
<1>1. /\ pc[h] = "idle"
      /\ held' = [held EXCEPT ![h] = authCodes[r.code]]
      /\ authCodes' = [authCodes EXCEPT ![r.code] = NoCode]
      /\ pc' = [pc EXCEPT ![h] = "check"]
      /\ req' = [req EXCEPT ![h] = r]
      /\ UNCHANGED <<since, grants, origin>>
      /\ r.code \in Codes
  BY DEF ExchangeToken, ConsumeAuthCode, Requests
<1>2. FlowTypeOK'
  BY <1>1, NothingAssumption DEF FlowInv, FlowTypeOK
<1>3. \A g \in Handlers : g # h =>
         /\ Holds(g)' <=> Holds(g)
         /\ req'[g] = req[g] /\ held'[g] = held[g] /\ pc'[g] = pc[g]
  BY <1>1 DEF FlowInv, FlowTypeOK, Holds
<1>4. \A g \in Handlers : Holds(g) => req[g].code \in Codes
  BY DEF FlowInv, FlowTypeOK, Holds, Requests
<1>5. Holds(h)' => authCodes[r.code] # NoCode
  BY <1>1 DEF FlowInv, FlowTypeOK, Holds
<1>6. HoldInv'
  <2>1. ASSUME NEW g \in Handlers, Holds(g)'
        PROVE  /\ authCodes'[req'[g].code] = NoCode
               /\ grants'[req'[g].code] = held'[g]
               /\ ~Redeemed(req[g].code)'
    <3>1. CASE g = h
      BY <1>1, <1>5, <2>1, <3>1
      DEF FlowInv, FlowTypeOK, HoldInv, CodeInv, Redeemed
    <3>2. CASE g # h
      BY <1>1, <1>3, <1>4, <2>1, <3>2
      DEF FlowInv, FlowTypeOK, HoldInv, Redeemed
    <3> QED
      BY <3>1, <3>2
  <2>2. ASSUME NEW g \in Handlers, g # h, Holds(g)', Holds(h)'
        PROVE  req'[g].code # req'[h].code
    BY <1>1, <1>3, <1>5, <2>2 DEF FlowInv, FlowTypeOK, HoldInv
  <2>3. ASSUME NEW f \in Handlers, NEW g \in Handlers, f # g,
               Holds(f)', Holds(g)'
        PROVE  req'[f].code # req'[g].code
    BY <1>3, <2>2, <2>3 DEF FlowInv, HoldInv
  <2>4. \A g \in Handlers : pc'[g] = "issue" =>
           held'[g] # NoCode /\ Matches(req'[g], held'[g])
    BY <1>1, <1>3 DEF FlowInv, FlowTypeOK, HoldInv
  <2> QED
    BY <2>1, <2>3, <2>4 DEF HoldInv, Matches
<1>7. CodeInv'
  BY <1>1 DEF FlowInv, FlowTypeOK, CodeInv, Redeemed
<1>8. OriginInv' /\ CodeRedeemedOnce'
  BY <1>1 DEF FlowInv, OriginInv, CodeRedeemedOnce, Matches
<1> QED
  BY <1>2, <1>6, <1>7, <1>8 DEF FlowInv

\* CheckFailed, CheckPassed, AddReturns: the handler moves on, no code and no
\* token of the flow changes.
LEMMA SessionInv ==
    ASSUME FlowInv, NEW h \in Handlers, FlowTypeOK',
           UNCHANGED <<authCodes, grants, origin>>,
           \A g \in Handlers : g # h =>
              /\ pc'[g] = pc[g]
              /\ req'[g] = req[g]
              /\ held'[g] = held[g],
           pc'[h] \in {"idle", "add"}
              \/ /\ Holds(h)
                 /\ Matches(req[h], held[h])
                 /\ req'[h] = req[h]
                 /\ held'[h] = held[h]
    PROVE  FlowInv'
<1>1. \A g \in Handlers : Holds(g)' =>
         Holds(g) /\ req'[g] = req[g] /\ held'[g] = held[g]
  BY DEF Holds
<1>2. HoldInv'
  BY <1>1 DEF FlowInv, HoldInv, Holds, Redeemed, Matches
<1>3. CodeInv' /\ OriginInv' /\ CodeRedeemedOnce'
  BY DEF FlowInv, CodeInv, OriginInv, CodeRedeemedOnce, Redeemed, Matches
<1> QED
  BY <1>2, <1>3 DEF FlowInv

LEMMA CheckFailedInv ==
    ASSUME FlowInv, NEW h \in Handlers, CheckFailed(h)
    PROVE  FlowInv'
<1>1. FlowTypeOK'
  BY DEF CheckFailed, Answer, FlowInv, FlowTypeOK
<1> QED
  BY <1>1, SessionInv DEF CheckFailed, Answer, FlowInv, FlowTypeOK

LEMMA CheckPassedInv ==
    ASSUME FlowInv, TypeOK, NEW h \in Handlers, CheckPassed(h)
    PROVE  FlowInv'
<1>1. FlowTypeOK'
  BY DEF CheckPassed, FlowInv, FlowTypeOK, TypeOK
<1>2. Holds(h) /\ Matches(req[h], held[h])
  BY DEF CheckPassed, Grantable, ValidatePKCE, Holds, Matches
<1> QED
  BY <1>1, <1>2, SessionInv DEF CheckPassed, FlowInv, FlowTypeOK

LEMMA AddReturnsInv ==
    ASSUME FlowInv, NEW h \in Handlers, AddReturns(h)
    PROVE  FlowInv'
<1>1. FlowTypeOK'
  BY DEF AddReturns, Answer, FlowInv, FlowTypeOK
<1> QED
  BY <1>1, SessionInv DEF AddReturns, Answer, FlowInv, FlowTypeOK

LEMMA AddTokenInv ==
    ASSUME FlowInv, NEW h \in Handlers, NEW t \in Tokens, NEW exp \in Nat,
           AddToken(h, t, exp)
    PROVE  FlowInv'
<1>1. /\ pc[h] = "issue"
      /\ pc' = [pc EXCEPT ![h] = "add"]
      /\ origin' = [origin EXCEPT ![t] = req[h]]
      /\ UNCHANGED <<authCodes, req, held, since, grants>>
  BY DEF AddToken
<1>2. /\ req[h] \in Requests
      /\ req[h] # NoRequest
      /\ req[h].code \in Codes
  BY <1>1, NothingAssumption DEF FlowInv, FlowTypeOK, Requests
<1>3. Holds(h) /\ Matches(req[h], held[h])
  BY <1>1 DEF FlowInv, HoldInv, Holds
<1>4. /\ authCodes[req[h].code] = NoCode
      /\ grants[req[h].code] = held[h]
      /\ held[h] # NoCode
      /\ ~Redeemed(req[h].code)
  BY <1>3 DEF FlowInv, HoldInv, Holds
<1>5. FlowTypeOK'
  BY <1>1, <1>2 DEF FlowInv, FlowTypeOK
<1>6. \A c \in Codes : Redeemed(c)' => Redeemed(c) \/ c = req[h].code
  BY <1>1 DEF FlowInv, FlowTypeOK, Redeemed
<1>7. \A g \in Handlers :
         Holds(g)' => g # h /\ Holds(g) /\ req[g].code \in Codes
  BY <1>1 DEF FlowInv, FlowTypeOK, Holds, Requests
<1>8. HoldInv'
  <2>1. \A g \in Handlers : Holds(g)' => ~Redeemed(req[g].code)'
    BY <1>1, <1>3, <1>6, <1>7 DEF FlowInv, HoldInv
  <2>2. \A g \in Handlers : pc'[g] = "issue" => pc[g] = "issue"
    BY <1>1 DEF FlowInv, FlowTypeOK
  <2> QED
    BY <1>1, <1>7, <2>1, <2>2 DEF FlowInv, HoldInv, Matches
<1>9. CodeInv'
  BY <1>1, <1>4, <1>6 DEF FlowInv, CodeInv
<1>10. OriginInv'
  BY <1>1, <1>3, <1>4 DEF FlowInv, FlowTypeOK, OriginInv, Matches
<1>11. CodeRedeemedOnce'
  BY <1>1, <1>2, <1>4 DEF FlowInv, FlowTypeOK, CodeRedeemedOnce, Redeemed
<1> QED
  BY <1>5, <1>8, <1>9, <1>10, <1>11 DEF FlowInv

\* The sweep and the crash only take codes out, and a crash ends every
\* request.
LEMMA SweepInv ==
    ASSUME FlowInv, SweepAuthCodes \/ CrashFlow
    PROVE  FlowInv'
<1>1. /\ \A c \in Codes : authCodes'[c] \in {authCodes[c], NoCode}
      /\ authCodes' \in [Codes -> AuthCode \cup {NoCode}]
      /\ UNCHANGED <<grants, origin>>
  BY DEF SweepAuthCodes, CrashFlow, FlowInv, FlowTypeOK
<1>2. \/ UNCHANGED sessionVars
      \/ /\ pc' = [h \in Handlers |-> "idle"]
         /\ req' = [h \in Handlers |-> NoRequest]
         /\ held' = [h \in Handlers |-> NoCode]
         /\ since' = [h \in Handlers |-> 0]
  BY DEF SweepAuthCodes, CrashFlow
<1>3. FlowTypeOK'
  BY <1>1, <1>2 DEF FlowInv, FlowTypeOK, sessionVars
<1>4. \A h \in Handlers : Holds(h)' =>
         /\ Holds(h)
         /\ UNCHANGED <<req, held, pc>>
         /\ req[h].code \in Codes
  BY <1>2 DEF FlowInv, FlowTypeOK, Holds, Requests, sessionVars
<1>5. HoldInv'
  <2>1. \A h \in Handlers : Holds(h)' =>
           /\ authCodes'[req[h].code] = NoCode
           /\ grants'[req[h].code] = held[h]
           /\ ~Redeemed(req[h].code)'
    BY <1>1, <1>4 DEF FlowInv, HoldInv, Redeemed
  <2>2. \A h \in Handlers : pc'[h] = "issue" =>
           held'[h] # NoCode /\ Matches(req[h], held[h])' /\ Holds(h)'
    BY <1>2 DEF FlowInv, HoldInv, Matches, Holds, sessionVars
  <2> QED
    BY <1>4, <2>1, <2>2 DEF FlowInv, HoldInv
<1>6. CodeInv' /\ OriginInv' /\ CodeRedeemedOnce'
  BY <1>1
  DEF FlowInv, CodeInv, OriginInv, CodeRedeemedOnce, Redeemed, Matches
<1> QED
  BY <1>3, <1>5, <1>6 DEF FlowInv

-----------------------------------------------------------------------------
(***************************************************************************)
(* Each step of the flow is a step of AccessTokens or leaves its variables *)
(* alone.                                                                  *)
(***************************************************************************)
LEMMA FlowStepRefines ==
    ASSUME FlowTypeOK, TypeOK, [FlowNext]_allVars
    PROVE  [Next]_vars
<1>1. ASSUME NEW c \in Codes, NEW redirect \in RedirectURIs,
             NEW challenge, NEW exp, Authorize(c, redirect, challenge, exp)
      PROVE  [Next]_vars
  BY <1>1 DEF Authorize
<1>2. ASSUME NEW h \in Handlers, NEW r \in Requests, ExchangeToken(h, r)
      PROVE  [Next]_vars
  BY <1>2 DEF ExchangeToken
<1>3. ASSUME NEW h \in Handlers, HandleToken(h)
      PROVE  [Next]_vars
  <2>1. CASE CheckFailed(h) \/ CheckPassed(h)
    BY <2>1 DEF CheckFailed, CheckPassed
  <2>2. ASSUME NEW t \in Tokens,
               NEW exp \in (since[h] + AccessTokenTTL) .. (now + AccessTokenTTL),
               AddToken(h, t, exp)
        PROVE  [Next]_vars
    <3>1. exp \in AccessTokenTTL .. (now + AccessTokenTTL)
      <4>1. since[h] \in Nat /\ now \in Nat /\ AccessTokenTTL \in Nat
        BY TTLAssumption DEF FlowTypeOK, TypeOK
      <4> QED
        BY <4>1
    <3>2. AddAccessToken(h, t, exp)
      BY <2>2 DEF AddToken
    <3> QED
      BY <3>1, <3>2 DEF Next, Handle
  <2>3. CASE AddReturns(h)
    BY <2>3 DEF AddReturns, Next, Handle
  <2> QED
    BY <1>3, <2>1, <2>2, <2>3 DEF HandleToken
<1>4. CASE SweepAuthCodes
  BY <1>4 DEF SweepAuthCodes, Next, Purge
<1>5. CASE CrashFlow
  BY <1>5 DEF CrashFlow, Next
<1>6. CASE TokensOnly
  BY <1>6 DEF TokensOnly, Next, Purge
<1>7. CASE UNCHANGED allVars
  BY <1>7 DEF allVars
<1> QED
  BY <1>1, <1>2, <1>3, <1>4, <1>5, <1>6, <1>7 DEF FlowNext

LEMMA FlowNextInv == FlowInv /\ TypeOK /\ [FlowNext]_allVars => FlowInv'
<1> SUFFICES ASSUME FlowInv, TypeOK, [FlowNext]_allVars
             PROVE  FlowInv'
  OBVIOUS
<1>1. ASSUME NEW c \in Codes, NEW redirect \in RedirectURIs, NEW challenge,
             NEW exp \in AuthCodeTTL .. (now + AuthCodeTTL),
             Authorize(c, redirect, challenge, exp)
      PROVE  FlowInv'
  <2>1. exp \in Nat
    BY CodeTTLAssumption DEF TypeOK
  <2> QED
    BY <1>1, <2>1, AuthorizeInv
<1>2. ASSUME NEW h \in Handlers, NEW r \in Requests, ExchangeToken(h, r)
      PROVE  FlowInv'
  BY <1>2, ExchangeTokenInv
<1>3. ASSUME NEW h \in Handlers, HandleToken(h)
      PROVE  FlowInv'
  <2>1. ASSUME NEW t \in Tokens,
               NEW exp \in (since[h] + AccessTokenTTL) .. (now + AccessTokenTTL),
               AddToken(h, t, exp)
        PROVE  FlowInv'
    <3>1. since[h] \in Nat /\ now \in Nat /\ AccessTokenTTL \in Nat
      BY TTLAssumption DEF FlowInv, FlowTypeOK, TypeOK
    <3>2. exp \in Nat
      BY <3>1
    <3> QED
      BY <2>1, <3>2, AddTokenInv
  <2> QED
    BY <1>3, <2>1, CheckFailedInv, CheckPassedInv, AddReturnsInv
    DEF HandleToken
<1>4. CASE SweepAuthCodes \/ CrashFlow
  BY <1>4, SweepInv
<1>5. CASE TokensOnly
  BY <1>5, FlowStutter DEF TokensOnly
<1>6. CASE UNCHANGED allVars
  BY <1>6, FlowStutter DEF allVars
<1> QED
  BY <1>1, <1>2, <1>3, <1>4, <1>5, <1>6 DEF FlowNext

LEMMA FlowInductive == FlowSpec => [](FlowInv /\ TypeOK)
<1>1. FlowInit => FlowInv /\ TypeOK
  BY FlowInitInv, InitInv DEF FlowInit, IInv
<1>2. FlowInit => IInv
  BY InitInv DEF FlowInit
<1>3. FlowInv /\ IInv /\ [FlowNext]_allVars => FlowInv' /\ IInv'
  <2> SUFFICES ASSUME FlowInv, IInv, [FlowNext]_allVars
               PROVE  FlowInv' /\ IInv'
    OBVIOUS
  <2>1. FlowTypeOK /\ TypeOK
    BY DEF FlowInv, IInv
  <2>2. [Next]_vars
    BY <2>1, FlowStepRefines
  <2> QED
    BY <2>1, <2>2, FlowNextInv, NextInv
<1>4. FlowInv /\ IInv => FlowInv /\ TypeOK
  BY DEF IInv
<1> QED
  BY <1>1, <1>2, <1>3, <1>4, PTL DEF FlowSpec

\* The flow, its codes hidden, is a behaviour of AccessTokens: every theorem
\* of AccessTokens_proofs holds of it.
THEOREM FlowImplementsTokens == FlowSpec => Spec
<1>1. FlowInit => Init
  BY DEF FlowInit
<1>2. FlowInv /\ TypeOK /\ [FlowNext]_allVars => [Next]_vars
  BY FlowStepRefines DEF FlowInv
<1> QED
  BY <1>1, <1>2, FlowInductive, PTL DEF FlowSpec, Spec

\* Type correctness of the codes and the requests in flight.
THEOREM FlowTypeCorrect == FlowSpec => []FlowTypeOK
<1>1. FlowInv => FlowTypeOK
  BY DEF FlowInv
<1> QED
  BY <1>1, FlowInductive, PTL

\* However many requests present one code, one token is drawn for it.
THEOREM SingleUse == FlowSpec => []CodeRedeemedOnce
<1>1. FlowInv => CodeRedeemedOnce
  BY DEF FlowInv
<1> QED
  BY <1>1, FlowInductive, PTL

\* A token is drawn only for the redirect_uri and the verifier its code asks
\* for; with MandatoryPKCE there always is a challenge.
THEOREM OnlyMatchingRequests == FlowSpec => []TokenMatchesGrant
<1>1. FlowInv => TokenMatchesGrant
  BY DEF FlowInv, FlowTypeOK, Requests, CodeInv, OriginInv, Matches,
         TokenMatchesGrant
<1> QED
  BY <1>1, FlowInductive, PTL

\* No step puts a spent code back.
THEOREM SpentForGood == FlowSpec => SpentCodeStaysSpent
<1>1. FlowTypeOK /\ [FlowNext]_allVars =>
        [\A c \in Codes : grants[c] # NoCode /\ authCodes[c] = NoCode
                            => authCodes'[c] = NoCode]_allVars
  BY DEF FlowTypeOK, FlowNext, Authorize, IssueAuthCode, AddAuthCode, ExchangeToken,
         ConsumeAuthCode, HandleToken, CheckFailed, CheckPassed, AddToken,
         AddReturns, SweepAuthCodes, CrashFlow, TokensOnly, flowVars, Requests
<1> QED
  BY <1>1, FlowTypeCorrect, PTL DEF FlowSpec, SpentCodeStaysSpent
=============================================================================
