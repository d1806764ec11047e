---------------------------- MODULE MCOAuthFlow ----------------------------
(***************************************************************************)
(* TLC instances of OAuthFlow: two handlers and two tokens.  One code and  *)
(* two allowed redirect_uri values, to race for the code; or two codes, to *)
(* race for tokensMu.  Each challenge has a verifier, which a request may  *)
(* or may not carry.                                                       *)
(***************************************************************************)
EXTENDS OAuthFlow, TLC

CONSTANTS h1, h2, t1, t2, c1, c2, uri1, uri2, v1, v2, ch1, ch2, me

MCS256 == (v1 :> ch1) @@ (v2 :> ch2)

\* Exchanging the two verifiers together with their challenges.
Verifications ==
    {(v1 :> v2) @@ (v2 :> v1) @@ (ch1 :> ch2) @@ (ch2 :> ch1)}

Symmetries ==
    Permutations({h1, h2}) \cup Permutations({t1, t2}) \cup
    Permutations({c1, c2}) \cup Permutations({uri1, uri2}) \cup Verifications
=============================================================================
