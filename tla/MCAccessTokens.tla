--------------------------- MODULE MCAccessTokens ---------------------------
(***************************************************************************)
(* TLC instances of AccessTokens: two handlers, two tokens, and a clock    *)
(* long enough for a token to be issued, expire, and be swept while        *)
(* another is issued behind it.                                            *)
(***************************************************************************)
EXTENDS AccessTokens, TLC

CONSTANTS h1, h2, t1, t2

\* Handlers and tokens are interchangeable in the specification and in every
\* safety property; the liveness run does not use symmetry.
HandlersAndTokens == Permutations({h1, h2}) \cup Permutations({t1, t2})
=============================================================================
