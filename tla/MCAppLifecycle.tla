--------------------------- MODULE MCAppLifecycle ---------------------------
(***************************************************************************)
(* TLC instance of AppLifecycle: two requests in flight at the shutdown.   *)
(***************************************************************************)
EXTENDS AppLifecycle, TLC

CONSTANTS r1, r2

AnyRequest == Permutations({r1, r2})
=============================================================================
