---------------------------- MODULE AppLifecycle ----------------------------
(***************************************************************************)
(* runtime.App from NewApp to exit: Run starts the purge loop and the HTTP *)
(* server, waits for a signal or a server error, shuts the server down     *)
(* within 15 seconds, and unwinds its defers: cancelPurge, then Close of   *)
(* the store.  Request handlers and the purge goroutine use the store      *)
(* meanwhile, and nobody waits for the purge goroutine.                    *)
(***************************************************************************)
CONSTANTS Requests   \* requests that may arrive while the server serves

VARIABLES
    main,       \* where NewApp and Run stand
    server,     \* httpserver.Server
    signalled,  \* a SIGINT or SIGTERM reached signal.Notify's channel
    overdue,    \* Shutdown gave up on the 15 second deadline
    cancelled,  \* purgeCtx is cancelled
    purge,      \* the goroutine of StartPurgeLoop
    request,    \* request -> where its handler stands
    store,      \* the token store
    late        \* history: who called Save on the closed store

vars == <<main, server, signalled, overdue, cancelled, purge, request, store,
          late>>
mainVars == <<main, signalled, overdue, cancelled, store>>

Init ==
    /\ main = "new"
    /\ server = "none"
    /\ signalled = FALSE
    /\ overdue = FALSE
    /\ cancelled = FALSE
    /\ purge = "none"
    /\ request = [r \in Requests |-> "none"]
    /\ store = "open"
    /\ late = {}

Running == main # "new" /\ main # "exited"

-----------------------------------------------------------------------------
(***************************************************************************)
(* The main goroutine.                                                     *)
(***************************************************************************)
\* NewApp and the start of Run; an error there is fatal.
NewApp ==
    /\ main = "new"
    /\ \/ main' = "exited" /\ UNCHANGED <<server, purge>>
       \/ main' = "select" /\ server' = "starting" /\ purge' = "waiting"
    /\ UNCHANGED <<signalled, overdue, cancelled, request, store, late>>

\* Before signal.Notify a signal kills the process; after, it is kept.
Signal ==
    /\ \/ main = "new" /\ main' = "exited" /\ UNCHANGED signalled
       \/ Running /\ signalled' = TRUE /\ UNCHANGED main
    /\ UNCHANGED <<server, overdue, cancelled, purge, request, store, late>>

\* select: the server failed, or a signal asks for Shutdown, which closes
\* the listener at once.
SelectError ==
    /\ main = "select"
    /\ server = "failed"
    /\ main' = "cancel"
    /\ UNCHANGED <<server, signalled, overdue, cancelled, purge, request,
                   store, late>>

\* Mutation: the signal ends Run without Shutdown.
SelectSignalReturns ==
    /\ main = "select"
    /\ signalled
    /\ main' = "cancel"
    /\ UNCHANGED <<server, signalled, overdue, cancelled, purge, request,
                   store, late>>

SelectSignal ==
    /\ main = "select"
    /\ signalled
    /\ main' = "shutdown"
    /\ server' = IF server = "serving" THEN "closed" ELSE server
    /\ UNCHANGED <<signalled, overdue, cancelled, purge, request, store, late>>

\* Mutation: Shutdown is given a context without a deadline.
ShutdownWaits ==
    /\ main = "shutdown"
    /\ \A r \in Requests : request[r] \in {"none", "done"}
    /\ main' = "cancel"
    /\ UNCHANGED <<server, signalled, overdue, cancelled, purge, request,
                   store, late>>

\* Shutdown returns when no handler is active, or at the deadline.
ShutdownReturns ==
    /\ main = "shutdown"
    /\ \/ /\ \A r \in Requests : request[r] \in {"none", "done"}
          /\ UNCHANGED overdue
       \/ overdue' = TRUE
    /\ main' = "cancel"
    /\ UNCHANGED <<server, signalled, cancelled, purge, request, store, late>>

\* The defers of Run, last in first out.
CancelPurge ==
    /\ main = "cancel"
    /\ cancelled' = TRUE
    /\ main' = "close"
    /\ UNCHANGED <<server, signalled, overdue, purge, request, store, late>>

\* Mutation: Close forgets the handle.
CloseNil ==
    /\ main = "close"
    /\ store' = "nil"
    /\ main' = "return"
    /\ UNCHANGED <<server, signalled, overdue, cancelled, purge, request, late>>

Close ==
    /\ main = "close"
    /\ store' = "closed"
    /\ main' = "return"
    /\ UNCHANGED <<server, signalled, overdue, cancelled, purge, request, late>>

\* main returns: every goroutine stops where it is.
Exit ==
    /\ main = "return"
    /\ main' = "exited"
    /\ UNCHANGED <<server, signalled, overdue, cancelled, purge, request,
                   store, late>>

Main ==
    \/ NewApp \/ SelectError \/ SelectSignal \/ ShutdownReturns
    \/ CancelPurge \/ Close \/ Exit

-----------------------------------------------------------------------------
(***************************************************************************)
(* The server goroutine, the handlers, the purge goroutine.                *)
(***************************************************************************)
\* net.Listen or a later Accept fails, or Serve runs, unless Shutdown was
\* called before it.
Start ==
    /\ Running
    /\ \/ server \in {"starting", "serving"} /\ server' = "failed"
       \/ /\ server = "starting"
          /\ server' = IF main = "select" THEN "serving" ELSE "closed"
    /\ UNCHANGED <<mainVars, purge, request, late>>

\* A request that reaches the service needs no token, or needs one saved.
Handle(r) ==
    /\ Running
    /\ \/ server = "serving" /\ request[r] = "none"
          /\ request' = [request EXCEPT ![r] = "active"] /\ UNCHANGED late
       \/ request[r] = "active"
          /\ request' = [request EXCEPT ![r] = "done"] /\ UNCHANGED late
       \/ request[r] = "active"
          /\ request' = [request EXCEPT ![r] = "saving"]
          /\ late' = IF store = "closed" THEN late \cup {"request"} ELSE late
       \/ request[r] = "saving"
          /\ request' = [request EXCEPT ![r] = "done"] /\ UNCHANGED late
    /\ UNCHANGED <<mainVars, server, purge>>

\* StartPurgeLoop: when purgeCtx is done and the ticker has fired, select
\* picks either; PurgeExpired ends with syncTokens, or without.
PurgeLoop ==
    /\ Running
    /\ \/ purge = "waiting" /\ purge' = "sweeping" /\ UNCHANGED late
       \/ purge = "waiting" /\ cancelled /\ purge' = "stopped" /\ UNCHANGED late
       \/ purge = "sweeping" /\ purge' = "waiting" /\ UNCHANGED late
       \/ /\ purge = "sweeping"
          /\ purge' = "saving"
          /\ late' = IF store = "closed" THEN late \cup {"purge"} ELSE late
       \/ purge = "saving" /\ purge' = "waiting" /\ UNCHANGED late
    /\ UNCHANGED <<mainVars, server, request>>

Next == Main \/ Signal \/ Start \/ (\E r \in Requests : Handle(r)) \/ PurgeLoop

Spec == Init /\ [][Next]_vars

\* The main goroutine runs, and the deadline of Shutdown's context passes.
\* No handler and no purge is obliged to finish.
FairSpec == Spec /\ WF_vars(Main)

-----------------------------------------------------------------------------
\* Types of the goroutines' states.
TypeOK ==
    /\ main \in {"new", "select", "shutdown", "cancel", "close", "return",
                 "exited"}
    /\ server \in {"none", "starting", "serving", "failed", "closed"}
    /\ signalled \in BOOLEAN /\ overdue \in BOOLEAN /\ cancelled \in BOOLEAN
    /\ purge \in {"none", "waiting", "sweeping", "saving", "stopped"}
    /\ request \in [Requests -> {"none", "active", "saving", "done"}]
    /\ store \in {"open", "closed"}
    /\ late \subseteq {"request", "purge"}

\* A handler meets the closed store only when it outlived the 15 second
\* deadline of Shutdown or the server had failed under it, whatever raced with
\* the signal: no handler that Shutdown waits for loses its store.
HandlersFinishBeforeClose ==
    "request" \in late => overdue \/ server = "failed"

\* app.go:125: "purgeCtx is cancelled before Close() so the purge loop does
\* not write to a closed store".
PurgeStopsBeforeClose == "purge" \notin late

\* A signal that arrives while the process runs ends it, even when a handler,
\* the backend or the store hangs.
SignalEndsProcess == signalled ~> main = "exited"
=============================================================================
