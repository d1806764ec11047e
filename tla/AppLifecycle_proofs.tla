------------------------ MODULE AppLifecycle_proofs ------------------------
(***************************************************************************)
(* What the shutdown keeps to, for any number of requests.                 *)
(***************************************************************************)
EXTENDS AppLifecycle, TLAPS

-----------------------------------------------------------------------------
(***************************************************************************)
(* The inductive invariant.  Between the return of Shutdown and the end    *)
(* neither a handler runs nor a new one starts, unless the deadline passed *)
(* or the server failed; a purge or a handler may be anywhere else.        *)
(***************************************************************************)
Unwinding == main \in {"cancel", "close", "return"}

Quiet == \A r \in Requests : request[r] \in {"none", "done"}

StoreInv == store = "closed" => main \in {"return", "exited"}

ServerInv ==
    /\ Unwinding \/ main = "shutdown" => server # "serving"
    /\ store = "closed" => server # "serving"

NotBeforeNewApp == main = "new" => late = {}

HandlersInv == Unwinding => overdue \/ server = "failed" \/ Quiet

LifecycleInv ==
    /\ TypeOK /\ StoreInv /\ ServerInv /\ NotBeforeNewApp /\ HandlersInv
    /\ HandlersFinishBeforeClose

LEMMA LifecycleInit == Init => LifecycleInv
<1> SUFFICES ASSUME Init PROVE LifecycleInv
  OBVIOUS
<1>1. TypeOK
  BY DEF Init, TypeOK
<1>2. StoreInv /\ ServerInv /\ NotBeforeNewApp /\ HandlersInv /\ HandlersFinishBeforeClose
  BY DEF Init, StoreInv, ServerInv, NotBeforeNewApp, HandlersInv, Unwinding,
         HandlersFinishBeforeClose
<1> QED
  BY <1>1, <1>2 DEF LifecycleInv

-----------------------------------------------------------------------------
(***************************************************************************)
(* The main goroutine moves the others nowhere, except that SelectSignal   *)
(* closes the listener.                                                    *)
(***************************************************************************)
LEMMA NewAppInv == ASSUME LifecycleInv, NewApp PROVE LifecycleInv'
<1> USE DEF NewApp, LifecycleInv
<1>1. TypeOK'
  BY DEF TypeOK
<1>2. StoreInv' /\ ServerInv' /\ NotBeforeNewApp'
  BY DEF StoreInv, ServerInv, NotBeforeNewApp, Unwinding
<1>3. HandlersInv' /\ HandlersFinishBeforeClose'
  BY DEF HandlersInv, Unwinding, NotBeforeNewApp, HandlersFinishBeforeClose
<1> QED
  BY <1>1, <1>2, <1>3

LEMMA SelectInv == ASSUME LifecycleInv, SelectError \/ SelectSignal PROVE LifecycleInv'
<1> USE DEF SelectError, SelectSignal, LifecycleInv
<1>1. TypeOK'
  BY DEF TypeOK
<1>2. StoreInv' /\ NotBeforeNewApp' /\ HandlersFinishBeforeClose'
  BY DEF NotBeforeNewApp, StoreInv, ServerInv, HandlersFinishBeforeClose
<1>3. ServerInv'
  BY DEF ServerInv, Unwinding
<1>4. HandlersInv'
  BY DEF HandlersInv, Unwinding
<1> QED
  BY <1>1, <1>2, <1>3, <1>4

\* Where Shutdown comes back without a deadline, every handler is at its end.
LEMMA ShutdownInv == ASSUME LifecycleInv, ShutdownReturns PROVE LifecycleInv'
<1> USE DEF ShutdownReturns, LifecycleInv
<1>1. TypeOK'
  BY DEF TypeOK
<1>2. StoreInv' /\ ServerInv' /\ NotBeforeNewApp'
  BY DEF NotBeforeNewApp, StoreInv, ServerInv, Unwinding
<1>3. HandlersInv'
  BY DEF HandlersInv, Quiet, Unwinding
<1>4. HandlersFinishBeforeClose'
  BY DEF TypeOK, HandlersFinishBeforeClose
<1> QED
  BY <1>1, <1>2, <1>3, <1>4

LEMMA DefersInv == ASSUME LifecycleInv, CancelPurge \/ Close \/ Exit PROVE LifecycleInv'
<1> USE DEF CancelPurge, Close, Exit, LifecycleInv
<1>1. TypeOK' /\ HandlersFinishBeforeClose'
  BY DEF TypeOK, HandlersFinishBeforeClose
<1>2. StoreInv' /\ ServerInv' /\ NotBeforeNewApp'
  BY DEF NotBeforeNewApp, TypeOK, StoreInv, ServerInv, Unwinding
<1>3. HandlersInv'
  BY DEF HandlersInv, Quiet, Unwinding
<1> QED
  BY <1>1, <1>2, <1>3

-----------------------------------------------------------------------------
LEMMA SignalInv == ASSUME LifecycleInv, Signal PROVE LifecycleInv'
  BY DEF Signal, LifecycleInv, TypeOK, StoreInv, ServerInv, NotBeforeNewApp,
         HandlersInv, Quiet, Unwinding, HandlersFinishBeforeClose

\* The server comes to serve only while main waits in its select.
LEMMA StartInv == ASSUME LifecycleInv, Start PROVE LifecycleInv'
<1> USE DEF Start, mainVars, LifecycleInv
<1>1. TypeOK'
  BY DEF TypeOK
<1>2. StoreInv' /\ ServerInv' /\ NotBeforeNewApp'
  BY DEF NotBeforeNewApp, StoreInv, ServerInv, Unwinding
<1>3. HandlersInv'
  BY DEF HandlersInv, Quiet, Unwinding
<1>4. HandlersFinishBeforeClose'
  BY DEF HandlersFinishBeforeClose
<1> QED
  BY <1>1, <1>2, <1>3, <1>4

\* A handler that saves when the store is closed is one that Shutdown did not
\* wait for to the end.
LEMMA HandleInv == ASSUME LifecycleInv, NEW r \in Requests, Handle(r) PROVE LifecycleInv'
<1> USE DEF Handle, mainVars, LifecycleInv
<1>1. TypeOK'
  BY DEF TypeOK
<1>2. StoreInv' /\ ServerInv' /\ NotBeforeNewApp'
  BY DEF NotBeforeNewApp, StoreInv, ServerInv, Unwinding
<1>3. HandlersInv'
  <2> SUFFICES ASSUME Unwinding, ~overdue, server # "failed", NEW s \in Requests
               PROVE  request'[s] \in {"none", "done"}
    BY DEF HandlersInv, Quiet, Unwinding
  <2>1. request[r] \in {"none", "done"} /\ request[s] \in {"none", "done"}
    BY DEF HandlersInv, Quiet
  <2>2. server # "serving"
    BY DEF ServerInv
  <2> QED
    BY <2>1, <2>2 DEF TypeOK
<1>4. HandlersFinishBeforeClose'
  <2> SUFFICES ASSUME request[r] = "active", store = "closed"
               PROVE  overdue \/ server = "failed"
    BY DEF HandlersFinishBeforeClose
  <2>1. Unwinding
    BY DEF StoreInv, Running, Unwinding
  <2> QED
    BY <2>1 DEF HandlersInv, Quiet
<1> QED
  BY <1>1, <1>2, <1>3, <1>4

LEMMA PurgeInv == ASSUME LifecycleInv, PurgeLoop PROVE LifecycleInv'
<1> USE DEF PurgeLoop, mainVars, LifecycleInv
<1>1. TypeOK'
  BY DEF TypeOK
<1>2. StoreInv' /\ ServerInv' /\ NotBeforeNewApp' /\ HandlersInv'
  BY DEF NotBeforeNewApp, StoreInv, ServerInv, HandlersInv, Quiet, Unwinding
<1>3. HandlersFinishBeforeClose'
  BY DEF HandlersFinishBeforeClose
<1> QED
  BY <1>1, <1>2, <1>3

LEMMA LifecycleStep == LifecycleInv /\ [Next]_vars => LifecycleInv'
<1> SUFFICES ASSUME LifecycleInv, [Next]_vars PROVE LifecycleInv'
  OBVIOUS
<1>1. CASE Main
  BY <1>1, NewAppInv, SelectInv, ShutdownInv, DefersInv DEF Main
<1>2. CASE Signal \/ Start \/ PurgeLoop
  BY <1>2, SignalInv, StartInv, PurgeInv
<1>3. CASE \E r \in Requests : Handle(r)
  BY <1>3, HandleInv
<1>4. CASE UNCHANGED vars
  BY <1>4 DEF vars, LifecycleInv, TypeOK, StoreInv, ServerInv, NotBeforeNewApp,
              HandlersInv, Quiet, Unwinding, HandlersFinishBeforeClose
<1> QED
  BY <1>1, <1>2, <1>3, <1>4 DEF Next

LEMMA LifecycleAlways == Spec => []LifecycleInv
  BY LifecycleInit, LifecycleStep, PTL DEF Spec

-----------------------------------------------------------------------------
\* Types of the goroutines' states, for any number of requests.
THEOREM LifecycleTypeCorrect == Spec => []TypeOK
<1>1. LifecycleInv => TypeOK
  BY DEF LifecycleInv
<1> QED
  BY <1>1, LifecycleAlways, PTL

\* No handler that Shutdown waits for finds the store closed, whatever raced
\* with the signal: only one that outlived the deadline, or a failed server
\* (app.go:128, server.go).
THEOREM NoHandlerLosesItsStore == Spec => []HandlersFinishBeforeClose
<1>1. LifecycleInv => HandlersFinishBeforeClose
  BY DEF LifecycleInv
<1> QED
  BY <1>1, LifecycleAlways, PTL
=============================================================================
