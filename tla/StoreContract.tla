--------------------------- MODULE StoreContract ---------------------------
(***************************************************************************)
(* What the Service relies on when it calls oauthcore.TokenStore: one Save *)
(* at a time replaces the whole contents; until it returns, and after it   *)
(* failed, either the old or the new contents are there; once it returned  *)
(* nil the new contents are there even after a power loss.  Load returns   *)
(* what is there.  The interface itself (oauthcore/tokens.go) has no       *)
(* comment: this is the contract its callers in service.go need.           *)
(***************************************************************************)
CONSTANTS
    Maps,      \* the token maps that can be saved
    NoTokens,  \* the empty map, in Maps
    NoCall

VARIABLES
    visible,   \* what a Load returns
    durable,   \* what a Load may return after a power loss
    call,      \* the map the Save in progress is to store, or NoCall
    result     \* what the last Save returned, "none" while it runs

contractVars == <<visible, durable, call, result>>

Init ==
    /\ visible = NoTokens
    /\ durable = {NoTokens}
    /\ call = NoCall
    /\ result = "none"

Save(m) ==
    /\ call = NoCall
    /\ call' = m
    /\ result' = "none"
    /\ UNCHANGED <<visible, durable>>

\* The new contents replace the old ones, not yet for good.
Land ==
    /\ call # NoCall
    /\ visible' = call
    /\ durable' = durable \cup {call}
    /\ UNCHANGED <<call, result>>

SaveReturnsNil ==
    /\ call # NoCall
    /\ visible = call
    /\ durable' = {call}
    /\ call' = NoCall
    /\ result' = "nil"
    /\ UNCHANGED visible

SaveReturnsError ==
    /\ call # NoCall
    /\ call' = NoCall
    /\ result' = "error"
    /\ UNCHANGED <<visible, durable>>

ProcessCrash ==
    /\ call' = NoCall
    /\ result' = "none"
    /\ UNCHANGED <<visible, durable>>

PowerLoss ==
    /\ visible' \in durable
    /\ durable' = {visible'}
    /\ call' = NoCall
    /\ result' = "none"

Next ==
    \/ \E m \in Maps : Save(m)
    \/ Land \/ SaveReturnsNil \/ SaveReturnsError
    \/ ProcessCrash \/ PowerLoss

Spec == Init /\ [][Next]_contractVars

-----------------------------------------------------------------------------
(***************************************************************************)
(* The looser contract of a store that does not sync before it answers: a  *)
(* power loss may undo acknowledged Saves, but goes back to a contents     *)
(* that was there as a whole; at times the store syncs on its own.         *)
(***************************************************************************)
SaveReturnsEarly ==
    /\ call # NoCall
    /\ visible = call
    /\ call' = NoCall
    /\ result' = "nil"
    /\ UNCHANGED <<visible, durable>>

Settle ==
    /\ durable' = {visible}
    /\ UNCHANGED <<visible, call, result>>

LooseSpec == Init /\ [][Next \/ SaveReturnsEarly \/ Settle]_contractVars
=============================================================================
