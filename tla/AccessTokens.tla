---------------------------- MODULE AccessTokens ----------------------------
(***************************************************************************)
(* The access-token half of oauthproxy.Service: the accessTokens map, the  *)
(* tokensMu lock, the request goroutines inside AddAccessToken, the purge  *)
(* goroutine, and the token store they save to (internal/oauthproxy/       *)
(* service.go).  The store appears here as its contract (StoreContract.tla *)
(* states it, JsonStore.tla is shown to keep it): Save replaces what is    *)
(* stored, or fails, and a failure may come after the new contents landed. *)
(*                                                                         *)
(* A token stands for its SHA-256 hash, the only form the code keeps; the  *)
(* 32 random bytes behind it are modelled as a draw of a never used token. *)
(***************************************************************************)
EXTENDS Integers

CONSTANTS
    Handlers,        \* goroutines that serve /token requests
    Tokens,          \* the access tokens that can be drawn
    AccessTokenTTL,  \* cfg.OAuthProxy.AccessTokenTTL, in ticks
    MaxTime,         \* bound: the last tick of the clock
    NoToken,         \* "no token": a handler outside AddAccessToken
    Free             \* tokensMu when nobody holds it for writing

ASSUME TTLAssumption == AccessTokenTTL \in Nat \ {0}   \* config.Validate
ASSUME TimeAssumption == MaxTime \in Nat
ASSUME NoTokenAssumption == NoToken \notin Tokens
ASSUME FreeAssumption == Free \notin Handlers

VARIABLES
    now,        \* the clock, time.Now().Unix()
    up,         \* the process is running
    mem,        \* Service.accessTokens
    tokensMu,   \* the handler that holds tokensMu for writing, or Free
    adding,     \* handler -> the token it is inside AddAccessToken for
    addSnap,    \* handler -> the snapshot it is about to save
    purgePc,    \* where the purge goroutine stands in PurgeExpired
    purgeNow,   \* the local "now" of PurgeExpired
    purgeSnap,  \* the local "snapshot" of syncTokens
    disk,       \* what the store holds
    \* History variables: they record, and guard nothing.
    expiry,     \* token -> the expiry it was added with
    fate,       \* token -> what became of it
    straddled   \* tokens saved while the purge goroutine held a snapshot

storeVars   == <<disk>>
memVars     == <<mem, tokensMu, adding, addSnap>>
purgeVars   == <<purgePc, purgeNow, purgeSnap>>
historyVars == <<expiry, fate, straddled>>
tokenVars   == <<up, memVars, purgeVars, storeVars, historyVars>>
vars        == <<now, tokenVars>>

(***************************************************************************)
(* A map[string]float64 from hashes to expiry times is a total function,   *)
(* 0 standing for an absent key as in a Go map read.  No expiry is 0.      *)
(***************************************************************************)
Absent   == 0
TokenMap == [Tokens -> Nat]
Empty    == [t \in Tokens |-> Absent]

Without(m, t) == [m EXCEPT ![t] = Absent]

\* The filter of Load and Save and the sweep of PurgeExpired: v > time.
Unexpired(m, time) == [t \in Tokens |-> IF m[t] > time THEN m[t] ELSE Absent]

\* ValidateAccessToken, for a reader that got past tokensMu.RLock.
ValidateAccessToken(t) == mem[t] > now

Readable == up /\ tokensMu = Free

Fates == {"unused", "adding", "issued", "refused", "uncertain", "lost"}

Init ==
    /\ now = 0
    /\ up = TRUE
    /\ mem = Empty
    /\ tokensMu = Free
    /\ adding = [h \in Handlers |-> NoToken]
    /\ addSnap = [h \in Handlers |-> Empty]
    /\ purgePc = "idle"
    /\ purgeNow = 0
    /\ purgeSnap = Empty
    /\ disk = Empty
    /\ expiry = Empty
    /\ fate = [t \in Tokens |-> "unused"]
    /\ straddled = {}

Tick ==
    /\ now < MaxTime
    /\ now' = now + 1
    /\ UNCHANGED tokenVars

-----------------------------------------------------------------------------
(***************************************************************************)
(* AddAccessToken.  Lock, insert, copy the map, then Save under the lock.  *)
(* The expiry is an argument: the caller computed it before it waited for  *)
(* the lock, from a clock that may have read anything up to now.           *)
(***************************************************************************)
\* Mutation: the copy is taken before the insertion.
AddAccessTokenCopyFirst(h, t, exp) ==
    /\ up
    /\ adding[h] = NoToken
    /\ tokensMu = Free
    /\ fate[t] = "unused"
    /\ tokensMu' = h
    /\ mem' = [mem EXCEPT ![t] = exp]
    /\ addSnap' = [addSnap EXCEPT ![h] = mem]
    /\ adding' = [adding EXCEPT ![h] = t]
    /\ expiry' = [expiry EXCEPT ![t] = exp]
    /\ fate' = [fate EXCEPT ![t] = "adding"]
    /\ UNCHANGED <<now, up, purgeVars, disk, straddled>>

AddAccessToken(h, t, exp) ==
    /\ up
    /\ adding[h] = NoToken
    /\ tokensMu = Free
    /\ fate[t] = "unused"
    /\ tokensMu' = h
    /\ mem' = [mem EXCEPT ![t] = exp]
    /\ addSnap' = [addSnap EXCEPT ![h] = mem']
    /\ adding' = [adding EXCEPT ![h] = t]
    /\ expiry' = [expiry EXCEPT ![t] = exp]
    /\ fate' = [fate EXCEPT ![t] = "adding"]
    /\ UNCHANGED <<now, up, purgeVars, disk, straddled>>

\* The Save call returned: both branches release tokensMu.
LeaveAddAccessToken(h) ==
    /\ tokensMu' = Free
    /\ adding' = [adding EXCEPT ![h] = NoToken]
    /\ addSnap' = [addSnap EXCEPT ![h] = Empty]
    /\ UNCHANGED <<now, up, purgeVars, expiry>>

AddSaved(h) ==
    /\ adding[h] # NoToken
    /\ disk' = Unexpired(addSnap[h], now)
    /\ fate' = [fate EXCEPT ![adding[h]] = "issued"]
    /\ straddled' = IF purgePc = "save" THEN straddled \cup {adding[h]}
                                        ELSE straddled
    /\ LeaveAddAccessToken(h)
    /\ UNCHANGED mem

\* Mutation: a failed Save is reported but not rolled back.
AddFailedKeepsToken(h) ==
    /\ adding[h] # NoToken
    /\ fate' = [fate EXCEPT ![adding[h]] = "refused"]
    /\ LeaveAddAccessToken(h)
    /\ UNCHANGED <<mem, disk, straddled>>

\* Mutation: the failure returns without Unlock.
AddFailedKeepsLock(h) ==
    /\ adding[h] # NoToken
    /\ mem' = Without(mem, adding[h])
    /\ fate' = [fate EXCEPT ![adding[h]] = "refused"]
    /\ adding' = [adding EXCEPT ![h] = NoToken]
    /\ addSnap' = [addSnap EXCEPT ![h] = Empty]
    /\ UNCHANGED <<now, up, tokensMu, purgeVars, disk, expiry, straddled>>

AddFailed(h) ==
    /\ adding[h] # NoToken
    /\ mem' = Without(mem, adding[h])
    /\ \/ /\ fate' = [fate EXCEPT ![adding[h]] = "refused"]
          /\ UNCHANGED disk
       \/ /\ fate' = [fate EXCEPT ![adding[h]] = "uncertain"]
          /\ disk' = Unexpired(addSnap[h], now)
    /\ LeaveAddAccessToken(h)
    /\ UNCHANGED straddled

-----------------------------------------------------------------------------
(***************************************************************************)
(* PurgeExpired, on each tick of StartPurgeLoop: read the clock, sweep the *)
(* codes, sweep the tokens, and when a token went, syncTokens: copy the    *)
(* map under the read lock, then Save outside of it.                       *)
(***************************************************************************)
PurgeExpired ==
    /\ up
    /\ purgePc = "idle"
    /\ purgePc' = "codes"
    /\ purgeNow' = now
    /\ UNCHANGED <<now, up, memVars, purgeSnap, disk, historyVars>>

\* Lines 100-106 touch authCodes only; OAuthFlow conjoins what they do.
SweepCodes ==
    /\ purgePc = "codes"
    /\ purgePc' = "tokens"
    /\ UNCHANGED <<now, up, memVars, purgeNow, purgeSnap, disk, historyVars>>

\* Mutation: the sweep is one tick early.
SweepTokensEarly ==
    /\ purgePc = "tokens"
    /\ tokensMu = Free
    /\ mem' = Unexpired(mem, purgeNow + 1)
    /\ purgePc' = IF mem' # mem THEN "sync" ELSE "idle"
    /\ UNCHANGED <<now, up, tokensMu, adding, addSnap, purgeNow, purgeSnap,
                   disk, historyVars>>

SweepTokens ==
    /\ purgePc = "tokens"
    /\ tokensMu = Free
    /\ mem' = Unexpired(mem, purgeNow)
    /\ purgePc' = IF mem' # mem THEN "sync" ELSE "idle"
    /\ UNCHANGED <<now, up, tokensMu, adding, addSnap, purgeNow, purgeSnap,
                   disk, historyVars>>

\* Mutation: the copy is taken without tokensMu.RLock.
SyncTokensUnlocked ==
    /\ purgePc = "sync"
    /\ purgeSnap' = mem
    /\ purgePc' = "save"
    /\ UNCHANGED <<now, up, memVars, purgeNow, disk, historyVars>>

SyncTokens ==
    /\ purgePc = "sync"
    /\ tokensMu = Free
    /\ purgeSnap' = mem
    /\ purgePc' = "save"
    /\ UNCHANGED <<now, up, memVars, purgeNow, disk, historyVars>>

\* Mutation: a failed Save ends the purge loop.
SyncSaveStops ==
    /\ purgePc = "save"
    /\ \/ disk' = Unexpired(purgeSnap, now) /\ purgePc' = "idle"
       \/ UNCHANGED disk /\ purgePc' = "stopped"
    /\ purgeSnap' = Empty
    /\ UNCHANGED <<now, up, memVars, purgeNow, historyVars>>

SyncSave ==
    /\ purgePc = "save"
    /\ \/ disk' = Unexpired(purgeSnap, now)
       \/ UNCHANGED disk                  \* the error is logged and counted
    /\ purgePc' = "idle"
    /\ purgeSnap' = Empty
    /\ UNCHANGED <<now, up, memVars, purgeNow, historyVars>>

-----------------------------------------------------------------------------
(***************************************************************************)
(* The process can die at any point (external: kill, panic).  The maps are *)
(* memory only; NewService rebuilds accessTokens with store.Load.  Death   *)
(* after a Save landed and before it returned is AddFailed's second        *)
(* branch, or SyncSave, followed by this.  What a power loss can add is    *)
(* JsonStore's subject.                                                    *)
(***************************************************************************)
Crash ==
    /\ up
    /\ up' = FALSE
    /\ mem' = Empty
    /\ tokensMu' = Free
    /\ adding' = [h \in Handlers |-> NoToken]
    /\ addSnap' = [h \in Handlers |-> Empty]
    /\ purgePc' = "idle"
    /\ purgeNow' = 0
    /\ purgeSnap' = Empty
    /\ fate' = [t \in Tokens |-> IF fate[t] = "adding" THEN "refused"
                                                       ELSE fate[t]]
    /\ UNCHANGED <<now, disk, expiry, straddled>>

NewService ==
    /\ ~up
    /\ up' = TRUE
    /\ mem' = Unexpired(disk, now)
    /\ fate' = [t \in Tokens |->
                  IF fate[t] = "issued" /\ expiry[t] > now /\ mem'[t] = Absent
                  THEN "lost" ELSE fate[t]]
    /\ UNCHANGED <<now, tokensMu, adding, addSnap, purgeVars, disk, expiry,
                   straddled>>

-----------------------------------------------------------------------------
Handle(h) ==
    \/ \E t \in Tokens, exp \in AccessTokenTTL .. (now + AccessTokenTTL) :
           AddAccessToken(h, t, exp)
    \/ AddSaved(h)
    \/ AddFailed(h)

Purge == PurgeExpired \/ SweepCodes \/ SweepTokens \/ SyncTokens \/ SyncSave

Next == Tick \/ (\E h \in Handlers : Handle(h)) \/ Purge \/ Crash \/ NewService

Spec == Init /\ [][Next]_vars

(***************************************************************************)
(* Scheduling: store.Save returns, the ticker fires, and Go's RWMutex does *)
(* not starve a waiter (strong fairness where the purge takes tokensMu).   *)
(* A request need never come and the process need never crash.             *)
(***************************************************************************)
Fairness ==
    /\ \A h \in Handlers : WF_vars(AddSaved(h) \/ AddFailed(h))
    /\ WF_vars(PurgeExpired \/ SweepCodes \/ SyncSave)
    /\ SF_vars(SweepTokens \/ SyncTokens)

FairSpec == Spec /\ Fairness

-----------------------------------------------------------------------------
Live(t) == expiry[t] > now

\* Types, and that tokensMu is held for writing by exactly the handler inside
\* AddAccessToken: it holds the lock until the Save it made under the lock has
\* returned, and no return path keeps it (service.go:167-181).
TypeOK ==
    /\ now \in Nat
    /\ up \in BOOLEAN
    /\ mem \in TokenMap
    /\ tokensMu \in Handlers \cup {Free}
    /\ adding \in [Handlers -> Tokens \cup {NoToken}]
    /\ \A h \in Handlers : adding[h] # NoToken <=> tokensMu = h
    /\ addSnap \in [Handlers -> TokenMap]
    /\ purgePc \in {"idle", "codes", "tokens", "sync", "save"}
    /\ purgeNow \in Nat
    /\ purgeSnap \in TokenMap
    /\ disk \in TokenMap
    /\ expiry \in TokenMap
    /\ fate \in [Tokens -> Fates]
    /\ straddled \subseteq Tokens

\* While the process runs, a token whose AddAccessToken returned nil is
\* accepted by ValidateAccessToken until it expires: neither the sweep, nor
\* another handler's rollback, nor a restart forgets it.  (A restart that did
\* not find the token turns its fate to "lost"; DurableUnlessStraddled bounds
\* when that can be.)
IssuedTokenAccepted ==
    up => \A t \in Tokens :
              fate[t] = "issued" /\ Live(t) => ValidateAccessToken(t)

\* A reader of the map never meets a token whose persistence has not
\* succeeded: the insertion of AddAccessToken is invisible until its Save
\* returned, and rolled back before the lock is released if it failed.
\* ("uncertain": Save failed after the contents landed, and a restart
\* loaded them.)
OnlyPersistedTokensReadable ==
    Readable => \A t \in Tokens :
                    mem[t] # Absent => fate[t] \in {"issued", "uncertain"}

\* A token whose Save failed before anything landed is nowhere, and no later
\* Save brings it back: not the purge's, which copies the map while other
\* handlers insert and roll back, nor another handler's.
RefusedTokenStaysOut ==
    \A t \in Tokens : fate[t] = "refused" =>
        /\ mem[t] = Absent
        /\ disk[t] = Absent
        /\ purgeSnap[t] = Absent
        /\ \A h \in Handlers : addSnap[h][t] = Absent

\* An issued token is in the store until it expires, so a restart finds it,
\* unless its own Save fell between the purge goroutine's copy of the map
\* and the Save of that copy (syncTokens saves outside tokensMu).
DurableUnlessStraddled ==
    \A t \in Tokens \ straddled :
        /\ fate[t] # "lost"
        /\ fate[t] = "issued" /\ Live(t) => disk[t] = expiry[t]

\* No issued token is ever forgotten by a restart before it expires: what
\* "adds a token to the in-memory map and persists it" (service.go:161) says.
NoIssuedTokenLost == \A t \in Tokens : fate[t] # "lost"

\* The sweep reaches every expired token: the map does not keep one for ever,
\* whatever the handlers do, unless the process stops.
ExpiredTokensPurged ==
    \A t \in Tokens : (mem[t] # Absent /\ ~Live(t)) ~> (mem[t] = Absent)
=============================================================================
