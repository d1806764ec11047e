------------------------- MODULE AccessTokens_proofs -------------------------
(***************************************************************************)
(* The safety invariants of AccessTokens hold for every set of handlers,   *)
(* every set of tokens, every lifetime and every length of run.            *)
(***************************************************************************)
EXTENDS AccessTokens, TLAPS

-----------------------------------------------------------------------------
(***************************************************************************)
(* The inductive invariant, in named parts.                                *)
(***************************************************************************)

\* A process that is down holds nothing, and the purge goroutine holds a copy
\* only to save it.  (Who holds tokensMu is part of TypeOK.)
LockInv ==
    /\ ~up => tokensMu = Free /\ purgePc = "idle" /\ mem = Empty
    /\ purgeNow <= now
    /\ purgePc # "save" => purgeSnap = Empty

\* What the handler inside AddAccessToken is about to save is the map as it
\* stands, and holds its own token.
AddingInv ==
    /\ \A h \in Handlers : adding[h] # NoToken =>
          /\ fate[adding[h]] = "adding"
          /\ addSnap[h] = mem
          /\ mem[adding[h]] = expiry[adding[h]]
    /\ \A h \in Handlers : adding[h] = NoToken => addSnap[h] = Empty
    /\ \A t \in Tokens : fate[t] = "adding" =>
          \E h \in Handlers : adding[h] = t

\* Whichever copy of the map has a token, has it with the expiry it was
\* added with.
ExpiryInv ==
    \A t \in Tokens :
        /\ mem[t] # Absent => mem[t] = expiry[t]
        /\ disk[t] # Absent => disk[t] = expiry[t]
        /\ purgeSnap[t] # Absent => purgeSnap[t] = expiry[t]

\* Which fates may be found in which copy.
FateInv ==
    \A t \in Tokens :
        /\ mem[t] # Absent => fate[t] \in {"adding", "issued", "uncertain"}
        /\ disk[t] # Absent => fate[t] \in {"issued", "uncertain"}
        /\ purgeSnap[t] # Absent => fate[t] \in {"issued", "uncertain"}

\* An issued token is in memory; and unless it was straddled, in the store
\* and in the copy the purge goroutine is about to store.
IssuedInv ==
    \A t \in Tokens : fate[t] = "issued" /\ Live(t) =>
        /\ up => mem[t] = expiry[t]
        /\ t \notin straddled => disk[t] = expiry[t]
        /\ purgePc = "save" /\ t \notin straddled => purgeSnap[t] = expiry[t]

LostInv == \A t \in Tokens : fate[t] = "lost" => t \in straddled

IInv ==
    /\ TypeOK
    /\ LockInv
    /\ AddingInv
    /\ ExpiryInv
    /\ FateInv
    /\ IssuedInv
    /\ LostInv
-----------------------------------------------------------------------------
(***************************************************************************)
(* The invariant holds initially, and one lemma per action (or per small   *)
(* group of actions) shows that the action preserves it.                   *)
(***************************************************************************)
LEMMA InitInv == Init => IInv
  BY TTLAssumption, NoTokenAssumption, FreeAssumption
  DEF Init, IInv, TypeOK, LockInv, AddingInv, ExpiryInv, FateInv, IssuedInv,
      LostInv, Live, TokenMap, Empty, Absent, Fates

\* What Unexpired returns: a map, whose entries are entries of the given one,
\* and which keeps each entry that is later than the given time.
LEMMA UnexpiredType ==
    ASSUME NEW m \in TokenMap, NEW time \in Nat
    PROVE  /\ Unexpired(m, time) \in TokenMap
           /\ \A t \in Tokens :
                 /\ Unexpired(m, time)[t] # Absent =>
                       Unexpired(m, time)[t] = m[t] /\ m[t] > time
                 /\ m[t] > time => Unexpired(m, time)[t] = m[t]
  BY DEF Unexpired, TokenMap, Absent

LEMMA TickInv == IInv /\ Tick => IInv'
  BY DEF Tick, tokenVars, memVars, purgeVars, storeVars, historyVars,
     IInv, TypeOK, LockInv, AddingInv, ExpiryInv, FateInv, IssuedInv,
     LostInv, Live, TokenMap, Empty, Absent, Fates

LEMMA AddAccessTokenInv ==
    ASSUME IInv,
           NEW h \in Handlers, NEW t \in Tokens,
           NEW exp \in AccessTokenTTL .. (now + AccessTokenTTL),
           AddAccessToken(h, t, exp)
    PROVE  IInv'
<1> USE TTLAssumption, NoTokenAssumption, FreeAssumption
        DEF AddAccessToken, IInv, TypeOK, purgeVars, TokenMap, Absent
<1>1. exp \in Nat \ {0}
  OBVIOUS
<1>2. TypeOK'
  BY <1>1 DEF Fates
<1>3. LockInv'
  BY DEF LockInv
<1>4. AddingInv'
  BY DEF AddingInv, LockInv, Fates, Empty
<1>5. ExpiryInv'
  BY DEF ExpiryInv, FateInv
<1>6. FateInv'
  BY DEF FateInv, Fates
<1>7. IssuedInv'
  BY DEF IssuedInv, Live, Fates
<1>8. LostInv'
  BY DEF LostInv, Fates
<1> QED
  BY <1>2, <1>3, <1>4, <1>5, <1>6, <1>7, <1>8

LEMMA AddSavedInv ==
    ASSUME IInv, NEW h \in Handlers, AddSaved(h)
    PROVE  IInv'
<1> USE NoTokenAssumption, FreeAssumption
        DEF AddSaved, LeaveAddAccessToken, IInv, TypeOK, purgeVars, Absent
<1> DEFINE saved == Unexpired(addSnap[h], now)
<1>1. /\ addSnap[h] = mem
      /\ adding[h] \in Tokens
      /\ fate[adding[h]] = "adding"
      /\ mem[adding[h]] = expiry[adding[h]]
      /\ up
      /\ mem \in TokenMap
      /\ \A g \in Handlers : g # h => adding[g] = NoToken
  BY DEF AddingInv, LockInv
<1>2. /\ saved \in TokenMap
      /\ \A t \in Tokens :
            /\ saved[t] # Absent => saved[t] = mem[t]
            /\ mem[t] > now => saved[t] = mem[t]
  BY <1>1, UnexpiredType
<1>3. /\ disk' = saved
      /\ UNCHANGED mem
  BY <1>1
<1> HIDE DEF saved
<1>4. TypeOK'
  BY <1>1, <1>2, <1>3 DEF TokenMap, Empty, Fates
<1>5. LockInv'
  BY <1>1 DEF LockInv
<1>6. AddingInv'
  BY <1>1 DEF AddingInv, TokenMap, Empty
<1>7. ExpiryInv'
  BY <1>2, <1>3 DEF ExpiryInv
<1>8. \A t \in Tokens : fate[t] = "adding" => t = adding[h]
  BY <1>1 DEF AddingInv
<1>9. FateInv'
  BY <1>1, <1>2, <1>3, <1>8 DEF FateInv
<1>10. IssuedInv'
  <2> SUFFICES ASSUME NEW t \in Tokens, fate'[t] = "issued", Live(t)'
               PROVE  /\ up => mem[t] = expiry[t]
                      /\ t \notin straddled' =>
                           /\ disk'[t] = expiry[t]
                           /\ purgePc = "save" => purgeSnap[t] = expiry[t]
    BY <1>3 DEF IssuedInv
  <2>1. expiry[t] > now
    BY DEF Live
  <2>2. CASE t = adding[h]
    <3>1. mem[t] = expiry[t]
      BY <1>1, <2>2
    <3> QED
      BY <1>1, <1>2, <1>3, <2>1, <2>2, <3>1
  <2>3. CASE t # adding[h]
    <3>1. fate[t] = "issued" /\ Live(t)
      BY <1>1, <2>1, <2>3 DEF Live
    <3> QED
      BY <1>1, <1>2, <1>3, <2>1, <3>1 DEF IssuedInv
  <2> QED
    BY <2>2, <2>3
<1>11. LostInv'
  BY <1>1 DEF LostInv
<1> QED
  BY <1>4, <1>5, <1>6, <1>7, <1>9, <1>10, <1>11

LEMMA AddFailedInv ==
    ASSUME IInv, NEW h \in Handlers, AddFailed(h)
    PROVE  IInv'
<1> USE NoTokenAssumption, FreeAssumption
        DEF AddFailed, LeaveAddAccessToken, IInv, TypeOK, purgeVars, Absent,
            Without
<1> DEFINE saved == Unexpired(addSnap[h], now)
<1>1. /\ addSnap[h] = mem
      /\ adding[h] \in Tokens
      /\ fate[adding[h]] = "adding"
      /\ mem[adding[h]] = expiry[adding[h]]
      /\ up
      /\ mem \in TokenMap
      /\ \A g \in Handlers : g # h => adding[g] = NoToken
  BY DEF AddingInv, LockInv
<1>2. /\ saved \in TokenMap
      /\ \A t \in Tokens :
            /\ saved[t] # Absent => saved[t] = mem[t]
            /\ mem[t] > now => saved[t] = mem[t]
  BY <1>1, UnexpiredType
<1>3. \/ disk' = disk /\ fate' = [fate EXCEPT ![adding[h]] = "refused"]
      \/ disk' = saved /\ fate' = [fate EXCEPT ![adding[h]] = "uncertain"]
  OBVIOUS
<1> HIDE DEF saved
<1>4. TypeOK'
  <2>1. /\ disk' \in TokenMap
        /\ fate' \in [Tokens -> Fates]
    BY <1>1, <1>2, <1>3 DEF Fates
  <2> QED
    BY <1>1, <2>1 DEF TokenMap, Empty
<1>5. LockInv'
  BY <1>1 DEF LockInv
<1>6. \A t \in Tokens : fate[t] = "adding" => t = adding[h]
  BY <1>1 DEF AddingInv
<1>7. AddingInv'
  BY <1>1, <1>3, <1>6 DEF AddingInv, TokenMap, Empty
<1>8. ExpiryInv'
  BY <1>1, <1>2, <1>3 DEF ExpiryInv, TokenMap
<1>9. FateInv'
  BY <1>1, <1>2, <1>3, <1>6 DEF FateInv, TokenMap
<1>10. IssuedInv'
  <2> SUFFICES ASSUME NEW t \in Tokens, fate'[t] = "issued", Live(t)'
               PROVE  /\ mem'[t] = expiry[t]
                      /\ t \notin straddled =>
                           /\ disk'[t] = expiry[t]
                           /\ purgePc = "save" => purgeSnap[t] = expiry[t]
    BY DEF IssuedInv
  <2>1. /\ t # adding[h]
        /\ fate[t] = "issued"
        /\ Live(t)
        /\ expiry[t] > now
    BY <1>1, <1>3 DEF Live
  <2> QED
    BY <1>1, <1>2, <1>3, <2>1 DEF IssuedInv, TokenMap
<1>11. LostInv'
  BY <1>1, <1>3 DEF LostInv
<1> QED
  BY <1>4, <1>5, <1>7, <1>8, <1>9, <1>10, <1>11

LEMMA PurgeExpiredInv ==
    ASSUME IInv, PurgeExpired \/ SweepCodes
    PROVE  IInv'
  BY DEF PurgeExpired, SweepCodes, memVars, historyVars,
     IInv, TypeOK, LockInv, AddingInv, ExpiryInv, FateInv, IssuedInv,
     LostInv, Live, TokenMap, Empty, Absent, Fates

\* The sweep removes what had expired when PurgeExpired read the clock, which
\* is no later than now, and nobody is inside AddAccessToken meanwhile.
LEMMA SweepTokensInv ==
    ASSUME IInv, SweepTokens
    PROVE  IInv'
<1> USE FreeAssumption DEF SweepTokens, IInv, TypeOK, historyVars, Absent
<1>1. \A h \in Handlers : adding[h] = NoToken
  BY DEF LockInv
<1>2. /\ mem' \in TokenMap
      /\ \A t \in Tokens :
            /\ mem'[t] # Absent => mem'[t] = mem[t]
            /\ mem[t] > purgeNow => mem'[t] = mem[t]
  BY UnexpiredType
<1>3. TypeOK'
  BY <1>2
<1>4. LockInv'
  BY <1>2 DEF LockInv
<1>5. AddingInv'
  BY <1>1 DEF AddingInv
<1>6. ExpiryInv' /\ FateInv'
  BY <1>2 DEF ExpiryInv, FateInv
<1>7. IssuedInv'
  BY <1>2 DEF IssuedInv, LockInv, Live, TokenMap
<1>8. LostInv'
  BY DEF LostInv
<1> QED
  BY <1>3, <1>4, <1>5, <1>6, <1>7, <1>8

\* The copy syncTokens takes is taken while nobody is inside AddAccessToken:
\* it holds every issued token, and no token that may yet be refused.
LEMMA SyncTokensInv ==
    ASSUME IInv, SyncTokens
    PROVE  IInv'
<1> USE FreeAssumption DEF SyncTokens, IInv, TypeOK, memVars, historyVars, Absent
<1>1. \A t \in Tokens : fate[t] # "adding"
  BY NoTokenAssumption DEF LockInv, AddingInv
<1>2. TypeOK' /\ LockInv' /\ AddingInv' /\ ExpiryInv' /\ LostInv'
  BY DEF LockInv, AddingInv, ExpiryInv, LostInv
<1>3. FateInv'
  BY <1>1 DEF FateInv, Fates
<1>4. IssuedInv'
  BY DEF IssuedInv, LockInv, Live
<1> QED
  BY <1>2, <1>3, <1>4

LEMMA SyncSaveInv ==
    ASSUME IInv, SyncSave
    PROVE  IInv'
<1> USE DEF SyncSave, IInv, TypeOK, memVars, historyVars, Absent
<1> DEFINE saved == Unexpired(purgeSnap, now)
<1>1. /\ saved \in TokenMap
      /\ \A t \in Tokens :
            /\ saved[t] # Absent => saved[t] = purgeSnap[t]
            /\ purgeSnap[t] > now => saved[t] = purgeSnap[t]
  BY UnexpiredType
<1>2. disk' = saved \/ disk' = disk
  OBVIOUS
<1> HIDE DEF saved
<1>3. TypeOK'
  BY <1>1, <1>2 DEF TokenMap, Empty
<1>4. LockInv' /\ AddingInv' /\ LostInv'
  BY DEF LockInv, AddingInv, LostInv
<1>5. ExpiryInv' /\ FateInv'
  BY <1>1, <1>2 DEF ExpiryInv, FateInv, Empty
<1>6. IssuedInv'
  BY <1>1, <1>2 DEF IssuedInv, Live, TokenMap
<1> QED
  BY <1>3, <1>4, <1>5, <1>6

LEMMA CrashInv ==
    ASSUME IInv, Crash
    PROVE  IInv'
<1> USE NoTokenAssumption, FreeAssumption DEF Crash, IInv, TypeOK, Absent
<1>1. TypeOK'
  BY DEF TokenMap, Empty, Fates
<1>2. LockInv' /\ AddingInv' /\ ExpiryInv' /\ LostInv'
  BY DEF LockInv, AddingInv, ExpiryInv, LostInv, Empty
<1>3. FateInv'
  BY DEF FateInv, Empty
<1>4. IssuedInv'
  BY DEF IssuedInv, Live
<1> QED
  BY <1>1, <1>2, <1>3, <1>4

\* A restart marks a live issued token "lost" only when the store does not
\* hold it, and then it had been straddled.
LEMMA NewServiceInv ==
    ASSUME IInv, NewService
    PROVE  IInv'
<1> USE NoTokenAssumption, FreeAssumption
        DEF NewService, IInv, TypeOK, purgeVars, Absent
<1>1. /\ mem' \in TokenMap
      /\ \A t \in Tokens :
            /\ mem'[t] # Absent => mem'[t] = disk[t]
            /\ disk[t] > now => mem'[t] = disk[t]
  BY UnexpiredType
<1>2. \A h \in Handlers : adding[h] = NoToken
  BY DEF LockInv
<1>3. TypeOK'
  BY <1>1 DEF Fates
<1>4. LockInv' /\ AddingInv' /\ ExpiryInv'
  BY <1>1, <1>2 DEF LockInv, AddingInv, ExpiryInv
<1>5. FateInv'
  BY <1>1 DEF FateInv, LockInv, ExpiryInv, Empty
<1>6. IssuedInv'
  BY <1>1 DEF IssuedInv, ExpiryInv, Live, LockInv, TokenMap
<1>7. LostInv'
  BY <1>1 DEF LostInv, IssuedInv, ExpiryInv, Live, TokenMap
<1> QED
  BY <1>3, <1>4, <1>5, <1>6, <1>7

-----------------------------------------------------------------------------
LEMMA NextInv == IInv /\ [Next]_vars => IInv'
<1> SUFFICES ASSUME IInv, [Next]_vars PROVE IInv'
  OBVIOUS
<1>1. CASE Tick
  BY <1>1, TickInv
<1>2. CASE \E h \in Handlers : Handle(h)
  BY <1>2, AddAccessTokenInv, AddSavedInv, AddFailedInv DEF Handle
<1>3. CASE Purge
  BY <1>3, PurgeExpiredInv, SweepTokensInv, SyncTokensInv, SyncSaveInv DEF Purge
<1>4. CASE Crash
  BY <1>4, CrashInv
<1>5. CASE NewService
  BY <1>5, NewServiceInv
<1>6. CASE UNCHANGED vars
  BY <1>6 DEF vars, tokenVars, memVars, purgeVars, storeVars, historyVars,
     IInv, TypeOK, LockInv, AddingInv, ExpiryInv, FateInv, IssuedInv,
     LostInv, Live
<1> QED
  BY <1>1, <1>2, <1>3, <1>4, <1>5, <1>6 DEF Next

\* The inductive invariant holds in every reachable state.
THEOREM InductiveInvariant == Spec => []IInv
  BY InitInv, NextInv, PTL DEF Spec

\* Type correctness of the token half of the Service, and that tokensMu is held
\* by exactly the handler inside AddAccessToken.
THEOREM TypeCorrect == Spec => []TypeOK
<1>1. IInv => TypeOK
  BY DEF IInv
<1> QED
  BY <1>1, InductiveInvariant, PTL

\* ValidateAccessToken accepts an issued token until it expires, whatever the
\* purge and the other handlers do.
THEOREM IssuedAccepted == Spec => []IssuedTokenAccepted
<1>1. IInv => IssuedTokenAccepted
  BY DEF IInv, IssuedInv, IssuedTokenAccepted, Live, ValidateAccessToken
<1> QED
  BY <1>1, InductiveInvariant, PTL

\* A reader under tokensMu.RLock never meets a token whose Save has not
\* returned nil.
THEOREM PersistedBeforeReadable == Spec => []OnlyPersistedTokensReadable
<1>1. IInv => OnlyPersistedTokensReadable
  BY FreeAssumption, NoTokenAssumption
  DEF IInv, TypeOK, LockInv, AddingInv, FateInv, OnlyPersistedTokensReadable,
      Readable
<1> QED
  BY <1>1, InductiveInvariant, PTL

\* A refused token is in no copy of the map, and so no later Save stores it.
THEOREM RefusedStaysOut == Spec => []RefusedTokenStaysOut
<1>1. IInv => RefusedTokenStaysOut
  BY DEF IInv, TypeOK, AddingInv, FateInv, RefusedTokenStaysOut, Empty, Absent
<1> QED
  BY <1>1, InductiveInvariant, PTL

\* Only a token saved behind the purge goroutine's copy can be missing from
\* the store.
THEOREM Durable == Spec => []DurableUnlessStraddled
<1>1. IInv => DurableUnlessStraddled
  BY DEF IInv, IssuedInv, LostInv, DurableUnlessStraddled, Live
<1> QED
  BY <1>1, InductiveInvariant, PTL
=============================================================================
