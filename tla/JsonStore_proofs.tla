-------------------------- MODULE JsonStore_proofs --------------------------
(***************************************************************************)
(* The JSON token file keeps the contract of the token store across every  *)
(* failure of a system call, every process crash and every power loss, for *)
(* every set of maps and every number of concurrent probes.                *)
(***************************************************************************)
EXTENDS JsonStore, TLAPS

-----------------------------------------------------------------------------
(***************************************************************************)
(* The inductive invariant.  The temporary file is complete once written   *)
(* and on the disk once it may be renamed; whoever is about to move the    *)
(* file away read a torn one, and mu has kept every Save out since.        *)
(***************************************************************************)
SaveInv ==
    /\ pc \in {"sync", "rename"} => tmp = saving
    /\ pc = "rename" => synced
    /\ damage = 0 /\ pc = "syncdir" => file = saving
    /\ file \in onDisk

LoadInv ==
    /\ \A l \in Loaders : loadPc[l] # "idle" => pc = "idle"
    /\ \A l \in Loaders : loadPc[l] = "recover" => file \in {Torn, Missing}

StoreInv == TypeOK /\ SaveInv /\ LoadInv /\ NeverTorn /\ OnlyTornBackedUp

LEMMA StoreInit == Init => StoreInv
<1> SUFFICES ASSUME Init PROVE StoreInv
  OBVIOUS
<1>1. TypeOK
  <2>1. damage \in 0 .. MaxDamage
    BY StoreAssumption DEF Init
  <2> QED
    BY <2>1 DEF Init, TypeOK, Files
<1>2. SaveInv /\ LoadInv /\ NeverTorn /\ OnlyTornBackedUp
  BY StoreAssumption
  DEF Init, SaveInv, LoadInv, NeverTorn, OnlyTornBackedUp
<1> QED
  BY <1>1, <1>2 DEF StoreInv

\* Save's system calls, and the two ways of dying.
LEMMA SavingInv ==
    ASSUME StoreInv, (\E m \in Maps : Save(m)) \/ Saving
    PROVE  StoreInv'
<1> USE StoreAssumption
        DEF StoreInv, TypeOK, SaveInv, LoadInv, NeverTorn, OnlyTornBackedUp,
            Files, loadVars, Return, Continue
<1>1. ASSUME NEW m \in Maps, Save(m) PROVE StoreInv'
  BY <1>1 DEF Save
<1>2. CASE OpenTmp
  BY <1>2 DEF OpenTmp
<1>3. CASE WriteTmp
  BY <1>3 DEF WriteTmp
<1>4. CASE SyncTmp
  BY <1>4 DEF SyncTmp
<1>5. CASE RenameTmp
  <2>1. /\ saving \in Maps
        /\ tmp = saving
        /\ synced
    BY <1>5 DEF RenameTmp
  <2>2. CASE Return("error") /\ UNCHANGED <<file, tmp, synced, onDisk>>
    BY <1>5, <2>2 DEF RenameTmp
  <2>3. CASE /\ Continue("syncdir")
             /\ file' = tmp
             /\ onDisk' = onDisk \cup {tmp}
             /\ tmp' = Missing
             /\ synced' = FALSE
    <3>1. TypeOK'
      BY <1>5, <2>1, <2>3 DEF RenameTmp
    <3>2. SaveInv' /\ NeverTorn'
      BY <1>5, <2>1, <2>3 DEF RenameTmp
    <3>3. LoadInv' /\ OnlyTornBackedUp'
      BY <1>5, <2>3 DEF RenameTmp
    <3> QED
      BY <3>1, <3>2, <3>3
  <2> QED
    BY <1>5, <2>1, <2>2, <2>3 DEF RenameTmp
<1>6. CASE SyncDir
  BY <1>6 DEF SyncDir
<1> QED
  BY <1>1, <1>2, <1>3, <1>4, <1>5, <1>6 DEF Saving

LEMMA LoadingInv ==
    ASSUME StoreInv, NEW l \in Loaders, Load(l)
    PROVE  StoreInv'
<1> USE StoreAssumption
        DEF StoreInv, TypeOK, SaveInv, LoadInv, NeverTorn, OnlyTornBackedUp,
            Files, saveVars
<1>1. CASE LoadStat(l)
  BY <1>1 DEF LoadStat
<1>2. CASE LoadRead(l)
  BY <1>2 DEF LoadRead
<1>3. CASE LoadRecover(l)
  BY <1>3 DEF LoadRecover
<1> QED
  BY <1>1, <1>2, <1>3 DEF Load

LEMMA DyingInv ==
    ASSUME StoreInv, ProcessCrash \/ PowerLoss \/ Damage
    PROVE  StoreInv'
<1> USE StoreAssumption
        DEF StoreInv, TypeOK, SaveInv, LoadInv, NeverTorn, OnlyTornBackedUp,
            Files, saveVars, loadVars, Return
<1>1. CASE ProcessCrash
  BY <1>1 DEF ProcessCrash
<1>2. CASE PowerLoss
  BY <1>2 DEF PowerLoss
<1>3. CASE Damage
  BY <1>3 DEF Damage
<1> QED
  BY <1>1, <1>2, <1>3

LEMMA StoreNext == StoreInv /\ [Next]_vars => StoreInv'
<1> SUFFICES ASSUME StoreInv, [Next]_vars PROVE StoreInv'
  OBVIOUS
<1>1. CASE UNCHANGED vars
  BY <1>1
  DEF vars, StoreInv, TypeOK, SaveInv, LoadInv, NeverTorn, OnlyTornBackedUp
<1> QED
  BY <1>1, SavingInv, LoadingInv, DyingInv DEF Next

THEOREM StoreInductive == Spec => []StoreInv
  BY StoreInit, StoreNext, PTL DEF Spec

\* Type correctness of the file store.
THEOREM StoreTypeCorrect == Spec => []TypeOK
<1>1. StoreInv => TypeOK
  BY DEF StoreInv
<1> QED
  BY <1>1, StoreInductive, PTL

\* No crash and no failed system call leaves a file that does not unmarshal.
THEOREM CrashConsistent == Spec => []NeverTorn
<1>1. StoreInv => NeverTorn
  BY DEF StoreInv
<1> QED
  BY <1>1, StoreInductive, PTL

\* Recovery never moves a good file away, though probes share the lock.
THEOREM RecoveryIsSafe == Spec => []OnlyTornBackedUp
<1>1. StoreInv => OnlyTornBackedUp
  BY DEF StoreInv
<1> QED
  BY <1>1, StoreInductive, PTL

-----------------------------------------------------------------------------
(***************************************************************************)
(* Refinement, for a file nothing else has written: the rename is Land,    *)
(* the fsync of the directory is SaveReturnsNil, every failure before or   *)
(* after is SaveReturnsError.                                              *)
(***************************************************************************)
LEMMA ContractStep ==
    ASSUME StoreInv, StoreInv', [Next]_vars, damage' = 0
    PROVE  [Contract!Next]_(Contract!contractVars)
<1> USE StoreAssumption
        DEF Contract!contractVars, Contract!Next, StoreInv, TypeOK, SaveInv
<1>1. damage = 0
  BY DEF Next, Saving, Load, Save, OpenTmp, WriteTmp, SyncTmp, RenameTmp,
         SyncDir, LoadStat, LoadRead, LoadRecover, ProcessCrash, PowerLoss,
         Damage, vars
<1>2. ASSUME NEW m \in Maps, Save(m) PROVE Contract!Save(m)
  BY <1>2 DEF Save, Contract!Save
<1>3. CASE OpenTmp \/ WriteTmp \/ SyncTmp
  BY <1>3 DEF OpenTmp, WriteTmp, SyncTmp, Return, Continue,
              Contract!SaveReturnsError
<1>4. CASE RenameTmp
  <2>1. CASE Return("error") /\ UNCHANGED <<file, onDisk>>
    BY <1>4, <2>1 DEF RenameTmp, Return, Contract!SaveReturnsError
  <2>2. CASE Continue("syncdir") /\ file' = tmp /\ onDisk' = onDisk \cup {tmp}
    <3>1. saving # NoCall /\ tmp = saving /\ saving \in Maps
      BY <1>4 DEF RenameTmp
    <3>2. AsMap(tmp) = saving
      BY <3>1 DEF AsMap
    <3> QED
      BY <2>2, <3>1, <3>2 DEF Continue, Contract!Land
  <2> QED
    BY <1>4, <2>1, <2>2 DEF RenameTmp
<1>5. CASE SyncDir
  <2>1. saving \in Maps /\ file = saving /\ AsMap(file) = saving
    BY <1>1, <1>5 DEF SyncDir, AsMap
  <2> QED
    BY <1>5, <2>1
    DEF SyncDir, Return, Contract!SaveReturnsError, Contract!SaveReturnsNil
<1>6. ASSUME NEW l \in Loaders, Load(l)
      PROVE  UNCHANGED Contract!contractVars
  <2>1. file # Torn
    BY <1>1 DEF NeverTorn
  <2>2. loadPc[l] = "recover" => file = Missing
    BY <2>1 DEF LoadInv
  <2> QED
    BY <1>6, <2>2 DEF Load, LoadStat, LoadRead, LoadRecover, saveVars
<1>7. CASE ProcessCrash
  BY <1>7 DEF ProcessCrash, Return, Contract!ProcessCrash
<1>8. CASE PowerLoss
  BY <1>8 DEF PowerLoss, Return, Contract!PowerLoss
<1>9. CASE Damage
  BY <1>1, <1>9 DEF Damage
<1>10. CASE UNCHANGED vars
  BY <1>10 DEF vars
<1> QED
  BY <1>2, <1>3, <1>4, <1>5, <1>6, <1>7, <1>8, <1>9, <1>10 DEF Next, Saving

\* The file implements the token store until something else corrupts it: the
\* steps of Save and Load, and every crash, are steps of the contract.
THEOREM FileKeepsContract == Spec => KeepsContract
<1>1. Init => Contract!Init
  BY DEF Init, Contract!Init, AsMap
<1>2. StoreInv /\ StoreInv' /\ [Next]_vars
        => [damage' = 0 => [Contract!Next]_(Contract!contractVars)]_vars
  BY ContractStep
<1> QED
  BY <1>1, <1>2, StoreInductive, PTL DEF Spec, KeepsContract

\* Where nothing else can corrupt it, the file implements the contract.
THEOREM FileImplementsContract ==
    ASSUME MaxDamage = 0
    PROVE  Spec => Contract!Spec
<1>1. Init => Contract!Init
  BY DEF Init, Contract!Init, AsMap
<1>2. StoreInv /\ StoreInv' /\ [Next]_vars
        => [Contract!Next]_(Contract!contractVars)
  BY ContractStep DEF StoreInv, TypeOK
<1> QED
  BY <1>1, <1>2, StoreInductive, PTL DEF Spec, Contract!Spec
=============================================================================
