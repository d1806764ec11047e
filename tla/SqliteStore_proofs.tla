------------------------- MODULE SqliteStore_proofs -------------------------
(***************************************************************************)
(* The SQLite store keeps the looser contract of the token store for every *)
(* set of rows and any number of callers: a whole map at every commit, one *)
(* Save at a time, and whole maps after every crash and power loss.        *)
(***************************************************************************)
EXTENDS SqliteStore, TLAPS

-----------------------------------------------------------------------------
(***************************************************************************)
(* The inductive invariant.  What the open transaction has inserted and    *)
(* what it still has to insert make up the map it was given.               *)
(***************************************************************************)
CallInv ==
    /\ \A s \in Savers :
          /\ pc[s] \in {"idle", "begin", "delete", "insert", "committed"}
          /\ arg[s] = NoCall <=> pc[s] = "idle"
    /\ \A l \in Loaders : pc[l] \in {"idle", "query", "rows"}

TransactionInv ==
    \A s \in Savers :
        /\ pc[s] = "insert" => work \cup todo = arg[s]
        /\ pc[s] = "committed" => committed = arg[s]

DbInv == TypeOK /\ CallInv /\ TransactionInv /\ committed \in onDisk

LEMMA NoCallIsNoMap == NoCall \notin SUBSET Rows
  BY NoRowAssumption DEF NoCall

LEMMA DbInit == Init => DbInv
  BY CallerAssumption
  DEF Init, DbInv, TypeOK, CallInv, TransactionInv, Callers

\* The holder of the connection is the only saver inside a transaction.
LEMMA OneTransaction ==
    ASSUME DbInv, NEW c \in Callers, conn = c \/ conn = Free,
           NEW s \in Savers, s # c
    PROVE  pc[s] \in {"idle", "begin"}
  BY CallerAssumption DEF DbInv, TypeOK, CallInv, Callers

-----------------------------------------------------------------------------
LEMMA SaverInv ==
    ASSUME DbInv, NEW s \in Savers,
           \/ \E m \in SUBSET Rows : Save(s, m)
           \/ Begin(s) \/ SaveStep(s)
    PROVE  DbInv'
<1> USE CallerAssumption, NoCallIsNoMap
        DEF DbInv, TypeOK, CallInv, TransactionInv, Callers, GoTo, txVars,
            fileVars
<1>1. ASSUME NEW m \in SUBSET Rows, Save(s, m) PROVE DbInv'
  BY <1>1 DEF Save
<1>2. CASE Begin(s)
  BY <1>2 DEF Begin
<1>3. CASE BeginFails(s)
  BY <1>3 DEF BeginFails
<1>4. CASE Delete(s)
  BY <1>4, OneTransaction DEF Delete
<1>5. CASE Insert(s)
  BY <1>5, OneTransaction DEF Insert
<1>6. CASE Commit(s)
  BY <1>6, OneTransaction DEF Commit
<1>7. ASSUME NEW r \in {"nil", "error"}, Return(s, r),
             pc[s] \in {"delete", "insert", "committed"}
      PROVE  DbInv'
  BY <1>7, OneTransaction DEF Return
<1> QED
  BY <1>1, <1>2, <1>3, <1>4, <1>5, <1>6, <1>7
  DEF SaveStep, StatementFails, CommitReturns

LEMMA LoaderInv ==
    ASSUME DbInv, NEW l \in Loaders,
           Load(l) \/ Query(l) \/ LoadStep(l)
    PROVE  DbInv'
  BY CallerAssumption
  DEF DbInv, TypeOK, CallInv, TransactionInv, Callers, GoTo, txVars, fileVars,
      Load, Query, LoadStep, QueryFails, LoadReturns

LEMMA DatabaseInv ==
    ASSUME DbInv,
           \/ NewSQLiteStore \/ Close \/ AutoCheckpoint
           \/ ProcessCrash \/ PowerLoss
    PROVE  DbInv'
<1> USE CallerAssumption
        DEF DbInv, TypeOK, CallInv, TransactionInv, Callers, txVars, fileVars
<1>1. CASE NewSQLiteStore \/ Close \/ AutoCheckpoint
  BY <1>1 DEF NewSQLiteStore, Close, AutoCheckpoint
<1>2. CASE ProcessCrash
  BY <1>2 DEF ProcessCrash, Dies
<1>3. CASE PowerLoss
  BY <1>3 DEF PowerLoss, Dies
<1> QED
  BY <1>1, <1>2, <1>3

\* Every reachable state satisfies the inductive invariant.
THEOREM DatabaseInductive == Spec => []DbInv
<1>1. ASSUME DbInv, Next PROVE DbInv'
  BY <1>1, SaverInv, LoaderInv, DatabaseInv DEF Next
<1>2. DbInv /\ UNCHANGED vars => DbInv'
  BY DEF vars, DbInv, TypeOK, CallInv, TransactionInv, Callers
<1> QED
  BY DbInit, <1>1, <1>2, PTL DEF Spec

\* The connection is held exactly by the caller whose query or transaction is
\* open: Begin, Query and the deferred Rollback and rows.Close hand it over.
THEOREM DatabaseTypeCorrect == Spec => []TypeOK
<1>1. DbInv => TypeOK
  BY DEF DbInv
<1> QED
  BY <1>1, DatabaseInductive, PTL

-----------------------------------------------------------------------------
(***************************************************************************)
(* The refinement, step by step.  A step of a caller that does not hold    *)
(* the connection is invisible to the contract.                            *)
(***************************************************************************)
LEMMA SaverStepsKeepContract ==
    ASSUME DbInv, NEW s \in Savers,
           \/ \E m \in SUBSET Rows : Save(s, m)
           \/ Begin(s) \/ SaveStep(s)
    PROVE  [Contract!Next \/ Contract!SaveReturnsEarly \/ Contract!Settle]_
               (Contract!contractVars)
<1> USE CallerAssumption, NoCallIsNoMap
        DEF DbInv, TypeOK, CallInv, TransactionInv, Callers, GoTo, txVars,
            fileVars
<1>1. ASSUME NEW m \in SUBSET Rows, Save(s, m)
      PROVE  UNCHANGED Contract!contractVars
  BY <1>1 DEF Save, Contract!contractVars
<1>2. ASSUME Begin(s) PROVE \E m \in SUBSET Rows : Contract!Save(m)
  <2>1. arg[s] \in SUBSET Rows
    BY <1>2 DEF Begin
  <2>2. Contract!Save(arg[s])
    BY <1>2 DEF Begin, Contract!Save
  <2> QED
    BY <2>1, <2>2
<1>3. ASSUME BeginFails(s) PROVE UNCHANGED Contract!contractVars
  BY <1>3 DEF BeginFails, Contract!contractVars
<1>4. ASSUME Delete(s) \/ Insert(s) PROVE UNCHANGED Contract!contractVars
  BY <1>4 DEF Delete, Insert, Contract!contractVars
<1>5. ASSUME Commit(s) PROVE Contract!Land
  <2>1. conn = s /\ work = arg[s] /\ arg[s] # NoCall
    BY <1>5 DEF Commit
  <2> QED
    BY <1>5, <2>1 DEF Commit, Contract!Land
<1>6. ASSUME StatementFails(s) PROVE Contract!SaveReturnsError
  BY <1>6 DEF StatementFails, Return, Contract!SaveReturnsError
<1>7. ASSUME CommitReturns(s) PROVE Contract!SaveReturnsEarly
  BY <1>7 DEF CommitReturns, Return, Contract!SaveReturnsEarly
<1> QED
  BY <1>1, <1>2, <1>3, <1>4, <1>5, <1>6, <1>7 DEF SaveStep, Contract!Next

LEMMA LoaderStepsKeepContract ==
    ASSUME DbInv, NEW l \in Loaders,
           Load(l) \/ Query(l) \/ LoadStep(l)
    PROVE  UNCHANGED Contract!contractVars
  BY CallerAssumption
  DEF DbInv, TypeOK, CallInv, Callers, GoTo, txVars, fileVars, Load, Query,
      LoadStep, QueryFails, LoadReturns, Contract!contractVars

LEMMA DatabaseStepsKeepContract ==
    ASSUME DbInv,
           \/ NewSQLiteStore \/ Close \/ AutoCheckpoint
           \/ ProcessCrash \/ PowerLoss
    PROVE  [Contract!Next \/ Contract!SaveReturnsEarly \/ Contract!Settle]_
               (Contract!contractVars)
<1> USE CallerAssumption DEF DbInv, TypeOK, Callers, txVars, fileVars
<1>1. ASSUME NewSQLiteStore PROVE UNCHANGED Contract!contractVars
  BY <1>1 DEF NewSQLiteStore, Contract!contractVars
<1>2. ASSUME Close \/ AutoCheckpoint
      PROVE  Contract!Settle \/ UNCHANGED Contract!contractVars
  BY <1>2 DEF Close, AutoCheckpoint, Contract!Settle, Contract!contractVars
<1>3. ASSUME ProcessCrash PROVE Contract!ProcessCrash
  BY <1>3 DEF ProcessCrash, Dies, Contract!ProcessCrash
<1>4. ASSUME PowerLoss PROVE Contract!PowerLoss
  BY <1>4 DEF PowerLoss, Dies, Contract!PowerLoss
<1> QED
  BY <1>1, <1>2, <1>3, <1>4 DEF Contract!Next

\* The database implements the contract up to durability: what Save commits
\* and Load returns are whole maps, across errors, crashes and power losses.
THEOREM DatabaseKeepsContract == Spec => KeepsLooseContract
<1>1. Init => Contract!Init
  BY CallerAssumption DEF Init, Contract!Init, Callers
<1>2. DbInv /\ [Next]_vars
        => [Contract!Next \/ Contract!SaveReturnsEarly \/ Contract!Settle]_
               (Contract!contractVars)
  <2>1. ASSUME DbInv, Next
        PROVE  [Contract!Next \/ Contract!SaveReturnsEarly \/ Contract!Settle]_
                   (Contract!contractVars)
    BY <2>1, SaverStepsKeepContract, LoaderStepsKeepContract,
       DatabaseStepsKeepContract DEF Next
  <2>2. UNCHANGED vars => UNCHANGED Contract!contractVars
    BY DEF vars, Contract!contractVars
  <2> QED
    BY <2>1, <2>2
<1> QED
  BY <1>1, <1>2, DatabaseInductive, PTL
  DEF Spec, KeepsLooseContract, Contract!LooseSpec
=============================================================================
