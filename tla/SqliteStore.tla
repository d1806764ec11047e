---------------------------- MODULE SqliteStore ----------------------------
(***************************************************************************)
(* storage.SQLiteStore, the production token store (internal/storage/      *)
(* sqlite_store.go): a connection pool of one, a Save that deletes every   *)
(* row and inserts the new ones in one transaction, and a Load that reads  *)
(* the rows.  Callers queue for the connection.  Statements can fail, the  *)
(* process can die between any two, and so can the machine.                *)
(*                                                                         *)
(* SQLite is external.  In WAL mode with synchronous = NORMAL, which       *)
(* applySQLitePragmasFn sets, a commit reaches the file system but is not  *)
(* synced before a checkpoint, so a power loss goes back to a contents     *)
(* committed since the last one.  A row is a hash with an expiry that has  *)
(* not come; the expiry filter is AccessTokens!Unexpired.                  *)
(***************************************************************************)
EXTENDS Integers

CONSTANTS
    Rows,      \* the rows of access_tokens
    Savers,    \* goroutines that call Save
    Loaders,   \* goroutines that call Load
    Free,      \* the connection when it is in the pool
    NoRow      \* what is no row

Callers == Savers \cup Loaders

ASSUME CallerAssumption == Savers \cap Loaders = {} /\ Free \notin Callers
ASSUME NoRowAssumption == NoRow \notin Rows

\* The argument of a saver that is not in Save.
NoCall == {NoRow}

VARIABLES
    db,         \* "open", "closed" by Close, or "none": no process
    conn,       \* who holds the connection, or Free
    pc,         \* caller -> its next step
    arg,        \* saver -> the argument of its Save
    work,       \* the rows as the transaction sees them
    todo,       \* rows that are still to be inserted
    committed,  \* the rows as every later query sees them
    onDisk,     \* what they may be after a power loss
    result      \* what the last Save that got the connection returned

vars     == <<db, conn, pc, arg, work, todo, committed, onDisk, result>>
txVars   == <<work, todo>>
fileVars == <<committed, onDisk>>

Init ==
    /\ db = "none"
    /\ conn = Free
    /\ pc = [c \in Callers |-> "idle"]
    /\ arg = [s \in Savers |-> NoCall]
    /\ work = {}
    /\ todo = {}
    /\ committed = {}
    /\ onDisk = {{}}
    /\ result = "none"

GoTo(c, next) == pc' = [pc EXCEPT ![c] = next]

-----------------------------------------------------------------------------
\* The pragmas and the schema are applied, or the start fails.
NewSQLiteStore ==
    /\ db = "none"
    /\ db' = "open"
    /\ UNCHANGED <<conn, pc, arg, txVars, fileVars, result>>

\* db.Close: no query starts any more, one that started may finish; closing
\* the last connection checkpoints.
Close ==
    /\ db = "open"
    /\ db' = "closed"
    /\ \/ conn = Free /\ onDisk' = {committed}
       \/ UNCHANGED onDisk
    /\ UNCHANGED <<conn, pc, arg, txVars, committed, result>>

-----------------------------------------------------------------------------
(***************************************************************************)
(* Save: Begin, DELETE, one INSERT per row, Commit.  On any error the      *)
(* deferred Rollback gives the connection back.                            *)
(***************************************************************************)
Save(s, m) ==
    /\ db # "none"
    /\ pc[s] = "idle"
    /\ GoTo(s, "begin")
    /\ arg' = [arg EXCEPT ![s] = m]
    /\ UNCHANGED <<db, conn, txVars, fileVars, result>>

\* Mutation: Begin does not wait for the connection.
BeginShared(s) ==
    /\ pc[s] = "begin"
    /\ db = "open"
    /\ conn' = s
    /\ work' = committed
    /\ result' = "none"
    /\ GoTo(s, "delete")
    /\ UNCHANGED <<db, arg, todo, fileVars>>

Begin(s) ==
    /\ pc[s] = "begin"
    /\ conn = Free
    /\ db = "open"
    /\ conn' = s
    /\ work' = committed
    /\ result' = "none"
    /\ GoTo(s, "delete")
    /\ UNCHANGED <<db, arg, todo, fileVars>>

\* The database is closed, or busy for another process.
BeginFails(s) ==
    /\ pc[s] = "begin"
    /\ GoTo(s, "idle")
    /\ arg' = [arg EXCEPT ![s] = NoCall]
    /\ UNCHANGED <<db, conn, txVars, fileVars, result>>

\* Mutation: the DELETE is executed outside of the transaction.
DeleteCommits(s) ==
    /\ pc[s] = "delete"
    /\ work' = {}
    /\ todo' = arg[s]
    /\ committed' = {}
    /\ onDisk' = onDisk \cup {{}}
    /\ GoTo(s, "insert")
    /\ UNCHANGED <<db, conn, arg, result>>

Delete(s) ==
    /\ pc[s] = "delete"
    /\ work' = {}
    /\ todo' = arg[s]
    /\ GoTo(s, "insert")
    /\ UNCHANGED <<db, conn, arg, fileVars, result>>

\* The map is ranged over in any order.
Insert(s) ==
    /\ pc[s] = "insert"
    /\ \E r \in todo : work' = work \cup {r} /\ todo' = todo \ {r}
    /\ UNCHANGED <<db, conn, pc, arg, fileVars, result>>

Commit(s) ==
    /\ pc[s] = "insert"
    /\ todo = {}
    /\ committed' = work
    /\ onDisk' = onDisk \cup {work}
    /\ GoTo(s, "committed")
    /\ UNCHANGED <<db, conn, arg, txVars, result>>

\* The deferred Rollback (nothing to do after a Commit), and the answer.
Return(s, r) ==
    /\ GoTo(s, "idle")
    /\ conn' = Free
    /\ arg' = [arg EXCEPT ![s] = NoCall]
    /\ work' = {}
    /\ todo' = {}
    /\ result' = r
    /\ UNCHANGED <<db, fileVars>>

StatementFails(s) == pc[s] \in {"delete", "insert"} /\ Return(s, "error")
CommitReturns(s)  == pc[s] = "committed" /\ Return(s, "nil")

-----------------------------------------------------------------------------
(***************************************************************************)
(* Load: Query, then the rows until rows.Close gives the connection back.  *)
(***************************************************************************)
Load(l) ==
    /\ db # "none"
    /\ pc[l] = "idle"
    /\ GoTo(l, "query")
    /\ UNCHANGED <<db, conn, arg, txVars, fileVars, result>>

Query(l) ==
    /\ pc[l] = "query"
    /\ conn = Free
    /\ db = "open"
    /\ conn' = l
    /\ GoTo(l, "rows")
    /\ UNCHANGED <<db, arg, txVars, fileVars, result>>

QueryFails(l) ==
    /\ pc[l] = "query"
    /\ GoTo(l, "idle")
    /\ UNCHANGED <<db, conn, arg, txVars, fileVars, result>>

\* Mutation: rows.Close is not deferred, and an error of Scan skips it.
LoadReturnsLeaking(l) ==
    /\ pc[l] = "rows"
    /\ GoTo(l, "idle")
    /\ conn' \in {Free, conn}
    /\ UNCHANGED <<db, arg, txVars, fileVars, result>>

\* The rows were read, or Scan or Err failed: rows.Close is deferred.
LoadReturns(l) ==
    /\ pc[l] = "rows"
    /\ GoTo(l, "idle")
    /\ conn' = Free
    /\ UNCHANGED <<db, arg, txVars, fileVars, result>>

-----------------------------------------------------------------------------
\* SQLite checkpoints on its own when the WAL has grown (external).
AutoCheckpoint ==
    /\ onDisk' = {committed}
    /\ UNCHANGED <<db, conn, pc, arg, txVars, committed, result>>

Dies ==
    /\ db' = "none"
    /\ conn' = Free
    /\ pc' = [c \in Callers |-> "idle"]
    /\ arg' = [s \in Savers |-> NoCall]
    /\ work' = {}
    /\ todo' = {}
    /\ result' = "none"

\* The process dies or ends (external): the WAL keeps what was committed.
ProcessCrash == Dies /\ UNCHANGED fileVars

\* The machine dies (external).
PowerLoss ==
    /\ Dies
    /\ committed' \in onDisk
    /\ onDisk' = {committed'}

-----------------------------------------------------------------------------
SaveStep(s) ==
    \/ BeginFails(s) \/ Delete(s) \/ Insert(s) \/ Commit(s)
    \/ StatementFails(s) \/ CommitReturns(s)

LoadStep(l) == QueryFails(l) \/ LoadReturns(l)

Next ==
    \/ \E s \in Savers :
          (\E m \in SUBSET Rows : Save(s, m)) \/ Begin(s) \/ SaveStep(s)
    \/ \E l \in Loaders : Load(l) \/ Query(l) \/ LoadStep(l)
    \/ NewSQLiteStore \/ Close \/ AutoCheckpoint \/ ProcessCrash \/ PowerLoss

Spec == Init /\ [][Next]_vars

(***************************************************************************)
(* Scheduling: a statement returns, and the pool serves every waiter in    *)
(* turn (strong fairness), or tells it that the database is closed.        *)
(***************************************************************************)
Fairness ==
    /\ \A s \in Savers :
          /\ WF_vars(Delete(s) \/ Insert(s) \/ Commit(s) \/ CommitReturns(s))
          /\ SF_vars(Begin(s))
          /\ WF_vars(db = "closed" /\ BeginFails(s))
    /\ \A l \in Loaders :
          /\ WF_vars(LoadReturns(l))
          /\ SF_vars(Query(l))
          /\ WF_vars(db = "closed" /\ QueryFails(l))

FairSpec == Spec /\ Fairness

-----------------------------------------------------------------------------
Contract == INSTANCE StoreContract WITH
    Maps     <- SUBSET Rows,
    NoTokens <- {},
    visible  <- committed,
    durable  <- onDisk,
    call     <- IF conn \in Savers THEN arg[conn] ELSE NoCall

\* The database keeps the contract of the token store up to the durability of
\* an acknowledged Save: readers and restarts see whole maps only, one Save
\* at a time, and a power loss goes back to a whole map too.
KeepsLooseContract == Contract!LooseSpec

\* Types, and that the connection is held exactly by the caller whose query
\* or transaction is open.
TypeOK ==
    /\ db \in {"none", "open", "closed"}
    /\ conn \in Callers \cup {Free}
    /\ pc \in [Callers -> {"idle", "begin", "delete", "insert", "committed",
                           "query", "rows"}]
    /\ arg \in [Savers -> (SUBSET Rows) \cup {NoCall}]
    /\ work \in SUBSET Rows
    /\ todo \in SUBSET Rows
    /\ committed \in SUBSET Rows
    /\ onDisk \in SUBSET (SUBSET Rows)
    /\ result \in {"none", "nil", "error"}
    /\ \A c \in Callers :
          conn = c <=> pc[c] \in {"delete", "insert", "committed", "rows"}

\* Every Save and Load gets its turn on the one connection and returns, or
\* its process ends: no error path keeps the connection.
CallsReturn == \A c \in Callers : pc[c] # "idle" ~> pc[c] = "idle"
=============================================================================
