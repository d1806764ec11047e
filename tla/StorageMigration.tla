-------------------------- MODULE StorageMigration --------------------------
(***************************************************************************)
(* mcp-runtime migrate-storage (storage.MigrateJSONToSQLite) and the       *)
(* service before, after and, against OPERATIONS.md, during it.  The       *)
(* service is seen through what it asks of its store: Load at the start,   *)
(* Save of its whole map at an issuance, under tokensMu, and after a       *)
(* purge, of a copy and without the lock.  JsonStore and SqliteStore tell  *)
(* the inside of a Load or a Save.  A Save of the JSON store that returned *)
(* nil has synced the file and the directory; a commit of SQLite and the   *)
(* migration's own rename reach the disk some time later.                  *)
(***************************************************************************)
CONSTANTS Tokens   \* tokens the service can issue

Stores == {"json", "sqlite"}
Files == {"tokens.json", "tokens.json.migrated"}

\* A file is the set of its contents: one set of tokens, or no contents.
Missing == {}
Holding(tokens) == {tokens}

VARIABLES
    live,         \* tokens that have not expired
    svc,          \* the store of the running service, or "down"
    mem,          \* Service.accessTokens
    adding,       \* the token of the handler that holds tokensMu, or nothing
    purgePc,      \* where the purge goroutine stands in PurgeExpired
    snapshot,     \* the local "snapshot" of syncTokens
    dir,          \* the directory: file -> what it holds
    dirDisk,      \* what a power loss leaves of it
    rows,         \* access_tokens
    rowsDisk,     \* what a power loss leaves of it
    pc,           \* the next step of the command, "none" when it does not run
    carried,      \* the tokens it loaded
    \* History variables.
    drawn,        \* tokens drawn so far: 32 random bytes do not repeat
    acked,        \* store -> tokens issued with its Save returning nil
    straddled,    \* those saved while the purge goroutine held a snapshot
    overlapped,   \* the service ran at some time during the command
    overwritten   \* what the command replaced of each store once it had so run

durable == <<dirDisk, rowsDisk>>
purge == <<purgePc, snapshot>>
issued == <<drawn, acked, straddled>>
service == <<svc, mem, adding, purge, issued>>
command == <<pc, carried>>
history == <<overlapped, overwritten>>
vars == <<live, dir, rows, durable, service, command, history>>

Contents(file) == UNION dir[file]

Init ==
    /\ live = Tokens
    /\ svc = "down" /\ mem = {} /\ adding = {}
    /\ purgePc = "idle" /\ snapshot = {}
    /\ dir = [f \in Files |-> Missing] /\ dirDisk = dir
    /\ rows = {} /\ rowsDisk = {}
    /\ pc = "none" /\ carried = {}
    /\ drawn = {} /\ acked = [s \in Stores |-> {}] /\ straddled = {}
    /\ overlapped = FALSE /\ overwritten = [s \in Stores |-> {}]

Expire(t) ==
    /\ live' = live \ {t}
    /\ UNCHANGED <<dir, rows, durable, service, command, history>>

-----------------------------------------------------------------------------
(***************************************************************************)
(* The service: NewApp opens the store USE_SQLITE selects and loads it.    *)
(***************************************************************************)
StartService(store) ==
    /\ svc = "down"
    /\ svc' = store
    /\ mem' = live \cap (IF store = "json" THEN Contents("tokens.json") ELSE rows)
    /\ overlapped' = (overlapped \/ pc # "none")
    /\ UNCHANGED <<live, dir, rows, durable, adding, purge, issued, command,
                   overwritten>>

\* What a Save leaves, with all it filters and replaces, in what processes see.
Replace(tokens) ==
    \/ /\ svc = "json"
       /\ dir' = [dir EXCEPT !["tokens.json"] = Holding(tokens \cap live)]
       /\ UNCHANGED rows
    \/ /\ svc = "sqlite"
       /\ rows' = tokens \cap live
       /\ UNCHANGED dir

\* Save returns nil: of the JSON store, after both syncs.
Save(tokens) ==
    /\ Replace(tokens)
    /\ dirDisk' = IF svc = "json" THEN dir' ELSE dirDisk
    /\ UNCHANGED rowsDisk

\* Save returns an error, before its contents landed or after that.
SaveFails(tokens) ==
    /\ UNCHANGED <<dir, rows>> \/ Replace(tokens)
    /\ UNCHANGED durable

\* Lock, insert, copy; the lock is held until Save returned.
AddAccessToken(t) ==
    /\ svc # "down" /\ adding = {}
    /\ t \notin drawn
    /\ drawn' = drawn \cup {t}
    /\ mem' = mem \cup {t} /\ adding' = {t}
    /\ UNCHANGED <<live, svc, purge, dir, rows, durable, acked, straddled,
                   command, history>>

AddSaved ==
    /\ adding # {}
    /\ Save(mem)
    /\ acked' = [acked EXCEPT ![svc] = @ \cup adding]
    /\ straddled' = IF purgePc = "save" THEN straddled \cup adding ELSE straddled
    /\ adding' = {}
    /\ UNCHANGED <<live, svc, mem, purge, drawn, command, history>>

AddFailed ==
    /\ adding # {}
    /\ SaveFails(mem)
    /\ mem' = mem \ adding /\ adding' = {}
    /\ UNCHANGED <<live, svc, purge, issued, command, history>>

\* PurgeExpired: what had expired when it read the clock.
SweepTokens ==
    /\ svc # "down" /\ purgePc = "idle" /\ adding = {}
    /\ \E expired \in SUBSET (mem \ live) \ {{}} : mem' = mem \ expired
    /\ purgePc' = "sync"
    /\ UNCHANGED <<live, svc, adding, snapshot, issued, dir, rows, durable,
                   command, history>>

\* syncTokens: the copy under tokensMu.RLock, ...
SyncTokens ==
    /\ purgePc = "sync" /\ adding = {}
    /\ snapshot' = mem /\ purgePc' = "save"
    /\ UNCHANGED <<live, svc, mem, adding, issued, dir, rows, durable, command,
                   history>>

\* ... and its Save, which other goroutines may run before.
SyncSave ==
    /\ purgePc = "save"
    /\ Save(snapshot) \/ SaveFails(snapshot)
    /\ purgePc' = "idle" /\ snapshot' = {}
    /\ UNCHANGED <<live, svc, mem, adding, issued, command, history>>

PurgeExpired == SweepTokens \/ SyncTokens \/ SyncSave

ServiceGone ==
    /\ svc' = "down" /\ mem' = {} /\ adding' = {}
    /\ purgePc' = "idle" /\ snapshot' = {}

\* Stopped or killed, in whatever it does; what Close writes back is WriteBack.
StopService ==
    /\ svc # "down"
    /\ ServiceGone
    /\ UNCHANGED <<live, dir, rows, durable, issued, command, history>>

-----------------------------------------------------------------------------
(***************************************************************************)
(* The command.  Any step may return an error or be its last: Fails.       *)
(***************************************************************************)
\* os.Stat, then Load, without recovery and without the expired.
LoadJSON ==
    /\ pc = "none"
    /\ dir["tokens.json"] # Missing
    /\ carried' = Contents("tokens.json") \cap live
    /\ pc' = "check"
    /\ overlapped' = (overlapped \/ svc # "down")
    /\ UNCHANGED <<live, dir, rows, durable, service, overwritten>>

\* Mutation: the emptiness of the table is not checked.
CheckNothing ==
    /\ pc = "check"
    /\ pc' = "save"
    /\ UNCHANGED <<live, dir, rows, durable, service, carried, history>>

CheckEmpty ==
    /\ pc = "check"
    /\ rows \cap live = {}
    /\ pc' = "save"
    /\ UNCHANGED <<live, dir, rows, durable, service, carried, history>>

Overwrite(store, tokens) ==
    overwritten' = IF overlapped THEN [overwritten EXCEPT ![store] = @ \cup tokens]
                   ELSE overwritten

\* One transaction: DELETE, then what has not expired since.
SaveRows ==
    /\ pc = "save"
    /\ rows' = carried \cap live
    /\ Overwrite("sqlite", rows)
    /\ pc' = "checkpoint"
    /\ UNCHANGED <<live, dir, durable, service, carried, overlapped>>

\* Mutation: the WAL is left to SQLite's own checkpoints.
CheckpointLater ==
    /\ pc = "checkpoint"
    /\ pc' = "close"
    /\ UNCHANGED <<live, dir, rows, durable, service, carried, history>>

\* PRAGMA wal_checkpoint(TRUNCATE); that another connection kept it from
\* finishing is a row of its result, which Exec drops.
Checkpoint ==
    /\ pc = "checkpoint"
    /\ \/ rowsDisk' = rows
       \/ svc = "sqlite" /\ UNCHANGED rowsDisk
    /\ pc' = "close"
    /\ UNCHANGED <<live, dir, dirDisk, rows, service, carried, history>>

CloseDB ==
    /\ pc = "close"
    /\ pc' = "rename"
    /\ UNCHANGED <<live, dir, rows, durable, service, carried, history>>

\* Mutation: the migrated file is removed instead of kept.
RemoveJSON ==
    /\ pc = "rename"
    /\ dir["tokens.json"] # Missing
    /\ dir' = [dir EXCEPT !["tokens.json"] = Missing]
    /\ pc' = "none" /\ carried' = {}
    /\ UNCHANGED <<live, rows, durable, service, history>>

\* The file of that name now, whatever was loaded; the directory is not synced.
RenameJSON ==
    /\ pc = "rename"
    /\ dir["tokens.json"] # Missing
    /\ dir' = [dir EXCEPT !["tokens.json"] = Missing,
                          !["tokens.json.migrated"] = dir["tokens.json"]]
    /\ Overwrite("json", Contents("tokens.json.migrated"))
    /\ pc' = "none" /\ carried' = {}
    /\ UNCHANGED <<live, rows, durable, service, overlapped>>

\* Mutation: what was loaded outlives the command.
FailsKeepsTokens ==
    /\ pc # "none"
    /\ pc' = "none"
    /\ UNCHANGED <<live, dir, rows, durable, service, carried, history>>

\* An error at any step, the refusal of a table in use, death of the process.
Fails ==
    /\ pc # "none"
    /\ pc' = "none" /\ carried' = {}
    /\ UNCHANGED <<live, dir, rows, durable, service, history>>

MigrateJSONToSQLite ==
    LoadJSON \/ CheckEmpty \/ SaveRows \/ Checkpoint \/ CloseDB \/ RenameJSON

-----------------------------------------------------------------------------
(***************************************************************************)
(* The machine and the operator.                                           *)
(***************************************************************************)
WriteBack ==
    /\ \/ dirDisk' = dir /\ UNCHANGED rowsDisk
       \/ rowsDisk' = rows /\ UNCHANGED dirDisk
    /\ UNCHANGED <<live, dir, rows, service, command, history>>

\* What SQLite acknowledged without syncing is gone: SqliteStore.PowerLoss.
PowerLoss ==
    /\ dir' = dirDisk /\ rows' = rowsDisk
    /\ ServiceGone
    /\ pc' = "none" /\ carried' = {}
    /\ acked' = [acked EXCEPT !["sqlite"] = @ \cap rowsDisk]
    /\ UNCHANGED <<live, durable, drawn, straddled, history>>

\* The documented rollback, of a stopped service that has no tokens.json.
Rollback ==
    /\ svc = "down" /\ pc = "none"
    /\ dir["tokens.json"] = Missing
    /\ dir["tokens.json.migrated"] # Missing
    /\ dir' = [dir EXCEPT !["tokens.json"] = dir["tokens.json.migrated"],
                          !["tokens.json.migrated"] = Missing]
    /\ UNCHANGED <<live, rows, durable, service, command, history>>

Next ==
    \/ \E t \in Tokens : Expire(t) \/ AddAccessToken(t)
    \/ AddSaved \/ AddFailed \/ PurgeExpired
    \/ \E s \in Stores : StartService(s)
    \/ StopService
    \/ MigrateJSONToSQLite \/ Fails
    \/ WriteBack \/ PowerLoss \/ Rollback

Spec == Init /\ [][Next]_vars

-----------------------------------------------------------------------------
\* Types, and that a stopped service or command holds nothing.
TypeOK ==
    /\ live \subseteq Tokens /\ rows \subseteq Tokens /\ rowsDisk \subseteq Tokens
    /\ svc \in Stores \cup {"down"} /\ mem \subseteq Tokens
    /\ adding = {} \/ \E t \in mem \cap drawn : adding = {t}
    /\ purgePc \in {"idle", "sync", "save"} /\ snapshot \subseteq Tokens
    /\ svc = "down" => mem = {} /\ purgePc = "idle"
    /\ purgePc # "save" => snapshot = {}
    /\ {dir, dirDisk} \subseteq
           [Files -> {Missing} \cup {Holding(s) : s \in SUBSET Tokens}]
    /\ pc \in {"none", "check", "save", "checkpoint", "close", "rename"}
    /\ carried \subseteq Tokens /\ (pc = "none" => carried = {})
    /\ drawn \subseteq Tokens /\ acked \in [Stores -> SUBSET drawn]
    /\ straddled \subseteq drawn
    /\ overlapped \in BOOLEAN /\ overwritten \in [Stores -> SUBSET Tokens]

\* With the service stopped during the command, as OPERATIONS.md asks, no
\* unexpired token that was issued is in neither store, wherever the command
\* failed or the power went, however often it was repeated or rolled back, and
\* whatever Saves of the service failed; those apart that the service itself
\* loses: saved between the purge's copy and its Save (service.go:84-91).
NoTokenLost ==
    ~overlapped =>
        live \cap UNION {acked[s] : s \in Stores}
            \subseteq Contents("tokens.json") \cup rows \cup straddled

\* "source file preservation (renaming)": even under a running service that
\* issues and purges, what the JSON store acknowledged and no purge straddled
\* stays in one of the two files, and a second migration, after a rollback or
\* not, renames over no unexpired token in tokens.json.migrated either, unless
\* the service has at some time run during a migration.
SourceKept ==
    live \cap acked["json"] \subseteq
        Contents("tokens.json") \cup Contents("tokens.json.migrated")
            \cup straddled \cup overwritten["json"]

\* tokens.json is renamed only when every unexpired token in it would survive
\* a power loss in the database.
RenamedWhenDurable ==
    [][pc = "rename" /\ ~overlapped /\ dir'["tokens.json"] # dir["tokens.json"]
          => Contents("tokens.json") \cap live \subseteq rowsDisk]_vars

\* "Verify SQLite is empty (to prevent accidental overwrites)", migration.go:47:
\* whoever runs when, what the service saved to the database and no purge
\* straddled stays there; what a service that was not stopped saved between that
\* look and the command's own Save (migration.go:57) is the one exception.
RowsKept ==
    live \cap acked["sqlite"] \subseteq rows \cup straddled \cup overwritten["sqlite"]
=============================================================================
