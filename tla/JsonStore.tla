----------------------------- MODULE JsonStore -----------------------------
(***************************************************************************)
(* storage.TokenStore, the JSON file behind accessTokens                   *)
(* (internal/storage/json_store.go): Save writes <path>.tmp, fsyncs it,    *)
(* renames it over <path> and fsyncs the directory, under mu; Load reads   *)
(* <path> under mu.RLock, several at a time (readiness probes), and may    *)
(* move a corrupt file away.  Every system call can fail, the process can  *)
(* die between any two, and so can the machine.                            *)
(*                                                                         *)
(* A token map is one value: the expiry filter of Load and Save is         *)
(* AccessTokens!Unexpired.  Torn is any bytes that do not unmarshal.       *)
(***************************************************************************)
EXTENDS Integers

CONSTANTS
    Maps,        \* the token maps that can be saved
    NoTokens,    \* the empty map
    Loaders,     \* goroutines that call Load
    Torn,        \* file contents that do not unmarshal
    Missing,     \* no such file
    NoCall,      \* no Save in progress
    AllowRecover,\* TokenStore.allowRecover
    MaxDamage    \* bound: times something else corrupts the file

ASSUME StoreAssumption ==
    /\ NoTokens \in Maps
    /\ Torn \notin Maps /\ Missing \notin Maps \cup {Torn}
    /\ NoCall \notin Maps
    /\ AllowRecover \in BOOLEAN
    /\ MaxDamage \in Nat

VARIABLES
    file,     \* <path>, as a process sees it
    tmp,      \* <path>.tmp, as a process sees it
    synced,   \* the data of <path>.tmp is on the disk
    onDisk,   \* what <path> may be after a power loss
    pc,       \* the next system call of the Save in progress
    saving,   \* its argument, or NoCall
    result,   \* what the last Save returned, "none" while it runs
    loadPc,   \* loader -> the next system call of its Load
    backups,  \* what was moved to <path>.bak.<time>
    damage    \* how often the file was corrupted from outside

vars     == <<file, tmp, synced, onDisk, pc, saving, result, loadPc, backups,
              damage>>
saveVars == <<tmp, synced, pc, saving, result>>
loadVars == <<loadPc, backups>>

Files == Maps \cup {Torn, Missing}

Init ==
    /\ file = Missing
    /\ tmp = Missing
    /\ synced = FALSE
    /\ onDisk = {Missing}
    /\ pc = "idle"
    /\ saving = NoCall
    /\ result = "none"
    /\ loadPc = [l \in Loaders |-> "idle"]
    /\ backups = {}
    /\ damage = 0

-----------------------------------------------------------------------------
(***************************************************************************)
(* Save.  mu.Lock excludes every Load and every other Save.                *)
(***************************************************************************)
\* Mutation: Save does not take mu, so a Load may be in progress.
SaveUnlocked(m) ==
    /\ pc = "idle"
    /\ pc' = "open"
    /\ saving' = m
    /\ result' = "none"
    /\ UNCHANGED <<file, tmp, synced, onDisk, loadVars, damage>>

Save(m) ==
    /\ pc = "idle"
    /\ \A l \in Loaders : loadPc[l] = "idle"
    /\ pc' = "open"
    /\ saving' = m
    /\ result' = "none"
    /\ UNCHANGED <<file, tmp, synced, onDisk, loadVars, damage>>

\* Mutation: the call's argument outlives it.
ReturnKeepsArgument(r) ==
    /\ pc' = "idle"
    /\ result' = r
    /\ UNCHANGED saving

\* Save returns, nil or an error; a .tmp file that is there stays there.
Return(r) ==
    /\ pc' = "idle"
    /\ saving' = NoCall
    /\ result' = r

\* The call succeeded, and next is the call after it.
Continue(next) ==
    /\ pc' = next
    /\ UNCHANGED <<saving, result>>

\* MkdirAll or OpenFile fails, or O_TRUNC empties what an earlier Save left.
OpenTmp ==
    /\ pc = "open"
    /\ \/ Return("error") /\ UNCHANGED <<tmp, synced>>
       \/ Continue("write") /\ tmp' = Torn /\ synced' = FALSE
    /\ UNCHANGED <<file, onDisk, loadVars, damage>>

WriteTmp ==
    /\ pc = "write"
    /\ \/ Return("error") /\ UNCHANGED tmp       \* short write: tmp is torn
       \/ Continue("sync") /\ tmp' = saving
    /\ UNCHANGED <<file, synced, onDisk, loadVars, damage>>

\* Mutation: the temporary file is not fsynced.
SyncTmpSkipped ==
    /\ pc = "sync"
    /\ Continue("rename")
    /\ UNCHANGED <<file, tmp, synced, onDisk, loadVars, damage>>

SyncTmp ==
    /\ pc = "sync"
    /\ \/ Return("error") /\ UNCHANGED synced
       \/ Continue("rename") /\ synced' = TRUE
    /\ UNCHANGED <<file, tmp, onDisk, loadVars, damage>>

\* The directory entry changes in memory; a power loss may find the old one,
\* or the new one with whatever of the data reached the disk.
RenameTmp ==
    /\ pc = "rename"
    /\ \/ Return("error") /\ UNCHANGED <<file, tmp, synced, onDisk>>
       \/ /\ Continue("syncdir")
          /\ file' = tmp
          /\ onDisk' = onDisk \cup {tmp} \cup (IF synced THEN {} ELSE {Torn})
          /\ tmp' = Missing
          /\ synced' = FALSE
    /\ UNCHANGED <<loadVars, damage>>

\* Mutation: a directory that cannot be fsynced is only a warning.
SyncDirWarns ==
    /\ pc = "syncdir"
    /\ Return("nil")
    /\ onDisk' \in {onDisk, {file}}
    /\ UNCHANGED <<file, tmp, synced, loadVars, damage>>

\* Opening or syncing the directory fails (the error is returned although the
\* new file is in place), or the rename is durable.
SyncDir ==
    /\ pc = "syncdir"
    /\ \/ Return("error") /\ UNCHANGED onDisk
       \/ Return("nil") /\ onDisk' = {file}
    /\ UNCHANGED <<file, tmp, synced, loadVars, damage>>

-----------------------------------------------------------------------------
(***************************************************************************)
(* Load, system call by system call; loaders share mu with each other.     *)
(***************************************************************************)
LoadStat(l) ==
    /\ pc = "idle"
    /\ loadPc[l] = "idle"
    /\ file # Missing                   \* otherwise it returns an empty map
    /\ loadPc' = [loadPc EXCEPT ![l] = "read"]
    /\ UNCHANGED <<file, onDisk, saveVars, backups, damage>>

\* An unreadable file is an error; so is a corrupt one, unless allowRecover.
LoadRead(l) ==
    /\ loadPc[l] = "read"
    /\ \/ loadPc' = [loadPc EXCEPT ![l] = "idle"]
       \/ /\ file = Torn /\ AllowRecover
          /\ loadPc' = [loadPc EXCEPT ![l] = "recover"]
    /\ UNCHANGED <<file, onDisk, saveVars, backups, damage>>

\* os.Rename to the backup name; it fails when another loader was first.
LoadRecover(l) ==
    /\ loadPc[l] = "recover"
    /\ loadPc' = [loadPc EXCEPT ![l] = "idle"]
    /\ \/ UNCHANGED <<file, onDisk, backups>>
       \/ /\ file # Missing
          /\ backups' = backups \cup {file}
          /\ file' = Missing
          /\ onDisk' = onDisk \cup {Missing}
    /\ UNCHANGED <<saveVars, damage>>

-----------------------------------------------------------------------------
\* The process dies (external); what the file system shows stays.
ProcessCrash ==
    /\ Return("none")
    /\ loadPc' = [l \in Loaders |-> "idle"]
    /\ UNCHANGED <<file, tmp, synced, onDisk, backups, damage>>

\* The machine dies (external); unsynced data and directory entries may go.
PowerLoss ==
    /\ Return("none")
    /\ loadPc' = [l \in Loaders |-> "idle"]
    /\ file' \in onDisk
    /\ onDisk' = {file'}
    /\ tmp' \in {Missing, Torn, tmp}
    /\ synced' = FALSE
    /\ UNCHANGED <<backups, damage>>

\* Something else corrupts the file (external): what allowRecover is for.
Damage ==
    /\ damage < MaxDamage
    /\ file \notin {Missing, Torn}
    /\ damage' = damage + 1
    /\ file' = Torn
    /\ onDisk' = {Torn}
    /\ UNCHANGED <<saveVars, loadVars>>

Saving == OpenTmp \/ WriteTmp \/ SyncTmp \/ RenameTmp \/ SyncDir
Load(l) == LoadStat(l) \/ LoadRead(l) \/ LoadRecover(l)

Next ==
    \/ (\E m \in Maps : Save(m)) \/ Saving
    \/ \E l \in Loaders : Load(l)
    \/ ProcessCrash \/ PowerLoss \/ Damage

Spec == Init /\ [][Next]_vars

-----------------------------------------------------------------------------
\* What Load makes of the file: an absent file is an empty map.
AsMap(f) == IF f = Missing THEN NoTokens ELSE f

Contract == INSTANCE StoreContract WITH
    visible <- AsMap(file),
    durable <- {AsMap(f) : f \in onDisk},
    call    <- saving

\* The file keeps the contract of the token store for as long as nothing else
\* has written it: a Save is all or nothing, and durable once it returned nil.
KeepsContract ==
    /\ Contract!Init
    /\ [][damage' = 0 => [Contract!Next]_(Contract!contractVars)]_vars

\* Types, and that a Save has an argument exactly while it runs.
TypeOK ==
    /\ file \in Files
    /\ tmp \in Files
    /\ synced \in BOOLEAN
    /\ onDisk \in SUBSET Files
    /\ pc \in {"idle", "open", "write", "sync", "rename", "syncdir"}
    /\ saving \in Maps \cup {NoCall}
    /\ result \in {"none", "nil", "error"}
    /\ loadPc \in [Loaders -> {"idle", "read", "recover"}]
    /\ backups \in SUBSET Files
    /\ damage \in 0 .. MaxDamage
    /\ saving = NoCall <=> pc = "idle"

\* Whenever the process or the machine dies, the next start finds a file it
\* can unmarshal, unless something else corrupted it.
NeverTorn == damage = 0 => Torn \notin onDisk \cup {file}

\* Recovery moves only corrupt files away: no map that a Save stored between
\* a probe's read and its rename becomes a backup.
OnlyTornBackedUp == backups \subseteq {Torn}
=============================================================================
