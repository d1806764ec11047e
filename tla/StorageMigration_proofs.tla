---------------------- MODULE StorageMigration_proofs ----------------------
(***************************************************************************)
(* No failure, power loss or repetition of the migration loses a token,    *)
(* for any set of tokens.                                                  *)
(***************************************************************************)
EXTENDS StorageMigration, TLAPS

-----------------------------------------------------------------------------
(***************************************************************************)
(* The inductive invariant.  dir and dirDisk, rows and rowsDisk may reach  *)
(* the disk in any order, so what the JSON store acknowledged has to be in *)
(* every combination of them.                                              *)
(***************************************************************************)
In(d, file) == UNION d[file]

\* The tokens the service promised to keep and does not itself lose.
Sure(store) == (live \cap acked[store]) \ straddled

KeptIn(d, r) == Sure("json") \subseteq In(d, "tokens.json") \cup r

\* The service's map has what its store holds, and the copy the purge is about
\* to save is the map, but for tokens that are not sure.
ServiceInv ==
    /\ \A s \in Stores :
          /\ svc = "json" => Sure(s) \cap In(dir, "tokens.json") \subseteq mem
          /\ ~overlapped /\ svc = "sqlite" => Sure(s) \cap rows \subseteq mem
          /\ purgePc = "save" => Sure(s) \cap mem = Sure(s) \cap snapshot
          /\ acked[s] \cap adding = {}
    /\ ~overlapped => svc = "down" \/ pc = "none"

\* How far what was loaded has come.
CommandInv ==
    ~overlapped =>
        /\ pc # "none" => live \cap In(dir, "tokens.json") \subseteq carried
        /\ carried \subseteq In(dir, "tokens.json")
        /\ pc \in {"checkpoint", "close", "rename"} => rows \subseteq carried
        /\ pc = "save" => rows \cap live = {}
        /\ pc \in {"checkpoint", "close", "rename"} => live \cap carried \subseteq rows
        /\ pc \in {"close", "rename"} => live \cap carried \subseteq rowsDisk

TokensInv ==
    ~overlapped =>
        /\ KeptIn(dir, rows) /\ KeptIn(dir, rowsDisk)
        /\ KeptIn(dirDisk, rows) /\ KeptIn(dirDisk, rowsDisk)
        /\ Sure("sqlite") \subseteq In(dir, "tokens.json") \cup rows

SourceIn(d) ==
    Sure("json") \subseteq
        In(d, "tokens.json") \cup In(d, "tokens.json.migrated") \cup overwritten["json"]

SourceInv == SourceIn(dir) /\ SourceIn(dirDisk)

MigrationInv == TypeOK /\ ServiceInv /\ CommandInv /\ TokensInv /\ SourceInv

Dirs == [Files -> {Missing} \cup {Holding(s) : s \in SUBSET Tokens}]

LEMMA NoContents == UNION Missing = {}
  BY DEF Missing

LEMMA ItsContents == ASSUME NEW S PROVE UNION Holding(S) = S
  BY DEF Holding

LEMMA InTokens ==
    ASSUME NEW d \in Dirs, NEW f \in Files PROVE In(d, f) \subseteq Tokens
<1>1. CASE d[f] = Missing
  BY <1>1, NoContents DEF In
<1>2. CASE \E S \in SUBSET Tokens : d[f] = Holding(S)
  <2>1. PICK S \in SUBSET Tokens : d[f] = Holding(S)
    BY <1>2
  <2> QED
    BY <2>1, ItsContents DEF In
<1> QED
  BY <1>1, <1>2 DEF Dirs

LEMMA Directories == TypeOK => dir \in Dirs /\ dirDisk \in Dirs
  BY DEF TypeOK, Dirs

LEMMA MigrationInit == Init => MigrationInv
<1> SUFFICES ASSUME Init PROVE MigrationInv
  OBVIOUS
<1>1. \A f \in Files : In(dir, f) = {}
  BY NoContents DEF Init, In
<1>2. TypeOK
  BY DEF Init, TypeOK, Stores
<1> QED
  BY <1>1, <1>2 DEF Init, MigrationInv, ServiceInv, CommandInv, TokensInv,
     KeptIn, Sure, SourceInv, SourceIn, Files, Stores

-----------------------------------------------------------------------------
LEMMA ExpireInv == ASSUME MigrationInv, NEW t \in Tokens, Expire(t) PROVE MigrationInv'
<1> USE DEF Expire, MigrationInv, durable, service, purge, issued, command, history
<1>1. TypeOK'
  BY DEF TypeOK
<1>2. ServiceInv' /\ CommandInv'
  BY DEF ServiceInv, CommandInv, Sure, In
<1>3. TokensInv' /\ SourceInv'
  BY DEF TokensInv, KeptIn, Sure, SourceInv, SourceIn, In
<1> QED
  BY <1>1, <1>2, <1>3

LEMMA StartServiceInv ==
    ASSUME MigrationInv, NEW s \in Stores, StartService(s) PROVE MigrationInv'
<1> USE DEF StartService, MigrationInv, durable, purge, issued, command, Contents
<1>0. \A f \in Files : In(dir, f) \subseteq Tokens
  BY InTokens, Directories
<1>1. TypeOK'
  BY <1>0 DEF TypeOK, Stores
<1>2. ServiceInv' /\ CommandInv'
  BY DEF TypeOK, ServiceInv, CommandInv, Sure, In, Stores
<1>3. TokensInv' /\ SourceInv'
  BY DEF TokensInv, KeptIn, Sure, SourceInv, SourceIn, In
<1> QED
  BY <1>1, <1>2, <1>3

LEMMA StopServiceInv == ASSUME MigrationInv, StopService PROVE MigrationInv'
<1> USE DEF StopService, ServiceGone, MigrationInv, durable, issued, command, history
<1>1. TypeOK'
  BY DEF TypeOK
<1>2. ServiceInv' /\ CommandInv'
  BY DEF ServiceInv, CommandInv, Sure, In
<1>3. TokensInv' /\ SourceInv'
  BY DEF TokensInv, KeptIn, Sure, SourceInv, SourceIn, In
<1> QED
  BY <1>1, <1>2, <1>3

-----------------------------------------------------------------------------
(***************************************************************************)
(* What a Save may leave: of a set that has all of the map that is sure.   *)
(***************************************************************************)
LEMMA ReplaceKeeps ==
    ASSUME MigrationInv, NEW T \in SUBSET Tokens, Replace(T),
           \A s \in Stores : Sure(s) \cap mem \subseteq T
    PROVE  /\ dir' \in Dirs /\ rows' \subseteq Tokens
           /\ svc = "json" =>
                 /\ In(dir', "tokens.json") = T \cap live /\ rows' = rows
                 /\ In(dir', "tokens.json.migrated") = In(dir, "tokens.json.migrated")
           /\ svc = "sqlite" => dir' = dir /\ rows' = T \cap live
           /\ \A s \in Stores :
                 /\ Sure(s) \cap In(dir, "tokens.json") \subseteq In(dir', "tokens.json")
                 /\ ~overlapped => Sure(s) \cap rows \subseteq rows'
<1> USE DEF MigrationInv
<1>0. dir \in Dirs /\ rows \subseteq Tokens
  BY Directories DEF TypeOK
<1>1. CASE /\ svc = "json"
           /\ dir' = [dir EXCEPT !["tokens.json"] = Holding(T \cap live)]
           /\ UNCHANGED rows
  <2>1. Holding(T \cap live) \in {Holding(s) : s \in SUBSET Tokens}
    OBVIOUS
  <2>2. /\ dir' \in Dirs /\ dir'["tokens.json"] = Holding(T \cap live)
        /\ dir'["tokens.json.migrated"] = dir["tokens.json.migrated"]
    BY <1>0, <1>1, <2>1 DEF Dirs, Files
  <2>3. /\ In(dir', "tokens.json") = T \cap live
        /\ In(dir', "tokens.json.migrated") = In(dir, "tokens.json.migrated")
    BY <2>2, ItsContents DEF In
  <2>4. \A s \in Stores : Sure(s) \cap In(dir, "tokens.json") \subseteq T \cap live
    BY <1>1 DEF ServiceInv, Sure
  <2> QED
    BY <1>0, <1>1, <2>2, <2>3, <2>4
<1>2. CASE svc = "sqlite" /\ rows' = T \cap live /\ UNCHANGED dir
  <2>1. ~overlapped => \A s \in Stores : Sure(s) \cap rows \subseteq T \cap live
    BY <1>2 DEF ServiceInv, Sure
  <2>2. \A f : In(dir', f) = In(dir, f)
    BY <1>2 DEF In
  <2> QED
    BY <1>0, <1>2, <2>1, <2>2
<1> QED
  BY <1>1, <1>2 DEF Replace

\* What was sure before is where it was, in the directory and in the table as
\* processes see them and as a power loss leaves them.
LEMMA SavedInv ==
    ASSUME MigrationInv, NEW T \in SUBSET Tokens, Replace(T),
           \A s \in Stores : Sure(s) \cap mem \subseteq T,
           dirDisk' = dir' \/ UNCHANGED dirDisk, UNCHANGED rowsDisk,
           UNCHANGED <<live, acked, straddled, command, history>>, svc # "down"
    PROVE  CommandInv' /\ TokensInv' /\ SourceInv' /\ dirDisk' \in Dirs
<1> USE DEF MigrationInv, command, history
<1>1. /\ dir' \in Dirs
      /\ svc = "json" =>
            /\ In(dir', "tokens.json") = T \cap live /\ rows' = rows
            /\ In(dir', "tokens.json.migrated") = In(dir, "tokens.json.migrated")
      /\ svc = "sqlite" => dir' = dir /\ rows' = T \cap live
      /\ \A s \in Stores :
            /\ Sure(s) \cap In(dir, "tokens.json") \subseteq In(dir', "tokens.json")
            /\ ~overlapped => Sure(s) \cap rows \subseteq rows'
  BY ReplaceKeeps
<1>2. /\ svc \in {"json", "sqlite"} /\ "json" \in Stores /\ "sqlite" \in Stores
      /\ \A s \in Stores : Sure(s)' = Sure(s)
  BY DEF TypeOK, Stores, Sure
<1>3. CommandInv'
  BY DEF CommandInv, ServiceInv, TypeOK
<1>4. \A d : SourceIn(d) <=> Sure("json") \subseteq
          In(d, "tokens.json") \cup In(d, "tokens.json.migrated") \cup overwritten["json"]
  BY DEF SourceIn
<1>5. In(dir', "tokens.json.migrated") = In(dir, "tokens.json.migrated")
  BY <1>1, <1>2
<1>6. SourceInv'
  <2>1. Sure("json") \subseteq In(dir', "tokens.json")
            \cup In(dir', "tokens.json.migrated") \cup overwritten["json"]
    BY <1>1, <1>2, <1>5 DEF SourceInv, SourceIn
  <2>2. CASE dirDisk' = dir'
    BY <1>2, <2>1, <2>2 DEF SourceInv, SourceIn, In
  <2>3. CASE UNCHANGED dirDisk
    BY <1>2, <2>1, <2>3 DEF SourceInv, SourceIn, In
  <2> QED
    BY <2>2, <2>3
<1>7. TokensInv'
  <2> SUFFICES ASSUME ~overlapped PROVE TokensInv'
    BY DEF TokensInv
  <2>1. /\ Sure("json") \subseteq In(dir', "tokens.json") \cup rows'
        /\ Sure("json") \subseteq In(dir', "tokens.json") \cup rowsDisk
        /\ Sure("json") \subseteq In(dirDisk, "tokens.json") \cup rows'
        /\ Sure("json") \subseteq In(dirDisk, "tokens.json") \cup rowsDisk
        /\ Sure("sqlite") \subseteq In(dir', "tokens.json") \cup rows'
    BY <1>1, <1>2 DEF TokensInv, KeptIn
  <2>2. CASE dirDisk' = dir'
    BY <1>2, <2>1, <2>2 DEF TokensInv, KeptIn, In
  <2>3. CASE UNCHANGED dirDisk
    BY <1>2, <2>1, <2>3 DEF TokensInv, KeptIn, In
  <2> QED
    BY <2>2, <2>3
<1>8. dirDisk' \in Dirs
  BY <1>1, Directories
<1> QED
  BY <1>3, <1>6, <1>7, <1>8

LEMMA AddAccessTokenInv ==
    ASSUME MigrationInv, NEW t \in Tokens, AddAccessToken(t) PROVE MigrationInv'
<1> USE DEF AddAccessToken, MigrationInv, durable, purge, command, history
<1>1. TypeOK'
  BY DEF TypeOK, Stores
<1>2. \A s \in Stores : t \notin acked[s]
  BY DEF TypeOK
<1>3. ServiceInv' /\ CommandInv'
  BY <1>2 DEF ServiceInv, CommandInv, Sure, In
<1>4. TokensInv' /\ SourceInv'
  BY DEF TokensInv, KeptIn, Sure, SourceInv, SourceIn, In
<1> QED
  BY <1>1, <1>3, <1>4

\* The new token is in what was saved; were the purge holding a copy without
\* it, the token would not be sure.
LEMMA AddSavedInv == ASSUME MigrationInv, AddSaved PROVE MigrationInv'
<1> USE DEF MigrationInv, command, history
<1>0. /\ svc \in {"json", "sqlite"} /\ svc \in Stores /\ mem \in SUBSET Tokens
      /\ adding \subseteq mem \cap drawn
      /\ acked \in [Stores -> SUBSET drawn]
  BY DEF AddSaved, Save, Replace, TypeOK, Stores
<1>1. /\ Replace(mem) /\ UNCHANGED rowsDisk
      /\ dirDisk' = IF svc = "json" THEN dir' ELSE dirDisk
      /\ acked' = [acked EXCEPT ![svc] = @ \cup adding]
      /\ straddled' = IF purgePc = "save" THEN straddled \cup adding ELSE straddled
      /\ adding' = {}
      /\ UNCHANGED <<live, svc, mem, purgePc, snapshot, drawn, pc, carried,
                     overlapped, overwritten>>
  BY DEF AddSaved, Save, purge
<1>2. /\ dir' \in Dirs /\ rows' \subseteq Tokens
      /\ svc = "json" =>
            /\ In(dir', "tokens.json") = mem \cap live /\ rows' = rows
            /\ In(dir', "tokens.json.migrated") = In(dir, "tokens.json.migrated")
      /\ svc = "sqlite" => dir' = dir /\ rows' = mem \cap live
      /\ \A s \in Stores :
            /\ Sure(s) \cap In(dir, "tokens.json") \subseteq In(dir', "tokens.json")
            /\ ~overlapped => Sure(s) \cap rows \subseteq rows'
  BY <1>0, <1>1, ReplaceKeeps
<1>3. dirDisk' \in Dirs
  BY <1>1, <1>2, Directories
<1>4. TypeOK'
  BY <1>0, <1>1, <1>2, <1>3 DEF TypeOK, Dirs
<1>5. \A s \in Stores :
          /\ Sure(s)' \subseteq Sure(s) \cup (adding \cap live)
          /\ s # svc => Sure(s)' \subseteq Sure(s)
          /\ purgePc = "save" => Sure(s)' \subseteq Sure(s)
  BY <1>0, <1>1 DEF Sure
<1>6. ServiceInv'
  <2>1. \A s \in Stores : svc' = "json" => Sure(s)' \cap In(dir', "tokens.json") \subseteq mem'
    BY <1>1, <1>2
  <2>2. \A s \in Stores : svc' = "sqlite" => Sure(s)' \cap rows' \subseteq mem'
    BY <1>1, <1>2
  <2>3. \A s \in Stores : purgePc' = "save" => Sure(s)' \cap mem' = Sure(s)' \cap snapshot'
    BY <1>1, <1>5 DEF ServiceInv
  <2> QED
    BY <1>1, <2>1, <2>2, <2>3 DEF ServiceInv, In
<1>7. CommandInv'
  BY <1>0, <1>1 DEF CommandInv, ServiceInv, TypeOK
<1>8. "json" \in Stores /\ "sqlite" \in Stores
  BY DEF Stores
<1>9. svc = "json" => adding \cap live \subseteq In(dir', "tokens.json")
  BY <1>0, <1>2
<1>10. svc = "sqlite" => adding \cap live \subseteq rows'
  BY <1>0, <1>2
<1>11. SourceInv'
  <2>1. Sure("json")' \subseteq In(dir', "tokens.json")
            \cup In(dir', "tokens.json.migrated") \cup overwritten["json"]
    BY <1>0, <1>2, <1>5, <1>8, <1>9 DEF SourceInv, SourceIn
  <2>2. Sure("json")' \subseteq In(dirDisk', "tokens.json")
            \cup In(dirDisk', "tokens.json.migrated") \cup overwritten["json"]
    BY <1>0, <1>1, <1>5, <1>8, <2>1 DEF SourceInv, SourceIn
  <2> QED
    BY <1>1, <2>1, <2>2 DEF SourceInv, SourceIn, In
<1>12. TokensInv'
  <2> SUFFICES ASSUME ~overlapped PROVE TokensInv'
    BY <1>1 DEF TokensInv
  <2>1. CASE svc = "json"
    <3>1. Sure("json")' \subseteq In(dir', "tokens.json") \cup rows
      BY <1>2, <1>5, <1>8, <1>9, <2>1 DEF TokensInv, KeptIn
    <3>2. Sure("json")' \subseteq In(dir', "tokens.json") \cup rowsDisk
      BY <1>2, <1>5, <1>8, <1>9, <2>1 DEF TokensInv, KeptIn
    <3>3. Sure("sqlite")' \subseteq In(dir', "tokens.json") \cup rows
      BY <1>0, <1>2, <1>5, <1>8, <2>1 DEF TokensInv
    <3>4. dirDisk' = dir' /\ rows' = rows /\ rowsDisk' = rowsDisk
      BY <1>1, <1>2, <2>1
    <3> QED
      BY <3>1, <3>2, <3>3, <3>4 DEF TokensInv, KeptIn, In
  <2>2. CASE svc = "sqlite"
    <3>1. /\ Sure("json")' \subseteq Sure("json")
          /\ dir' = dir /\ dirDisk' = dirDisk /\ rowsDisk' = rowsDisk
      BY <1>1, <1>2, <1>5, <1>8, <2>2
    <3>2. /\ Sure("json")' \subseteq In(dir, "tokens.json") \cup rows'
          /\ Sure("json")' \subseteq In(dirDisk, "tokens.json") \cup rows'
          /\ Sure("json")' \subseteq In(dir, "tokens.json") \cup rowsDisk
          /\ Sure("json")' \subseteq In(dirDisk, "tokens.json") \cup rowsDisk
      BY <1>2, <1>8, <3>1 DEF TokensInv, KeptIn
    <3>3. Sure("sqlite")' \subseteq In(dir, "tokens.json") \cup rows'
      BY <1>2, <1>5, <1>8, <1>10, <2>2 DEF TokensInv
    <3> QED
      BY <3>1, <3>2, <3>3 DEF TokensInv, KeptIn, In
  <2> QED
    BY <1>0, <2>1, <2>2
<1> QED
  BY <1>4, <1>6, <1>7, <1>11, <1>12

\* The token that is taken back was never acknowledged.
LEMMA AddFailedInv == ASSUME MigrationInv, AddFailed PROVE MigrationInv'
<1> USE DEF MigrationInv
<1>0. /\ mem \in SUBSET Tokens /\ svc \in {"json", "sqlite"}
      /\ \A s \in Stores : acked[s] \cap adding = {}
  BY DEF AddFailed, TypeOK, Stores, ServiceInv
<1>1. /\ UNCHANGED <<dir, rows>> \/ Replace(mem)
      /\ UNCHANGED durable
      /\ mem' = mem \ adding /\ adding' = {}
      /\ UNCHANGED <<live, svc, purgePc, snapshot, drawn, acked, straddled, command, history>>
  BY DEF AddFailed, SaveFails, purge, issued
<1>2. CASE UNCHANGED <<dir, rows>>
  <2> USE <1>1, <1>2 DEF durable, command, history
  <2>1. TypeOK'
    BY DEF TypeOK
  <2>2. ServiceInv' /\ CommandInv'
    BY <1>0 DEF ServiceInv, CommandInv, Sure, In
  <2>3. TokensInv' /\ SourceInv'
    BY DEF TokensInv, KeptIn, Sure, SourceInv, SourceIn, In
  <2> QED
    BY <2>1, <2>2, <2>3
<1>3. CASE Replace(mem)
  <2>1. /\ dir' \in Dirs /\ rows' \subseteq Tokens
        /\ svc = "json" => In(dir', "tokens.json") = mem \cap live
        /\ svc = "sqlite" => rows' = mem \cap live
    BY <1>0, <1>3, ReplaceKeeps
  <2>2. CommandInv' /\ TokensInv' /\ SourceInv'
    BY <1>0, <1>1, <1>3, SavedInv DEF durable
  <2>3. TypeOK'
    BY <1>0, <1>1, <2>1 DEF TypeOK, Dirs, durable, command, history
  <2>4. \A s \in Stores : Sure(s)' = Sure(s) /\ Sure(s) \cap adding = {}
    BY <1>0, <1>1 DEF Sure
  <2>5. ServiceInv'
    BY <1>0, <1>1, <2>1, <2>4 DEF ServiceInv, In, command, history
  <2> QED
    BY <2>2, <2>3, <2>5
<1> QED
  BY <1>1, <1>2, <1>3

LEMMA SweepTokensInv == ASSUME MigrationInv, SweepTokens PROVE MigrationInv'
<1> USE DEF SweepTokens, MigrationInv, durable, issued, command, history
<1>1. /\ mem' \subseteq mem /\ live \cap mem \subseteq mem'
  OBVIOUS
<1>2. TypeOK'
  BY <1>1 DEF TypeOK
<1>3. ServiceInv' /\ CommandInv'
  BY <1>1 DEF ServiceInv, CommandInv, Sure, In, TypeOK
<1>4. TokensInv' /\ SourceInv'
  BY DEF TokensInv, KeptIn, Sure, SourceInv, SourceIn, In
<1> QED
  BY <1>2, <1>3, <1>4

LEMMA SyncTokensInv == ASSUME MigrationInv, SyncTokens PROVE MigrationInv'
<1> USE DEF SyncTokens, MigrationInv, durable, issued, command, history
<1>1. TypeOK'
  BY DEF TypeOK
<1>2. ServiceInv' /\ CommandInv'
  BY DEF ServiceInv, CommandInv, Sure, In
<1>3. TokensInv' /\ SourceInv'
  BY DEF TokensInv, KeptIn, Sure, SourceInv, SourceIn, In
<1> QED
  BY <1>1, <1>2, <1>3

\* The copy lacks straddled tokens only, and brings back none.
LEMMA SyncSaveInv == ASSUME MigrationInv, SyncSave PROVE MigrationInv'
<1> USE DEF MigrationInv
<1>0. /\ snapshot \in SUBSET Tokens /\ svc \in {"json", "sqlite"}
      /\ \A s \in Stores : Sure(s) \cap mem \subseteq snapshot
  BY DEF SyncSave, TypeOK, Stores, ServiceInv
<1>1. /\ purgePc' = "idle" /\ snapshot' = {}
      /\ UNCHANGED <<live, svc, mem, adding, issued, command, history>>
  BY DEF SyncSave
<1>2. \A s \in Stores : Sure(s)' = Sure(s) /\ Sure(s) \cap snapshot \subseteq mem
  BY <1>1 DEF Sure, issued, SyncSave, ServiceInv
<1>3. CASE UNCHANGED <<dir, rows, durable>>
  <2> USE <1>1, <1>3 DEF durable, issued, command, history
  <2>1. TypeOK'
    BY DEF TypeOK
  <2>2. ServiceInv' /\ CommandInv'
    BY DEF ServiceInv, CommandInv, Sure, In
  <2>3. TokensInv' /\ SourceInv'
    BY DEF TokensInv, KeptIn, Sure, SourceInv, SourceIn, In
  <2> QED
    BY <2>1, <2>2, <2>3
<1>4. ASSUME Replace(snapshot), UNCHANGED rowsDisk, dirDisk' = dir' \/ UNCHANGED dirDisk
      PROVE  MigrationInv'
  <2>1. /\ dir' \in Dirs /\ rows' \subseteq Tokens
        /\ svc = "json" => In(dir', "tokens.json") = snapshot \cap live
        /\ svc = "sqlite" => rows' = snapshot \cap live
    BY <1>0, <1>4, ReplaceKeeps
  <2>2. CommandInv' /\ TokensInv' /\ SourceInv' /\ dirDisk' \in Dirs
    BY <1>0, <1>1, <1>4, SavedInv DEF issued
  <2>3. TypeOK'
    BY <1>0, <1>1, <1>4, <2>1, <2>2 DEF TypeOK, Dirs, issued, command, history
  <2>4. ServiceInv'
    BY <1>0, <1>1, <1>2, <2>1 DEF ServiceInv, In, issued, command, history
  <2> QED
    BY <2>2, <2>3, <2>4
<1> QED
  BY <1>3, <1>4 DEF SyncSave, Save, SaveFails, durable

-----------------------------------------------------------------------------
(***************************************************************************)
(* The command.                                                            *)
(***************************************************************************)
LEMMA LoadJSONInv == ASSUME MigrationInv, LoadJSON PROVE MigrationInv'
<1> USE DEF LoadJSON, MigrationInv, durable, service, purge, issued, Contents
<1>1. TypeOK'
  <2>1. In(dir, "tokens.json") \subseteq Tokens
    BY InTokens, Directories DEF Files
  <2> QED
    BY <2>1 DEF TypeOK, In
<1>2. ServiceInv' /\ CommandInv'
  BY DEF ServiceInv, CommandInv, Sure, In, TypeOK
<1>3. TokensInv' /\ SourceInv'
  BY DEF TokensInv, KeptIn, Sure, SourceInv, SourceIn, In
<1> QED
  BY <1>1, <1>2, <1>3

LEMMA CheckEmptyInv == ASSUME MigrationInv, CheckEmpty PROVE MigrationInv'
<1> USE DEF CheckEmpty, MigrationInv, durable, service, purge, issued, history
<1>1. TypeOK'
  BY DEF TypeOK
<1>2. ServiceInv' /\ CommandInv'
  BY DEF ServiceInv, CommandInv, Sure, In
<1>3. TokensInv' /\ SourceInv'
  BY DEF TokensInv, KeptIn, Sure, SourceInv, SourceIn, In
<1> QED
  BY <1>1, <1>2, <1>3

\* The rows it replaces were all expired.
LEMMA SaveRowsInv == ASSUME MigrationInv, SaveRows PROVE MigrationInv'
<1> USE DEF SaveRows, MigrationInv, durable, service, purge, issued
<1>0. /\ overwritten' \in [Stores -> SUBSET Tokens]
      /\ overwritten'["json"] = overwritten["json"]
  BY DEF TypeOK, Overwrite, Stores
<1>1. TypeOK'
  BY <1>0 DEF TypeOK
<1>2. ServiceInv' /\ CommandInv'
  BY DEF ServiceInv, CommandInv, Sure, In
<1>3. ~overlapped => live \cap rows \subseteq rows'
  BY DEF CommandInv
<1>4. TokensInv' /\ SourceInv'
  BY <1>0, <1>3 DEF TokensInv, KeptIn, Sure, SourceInv, SourceIn, In
<1> QED
  BY <1>1, <1>2, <1>4

LEMMA CheckpointInv == ASSUME MigrationInv, Checkpoint PROVE MigrationInv'
<1> USE DEF Checkpoint, MigrationInv, service, purge, issued, history
<1>1. TypeOK'
  BY DEF TypeOK
<1>2. ServiceInv' /\ CommandInv'
  BY DEF ServiceInv, CommandInv, Sure, In
<1>3. TokensInv' /\ SourceInv'
  BY DEF TokensInv, KeptIn, Sure, SourceInv, SourceIn, In
<1> QED
  BY <1>1, <1>2, <1>3

LEMMA CloseDBInv == ASSUME MigrationInv, CloseDB PROVE MigrationInv'
<1> USE DEF CloseDB, MigrationInv, durable, service, purge, issued, history
<1>1. TypeOK'
  BY DEF TypeOK
<1>2. ServiceInv' /\ CommandInv'
  BY DEF ServiceInv, CommandInv, Sure, In
<1>3. TokensInv' /\ SourceInv'
  BY DEF TokensInv, KeptIn, Sure, SourceInv, SourceIn, In
<1> QED
  BY <1>1, <1>2, <1>3

\* What leaves tokens.json is in the table, and on the disk there; and it is in
\* tokens.json.migrated.  The table has nothing else, so that no other token
\* can have been sure in what was tokens.json.migrated before.
LEMMA RenameJSONInv == ASSUME MigrationInv, RenameJSON PROVE MigrationInv'
<1> USE DEF RenameJSON, MigrationInv, durable, service, purge, issued
<1>1. dir \in Dirs
  BY Directories
<1>2. /\ dir' \in Dirs /\ dir'["tokens.json"] = Missing
      /\ dir'["tokens.json.migrated"] = dir["tokens.json"]
  BY <1>1 DEF Dirs, Files
<1>3. /\ In(dir', "tokens.json") = {}
      /\ In(dir', "tokens.json.migrated") = In(dir, "tokens.json")
  BY <1>2, NoContents DEF In
<1>4. In(dir, "tokens.json.migrated") \subseteq Tokens
  BY <1>1, InTokens DEF Files
<1>5. /\ overwritten \in [Stores -> SUBSET Tokens]
      /\ overwritten' = IF overlapped
                        THEN [overwritten EXCEPT !["json"] =
                                 @ \cup In(dir, "tokens.json.migrated")]
                        ELSE overwritten
  BY DEF TypeOK, Overwrite, Contents, In
<1>6. TypeOK'
  BY <1>2, <1>4, <1>5 DEF TypeOK, Dirs, Stores
<1>7. ServiceInv' /\ CommandInv'
  BY <1>3 DEF ServiceInv, CommandInv, Sure, In
<1>8. ~overlapped => live \cap In(dir, "tokens.json") \subseteq rows \cap rowsDisk
  BY DEF CommandInv
<1>9. TokensInv'
  BY <1>3, <1>8 DEF TokensInv, KeptIn, Sure, In
<1>10. SourceInv'
  <2>1. CASE overlapped
    BY <1>3, <1>5, <2>1 DEF SourceInv, SourceIn, Sure, In, Stores
  <2>2. CASE ~overlapped
    <3>1. Sure("json") \subseteq In(dir, "tokens.json")
      BY <2>2 DEF CommandInv, TokensInv, KeptIn
    <3> QED
      BY <1>3, <1>5, <2>2, <3>1 DEF SourceInv, SourceIn, Sure, In
  <2> QED
    BY <2>1, <2>2
<1> QED
  BY <1>6, <1>7, <1>9, <1>10

LEMMA FailsInv == ASSUME MigrationInv, Fails PROVE MigrationInv'
<1> USE DEF Fails, MigrationInv, durable, service, purge, issued, history
<1>1. TypeOK'
  BY DEF TypeOK
<1>2. ServiceInv' /\ CommandInv'
  BY DEF ServiceInv, CommandInv, Sure, In
<1>3. TokensInv' /\ SourceInv'
  BY DEF TokensInv, KeptIn, Sure, SourceInv, SourceIn, In
<1> QED
  BY <1>1, <1>2, <1>3

-----------------------------------------------------------------------------
(***************************************************************************)
(* The machine and the operator.                                           *)
(***************************************************************************)
LEMMA WriteBackInv == ASSUME MigrationInv, WriteBack PROVE MigrationInv'
<1> USE DEF WriteBack, MigrationInv, service, purge, issued, command, history
<1>1. TypeOK'
  BY DEF TypeOK
<1>2. ServiceInv' /\ CommandInv'
  BY DEF ServiceInv, CommandInv, Sure, In
<1>3. TokensInv' /\ SourceInv'
  BY DEF TokensInv, KeptIn, Sure, SourceInv, SourceIn, In
<1> QED
  BY <1>1, <1>2, <1>3

LEMMA PowerLossInv == ASSUME MigrationInv, PowerLoss PROVE MigrationInv'
<1> USE DEF PowerLoss, ServiceGone, MigrationInv, durable, history
<1>1. TypeOK'
  BY DEF TypeOK, Stores
<1>2. acked'["json"] = acked["json"] /\ acked'["sqlite"] = acked["sqlite"] \cap rowsDisk
  BY DEF TypeOK, Stores
<1>3. Sure("json")' = Sure("json") /\ Sure("sqlite")' = Sure("sqlite") \cap rowsDisk
  BY <1>2 DEF Sure
<1>4. ServiceInv' /\ CommandInv'
  BY DEF ServiceInv, CommandInv, In
<1>5. TokensInv' /\ SourceInv'
  BY <1>3 DEF TokensInv, KeptIn, SourceInv, SourceIn, In
<1> QED
  BY <1>1, <1>4, <1>5

LEMMA RollbackInv == ASSUME MigrationInv, Rollback PROVE MigrationInv'
<1> USE DEF Rollback, MigrationInv, durable, service, purge, issued, command, history
<1>1. dir \in Dirs
  BY Directories
<1>2. /\ dir' \in Dirs /\ dir'["tokens.json.migrated"] = Missing
      /\ dir'["tokens.json"] = dir["tokens.json.migrated"]
  BY <1>1 DEF Dirs, Files
<1>3. /\ In(dir', "tokens.json.migrated") = {} /\ In(dir, "tokens.json") = {}
      /\ In(dir', "tokens.json") = In(dir, "tokens.json.migrated")
  BY <1>2, NoContents DEF In
<1>4. TypeOK'
  BY <1>2 DEF TypeOK, Dirs
<1>5. ServiceInv' /\ CommandInv'
  BY <1>3 DEF ServiceInv, CommandInv, Sure, In
<1>6. TokensInv' /\ SourceInv'
  BY <1>3 DEF TokensInv, KeptIn, Sure, SourceInv, SourceIn, In
<1> QED
  BY <1>4, <1>5, <1>6

-----------------------------------------------------------------------------
LEMMA MigrationStep == MigrationInv /\ [Next]_vars => MigrationInv'
<1> SUFFICES ASSUME MigrationInv, [Next]_vars PROVE MigrationInv'
  OBVIOUS
<1>1. CASE UNCHANGED vars
  BY <1>1 DEF vars, durable, service, purge, issued, command, history,
     MigrationInv, TypeOK, ServiceInv, CommandInv, TokensInv, KeptIn, Sure,
     SourceInv, SourceIn, In
<1>2. CASE Next
  BY <1>2, ExpireInv, AddAccessTokenInv, AddSavedInv, AddFailedInv, SweepTokensInv,
     SyncTokensInv, SyncSaveInv, StartServiceInv, StopServiceInv,
     LoadJSONInv, CheckEmptyInv, SaveRowsInv, CheckpointInv, CloseDBInv,
     RenameJSONInv, FailsInv, WriteBackInv, PowerLossInv, RollbackInv
  DEF Next, PurgeExpired, MigrateJSONToSQLite
<1> QED
  BY <1>1, <1>2

LEMMA MigrationAlways == Spec => []MigrationInv
  BY MigrationInit, MigrationStep, PTL DEF Spec

-----------------------------------------------------------------------------
(***************************************************************************)
(* What the database acknowledged is in the table, and in the map of a     *)
(* service that runs on it and will save that map.                         *)
(***************************************************************************)
RowsInv ==
    /\ Sure("sqlite") \subseteq rows \cup overwritten["sqlite"]
    /\ svc = "sqlite" => Sure("sqlite") \subseteq mem \cup overwritten["sqlite"]

\* A Save of the map, or of a copy that has all that is sure in it.
LEMMA ReplaceRows ==
    ASSUME MigrationInv, RowsInv, NEW T, Replace(T), Sure("sqlite") \cap mem \subseteq T
    PROVE  /\ Sure("sqlite") \subseteq rows' \cup overwritten["sqlite"]
           /\ svc = "sqlite" => rows' = T \cap live
  BY DEF RowsInv, Replace, Sure

LEMMA AddSavedRows == ASSUME MigrationInv, RowsInv, AddSaved PROVE RowsInv'
<1>1. /\ Replace(mem) /\ svc \in Stores /\ adding \subseteq mem
      /\ acked \in [Stores -> SUBSET drawn]
      /\ UNCHANGED <<live, svc, mem, overwritten>>
  BY DEF AddSaved, Save, Replace, MigrationInv, TypeOK, Stores, history
<1>2. /\ Sure("sqlite") \subseteq rows' \cup overwritten["sqlite"]
      /\ svc = "sqlite" => rows' = mem \cap live
  BY <1>1, ReplaceRows
<1>3. CASE svc = "json"
  <2>1. Sure("sqlite")' \subseteq Sure("sqlite")
    BY <1>1, <1>3 DEF AddSaved, Sure, Stores
  <2> QED
    BY <1>1, <1>2, <1>3, <2>1 DEF RowsInv
<1>4. CASE svc = "sqlite"
  <2>1. Sure("sqlite")' \subseteq Sure("sqlite") \cup (adding \cap live)
    BY <1>1, <1>4 DEF AddSaved, Sure, Stores
  <2> QED
    BY <1>1, <1>2, <1>4, <2>1 DEF RowsInv
<1> QED
  BY <1>1, <1>3, <1>4 DEF Stores

LEMMA AddFailedRows == ASSUME MigrationInv, RowsInv, AddFailed PROVE RowsInv'
<1>1. Sure("sqlite")' = Sure("sqlite") /\ Sure("sqlite") \cap adding = {}
  BY DEF AddFailed, MigrationInv, ServiceInv, Sure, issued, Stores
<1>2. Sure("sqlite") \subseteq rows' \cup overwritten["sqlite"]
  BY ReplaceRows DEF AddFailed, SaveFails, RowsInv
<1> QED
  BY <1>1, <1>2 DEF AddFailed, RowsInv, history

LEMMA SyncSaveRows == ASSUME MigrationInv, RowsInv, SyncSave PROVE RowsInv'
<1>1. Sure("sqlite")' = Sure("sqlite") /\ Sure("sqlite") \cap mem \subseteq snapshot
  BY DEF SyncSave, MigrationInv, ServiceInv, Sure, issued, Stores
<1>2. Sure("sqlite") \subseteq rows' \cup overwritten["sqlite"]
  BY <1>1, ReplaceRows DEF SyncSave, Save, SaveFails, RowsInv
<1> QED
  BY <1>1, <1>2 DEF SyncSave, RowsInv, history

\* The table was found empty, or what it got since is told in overwritten.
LEMMA SaveRowsRows == ASSUME MigrationInv, RowsInv, SaveRows PROVE RowsInv'
<1>1. /\ Sure("sqlite")' = Sure("sqlite") /\ UNCHANGED <<svc, mem>>
      /\ overwritten \in [Stores -> SUBSET Tokens]
  BY DEF SaveRows, service, issued, MigrationInv, TypeOK, Sure
<1>2. CASE overlapped
  <2>1. overwritten'["sqlite"] = overwritten["sqlite"] \cup rows
    BY <1>1, <1>2 DEF SaveRows, Overwrite, Stores
  <2> QED
    BY <1>1, <2>1 DEF RowsInv
<1>3. CASE ~overlapped
  <2>1. rows \cap live = {} /\ UNCHANGED overwritten
    BY <1>3 DEF SaveRows, Overwrite, MigrationInv, CommandInv
  <2> QED
    BY <1>1, <2>1 DEF RowsInv, Sure
<1> QED
  BY <1>2, <1>3

LEMMA RenameJSONRows == ASSUME MigrationInv, RowsInv, RenameJSON PROVE RowsInv'
<1>1. overwritten'["sqlite"] = overwritten["sqlite"]
  BY DEF RenameJSON, Overwrite, MigrationInv, TypeOK, Stores
<1> QED
  BY <1>1 DEF RenameJSON, RowsInv, Sure, service, issued

LEMMA PowerLossRows == ASSUME MigrationInv, RowsInv, PowerLoss PROVE RowsInv'
<1>1. Sure("sqlite")' \subseteq rowsDisk
  BY DEF PowerLoss, MigrationInv, TypeOK, Stores, Sure
<1> QED
  BY <1>1 DEF PowerLoss, ServiceGone, RowsInv

LEMMA RowsStep == MigrationInv /\ RowsInv /\ [Next]_vars => RowsInv'
<1> SUFFICES ASSUME MigrationInv, RowsInv, [Next]_vars PROVE RowsInv'
  OBVIOUS
<1> USE DEF RowsInv, Sure, service, issued, history
<1>1. CASE UNCHANGED vars
  BY <1>1 DEF vars
<1>2. ASSUME NEW t \in Tokens, Expire(t) PROVE RowsInv'
  BY <1>2 DEF Expire
<1>3. ASSUME NEW t \in Tokens, AddAccessToken(t) PROVE RowsInv'
  BY <1>3 DEF AddAccessToken
<1>4. CASE SweepTokens
  BY <1>4 DEF SweepTokens
<1>5. CASE SyncTokens
  BY <1>5 DEF SyncTokens
<1>6. ASSUME NEW s \in Stores, StartService(s) PROVE RowsInv'
  BY <1>6 DEF StartService
<1>7. CASE StopService
  BY <1>7 DEF StopService, ServiceGone
<1>8. CASE LoadJSON \/ CheckEmpty \/ Checkpoint \/ CloseDB \/ Fails
  BY <1>8 DEF LoadJSON, CheckEmpty, Checkpoint, CloseDB, Fails
<1>9. CASE WriteBack \/ Rollback
  BY <1>9 DEF WriteBack, Rollback
<1> QED
  BY <1>1, <1>2, <1>3, <1>4, <1>5, <1>6, <1>7, <1>8, <1>9, AddSavedRows,
     AddFailedRows, SyncSaveRows, SaveRowsRows, RenameJSONRows, PowerLossRows
  DEF Next, PurgeExpired, MigrateJSONToSQLite

LEMMA RowsAlways == Spec => []RowsInv
<1>1. Init => RowsInv
  BY DEF Init, RowsInv, Sure, Stores
<1> QED
  BY <1>1, RowsStep, MigrationAlways, PTL DEF Spec

\* Types of the files, the table and the command, for any tokens.
THEOREM MigrationTypeCorrect == Spec => []TypeOK
<1>1. MigrationInv => TypeOK
  BY DEF MigrationInv
<1> QED
  BY <1>1, MigrationAlways, PTL

\* With the service stopped, no failure of the command, in whatever order the
\* directory and the database reach the disk, and no repetition or rollback of
\* it loses an issued token (migration.go:27-78); nor does the service before
\* and after it, with Saves that fail and a purge at any time, but for the
\* tokens saved between the purge's copy and its Save (service.go:84-91).
THEOREM NothingLost == Spec => []NoTokenLost
<1>1. MigrationInv => NoTokenLost
  <2> SUFFICES ASSUME MigrationInv PROVE NoTokenLost
    OBVIOUS
  <2>1. UNION {acked[s] : s \in Stores} = acked["json"] \cup acked["sqlite"]
    BY DEF Stores
  <2> QED
    BY <2>1 DEF MigrationInv, NoTokenLost, TokensInv, KeptIn, Sure, In, Contents
<1> QED
  BY <1>1, MigrationAlways, PTL

\* Under a running service too, tokens.json or tokens.json.migrated holds what
\* the JSON store acknowledged and no purge straddled; no later migration
\* renames over it, unless the service once ran during one.
THEOREM SourceSurvives == Spec => []SourceKept
<1>1. MigrationInv => SourceKept
  BY DEF MigrationInv, SourceKept, SourceInv, SourceIn, Sure, In, Contents
<1> QED
  BY <1>1, MigrationAlways, PTL

\* Under a running service too, what the database acknowledged and no purge
\* straddled stays in it, but for what was saved after the command had found it
\* empty and before it replaced it (migration.go:47-57).
THEOREM RowsSurvive == Spec => []RowsKept
<1>1. RowsInv => RowsKept
  BY DEF RowsInv, RowsKept, Sure
<1> QED
  BY <1>1, RowsAlways, PTL

\* The rename, the last step, finds the tokens on the disk of the database.
THEOREM RenameComesLast == Spec => RenamedWhenDurable
<1>1. MigrationInv /\ [Next]_vars =>
        [pc = "rename" /\ ~overlapped /\ dir'["tokens.json"] # dir["tokens.json"]
            => Contents("tokens.json") \cap live \subseteq rowsDisk]_vars
  BY DEF MigrationInv, CommandInv, In, Contents
<1> QED
  BY <1>1, MigrationAlways, PTL DEF Spec, RenamedWhenDurable
=============================================================================
