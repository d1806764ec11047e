# mcp-runtime-go in TLA+

A specification of the parts of `mcp-runtime-go` whose correctness depends on
the order of steps: the OAuth authorization-code flow, the token map and its
persistence, the two token stores and the migration between them, the HTTP
front with the anonymous policy and the reverse proxy, the audit log and the
life of the process.
Paths are relative to the repository (`src/` holds it), line numbers refer to
the commit kept there.

## 1. The system

| part | source | state | operations |
|---|---|---|---|
| access tokens | `internal/oauthproxy/service.go` | `accessTokens` (hash -> expiry), `tokensMu` | `AddAccessToken`, `ValidateAccessToken`, `PurgeExpired`, `syncTokens`, `NewService` |
| authorization codes | `service.go`, `handlers.go` | `authCodes`, `codesMu` | `IssueAuthCode`, `ConsumeAuthCode`, `ExchangeToken`, the first half of `PurgeExpired` |
| JSON store | `internal/storage/json_store.go` | `<path>`, `<path>.tmp`, backups, `mu` | `Save`, `Load` with recovery |
| SQLite store | `internal/storage/sqlite_store.go` | the table, the WAL, a pool of one connection | `Save`, `Load`, `Close` |
| migration | `internal/storage/migration.go` | both stores' files | `MigrateJSONToSQLite` |
| audit log | `internal/observability/audit.go` | the log file, a failure counter | `LogWithIP`, `Ping` |
| life cycle | `internal/runtime/app.go`, `internal/httpserver/server.go`, `cmd/mcp-runtime/main.go` | server, purge context, store handle | `NewApp`, `Run`, `Start`, `Stop` |
| MCP proxy | `internal/oauthproxy/proxy.go`, `internal/oauthcore/mcp_acl.go` | one `ReverseProxy`, two counters, each request's context | `HandleProxy`, `PayloadAllowed`, the filter of `tools/list` |
| request numbers | `internal/runtime/middleware.go`, `internal/context/context.go` | each request's context | `RequestIDMiddleware` |
| rules | `internal/oauthcore/errors.go`, `metadata.go`, `internal/security/*` | none | pure functions |
| configuration | `internal/config/config.go` | read once | `Load`, `Validate` |

How they interact.  `net/http` runs one goroutine per request; `/authorize`
and `/token` call the service, which shares `authCodes` (under `codesMu`) and
`accessTokens` (under `tokensMu`) between them.  `AddAccessToken` calls the
store's `Save` while it holds `tokensMu`; the purge goroutine calls it without.
`/readyz` calls the store's `Load` at any time; with the JSON store that may
move a corrupt file away.  `/mcp` asks `ValidateAccessToken`, or the anonymous
policy, and hands the request to the one `ReverseProxy`, which finds what belongs
to the request in its context.  Every handler ends with a call of the audit logger,
which has no lock.  `Run` unwinds all of it on a signal.

What is hard here: a disk write inside a critical section and another one
outside of it; a code that is consumed before it is checked; failures of `Save`
on either side of the moment its contents landed; the process or the machine
dying in between; files shared without a lock; goroutines nobody waits for at
the end.  `PROJECT.json` lists each hazard at its line with the properties that
cover it.

What makes each part correct:

* tokens: an issued token is accepted until it expires, also after a restart;
  a refused one never is; nobody reads a token that is not persisted; expired
  ones go away;
* codes: one token per code, for the grant of that code only; a spent code
  stays spent; a request is answered;
* stores: a Save is all or nothing and durable when it returned nil; a Load
  sees a whole map; no call blocks the others for ever;
* migration: no unexpired token is in neither store, whatever fails; the source
  goes only when the database is durable;
* HTTP front: only admitted requests reach the backend, each at its own path and
  with its own number; an anonymous client sees the named tools only; redirects
  go to allowed places only; counters and audit entries tell what happened;
* audit log: one entry per line, failures counted exactly;
* life cycle: handlers and the purge are done with the store before it is
  closed; a signal ends the process.

## 2. Modules

```
StoreContract  <--implements-- JsonStore          (JsonStore_proofs)
               <--implements-- SqliteStore        (SqliteStore_proofs, looser form)
AccessTokens   <--implements-- OAuthFlow          (AccessTokens_proofs, OAuthFlow_proofs)
StorageMigration  (both stores as what a Save and a Load promise;
                   StorageMigration_proofs)
HttpFront      extends AnonymousPolicy and RequestRules (pure rules;
                   HttpFront_proofs)
AuditLog       (AuditLog_proofs)
AppLifecycle   (AppLifecycle_proofs)
```

`MC*.tla` add TLC's symmetry sets and model values; the `.cfg` files are named
`<module>_<run>.cfg`.

**AccessTokens.**  The token map, its lock, the handlers inside
`AddAccessToken`, the purge goroutine, and the store as its contract.  A token
stands for its hash.  `AddAccessToken(h, t, exp)` is lines 167-172 (lock,
insert, copy); `AddSaved(h)` and `AddFailed(h)` are the `Save` call and what
follows on nil and on error, including an error reported after the contents
landed (`json_store.go:117-126`).  `PurgeExpired`, `SweepCodes`, `SweepTokens`,
`SyncTokens`, `SyncSave` are the stretches of the purge between which another
goroutine can run; `purgePc = "save"` is the window in which the purge holds a
copy and no lock.  `Crash` and `NewService` are death and restart.  Three
history variables (`expiry`, `fate`, `straddled`) record what was promised for
each token; they guard only the freshness of a draw.  A Save's expiry filter
reads the clock where the contents land, a moment later than the code does:
an entry that expired in between is filtered by the next Load anyway.

**OAuthFlow** extends AccessTokens with `authCodes` and the requests in
flight.  `Authorize` is `HandleAuthorize` with `IssueAuthCode`;
`ExchangeToken`, `CheckFailed`/`CheckPassed`, `AddToken`, `AddReturns` are the
stretches of `ExchangeToken` in the code between which others can run: after
`ConsumeAuthCode`, after the checks, while waiting for `tokensMu`, during
`Save`.  Times are computed where the code reads the clock and used later
(`since`).  SHA-256 is the function `S256`; `IsAllowedRedirect` the set
`AllowedRedirects`.  Requests that are refused without changing any state are
guards.  Every property of AccessTokens holds here too, because
`FlowSpec => Spec` is checked and proved.

**StoreContract** is what `service.go` needs of `oauthcore.TokenStore`.  It has
two forms: `Spec`, where a Save that returned nil survives a power loss, and
`LooseSpec`, where a power loss may go back to an earlier whole map.

**JsonStore** models `Save` and `Load` one system call at a time; each can
fail.  `file` and `tmp` are what processes see, `onDisk` is the set of contents
a power loss may leave.  A file renamed before its data was synced may be torn.
`Damage` is corruption from outside, which `allowRecover` is for.  An empty
file, which `Load` takes for an empty map, cannot result from `Save`.

**SqliteStore** models the pool of one connection, the transaction of `Save`
statement by statement, the rows of `Load`, `Close` and restarts.  SQLite is
external: a commit is visible at once, survives the process, and is synced by
the next checkpoint (`synchronous = NORMAL`).

**AuditLog** models `LogWithIP` as the three system calls it makes, each of
which can fail, the handler's answer after it, and logrotate.  A call whose entry
cannot be encoded (`Unencodable`), and every call when no path is set
(`filePath`), returns without a line, a message or a count (`Silent`, `Drop`;
`audit.go:64-71`); `FailuresCounted` is about the others.  What else is in an entry
is not modelled.

**AppLifecycle** models `NewApp`, `Run` with its select, the shutdown deadline
and the defers, against the server goroutine, the handlers and the purge.

**StorageMigration** models `MigrateJSONToSQLite` one step per call it makes
(`LoadJSON`, `CheckEmpty`, `SaveRows`, `Checkpoint`, `CloseDB`, `RenameJSON`;
`Fails` is any error or the death of the command), with the service started on
either store before, after or, against `OPERATIONS.md`, during it.  A store is
seen from outside: a Save replaces the whole contents, a Load drops the expired,
the inside is the store modules'.  The service issues and purges as in AccessTokens:
`AddAccessToken`, `AddSaved`, `AddFailed` with the lock held across the Save;
`SweepTokens`, `SyncTokens`, `SyncSave` with the copy taken under the lock and saved
outside of it; a Save that fails has landed or not.  `dirDisk` and `rowsDisk` are what a power loss
leaves: a Save of the JSON store is synced, a commit and the migration's rename
are not.  A checkpoint under a running service may do nothing, which the code
cannot see (`sqlite_store.go:131`).  `Rollback` renames `tokens.json.migrated`
back, as `V1_1_SQLITE_DESIGN.md:88` says.  `drawn`, `acked`, `straddled`,
`overlapped` and `overwritten` are history.  `NoTokenLost` is about a service that
is stopped during the command; `SourceKept` and `RowsKept` also about one that is
not, and `overwritten` is what the command replaces then.

**AnonymousPolicy** and **RequestRules** are the decisions the front takes from
a request and the configuration alone, as operators named after the functions.
A message is its kind and the tool it names, a body the sequence of its
messages, a host the sequence of its labels, an address a model value, the
`X-Forwarded-For` header the sequence of its lines, each the sequence of the entries
between its commas, of which `r.Header.Get` returns the first line.  A setting is
not set or a non-empty set of names, the empty one among them after a last comma.

**HttpFront** extends both with the requests in flight: `RequestIDMiddleware`
numbers a request, `ServeAuthorize` and `ServeRegister` answer in one step,
`HandleProxy` and `Inspect` admit to the proxy, and `ServeHTTP`, `BackendAnswers` /
`BackendFails`, `ModifyResponse`, `CopyResponse`, `ProxyHit` are the stretches of
a proxied request between which other requests run.  `body` is the reader of the
request: `ReadBody` takes it to its end, `Inspect` puts a new one over what was read
and asks the policy, `ServeHTTP` sends what is left in it.  The path is that of the
decoded URL, in segments.  `ServeMux` cleans the URL as it was sent, so `%2F`, and a
CONNECT, bring empty, `.` and `..` segments to `HandleProxy`; `Clean` is
`path.Clean`, and `Route` has the three branches of lines 128-150.  `Resend` is what
`http.Transport` does by itself with a request without a body.  `ctx` is the request's
context, which is all the shared `ReverseProxy` may know a request by.
`ErrorHandler` returns to `HandleProxy`; a copy that fails after the header does
not (`ReverseProxy` panics with `ErrAbortHandler`), state `aborted`.  Of the
tokens there is only which are valid now.  `Config.Validate` refuses an empty
backend URL (`config.go:84-90`), so the branch at `proxy.go:140` is not there.

## 3. Runs

| run | what it shows | instance |
|---|---|---|
| AccessTokens_tokens | what is accepted, visible, absent and durable; expired tokens leave the map | 2 handlers, 2 tokens, lifetime 2, clock 0..4, fair |
| AccessTokens_lost | *violated*: a purge overwrites a newer Save | the same |
| OAuthFlow_code | one token per code; a spent code stays spent; refinement of AccessTokens | 2 handlers, 1 code, 2 tokens, 2 redirects, clock 0..2, PKCE optional |
| OAuthFlow_two | a token matches its own code's grant; every request is answered | 2 handlers, 2 codes, 2 tokens, clock 0, PKCE mandatory, fair |
| JsonStore_files | never a torn file; recovery moves only torn files; the contract | 3 maps, 2 loaders, corrupted up to 2 times |
| SqliteStore_calls | only whole maps, the looser contract; every call gets the connection and returns | 2 savers, 1 loader, 2 rows, fair |
| AuditLog_log | exact failure count, lines survive rotation | 3 calls and one that cannot be encoded, with and without a path, 1 rotation |
| AuditLog_lines | *violated*: two entries on one line | the same |
| AppLifecycle_stop | handlers before Close; a signal ends the process | 2 requests, main goroutine fair |
| AppLifecycle_purge | *violated*: the purge saves after Close | the same |
| StorageMigration_crash | no unexpired token lost; the source and the rows kept; the rename comes after the disk | 2 tokens |
| HttpFront_requests | who reaches the backend, with which body and path; filtered lists; who is redirected, and with which error; accounting; request numbers | 2 handlers, 2 tools, 1 token, bodies of up to 2 messages, 2 sends, 4 addresses, 5 redirects, paths of up to 3 segments |

Why these bounds are enough to see the interesting cases.  Two handlers and the
purge are the three parties of every race on the token map; a third handler
would wait for the same lock.  A lifetime of 2 and a clock to 4 let one token be
issued, expire and be swept while a second is issued behind it and expires too.
Every code draws at most one token, so two tokens are as many as two codes can
use, and two tokens for one code are one more than it may; the run with two
codes needs no clock, since what it asks does not depend on expiry, and it takes
two codes for one handler to wait behind another's Save.  Three maps make the
old, the new and the next contents of a file different.  Two rows are the least
for a half-inserted table.  Three calls are needed for a log with an entry
before, inside and after another's.  Two tokens in the migration are one that is
carried over and one that is issued, straddled or refused before, during or
after that; a command can be repeated any number of times.  Two requests are the
parties of everything the front shares: the proxy, the counters, the numbers,
and a registration one request makes and another relies on; bodies of two
messages put a forbidden one before and after a permitted one.  What depends on
one request alone, most paths and sources, is served while the other handler has
not begun and nothing is open to anonymous clients (`LoneAreAlone`): every path
of two segments behind `/mcp`, and the three-segment ones in which `..` takes
back a name, takes back `/mcp` and comes down to it again.  One of the two
trusted proxies is also an allowed address, as the loopback address is by
default.  Section 5 says what is also proved without bounds.

Bounds: `MaxTime` (the clock), `MaxDamage` (outside corruption), `MaxRotations`
(logrotate), `MaxSends` (how often the transport sends one request),
`MaxSegments` (the paths in MCHttpFront), the state constraint `LoneAreAlone` of
HttpFront_requests; everything else is the size of a constant set.  Deadlock is
not checked: a run of the model ends when the bounded clock, tokens or calls are
used up, or when the process has exited.

The violated runs are disagreements between the code and what its comments or
documents say; section 6 describes them.

## 4. Fairness

* A system call returns, in AccessTokens, OAuthFlow and SqliteStore: weak
  fairness of the steps that end `Save` and `Load`, which may fail.
* A goroutine that waits for `tokensMu` or for the connection gets it: strong
  fairness, since the lock is released and taken again meanwhile.  `sync.RWMutex`
  does not starve waiters, and `database/sql` serves its waiters.  With finitely
  many tokens weak fairness could not be told from it in the first two modules.
* The ticker fires: weak fairness of `PurgeExpired`.
* In AppLifecycle only the main goroutine is fair, which includes that the 15
  second deadline of `Shutdown` passes; no handler and no purge need finish.
* No request need come, nothing need crash, and clocks need not advance.
* StorageMigration and HttpFront assume no fairness.  The code sets no bound on
  the wait for the backend (section 6), so that a proxied request is ever answered
  is not claimed.

## 5. Proofs

All proofs are checked by TLAPS for every value of the constants.

*AccessTokens_proofs.*  The safety properties are not inductive by themselves.
`TypeOK` says that the lock is held exactly by the handler with a token in hand;
the invariant adds that such a handler's copy is the current map; that the
purge's copy and the store hold only tokens that were persisted, each with the
expiry it was added with; and that an issued token is in memory, and in the
store and in the purge's copy unless it was straddled.  Assumptions: a positive lifetime, `NoToken` no token, `Free`
no handler.

*OAuthFlow_proofs.*  `FlowImplementsTokens` maps every step of the flow to a
step of AccessTokens or a stutter, so the theorems above hold of the flow;
`SingleUse`, `OnlyMatchingRequests`, `SpentForGood` rest on the invariant that a
code is at any time either in the map, or held by one handler, or spent, and
that what a handler holds is the grant of the code its request names.

*JsonStore_proofs.*  The temporary file is complete once written and synced
before it is renamed, and a loader about to move the file away has kept every
Save out since it read it.  `FileKeepsContract` is the refinement up to the
first corruption from outside, after which no store could keep the contract;
`FileImplementsContract` is the plain one where there is none.

*SqliteStore_proofs.*  The rows inserted and the rows still to insert make up
the argument; at most one saver is inside a transaction.

*StorageMigration_proofs.*  Directory and database reach the disk in any order, so
what the JSON store acknowledged has to be in every combination of `dir` or
`dirDisk` with `rows` or `rowsDisk`.  That holds of the tokens in `Sure(store)`:
unexpired, acknowledged and not straddled.  The invariant adds that the service's
map, and the copy the purge is about to save, have every sure token its store has
(`ServiceInv`), and how far what the command loaded has come: loaded, in the table,
on the disk of the table (`CommandInv`).  `SourceSurvives` speaks of the files alone,
`RowsSurvive` of the table: a service on the database has what is sure in its map and
saves it with every Save (`RowsInv`).
A second migration finds no unexpired row but those it wrote itself, so no sure token
is left in a `tokens.json.migrated` it renames over, unless the service once ran
during a migration.  No assumptions.

*HttpFront_proofs.*  `About(h)` tells what is known of one handler at each of its
stages: what it sent and got back, that all it wrote carries the number in its
context, and which of the counted entries it wrote.  A step of another handler
leaves it alone (`SameAbout`), although both use one `ReverseProxy`.  A counter is
the number of handlers that wrote its entry, which a step raises by one
(`CountRaised`).  `Outcome(h)` adds which rule an answer came from, so that
`SourceVouchedFor`, `ErrorsGoWhereTheyMay` and `RegisteredUsable` follow from
HandleAuthorize, HandleRegister and what the two-label suffix of a host is
(`AllowedAreNamed`).  `Upload(h)` follows the body from the client through the policy
to the transport, and `Whole` is what of it every copy the backend received may have.
Assumptions: finitely many handlers, and the form of the requests; none on their paths
and headers.

*AuditLog_proofs.*  `LinesStayTogether` is not inductive: a newline is
written some steps after its entry, and other calls write in between.
`EntriesSuffice(f)` counts for each file an entry for every line break in it and
for every call that still owes it one; an open handle, and not the file's name,
says whom a call owes.  `FailuresCounted` is about the calls not in `Silent`, which
never get past their first step, and needs the line breaks of all files to be
finitely many, and a step to add at most one (`BreaksAppended`).  Assumptions:
finitely many calls, and that line breaks, pieces and entries differ.

*AppLifecycle_proofs.*  `HandlersFinishBeforeClose` says what has not happened yet;
the invariant says why it cannot: from the return of `Shutdown` to the end no
handler is active unless it outlived the deadline or the server failed
(`HandlersInv`), the server takes no new one (`ServerInv`), and the store is closed
in the end (`StoreInv`).  No assumptions.

All safety properties of the passing runs but one, invariants and action properties,
and the refinements are proved.  Only model-checked are `SubPathResolved`, since what a
fold over a path computes takes an induction over the path, and liveness:
`ExpiredTokensPurged`, `RequestAnswered`, `CallsReturn` and `SignalEndsProcess`, since
fairness is beyond the prover.

AccessTokens and the stores are composed through the contract only: AccessTokens
covers the death of the process; what a power loss adds, a Save that was not yet
acknowledged going either way, or with SQLite an acknowledged one going back, is
stated in the store modules.

## 6. Where the code and its documents differ

* `service.go:91`: `syncTokens` saves a copy of the map outside `tokensMu`.  A
  token issued and saved between the copy and that Save is overwritten on disk;
  it stays accepted until the process restarts before another Save.
  `DurableUnlessStraddled` shows that this window is the only one.
* `audit.go:86`: entry and newline are two writes without a lock; the log is
  said to be JSONL.
* `app.go:128`: cancelling the purge context does not wait for the purge, which
  may save to the closed store; the comment says it does not.

These are runs.  Others were met while modelling and need no run to be seen:

* `migration.go:57`: the command replaces the table some time after it found it
  empty, and nothing keeps a service from saving in between; `migration.go:47` says
  the check is there to prevent accidental overwrites.  `RowsKept` shows that this
  window is the only one.
* `requestinfo.go:43`: of several `X-Forwarded-For` entries none is used, of several
  lines the first, and where that leaves no address the proxy's own counts, which the
  defaults hold in both lists.  `OPERATIONS.md:53` says that only requests from the
  operator's IP can log in, and a test calls the case "rejected"
  (`requestinfo_test.go:55`).  `SourceVouchedFor` states, and the proof shows, exactly
  whom the code lets through.
* `sqlite_store.go:19`: with `synchronous = NORMAL` an acknowledged Save may be
  undone by a power loss, which is why the SQLite store implements only the
  looser contract; `V1_1_SQLITE_DESIGN.md:13` says the move from the JSON store
  keeps its durability.
* `audit.go:75`: a failing audit log does not stop the request (`Answer` in
  AuditLog follows `Fail` as it follows a written line); `ARCHITECTURE.md:78` says
  audit failures are fail-closed.
* `proxy.go:83`: the proxy uses the HTTP client's Transport and not the client,
  so its Timeout of 30 seconds never applies; `server.go:32` chooses WriteTimeout
  against it.
* `proxy.go:157`: a proxied request whose body could not be copied to the end
  leaves no `proxy_hit` and is not counted; `ARCHITECTURE.md:89` names proxy
  events.  It names readiness events too; `/readyz` writes none.
* `migration.go:52`: after a failure behind the transaction the command refuses
  to run again until the rows it wrote expire or the database is removed by hand;
  the tokens are in both places meanwhile, as `NoTokenLost` shows.
* `ARCHITECTURE.md:85` says the resulting store is validated before traffic is
  served; the migration does not read the database back.
* `service.go:203`: registration answers and keeps nothing, so `/authorize` checks a
  redirect_uri against the fixed list of hosts; `ARCHITECTURE.md:117` says it is
  validated against the registered client record.  `RegisteredUsable` shows that the
  two never disagree about a URI that was registered.
* `audit.go:64`: an entry that cannot be encoded, and every entry when no path is set,
  is dropped without a count; `ARCHITECTURE.md:78` says fail-closed.
* `proxy.go:38`: the response writer cannot be flushed, so events of a stream
  wait for a full buffer.
* `proxy.go:233`: a `tools/list` response in neither of the two supported forms is
  passed on as it is; `ToolsShownAreFiltered` speaks of the two forms, as
  `ARCHITECTURE.md:64` does.

## 7. Not modelled, and the plan

Done: AccessTokens, OAuthFlow, StoreContract, JsonStore, SqliteStore, AuditLog,
AppLifecycle, StorageMigration, AnonymousPolicy, RequestRules, HttpFront, with
the proofs of section 5.  Next:

1. The redaction of audit entries and `MapTokenError`, as operators, with what
   they let through proved.
2. HttpFront's `valid` as the map of AccessTokens: that a token admitted at `/mcp`
   is one the flow issued.

Left out for good: the metadata documents (formatting of constants), the binding
of settings other than lists by reflection (the bounds `Validate` enforces are
assumptions of the modules), metrics other than the three counters the properties
name, TLS set-up, logging, the buffers of `net/http`.
