# MITMRouter: specifications, model checking and proofs

MITMRouter is a forward proxy that gives each client identity its own upstream
exit. This directory models the parts of it that have state shared by several
actors, checks them on small instances with TLC, and proves the most important
properties for every value of the constants with TLAPS.

## 1. Inventory

| Component | State | Operations | Talks to | Hard behaviour |
|---|---|---|---|---|
| Account store `internal/store/acctmap.go`, `acctegress.go` | tables `acct_map`, `acct_egress`, `upstreams`, `sync_sources.empty_streak` | snapshots and deltas of sources, pushes, deletions, token clears, bindings, upstreams | API, synchroniser | a read outside the transaction that uses it; keys that change; orphans; counters over several calls |
| Live tables `internal/acctmap`, `internal/acctegress`, `syncer.go`, `api/acct*.go` | registry, binding table, upstream table in memory | commit, then reload and swap | store, request path | reloads that overtake each other; reloads that fail; the upstream reload has no lock |
| Dynamic salts `internal/marker/salts.go`, `server/ingress.go` | LRU of salt and failure count, queue, table `marker_salts` | route, fail, succeed, store, restore | request path, store, `main` | eviction, full queue, concurrent failures, exit and crash between rotation and write |
| Request routing `server/ingress.go` | none of its own: reads settings, registry, bindings, upstreams, salts | CONNECT, MITM, blind tunnel, forward | all live tables | snapshots taken at different times; fallbacks |
| Upstream administration `api/api.go` | `upstreams`, setting `default_upstream` | create, update, delete, choose default, settings, salt reset | store, settings holder, upstream table | check-then-write handlers, lost updates |
| Account synchroniser `syncer.go`, `direct.go` | runtimes, source locks, cursors | full sync, incremental sync, reconfigure, delete, wake | external services, store, registry | configuration against work in flight, lock order, waiting for a runtime to stop |
| Direct readers `cpa_direct.go`, `sub2api_direct.go` | pending files; no position in the database, only a window of 30 seconds | watch, debounce, poll | synchroniser | bounded table and channel, changes while a file waits or is read, reads that fail and are not repeated; rounds that come too late for the window |
| Event queues `store.go`, `updates.go`, `server/ingress.go` | bounded channels, batch buffers | send or drop, batch, flush, drain | requests, synchroniser, `main` | full channels, failed transactions, order of shutdown |
| Process `cmd/mitmrouter/main.go` | contexts, done channels, tunnel count | restore, serve, shut down | everything | a signal cancels the writers before requests end; deadlines; connections nobody counts |
| Admin sessions, settings, CA, certificate reload | rows, holder, caches | login, save, sign, reload | store | two writes without a transaction; check-then-act |
| Identity, marker, hashing, templates, ACL | none | pure functions | request path | none that a state model helps with |
| Store bootstrap, audit queries, observability, web console, tools, benchmark | - | - | - | out of scope |

What makes each component correct:

* **Store**: rows and bindings have unique keys; a binding belongs to an account
  that exists and its exit keeps its platform; one mode per account; an empty
  answer clears nothing until it is repeated (or comes after a clearing, section
  5); a deleted source stays deleted; a push keeps the half of a credential it does
  not carry.
* **Live tables**: the copies become current, never go back, and the bindings
  are never behind the registry outside the lock.
* **Salts**: a salt changes only for a run of failures; a restart gives back the
  stored salt.
* **Event queues and process**: rows keep the order of their events; what was
  buffered when the signal came is written; `main` leaves after the requests and
  tunnels it can see; every stop ends.
* **Routing**: a bound account leaves through one of its exits or not at all; no
  failure turns into a direct connection unless the settings ask for it.
* **Administration**: the default upstream exists and is enabled; memory equals
  the rows once nobody writes.
* **Synchroniser**: nothing from an old configuration is committed after the new
  one; a source has at most one reader; every operation terminates.
* **Direct readers**: every change is read in the end unless it was lost in a way
  the code knows of; older contents never win.

`PROJECT.json` lists the hazards with their lines and the properties that cover
them.

## 2. Modules

| Module | Contents |
|---|---|
| `AcctStore` | the account store, one action per transaction |
| `BindingLife` | abstract: accounts that exist and accounts that are bound |
| `MCAcctStore` | instance for TLC |
| `AcctStore_proofs` | theorems about `AcctStore` |
| `LiveTables` | copies in memory, jobs that commit, read and swap |
| `LiveTables_proofs` | theorems about `LiveTables` |
| `MarkerSalts` | salts of identities from failure to table and back |
| `MCMarkerSalts` | instance for TLC |
| `MarkerSalts_proofs` | theorems about `MarkerSalts` |
| `DirectSync` | the synchroniser: scheduler, source locks, direct readers, administrators |
| `SourceRegister` | abstract: a source as a register of configurations |
| `DirectSync_proofs` | theorems about `DirectSync` |
| `DirWatch` | the reader of an authentication directory, beside full synchronisations |
| `MCDirWatch` | instance for TLC |
| `DirWatch_proofs` | theorems about `DirWatch` |
| `DbWindow` | the reader of a database, beside full synchronisations |
| `DbWindow_proofs` | theorems about `DbWindow` |
| `Shutdown` | requests, tunnels, event queues, their writers and the end of `main` |
| `MCShutdown` | instance for TLC |
| `Shutdown_proofs` | theorems about `Shutdown` |
| `Exits` | exits, names, settings and their copies in memory, shared by the next two |
| `ExitAdmin` | administrators that change exits, the default, settings and bindings |
| `MCExitAdmin` | instance for TLC |
| `Routing` | requests from the ACL to the connection |
| `MCRouting` | instance for TLC |
| `Gateway` | requests of `Routing` and administrators of `ExitAdmin` over the same copies |
| `Gateway_proofs` | theorems about `ExitAdmin`, `Routing` and `Gateway` |

An operator whose name ends in `_Wrong` is a plausible mistake in the operator
after it. No specification uses it; it shows that a property notices the
mistake.

### AcctStore

The write pool of SQLite has one connection (`store.go:173`), so a write
transaction is one step. `ClearAcctMapFp` reads on the other pool and writes
later (`acctmap.go:273-340`), so it is `ClearRead` and `ClearCommit`, and
anything may happen between them. `acct_map` is a set of rows, which can hold
two rows of one key, so that `KeysUnique` says something: the code would fail on
the constraint. Rows written by one owner at the same millisecond have no order
(`updated_at`), so `Merged` may choose any non-empty value. `WriteMap` is the
pair of a write to `acct_map` and `gcAcctEgress` in the same transaction.
Deleting an upstream deletes its bindings. The handlers of bindings check their
exits before the transaction, so the model lets them write any exit that was
ever created.

`deferred` and `cleared` are histories of the protection against empty
snapshots: how many in a row found rows and left them, and whether one has
cleared since. The stored streak mixes the two, since a clearing leaves it at the
threshold. Failed fetches do not reach this code and change nothing.

Abstracted: credential hints, times, names, URL templates, secrets. A source has
one kind, and `Threshold` does not change. Left out: `ReplaceSourceSnapshot` and
`DeleteSourceRows`, which only tests call, and transactions that fail.

### LiveTables

The contents of a table is the number of the transaction that last changed it;
the contents of a copy is the number of transactions committed when it was read.
A job is a request of the admin API or one write of a synchronisation: `Commit`,
then for each copy `Read` and `Swap`. Registry and bindings are reloaded under
`mapChangeMu` (`Lock`), the upstreams are not. `ReadFails` is the error return
of each reload. `Restart` is a crash or an exit at any moment followed by
`main`'s restore; the registry may come up empty (`main.go:169`), while binding
errors are fatal.

### MarkerSalts

`recent`, `salt` and `failures` are the LRU cache, `saltCh` the queue, `stored`
and `order` the table. `Route` reads the salt of an identity (which refreshes
it), `Fail` is `RecordFailure` up to the send, `Send` the non-blocking send,
`Succeed` is `ClearFailures`. A request that has no identity or no exit touches
no salt and is not in the model. The writer handles one event at a time, may
fail, and leaves at cancellation once the queue is empty or after its deadline.
`Signal` cancels its context while requests run, `Exit` is the end of `main`'s
sequence, which requests and tunnels may outlive, and `Crash` any other end.
`Start` restores, `StartClean` is a failed restore, after which nothing is
persisted. What `main` waits for before `Exit` is in `Shutdown`.

`excused` is the history of identities whose table row may lag behind: their
event was dropped or refused or cut off by the deadline, two of their events
were under way at once, or the cache forgot them.

Abstracted: the threshold is constant; an identity is its key; which errors
speak against an exit (`upstreamUnusable`) is a free choice.

### DirectSync

`at[w]` is where a goroutine is: an administrator's request, the scheduler
(`Manager.Run`) or a direct reader (`directRuntime.run`). `reconcileMu` is the
mutex of that name; `runtimes` and `reader` are the registered readers and the
configurations they were started with. `lock[w]` is the source lock that `w`
holds or waits for. `DeleteSource` removes the lock from `Manager.locks`, so a
lock is a source with the number of its incarnation: whoever fetched the old one
still waits for the old one.

| Code | Actions |
|---|---|
| `createSource`, `ReconcileSource` | `Create`, `Enter`, `List`, `Stop`, `Stopped`, `GoStart`, `Start`/`Skip`, `Reconciled` |
| `updateSource`, `UpdateSourceConfig` | `Ask`, `Enter`, `Stop`, `Stopped`, `GoLock`, `TakeLock`, `Commit`/`CommitFails`, `List`, ... |
| `deleteSource`, `DeleteSource` | `Ask`, `Enter`, `Stop`, `Stopped`, `GoLock`, `TakeLock`, `DeleteRow`/`DeleteFails` |
| `TestDirectSource` | `AskTest`, `TakeLock`, `TestDone` |
| `Run`, `tickAll`, `syncOne` | `Run`, `Enter`, ..., `TickAll`, `SyncDue`, `Woken`, `TakeLock`, `Fetch`, `Snapshot`/`SyncFails`, `Tick`, `Exit` |
| `directRuntime.run` | `Wakeup`, `Read`, `Check`, `Apply`, `RoundEnds`, `Quit` |

Abstracted: the contents of a snapshot or delta is the version of the
configuration it was read with. A configuration has a version and a path: the
directory of a CPA source, or the *key* of the DSN of a Sub2API source, which
stays the same when the DSN changes, so that `runtimeMatches` cannot tell the
two apart. A disabled source has no path. Sections under `lifecycleMu` are one
step. `finishMapChange` is left to `LiveTables`: whoever holds `mapChangeMu`
takes none of these locks. The unlock of `DeleteSource` and the removal of the
lock are one step; only workers that find no row can come in between. Rows
survive a restart and `Init` allows any rows, so a crash would only lead back to
`Init`. Ids of sources are never reused (`AUTOINCREMENT`).

While `Check` (`sourceStillDirect`) is in the model, the proof does not need it:
readers are stopped before the row changes, so a reader that holds the lock
always finds the row it was started with.

### DirWatch

`DirectSync` only knows that a reader wakes up (`Wakeup`). For a directory this
is where that comes from: `loop`, `pending` and `events` are
`CPADirectReader.run`, its table and what fsnotify has not delivered;
`changes` is the channel of paths; `reader` is `directRuntime.run`; `sync` is a
full synchronisation of the same source.

| Code | Actions |
|---|---|
| whoever writes the files | `BeginWrite`, `EndWrite`, `Replace`, `Unlink`, `MakeDir` |
| `run`, `handleEvent`, `queuePending` | `HandleFile`, `HandleDir`, `QueuePending`, `Emit`, `EndLoop` |
| `restartWatcher` | `WatcherFails`, `Rewatch` |
| `runDirectCPAFile`, `readFile` | `Take`, `Stat`, `Parse`/`ReadFails`, `Apply`/`ApplyFails` |
| `directRuntime.stop`, `Close` | `Cancel`, `Close`, `Closed` |
| `syncOne` | `SyncFetch`, `SyncStores`/`SyncFails` |

A file is the number of its last modification (`stamp`) and of its last complete
contents (`whole`), which differ while it is written in place. The table is a
set, from which a full table gives up any file (the code: the oldest). How long a
file has to be quiet is not modelled, so `Emit` may come at any time, also in the
middle of a write. Every modification is taken to change the size or the time
that `Lstat` reports. That the service answers with the last complete contents
of the directory is an assumption about an external program
(`DESIGN.md:1040-1049`, `docs/012`), which the order of contents in
`NeverBackwards` relies on.

`missed` is the history of files with a change that nobody will hear of: those
that were there when the reader started, in a directory that is not watched yet,
lost with a watcher, given up by a full table, or read or applied with an error.
The code repairs these with the next full synchronisation, and so does
`SyncStores`. `NothingForgotten` says that there are no others.

### DbWindow

The same place in `DirectSync`, for a database. The reader remembers no
position: each round asks for what changed within the last 30 seconds
(`sub2api_direct.go:26`), every 3 seconds.

| Code | Actions |
|---|---|
| the external service, on its database | `Refresh`, `Remove` |
| time | `Tick` |
| `directRuntime.run`, source lock | `Wake`, `Lock` |
| `runDirectIncremental`, `ReadChanged` | `QueryIds`, `QueryRows`, `Apply`, `RoundFails` |
| `Manager.syncOne` | `SyncBegins`, `SyncAnswered`, `SyncStores`, `SyncEnds` |

Time is counted in ticks, and a goroutine that can take its next local step takes
it before the next tick; queries and requests take as long as they like. A
change may be up to `Lag` old when its transaction commits. `lost` is the history of
what the window had to pay for a change: ticks in which no round could start,
and an interval for every round that failed. `Slack` is what it can afford,
`Window - Lag - Interval`. `known` is the last change the account store
reflects, removals included.

Abstracted: credentials are the number of the change that wrote them. That the
service answers with the current contents of its database is an assumption
about an external program.

### ExitAdmin

`rows`, `bindings` and `stored` are the tables, `settings`, `table` and `bound`
their copies in memory. `job[a]` is where a handler of `api.go` is and what it
has read. A handler checks against what it has read and writes later; nothing
makes two handlers take turns.

| Code | Actions |
|---|---|
| `createUpstream` | `CreateUpstream`, then the rebuild |
| `updateUpstream` | `ReadForUpdate`, `CheckUpdate`, `WriteUpdate`, with a rename of the default also `Current`, `SetSettings`, then the rebuild |
| `deleteUpstream` | `ReadForDelete`, `CheckDelete`, `DeleteUpstream`, the rebuild, `ReloadBindings` |
| `setDefault` | `ReadForDefault`, `WriteDefault`, `Current`, `SetSettings`, the rebuild |
| `putSettings` | `CheckSettings`, `SaveSettings`, `LoadSettings`/`LoadFails`, `SetSettings`, the rebuild |
| `resetSalt` | `ReadForReset`, `SaveReset`, `SetReset` |
| `putAcctEgress`, `deleteAcctEgress` | `CheckBinding`, `WriteBinding`, `ReloadBindings` |
| `rebuildTable`, `reloadAcctEgress` | `ListUpstreams`/`ListFails`, `SwapUpstreams`; `ReloadBindings`/`ReloadFails` |
| any error before the commit | `Refuse` |
| exit, crash, `main`'s restore | `Restart` |

Abstracted: of the settings only what routing reads; the ACL is its verdict on
the hosts of the model; URL, platform and salt have no values (that a bound exit
keeps its platform is `BoundPlatformFrozen` of `AcctStore`). The bindings written
per exit or cleared in bulk are in `AcctStore`. `ReloadBindings` reads and swaps
in one step because it holds `mapChangeMu`. `behind` records the copies whose
last reload failed, which the code only logs or answers with 500.

### Routing

`req[q]` is a connection to the ingress port with at most one request under way.
`Connect` is `handleConnect`; its tunnel carries decrypted requests
(`Forward`, then back to "mitm") or bytes of another protocol (`BlindTunnel`,
only before the first decrypted request). `resolveOutboundDetailed` is
`ResolveBlocked`, `ResolveLocal` and `ResolvePublic`, `ReadBinding` and
`PickBound` (`selectBoundEgress`), and `PickDefault`, with one step for every
moment at which it reads something that may have been swapped. The connection is
`Dial`, `Reuse` or `DialFails`.

The settings, the upstream table and the bindings change to *anything* at any
moment. That is more than `ExitAdmin` allows, for which reason the theorems
about routing do not depend on what administrators do. A DNS server answers as it
likes at every lookup; one answer that was checked (`pin`, `checked`)
holds for the same host. Which of several exits a bound account gets (rendezvous
hashing or random) is a free choice. Finding an identity, which never changes
the state, is the choice of `who`.

`may[q]` is the history the promises are stated with: what the settings and
bindings in force while `q` was under way allow. They cannot be stated about the
present alone, since what a request has read is replaced under its feet.

`Reuse` is an idle connection of the transport, kept for up to 90 seconds: it
was opened for an earlier request under its settings, so a private address can
stay in use that long after private targets are blocked. `PublicOnly` is about
connections that are opened.

### Gateway

The process as `main` puts it together: the ingress listener serves requests
(`ServeRequest`), the admin listener serves handlers (`Administer`), and both use
one holder, one upstream table and one binding table. `Exits` declares these
three as `memory`; `ExitAdmin` writes them, `Routing` reads them, and
`administration` is what only administrators touch. A restart (`Reboot`) restores
the copies and ends all requests.

`ExitAdmin` and `Routing` each have an `Init`, a `Next` and a `Spec` of their own
(`AdminSpec`, `RoutingSpec`), and `Spec` of `Gateway` is not their conjunction: the
arbitrary changes of `Routing` are gone. Two properties need both halves.
`NewToRequests`: a request that has read an old binding or table is never led into an
exit that was created later. `DefaultFound`: between two changes, a request that is
left to the default exit of the settings in force finds it.

### Shutdown

| Code | Actions |
|---|---|
| the two `http.Server`s, `handleConnect` | `Begin`, `Hijack`, `Count`, `Finish` |
| `forward`, `recordBlockedTarget`, `SendUpdateEvent`, the send of a rotation | `Send` |
| `RunLogWriter`, `RunUpdateEventWriter`, `RunMarkerSaltWriter` | `Receive`, `Tick`, `Notice`, `Emptied`, `CutOff` |
| `main`, from the signal on | `Signal`, `StopServing`, `IngressClosed`, `AdminClosed`, `TunnelsWaited`, `Exit` |
| `Manager.Run` | `ManagerEnds` |
| `fatal` after a listener failed, a second signal | `Kill` |

An event is the number of its send. A channel of Go is first in, first out, so a
queue is the set of numbers in it and its head is the smallest. `Flush` is one
transaction: the whole batch or, when it fails, nothing. The writer of salts is
a writer with batches of one. After the signal a writer drains: it returns when it
finds its channel empty (`Emptied`) or when its deadline comes first, at any
moment (`CutOff`); only the events of `CutOff` count as abandoned. `Shutdown` of a
listener may return at any time, as may `WaitTunnels`, because of their deadlines; `late` records that one of
them gave up. `uncounted` are the connections that `handleConnect` has taken
over and not yet counted: neither the server nor `WaitTunnels` sees them.

Left out: `ClearLogs`, `ClearUpdateEvents` and the retention, which delete rows
and have no part in the queues.

## 3. Runs

| Run | Instance | Shows |
|---|---|---|
| `store` | 1 account, 1 pull source, 1 push type, 2 credentials, 1 exit, 2 platforms, threshold 2, 1 token clear in flight | unique keys, pushes merge, no synchronisation of a deleted source, platforms of bound exits are frozen, bindings live exactly as long as the account, empty snapshots are deferred before one clears or follow an earlier clearing, `BindingLife` is implemented |
| `store_modes` | 2 exits, 2 modes | **violated**: `ReplaceEgressAccounts` gives an account two modes (`store.go:120` promises one) |
| `store_deleted` | 1 token clear in flight | **violated**: a token clear brings a row of a deleted source back (`acctmap.go:609`) |
| `live` | 2 jobs, 3 transactions | copies become current and never go backwards, with failing reloads and restarts; every change shows in the end |
| `salts` | 2 identities (4 and 2 failures), 2 requests, cache of 1, queue of 2, threshold 2, 2 starts | salts are paid for, rotations are earned, restarts keep what is stored |
| `direct` | 1 source, 1 administrator, scheduler, 2 readers, 1 path, 2 versions | one worker inside the lock of a source, one reader per source, readers current when nobody reconciles, none after `Run`, `SourceRegister` is implemented, requests and the shutdown end |
| `dir_watch` | 2 files, one of them in a new directory, table and channel of 1 | nothing changed is forgotten, older contents never win, the accounts catch up, a stop ends |
| `db_window` | 2 accounts with 2 changes, window 4, interval 2, lag 1 | a change is still in the window or in hand unless locks and failures cost too much, older contents never win, the accounts catch up |
| `exit_admin` | 1 administrator, 2 exits, 2 names, 1 account, 1 failed reload at a time | the stored default can always be used; copies end up equal to the tables; the id of a deleted exit is never given again to those who may still mean the old one |
| `routing` | 1 connection, 2 exits, 2 names, 1 account, a private address and a name | no failure becomes a direct connection; bound accounts stay on their exits; private addresses stay closed; the ACL is asked |
| `shutdown` | 1 connection, the synchroniser, 2 logs with channels of 1, batches of 2 and 1 | rows keep the order of events, what was buffered is written, `main` waits for what it can see, every event reaches its transaction, a stop ends |
| `shutdown_lost` | 1 log | **violated**: `main.go:289` promises to drain the log after the tunnels (see section 5) |

The type invariants are theorems (section 4) and not repeated in the runs.
`Gateway` has no run: its halves have one each, and its two properties are
theorems. They were explored with TLC while the proofs were written (two exits,
one name, one account, one administrator, one request).

**Bounds.** `MaxStreak` stops empty snapshots that find rows one above the
threshold, which lets one clear, a delta bring an account back and another one
clear again; `MaxWrites` stops the transactions, `MaxFailures` and `MaxStarts` the
failures and starts, `MaxConfigs` and `MaxStamp` the versions, `MaxSent` the events
of a log. They are large enough for what can go wrong: the store has two rows that
can collide, an account that loses one of two rows, and a deletion between both
halves of a clear; two jobs are enough for every overtaking and three
transactions let one of them come back; four failures at threshold two are two
rotations of one identity, whose events can be sent in either order and restored
once; with one cache entry every second identity evicts. The run `store` uses the
symmetry of credentials and checks no liveness. It has one account: what
two accounts could do to each other is covered by the proofs, which hold for any
number, and the two violated runs have snapshots of two rows. In `salts` the
queue has two places so that two events of one identity can wait in it, and it
fills with the third. In `direct` the source locks and readers of different
sources share only `reconcileMu` and the scheduler, so the interesting
interleavings are on one source. An administrator and the scheduler are two that
reconcile, one of whom waits for a lock that the other removes; safety with more
administrators is proved. Two versions are an old and a new configuration; two
readers are enough to start a second one while the first is being stopped; the
wake channel of one entry fills.

In `dir_watch` the table and the channel have one place, so that both fill with
two files. One of them has up to two stamps: it appears by a write in place (one
at the beginning, one at the end) or is replaced once while an older version of
it waits, is read, or is in the hands of a synchronisation. The nested file
changes once, before or after its directory is watched.

In `db_window` the proportions of 30 and 3 seconds are cut down to a window that
spares one tick (`Slack` is 1): one blocked tick is survived, two are not, and a
failed round alone exceeds it. The bound is tight: with `Slack + 1` in
its place TLC finds `WindowSuffices` violated. Two changes per account are a
refresh while an older one is being read.

In `shutdown` a channel of one place fills; the audit log has a batch that
the ticker has to finish and one that is full, the other log has batches of one
like the writer of salts; one connection can be any kind of work in any
phase, and the promises about connections are about each one by itself. The
proofs cover larger numbers.

`exit_admin` has one administrator because the promises about the default and the
copies are about one at a time: two of them can rename and delete around each
other, as the comments on the properties say. `FreshIds` is promised for any
number, and proved for it. `MaxBehind` is the number of copies behind at once; two exits
are a default and another one, which is what renames, deletions and choices
need. Requests share nothing but the tables that change anyway, so one is
enough in `routing`. Two exits and two names give a binding two candidates, or
one, or none, and a default that is neither; the three kinds of settings differ
in policy, private targets and ACL. Names, and in `routing` exits, are
symmetric; neither run checks liveness.

**Fairness.** `LiveTables`: a goroutine that can run does (weak fairness of
reads and swaps), and Go's mutex hands itself to waiters that starve (strong
fairness of `Lock`). Commits and restarts are never forced. `Shutdown`: the
writers' loops, `main`'s sequence and the end of the synchroniser take their
steps, since waits have deadlines, inserts have timeouts and `select` chooses at
random among ready cases. Requests are not obliged to end, and no signal is
obliged to come, so `StopEnds` also holds when a request hangs for ever, which
is what `main`'s deadlines are for. `MarkerSalts`, `AcctStore`, `ExitAdmin` and
`Routing` state no fairness and no liveness.

`DirectSync`: every goroutine that can run does, with strong fairness, because
`sync.Mutex` hands itself to waiters that starve and `select` chooses at random
among ready cases; a fetch, a test and a round of a reader end because they have
timeouts and finitely many accounts. Nobody is obliged to send requests, to wake
a reader or to stop the process. `RequestsEnd` relies on a reader listening to
its own cancellation while the stopper holds `reconcileMu`, and on the lock
order `reconcileMu`, then source lock.

`DirWatch`: the loop, the reader and the synchronisation take their steps; `Emit`,
`Stat` and `Close` need strong fairness, for the channel that others fill, the
lock that a synchronisation takes, and a `select` that chooses at random. A
directory that disappeared comes back (`Rewatch`), and the fetch of a
synchronisation has a timeout. No one is obliged to change a file, to stop the
reader or to synchronise.

`DbWindow`: time passes, a round takes its steps once it has the lock, a waiter that
starves gets the mutex (strong fairness of `Lock`), and a full synchronisation
ends at its timeout at the latest. No account is obliged to change.

**Deadlock.** TLC checks it in `store`, `live`, `dir_watch`, `db_window`,
`exit_admin` and `routing`. The other systems may stop. In `salts` failures and
starts are bounded and the process may stay down. In `direct` the source may be
deleted and `Run` have returned; that it does not stop before is what
`RequestsEnd` and `RunEnds` say. In `shutdown` the process ends, which is what
`StopEnds` asks of it.

## 4. Proofs

All proofs are checked by TLAPS with SMT, Zenon and the temporal backend, for
arbitrary constants that satisfy the named assumptions of the modules.

* **AcctStore.** `TypeOK` is inductive. That every binding has an account
  (`BindingsHaveAccounts`) follows from
  `WriteMap`; `BindingsFollowAccounts` and the refinement of `BindingLife` are
  step properties over it. `StreakJustified` strengthens the guard of empty
  snapshots: unless a clearing has left it there, the stored streak never exceeds
  the snapshots deferred in a row, so the one that reaches the threshold comes
  after `Threshold - 1` of them. `KeysUnique` is not inductive: the
  rows a token clear has read may be stale, so `KeysInv` adds that the hits of a
  clear have unique keys among themselves; the lemma `ClearedUnique` does the
  case analysis of the rewrite. `BoundPlatformFrozen` needs that bound exits
  were issued. `SyncRespectsDeletion` and `PushKeepsOtherCredential` are step
  properties over the type invariant and the keys.
* **LiveTables.** The invariant says who may have read a guarded table (the
  holder of the lock), that what it read is not older than any guarded copy, and
  that every change is shown, marked stale, or still on somebody's list.
  `GuardedCurrent`, `BindingsFollowRegistry` and `NeverBackwards` follow.
* **MarkerSalts.** `PaidFor` is not inductive: an event leaves the cache before
  it is in the queue, so the invariant also pays for unsent events, and a
  restart needs that counts are zero while no process runs. `RotationEarned`
  needs that the cache never counts more failures than there were since a
  success (`Counted`). The type invariant speaks of the recency list, which has no
  identity twice: `FrontFacts` and `NewestFacts` say what moving to the front and
  cutting off do to such a list. `RestartKeepsSalt` is about an empty queue
  only; its invariant `Keeping` says where the last rotation of an identity has
  got to (`Found`): a request that still has to send it, else the last event of the
  identity in the queue, else the row.

* **DirectSync.** The invariant `IInv` has one part per question: `Roles` (who may
  be where with which job), `MuHeld` (whoever reconciles holds `reconcileMu`),
  `Locks` (a source that was never deleted has its first lock; whoever waits has
  an existing or an older incarnation; a lock has one holder), `Registered` (a
  live reader is registered, or somebody is waiting for its end), `Plans` (what
  was listed stays true while the plan is carried out, since rows of a source
  change only under `reconcileMu`), `Fresh` (a live reader, and a scheduler that
  has fetched, have the stored configuration) and `Ended`. `OneInside` needs
  `Locks` because two incarnations can be held at once, of a deleted source
  only. `OneReader` needs `Registered`: two live readers of one source would
  need two processes waiting, but both hold `reconcileMu`. `Fresh` makes every
  step of the mapping a `Write` of the current version in `SourceRegister`.
  That nobody waits in a circle (`NoCircularWait`, the safety part of
  `RequestsEnd`) needs the converse of `MuHeld`: whoever holds `reconcileMu` is on
  the way to releasing it (`MuReleased`), so it cannot be one who waits for it
  itself. Every wait then goes down from `reconcileMu` over the end of a reader to
  the lock of a source (`Descends`), which whoever is inside holds while waiting for
  nobody. `Told` adds that an awaited reader has been cancelled.

* **DirWatch.** `NothingForgotten` is not inductive: a synchronisation that fetched
  before a change stores older contents after it. `Tracked` therefore also
  counts what a synchronisation is about to store. `Resting` says that an idle
  reader has no file, `Locked` that reader and synchronisation exclude each
  other. For `NeverBackwards`, `ReaderAhead` and `SyncAhead` say that whoever
  holds the lock has read nothing older than what is applied, and `Past` that
  versions in flight are not newer than the contents of the file, unless the
  file was removed. `Carried` is the lemma for all steps that touch neither
  files nor accounts.
* **Shutdown.** For one log the invariant says that events keep their order on the
  way (`InOrder`: what is inserted is older than what is in the buffer, and that
  is older than the channel), that no event is nowhere (`Accounted`), and what
  a writer that left has left behind (`Drained`). `LogStep` treats a step of one
  log for all logs. `SeenOff` says for each phase of `main` which connections
  are gone if no deadline passed; `ExitWaits` is its last line.
* **DbWindow.** `OrderInv` says that what the store knows is never newer than what a
  round or a synchronisation holds, and that never newer than the database: both
  hold the source lock (`Mutex`). `NeverBackwards` follows. `WindowSuffices` is
  about time and not inductive: that a change is young enough now says nothing of
  the next round. `TimeInv` therefore ties the age of a change to the ticker
  (`Due`): while the reader is idle, age and remaining ticks together stay within
  `Lag`, one `Interval` and what is counted in `lost`; a round that waits for the
  lock has at most that age; and a round that has asked holds every change that was
  not new when it asked. The three sums are below `Window` exactly because of
  `Slack`. The proof needs `Lag + Interval <= Window` and nothing else of the
  numbers, so it covers the 30 and 3 seconds of the code.
* **ExitAdmin.** Types and unique names hold for any number of administrators
  (`TypeInv`; that an id is never issued twice is its part `Issued`). `FreshIds`
  is inductive with the types: `FreshHandle` says that an unused id stays unused,
  and unknown to every handler, until the counter passes it. The invariant
  `Steady` says what a single handler has read remains true until it is used
  (`StillTrue`), and where each copy may differ from its table
  (`SettingsAgree`, `TableAgrees`, `BindingsAgree`). `DefaultUsable` is not
  inductive: the guards compare with the settings in memory, so one needs to know
  that they equal the row at that moment. The lemma `StillUsable` says that the
  default survives a change of other rows.
* **Routing.** `Good` says of every place what a request that is there has
  checked, and that whatever it carries (settings, checked answers, exits) is
  included in its history `may`. `Promised` says the same of a connection. The
  tables are arbitrary, so nothing is assumed of administrators.
* **Gateway.** Two lemmas take the composition apart. `AdminSide`: to administrators
  a request is a step that changes nothing of theirs, so `Gateway` implements
  `AdminSpec` (`Administers`) and inherits its promises. `RequestSide`: to requests an
  administrator is one of the changes that `Routing` allows, once the types of
  the administration are known to hold after the step; so the two invariants
  together are inductive (`GatewayInvariant`). `NewToRequests` takes `FreshIds`
  of the administration and `Choosing` of requests (what a request knows of exits
  comes from the copies). `DefaultFound` follows from what `Steady` says of an
  idle handler: settings and table in memory are the stored ones, in which the
  default is usable.

Every invariant and every action property of the runs that pass is a theorem, and so
are the refinements. Model-checked only are the liveness properties, since fairness is
out of the prover's reach: `ChangesShow`, `RequestsEnd`, `RunEnds`, `CatchesUp` and
`StopEnds` of `DirWatch`, `CatchesUp` of `DbWindow`, `EveryEventWritten` and `StopEnds`
of `Shutdown`. For `RequestsEnd` and `RunEnds` the theorems `Released` and `WaitingEnds`
exclude, for any number of goroutines, the deadlocks that could break them.

## 5. Where code and documentation disagree

Each item has a run that TLC finds violated, and a finding in `PROJECT.json`.

1. `ReplaceEgressAccounts` keeps modes of one exit only: an account bound to two
   exits can be sticky at one and random at the other (`store_modes`).
2. A token clear commits rows read before its source was deleted
   (`store_deleted`).
3. The writers of the audit log, of updates and of salts leave as soon as the
   signal has come and their channel is empty, before the requests and tunnels
   that still send to them; `main.go:289` and `ingress.go:1485` promise the other
   order (`shutdown_lost`).

Two remarks without a run of their own:

`docs/011:122-123` says that the count of empty snapshots is back at 0 after a
clearing, because no rows are left, and that an account which appears again gets
the full protection ("计数回到 0——账号若再出现、之后又闪断，会重新获得完整的保护期").
The code keeps the count (`acctegress.go:277-286`, as its comment and
`DESIGN.md:1004` say), and only an answer with accounts, or an empty
one that finds no rows, resets it. A reader that adds the account again in between
(`ApplyAccountDelta`) does not, and the next single empty answer removes the
account with its bindings. With a threshold of two: a snapshot with an account,
one empty answer (deferred), a second (cleared), a delta that brings the account
back, a third empty answer (cleared at once). `EmptySnapshotGuarded` states what
the code does; without its disjunct `cleared[s]` it is the promise of `docs/011`,
and TLC finds these steps in the instance of `store`.

`docs/012:196` says that the round after a full
synchronisation picks up what was refreshed meanwhile. `WindowSuffices` shows for
how long: a synchronisation that holds the source lock longer than the window has
to spare (about 27 seconds) loses a refresh that its own answer does not have
until the next full synchronisation.

## 6. Plan

Done: `AcctStore`, `LiveTables`, `MarkerSalts`, `DirectSync`, `ExitAdmin`,
`Routing`, `Gateway`, `DirWatch`, `DbWindow` and `Shutdown` with their proofs. Left, in
order:

1. Two administrators in `ExitAdmin`: which promises besides `FreshIds` survive, and
   which guards of the handlers they need. Two overlapping `rebuildTable`
   (`api.go:891`) belong here.
2. More refinements: a copy that follows an original, implemented by `LiveTables`,
   `DirWatch` and `DbWindow`.
3. Certificate reload and the cache of leaf certificates; admin sessions, whose
   two writes are not one transaction.

## 7. Not modelled

* Store bootstrap and schema: sequential code before anything else runs.
* Audit queries and observability: they only read, or count.
* Certificate authority, identity extraction, upstream templates, access list:
  data rather than control. `Routing` takes their results as inputs.
* Certificate reload and admin sessions: small, with one hazard each
  (`tlsreload.go:68`, `api.go:447`); see the plan.
* Web console, tools and benchmark: a front end and test doubles.
* Inside modelled components: `ReplaceSourceSnapshot` and `DeleteSourceRows`
  (only tests call them), validation of settings, parsing of credentials, and the
  retention of logs.
