# A TLA+ model of gof

gof is a Go toolkit for JSON-RPC services. A program built on it runs as one or
more processes ("nodes") that share a MySQL database and a Redis server. A node
serves JSON-RPC requests, keeps an in-process cache of single rows and of user
tokens (the nodes tell each other over a Redis channel what to forget), hands
work to a goroutine pool and an MQTT client, writes log files that rotate, and
is started, stopped and migrated by commands of its own. The model covers the
parts of it whose correctness depends on the order of steps of several
goroutines or processes, or on a failure in the middle, and the parts without
state where numbers, names or columns can go wrong at an edge.

## 1. Inventory

| part | state | operations | interacts with | hard behaviour | what makes it correct |
|---|---|---|---|---|---|
| value cache: `cacheMem`, `Locker`, the stores (`g2db/cache.go`, `g2db/atomic.go`, `g2cache/`) | the entries of one process; one mutex per key | `GetOrStore`, `Atomic`, `Delete`, `RedisSubDelCache` with its second run after 2 s, `RedisSubDelMemAll` | called by Token and Mysql; its handlers run in the subscriber goroutine | a loader between its read and its `Set` while an invalidation passes; unlocks on every path | an entry is wrong only as long as a deletion of it is to come; loads are single-flight; no mutex leaks |
| `redisObj` (`g2db/redis.go`) | clients per database; one subscription | `Pub`, `PubDelCache`, `PubDelMemAll`, `Subscribe`, `subAction` | Redis; runs the handlers of `cacheMem` | at-most-once delivery; handlers block the receiver | an invalidation that was not lost is carried out |
| `Token` (`g2db/token.go`) | a Redis hash of `TokenData`; a cache entry per account | `AfterLogin`, `Logout`, `Verify` (with expiry and refresh) | cacheMem, redisObj | two commands per change; a refresh from a cached copy | a login or logout reaches every node; a refresh prolongs the token that is there |
| `Mysql`, `Session`, `cacheBind` (`g2db/mysql.go`, `session.go`) | rows; open transactions; a cache entry per row and unique column | `CacheGet`, `CacheRestore`, `DelCache`, `TXCallback`, `Insert`, `Update`, `Delete` | cacheMem, redisObj, the pool of `database/sql` | publication before the commit; a read outside the transaction that writes; a connection held while a second is waited for | stale rows do not stay; no committed update is undone; every session is closed |
| schema (`g2db/mysql.go`, `functions.go`) | tables, compound indexes, initial rows | `TableRegister`, `Migrate`, `sync`, `execCreate`, `initializeTables` | MySQL, the `migrate` command | DDL commits; a failure leaves half a schema; two migrations at once | a migration that succeeds is complete, and one can always be repeated |
| `AbFile` (`g2util/auto_back_file.go`) | a buffer, a file, its backups, `closed` | `Write`, `flush`, `Close`, the ticker goroutine, rotation, deletion of old days | Graceful | close and flush in different goroutines; short writes; backup names | what was written is kept, in order, until it is old |
| `Graceful`, `TimeoutExecFunc` (`g2util/graceful.go`, `functions.go`), the wiring (`gof.go`) | servers, processors, a mutex | `RegHTTPServer`, `RegProcessor`, `WaitForSignal`, `shutdownAction` | every part registers a processor | signals at any moment; processors abandoned on a time-out; a file registered, and closed, twice | users are closed before what they use; the process ends |
| `GoPool` (`g2util/goroutine.go`) | the pool, a counter | `Go`, `AfterShutdown` | methods of the JSON-RPC server | a full pool blocks the caller; panics | submitted work ends |
| `Emq` (`g2emq/emq.go`) | a bounded queue, an MQTT client | `Dial`, `PublishC`, `Publish` | an MQTT broker | time-outs racing delivery; a full queue | a message is handed over once, or given up and reported |
| JSON-RPC server (`j2rpc/`) | registered services and middlewares; `run` | `Register`, `Handler`, `handle`, middlewares, `Stop` | gin, methods of the application | middlewares that answer or panic; methods that panic; a reused message | one answer per request; no method runs unguarded |
| `Config` (`g2util/config.go`) | viper, the configuration file, a temporary file | `Load`, `LoadFromTemp`, `WriteToTemp` | the file system, every command | several processes, no lock, a death between two file operations | an accepted change survives |
| command line (`g2cmd/`, `g2util/exec.go`) | the process table | `start -d`, `stop`, `restart`, `migrate`, `migrate -d` | Config, Graceful, the schema | check, then act; polling | one daemon runs; stop says so when it is gone |
| bean conversions (`g2util/map.go`, `merge_bean.go`) | none | `Bean2Map`, `CopyBean`, `MergeBeans`, `Merge2Bean` | `Session.Update` | int64 through float64; omitted columns | a copy equals its original; a merge takes each column from the right place |
| paging (`g2db/mysql_query_rows.go`) | none | `QueryRows` | MySQL | zero, negative and excessive parameters | the pages partition the rows |
| times (`g2util/time.go`) | none | `JSONTime` to and from JSON, text, driver values | beans | zero times, odd zone offsets | a time survives a round trip |
| gin front end, utilities (`g2gin/`, the rest of `g2util/`, `json/`) | routers | - | - | none of their own | - |

`PROJECT.json` lists the same parts as components, and under `hazards` the
places where this code can go wrong in ways a test would hardly reach, each
with the properties that watch it or the reason why none does.

## 2. Modules

    CoherentStore  <-- implemented by --  TokenAuth --+
                                                      +-- extend --> NodeCache
                                          RowCache  --+
    LogStore       <-- implemented by --  LogFile   <-- extended by -- Process
    RpcServer + Workers               = Service
    Settings + Schema                 extended by Commands
    Methods, Times, Paging, BeanCopy  sampled by Values
    MCTokenAuth, MCRowCache, MCProcess, MCService, MCCommands    instances for TLC
    NodeCache_proofs <-- TokenAuth_proofs, RowCache_proofs       theorems
    Recursion        <-- Commands_proofs, Values_proofs
    Process_proofs, Service_proofs

Definitions keep the names of the code where there is one. An operator whose
name ends in `_Something` and whose comment begins with "Mutant" is a changed
copy of the one after it, with which a property is seen to fail.

### NodeCache

The cache of every node and the channel between them. It declares the state
`cache[n][k]`, `lock[n][k]` (the mutex of a key), `up[n]`, `channel[n]` (what
Redis has delivered to node n and `subAction` has not taken), `handler[n]` (the
message being handled), `timers[n]` (the deletions armed by `time.AfterFunc`),
and one history variable, `missed`, which remembers that a fault kept an
invalidation from a node. It has no next-state relation of its own; TokenAuth
and RowCache extend it.

| definition | code |
|---|---|
| `CacheHit`, `CacheMiss`, `CacheStore`, `CacheGiveUp` | `GetOrStore`: under the key's mutex look up; on `ErrNotFound` call the loader (a step of its own, the mutex stays held), `Set`, unlock; or return its error |
| `Publish`, `PublishLost` | `Pub`: PUBLISH to all that are subscribed; or an error |
| `Receive` | `subAction` takes a message; `DelMemAll` resets the store at once |
| `HandlerDelete`, `HandlerLockedDelete`, `HandlerArm` | `_fnDel`: per key a deletion without the mutex and one with it, then `AfterFunc` |
| `TimerDelete`, `TimerLockedDelete` | the same run two seconds later, in a goroutine of its own |
| `LoseMessage`, `Evict`, `Crash`, `Restart` | faults |

A message names its publisher (`from`): a request publishes once, so this makes
the elements of `timers` distinct. The payload's keys are handled in any order,
a superset of the order in the slice.

### TokenAuth

Requests (one goroutine each) that log in, log out, verify, or clear the
caches, on any node for any account. One request is a program counter over the
commands it sends: `VerifyHit`/`VerifyMiss`, `VerifyLoad` (HGET), `VerifyStore`,
`VerifyCheck` (the comparisons of `cacheVerify`), `HSet`, `HDel`,
`PublishDelete`. `LoadFails`, `WriteFails` and `PublishFails` are the error
returns, `NodeCrash` and `NodeRestart` the process. A token is named after the
login that made it (`generateTd` encrypts with a fresh random IV, so texts do
not repeat); a verification presents any token a login has returned.

### CoherentStore

The abstract specification: a store, a view of it per node, and the pairs
(node, key) that are *owed* an invalidation. Writing owes one to every node; a
node fills an empty entry with the current value, or an older one only while
owed; a debt ends only together with the entry. Its invariant `Coherent` says that
a node that is owed nothing has the store's value or none. TokenAuth maps
`store` to the Redis hash, `view` to the caches, and `owed` to "a writer has yet
to publish, or the message is in the channel or being handled, or it was lost".

### RowCache

One table with an id and a unique name, its committed rows `db`, the writes of
open transactions `pending`, and requests that get, insert, update, rename,
delete, restore (`CacheRestore`) or clear. `Begin` takes a connection of the
pool (`MaxConns`), `GetHit`..`GetStore` is `cacheGet` (its query takes another
connection, as the code does), `InsertRow`, `UpdateRow`, `DeleteRow` are the SQL
statements of `Session`, `PublishDelete` is `DelCache` *before* `Commit`, and
`Rollback` the error return of any step: hooks, SQL, PUBLISH or commit.
What a row holds besides key and version is the set of requests whose edits
are in it, so "an update was lost" can be said. `edits` of the row an update
writes are those of the row it read plus its own, as `AllCols` writes all.
`NameFirst` chooses whether the name's condition may come first in
`cacheBind.Values` (conditions are sorted by length only). A caller's bean
carries a key and the columns it changes, not a version of its own.

MySQL is modelled from how it is used: reads on other connections see what is
committed; a write waits for transactions that wrote what it looks at, then
sees what they committed; names are unique; an id is never used twice; xorm
adds `AND version = v` to an UPDATE and increments it.

### LogStore, LogFile, Process

`LogStore` is the promise of a log file: a record is in memory or on disk from
the moment it is accepted until it is `SaveDays` old. `LogFile` is `AbFile` and
its `innerIO`; `Process` puts it into the life of a process.

| definition | code |
|---|---|
| `Open` | `newIO`: a path opened before, even closed, gives the same object |
| `Accepts`, `WriteBuffer` | `Write` looks at `closed` first and then, in a step of its own, appends under the mutex and flushes a full buffer |
| `Flushes`, `FlushFails`, `Copies`, `CopyFails` | `flush` and `fileCopyWithIndex`: the whole buffer or a part of it reaches the file; a file that is large enough is copied and truncated; either may fail halfway |
| `CountFile`, `WithCopy` | the copies of a day, by number: a copy is numbered with the count of those there are, and `os.Create` would overwrite one that has the number |
| `Doomed`, `RemoveAllBut` | `autoDelDir`: which directories are old, and what of their copies a failing `RemoveAll` leaves |
| `FlushTick`, `DelTick`, `RunEnds` | the cases of `run`'s select |
| `Boot`, `OpenAgain` | the order in which `gof.go` registers processors; `MustNewIO` of an open file registers it again |
| `SignalKills`, `Terminate`, `OtherSignal`, `SignalDropped`, `LoopAgain` | `StartSignal` with its unbuffered channel |
| `Launch`, `CallReturned`, `TimesOut`, `Exit` | the main goroutine in `shutdownAction` and `TimeoutExecFunc`: `list` holds what was registered, `left` the entries still to go through, `Turn` whose turn it is by class (`Rank`), `late` the calls it gave up waiting for. Each call, of a file too, has a time-out |
| `ServiceCall`, `FileCall` | the goroutine of one call, at `stage[i]` for entry i of `list`: `AfterShutdown` of a service, or `Write` then `Close` of a file |
| `RequestBegins`, `RequestLogs`, `RequestEnds` | requests of clients, which log |

A record is the number of the `Write` that brought it and has size one, so sizes
of buffer and file count records.

### RpcServer, Workers, Service

`RpcServer` takes each request through the stages of `Handler`: `Arrive`,
`Refuse` (`validateRequest`), `Handle` (decoding, version, id and lookup, in the
order of their checks), `Middleware`, `MiddlewaresDone`, `ParseArguments`,
`CallMethod`, `Respond`; `Stop` may come at any point. An input differs from a
good request in one respect (`Inputs`), so every check decides some input.
Middlewares and methods belong to the application: they choose their outcome,
panics included. `Workers` is `GoPool` (`Go` counts, `Submit` waits for a worker
or fails on a released pool, a panic skips the decrement) and `Emq` (`Enqueue`
and `EnqueueTimesOut` are `PublishC`; `Take`, `Answered` and `WaitTimesOut` the
worker and `Publish`). `Service` composes the two: a method submits a task
and waits in `GoPool.Go`, and the task publishes.

### Settings, Schema, Commands

`Settings` is `Config` between processes: a load reads the configuration file,
looks for `conf_temp.yml`, merges it, truncates and fills the configuration file
and removes the other, one file operation a step; `WriteToTemp` truncates and
fills. A process may die between any two of them (`Dies`), and leaves an empty
or a broken file if it was filling one. `Schema` is `Migrate` statement by
statement, and `TableRegister` as an operator over the calls. A migration ends
when all is done, or is `failed` by a statement that MySQL refuses because of
what is there or gone, or is `cut` off, at any step, by a lost connection or a
hook (`StatementFails`). `AfterSync` is a step of its own that may fail; what a
hook writes is the application's. `Commands` composes them: each command is a
process that loads the configuration first; `start` looks at the process table
and spawns a daemon, `stop` looks, kills and polls, `restart` does both,
`migrate` runs `Schema`. A daemon's end is abbreviated to the phases that decide
what SIGTERM does to it (it kills one that boots, is lost on one that is busy
with another signal, and stops one that serves); `Process` has them in detail.

### Methods, Times, Paging, BeanCopy, Values

Code without state, as operators. `Methods` is the registration and lookup of
methods (`suitableCallbacks`, `makeArgTypes`, `SnakeString`, `getCallBack`) and
the match of middlewares (`methodPathEqual`, `getMatchFunction`,
`AddBeforeMiddleware`), where a pattern is searched for anywhere in the path;
`Times` the conversions of `JSONTime`, in which no layout reads a year of five
digits (`Reads`) and `UnixNano` wraps at `NanoRange`; `Paging`
`QueryRows`; `BeanCopy` the conversions through JSON and maps, with a float of
`Mantissa` bits and integers of `Width`, and the bean that `Session.Update`
makes with them. `Values` draws samples of their inputs into the variable
`sample`, so TLC checks each definition on each sample as an invariant;
`MCService` starts either with a sample or with `Service`. What is checked of a
sample is an operator of its own (`TimeSurvives`, `PagesCover`, `CopyIsExact`,
`Merges`, `NameGuarded`, `MethodsReached`), which `Values_proofs` proves for
every input and not only for the samples. Recursion, as in the loop of
`SnakeString`, is written as recursive functions for that reason.

## 3. Runs

| run | instance | question, answer |
|---|---|---|
| `token_safety` | 2 nodes, 1 account, 3 requests, crashes, volatile store | in every interleaving a wrong value a loader is about to store is owed an invalidation, loads are single-flight, and the whole implements CoherentStore |
| `token_faults` | 1 node, 3 requests, multi-login account, store on disk, clock to 2, all faults | a wrong entry is owed an invalidation or its message was lost, with failing commands, losses, crashes and evictions; mutexes are held exactly by loaders |
| `token_live` | 1 node, 3 requests, no faults, fair | wrong entries are purged and every request ends |
| `token_refresh` (violation) | 1 node, 3 requests | a refresh writes back a cached copy over a later login |
| `rows_coherent` | 1 node, 2 ids, 2 names, 3 requests, lost messages | a stale row, in a cache or about to be stored, is always still to be deleted, though it is published before the commit |
| `rows_versions` | 2 ids, 2 names, 3 requests; inserts, renames, deletes by name, restores | with caches stale for good, optimistic locking loses no update; a version identifies a content |
| `rows_live` | 2 requests, 3 connections, fair | every transaction ends, stale rows are purged |
| `rows_pool` (violation) | 2 updates, 2 connections, fair | each transaction waits for a second connection for ever |
| `process` | 1 log file registered twice, buffer and file of 2 records, 3 writes, 2 days, 1 disk fault, 2 signals of any kind, 1 request; the HTTP server, MySQL and the file may be slow to close | users are closed before what they use, a channel is closed once unless a call of a file timed out, shutdown ends, and the log file implements LogStore, in order and without repetition if the disk did not fail |
| `process_exit` (violation) | the same without any fault or time-out | the process exits with a record still in the buffer |
| `service` | 2 requests (one of any input, one good), 1 middleware, 1 worker, a queue of 1; and all samples of Values | no method runs unguarded, every request gets one well-formed answer and ends, messages are neither lost nor repeated, the queue is emptied; names, patterns, times, pages, copies and merges are right on every sample |
| `boot` | 2 commands of any kind with or without a running daemon, 2 settings, 1 crash, 1 migration cut off, 2 tables registered with a repetition, 2 initial rows | a changed setting survives and is loaded, migrations complete and can be repeated, two daemons run only if their commands overlapped, `stop` ends, and only when what it killed is gone |

Every property of a passing run was seen to fail on a changed model (`mutants`
in `PROJECT.json`): when the second deletion is not armed, when the version is
not compared, when the locked deletion does not take the mutex, when the
temporary file is removed before its content is saved, when `stop` does not
wait, when the time-out on a full queue is missing, and so on.

### Why the bounds are enough

- Tokens: requests for different keys touch disjoint entries and mutexes and
  share only the subscriber, in which they wait for each other; a race needs a
  writer, a loader, and one more request that changes or reloads the key again.
  Two nodes separate "published" from "received here".
- Rows: one node, because nothing a node does with a message depends on
  another; two ids and names, because a row has two cache keys and an insert
  competes with a delete for a name.
- Log files: two records per buffer and per file reach a partial flush, a
  rotation with something left; three writes and the one of `AfterShutdown` reach
  a second backup of a day, which must not take the number of the first; two days
  and `SaveDays = 1` reach the deletion. Several files share only the order of
  shutdown; the request shows that files are closed after it, and one file
  registered twice is enough for two calls of `Close`. Midnight and disk faults
  come with one signal, and with time-outs of services or of the file but not of
  both (`MCProcess!Few`): what a file writes does not depend on who gave up
  waiting for whom. Fairness is that of `FairSpec`; a behaviour that `Few` keeps
  from a step that fairness demands is no fair one, so where several calls time
  out `ShutdownEnds` is asked on a day without disk faults.
- Service: two requests fill one worker, and a third message is not needed to
  have one in the worker's hands, one in the queue and a full queue in between.
  The second request is good (`Plain`), as the inputs of requests do not meet.
- Boot: two commands overlap in every way two processes can; one crash and one
  migration cut off reach every cut; with a daemon that runs already no
  migration is given (`KindsUp`), as daemons and migrations share no state.
- Samples: names up to three letters have every pattern of capitals, small
  letters and underscores around one boundary, and a pair of them has equal
  names, names of one snake name, one that goes on after the other, and
  unrelated ones; times reach from year 1 over the change of the offset into a
  year 10000 and several ranges of `UnixNano`; 13 rows with a limit of 12 and up
  to 15 pages pass each comparison on both sides; integers of 7 bits and floats
  of 3 keep the order of 64 and 53: exact, rounded, and rounded out of range.

### What the passing runs assume

Some of these are hypotheses of a property, some are values of a constant; TLC
refutes the property without them.

- `PromptCommit` (rows): a transaction ends before the second deletion of what
  it published, two seconds later. With `PromptCommit = FALSE` a stale row stays.
- `WriteKeys = Ids` in `rows_coherent`: writers find their row by its id. A
  delete by name can delete a row inserted since, and invalidates the one it
  read. That takes four requests, so the runs do not rely on the bound hiding it.
- no rename and no `CacheRestore` in `rows_coherent`: an update deletes the
  keys of the new values only (as the comment at `session.go:126` says), and
  `CacheRestore` writes without reading; either one leaves stale entries, and
  `rows_versions` shows what still holds then.
- `NameFirst = FALSE` in every passing run: rows are written by id. With it TRUE
  an UPDATE may find another row of the same name and version, after a delete
  and an insert of that name, and TLC refutes `NoLostUpdate`.
- `MaxConns` larger than the number of transactions in `rows_live`.
- `SettingsSurvive` and `LoadSeesLatest` exclude a load that overlaps a
  `WriteToTemp` or another load that merges (`raced`: it removes what it has not
  read) and a process that died while it wrote `conf_temp.yml` (`torn`). The
  files carry no lock and no marker of completeness.
- `MigratedIsComplete` and `MigratesAgain` are about a migration during which no
  other one ran (`contended`), each for itself: what earlier ones did, met or
  left, when they were cut off, does not matter. A migration that is cut off
  itself is neither complete nor refused. How many rows a table then holds is
  said only if no two migrations ever overlapped: `initializeTables` counts the
  rows and inserts in two statements, so two migrations at once insert the
  initial data twice, and one that runs alone later leaves it so.
- `LogInOrder` is about a disk that has not failed; after a short write records
  come twice. `ImplementsLog`, nothing is lost, holds in any case.
- `UsersCloseFirst` says what holds until a call timed out: `TimeoutExecFunc`
  goes on to the next processor while the function still runs.
- `ClosedOnce` excludes a time-out of a file's own `AfterShutdown`. `Close` looks
  at `closed` and sets it under two locks; when the first call for a file that
  was registered twice is given up after 30 seconds, the second runs beside it,
  both may find the file open, and the second close of the channel panics. The
  model has that run; TLC refutes the property without the exclusion.
- `NamedAreGuarded` says what exclusions do, and that is not that every named
  method but the excluded one is guarded: an exclusion in snake case is a regular
  expression without anchors (`middleware.go:51`), so excluding `a.get` also
  un-guards `a.get_all`. The comment at `middleware.go:10` allows regular
  expressions for the names, so this is no finding. `NamedAreGuarded` and
  `MethodsAreReached` are about namespaces made from a type's name: one that the
  application sets (`j2rpc.go:86-92`) is stored unformatted, while what a client
  sends is formatted.
- `TimesSurvive` names the times that do not: years from 10000 on come back as
  the zero time (`time.go:276-282`), times before standard time are later by the
  seconds of the offset, and one whose `UnixNano` wraps to that of the zero time,
  as a moment in 1754, is stored as NULL (`time.go:190`).

Every run says `CHECK_DEADLOCK FALSE`: requests, commands and signals are finitely
many, so every behaviour ends in a state without successors.

### Fairness

- Tokens and rows: weak fairness of each request, of each node's subscriber and
  of its timers: a Go scheduler runs every goroutine that can run, and calls on
  Redis and MySQL return. Taking a mutex is a step that is enabled while the
  mutex is free. Requests are finitely many, so in the end a mutex stays free
  and weak fairness is enough; no fairness of the mutex queue is assumed.
- Process: weak fairness of the main goroutine, and of the calls that are not
  in `Slow`. Requests, slow calls and the goroutines of log files owe nothing.
- Service: weak fairness of a request that has arrived and of the MQTT worker;
  strong fairness of a task that waits for a worker, since ants wakes waiting
  submitters when workers become free again and again. The broker owes nothing:
  time-outs are what makes the worker go on.
- Commands: weak fairness of commands and daemons that run and of a
  `WriteToTemp` that has begun; shutdown of a daemon ends, which `Process` shows.

Failures, crashes, losses, evictions, rollbacks, signals and the clock are under
no obligation. In the violation `rows_pool` the system is fair and stuck.

### Findings

`token_refresh`, `rows_pool` and `process_exit` show the code doing something
else than a comment of it says; `findings` in `PROJECT.json` quotes the lines.

## 4. Proofs

The theorems hold for all values of the constants under the named assumptions
of the modules, which say that

- markers such as `None`, `Miss` and `Null` differ from values, and keys are ids
  and names (`BusAssumption`, `TokenAssumption`, `RowAssumption`);
- bounds are numbers, sizes and capacities are positive, processes and tasks are
  finitely many (`LogAssumption`, `WorkersAssumption`, `SettingsAssumption`,
  `SchemaAssumption`);
- sets play the parts they are named for: files are not services, what is slow
  is a service, a file or the HTTP server (`ProcessAssumption`), a method
  submits one task (`ServiceAssumption`), commands and daemons are different
  processes (`CommandsAssumption`), guards are among the middlewares
  (`RpcAssumption`);
- a second has parts, the offset changes after the zero time and before year
  10000 (`TimesAssumption`); the limit of a page is positive
  (`PagingAssumption`), and integers are wider
  than the mantissa of a float (`BeanAssumption`).

| theorem | statement |
|---|---|
| `TokenAuth_proofs!TypeCorrect` | `Spec => []TypeOK` |
| `TokenAuth_proofs!Coherence` | `Spec => []CacheCoherent` |
| `TokenAuth_proofs!LoadsCoherent` | `Spec => []LoadCoherent` |
| `TokenAuth_proofs!LockDiscipline` | `Spec => []LockHeldByLoader` |
| `TokenAuth_proofs!OneLoader` | `Spec => []SingleFlight` |
| `TokenAuth_proofs!Refinement` | `Spec => ImplementsStore` |
| `TokenAuth_proofs!StoreIsCoherent` | `StoreSpec => []Coherent` of CoherentStore |
| `RowCache_proofs!RowsTyped` | `Spec => []RowTypeOK` |
| `RowCache_proofs!VersionsIdentify` | `~NameFirst` implies `Spec => []VersionIdentifies` |
| `RowCache_proofs!UpdatesStay` | `~NameFirst` implies `Spec => NoLostUpdate` |
| `RowCache_proofs!RowsStayCoherent` | `CoherentWriters` implies `Spec => []RowsCoherent` |
| `Process_proofs!ProcessTypeOK` | `Spec => []TypeOK` |
| `Process_proofs!ChannelsCloseOnce` | `Spec => []ClosedOnce` |
| `Process_proofs!UsersBeforeUsed` | `Spec => []UsersCloseFirst` |
| `Process_proofs!RecordsInOrder` | `Spec => []LogInOrder` |
| `Process_proofs!FilesImplementLog` | `Alike = {}` implies `Spec => ImplementsLog` |
| `Service_proofs!RequestsTyped` | `Spec => []RpcTypeOK` |
| `Service_proofs!ServiceTyped` | `Spec => []TypeOK` |
| `Service_proofs!MiddlewaresGuard` | `Spec => []CalledIfAllowed` |
| `Service_proofs!OneAnswer` | `Spec => []AnsweredOnce` |
| `Service_proofs!MessagesOnce` | `Spec => []MessagesAccounted` |
| `Commands_proofs!CommandsTyped` | `Spec => []TypeOK` |
| `Commands_proofs!ChangesSurvive` | `Spec => []SettingsSurvive` |
| `Commands_proofs!LoadsSeeChanges` | `Spec => LoadSeesLatest` |
| `Commands_proofs!OneDaemonRuns` | `Spec => []StartedOnce` |
| `Commands_proofs!StopWaits` | `Spec => []StoppedAreGone` |
| `Commands_proofs!MigrationsRepeat` | `Spec => []MigratesAgain` |
| `Commands_proofs!MigrationsComplete` | `Spec => MigratedIsComplete` |
| `Values_proofs!TimesAreKept` | `TimeSurvives` of any time since year 1 or nil and any row before, for any `StandardTime`, `EndOfYears`, `Parts` and `NanoRange`; `Sampled => TimesSurvive` |
| `Values_proofs!PagesPartition` | `PagesCover` for any number of rows and any page size; `Sampled => PagesCoverRows` |
| `Values_proofs!CopiesAreFloats` | `CopyIsExact` of any integer; `Sampled => CopiesAreExact` |
| `Values_proofs!UpdatesMerge` | `Merges` for any bean and row of exact numbers and any changes of named columns; `Sampled => UpdateMergesColumns` |
| `Values_proofs!GuardsFitNames` | `NameGuarded` for any namespace and any two exported names; `Sampled => NamedAreGuarded` |
| `Values_proofs!ReachedUnlessHidden` | `MethodsReached` for any namespace and any methods of different names; `Sampled => MethodsAreReached` |

**TokenAuth.** The inductive invariant `IInv` is the conjunction of

- `TypeOK`;
- `LockHeldByLoader`: a mutex is held exactly by the request that loads its
  key. Single flight follows, and so does that a locked deletion never falls
  between a loader's read and its store;
- `CacheCoherent` and `LoadCoherent`. Neither is inductive alone: what
  is stored is what was loaded, and the value a loader has read becomes wrong
  when a writer changes the hash, who then owes the invalidation;
- `MessageInv`: in a job being handled the key in hand is still to do, so the
  unlocked deletion (which a loader can follow with a stale store) does not end
  the debt. Only the locked one does, when no loader holds the key;
- `DownInv`: a node that is down has no messages, jobs, or running requests,
  so messages it cannot receive are accounted for;
- `LoadingMiss`: while a key is loaded it has no entry, so storing it is a
  `Fill` of the abstract store.

The refinement maps each step by its kind: `HSet`, `HDel` and their failing
forms are `Write`; `VerifyStore` is `Fill`; deletions, publication, receipt, loss,
crash and eviction are `Forget` (of some entries, or none); all others leave
the abstract state unchanged. `StoreIsCoherent` proves the invariant of
CoherentStore from its own specification: a `Fill` with an old value needs a
debt, and a debt goes only with the entry. So the coherence of entries follows
from the refinement too; `Coherence` is proved first because the refinement
rests on it.

**RowCache.** Types need `InHand`: at each place a request has the row the next
statement uses, and only a transaction that has not ended has written. The
invariant about versions, `VersionInv`, speaks of `Copies`, the rows in caches
and in the hands of requests that have not written yet:

- a copy is older than its row, or is its row, or its row is gone (`Old`);
- a transaction has deleted a row, inserted one of which there is no copy, or
  written the next version of the committed one, with all its edits
  (`WrittenOnce`). It rests on the version comparison of UPDATE: the copy it
  started from has the row's version, hence is the row;
- no two transactions have written the same row: a statement waits for those
  that wrote what it looks at (`WaitsForWriters`). So what a transaction wrote is
  still the next version when it commits.

Reads, stores, deletions and losses only move copies around (`ReadsKeep`), which
is why stale caches do no harm here. `NodeCache_proofs` has the lemmas about the
steps of a node's own goroutines: their types, and that they at most delete.

**RowCache, coherence.** `RowsCoherent` needs what the writers keep to
(`CoherentWriters`, the assumptions of `rows_coherent`: rows are written by id, a
transaction ends before the second deletion of what it published, nothing is
renamed or restored). The invariant `CInv` adds to the one about versions

- `BusInv` and `LoaderLocks`: nodes are subscribed, a handler's keys are those of
  its message, and who loads a key holds its mutex;
- `Places`: a request is only where its operation leads;
- `IdsMatch` and `NamesMatch`: a row found under an id has that id, and a copy
  has the name of its row. So the keys that a writer computes from a possibly
  stale copy are the keys under which the row is cached;
- `Invalidates`: what a transaction has written it publishes the keys of, and
  from there to its end *the second deletion* of them is to come at each node
  (`SecondToCome`), or the message was lost.

The first deletion proves nothing, as a loader that reads before the commit may
store after it. The second one does: it takes the mutex, so no loader is in
between, and by then the transaction has committed, so what is loaded from then
on is the new row. In TokenAuth, where publication follows the write, the locked
deletion of either round would do.

**LogFile, Process.** `PInv` has three parts. `CallsInv` describes the shutdown
by entry of the processor list: nothing has been called before `shutdownAction`
(`NotStarted`); a call begins when those of the classes before it have ended or
were given up (`InTurn`); only a call for a file goes through `Write` and
`Close` (`CallsFit`); what is closed was closed by the call for it
(`ClosedByCall`), which found it open (`ClosingOpen`) however many entries a
file has, until a call of a file is given up, from where on the channel may be
closed twice; when the HTTP server's call has ended no request is left
(`Drained`). `UsersCloseFirst` follows from `InTurn` and `ClosedByCall`.
`LogInv` says that no record in a directory is younger than its day, so what the
deletion of old days removes was old; `LogInOrder` is inductive with it. The
refinement then maps each step of a file: `WriteBuffer` accepts a record; a
flush, a copy or a failure moves records between memory and disk or repeats
them, and loses none; only `DelTick` drops some, and only old ones; `Midnight`
is the day's. A copy loses none because its number is new: the copies of a day
are numbered without a gap until the day is over (`Gapless`, `Numbered`), so
their count is a number that no copy has. `Alike = {}` says that no log file has
the name of another and digits, as in `gof.go` none has: `DelTick` of one would
take the directories of the other for its own.

**Service.** The invariant `Held` says what each stage of `Handler` has
established (no outcome before the method, no header before the middlewares, all
guards passed from the arguments on, an error excludes a result), and
`FitsRequest` what an answer then is. A step of one request leaves the others
alone, and the workers leave them all alone. `WInv`, about the workers, says that
`size` is the number of tasks that were counted and have not returned (one that
panics or is refused stays counted for ever, as in the code), and
where each message is (`MessagesPlaced`): in the queue or at the broker, each at
most once, never in both, unless it was given up and reported.

**Commands.** Three invariants, as files, process table and database meet only
in the commands.

- `SetInv`: unless a load raced or a process died in `WriteToTemp`, the latest
  change is in `conf_temp.yml` as long as there is one and else in the
  configuration file. In the first case one process at most loads; it has the
  change in memory while it truncates and fills the configuration file, and
  removes the other only when that one has it (`FilesInv`). So a death at any
  point leaves the change in one of the two.
- `TableInv`: a command that is about to spawn has seen no daemon running, and
  the daemons of the commands that had ended when it began do not come back, as
  a command spawns only once and then ends (`OldAreGone`, `SpawnsLast`); what a
  command kills was started (`KillsStarted`), so once gone it stays gone.
- `SchemaInv`: a migration that no other one met knows what the tables before
  the one it is at have (`Progress`), whatever earlier migrations left, and so
  that MySQL refuses none of its statements; if none
  ever overlapped, a table has none or all of its initial rows, or the one
  migration is inserting them (`RowsFit`).

`registered`, the tables after each call of `TableRegister`, is a recursive
function; that it gives sequences of names (`TablesAreNames`) is proved with
`Recursion`.

**Values, Recursion.** The library's theorems on induction and recursion take an
operator as a parameter, which no installed prover instantiates. `Recursion`
states them about sets and functions instead: a set of naturals has a least
element, so one that has 0 and with each number the next has all; and for a
first value and a function that gives a step for each number there is a function
that starts and goes on by them. With these

- `Snake` is the function its definition describes, a name formatted twice is
  formatted once (`formatName` runs at both ends), and the snake form of a path
  is that of its parts with the dot between, as the loop starts anew at a dot. A
  pattern that names a method therefore matches it in both spellings. An
  exclusion in Go's spelling keeps a capital, which no known path has, so it
  matches by equality of the snake forms; one in snake case is found in each path
  that begins with it, and, in another path that is no longer, nowhere. Which of
  the two it is decides whether the method is guarded (`ExclusionsDecide`);
- of the methods of one snake name the one with the largest index stays, hence
  a method is reached unless a later one hides it;
- powers of two grow and divide, so a number has one exponent in `ToFloat`, which
  is 0 or 1 for those of `Exact`: these are kept by the round trip. Of the others
  the theorem says that the copy has the float's number, or is an error when
  that is out of range;
- pages are intervals of the rows, cut at multiples of the size; the number of
  pages the answer tells is the one that reaches the last row.

`Merges` takes each column through the two maps of `Update`, and
`TimeSurvives` is arithmetic on seconds and offsets; a time is the zero time's
`UnixNano` exactly if it is a whole number of ranges after it (`NanosWrap`).

Only model-checked:

- liveness: `StaleIsPurged` and `RequestsEnd` of tokens, `SessionsClose` and
  `StaleRowIsPurged` of rows, `ShutdownEnds`, `RequestsEnd` and `WorkEnds` of
  the service, `StopEnds`. Fairness speaks of ENABLED, which the provers cannot
  expand;
- the violations, which are counterexamples.

## 5. What is left out

- Redis, MySQL, InnoDB's locks, xorm, `database/sql`, net/http, ants, the MQTT
  client, the kernel and the disk are external and modelled from how the code
  uses them. Redis itself does not crash.
- `Dial` subscribes before the node serves (`gof.go`, `Run`), so a node that is
  up is subscribed. In `subAction` a nil message ends the subscriber for good;
  the model covers it as messages lost from then on.
- ristretto applies `Set` asynchronously and may drop it; the model's stores
  apply it at once. Read errors of a store other than "not found", the registry
  of Redis clients, and retries by go-redis.
- RowCache has no crash: a node that starts between publication and commit can
  load the old row after the message it never received. `queryAfter`, chosen
  columns (`Cols`), compound indexes as cache keys and caller-supplied versions.
- `WatchConfig` and the search for the configuration file; start in the
  foreground, systemd files, commands that only print.
- A loader that panics under `Atomic` (`cache.go:133`), which would leave the
  mutex locked: in the model a load returns or fails.
- What the `AfterSync` hooks of an application write into its tables.
- The decoding of arguments by type and results that JSON refuses; a middleware
  that writes the header twice by itself. `Subscribe` of MQTT, the client's
  reconnection, and `Publish` called directly by the application.
- A registration during shutdown waits for Graceful's mutex until the process
  is gone, so it has no action. `Schema` and `RowCache` are not composed: rows
  do not change under the caches by a migration.
- The SQL text of conditions, ranges and orders in `QueryRows`; layouts of times
  other than RFC3339 and the calendar helpers; parsing of numbers (`GetInt`).
- Routes and middlewares of gin, the dependency injection, the level logger, and
  the stateless wrappers of `g2util` and `json`: no state, no order of steps.

## 6. Plan

Every safety property that a passing run checks, those on samples included, is
now a theorem. What is left:

1. `RowsStayCoherent` with writers that find rows by name, for programs that
   never delete and insert the same name at once.
2. A node crash in RowCache, with the window between publication and commit.
