# A TLA+ model of HydrogenHTTPD

HydrogenHTTPD is an HTTP/HTTPS server in C++17 on Boost.Asio. One or more io
threads accept connections and hand each to a bounded pool of worker threads;
a worker reads one request, answers it with blocking calls and closes the
connection. Around this path stand a static file cache, a rate limiter, a
token store that is reloaded while the server runs, an access log with its
own writer thread, a rotated audit log, streamed uploads and a FastCGI client.

This directory models those parts from their source, checks each on small
instances with TLC, and proves with TLAPS every invariant that the runs check
for any number of threads, requests, files and clients. Paths below are
relative to the repository; sources without a directory are in `src/`.

    tlc -workers 2 -config ThreadPool.cfg MCThreadPool     # one run
    tlapm ThreadPoolProofs.tla                             # the proofs of one part

`PROJECT.json` lists the runs, the source lines behind every definition, a
mutant of the model for every property, the findings and the hazards.

## 1. The system and its parts

| Component | State | Operations | Interacts with | What is hard |
|---|---|---|---|---|
| **ThreadPool** (`ThreadPool.cpp`) | queue, `stopping_`, `active_`, `completed_`, `rejected_` | `enqueue`, `workerLoop`, `shutdown`, destructor | called by the accept handlers, destroyed with the Server | condition variable, notify after unlock, shutdown while tasks wait |
| **Connections and lifecycle** (`Server.cpp`, `Server.hpp`, `Application.cpp`) | sockets, accept chains, the Server's members | `acceptPlain`, `acceptTls`, `handlePlainClient`, `handleTlsClient`, stop by signal, destruction | everything | accept chains must not break; any step may throw; members die while requests run |
| **Request handling and uploads** (`Server.cpp`, `Multipart.cpp`) | spool and upload directories | `handleClientStream`, `makeResponse`, `saveUploadsFromSpoolFile` | token store, audit log, cache, PHP | directories shared by handlers, names made from a clock, ends on every path, limits |
| **AuthRuntimeStore** (`AuthRuntimeStore.cpp`) | tokens in force, file time last seen, generation | constructor, `refresh`, `authorize` | the secrets file, edited by an operator | check, then read, of a file that changes; failed reloads |
| **StaticFileCache** (`StaticFileCache.cpp`) | sharded entries, byte and entry counters | `get`, `evictIfNeeded` | worker threads, the document root | seven steps, two critical sections, files that change in between |
| **Logger: access log** (`Logger.cpp`) | queue, file, counters | `access`, `accessWriterLoop`, `flushAccess`, destructor | worker threads | two mutexes, batches outside both, shutdown |
| **Logger: audit log** (`Logger.cpp`) | log and backups | `audit`, `rotateAuditIfNeeded` | endpoints, token store | kills and failures between renames |
| **RateLimiter** (`RateLimiter.cpp`) | buckets in shards | `allow`, `cleanupShard` | worker threads | clock read outside the mutex, cleanup |
| **Auth** (`Auth.cpp`) | none | `parseTokenRule`, `loadSecretsFile`, `authorize` | AuthRuntimeStore | expiry, scopes, which of two rules with one secret decides |
| **HTTP parser** (`StrictHttp.cpp`, `parseHeadersOnly`, `parseHeaderContentLength`) | none | `parse` | request handling | three parsers for one header |
| **FastCgiClient** (`FastCgiClient.cpp`) | one socket per request | `execute`, `handlePhpScript` | PHP | a record stream each way over a bounded connection, ends anywhere |
| **Path resolution** (`Security.cpp`) | none | `resolveSafePath`, `isForbiddenFile` | request handling | links, `..`, hidden names |
| **Htaccess** (`Htaccess.cpp`) | none | `evaluate` | request handling | which file decides; edits in between |
| **Configuration** (`Config.cpp`) | constant after the start | load, validate | all | checked in three places that must agree |
| **Program, Windows service** (`main.cpp`, `Application.cpp`, `WindowsService.cpp`) | `g_io`, `g_status` | check, start, stop | lifecycle, an operator, the service manager | a stop at any moment, two threads without a lock |
| Logger: error log | a file | `error` | most components | one append under a mutex |
| SqliteModule | a handle | open | nothing on a request's path | none |

What makes each of those in bold correct is stated as the properties of
section 3; the others are not modelled (section 6).

How they meet: an accept handler (io thread) calls `ThreadPool::enqueue`; the
worker's task asks the RateLimiter, runs `handleClientStream`, which asks the
AuthRuntimeStore for the protected endpoints, the StaticFileCache for a file or
FastCgiClient for a script once the path is resolved and the `.htaccess` files
are read, and then calls `Logger::access` and closes the
socket. A signal stops the io_context; `runHydrogenHttpd` joins the io threads
and destroys the Server, and with it the members in the reverse order of their
declaration in `Server.hpp`.

## 2. The modules

Each module is one component, with an action for each step that another actor
can observe: a critical section of one mutex, one atomic update, one call of
the file system. Local computation between two such steps belongs to the step
before it. Actions carry the names of the functions they model. Constants
named `Max...` without a counterpart in the code bound a run and are marked so
in the module. Definitions called a "mutant" are used by no
specification: they are the errors each property is shown to detect.

| Module | Models | Composition |
|---|---|---|
| `BoundedExecutor` | what the pool promises: a bounded FIFO, tasks accepted or refused on the spot, closing drains | abstract specification |
| `ThreadPool` | `ThreadPool.cpp` | implements `BoundedExecutor` (`ImplementsExecutor`) |
| `ConnectionLifecycle` | accept chains, both client handlers, stop and destruction | contains a `BoundedExecutor` whose tasks are connections |
| `HttpFraming` | what a header says of its body, for each of the three parsers | operators, used by `RequestHandling` |
| `DocumentTree` | paths, hidden files, `.htaccess` | operators, used by `RequestHandling` |
| `RequestHandling` | one request in the hands of a worker | extends both; the token decision (`AuthRuntimeStore`), the cached file (`StaticFileCache`) and PHP's status (`FastCgi`) are inputs |
| `FastCgi` | one request handed to PHP | |
| `Auth` | rules of tokens and the decision | operators, used by `AuthRuntimeStore` |
| `AuthRuntimeStore` | the token store, its decisions and the audit of its reloads | extends `Auth` |
| `Program` | `--check-config`, console program, Windows service, the checks of `Config.cpp` | the server in between is `ConnectionLifecycle` |
| `StaticFileCache` | `get()` with everything it calls | |
| `AccessLog` | the access log, both modes | |
| `AuditLog` | the audit log and its rotation | |
| `RateLimiter` | `allow()` | |
| `MC<Module>` | small sets for TLC, symmetry | |
| `<Module>Proofs` | the theorems of section 4 | one each for `ThreadPool`, `RequestHandling`, `AuthRuntimeStore`, `StaticFileCache`, `RateLimiter`, `Program`; `ConnectionProofs` extends `ConnectionLifecycle` and `FastCgi`, `LoggerProofs` extends `AccessLog` and `AuditLog` |

**ThreadPool.** `tasks`, `stopping`, `active`, `completed`, `rejected` are the
members. A worker's `wpc` passes through `check` (the predicate of `cv_.wait`
under the mutex), `asleep`, `popped`, `running`, `ran`, `uncounted` (the atomic updates of
`workerLoop`), and `exited`. A producer that pushed is at `notify` until its
`notify_one`, which wakes any sleeper or nobody. Sleepers may wake spuriously.

**ConnectionLifecycle.** A connection's `stage` goes from the listen backlog
through the queue of the pool and the steps of the handler to `ended`, its
`lines` collect what was logged about it. `DestroyMember` destroys the members
in `DestroyedInOrder`; the destruction of the pool is `Close` and
`Closed` of the executor. A request that reaches into a destroyed member may
pass or kill the process. `AcceptFails` is an accept whose client is gone; one
that fails because no descriptor is left is tried again at once, changes
nothing in the model, and is assumed to succeed in the end.

**RequestHandling.** A request is a record of what the control flow asks of
its text: first line, header lines, target, how much of the body is sent, parts
and how the body ends. `spool` and `uploads` are the two
directories; their names are readings of a microsecond clock, so that two
handlers may get the same one. Writes may fall short unnoticed, as no write is
checked. `Serve` is `completeRequestInMemory` and `makeResponse` up to the
`.htaccess` files; `LookForRules` and `ReadRules` are the two steps of `evaluate`
for each of them, between which the file may be edited or removed; `Find` is
the rest. `htaccess` keeps the versions of these files, the last of which is in
force. A file is stored line by line: `StoredSize` is what is left of a part
without the CR of its line ends, and what the limits are compared with.

**HttpFraming.** A header is a sequence of lines of a few kinds.
`HeaderStatus` is the verdict of `parseHeadersOnly` and, with `strict`, of
`StrictHttpParser::parse`, in the order of their checks; `LengthToRead` is
`parseHeaderContentLength`, which compares numbers where the others compare
texts; `StrictStatus` adds the strict parser's look at the body.

**DocumentTree.** A path is a sequence of names. `Walk` is the kernel's way along
it, which `exists` and `is_directory` take: it follows links and ends at a name
that is missing. `Canonical` is `weakly_canonical`: the `Place` of the longest part that
exists, and behind it the names as they are written, `..` taken by the names
alone. `Resolve`, `Forbidden`, `RuleDirs` and `AfterDir` are `resolveSafePath`,
`isForbiddenFile` and the two loops of `evaluate`, and make paths canonical where
the code does. Documents and links do not change while requests run; `.htaccess`
files do.

**FastCgi.** `Wire` is the request as `execute` builds it; `Send` puts one
record of it on the connection, which holds so many in each direction, and
`Receive`, `ReceiveEnd` and `ReceiveTimeout` are the ways a round of the read
loop may go. PHP is external: it reads, writes, finishes and stops as it likes
within the protocol. `Split` and `StatusOf` are `parseCgiResponse`.

**Auth, AuthRuntimeStore.** `Arrive` reads the clock, as `authorizeEndpoint`
does before it asks the store; `refresh()` is `RefreshBegin`, `RefreshExists`,
`RefreshStat`, `RefreshLoad` under `mutex`, with the operator's `Replace` and
`Remove` between any two; each of the three calls may also fail for a file that
is there (`RefreshExistsThrows`, `RefreshStatFails`, `RefreshOpenFails`); `Decide` is the second critical section of
`authorize()`; `Audit` comes after both. The constructor is `BootLoad` and
`BootStat`. A file is a sequence of rules. Files are assumed to be replaced
atomically, as `scripts/manage_auth_tokens.py` does, and every replacement to
change the write time.

**Program.** `pc` is where `runHydrogenHttpd` or `serviceMain` is, `handler`
where the control handler is, which runs in another thread. Storing a status
in `g_status` and reporting it are separate steps where the two can meet, and
so are the test and the use of `g_io`. A configuration is the settings other
components rely on.

**StaticFileCache.** `get()` is `Lookup`, `StatSize`, `StatModified`,
`Revalidate`, `Read`, `Insert`; the file may change between any two. A body is
the first bytes of a version of the file; an in-place rewrite, which `get()`
cannot detect, is excluded.

**AccessLog.** A line is the number `accessCounter_` gave it. `WriterTake` and
`WriterWrite` are the two critical sections of the writer, `FlushTake`,
`FlushWrite`, `FlushSync` those of `flushAccess`, which the destructor runs
too. A write may fail and leaves the stream bad for good.

**AuditLog.** One file-system call of `rotateAuditIfNeeded` per action; `Kill`
may come between any two, and `Restart` opens the log again. Every call may fail:
the size may be unreadable, a file not be removed or renamed, the log not be
opened, a line not be written, after which the stream is bad until the next
rotation. A log that is not there has `LogSize` 0, and a line over the limit
rotates even so. A line that cannot be written leaves nothing in the file; the
fragment that a full disk may leave is abstracted.

**RateLimiter.** `ReadClock` and `Update` are separate, as the clock is read
before the shard's mutex is taken.

## 3. The runs

Every passing run explores its instance exhaustively, in about three minutes or
less.
Their invariants are also proved for every size (section 4); the runs show that the instances reach the cases the properties are about,
and a mutant for each property shows that it can fail.

| Run | Instance and bounds | Why it is enough |
|---|---|---|
| `ThreadPool` | 2 workers, 2 producers, 3 tasks, queue of 2 | two workers compete for one notification while a third task waits or is refused |
| `ConnectionLifecycle` | 3 connections (2 HTTP, 1 HTTPS), 2 workers, queue of 1, rate limiter on | a full queue on one port while the other accepts, and a stop with connections at every stage |
| `RequestHandling` | 2 handlers, clock of 2 microseconds, 242 scenarios (requests, 3 configurations, `.htaccess` files), 2 edits of a `.htaccess`, disk and network failures, opens that fail | names may collide or not; uploads have up to 3 parts with a limit of 2, files of 1 to 3 bytes, up to one of them a CR, with a limit of 2; paths go through links, behind names that are missing too; headers repeat or empty the length in every way the parsers tell apart; a tree three levels deep with rules on each and a depth limit of 2 |
| `AuthReload` | 2 threads, 4 contents of the file (2 valid, of which 1 has an expiring rule before another with the same secret, 1 that repeats an inline name, 1 malformed) or none, 6 requests, 2 edits, interval 0 or 1, clock up to 2, 1 failing call (any of the three) | an edit in each gap of a refresh and a second one after it, another thread in between, a rule that expires meanwhile |
| `StaticCache` | 2 threads, 2 files in one of 2 shards, sizes 2, 5 and 9 with a shard of 4 bytes and files up to 8, entry limit 2 or 4, 1 edit of each file, interval 1, clock up to 1 | two small files fit together or exceed the entry limit, a middle one does not fit its shard, a large one is not cached |
| `AccessLog` | 2 callers, 1 flusher, destructor, queue of 1, every second call sampled, 7 calls, 1 flush, both modes, failing writes | four lines through a queue of one: queue, writer's batch, flusher's batch and file are all in use |
| `AuditLog` | 6 lines of size 1 to 3, limit 2, 3 backups, 2 kills, 1 failure of any call | each line may rotate, or fit behind another one, and a line of 3 rotates a log that is missing; the oldest backup is given up, and a kill meets every step of a rotation and of the one after it |
| `RateLimiterWindow` | 2 threads, 2 clients, limit 2, window 4, lag up to 2, cleanup every second call, 5 calls, clock up to 10 | two windows and a cleanup that finds buckets in use and idle |
| `FastCgi` | bodies of 0, 1, 3 and 15 bytes in chunks of 3 (length field modulo 4), 8 outputs of 1 to 4 records, a connection of 5 records up and 2 down | a body of none, part of one, one and five chunks; request and answer each fit the connection or exceed it |
| `Program` | 25 configurations, 4 secrets files or none, 1 edit, 2 stops, failing ports and threads | each modelled check of `load()` refuses one configuration and passes another; a stop in every gap and a second one after it |

`CHECK_DEADLOCK FALSE` is set where the bounded number of calls is the end of
the run: `RateLimiterWindow` and `AuditLog` stop when all calls have been made.
The other modules stop only in final states, which stutter explicitly; in
`FastCgi` a worker and a PHP that wait for each other are no deadlock of the
model, as PHP may still stop (`ExchangeEnds` is about them).

What they show:

- **ThreadPool**: `FifoExactlyOnce` (accepted tasks start in order, each once),
  `CountersAddUp`, `WorkConserving` (no lost wakeup), `ShutdownDrains`; under
  fairness `AcceptedTaskRuns`, `ShutdownReturns` and `ImplementsExecutor`.
- **ConnectionLifecycle**: `LoggedOnce` (one line per connection, whichever
  step fails), `MembersOutliveRequests` (all members but the cache),
  `BacklogServed` (no outcome breaks an accept chain), `AcceptedIsClosed`,
  `StopEnds`.
- **RequestHandling**: `SpoolRemoved`, `AnswerNamesWholeFiles`, `LimitsHold`,
  `AuditTrail`, `ScriptGetsWholeBody` (the three parsers disagree on lengths,
  but never so that a script runs on a part of a body), `OnlyPublicFiles`
  (what is served lies in its root and is not hidden, wherever links lead, and
  is not sensitive unless a link behind a missing name led to it),
  `RulesDecide` (the nearest `.htaccess` decides, each as it was at some moment
  while the request looked, in the order of the look; with one edit in this
  time, all as they were at one moment; one that could not be read although it
  was there counts as one that grants).
  `AnswerNamesWholeFiles` counts bytes: what a 200 names has all of its part but
  the CR of its line ends. It exempts shared names and short writes.
- **AuthReload**: `RevocationTakesEffect`, `GenerationsAudited`,
  `EveryDecisionHasAVersion` (a decision is the one some whole version of the
  file gives, although clock, refresh and decision are three steps).
- **StaticCache**: `CurrentTagMeansCurrentBytes` (no response mixes the tag of
  one version with the bytes of another), `FreshWhenQuiet`, `AccountingExact`.
- **AccessLog**: `EveryLineAccountedFor`, `LogInAcceptanceOrder`,
  `DestructorFlushes`, `AcceptedLineReachesDisk`.
- **AuditLog**: `RetainedInOrder` (what is kept are the last lines, in order,
  none twice, and without a gap if no call failed), `RotatesWhenDue`: not too late
  (`SizeBounded`), with all backups in use before a line is given up
  (`BackupsKept`), and not too early (`NotEarly`: no file had room for the line
  that starts the next one, but for a kill between a rotation and its line).
  It has a mutant for each direction, and says nothing once a call has failed.
- **RateLimiterWindow**: `BurstBounded`, `RefusedOnlyOverLimit`.
- **FastCgi**: `ScriptReadsRequest` (the script is given the request, whole and
  no more), `AnswerIsPhps`, `FailsForAReason`; under fairness `ExchangeEnds`.
- **Program**: `CheckedConfigStarts` (a token name in both stores aside),
  `StopReported` (of one stop of a service that did not fail); under fairness
  `StopHeard` (of stops from the publication of the io_context on).

Most modules also state a type invariant `TypeOK`, which no run repeats: it is
proved for `ThreadPool`, `ConnectionLifecycle`, `AuthRuntimeStore`,
`RateLimiter` and, as a part of `LogInv` and `AuditInv`, for the two logs. The
other proofs state the types they need in their invariants.

### Fairness

Fairness is used in five runs. A worker, the log's writer and any thread inside a
call of a component keep running: the waits they meet are mutexes held over a
bounded number of steps, timed waits, or a condition variable, which the model
treats by itself. Nobody has to call `enqueue`, `shutdown`, `access` or to
connect. In `ConnectionLifecycle` a handler that runs goes on, which assumes
that no client stalls for ever: `SO_RCVTIMEO` is set on the socket, but what
it does beneath a synchronous Boost.Asio read is not in this repository, and
writes have no limit. `FastCgi` assumes that the worker's thread
runs and that PHP does what it can do next, and neither that PHP stops nor that
a read times out: `ExchangeEnds` therefore does not rest on
`php_fastcgi_read_timeout_seconds`. `Program` assumes that both of its threads run and
that the server can be destroyed, which is `StopEnds` of
`ConnectionLifecycle`.

### Where the code and what is said of it differ

Two runs end in a violation, each of one statement:

| Run | Statement | What happens |
|---|---|---|
| `ConnectionGracefulStop` | `RELEASE_NOTES_v1_9_0.md:37`: signals stop the server gracefully | `staticCache_` is declared after `workers_` and dies before the pool has drained; a request under way uses a destroyed cache |
| `AuthReloadStartupRace` | `docs/auth-hot-reload.md:52`: a removed token is rejected by the next request | the constructor reads the file before its write time; a replacement in between is never loaded |

Met while modelling, without a run of their own:

- `tests/test_logger.cpp:24-26` expects an accepted line in the file when
  `flushAccess()` returns; the writer may still hold it in its batch
  (`Logger.cpp:117`).
- `docs/post-body-handling.md:62-83` says that `max_body_bytes` limits a body;
  `Server.cpp:732` holds header and body together to `max_request_bytes`, by
  default a sixty-fourth of it.
- `RELEASE_NOTES_v1_9_0.md:36` and `packaging/linux/hydrogenhttpd.service:12`
  rely on `--check-config`; it accepts a token name used both in the
  configuration and in the secrets file, which the token store then refuses.
- A stop that comes after the service reported RUNNING and before
  `runHydrogenHttpd` publishes its io_context is lost
  (`WindowsService.cpp:53-56`).
- `php_fastcgi_connect_timeout_seconds` is stored and never used, and the read
  timeout is set on the socket (`FastCgiClient.cpp:152`) beneath synchronous
  Boost.Asio reads, which on POSIX systems wait on.
- A PHP answer whose connection ends early is served as a whole page
  (`FastCgiClient.cpp:194`), PHP's headers are dropped by `handlePhpScript`, and
  a page with an LF header and a CRLF blank line in its body is split at the
  latter (`FastCgiClient.cpp:235`).
- A `.htaccess` that says nothing about access re-opens a directory whose
  parent is denied (`Htaccess.cpp:109-114`), and `max_htaccess_depth` drops the
  outermost directories.
- The `.htaccess` files on a path are read one after the other
  (`Htaccess.cpp:104`). A rule that two edits move from one directory to another
  in between is found in neither.
- Of two rules with the same secret the first decides even if it has expired
  (`Auth.cpp:211-212`).
- `tests/test_thread_pool.cpp:14-16` reads `completed()` as soon as the task
  bodies have ended; `workerLoop` counts a task after its body
  (`CountersAddUp` states by how much the counters may lag).
- A valid secrets file whose opening failed once is remembered as tried
  (`AuthRuntimeStore.cpp:135`) and not loaded until its next edit.
- The limits of a cache shard are rounded up, so the cache as a whole may hold
  more than `static_cache_max_entries`.
- If the audit log cannot be reopened after a rotation, the file is missing and
  every later line is discarded, until one is over the limit by itself: the
  missing log has size 0 (`Logger.cpp:158-162`), so this line rotates, which gives
  up the oldest backup, shifts the others and opens the log.
- A `.htaccess` that is removed after `exists()` (`Htaccess.cpp:106`), or cannot be
  opened (`Htaccess.cpp:20`), has no rules, and so re-opens a directory whose
  parent is denied.
- `weakly_canonical` follows no link behind a name that is missing
  (`Security.cpp:80`): the path `/none/../link` keeps the link's own name, and
  `isForbiddenFile` tests the name and extension of the link (`Server.cpp:1049`),
  not of the file it leads to. The root and hidden directories are compared
  with the link followed.
- An upload whose token is allowed is audited with status 200 before the rest
  of the request is looked at (`Server.cpp:605`); `AuditTrail` promises the
  client's status only for 200, 401 and 403.
- `saveUploadsFromSpoolFile` stores files line by line and turns CR LF into LF;
  `docs/streaming-uploads.md` admits "binary edge cases". Sizes in the answer
  and limits are of what is stored.

## 4. The proofs

Each theorem holds in every behaviour of its module's `Spec` (`ExchangeSpec` for
`FastCgi`, `AuditSpec` for `AuditLog`), for all values of the constants that
satisfy the assumptions below. `X => []P` is written as `P`.

| Module | Theorem | Statement |
|---|---|---|
| `ThreadPoolProofs` | `TypeCorrect` | `TypeOK` |
| | `Fifo` | `FifoExactlyOnce` |
| | `NoLostWakeup` | `WorkConserving` |
| | `Counters` | `CountersAddUp` |
| | `Drained` | `ShutdownDrains` |
| | `Refinement` | `Spec => Executor!Spec`: the pool is a `BoundedExecutor` |
| `ConnectionProofs` | `ConnInvHolds`, `TypeCorrect` | `ConnInv`, `TypeOK` |
| | `OneLineEach` | `LoggedOnce` |
| | `DrainedBeforeMembersDie` | `MembersOutliveRequests` |
| | `ExchangeInvHolds` | `ExchangeInv` |
| | `ScriptReadsWhatWasSent` | `ScriptReadsRequest` |
| | `AnswerIsPhpsAlways` | `AnswerIsPhps` |
| | `FailuresHaveReasons` | `FailsForAReason` |
| `RequestHandlingProofs` | `RequestInvHolds`, `ServedInvHolds`, `WholeInvHolds`, `RulesInvHolds` | `RequestInv`, `AllServedInv`, `WholeInv`, `RulesInv` |
| | `SpoolEmptied` | `SpoolRemoved` |
| | `WithinLimits` | `LimitsHold` |
| | `Audited` | `AuditTrail` |
| | `ScriptBodyWhole` | `ScriptGetsWholeBody` |
| | `PublicOnly` | `OnlyPublicFiles` |
| | `NamesWholeFiles` | `AnswerNamesWholeFiles` |
| | `RulesDecided` | `RulesDecide` |
| `AuthRuntimeStoreProofs` | `StoreInvHolds`, `TypeCorrect` | `StoreInv`, `TypeOK` |
| | `ReloadsAudited` | `GenerationsAudited` |
| | `EditsTakeEffect` | `RevocationTakesEffect`, if `~StartupEdits` |
| | `DecidedByAVersion` | `EveryDecisionHasAVersion` |
| `StaticFileCacheProofs` | `CacheInvHolds` | `CacheInv` |
| | `TagIsRight` | `CurrentTagMeansCurrentBytes` |
| | `QuietFileIsFresh` | `FreshWhenQuiet` |
| | `CountersExact` | `AccountingExact` |
| `LoggerProofs` | `LogInvHolds`, `AuditInvHolds` | `LogInv`, `AuditInv` |
| | `LinesAccounted` | `EveryLineAccountedFor` |
| | `OrderKept` | `LogInAcceptanceOrder` |
| | `NothingLeftBehind` | `DestructorFlushes` |
| | `EarlyInvHolds` | `EarlyInv` |
| | `BackupsInOrder` | `RetainedInOrder` |
| | `RotatedWhenDue` | `RotatesWhenDue` |
| `RateLimiterProofs` | `LimiterInvHolds`, `TypeCorrect` | `LimiterInv`, `TypeOK` |
| | `BurstsBounded` | `BurstBounded` |
| | `RefusalsJustified` | `RefusedOnlyOverLimit` |
| `ProgramProofs` | `CheckedStarts` | `CheckedConfigStarts` |
| | `LastReport` | `StopReported` |

### Assumptions

Every assumption on the constants is named, stands in the module that declares
them, and is evaluated by TLC on each run. Most say what a constant is:
`PoolAssumption`, `ServerAssumption`, `RequestAssumption`, `TreeAssumption`,
`StoreAssumption`, `CacheAssumption`, `LogAssumption`, `AuditAssumption` and
`ProgramAssumption` give sets of threads, shards and paths as finite, limits the ranges that the
constructors and `load()` enforce, and values for "none" that are no records;
`AbsentAssumption` is of that last kind too. Sequences among the inputs are
sequences (`RulesInOrder`, parts of `TreeAssumption` and of `FastCgiAssumption`).
Four say more:

- `InputAssumption` (`RequestHandling`): a request line has one of the verdicts of
  `StrictHttp.cpp`, a token one of the five decisions of `Auth.hpp`, and a client
  sends no more of a body than the handler reads for.
- `LimiterAssumption`: `MaxLag < Window` and `Window + 2 * MaxLag <= Retain`. The
  window is a minute and idle buckets are kept for five, so both hold if no
  thread needs a minute from reading the clock to locking its shard. The code
  does not enforce it; a thread that is suspended for longer may find its bucket
  dropped, and `BurstBounded` is false then.
- `FastCgiAssumption`: a chunk is smaller than the range of the length field, as
  65535 < 2^16. A chunk of the full range would be announced as empty and end
  the stream (mutant `ChunksTooLarge`).
- `EditsTakeEffect` has the hypothesis `~StartupEdits`: the secrets file is left
  alone between the two reads of the constructor. The run
  `AuthReloadStartupRace` shows that it is needed.

### The arguments

Each property follows from an inductive invariant that is stronger than it and
was checked with TLC before its proof. One lemma per action, or per group of
actions that touch the same part, shows that it is kept.

**ThreadPool.** `IndInv` holds the four properties and the types together: none
is inductive alone. That `active_` never wraps needs `CountersAddUp`, which
counts the workers between the two updates; the counters need `TaskIdentity` (a
task is accepted once, and held by one worker at a time) and `FifoExactlyOnce`
to relate ended, started and accepted tasks; `ShutdownDrains` needs
`ShutdownOrder`: a worker leaves only a stopped and empty pool, after which
`enqueue` accepts nothing, nobody sleeps once `notify_all` has been called, and
`join` waits for all. `WorkConserving` is an inequality between three counts,
and its steps rest on the lemmas at the head of the module, which say how the
number of threads at given places changes when one of them moves
(`ThreadsAtUpdate`) and when `notify_all` moves many. `Refinement` adds
`QueueBounded` to `IndInv` and maps each action to one of the executor's or to a
stutter (`ExecutorStep`): `enqueue` to `Accept` or `Refuse`, the pop to `Start`, for
which a place is free because every task under way has a worker (`PlaceFree`),
the end of the body to `Finish`, and `join` to `Closed`.

**ConnectionLifecycle.** `ConnInv`: what waits in the queue is at stage `queued`,
and waits once; a connection has one line exactly when it is `ended`; the pool,
third to die, is dead only when it is closed, and then nothing waits or runs.

**FastCgi.** `ExchangeInv` counts records. `HeardInv`: what the worker wrote and PHP
did not read is on its way, and PHP knows what the first records of `Wire`
say (`HeardAfter`). The chunks of n bytes add up to n, none is empty, and no
length wraps, so that only the record after the last chunk ends a stream.
`CollectInv`: the worker has what the first records of PHP's output say
(`Collected`), and unless one was lost the next ones are on their way;
`ResultInv` keeps what follows for the answer. The output is collected by a
recursive function over records of any number (`Printed`). Its recursive
equation, and that it grows record by record, are shown by `InductionOnSet`,
which is induction for a set of numbers instead of an operator: it follows from
the least number outside the set.

**RequestHandling.** `RequestInv` says what a handler's place tells of its request
(`RouteInv`), its audit event (`AuditInv`) and its upload (`UploadInv`), and that
every spool file has an upload. `AllServedInv` follows a request from the strict
parser to the file it serves; it rests on what the length lines of an accepted
header have in common, and on `Resolve` comparing canonical paths: a file that is found is at its canonical
path, and the root's, which exists, is the same when it is taken again
(`RootPlace`). `WholeInv`: while
no two files got one name and no write fell short, handlers parse their own
bodies and what they stored is theirs alone and has the bytes that the copy
line by line makes of its part. `RulesInv`: each
directory a handler looked at was as in some version of the rules between the
arrival at the loop and now, these versions are in order, the files it could
not read (`unread`) were there at the look, and `denied` is what the others say. That one moment explains the decision when there was at most
one edit follows from the order: the looks before it saw one version, those
after it the other, and the last look that says anything decides.

**AuthRuntimeStore.** `StoreInv` relates what the store knows of the file (`hadFile`,
`lastWriteTime`, `tried`, `active`) to the versions it had (`VersionInv`,
`CurrentInv`), says that a check begun after the last disturbance brings the
store up to the file, in the hands of whichever thread it is (`CheckInv`), and
that this is what a request finds which begins an interval later (`QuietInv`).
The decision of `Auth.cpp` is then that of one version, by the first rule with the
secret (`AllowedByFirst`).

**StaticFileCache.** In `CacheInv` the local variables of a `get()` during which its
file is not edited collect facts of one version (`Undisturbed`), and any `get()`
knows that its write time is not later than its bytes (`GoodFile`), since it reads
them in this order: a current tag thus has current bytes. `AccountInv` is about
the counters: sizes are counted byte by byte, so that what `evictIfNeeded` gives
back is a difference of finite sets (`BytesInserted`), and the order of eviction
lists each entry of the shard once.

**AccessLog.** `LogInv`: each call has a number of its own, an accepted line is in one
of the queue, the batches, the file, or lost to a failed write, the destructor
flushes what the writer left, and lines are in order unless a flush ran beside
the writer.

**AuditLog.** In `AuditInv` the numbers of the lines give the order: from the oldest
backup to the log they grow by one, across files and within them (`RecordInv`,
`RetainedInOrder`). `StepInv` says how far a rotation is; `HoleInv` that, while no
call failed, no more names below a backup are free than there were kills, apart
from the one being vacated, so that a line is given up only when the other
backups are in use; `SizeInv`
counts the bytes of a file one by one, so that a line more is its size more.
`EarlyInv` counts the lines that began a file although the one before had room:
while a rotation is under way its line does not fit what it retires, and only
a kill in between lets a smaller one take its place.

**RateLimiter.** Late clock readings reach a bucket out of order, so the bucket's
count does not tell when its grants were. `LimiterInv` cuts the answers of a
client at the call that began its current window: since then there are as many
grants as the bucket counts, none older than the window less the lag; all
grants before are older than the window, and no span that overlaps it held
more than the limit of them. A client whose bucket was dropped keeps the cut
of its last window, which has ended for every call still to come.

**Program.** A configuration that passed the check can be refused only for what
the check does not look at (`CheckInv`); `StopInv` says which of the two threads
may still write the status.

### What the proofs corrected

Three properties and two actions were wrong outside the instances that TLC had
seen, and four properties could not be reasoned about. The instances were
enlarged where that shows the difference (a limit of 2, a `Content-Length: 0`).

- `RefusedOnlyOverLimit` left out the lag. With a limit of 2 a grant whose clock
  reading is older than the window that counts it may justify a refusal.
- `ScriptGetsWholeBody` took an empty `Content-Length` followed by `0` for a
  disagreement; it is a body of length 0 for all parsers.
- When the opening of a spool file fails, the code removes the name, which may be
  another handler's file (`SpoolOpen`). With three handlers this made
  `AnswerNamesWholeFiles` false although no name was used twice; the model now
  counts the removal among the collisions.
- `RulesDecide` named one moment at which all directories were as the request saw
  them. With two edits there need not be one; the property now says what holds
  for any number, and the run has two edits.
- An empty error record from PHP counted as error output; `FastCgiClient.cpp`
  keeps text and finds none (`IsError`).
- `RetainedInOrder` and the output that `AnswerIsPhps` speaks of were concatenations
  and selections. The first now speaks of the numbers of lines, the second is
  a recursive function.
- The sums of `EveryLineAccountedFor` and `AccountingExact` were folds, which the
  prover cannot unfold. They are now statements about sets (each line is in one
  place; bytes are counted one by one), from which the sums follow. The eviction
  is decided by the shard's counter, as in the code, no longer by the sizes.

### What is only model-checked

Liveness and fairness are beyond the prover: `AcceptedTaskRuns`,
`ShutdownReturns`, the fairness of `ImplementsExecutor` (its safety part is
`Refinement`), `BacklogServed`, `AcceptedIsClosed`, `StopEnds`,
`AcceptedLineReachesDisk`, `ExchangeEnds`, `StopHeard`. Every other property of a
passing run is stated by one of the theorems above.

A note on the prover: tlapm 1.4.5 tells Z3 that the domain of any function is
`1 .. n` exactly if its `Len` is `n`, which is not so for `Len` outside sequences.
The proofs were also checked with this fact restricted to sequences, so none
of them rests on it.

## 5. Plan

The work was done in this order:

1. The core: pool, connections and lifecycle, token store, cache, access log,
   rate limiter, audit log, request handling.
2. The pool's inductive invariant.
3. The decision of `Auth.cpp` inside the token store; headers, paths and
   `.htaccess` inside request handling; the exchange with PHP; the program
   around the server.
4. The pool's refinement, and the invariants of all modules.

Left for later: an abstract log (accepted lines, the file a prefix of them
unless a flush overtakes) that `AccessLog` implements, as `ThreadPool` does
`BoundedExecutor`; and one statement that composes the server with the logs
at a stop.

## 6. What is not modelled

- The text of requests, parts, rules, tokens and configuration lines: a line is
  its kind and what the control flow asks of it. URL decoding is abstracted (a
  target is given decoded, names that keep an encoding are one set), and
  SHA-256 is injective.
- `Header` and `Options` lines of `.htaccess`, and response headers in general:
  no control flow depends on them.
- `handleUploadRequest` and `saveUploads`, which `handleClientStream` never
  reaches, and `readRequestWithBody`, which nothing calls.
- Installing and removing the Windows service, command-line parsing, and the
  limits `load()` puts on settings that no other module relies on.
- SQLite, which no request path uses; the error log, one append under a mutex;
  packaging and scripts, save for the atomic replacement of the secrets file.
- The clean-up of spool files after a crash, which the code does not do.
- What `SO_RCVTIMEO` does beneath Boost.Asio: both outcomes are allowed.
- Weak memory: atomics and mutexes are sequentially consistent, which the
  default orders of the code give. `g_io` and `g_status` of the service are
  plain variables; their races are modelled as interleavings of whole accesses.
- The counters of the cache and the sizes in log lines, which are only reported.
