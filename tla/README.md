# Specifications of rust-highperf-server

TLA+ models of the server under `src/`, the TLC configurations that check them
and the TLAPS proofs about them. Source paths are relative to the crate root.

## The system

A multi-threaded Tokio server. `Server::accept_loop` (`src/server/mod.rs`)
accepts TCP connections, filters them by address, takes a connection permit and
spawns a task per connection, which performs the TLS handshake and runs
`handle_connection` (`src/server/connection.rs`). Each request passes logging,
the rate limiter, the concurrency limiter and the inner service, which collects
the body and dispatches through the router, under a timeout. Handlers use the
database (SQLite or PostgreSQL, possibly shared by replicas). On a signal the
loop ends, a watch channel tells every connection, and the drain waits for the
in-flight counter to reach 0, at most `SHUTDOWN_DRAIN_SECS`.

### Inventory

| Part | Source | State | Module |
|---|---|---|---|
| Accept loop, tasks, drain | `server/mod.rs`, `main.rs` | semaphore, `in_flight`, `Notify`, watch channel, metrics | `AcceptLoop` |
| Connection driver, inner service | `server/connection.rs` 93-281 | `graceful`, keep-alive timer, counters | `RequestPipeline` |
| Concurrency limiter | `middleware/concurrency.rs` | semaphore | `RequestPipeline` |
| Metrics | `metrics.rs` | atomic counters | `RequestPipeline`, `AcceptLoop` |
| Rate limiter | `middleware/rate_limiter.rs` | `DashMap` of buckets, call counter, eviction task | `RateLimiter`, `TokenBuckets` |
| Browser sessions, /ui handlers | `session/mod.rs`, `server/connection.rs` 505-770 | table `sessions` | `UiSessions` |
| Items JSON API | `server/connection.rs` 394-500, `db/models.rs` | table `items` | `ItemsApi` |
| Router | `http/router.rs` | none (algorithm) | `Router` |
| Route table | `build_router` | none (data) | `RouteTable` |
| Start-up, configuration, migrations, administrator | `config.rs`, `server/mod.rs` 104-243, `db/pool.rs`, `db/models.rs` 76-118, `tls/acceptor.rs` | the database, listening addresses | `Startup` |
| HTTP to HTTPS redirect | `server/mod.rs` 398-510 | a second accept loop | `Startup` (the task), `Exchange` (the answer) |
| Request id, responses, static files, reverse proxy | `middleware/logging.rs`, `http/response.rs`, `static_files/`, `proxy/mod.rs`, `templates/mod.rs` | files on disk | `Exchange` |
| Forms and query strings | `http/request.rs`, loops in `server/connection.rs` | none (algorithm) | `Forms`, `Loops` |
| Blocking pool | `server/task.rs` | Tokio's pool | `BlockingPool` |
| The process | `main.rs` | all of it | `Server` |
| JWT, `password_hash` | `middleware/auth.rs`, `bin/` | none | not modelled |

## Modules

**AcceptLoop.** `main` is where the accept loop's task is, `conn[c]` where a
connection is, from "offered" (in the kernel) to "closed". The other variables
are the shared objects. Every access to a shared object is a step of its own,
because tasks run on several threads: counting in, spawning, `fetch_sub`,
`notify_one` and the drop of the permit are separate, and so are the loads, the
poll of the `Notify` and the poll of the timer in the drain. One poll of the
biased `select!` is two steps, between which the signal may arrive. After the
return the runtime drops tasks where they await (`DropTask`).

**RequestPipeline.** The inside of `handle_connection`. A step is what one poll
of the task does between two awaits; the counters are atomics nothing branches
on. Leaving the select loop drops the future of a request in progress, and with
it the permit. Hyper is modelled by what the select loop sees of it: a response
is followed by the next request or by the end of the connection, and
`graceful_shutdown()` ends an idle connection at once and another after its
request.

**RateLimiter**, **TokenBuckets.** `TokenBuckets` is what the limiter promises:
a bucket per address that is never forgotten. `RateLimiter` has the table, the
calls of `check()` in several threads, the sweep every `EVICT_EVERY_N_CHECKS`
calls and the eviction task. A sweep fixes its cutoff first and then visits
buckets one at a time, as `DashMap::retain` does. Time is in ticks and tokens
in units chosen so that the refill of one tick is one unit. The refinement
mapping gives an address without a bucket a full one.

**UiSessions.** `SessionStore` and the handlers that log in, log out, show
pages, and create and delete items. Each SQL statement is a step; a statement
may fail, and a handler may be dropped at each. A browser can use a token only
after the INSERT of its row.

**ItemsApi.** The four `/api` handlers. A statement whose handler timed out
becomes an "orphan", which the database may execute later or never.

**Router**, **RouteTable.** `dispatch` and `match_path` step by step, and a
reference (`Means`, `Captured`, `Expected`) that says what a pattern means. A
path is the sequence of strings its slashes separate. `RouteTable` lists the
registrations of `build_router` for each configuration.

**Exchange**, **Forms.** `Exchange` extends the router to one whole exchange:
the logging middleware, the dispatch, the handler, and the way back. A handler
that uses neither the disk nor the upstream reads its form and chooses one of the
responses its group can give (`ApiAnswers`, `UiAnswers`, `PlainAnswers`); the file
server, the proxy and the redirect are modelled call by call. While a file is
served somebody deploys: a path is bound to another file, or an open file is
written. The upstream answers, is unreachable, or fails after its head; the
timeout may strike wherever a handler awaits, which only those of `Immediate` do
not. A response is its status, the length of its
body and its headers: a function from names to the values appended under a name,
in order, as in a `HeaderMap`. The names (`HeaderName`) and the heads an upstream
may send (`Replies`) are constants. `Forms` has the decoding of URL-encoded text
on codes, since the properties are about single characters, and a browser's
encoding to compare it with.

**Loops.** The loops of `percent_decode`, `str::split` and `filter` have one shape:
they move forward over the positions of a text, by one or by more, and append to
a result. `Walk(parts, next)` is that shape, written as a recursive function so
that it can be reasoned about; `Forms` and `Router` say what a position appends
and where the loop goes on.

**Startup.** A process from its environment to its exit, for several replicas
on one database that a supervisor restarts. Each call that may fail, and each
SQL statement, is a step; a crash or a failed statement may come at any of
them. The environment of a replica is a constant, reduced to what `from_env`,
`load_tls` and `init_pool` distinguish: which numbers are set, which of the TLS
files are good, whether the password hash parses.

**BlockingPool.** The threads behind `run_blocking` and Tokio's file operations.
A closure whose handler was dropped goes on without it.

**Server.** The composition. AcceptLoop, RequestPipeline and BlockingPool are
instantiated on one set of variables (the watch channel is shared), and every
step is a step of one of them or a joint step: the broadcast; a task that
notices it; `handle_connection` returning, which needs its requests to be over;
a handler that calls the pool or is dropped; a response that reads its file while
it is written. After `accept_loop` has returned, `main` drops the runtime: tasks
where they await, then the pool.

The `MC` modules give the constants values and symmetry. `MCSharedState` puts
ItemsApi and RateLimiter, which share nothing, side by side: in a behaviour one of
them moves and the other stays. Definitions whose comment starts with "Variant" are
plausible mistakes in the code, used to check that each property would notice one;
no specification uses them.

## Runs

| Run | Shows |
|---|---|
| AcceptLoop | Permits and `in_flight` are exact; every accepted connection is accounted for once; at most one connection is taken after the signal; an exit before the timeout, without a stale notification, leaves nobody served; the drain misses no wakeup, even if its timer never fires; with the timer, `accept_loop` returns whatever clients do |
| AcceptLoopDropped | *violated*: connections are dropped before the drain timeout |
| RequestPipeline | Permits balance on every path; a permit comes back even if the client never sends its body; after the broadcast only a body being sent or a response being written holds up the drain |
| RequestPipelineKeepAlive | *violated*: the keep-alive timer cuts a request |
| RequestPipelineGauge | *violated*: `requests_active` does not return to the requests in progress |
| UiSessions | A logout is final; no request begun after it writes; a session is found only within the TTL of a use |
| UiSessionsRace | *violated*: a lookup removes a session another request has just refreshed |
| SharedState | ItemsApi: at most one DELETE of an item is confirmed; a deleted item stays deleted; a created item is found. RateLimiter: the limit holds over every window, idle buckets are removed in time, and the limiter implements `TokenBuckets` |
| Startup | Whoever serves has its tables and an administrator, after any crash in the middle of the migrations; no start changes an account; the race for the administrator costs one start; a redirect leads to TLS; every valid replica serves again and again |
| Exchange | `dispatch` gives the documented answer and captures; the registered local routes are disjoint and precede the proxy; one request id on every path; the server's own answers declare their length and carry nothing of an upstream that failed; complete files during a deployment; forms read as typed; redirects keep the host |
| ExchangeContentLength | *violated*: a proxied response has a Content-Length besides the one the proxy sets, and they may contradict each other |
| Server | The composition implements AcceptLoop and RequestPipeline; what is counted out is finished; the exit loses a request only after the timeout or a stale notification; after the broadcast no handler holds up the drain, whatever closures do, but handshakes, bodies and responses may; the process ends |

The violated ones state what a comment or document of the repository says;
`PROJECT.json` quotes it under `findings`.

### Other differences between the code and its comments

Visible in the models, without a run of their own:

- `CountResponse` adds 3xx responses to `responses_4xx`, which `metrics.rs`
  describes as responses with a 4xx status.
- The refusals of both limiters increment nothing: `rate_limited` and
  `concurrency_limited` ("Requests rejected by the rate limiter (429)", `metrics.rs`
  44-47) stay 0, and `requests_total` ("Total HTTP requests received", line 34) and
  the response counters leave refused requests out. No property relates the
  counters to each other; the gauge has one.
- A logout whose DELETE fails (`connection.rs` 631) logs the error, clears the
  cookie and leaves the row valid.
- `ready_tx` is sent before the database is initialised (`server/mod.rs`
  155-159); the comment on `run_on_listener` says "immediately before the accept
  loop starts".
- Decoded bytes that are not UTF-8 are "passed through unchanged" according to the
  comment on `percent_decode` (`http/request.rs` 113-114), and its body says "return
  the original undecoded string" (134-135); the code replaces them by U+FFFD. The
  model has the replacement. `FormRoundTrip` speaks of queries that decode to UTF-8.
- `static_files` says that a `.` in a path is refused; it is skipped. A path
  below a regular file is answered 500, not 404, and a directory named
  `index.html` 200 with a body that breaks off.
- The proxy leaves out a fixed list of hop-by-hop headers. A header that a
  Connection header names is forwarded like any other, in both directions.
- Rendered pages and `/metrics` carry two content-type headers, for the same
  reason as the two lengths of ExchangeContentLength: `header` appends.

### Bounds

- AcceptLoop: four connections and two permits: one address is filtered, three
  connections contend for the permits, and connections end before, during and
  after the drain.
- RequestPipeline: three connections, one permit, three requests: a refusal, a
  keep-alive reuse and a race for the permit all occur.
- UiSessions: three handlers, so that two race each other and a logout; one
  token (handlers of different tokens share no row); TTL 2, clock up to 3.
- SharedState: of ItemsApi three handlers, two items and four requests: a create and
  three more that race on the item. Of RateLimiter two workers, two addresses and
  three calls; a bucket holds two tokens and a tick refills half of one, so that the
  third call of an address finds its bucket empty unless a sweep took it; the
  TTL is exactly the time of a full refill, the tightest value the promise
  allows; the clock starts below the TTL, so that the missing cutoff occurs,
  and runs for several intervals; a sweep is due every second call. Longer
  sequences are left to the proofs.
- Exchange: every table of two routes with patterns of at most two segments, all
  paths of at most two segments over two words, and a few with empty or extra
  segments; the tables of `build_router`, captures taking every word of them;
  upstreams that answer 200, 204, 304 or 404, with and without a length; two files
  of at most two chunks and three changes on disk, enough to exchange a file
  between any two calls of `serve_file` and to change it back; texts of at most three characters
  over those that have a meaning in a form, and queries of up to five over a
  percent sign, a plus sign and digits, and some with escaped characters of two
  bytes, complete and cut short.
- Startup: four replicas, two of which race for the administrator, one that
  cannot start and one that fails in the middle; two crashes or failed
  statements.
- Server: two connections, one permit of each kind, one thread and one request.
  The second connection is refused, or accepted after the first; a closure is
  queued, running or left behind when its handler times out, its connection ends
  or the runtime is dropped. Two requests at once are beyond TLC's time here. What
  depends on them is proved for every number (ServerProofs); the two liveness
  properties are known for this instance only.

`MaxRequests`, `MaxChecks`, `MaxTime`, `MaxFaults`, `MaxChanges` and `MaxLength`
bound the requests, the calls, the clock, the faults, the changes on disk and the
length of a file in a run; the code has no such limits. The proofs hold for every value of them.

### Fairness

`SchedulerSpec` (AcceptLoop) has the runtime schedule the main task, and a task
that has counted itself out, which does not await any more. `DrainWakesUp` is
checked with that alone; `ShutdownCompletes` names the drain timer it needs in
the property itself. `FairSpec` of RequestPipeline has a woken task polled and the
dispatch timer fire; `PermitsComeBack` names the keep-alive timer it needs besides.
`FairSpec` of Server adds that an idle thread takes a closure
and that dropping the runtime goes on; `ProcessExits` names what else it needs,
the drain timer and closures that return, which are computations and file
operations. Nothing is assumed of clients: a handshake, a body or the reading of
a response may take for ever. `StartupFairSpec` has a process run, a drain end
(`ShutdownCompletes`) and crashes be finitely many. That somebody restarts a
process that ended is an assumption about the deployment, not about the code;
`ValidReplicasServe` needs it, since a lost race for the administrator ends a
process.

## Proofs

Checked by TLAPS for every value of the constants. The type invariant of each
module is proved (`TypeCorrect`, `StartupTypeCorrect`, `LimiterTypeCorrect`) and not
repeated in the runs;
that of Exchange (`ExchangeTypes`), which says more than types, is checked too.

- **AcceptLoopProofs** (`Conn` finite, `MaxConnections` a natural number):
  `PermitsBalance`, `InFlightCounts`, `AcceptedAdds`, `LateBound`,
  `QuietExitHolds`. Neither
  `InFlightExact` nor `QuietExit` is inductive. `IInv` adds: the main task holds
  at most one connection and only while "spawning" (`SpawnInv`), a
  late connection exists only after the signal and after the poll the signal
  overtook (`LateInv`), and after the loop a notification, unless a stale one
  was left, means a counter of 0 (`DrainInv`). The counting steps rest on
  one lemma, how the number of connections in a set of phases changes when one
  connection moves (`ConnMoves`).
- **RequestPipelineProofs** (`Conn` finite, `MaxConcurrent` a natural number):
  `PermitsBalance`. `IInv` adds that every request past the limiter and before its
  response is counted in the gauge, without which the unsigned gauge could fall
  below 0.
- **AccountsProofs**, the start-up, which creates the administrator, and the sessions
  of those who log in:
  - Startup (any replicas and environments): `ServesReady`, `OneConflict`,
    `RedirectsToTls`, `NeverOverwrites`. `StartupInv` says for each phase what the calls
    before it have left in the database (`Behind`); it survives the steps of other
    replicas because tables and rows only appear (`Grows`).
  - UiSessions (`Ttl` a positive number; any handlers, tokens and
    items): `LogoutIsFinal`, `NoLateWrite`, `FoundInTime`. `IInv` adds what a
    handler may rely on while it waits (`Sound`): a login's token is its own until
    its row exists, so that the INSERT revives no session that is gone; a request
    begun after the logout never gets past its lookup; and the time a refresh is
    about to write is one at which the session was used, so that UPDATEs may
    arrive in any order. The single token of the run is thus no restriction.
- **SharedStateProofs**, two components whose calls interleave on one table each:
  - ItemsApi (any handlers, items and number of requests):
    `DeletesConfirmedOnce`, `DeletedNeverReturns`, `CreatedIsThere`. None of the three
    is inductive, because statements of dropped handlers are executed at any later
    time. `IInv` adds who may still change a row: an id has one create, and until
    its INSERT nobody else knows it (`Creates`); a DELETE that found its row and has
    not answered is the only one (`Claimed`); and an item whose DELETE was confirmed
    is in no table, no claim and no pending INSERT (`Counted`).
  - RateLimiter (`StaleTtl >= Capacity`, and positive token cost and
    intervals): `WindowBounded`, `IdleBounded`, `Refinement`. The invariant (`LimiterInv`) for
    the window is that what was spent and what the bucket would hold now never
    exceed a full bucket plus the time passed; it survives an eviction because
    the cutoff of a sweep is at least a full refill old, which `ClockInv` keeps.
- **ServerProofs** (`Conn` finite, limits natural numbers, any threads):
  `LoopImplemented` and `RequestsImplemented` show that the composition implements
  both components, step by step. The theorems of AcceptLoopProofs and
  RequestPipelineProofs then hold of it and are used in `NoRequestLeft` and
  `ExitIsClean`: the first rests on `ServedInv` (requests only on served
  connections) and `PoolInv` (a closure belongs to a request in its dispatch or to a
  response being written), the second on `QuietExit` of the loop.
- **ReadingProofs**, what is read in a request (any route tables and requests that
  satisfy the assumptions below):
  - `DispatchIsCorrect`. The run compares `dispatch` with its reference for patterns
    and paths of two or three segments; the theorem has no such bound. The invariant
    `RouterInv` says that no route before the one looked at suits, that
    `any_path_matched` records whether one of them fits the path (`DispatchInv`), and
    that the segments before the one looked at fit and have captured what the
    reference captures from them (`MatchInv`). One lemma, `InsertCaptures`, shows that
    inserting into the `HashMap`, where a later capture replaces an earlier one of the
    same name, is what the reference means. `Routing` lifts the invariant to the
    exchange.
  - `LocalRoutesAreDisjoint`, from `Routing` and `RoutesApart` (below): the route that
    was called is the first that suits, and every other that suits is the proxy's.
    The run enumerates paths over the words of the tables; the theorem has all paths.
  - `FormsRoundTrip`, from `FieldsRead` and `DecodesEscapes` (below). Its invariant
    `FormInv` says that what was read stays what the handler of the called route reads;
    the run checks `FormRoundTrip` for texts of three characters.
- **TextProofs**, the algorithms behind them, for every path and every text (typed
  text is of characters of one or two bytes in UTF-8). Most need an induction: a
  nonempty set of naturals has a least element (`NatMin`), so that a set that contains
  the empty text, and a text whenever it contains the rest of it, contains every text
  (`TextInduction`). `FromUnfolds` shows that a loop which moves forward has a result
  and what that result is, position by position.
  - `TextsRoundTrip`: `percent_decode` inverts a browser's encoding. The step of the
    induction is `CharDecodes`: an encoded character is decoded to its bytes whatever
    follows it; `Utf8First` is the same for UTF-8.
  - `FieldsRead`: the two ways of reading a form agree with what was typed. They search
    different pairs, the first whose decoded key is the one asked for and the last whose
    raw key is; with distinct keys, as in the pages of the server, both find the same.
    It rests on what `split` does at a separator (`SplitsAtSeparators`), and on encoded
    text containing none.
  - `DecodesEscapes`: on any text, well-formed or not, the loop turns exactly the
    escapes the comment on `percent_decode` describes into bytes, because no two
    overlap.
  - `RoutesApart`: in each table of `build_router` no two local routes serve the same
    method and path, and only the last route is a catch-all. `Which` computes from a
    method and a path the number of the only route that may serve it; each of the 20
    routes is compared with it.
- **ExchangeProofs**, the answer to a request (any header names, upstream heads, files,
  lengths and number of changes): `IdCorrelates`, `OwnAnswersAreWhole`,
  `ServedFileIsComplete`, `RedirectDoesKeepHost`,
  `ExchangeTypes`. The properties speak of the end of an
  exchange; `EInv` says them of every response from the moment a handler, the
  file server or the proxy has built it (`OutInv`), of the id from the moment the
  middleware chose it (`IdInv`), and of the open file until somebody writes to it
  (`FileInv`). That `BareHost` finds the name is one lemma about the first bracket
  and the last colon (`BareHostNames`).

Assumed in ReadingProofs and ExchangeProofs, and evaluated by the run on its instance:
a wildcard is the last segment of its pattern, as `PathSegment` requires and
`build_router` does (`RoutesWellFormed`); segments of a path are strings
(`PathsOfStrings`); the names the server uses are names of headers (`HeaderNames`); a
body an upstream sends has the length it declares, if it declares one, since its HTTP
client reports an error of the body otherwise (`UpstreamHeads`; a 204, a 304 and an
answer to HEAD have no body, whatever they declare); files are not the markers
for no file and for directories (`Inodes`); a client's Host is a name or address with
or without a port, the fields of a form have different keys, and a query is ASCII with
one parameter (`ClientRequests`).

Only model-checked: the liveness properties `DrainWakesUp`, `ShutdownCompletes`,
`PermitsComeBack`, `OnlyClientsHoldUpDrain`, `HandlersDoNotHoldUpDrain`,
`ValidReplicasServe` and `ProcessExits`. Fairness is out of
the prover's reach. Every invariant and every action property of a passing run is
proved.

## Abstractions

- A request head is received in one step.
- `f64` arithmetic of the buckets is exact in the model.
- The eviction task is assumed to run at its interval and to finish a sweep
  within a tick; a sweep inside `check()` may take any time. The
  guard of `Tick` says so, and all results about the limiter are under it;
  `IdleBucketBound` could not hold without it.
- `Instant::checked_sub` has no result while the clock is below the TTL; the
  clock's origin is a parameter (`Start`).
- UUIDs are not repeated. The wall clock does not go back.
- A panic in a task is not modelled: the release profile aborts.
- The signature of a JWT and the hash of a password are right or wrong.
- The body of a response is its length, 0 or 1, except for files. Set-Cookie
  headers, the policy headers of a page and the flash message of a redirect's
  query are left out of Exchange, and handlers are told apart by the group of
  their answers only. Keys of a form are one letter. UTF-8 sequences are of at most two
  bytes.
- Numbers in the environment are those of the types' ranges; a value that is
  not a number is rejected like one out of range and has no case of its own.
- The pool's shutdown takes no time of its own: Tokio drops queued closures and
  joins running ones.

## Not modelled

- HTTP/2. Hyper runs each of its streams as a task of its own on the executor, so
  that several requests of a connection are in progress at once and one may
  outlive `handle_connection`: a request is then not dropped with its connection,
  and counting the connection out says nothing about it. The results about requests
  and their connections (`CountedOutIsFinished`, `ExitLosesNothing`,
  `PermitsComeBack`, those about the drain) are for HTTP/1.1.
- The URL the proxy asks for (`PROXY_STRIP_PREFIX` is removed as text, also
  inside a segment) and the redirects its HTTP client follows by itself.
- JWTs (`middleware/auth.rs`): signed and checked by a library, no state of the
  server. The text of the `Authorization` and `Cookie` headers.
- The text of pages and of `/metrics`, log lines, the table of MIME types.
- In-memory SQLite databases, which no two processes share.
- `password_hash`, a command that prints one hash.
