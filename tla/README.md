# A TLA+ model of pg-web

pg-web serves a web application out of PostgreSQL. An extension
(`crates/pg_web_ext`) runs a background worker that answers HTTP on port 8080
with a single-threaded tokio runtime and calls SQL handlers through SPI; a
command line tool (`crates/pg_web_cli`) pushes a directory of pages, handlers,
migrations and assets into the database. This directory models the parts whose
correctness depends on the order of events: the snapshot the worker keeps and
how a push invalidates it, the life of one request and its transaction, the
life of the worker, pushes and migrations that run at the same time, the file
watcher next to a developer who keeps editing, and two pieces of pure logic that
are easy to get wrong, route naming and matching and the SQL splitter of
`pg-web check`.

## Inventory

| Component | State | Operations | Interacts through | Hard behaviour |
|---|---|---|---|---|
| Cache (`cache.rs`) | `SNAPSHOT` | `get_snapshot`, `invalidate`, `build_snapshot`, `render_template` | SPI reads, called by router, http and livereload | a build that races a push; a snapshot that outlives its push |
| LISTEN fan-out (`listen_router.rs`) | LISTEN connection, `notif_rx`, broadcast channels, shutdown `Notify` | `run_listen_loop`, `publish`, `subscribe`, `request_shutdown` | NOTIFY from the CLI; `invalidate`; SSE streams | lost notifications, reconnects, lost wake-ups |
| Live reload (`livereload.rs`) | SSE streams | `serve_livereload_sse`, script injection | broadcast channel, `wait_shutdown` | streams that hold the worker open |
| HTTP front end (`http.rs`) | none of its own | `handle`, `render_asset`, `render_error` | `router::serve`, the snapshot's env | the only `await` is the body |
| Router (`router.rs`, `templating.rs`, `errors.rs`) | the request's transaction | `serve`, `serve_in_tx`, lookups, `render_route`, `call_handler` | SPI, wrapper function, cache | what commits on which error path |
| Request timeout (`request_timeout.rs`) | Postgres' statement timer | `Guard::arm`, `Guard::drop` | SPI | leak into the next request; cancellation inside PL/pgSQL |
| Schema (`schema.rs`) | `pgweb.*` tables, serving role | `_framework_call_handler`, SQL helpers | everything | savepoint semantics of `EXCEPTION` |
| Worker (`worker.rs`, `lib.rs`) | process, listener, drain channel | `_PG_init`, `pg_web_worker_main`, `shutdown_signal` | postmaster, SIGTERM | restart rules, drain cap, one thread |
| Push (`push.rs`, `retry.rs`) | one transaction | gate, apply, validate, reconcile, settings, ledger, NOTIFY | Postgres locks, worker through NOTIFY | concurrent pushers, retries, dry run |
| Migrate (`migrate.rs`) | `pgweb.migrations` | `apply`, `discover` | Postgres, push | two processes, one ledger |
| File watcher (`dev.rs`) | content hashes, stop flag | `watch`, `event_loop`, `handle_batch`, `preflight_sql`, `notify_livereload` | OS events, push, NOTIFY | edits while a batch is handled; deduplication against failed pushes |
| Path rules (`paths.rs`) | none | `scan`, naming of routes, handlers, templates | push, router | name collisions; three places that must agree on a name |
| Check (`check.rs`) | a scanner over one text | `split_sql_statements`, `finalize_statement` | none | strings, comments and tags that overlap |
| Health probes (`health.rs`) | none | `serve_health`, `serve_readiness` | SPI, the worker's session | a statement that meets a cancellation a request left behind |
| Env, stack, init, logging | none of interest | | | not modelled, see below |

What makes each part correct: a snapshot older than a push is dropped as soon
as its NOTIFY is handled; a request commits only what a handler that returned
has written, and its timer cancels one request at most, itself or, when it fires
too late for that, the next one before it has called anything; the worker serves
until it is told to stop and then stops; a push is all or nothing, exactly once,
and leaves the database equal to the tree; a save ends up live or reported; a
request is answered by the most specific page of the tree, by that page's own
function; the splitter sees the statements the modelled lexer sees.

## Modules

### ReloadCache: snapshot, side channel, request thread

A version is the number of the push that committed it. `db` is the last
committed version, `cache` the version at which each part of the snapshot
(routes, templates, env) was read, or `NoSnapshot`. `session`, `queue` and
`recvd` are `run_listen_loop`: the connection's phase, the notifications sent to
it, and how many of those the driver task has moved into `notif_rx`. `req` is
the request the worker's thread executes. `owes` holds the dev pushes whose
livereload NOTIFY is still to be sent. `published` and `lost` record which
livereload events reached the streams and which reload notifications reached
nobody.

| Action | Code |
|---|---|
| `Push` | the commit of `push_with_options`: rows and NOTIFY in one step |
| `DevNotify`, `DevNotifyFails` | `handle_batch` after its push |
| `Connect`, `ListenNext`, `ListenActive`, `ListenFails`, `Drive`, `ConnectionLost`, `Pump`, `Ended` | `run_listen_loop` |
| `Begin`, `Warm`, `CallHandler`, `Render`, `EndTransaction`, `Respond` | `serve` .. `handle` as the cache sees them |
| `SseConnect` | `serve_livereload_sse` |
| `Restart` | the postmaster starts a new worker |

Two LISTENs are executed one after the other, so a session can be subscribed to
`pgweb_livereload` only. `build_snapshot` runs several SELECTs, each of which may
see a push committed since the transaction began; `Builds` allows every mix.

### Served and ReloadHistory: what the cache promises

`Served` is the cache without its mechanism: a reader (`view`) of a versioned
database that takes a view and gives it up. A view never changes in place, a new
one misses nothing that was committed when the last one was given up (`floor`),
announcements may be missed at any time, and a view that misses an announced
version is eventually given up (`WF(GiveUp /\ Owed)`). It does not know
connections, queues, requests or restarts. `ReloadHistory` adds the history
variable `floor` to ReloadCache and states the refinement, with `view <- cache`
and `missed <- lost`.

### Request: one request, its transaction and its response

The database content a path meets is one record, `site`: the route row that
matches (none, with a template, without one, or the framework's default health
route), its method, whether there is an asset or a `_404` page, what the handler
does, whether Tera renders the page, and the `request_timeout` setting. It is
chosen once and does not change; changes of it are ReloadCache's subject. The
env row may change at any time. Places of a request are the points between which
something else can happen: the timer fires, the env is written, another request
runs (only while the body is read, since nothing else awaits).

`timer` is the request whose statement timer is armed, `pending` the one whose
timer has fired without anybody having been cancelled yet: Postgres' signal
handler only sets `QueryCancelPending`, and the error is raised by the statement
that runs or by the session's next one. So a step that runs a statement needs
`pending = Nobody`, and where one may run `Cancelled` can take its place; steps
without a statement (a template that is in the snapshot, the end of
`serve_in_tx`) pass with the note unread. `Guard::drop` disarms a timer that
still runs and withdraws nothing (`Commit`, `Unwind`), so the note can outlive its
request; the next request's first statement, the read of the timeout setting at
`begun`, or a health probe (`ProbeCancelled`), meets it. `OneCancelPerTimer` says
that nothing worse happens.

An error page is two steps: `ReadErrorEnv` reads the env row in a transaction of
its own (`shown`), `SendError` renders by what was read, and the row may be
written before, between and after. `since` collects the values the row has had
since the request's transaction ended; a page with internals needs development
among them (`InternalsAreCurrent`).

A Postgres ERROR outside the wrapper's `EXCEPTION` block becomes a Rust panic
that unwinds the connection's task: `Unwind`. That
`BackgroundWorker::transaction` commits when its closure returns, and leaves
nothing committed when the closure panics, is taken from pgrx, as is that
`SpiHeapTupleData::get` counts columns from 1 (marked external).

### Worker: start, serve, drain

`proc` is the worker process as the postmaster sees it (`registered` until it is
forked), `conn` the state of each TCP connection, `thread` the connection whose
handler blocks the only thread. Time is abstracted: a timer that is armed may
fire whenever the thread is free. `SsePoll` is a step of its own because
`wait_shutdown` registers with the `Notify` at its first poll, and
`notify_waiters` wakes only who is registered.

### Push: pushes and migrations that share a database

A row is a table and a key, its value the pusher that wrote it. Each pusher has
a tree and a command line (`app`), a transaction (`own`: what it has written), a
row it waits for (`wait`) and, after the wait, what the other transaction did to
that row (`hit`). A tree has any subset of the migration files, and what is
pending is decided by membership in the ledger alone, so a file may be applied
after later ones that another branch brought. `tree` is the last push that
committed and `alone` whether no other had committed during its transaction.

Postgres is external and modelled from how push uses it: READ COMMITTED
visibility, row locks to the end of the transaction, upserts and
deletes that go on with the row as it then is, DDL on `pg_proc` that fails with
`tuple concurrently updated`, `tuple concurrently deleted` or a duplicate key,
and a deadlock detector. `Crash` stands for user SQL that raises, a lost
connection and a killed process; `Commit(p, FALSE)` for a commit whose
acknowledgement is lost. `Repeat` runs a command again, as `pg-web dev` does.

`MCPush` gives the six trees: one with a template, an asset and the migrations 1
and 2, pushed with `--with-migrate`; one that replaces the framework's own route
and sets the env; a dry run with `--with-migrate` and migration 1; an older
checkout with a misspelt handler and migration 1; one that does not parse; and a
bare `migrate apply` of another branch, which has the migrations 2 and 3.

### DevWatch: the watcher and a developer

The tree has one page (`html` and `sql`, siblings, so one route entry), a
stylesheet under `public/` and one ignored path. The developer saves, deletes
and moves files away at any time, also in the middle of a batch and of a push.
`events` is what the debouncer has not delivered, `hashes` the map of
`event_loop`, `changed` and `preflight` are `changed_all` and `changed_sql`, and
`got` is what the running push has read of the disk. A push is two steps,
because it reads the disk twice: `PushReads` (scan, `validate_templates`,
`scan_public`) and `PushCommits` (`apply_entry` executes the handlers and reads
the templates again). What a push does to the rows is Push's subject; here it
commits what it read or changes nothing. `tab` is an open browser tab.

| Action | Code |
|---|---|
| `Watch`, `UpFails`, `CtrlC` | `dev`, `watch` |
| `Stop`, `Recv`, `TimesOut`, `WatcherError`, `Disconnected`, `Abort` | `event_loop` |
| `ScanEvent`, `Preflight`, `PreflightFails` | `handle_batch`, `preflight_sql`, `classify`, `is_pages_sql` |
| `PushReads`, `PushCommits`, `PushAborts` | `push::push` |
| `NotifyLivereload` | `livereload_kind`, `notify_livereload` and the script in the tab |

The stop flag is read before a receive, not with it: after Ctrl-C one more batch
may be handled. `TimesOut` needs an empty `events`, because the receive waits
500 ms and the debouncer holds an event for 200 ms. `WatcherError` prints an error
of the OS watcher; that such an error may stand for events that are lost is not
modelled, and a lost removal would leave its hash recorded.

### Routes: from a directory to the page that answers

Names are short sequences of the characters the rules tell apart. `Scan` is
`paths::scan` with the stem and segment rules, `ApplyEntry` creates the function
a page's file creates (spelled plainly, quoted, or under another name, with the
right arguments or others, which make an overload) and upserts the route,
`Commit` validates every handler first, name, arguments and return type,
`BuildSnapshot` parses and sorts the table, `Serve` looks a request up and calls
the function. `eacute` stands for letters beyond ASCII, which Postgres takes
unquoted and `is_safe_ident` does not: `PushedIsCallable` says that a pushed page
answers 500 exactly when its handler's name has one. The
SELECT has no ORDER BY and the sort is stable, so every order the comparison
allows is tried. Postgres' folding of unquoted names is external. Left out are a
file that creates another page's function, and handlers that earlier pushes left
in the database (the database is empty before the push; Push has those).

### Splitter: the statement scanner of `pg-web check`

The scanner of `split_sql_statements` character by character, with its five
state variables, and `finalize_statement`. The reference, `PgTokens`, is how
Postgres cuts the same text: a token begins where another ended. `Plain` names
the texts on which the two agree; outside it the scanner differs (see below).
Three things of the real lexer are not in `PgTokens`, and on texts with them
nothing is claimed: escape strings (`E'it\'s'`), a `$1$` that is no tag because
it begins with a digit, and `BEGIN ATOMIC` bodies with terminators of their own.

## Runs

| Run | Bounds | States | Shows |
|---|---|---|---|
| `reload` | 2 pushes, 1 failure | 222 k | `StaleIsOwed`, `ReloadEventSeesPush`, `PageIsOwed`, `PostTxEnvIsHit`, `NotifyInvalidates`, `ImplementsServed` |
| `request` | 2 requests, all methods, 7 handler results, 3 timeouts, 1 env write | 696 k | `FailedHandlersLeaveNothing`, `OneCancelPerTimer`, `HeadMirrorsGet`, `InternalsAreCurrent`, `ThreadReleased` |
| `worker` | 3 connections | 734 | `NoEarlyExit`, `ExitsAfterSigterm`, `SelfHeals` |
| `push` | 2 pushers, 6 trees, 3 pages, 3 migrations, 3 attempts, 2 repeats | 155 k | `SourceOfTruth`, `FrameworkRouteStays`, `MigrationsOnce`, `MigrationsInOrder`, `PushIsMigrated`, `DeployedOnce`, `DryRunIsSilent`, `PushEnds` |
| `dev` | 3 edits, 1 failure | 1.36 M | `LivePageWorks`, `EditReachesDb`, `TabCatchesUp`, `StopEnds` |
| `splitter` | all texts of up to 4 characters, six families of up to 7 | 364 k | `SplitsAtTopLevel`, `TrustsHeadsOnly`, `KeepsText` |
| `routes` | the trees and paths of `MCRoutes` | 178 k | `MostSpecificPage`, `OwnHandler`, `PushedIsCallable`, `CapturesBound` |
| `reload_lost` | as `reload` | | violated: a lost NOTIFY leaves the snapshot stale for ever |
| `request_timeout` | as `request` | | violated: a request whose handler is cancelled gets no response |
| `push_dangling` | as `push` | | violated: a concurrent push loses its handlers |
| `dev_template` | as `dev` | | violated: a template saved during a push goes live unparsed |
| `splitter_trusted` | as `splitter` | | violated: a `$` in an identifier hides a trusted statement |

Why the bounds are enough to meet the interesting cases. Two pushes are what it
takes to have a stale snapshot, a fresh one and a build that mixes them; one
failure to lose a notification before, between and after the LISTENs. Two
requests show what one leaves for the next (timer, cancellation, transaction,
env); one env write before, at or after the end of the transaction is what a
stale choice of the error page needs. Three
connections can be a handler, a stream that is registered and one that missed
the notification. With two pushers and two repeats one process can meet three
commits of the other, so that retries are exhausted; every kind of conflict,
the deadlock included, ends some push of that run. Three migration files are
enough for two branches that share one and each have one of their own, so that 1
is applied after 2 and 3. Three edits are a change, a
second one while the first is being handled, and a removal or a change back;
one failure aborts any step of a batch. The texts of the splitter are long
enough for a tagged string with a terminator in it (seven characters), for
adjacent strings and comments, and for a head after a name with a dollar sign.
The trees of `MCRoutes` are every pair of files out of all that the rules tell
apart (captures, marks, separators, upper-case and non-ASCII letters, spellings,
arguments, stems), and every triple of those whose patterns or names compete.

Each of the violated properties is a sentence of the repository's own
documentation, quoted at the definition and in `PROJECT.json`.

### Fairness

- ReloadCache: a request that has begun ends, because `request_timeout` bounds
  its handler; the server answers LISTEN; the tasks of the side channel are
  strongly fair, since the runtime polls every ready task between two requests.
  Pushes, failures and new requests are not fair.
- Request: strong fairness of a request's own steps (the thread runs what it
  holds, and polls a connection whose body has arrived), and of the timer when a
  handler blocks. With `request_timeout = 0` nothing is assumed to end a handler.
- Worker: the postmaster restarts a failed worker, the runtime comes back to its
  timers whenever the thread is free infinitely often, streams are polled. That
  handlers end (`HandlersEnd`) is justified by `request_timeout` alone; with it
  set to 0 a stuck handler disables the SIGTERM poll and the drain cap.
- Push: a process that is not waiting goes on, and Postgres finds deadlocks.
  Crashes and repeats are not fair.
- DevWatch: weak fairness of the watcher's thread as a whole, no more: nothing
  makes the developer save or press Ctrl-C, and failures need not happen.
- Served: a view that misses an announced version is given up. ReloadCache's
  fairness implies it, which is what `ImplementsServed` checks.
- Splitter and Routes state safety only.

## Proofs

`ReloadCacheProofs` proves for every number of pushes and failures `TypeOK`,
`StaleIsOwed`, `ReloadEventSeesPush`, `PageIsOwed` and `PostTxEnvIsHit`. The inductive
invariant adds to them what the code relies on without saying so:

- `NoneAhead`: nothing in the snapshot, the queue or the open request is newer
  than the database;
- `OpenTxOwed`: every push that committed while the open transaction runs still
  has its NOTIFY queued or lost. This is what makes a stale build harmless, and
  it holds because the tasks that handle notifications cannot run before the
  request ends;
- `ReloadFirst`: in the queue, the livereload event of a push comes after its
  reload notification;
- `PublishedNotQueued`: once a livereload event is published, the reload
  notification of that push is no longer queued;
- `WarmHasSnapshot`: between the warm-up and the response there is a snapshot;
- `ChosenOwed`: every push newer than the route or template the open request
  has chosen is still owed. From it follows `PageIsOwed`: a page that mixes two
  pushes is only ever answered while the NOTIFY that ends the mixture is queued
  or lost.

`ReloadHistoryProofs` proves the safety half of the refinement
(`HSafeSpec => Abstract!SafeSpec`), again for every number of pushes and
failures. Beyond the invariant above it needs `FloorBelow`: the open request's
transaction, from which a snapshot may be built, began no earlier than the last
invalidation, so a new snapshot cannot be older than what was committed then.
Each action is then shown to be a `Publish`, `Take`, `Miss` or `GiveUp`, or to
leave the mapped variables unchanged; `Restart` gives up the view and misses
what was queued in one step. The liveness half stays with TLC.

`RequestProofs` proves for every set of requests `TypeOK`,
`FailedHandlersLeaveNothing` and `OneCancelPerTimer`. The invariant `Places` ties
the shared state to the places of the requests:

- `Holder`: exactly the requests between `Begin` and the response hold the thread;
- `TimerHeld`: an armed timer belongs to a request whose guard is alive, and no
  cancellation is pending then, because arming runs statements;
- `PendingOwed`: a pending cancellation is that of a request which is still served
  or was answered, and any other request that is served has run no statement
  yet. This is what limits a late timer to the next request's first statement;
- `Charged`: a timer that has cancelled somebody is used up, its request over;
- `Uncommitted`, `Settled`, `Raised`: writes, committed or not, are those of a
  handler that returned in a transaction that was not cancelled;
- `EnvSince`, `ShownSince`: the env row's value, and the one an error page holds,
  are among those since the transaction ended. From them follows the action
  property `InternalsAreCurrent`.

It also proves `HeadMirrorsGet`, for every set of requests at once. What `Plan`
computes for a method fixes the outcome (`Final`) because the site does not
change, and `OnCourse` says how far a request has come towards it, place by
place; a HEAD and a GET that are both answered have then come to outcomes that
`Final` relates.

`WorkerProofs` proves `TypeOK` and `NoEarlyExit` for every set of connections,
with `DrainStarted`: `shutdown_signal` has returned only after SIGTERM, and the
accept loop of a serving worker ends only after `shutdown_signal`.

`DevWatchProofs` proves `TypeOK` and `LivePageWorks` for every number of edits and
failures. Its invariant adds `BatchPending` (a batch that is looked at has an
event left) and `BetweenReads`: between the two reads of a push no page file has
been read, and a listed template parses or was saved since.

`PushProofs` proves every safety property of Push for any number of pushers,
pages, files, migrations and attempts. The steps of a pusher are first brought
into a few shapes (`Shapes`: it moves on, rolls back, runs a migration file,
writes a row, enters a phase, waits, commits), and each invariant is shown to
survive each shape:

- `LInv`: two transactions never hold one row, a migration that was run and not
  committed is the first file of its own tree that is missing from the ledger,
  every missing one of that tree is still to be run, and whoever is past the
  migrations has none pending, also when a retry starts over. `MigrationsOnce`,
  `MigrationsInOrder` and `PushIsMigrated` follow;
- `Course`: only a push gets into the deployment's transaction, no dry run into
  the migrations, and nothing is deployed before the end. `DeployedOnce` and the
  action property `DryRunIsSilent` follow;
- `Upserted` and `Reconciled`: what the push has passed is written in its view,
  and what it has passed of the reconciliation is gone from it, unless another
  push committed in between (`disturbed`). At the commit this is `SourceOfTruth`,
  whose second half is for pushes that committed undisturbed;
- `SparesDefault`: while the framework's route is there, no transaction holds it
  but one of a tree with that page, and no reconciliation has it on its list. The
  action property `FrameworkRouteStays` follows.

`RoutesProofs` proves every property of Routes for all trees, paths and names of
any length. `Pushing` ties the push's transaction to the files it has applied,
`TableOK` says that the worker's table lists the committed rows, sorted for GET
and POST, and `ReplyOK` that the answer is the one the table gives. Two facts are
about the text formats: a handler's name can be read back into the directory
it was made from when the names are clear (`ClearNames`), which gives
`OwnHandler`; and the patterns of the pages a request names are exactly the rows
that match it, with as many static segments as the page has literal
directories, so that the first match of the sorted table is a page
`MostSpecificPage` allows. `CalledIfAscii`, that a validated handler is called
unless its name has a letter beyond ASCII, gives `PushedIsCallable`. Directory
names are assumed not to be empty.

`SplitterProofs` proves every property of the passing run for texts of any
length, `TextIsKept` for all texts and `CutsWherePostgresDoes` and
`HeadsOnlyBypass` for the plain ones, about the tokens of `PgTokens`. The argument has three parts:

- the tokens are a chain (`TokenChain`, `TokensApart`, `NextToken`), and where each
  kind of token ends is worked out once (`LineEnds`, `QuoteEnds`, `StringEnds`, ...);
- `Mode`: the scanner is at the beginning of a token with all flags down, or
  inside one with exactly the flag of that kind of token up. A doubled quote
  is the end of one string and the beginning of the next for Postgres' tokens
  and one step for the scanner. Every branch of the loop copies characters that
  are no terminator of `PgTokens` (`Scans`), but the one that cuts;
- `ProbeAt`: the loop of `finalize_statement` stops at the first token of the
  statement that is not blank. Then `PInv` says that the open statement begins
  behind the last terminator, and that the finished ones account for all
  terminators and heads before it.

The prover has no induction over data. Where a recursive function had to be
unfolded (`PgTokens`, `Probe`) or a sequence run through, the induction is over the
set of the numbers a fact holds of, with the least element of its complement
(`LeastExists`, `CountingUp`).

The assumptions are those of the modules' `ASSUME`s: bounds are naturals, and the
special values differ from ordinary ones. All invariants of the passing runs are
proved, and all properties of the form `[][A]_vars`. Only model-checked is what
needs liveness or fairness, which is outside the prover: `NotifyInvalidates`,
`ThreadReleased`, `ExitsAfterSigterm`, `SelfHeals`, `PushEnds`, `EditReachesDb`,
`TabCatchesUp`, `StopEnds`, and the liveness half of `ImplementsServed`.

## Known deviations

Behaviour that the models have because the code has it, against what a comment
or document says, besides the five violated runs:

- A timer that fires after its request's last statement is not withdrawn by the
  guard's drop, and cancels the next request, or a health probe, instead
  (request_timeout.rs:38-46; request_timeout.rs:57 says "disarms on drop", and
  docs/THREAT-MODEL.md:39 calls the timeout per-request). `OneCancelPerTimer`
  bounds the damage.
- A malformed `request_timeout` unwinds every request (router.rs:95; the comment
  at router.rs:99 expects the error to be ignored).
- Once a tree with a page for `/health` has been pushed, nothing brings the
  framework's own route back: reconciling deletes the user's row and the seed is
  part of CREATE EXTENSION (push.rs:702-710; schema.rs:221-223 says the default
  is gone "until the user route is deleted and another push reconciles it away").
  `SourceOfTruth` therefore asks for no such row, and `FrameworkRouteStays` says
  how it can get lost.
- Migration files are applied by membership in the ledger: a file that arrives
  with another branch is applied after later ones (migrate.rs:49-53; migrate.rs:6
  says "Applied in lexical filename order", which holds within one tree,
  `MigrationsInOrder`).
- A page whose rendering fails after its handler returned is answered with 500
  and its handler's writes are committed (router.rs:417; docs/ARCHITECTURE.md:121
  says "No partial state ever commits").
- OPTIONS is answered like a miss: `list_allowed_methods` reads columns 0 and 1
  where SPI counts from 1 (router.rs:666; router.rs:119 promises 204 and Allow).
- With `request_timeout = 0` a handler that does not end keeps the worker from
  exiting (worker.rs:263 says a stuck handler cannot force a SIGKILL).
- Between a push and its NOTIFY a page may combine the old route and template
  with the new handler (docs/CACHING.md:12 excludes torn state); `PageIsOwed`
  bounds how long.
- The watcher compares with the last content it saw, not with what was pushed
  (dev.rs:23): after a failed push, saving the same bytes again does nothing,
  and a file put back to an earlier content after it was moved away is skipped
  (`restored`). A `public/` created after the start is not watched. The reload
  after a failed push may be for stylesheets only although a page went live with
  it. `dev` forces env to development and the next push sets it back from
  pgweb.toml.
- Directories `a__b` and `a/b`, or `$a` and `[a]`, give one handler name, and the
  last one wins (`ClearNames`). A directory `:a` becomes a capture; one with a
  colon elsewhere is pushed and then silently left out of the table (`NoColons`;
  router.rs:477 says "a clear error, not a silent mis-match"). A handler that is
  created under a quoted name with upper-case letters or a hyphen passes
  validation and answers 500 (`AllPlain`). So does any handler whose name has a
  letter beyond ASCII: CREATE FUNCTION and `validate_handler` take it unquoted,
  `is_safe_ident` refuses it (router.rs:560-577; push.rs:9-13 validates so that no
  route would "surface as a 500"). The request must carry the letter unencoded;
  a percent-encoded path is not decoded and finds no such route.
- The splitter takes any text between two dollar signs for a tag, sees comments
  inside dollar-quoted bodies, ends nested block comments early, takes `/*/` for a
  whole comment when it looks for the head, and after a tag with a two-byte
  character skips one character too many, which loses text (`Delimited`, `Plain`,
  `WideInTag`; `KeepsText` and `SplitsAtTopLevel` exclude these texts). It ends an
  escape string at its escaped quote, takes `$1$` for a tag, and cuts inside a
  `BEGIN ATOMIC` body; these three are not modelled. check.rs:53-57 says the
  boundaries are "only recognized at the true top level".

## Not modelled

Header filtering, form decoding, HTML injection and error-page wording (text);
the health probes' answers; logging; `pg-web env`, `init`, `up`, `down` (single statements,
I/O and Docker); the checks of `pg-web check` other than the splitter (a parser
call per file); the SQL helper functions; the broadcast buffer's limit of 8, which
only a stream that lags behind a developer's saves meets; asset fingerprints,
which rename assets only; names longer than Postgres' 63 bytes, which
`validate_handler` refuses because the function is created under the truncated
name.

## Plan

1. ReloadCache, Request, Worker, Push with their runs (done).
2. DevWatch, Routes, Splitter, and the cache as an implementation of Served
   (done).
3. Theorems for every safety property of the passing runs (done).
4. An abstract specification of deployment (one tree at a time, atomically
   replaced) and Push shown to implement it for pushes that do not overlap; the
   safety of it as a theorem.
