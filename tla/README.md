# Verification of gin-ninja

gin-ninja is a typed web framework for Go on top of gin: handlers are Go
functions over structs, the framework binds and validates requests, documents
them as OpenAPI, and brings a server lifecycle, a route cache, timeouts, rate
limits, transactions, sessions, an admin site and a command line tool.

This directory holds TLA+ modules of its parts, the TLC configurations that check
them on small instances, and proofs for TLAPS. Every definition is
translated from the Go source; `PROJECT.json` says from which lines. Where this
file names a line, it is of the source file under `src/`.

- [1. The system](#1-the-system): components, state, what makes each one hard
- [2. The modules](#2-the-modules): how state and actions correspond to code
- [3. What is checked](#3-what-is-checked): runs, bounds, fairness
- [4. What is proved](#4-what-is-proved): theorems, assumptions, arguments
- [5. Findings](#5-findings)
- [6. What is not modelled](#6-what-is-not-modelled)
- [7. Plan](#7-plan)

To check: `tlc -config MCLifecycle.cfg MCLifecycle` and likewise for the other
configurations, `tlapm ServerProofs.tla` and likewise for the other `*Proofs`.

## 1. The system

| Component | State | Operations | Hard behaviours | What makes it correct |
|---|---|---|---|---|
| Lifecycle (`lifecycle.go`) | `starting`, `generation`, `shutdownGeneration` under a mutex with a condition variable; the current `http.Server`, `accepting`; the hook lists | `Serve`, `Shutdown`, `OnStartup`, `OnShutdown` | Serve and any number of Shutdown calls race for one set of hooks; Shutdown before, in and after startup; failing hooks; requests in flight | hooks once per generation and never during their startup; no lost wake-up; every stopped Serve ends |
| Run (`ninja.go` 259-291) | a goroutine, `errCh`, `sigCh` | `Run` | signal against startup, listener failure, drain timeout | the process does not end in the middle of hooks or drained requests; a signal ends it |
| Routes and documents (`ninja.go`, `openapi_cache.go`) | `routers`, the specs, `accepting`, cached documents, under three locks | `AddRouter`, `/openapi.json`, `/openapi-<version>.json` | read under one lock, written under another | frozen while serving; cached documents not stale |
| Router tree, versions (`router.go`, `versioning.go`, `ninja.go`) | the tree, gin's routes, the entries and ids of the documents | `NewRouter`, `Get`.., `Use`, `AddRouter`, `UseGin` | routers that are shared, nested, extended after they were nested; paths joined in two ways; a panic half way | every route guarded by what is above it, documented where it is served, with an id of its own |
| Operation contract (`operation.go`, `openapi.go`) | the fields of an operation | the options, `serializeResponse`, the documented responses | options in any order; document and serializer look through the same fields in different orders | what the framework makes of a request is in the document |
| Model schemas (`modelschema.go`, `schema.go`) | the registered components | filters of output, input and preloads | types that refer to each other, names made of filters | document, answer, preload and input agree about each field |
| Binding (`binding.go`, `openapi.go` parameters) | one request | `bindInput` | precedence of places, zero against absent, body against tagged fields | a field is read where it is documented; a default replaces nothing that was sent |
| Operation pipeline (`operation.go`, `operation_limits.go`, `cache.go`, `orm/transaction.go`, `middleware/recovery.go`) | for each request: two goroutines, the writers, the context, the transaction | a request through Recovery, `wrapCache`, `wrapTimeout`, `WithTransaction`, the handler | handler that outlives its request, panic, context that ends at any point, error in the middle | success means committed; no transaction left open; only successes cached; one complete answer |
| Route cache (`cache.go` 262-560) | entries by key, ETags, the copies of clients | `wrapCache`, `CacheInvalidator.Delete` | answers computed before an invalidation and stored after it; ETags of another user | an answer was made for who gets it; nothing older survives an invalidation but what was in flight |
| MemoryCacheStore (`cache.go` 62-261) | a map, a list, an index, one RWMutex | `Get`, `Set`, `Delete`, `DeleteMany` | `Get` takes the lock twice and reads the clock in between | it is a bounded LRU cache with expiry |
| Rate limiter (`operation_limits.go` 17-99) | a bucket per client, `lastPrune` | `allow`, prune | time stamps taken before the mutex; prune forgets credit | the rate in every window; nobody paced is refused |
| Sessions, CSRF (`middleware/session.go`, `csrf.go`) | the cookies of a browser; data, dirty and persisted flags of a request; the secret | load, `Set`, `Delete`, `Save`, the wrapper of the writer; token issue and check | changes around the first byte, overlapping requests, several open forms, restarts | a change in time reaches the browser; an open form can be submitted |
| The chain (`middleware/`, `errors.go`, `security.go`) | the gin context, headers, status | requests through any order of middleware | refusals, panics and timeouts at any place in any order; what `c.Next` returns to | one answer, logged as it was sent |
| Lists (`filter`, `order`, `pagination`, `orm/cursor.go`) | a client's position | filter tags, sort, pages, cursors | rows that come and go between pages, ties, overflow | a list read to its end is complete and holds what was asked for |
| Admin writes (`admin/admin.go`, `admin/runtime.go`) | rows of a resource; for each request a transaction and its `scopedDB` | create, update, delete, bulk delete under row permissions | each is several statements with other writers between them, at the isolation the database has | what is written lies in the user's scope; a deletion counts once; partial updates keep the rest |
| Admin reads (`admin/`) | resources, their fields and modes, relations | `Register`; index, stats, search, metadata, list, export, detail, options | relations completed as resources come in any order; permission by action, field and row | what metadata offers works, and nobody sees what is not theirs |
| Settings, bootstrap (`settings/`, `bootstrap/`) | the configuration, the dialector registry | `Load*`, `RegisterDialector`, `InitDB` | precedence of files, environment, placeholders and defaults | the database that is configured is the one opened |
| Migrations (`cmd/gin-ninja-cli/migrations.go`) | files, schema, table of applied versions | `makemigrations`, `migrate` | several processes, kills, DDL that commits by itself, old plans, names of one second | schema agrees with the records; order; success means reached |
| Migration files (the same file) | the text of a file | collect, reverse, write, split, execute | literals, comments and markers in SQL; dependencies between objects | read as written; down undoes up |
| The rest | none between requests | code generation, uploads and downloads, helper packages, test client | | |

Components meet in these places:

- A **request** goes through gin's middleware, the operation's rate limit, the
  route cache, the timeout, then binding, transaction, handler, response. The
  session, the cache and the timeout each put a writer of their own in `c.Writer`.
- **Serve** publishes a server that **Shutdown** stops; both then compete for the
  shutdown hooks. **Run** is one goroutine of each kind. Serve also sets
  `accepting`, under `routesMu`, which is what **AddRouter** looks at.
- **AddRouter** changes the specs under `routesMu` and invalidates the documents,
  which have a mutex of their own. What it adds comes from the router tree, the
  options of each operation, and the components of the model schemas.
- The route cache talks to a **ResponseCacheStore**; MemoryCacheStore is the one
  in the repository.
- **migrate** processes share only the database and the directory.

The hazards that follow from these, each at its line, are in `PROJECT.json`
under `hazards`, with the properties that cover them or the reason why none does.

## 2. The modules

| Module | Models | Uses |
|---|---|---|
| `Lifecycle` | `lifecycle.go` | |
| `RunLoop` | `Run`, composed with `Lifecycle` | EXTENDS `Lifecycle` |
| `OpenAPICache` | `AddRouter`, `startAccepting`, document caches | |
| `RouterTree` | building an API: routers, versions, gin's routes, document entries | |
| `OperationContract` | options against documented and actual answers | |
| `ModelSchemas` | filters, components, serialization, preloads, inputs | |
| `Binding` | `bindInput` against `extractParams` | |
| `Operation` | one operation with any of timeout, transaction, cache | |
| `RouteCache` | keys, users, ETags, invalidation of a cached route | |
| `ResponseCache` | abstract: what a cache store promises | |
| `MemoryCacheStore` | the store of `cache.go`; implements `ResponseCache` | INSTANCE `ResponseCache` |
| `Subsequences` | what removing elements leaves of a list | in both of them |
| `RateLimiter` | `rateLimiter.allow`, `wrapRateLimit` | |
| `Session`, `Csrf` | the session cookie; the double-submit token | |
| `Chain` | a request through middleware and back | |
| `Query` | filters, sort, pages, cursors of one list | |
| `AdminWrite` | the writing handlers of the admin site | |
| `AdminFields` | registration, field modes, relations | |
| `AdminSite` | the reading handlers, and links of a relation | EXTENDS `AdminFields` |
| `Settings` | configuration and database | |
| `Migrations` | `makemigrations`, `migrate` over files and processes | |
| `MigrationFiles` | the text of one migration | |
| `LeastElements` | lemmas: what is said of lists and of functions by recursion without induction | |
| `ServerProofs` | theorems about a program's life: routers, settings, Serve and Shutdown, Run | EXTENDS `RouterTree`, `Settings`, `RunLoop` |
| `EndpointProofs` | theorems about what a client meets: documents, parameters, lists | EXTENDS `OpenAPICache`, `Binding`, `Query` |
| `OperationProofs` | theorems about one operation: transaction and timeout, options and answers | EXTENDS `Operation`, `OperationContract` |
| `AdminProofs` | theorems about the admin site: writes, reads | EXTENDS `AdminWrite`, `AdminSite` |
| `MigrationsProofs` | theorems about `migrate` | EXTENDS `Migrations` |
| `CacheProofs` | theorems about the route cache and the store | EXTENDS `RouteCache`, `MemoryCacheStore` |
| `MiddlewareProofs` | theorems about the rate limiter, sessions, CSRF, the chain | EXTENDS the four |
| `MC*` | the instances for TLC | EXTENDS the module, or several |

Several MC modules put parts side by side that share no state: `MCRateLimiter`
(limiter, session, CSRF, chain), `MCOpenAPI` (document cache, router tree,
contract, schemas, binding), `MCMemoryCacheStore` (store, route cache),
`MCMigrations` (processes, file text, settings), `MCAdminWrite` (writes, reads,
lists). A variable `subject` picks one part in the initial state, the others
stand still: the state spaces add up and do not multiply.

Everywhere, a step is what a goroutine does between two points where another can
interfere: a critical section, a call into user code or into net/http, a database
call. Parts that run in one goroutine have a step for each stage at which
they may end. Definitions that begin with *A plausible bug* in their comment are
not part of any specification; they are mutations, listed under `mutants`, that
show that the properties can fail.

**Lifecycle.** `starting`, `generation`, `shutdownGeneration`, `server`,
`accepting` are the fields of those names. `pc`, `hand`, `pos`, `claimed` are the
locals of the goroutines: where they are, the server in their hands, the next hook,
the generation whose hooks they run. `servers` counts the `http.Server`s; a
server made later than another is another pointer. `SetServer` is the call of
Serve, `BeginStartup` to `EndStartup` is `runStartupHooks` with its deferred
Broadcast, `StartAccepting`, `ServeClosed`/`ListenerFails` and `ClearServer` the
rest of `serve`. `StopServer`, `Drained`, `DrainTimeout` are
`http.Server.Shutdown`: it closes the listener at once (so Serve returns while
requests are still running), then waits for the requests or for its context.
`WaitForStartup` to `HooksDone` is `runShutdownHooks`, the same code for Serve
and Shutdown. `ran` is history: which hooks ran for which generation. Results of
hooks are only collected with `errors.Join` and are left out.

**RunLoop.** `run` is where `Run` is, `errCh` and `signalled` the two channels.
The serve goroutine is `Lifecycle`'s, the only Shutdown caller is `Run`.
`drained` is history. `SelectError` and `SelectSignal` are the two cases of the
select; with both ready either is taken.

**OpenAPICache.** `routesMu` is a reader/writer lock as the set of its holders.
`AddRouter` looks at `accepting` and takes the lock, `RegisterRouter` mounts,
`Invalidate` drops the documents and unlocks. `main` and `version` are the cached
documents, as the sets of routers they list. `MainBuild`, `MainStore` and
`VersionBuild`, `VersionStore` differ as the code does: the first releases
`routesMu` before it stores. The Go lock lets waiting writers go before new
readers; the model allows either order, which has more behaviours.

**Operation.** A response is abstracted to who wrote it: the handler (`"ok"`,
`"large"`, `"huge"` by its size against the two limits), an error, the 408, the
500 of Recovery, a 304, or nobody (`"none"`, which gin sends as an empty 200).
`original`, `capture`, `recorder` are the three writers and `writer` is which of
the first two `c.Writer` is. `pc` is the request goroutine, `hpc` the handler's;
with a timeout the handler has a goroutine of its own and a copied context.
`ctx` ends by the deadline of the timeout or by the client going away; `"over"` is the
`cancel` that `wrapTimeout` defers, which nobody waits for any more.
`tx` is the transaction as the database sees it: `SqlRollsBack` is
`database/sql`, which rolls back by itself when the context of BeginTx ends.
`txKey` is the entry in the gin context that `WithTransaction` joins.

**ResponseCache and MemoryCacheStore.** Abstractly, a line of entries ordered by
last use: `Use` is a hit, `Store` makes room, `Reap` removes an expired entry.
Concretely `items`, `order`, `entries` are the three structures; `GetRead`,
`GetClock`, `GetReap`, `GetPromote` are the parts of `Get` between its locks. The
refinement mapping reads the line off `order` and `items`. Between the parts of
`Get` nothing is promised but stuttering, so a `Get` takes effect where it
promotes or reaps, and a promotion of a key that has gone meanwhile is a stutter.

**RateLimiter.** Credit is counted in ticks, so that it stays an integer: a
bucket gains 1 a tick, a request costs `Cost` (the inverse of the rate), a full
bucket is `Burst`. `stamp` is `time.Now()` of `wrapRateLimit`, an argument
evaluated before the mutex; `MaxDelay` bounds how late it gets there. `start`,
`spent`, `grant` are history of one watched client: `OpenWindow` can start a
window at any time, so the property is about every window.

**RouteCache.** `kept` is the store by key (method and user: the URI is one, the
user stands for the Authorization header), `calls` the request of each client
between `Miss`, `Compute` and `AnswerAndKeep`, `copies` what a client keeps with its
ETag. `Invalidate` is `CacheInvalidator.Delete`; `late` and `cleared` are history.

**Migrations.** `files` is the directory (second, name, objects created),
`db.schema` the objects in the database, `db.applied` the version table.
Which objects a collection finds is any subset (`MakeCollect`), as the models of
a program may be. `MakeCollect` and `MakeWrite` are `makemigrations` before and after the name is
chosen, `Merge` a file of another branch. A migrate process loads the files (the one
list of them that is `Sorted`),
makes its plan (`MakePlan`), and for each migration begins, executes, records,
commits; `Exit` is its end for any reason at any point. Two kinds of database:
in a `"transactional"` one (SQLite, Postgres) what a transaction wrote is a
draft, and a second writer waits, which is SQLite's lock (Postgres locks tables
and rows, and so lets more writers go on); in an `"autocommit"` one (MySQL) each
statement is final. `crossed` is history that tells when anything was rolled
back and when one process rolled back while another applied.

**AdminWrite.** `db` is what is committed, `lock` and `draft` what running
transactions have written; a request commits or rolls back as a whole, as
`WithTransaction` does (`Commit`, `Abort`). Each statement of a handler is an
action: `Insert`, `Find`, `Probe`, `Update`, `Reload` for create and update,
`FindAll`, `Take`, `ProbeDelete`, `Remove` for the deletes. `Fails` is every error
return. `Visible` is the scope of `scopedDB`; a row's `owner` stands for the
column it depends on, `name` for the others. `View` is what a SELECT sees at
either isolation level of MySQL, `Current` what UPDATE and DELETE see. `pinned` is
GORM's: conditions stay in a `*gorm.DB` that `db.Where` returned, so that
`scopedDB` narrows down with every query (`Asked`). A relation in a payload
counts only in so far as it makes `ColumnsFor` return all columns. A create has
to name both columns.

**RouterTree.** `tree` is the routers with their operations, sub-routers and
guards, `engine` gin's routes, `documents` the entries and operation ids. What
`registerRouter` hands down from level to level (the path as the documents write it and
as gin joins it, the version, the middleware of the group) is a function of the
chain of routers that leads to an operation; `Found` is its recursion, which lists the
operations with their chains in the order they are registered. `Mount`
stops at the first route gin has already, leaving what was registered
(the program panics). `NewRouters` stands for all calls of `NewRouter`.

**OperationContract.** `contract` is the operation with the fields the options
set; `GiveOption` applies any option. `Content` follows `buildOperationSpec`,
`Serialize` follows `serializeResponse`; a body is its envelope and the model in
it. `Refusals` are the answers of guards, of binding, wrappers, transaction and
Recovery, and of the handler; `WriteError` makes the status of the handler's error, with
the default mapper. An answer says whose it is (`by`). The document has 422 and 500, 408
with `Timeout`, 429 with `RateLimit` and what `Response` declares; of the statuses that the
program's own code chooses it knows nothing else. So `AnswersAsDocumented` excepts
(`OwnStatus`) the refusals of the middleware of `SecurityMiddleware`, the codes of `*Error`s
(`HandlerCodes`), and the 408 of a deadline that a handler ran into without `Timeout`; what
it says of headers holds of them too. `Fitting` names the combinations that make sense for
a handler: the code does not check them.

**ModelSchemas.** A name is a sequence of words, so that the `_` which both joins
fields and occurs in them is kept. `Component` registers what a reference needs, as
`schemaForDescriptor` does, a placeholder first; `Serialized` and `Marshalled` are
what is written, `Preloads` what is loaded, `Applied` what an input writes. `Clash`
names the references that the code cannot tell apart.

**Binding.** A request says one of five things of a field at each place (absent,
empty, zero, a value, one that does not convert), and only where a field was set
from and whether it is zero is kept. The stages are those of `bindInput`, with its errors:
a form that does not parse, a text or a default that does not convert. A tag `-` (`dashed`)
takes a field out of query, form and files, but is a name like any other for path, header
and cookie (`NamedDash`).

**Session, Csrf.** `Session` has the cookie `jar` of one browser and for each
request its `data`, the `dirty` and `persisted` flags, whether its response has
`begun`, and the `cookie` in it; each method of the wrapper is an action, and
`FlushBody` is gin's own `Flush`, which the wrapper does not override. `change` is
history: whether the last change came in time. `Csrf` has the browser's cookie, the
tokens in its open `pages` and its requests; `CheckToken` is the middleware.
`excused` is history: the cookie was lost, two first requests overlapped, or the
server drew a new secret. Signatures are valid or not.

**Chain.** `next` and `frames` are gin's index and the calls of `c.Next` that have
not returned. `Does` says of each middleware which keys and headers it sets and
with what it may refuse; `Unwind` is a panic, in which only the deferred part of
Recovery runs. `captured` is the writer that `wrapCache` leaves behind (finding 3).

**Query.** `listing` is a client's reading of a list, `stayed` the rows that were
there all the time. Rows equal under ORDER BY come in any order (`AnswerOrders`).
The integer division and saturation of `Offset` are the code's, `MaxInt` a constant.

**AdminFields, AdminSite.** `prepared` is what `prepare` makes of a resource:
which field takes part in which mode, and its relations. Tag settings sit in a Go map
and are applied in its order, so of two that contradict each other either may win.
`Register` completes the relations of all resources, as the code does; a resource
registered again under a name that is taken has lost its own before the error.
`AdminSite` has one operator for each handler and one action that answers a request;
`known` is the metadata a client holds, since it asks for what that offers. A part of a
reply has `rows`, the `fields` that `serializeFor` shows of each, and `beside` them the
fields whose values the handler adds itself: the key and the label of a search hit
(`LabelOf` is `searchLabelFor`), the value and the label of an option. `LabelOf` takes
only fields left to the user, or the key; `handleRelationOptions` looks value and label up by the
names in the relation, and shows them whether or not their fields are left to the user.
`ShownIsAllowed` says so, and compares with `Left`, which is not what the handlers use.

**Settings.** The stages of `Load`, `LoadWithOverrides` and `LoadForEnv`, then
`InitDB`. A value is a literal or a placeholder; `ValueOf` is viper's precedence
with both expansions. `RegisterDriver` registers names until one is taken.

**MigrationFiles.** A text is a sequence of the symbols the splitter looks at:
quotes, comments, dollar tags, semicolons, line ends, markers, and statements as
[verb, table, name, to]. `Works` and `Effect` are the database, an external, in as
far as objects depend on each other.

## 3. What is checked

A type invariant may also hold shape invariants: who holds a lock, in which
places a variable means something. Small statements about one hazard are conjuncts
of the property named here; the definitions tell them apart.

| Run | Distinct states | Properties, in short |
|---|---|---|
| `lifecycle` | 238 000 | nobody waits for a broadcast that is over (`NoLostWakeup`); hooks in order, none twice (`HooksRunOnce`), after their startup (`ShutdownAfterStartup`); registered hooks run (`RegisteredHooksRun`), Shutdown returns and ends its Serve (`ShutdownEndsServe`) |
| `runloop` | 2 500 | Run does not return in the middle of hooks or, drained, of requests (`NothingCutShort`); a signal that finds the server ends Run (`SignalEndsRun`) |
| `openapi_cache` | 980 000 | routes frozen while accepting (`FrozenWhileAccepting`); version documents never stale (`VersionDocumentFresh`); routes guarded by all that is above them, ids of their own (`MountedAsWritten`); what the framework makes of a request is in the document (`AnswersAsDocumented`); what is documented is served, and components, preloads and inputs agree with what is serialized (`DocumentsKeepTheirWord`); inputs come from where they are documented (`InputsAreRead`) |
| `operation` | 259 000 | a success is committed, a failure is not, no transaction stays open (`TransactionsMatchAnswers`); somebody's answer to everyone, no failure cached (`AnswersAreWritten`); timeouts are answered, late handlers silent (`TimeoutIsTheEnd`) |
| `memory_cache` | 295 000 | the three structures agree and are bounded (`StoreConsistent`); the store implements `ResponseCache` (`ImplementsCache`); cached answers are one's own and survive no invalidation but in flight (`CachedAnswersHold`) |
| `rate_limiter` | 2 600 000 | burst and rate in every window (`WithinRate`); a paced client is not refused (`PacedIsAllowed`); changed sessions reach the browser (`SessionReachesBrowser`); open forms work (`OpenFormsWork`); one answer per request (`AnsweredOnce`) |
| `migrations` | 2 457 000 | schema agrees with the version table after failures and kills (`SchemaMatchesRecords`); files kept, in order, read as written, undone by their down section (`MigrationsAreFaithful`); success means reached (`SuccessMeansReached`); the configured database is opened (`OpenedIsConfigured`) |
| `admin_write` | 765 000 | row permissions hold before and after each committed change (`ChangesStayInScope`); a deletion is counted by the request that did it (`DeletionsCountedOnce`); a partial update keeps what others wrote (`PartialUpdateKeepsTheRest`); metadata is honoured, and reads show rows and fields that are left to their user, but for the value and label of options (`ReadsKeepTheRules`); lists are complete (`ListsAreComplete`) |
| `runloop_early_signal`, `operation_empty_cached`, `operation_panic_cached`, `openapi_cache_stale` | | each refutes one statement of the documentation or tests, see [Findings](#5-findings) |

### Bounds, and why they are enough

- `lifecycle`: two Serve calls in a row are the fewest in which a leftover of one
  generation can meet the next; two Shutdown callers race with each other and with
  Serve; two shutdown hooks have an order, one can be registered in the middle;
  one startup hook is before, during and after; one request can hold up a drain.
- `runloop`: Run calls Serve once. Two requests, two hooks of each kind.
- `openapi_cache`: two routers of one version and one without, two goroutines
  that add, two readers: a reader can be overtaken twice. Router tree: three
  routers, of each kind (no well-formed prefix, a guard, a prefix shared with
  another), and three calls that add to them, which is enough to share a router,
  to nest it into itself, and to add to one that is nested already. Contract: three
  options in any order over handlers of all envelopes: three can replace each other
  and be replaced; an `*Error` without a code and one of 404, a guard that says 401. Schemas: users and posts that refer to each other, and a Post of
  another package; ten references. Binding: one field at each place next to one of
  the body, under every text, a field with several tags, tags `-`, and a default that
  does not convert.
- `operation`: all eight combinations of options; of two requests, one can fill
  the cache that the other reads. Requests share nothing else.
- `memory_cache`: three keys for two entries make evictions; two Gets and four
  Sets suffice for a Get that is overtaken by an eviction, a new Set of its key,
  and another eviction; responses that never expire and those that do at once.
  Routes: two clients, two users, one change of the data: an old and a new answer.
- `rate_limiter`: one client can prune another; two requests can swap their
  stamps; a bucket of one request and a half has the rounding in it; seven ticks
  with a TTL of five let a prune forget a client and the client come back. Session:
  two overlapping requests, two keys where one fits. CSRF: two requests, three
  tokens, one restart. Chain: the order of the generated project, that of the
  documentation, and all authenticators; the default mapper with and without others.
- `migrations`: two files give order, collisions and prefixes; two processes;
  one object whose reverse forgives and one whose reverse does not. Text: every
  literal or comment around a semicolon, quote or marker, two to a statement;
  every kind of statement in triples, so that a third can depend on the first two;
  three dialects. Settings: every way to name a driver, a DSN or structured
  settings, environments that override and expand, files missing and broken.
- `admin_write`: two requests of every pair of kinds, users and payloads, since
  the properties are about one request and whoever interferes; two rows, for a
  bulk delete needs a next row; a user with a scope and one without. Reads: three
  users, five resources, one of which `prepare` refuses, in three calls of
  `Register`; a label (`title`) in a field that is hidden from one user. Lists: four rows, two of one rank and one of rank zero, two changes
  while a client reads; a `MaxInt` of 15 puts the saturation in reach.

Goroutines and keys are interchangeable where `SYMMETRY` is declared, and no
liveness is checked there. Deadlock is checked except where the system stops: Run
returns (`runloop`), and each request of `operation` and `admin_write` is answered
once. The other MC modules name the states in which a part has ended (`Ended`,
`AllDone`). A deadlock of row locks ends in `Fails`, as the database resolves it.

### Fairness

- `Lifecycle`: goroutines inside Serve and Shutdown run on and hooks return (a
  hook that never does is user code nobody can interrupt). Shutdown's context
  ends, so draining does. Nothing says that Serve or Shutdown is called, that a
  request comes or ends, that a listener fails.
- `RunLoop`: as above, and the goroutine that Run starts gets to run. No signal is
  promised.
- `Operation`: the request goroutine runs, a deadline expires, `database/sql`
  rolls back when a context has ended. The handler is user code and promises
  nothing, not even to return.
- The other modules have safety properties only and assume no fairness.

## 4. What is proved

TLAPS checks these for every value of the constants that satisfies the named
assumptions, with any number of goroutines, clients, hooks and Serve calls.

**MiddlewareProofs, rate limiter.** Assumptions: `RateAssumption` (types, and a burst of at
least one request, which `newRateLimiter` sees to) and `RefillWithinTTL` (a
client idle for the TTL has a full bucket again, delays included). The code does
not check the second: `RateLimit(1, 1000)` needs 1000 seconds to refill and the
TTL is five minutes, so there the prune hands out credit. The theorems are about
the configurations for which it holds. `MaxDelay`, the time between `time.Now()`
and the mutex, is any number; it appears in the bound that is proved.

`WithinRate` alone is not inductive: it counts what was spent and says nothing of
what the bucket still holds. The invariant `Budget` adds, for the watched
client, that what was spent in the window, what is left in the bucket and the
time up to the bucket's last stamp never add up to more than at the opening
(`BucketBudget`); and that while its bucket is forgotten, so that the next
request gets a full one, everything spent was earned by time alone
(`IdleBudget`). `StampsRecent` and `HistoryPast` relate stamps and history to
the clock, because stamps reach the bucket out of order. `PacedIsAllowed` needs
`BucketBounds`: the bucket is no emptier than the time by which its last stamp is
ahead of the latest one let through. `BudgetHolds` states the invariant,
`LimiterKeepsRate` and `LimiterIsFair` follow from it.

**ServerProofs, lifecycle.** Assumption: `LifecycleAssumption` (types; Serve's goroutine
is not among the callers of Shutdown). The invariant `LifecycleInv` is the
conjunction of `TypeOK` and

- `Phases`: which program counters go with which values of `starting`,
  `accepting`, `server`, and that nobody waits without a startup;
- `Numbering`: servers and generations are numbered alike, and a generation is
  shut down only between the end of its startup hooks and the return of Serve;
- `Claims`: whoever runs shutdown hooks has claimed a generation that nobody else
  has;
- `History`: no hook of a generation runs before it is claimed; after that, the
  hooks that have run end where the loop of the claimer stands.

`HooksRunOnce` is about history only and says nothing of who will run next, and so
needs `Claims` and `History`; `NoLostWakeup` needs `Phases`. There is a
lemma for every action, then `NextInv`, then `LifecycleInvHolds`, and from it
`WakeupsAreKept`, `HooksRunAtMostOnce`, `ShutdownFollowsStartup` and `ServeCleansUp`:
Serve leaves an API that can serve again, which is proved and no run repeats.

**ServerProofs, Run.** Assumption: `RunLoopAssumption` besides that of the lifecycle (Run
is the only caller of Shutdown and serves once). The steps of the lifecycle are
those of `Lifecycle`, so `LifecycleInv` carries over; `RunInv` adds when Run is inside
Shutdown (`CallsAreNested`), that the result of serve is sent when its goroutine is
over and that Run waits for it (`ResultIsLast`), and that a server that is drained
takes no request any more (`DrainedIsClosed`). `RunCutsNothingShort` follows:
whichever way Run ends, hooks are not cut off.

**MiddlewareProofs, session.** Assumption: `SessionAssumption` (types; a session lives at
least a tick). For any number of overlapping requests, any keys and limits,
`SessionIsKept`: a session that was changed in time and fits goes back to the
browser as the request left it. The property speaks of requests that have
ended; the invariant `Held` says of one under way what its response would carry
if it ended now: either the change is in the response (`Carried`), or it is dirty,
not persisted and the response has not begun, so that the next of `WriteHeader`,
`Write` and the end of the middleware can put it there (`InReach`). That needs two
small facts, what `persisted` means and that a new request has changed nothing.

**MiddlewareProofs, CSRF.** Assumption: `CsrfAssumption` (types). `FormsAreAccepted`: for any
number of requests and pages, a form that the browser has open passes, unless the
browser lost its cookie or sent two requests without one, or the secret changed.
The invariant tells two times apart: before there is a cookie (`BeforeTheCookie`)
at most one request is under way and no page is open; from then on
(`WithTheCookie`) cookie, pages and requests all hold one token that the server's
secret signed.

**MiddlewareProofs, chain.** Assumption: `ChainAssumption` (the chains are sequences of the
middleware there is). `EveryRequestIsAnsweredOnce`: in any order and number of
middleware and with any error mappers, a refused request reaches no handler and has
the refusal as its only answer, what Logger logs is what was sent, and headers set
before an operation are lost only where `copyHeader` drops them. The invariant says
how often a request was answered by where it is on its way (`OneAnswer`), and that a
refused one was not handled (`RefusedOrHandled`). The exceptions are those of the
findings.

**ServerProofs, settings.** Assumption: `SettingsAssumption` (there is a default DSN, and
no package but SQLite's registers `sqlite` or `sqlite3`, as in `bootstrap/drivers/`).
`ConfiguredIsOpened`: `OpenedIsConfigured` for any files, environment, names of drivers and
packages. Two places drop the default DSN, `normalizeDatabaseConfig` by the name as it
was written and `ShouldIgnoreImplicitDefaultDSN` by the builder; the invariant says
what the first may have done (`DecodedHolds`) and which builders the second is not asked
about (`RegistryHolds`), and `DatabaseFollows` that the second makes up for every name the
first does not know. Without the assumption a program that registers MySQL's builder as
`sqlite` would open `app.db`.

**ServerProofs, routers.** Assumption: `RoutersAssumption` (finitely many routers, ids
that are sequences). `RoutersMountedAsWritten`: for any routers, nested and shared in any
way, and any calls in any order, an operation that is served has all the middleware that
the routers on its way, and the engine, will ever have; and no two operations of a
document have one id. The first is not inductive by itself, since it says nothing about who
may still get a guard: `ServedFromMounted` adds that the routers on the way are all
mounted, unless gin has panicked half-way and the program is gone, and that the engine gets
nothing once a router is mounted. It needs that what `registerRouter` comes to is what
`markMounted` marks, at any depth (`FoundLeadsDown`, `BelowGoesDown`). For the second,
every id of a document is in its set of ids, which is finite, so that one of `id_2`,
`id_3`, ... is free (`MadeUnique`, by the pigeonhole principle), also where an id was given
that looks like one of them.

**EndpointProofs, documents.** Assumption: `RoutesAssumption` (types; the goroutines that
add routers and those that read documents are different ones).
`RoutesAreFrozen`: no route is registered while the server accepts.
`VersionDocumentsAreFresh`: a cached version document lists every router of its
version. Both rest on who holds `routesMu`: an `AddRouter` that has it found the
server stopped and keeps it from starting (`AcceptingLocksOut`), and a reader that
has it holds the document of the routes there are (`HeldIsBuilt`). The document of
the whole API is built under the lock and stored after it was given back, which is
why it has a run with a counterexample and no theorem.

**EndpointProofs, binding.** Assumption: `InputsAssumption` (the fields of a struct
have different names, and tags name places). `DocumentedInputsAreRead`: `InputsAreRead`
for any struct and any request. Each stage of `bindInput` goes over all fields and writes
them in place, so the invariant says of each field alone what it holds after each
stage, as a function of the request (`Body`, `Final`): no field disturbs another, and
neither does the body a tagged field (`FieldsGetTheirs`, `BodyAdds`, `DefaultsFillIn`).
What is left are the rules of `extractParams` against those of `bindRequestFields`,
place by place: `BodyFieldsAreRead`, `TaggedFieldsAreRead`, `ZerosAreKept`.

**EndpointProofs, lists.** Assumptions: `TableAssumption` (finitely many rows, no more than
`MaxInt`) and `PagingAssumption` (types; the default and the largest size are positive).
`ListsStayComplete`: `ListsAreComplete` for any table, filter, sort, page size and any
rows that come and go. By cursor, `CursorsCover` says of a client on its way that up to its
cursor it was named every row that was there all the time, or one of the same rank, that
nothing it was named lies past the cursor, and that nothing came twice; the page that follows
begins where it ends (`CursorPageKeepsTheList`). By page number, `PagesFill` counts what it
was named against the pages it has read, in the order of the database, which is one
order only if the sort tells all rows apart (`OrdersAreOne`); the arithmetic is in
`Quotients`, `PagesCoverTheRows`, `OffsetsBegin` and `WindowsShow`, with the saturation of
`Offset`. `NamedPass` is the filter. That an answer of the database lists each found row once
is `AnswersListTheFound`.

**OperationProofs, pipeline.** Assumption: `OperationAssumption` (types).
`SuccessMeansCommitted`: `TransactionsMatchAnswers` for any number of concurrent
requests under any combination of cache, timeout and transaction. The invariant
says of each request what has become of its transaction by where the handler is
(`HandlerTx`), and that neither the recorder nor the capture nor the original
writer holds a success while that is not committed (`NoFalseSuccess`); the writers
come into it because the answer reaches the client through up to three of them. A
step of one request leaves the others as they are (`OthersKeep`), a response from
the cache is told apart by a handler that never ran.

A second invariant, `AnswerInv`, says what is in which writer by where the request and
the handler's goroutine are (`Writers`, `Goroutines`, `Answer`). From it
`EverybodyIsAnswered`: a client that is still there gets what the handler,
`wrapTimeout` or Recovery wrote, a panic without a cache is a 500 or comes after the
408, and only a success is kept. The exceptions are findings 2 and 3. And
`LateHandlersAreSilent`: a handler that its timeout left behind changes no answer.

**OperationProofs, contract.** Assumption: `ContractAssumption` (types).
`OperationsAnswerAsDocumented`: `AnswersAsDocumented` for any handler and any number of
options in any order: successes, and refusals but for those whose status a guard, an
`*Error` or a deadline without `Timeout` chose. The invariant only adds that the declared answers are a list of
statuses with or without a model (`Declares`), which every option keeps
(`OptionsDeclare`); the rest is a comparison of the two ways through the same
fields. `buildOperationSpec` lists the standard answers and lets `Response` replace those of
its status, so of several the last is documented and no status is hidden
(`StatusesAreDocumented`); `serializeResponse` and `Content` look for page, cursor and model
in different orders and agree where the options fit the handler (`SerializedIsDocumented`,
`SuccessIsDocumented`); a refusal is the program's own or has one of a few statuses
(`RefusalsAre`); what `wrapCache` adds to an answer is in its documented headers.

**CacheProofs, routes.** Assumption: `RouteCacheAssumption` (the versions are numbers).
`CachedAnswersAreGood`: whatever clients, users and versions there are, an answer
from the cache, or a 304, is one's own, and nothing that was kept before an
invalidation survives it, but what was being computed. The property looks at finished
calls; the invariant says it of what is kept (`KeptAreGood`) and of calls under way
(`CallsAreGood`): a body lies under the key of the user it was computed for, and is
older than the last invalidation of the key only if the call that made it was
under way then.

**CacheProofs, store.** Assumptions: `StoreAssumption` (types; room for one entry at
least, as `NewMemoryCacheStoreWithLimit` sees to) and `NoResponseAssumption`. For any
number of keys, goroutines and entries: `StoreIsConsistent`, and
`StoreImplementsCache`, the refinement. What is removed from a list is
modelled by the places that stay (`Picked`), counted rather than walked through, so
that `PlacesAreNumbered` and `PickedIsLeft` need no induction: the places have as many
numbers as there are places, by counting. `Sound` is said of a store rather
than of the variables, so that it can be carried through the helpers that run
one after the other under the lock (`DeletionIsSound`, `EvictionIsSound`,
`PromotionIsSound`, `InsertionIsSound`, `RoomIsSound`); it says that no key is in the
list twice, which is what makes the list as long as the map is large and a
promotion remove one element. The refinement has one lemma for each action:
`SetStores`, `DeleteManyForgets`, `GetReapReaps`, `GetPromoteUses`; the latter two are
where a `Get` takes effect, on what is in the store by then, which need not be what
it has read. `LineOfPicked`, `LineOfAppended` and `LineOfTail` carry what happens to the
list over to the line.

**AdminProofs, writes.** Assumption: `AdminAssumption` (types; finitely many rows).
`WritesStayInScope`, `EveryDeletionIsCounted` and `UpdatesKeepTheRest` are
properties of the step that commits, and rest on what the transaction has locked
until then. `LocksAreEarned` says of each locked row what was committed of it, what the
transaction has made of it, and that its user may see both: the committed row cannot
change any more, since whoever wants to write it has to wait. That is why
it is enough that an update looks at the row again after it was written (`Reload`) and
that a delete writes under the condition of its scope. `DeletionsAreLocks` is the
count: a row counts when it becomes locked, and a row of another's lock cannot.
`HandsAreFull` is what a handler has in its variables by where it is.

**AdminProofs, reads.** Assumption: `ResourcesAssumption` (the fields of a resource are a
sequence). `AdminReadsKeepTheRules`: `ReadsKeepTheRules` for any resources in any
order, any fields and tags, permissions, rows and requests. `RelationsLead` says of
every resource that its relations lead to the resource that was registered for the
model, and once `Register` has completed them, that they are settled (`WellPrepared`); a
resource prepared again under a name that is taken has lost its own until the next
`Register` (`RefusedKeepsTheFields`), which is why the invariant asks about it separately. `KnownIsCurrent`
says that the metadata a client holds is what it would get now, from a resource it may
see, and `SilentUntilMounted` that nothing is asked while resources are still registered,
so that no `Register` comes between metadata and request. Then one
lemma for each handler: what it shows is in the scope of its user and in fields that
are left to him of the mode, and what stands beside it is what the property names (`ListMayBeShown`, `ExportMayBeShown`, `DetailMayBeShown`, `OptionsMayBeShown`,
`LabelsAreLeft`, `HitsMayBeShown`, `SearchMayBeShown`, `CountsAreOfShown`), and what metadata offers is answered
(`OfferedListIsAnswered` and the like).

**MigrationsProofs.** Assumption: `MigrationsAssumption` (types; names are ordered).
For any number of files, objects and processes, in either kind of database:
`SchemaIsRecorded`, `OrderIsRespected` (part of `FilesStayInOrder`, which adds that no
file is replaced) and `SuccessIsReached`. All of them speak of processes that go one
way, `OneWay`: hazards of those that cross are real and nothing in the code excludes
them. The invariant has four parts. A plan was made from versions that others have
changed since; `PlansHold` says that, while they go the same way, everything before the
rest of the plan is still applied (or, rolling back, nothing after it is), so an old plan
fails on a version that is recorded already and never skips one. `TransactionsHold` says
what a transaction sees: what is committed and what it has executed, and that in a
database whose DDL is transactional nobody else has executed anything meanwhile.
`RecordsHold` is the property and what it needs to last a rollback: no two applied
files create one object, or dropping those of one would take from the other
(`Disjoint`). `ListsAreFiles` and `RecordsHaveFiles` tie lists and versions to the
directory. In a database that commits each statement, `SchemaIsRecorded` says only
that nothing recorded is missing, since a failure leaves what it had done.

**LeastElements.** The theorems of induction in the library have an operator as a
parameter, which the provers cannot instantiate. What induction comes to can be had
without: any naturals have a least one (`LeastThereIs`, from the well-foundedness of their
order), so a claim about all places of a list, or all steps of a recursion, is refuted by
the first place where it fails. That is how the proofs speak of recursive functions: that
there is a function with the equations of `FlattenSeq`, `Found` and `DocumentsAfter`, and
what it returns (`FlattenIsASequence`, `FoundLeadsDown`, `RegisteringKeepsNames`). `LastThereIs`
and `MinIsThere` serve the lists in which a later element wins or the first is taken.

**Only model-checked.** Liveness (`ShutdownEndsServe`, `SignalEndsRun` and the like: it
needs fairness and ENABLED, which the prover does not handle). `DocumentsKeepTheirWord`: its
half in `RouterTree` compares two ways to join paths, folds whose steps the provers do not
follow; its half in `ModelSchemas` is about RECURSIVE operators over types that refer to each
other. `MigrationFiles`, which folds over a text: of `MigrationsAreFaithful` only the
part about files is proved (`FilesStayInOrder`). The type invariants of the MC modules are
conjunctions of those of the parts, and those of `Lifecycle`, `RunLoop`, `Operation`,
`OpenAPICache`, `Session`, `Csrf`, `RateLimiter`, `RouteCache`, `MemoryCacheStore`, `AdminWrite` and
`Migrations` are proved as parts of the invariants.

## 5. Findings

1. **A signal that comes early is lost** (`ninja.go` 284, run
   `runloop_early_signal`). When Run handles a signal before its goroutine has
   published the server, Shutdown finds nothing to stop and returns, and Run
   waits for a server that nobody will stop; its signal handler is still
   installed, and further signals are dropped.
2. **An empty response is cached** (`cache.go` 327, run
   `operation_empty_cached`). With a timeout and a cache, a client that goes away
   while its handler is running leaves nothing in the capture; that counts as a 200
   and everybody gets it until it expires.
3. **A panic in a cached route is an empty 200** (`cache.go` 293, run
   `operation_panic_cached`). `wrapCache` puts the writer back without a `defer`.
4. **A mounted router stays out of `/openapi.json`** (`openapi_cache.go` 36, run
   `openapi_cache_stale`). The document is stored after the lock is released
   under which it was built, and so possibly after its invalidation.

The conditions in the properties of the passing runs name exactly these
exceptions and those below: what holds besides them is checked. The following came
up while the modules were written, which have them; no run states them.

- Headers set before an operation, `Deprecation` and `X-Request-ID` among them, are
  gone from an operation with a timeout or a cache that ran to its end
  (`operation_limits.go` 140, `cache.go` 537: `copyHeader` deletes before it
  copies; `HeadersArrive` in `Chain`).
- A session changed after the status, the first byte or a `Flush` is lost
  without an error (`middleware/session.go` 100; `change = "late"` in `Session`).
- Two types of one name in two packages share a component, although `typeName` is
  described as unique (`schema.go` 194; `Clash` in `ModelSchemas`).
- `LoadForEnv` reads `app.env` before placeholders are expanded and then looks for
  no such file (`settings/settings.go` 423; `PeekedEnv` in `Settings`).
- A bulk delete by a user whose scope is a `db.Where` deletes the first visible row
  only, and answers 201 with a count of 1 (`admin.go` 1133: `First` leaves its
  condition in the shared `scopedDB`; `ProbeDelete` in `AdminWrite`).
- An update of nothing but a relation writes every column back as it was read
  (`admin.go` 1087), over what others have written since (`ColumnsFor`, and the
  condition of `PartialUpdateKeepsTheRest`).
- Under repeatable read, an update of a row that was deleted meanwhile changes
  nothing and is answered with the row (`admin.go` 1102; `Update`, `View`).

- The document of an operation lists no status that its guards, or the `*Error`s of its
  handler, choose, nor the 408 that the default mapper makes of a deadline without `Timeout`
  (`errors.go` 100, 153; `openapi.go` 294): `Response` has to (`OwnStatus`).
- The options of a relation show the value and the label of a row also where
  `FieldPermissions` take those fields away, and the label that is inferred may be any text
  field (`admin/runtime.go` 806, `metadata.go` 490; `HandleOptions`).
- A path, header or cookie tag `-` is read as a name (`binding.go` 276-310), while
  `isActiveBindingTag` takes it for none (`NamedDash`).

What is said of bulk deletes and updates rests on what GORM and the database do.

## 6. What is not modelled

Within the modelled components:

- `Operation`, `RouteCache`: streamed outputs (`wrapCooperativeTimeout`), nested
  transactions, cache tags as names (they resolve to keys).
- `Binding`: the conversion of each Go type, slices, validator rules other than
  `required`. `OperationContract`, `ModelSchemas`: JSON types and formats, examples,
  tags, security schemes in the documents.
  Error mappers of a program's own are in `Chain`, not in `OperationContract`.
- `Chain`: the values of headers, how credentials are parsed and compared,
  cryptography, the matching of origins (gin-contrib/cors is external).
- `AdminWrite`: hooks, conflict messages, PostgreSQL's evaluation of a subquery
  before it waits for a lock. `AdminSite`: CSV, values that do not parse,
  pages of options, and options whose value is no key.
- `MigrationFiles`: a line inside a statement that is only a marker, a line comment
  at the end of a statement, a backslash before a closing quote outside MySQL. The
  helper program that runs AutoMigrate is external, and so is what GORM does to
  recreate a table in SQLite, whose INSERT is not DDL and is not collected.

Whole parts:

- Code generation of the CLI (`internal/codegen`, `startproject` and the like): text
  templates written once by a developer. It is the largest part of the repository and
  has no state to get wrong.
- The pages of the admin site and of the documentation: templates.
- The contents of uploads, downloads and streams: data flow to the network.
- Message catalogues, logger set-up, response envelopes, test client, banner.

## 7. Plan

The model: header values through both capturing writers, with a run for the first
divergence above; streamed outputs under `wrapCooperativeTimeout`; nested
transactions; runs of `AdminWrite` for its three observations; tags of the
route cache.

Theorems: the first half of `DocumentsKeepTheirWord`, which needs lemmas about joining
paths; `WrittenWasSent` of `ModelSchemas`, once its recursion is written as functions.
