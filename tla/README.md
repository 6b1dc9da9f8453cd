# Thalia: verification project

TLA+ models of the parts of Thalia in which several things happen at once or a
process may stop half-way, checked with TLC and, where it matters most, proved
with TLAPS. Paths below are relative to the repository (`src/` in
`PROJECT.json`).

1. [The system](#1-the-system)
2. [The modules and the code](#2-the-modules-and-the-code)
3. [What is checked](#3-what-is-checked)
4. [What is proved](#4-what-is-proved)
5. [Disagreements found](#5-disagreements-found)
6. [Not modelled](#6-not-modelled)

## 1. The system

Thalia is a web framework: one Bun/Node process serves one or several websites,
each with templates, controllers and possibly a MariaDB database reached through
Drizzle. Everything runs on one JavaScript thread, so a piece of code between two
`await`s is atomic and everything else interleaves: other requests, timers, and
the answers of the database, of other servers and of the file system. That is the
granularity of every model here.

| Component | State | Operations | What makes it hard |
|---|---|---|---|
| Database connection (`server/website.ts`, `database.ts`, `database-boot.ts`) | `website.db`, `dbReconnectInFlight`, `dbReconnectLoop`, `dbReconnectAborted`, `dbReconnectStatus`; per `ThaliaDatabase` the pool, `drizzle`, `mysqlPoolClosed` | boot attempt, background retry schedule, `reloadDatabase`, `closeDatabase` | four kinds of actors over the same fields at every await; failures that need cleaning up; shutdown during an attempt or a long sleep |
| Worker pool (`scripts/worker-pool.ts`) | queue, waiters, counters, `closed`, `halted`, `donePromise` | `push`, `pushDelayed`, `close`, `run`, the workers' loops | the pool closes itself on two counters while jobs are in flight; order of microtasks; limits |
| Sitemap crawl (`scripts/generate-sitemaps.ts`) | `urlByKey`, `urlStatus`, `crawledUrls`, `sitemap-halt.csv`, `sitemap.xml` | a run: load, crawl, persist; halted and killed runs | state carried between runs; kill at any point; overlapping sources of pages |
| Rate limiter (`server/util/rate-limit.ts`) | timestamps per key | `check`, `reset` | window boundaries |
| Auth throttle (`server/security/login-throttle.ts`) | `auth_login_throttles` rows | check, record, clear | check and record are separated by awaits; late records; a store that fails |
| Accounts (`server/security/thalia-security.ts`, `profile-password.ts`, `session-revoke.ts`) | `users`, `sessions` rows | sign-in, sign-out, forgot and reset password, profile password, first-run setup | read, hash and write are separate steps; sessions are revoked while others are made |
| Route guard (`server/route-guard.ts`) | none of its own | session lookup, permissions, passwords, proxy | what it decides on one pass through the chain, and for which path |
| Request handler (`server/request-handler.ts`, `router.ts`, `static-files.ts`) | the response; what builds write to `dist/` | a chain of handlers, the first that has something answers; a directory goes through it again | every request must get its one answer, whatever throws or fails in a callback; builds change what later requests find |
| CRUD machine (`server/controllers.ts`) | rows with `deletedAt` | forms, create, update, delete, restore, test data, DataTables pages, CSV | two switches over the same action names; forms older than the row; statements that fail after others succeeded; paging over a table that changes |
| Data file streaming (`server/controllers.ts`, `latestData`) | `position` in a file | statSync, read, poll | another process appends to, cuts and replaces the file between two system calls |
| Server start and stop (`server/server.ts`, `thalia.ts`, `cli.ts`, `bin/develop.ts`) | HTTP server, open sockets, child process | start, stop, signals | stop during requests; databases close after the server |
| Health (`server/health.ts`, `drizzle-migration-status.ts`) | none | a snapshot over several awaits | its parts are read at different times |
| Images (`server/images/`) | adapter, `initPromise`, OAuth tokens, files and rows | initialisation with fallback, upload, token exchange | requests during initialisation, which may happen again; bytes and row are stored in two steps that may each fail; tokens change while uploads are signed |
| Mail (`server/mail.ts`) | transport, `mail` rows | log, then send | a failure after the log |

The rest is pure, one-shot or browser code (see section 6).

How they interact: `Thalia.stop` stops the server, then calls `closeDatabase` of
every website. Every controller reaches the database through `website.db`, which
the reconnect schedule sets and clears; `/health` shows `dbReconnectStatus`. The
account handlers call the throttle before and after their work, and the throttle
and the rate limiter share the sliding-window functions. The crawler is the worker
pool's user: its jobs push jobs, and the pool's callbacks persist its state. The request
handler runs every controller behind the route guard; the CRUD machine, the data files and
the image uploader are controllers. Every connect of the database initialises the image
uploader again.

What makes each part correct:

* connection: one attempt at a time, no pool without an owner, nothing open after
  a close, a schedule that retries until it is connected or exhausted, a close that
  returns;
* pool: an accepted job runs once, the pool ends when and only when nothing is left
  to do, and whoever waits is woken;
* crawl: no page twice in a run, no page lost between runs;
* limits: exact at the boundary, never locked without a reason, never unlocked by
  an accident;
* accounts: a changed password ends the sessions of the old one; only the latest unused
  link opens an account; nobody new gets into a locked account; setup is for the first run;
* requests: no handler before the rule of the url that was asked for, an answer for
  everyone but in the places where the code may leave a response open, and no page lost
  behind a build;
* CRUD: every write permitted, archived rows stay archived, success means done, paging
  skips no row;
* data files: the client gets the file's bytes in order, and in the end all of them;
* images: nobody is turned away while the machine starts, a whole file or a hosted photo
  behind every row, no photo twice but by overlap, tokens of one grant.

## 2. The modules and the code

`PROJECT.json` maps every definition to its lines.

### `DatabaseReconnect` (with `DatabaseLink`, the abstract specification)

Fields have the names of the code without the `dbReconnect` prefix: `db`,
`inFlight`, `aborted`, `status`. `Dbs` is the supply of `ThaliaDatabase` objects,
each used by one attempt; `phase[d]` says at which await of
`attemptDatabaseConnect`/`init` its attempt is. `bootPc`, `loopPc`, `callerPc` and
`closerPc` are the program counters of `loadDatabase`, of the schedule, of site
code that calls `reloadDatabase`, and of `closeDatabase`. An action is the code from
one await to the next, including what it calls synchronously. Awaiting a promise
that has settled takes a step of its own, so another actor may run in between.
External: the import of `mysql2`, `SELECT 1` and the machines' `init()` hooks, which
may succeed or throw; `pool.end()`, which may take any time and is awaited.
`NumDelays` is the length of `delaysSeconds`; the delays themselves are abstract,
since nothing depends on them.

`DatabaseLink` is what the rest of the framework may rely on: a link that is
offline, online, closing or closed, and holds a pool or not. Once online it stays
online until it is closed, and once closed it holds nothing and stays closed.

### `WorkerPool` (with `JobPool`, the abstract specification)

The pool closes itself on counters, so the order in which callbacks run decides
whether it is right. `micro` is the queue of microtasks in the order in which
JavaScript runs them: a resolved `getNext`, the synchronous pieces of a job, and the
`then`, `catch` and `finally` of its chain, one microtask each. Timers, user calls
and the arrival of what a job waits for are taken only when `micro` is empty (the
last also among jobs resumed by the same event). A job waits at least once for
something from outside, then takes up to `MaxHops` microtasks, pushes its
`Children` and succeeds, or fails.

`JobPool` is the pool a user thinks of: jobs are pending, running or settled, at most
`Limit` run, and the pool shuts when it is idle, halted or closed. `WorkerPool` implements
it when workers pause between jobs (`delayed`).

### `SitemapCrawl` (extends `JobPool`)

One page per normalised key. `urlStatus`, `crawledUrls` and `statusCode` are the
tables of a run, `csv` the saved state and `sitemap` the pages in `sitemap.xml`.
A status is 200, another one, null, or unknown (no entry). `StartRun` is `main()` up
to `pool.run()`; `CrawlSucceeds` and `CrawlFails` are a job's two handlers together
with the pool's reaction; `WriteSitemap` and `WriteHalt` are the two writes of
`persistState`; `Killed` may happen anywhere. Because `WorkerPool` implements
`JobPool` when workers pause (`delayMs` is 200), the crawl can be built on the
latter. A crawled page whose body can be read is expanded; one that cannot be read is
not among the outcomes (section 5).

### `SlidingWindow`, `RateLimiter` (with `RequestBudget`), `LoginThrottle`

`SlidingWindow` is the arithmetic of `rate-limit.ts` and the clock. `Prune` takes the elements
at the indices that pass the test (`ElementsAt`), a form that can be reasoned about;
`MCRateLimiter` has TLC compare it with the filter of the source (`PruneIsFilter`), for lists
in any order. `RateLimiter` is `check` and `reset` for several keys with a clock that moves
between calls; a check is synchronous and so one step. `RequestBudget` holds its state and
its promises. `LoginThrottle` is one row used by concurrent requests:
`Begin` takes the attempt's time, the check, the work and the record or clear follow
as separate steps, each of the store's calls may fail (and then fails open), and
requests may overtake each other. The action of the row is chosen at the start:
`logon`, where a wrong password counts and the right one clears the row, or a form,
where every submission counts.

### `Accounts`

`users` has at most one row per e-mail address: its role, password, lock, the reset token
and whether that token has yet to expire. `sessions` is the table in the order of the
inserts; a session is `live` or `ended`, by `logged_out` or by its time of expiry. `req[c]`
is what a client's handler holds across its awaits: the row's id, the role and session the
route guard found, the new password, the token. There is an action for each stretch of a
handler whose order against other requests matters: the read with its tests (`LogonReads`,
`ResetReads`, `ChangeReads`, `SetupChecks`), the write (`LogonInserts`, `ResetUpdates`,
`ChangeUpdates`, `SetupInserts`), and the revoke (`ResetRevokes`, `ChangeRevokes`).
`Admits` is the guard's session lookup, done once before the handler runs; `EditLocks` is
the CRUD update of the column `locked`. `Forgot` and `CreateNewUser` are one step each: what
they write depends on nothing they read but the id, or the unique column decides. `GivesUp`
is any handler that ends without its next step, a failed revoke included. A password stands
for itself and for its hash. A request that is refused changes nothing and is no step; the
throttle in front of the handlers is `LoginThrottle`.

Three history variables serve the properties and guard nothing: `spent` (tokens that have
set a password), `opened` (the password each session was opened with), and `excused` (the
sessions no completed revoke was meant to end: the one that made the change, one whose
sign-in was overtaken by the whole change, and those of a revoke that failed).

### `Crud`

One table of `CrudFactory`. `Dispatch` is `controller()` up to its first await: the role's
permissions are looked up once (`held`), read-only tables turn writes away, and the action
name selects the branch; `Fetch`, `Parse` and `Commit`, `Fail` or `CommitUnheard` follow (the
last is a statement whose connection breaks after the commit). `/testdata` starts its inserts
at once, so any of them may fail first. `Save` is a browser that posts an edit form opened
before: it carries every column, the archive date included, and `Unlisted` is the filter that
drops it. `walk` is a DataTables list: the count and the page of one request are two
statements in any order, and rows that tie under the order come in any order (`Rankings`).
Between two pages anything may be written; `owed` are the rows the list has yet to show, and
the walk is given up when a row leaves the list, or comes between a count and its page.
`ListStops` is a page that fails, or a browser that leaves.
A row is one text column and its archive date.

### `RequestChain`

A request runs through the handlers in `Order`; those with nothing for the path just call the
next, so a step leads to the next handler that has something (`FirstHit`), and `wait` says
what that one waits for. `site` is data: guard, rules per path, and which handler has what
for the page, its index and a file below it. `dist` is what builds have written there, which
is looked at first. `StaticDirectory` sends the request through the chain again as its
index.html, guard included. The guards are those of `route-guard.ts`: none, the basic one
(passwords, proxy and its upgrades) and the one by roles. A file may be there only as a `.gz`
(`sidecars`), which has a stream of its own. `forever` is the wait of a request that nothing
in the code will answer any more; `MayStayOpen` names the places where that can happen
(section 5). `Leave` is a client that goes away or `stop()`.

### `ImageUploader`

`DatabaseInit` is the call of `init` at every connect; `Arrive` is a request, which calls it
on a site without a database. For SmugMug it imports the secrets (`pending`) and `promise` is
`initPromise`, which a later `init` replaces. A request waits for the promise it saw, reads
its body, fetches the image, takes the adapter of that moment, looks the MD5 up, stores the
bytes and inserts the row; each of these may fail, and what was done stays done. Each half
of a pair of tokens has a source: `config/secrets.js` and the answer to a request token may
fill in one half, both or none. `OauthCallback` puts the callback's token next to the old
secret. `ExchangeEnds` goes back to the old pair on a failure; an accepted answer replaces
each half that it has, which may be both, one or none. SmugMug takes a signature only if the
pair is usable.

Two history variables serve the properties and guard nothing: `partial` (clients whose last
accepted exchange lacked a half) and `shared` (photos whose file two uploads have written
side by side).

### `FileFollow` (with `FollowedFile`)

`latestData` with `follow`: every system call is a step, and between any two of them another
process may append, cut or replace, or remove the file. A byte is named by the cut it follows
and its place, so a byte sent twice or after a later one shows. `FollowedFile` holds the
file, what was sent of it and the promise about them.

`MC*` modules name the values of the constants; properties are in the modules of the
components.

## 3. What is checked

Every run is exhaustive. Mutants that break each property are in the modules
(marked `mutant`) and in `PROJECT.json`: each is a plausible slip in the mapped code.

| Run | What it shows | Bounds, and why they suffice |
|---|---|---|
| `db` | `AtMostOneAttempt`, `OpenPoolIsAttached`, `NoPoolAfterClose`, `StatusHasSchedule`, `RetriesUntilDone`, `PoolEndedOnce`; it implements `DatabaseLink`; `ScheduleSettles` and `CloseCompletes` | 3 database objects, 3 delays, 2 reloading callers, 2 closers. The mutex and the flags distinguish only "mine", "another's" and "none", so a fourth attempt adds no new pair of actors |
| `db_reload_true` | a disagreement (section 5) | 2 objects, 2 delays, 1 closer |
| `pool` | `DoneIsComplete`, `FailuresBounded`, `RunResolves`; with a pause it implements `JobPool` | 2 workers; 5 jobs: two pushed by the user, one by timer, two by another job; limits of 3 failures and 2 in a row; up to 2 extra microtasks per job; with and without a pause. Two workers are enough for a job to settle while another is on its way |
| `crawl_runs` | `FetchedOncePerRun`, `KnownIsScheduled`, `FrontierSaved`, `Converges` | 3 pages with a self-link, cycles and a page reachable along two ways, 2 workers, any number of runs, halts and kills |
| `rate_limit` | `WithinBudget`, `RetryAfterIsExact` | 2 clients, budget 2, window 3, 8 ticks with jumps: more than two windows, so every hit leaves the window |
| `throttle` | `LocksForAReason`, `AdmittedBounded`, `NthAttemptLocks`, `LockStands` | 2 concurrent requests (any number in sequence), 3 attempts, window 3, lock 4, 6 ticks: a lock outlives its window |
| `accounts` | `StaleSessionsExplained`, `OnlyLatestLinkOpens`, `LockHolds`, `SetupStaysClosed` | 2 accounts, 2 passwords, 2 requests at a time, up to 2 sessions and 2 links, 3 together (`MaxBoth`). Each property is about two requests, on one account or on the table of users; the second account shows that others are left alone. Both requests may be on their way when the account is locked, or past the check when the first admin is made. Two links may be mailed to one account, the second before or after the first is used, or to both |
| `crud` | `ConfirmedIsDone`, `WalkComplete`, `OnlyAsPermitted`, `ArchiveStands` | 2 clients at a time, the list's included (`MaxBusy`), any number in sequence; 2 roles (one may edit, one may delete), 3 ids, test data of 2 rows, three tables: open, read-only, without archive date. The list has pages of 1 or 2 rows: two rows and a page of one leave a third row to be inserted between the pages, before or after what was shown, and the others to be written or, which ends the claim, archived |
| `requests` | `HandledOnlyAsPermitted`, `IndexPagesStay`, `EveryRequestEnds` | 2 requests on 5 sites that between them use every handler, every guard, a sidecar and both modes. Each place of `MayStayOpen` is on one of them |
| `requests_pages` | a disagreement (section 5) | 1 site, with a page that has no index and a script below it |
| `images` | `NeverEarly`, `PairIsWhole`, `RowsHaveBytes`, `DuplicatesOnlyByOverlap` | 2 connections, one of which may return from SmugMug, any number of times; 1 photo; 2 initialisations, each with both halves of a token, one or none; 6 setups: each tier with what its behaviour depends on, SmugMug without authorisations (3 rows) and with them (1 row). One photo is where uploads meet: a file may be written by one upload alone, by one after another's failure, or by both side by side. `OneExchange` is a premise of the theorem on tokens, so one connection runs the exchanges |
| `follow` | `SentInOrder`, `CatchesUp` | files of up to 4 bytes, 2 from the end sent first, 2 cuts: a cut before and one after a read |

`CHECK_DEADLOCK FALSE` is set where the system may stop: a closed website, a pool that
is done, a clock at its bound, clients that are gone, `Accounts` with all sessions and links
used up, `ImageUploader` with all rows used up. `crawl_runs` has no such state and checks for
deadlock. The symmetry sets are only used in runs without liveness properties.

Bounds that exist only for the checker: `Dbs` (attempts), `MaxHops`, `MaxTime`,
`MaxSessions`, `MaxTokens`, `MaxBoth`, `MaxBusy`, `LastId`, `LastText`, `MaxLoads`,
`MaxRows`, `MaxSize`, `MaxCuts`, and one call per caller and closer.

### Fairness

* `DatabaseReconnect!FairSpec`: continuations of settled promises run, and imports,
  queries, hooks and `pool.end()` settle. Callers owe nothing. Timers are not assumed:
  `CloseCompletes` holds without them, which is what waking the sleepers is for, and
  `ScheduleSettles` names the premise it needs (`TimersFire`).
* `WorkerPool!Spec`: microtasks run, pauses end, and jobs settle. The user need
  not push, close or run; `RunResolves` starts from a pool that has been run and has
  had a job or a close. The timers of `pushDelayed` need not fire.
* `SitemapCrawl!FairSpec`: jobs start and settle, the pool's callbacks run, and the
  script is started again. `Converges` also assumes that failures and kills come to
  an end.
* `RequestChain!Spec`: turns run; queries, files and builds come to an end; what controllers
  and the proxied server do settles, if only in an answer that never comes (`forever`).
  Clients need not come or stay.
* `FileFollow!Spec`: the turns go on and the timer ticks. The writer owes nothing, and
  `MaxSize` and `MaxCuts` bring it to rest.

The other modules promise nothing that needs fairness.

## 4. What is proved

For every value of the constants that satisfies the modules' assumptions (any number
of objects, delays, callers, workers, jobs, requests, rows; any site):

| Theorem | Statement |
|---|---|
| `DatabaseReconnect_proof!TypeCorrect` | `TypeOK` is invariant |
| `DatabaseReconnect_proof!OneAttempt` | attempts never overlap |
| `DatabaseReconnect_proof!PoolsAttached` | an open pool belongs to `website.db` |
| `DatabaseReconnect_proof!ClosedIsClean` | after a close nothing runs, is open or attached |
| `DatabaseReconnect_proof!Refinement` | `Spec` implements `DatabaseLink` |
| `DatabaseReconnect_proof!StatusIsBacked` | what the status announces has a schedule behind it |
| `DatabaseReconnect_proof!ScheduleGoesOn` | without attempts by site code, retries go on until connected, exhausted or closed |
| `DatabaseReconnect_proof!PoolsEndOnce` | with one closer no pool is ended twice |
| `WorkerPool_proof!TypeCorrect` | `TypeOK` is invariant; the counters stay within the workers |
| `WorkerPool_proof!LimitsHold` | the failure limits hold up to the jobs already taken |
| `WorkerPool_proof!ResolvedIsComplete` | no job runs twice, and `run()` resolves only when all is done |
| `WorkerPool_proof!Refinement` | with a pause, `Spec` implements `JobPool` |
| `SitemapCrawl_proof!TypeCorrect` | `TypeOK` is invariant |
| `SitemapCrawl_proof!FetchedOnce` | no run fetches a page twice |
| `SitemapCrawl_proof!FrontierIsSaved` | the file names every page a saved page leads to |
| `SitemapCrawl_proof!NothingLeftOut` | until the pool halts every known page is scheduled |
| `SitemapCrawl_proof!ListedAnswered` | `sitemap.xml` lists only pages with status 200 |
| `SitemapCrawl_proof!FileNeverForgets` | no step removes a page from the file |
| `Accounts_proof!TypeCorrect` | `TypeOK` is invariant |
| `Accounts_proof!SessionsAreRevoked` | a live session of a replaced password has an explanation |
| `Accounts_proof!LinksAreExclusive` | only the latest unused link opens an account |
| `Accounts_proof!LocksHold` | nobody new gets on the way into a locked account; who was on the way gets one session or one change of the password at the most |
| `Accounts_proof!SetupCloses` | from the first admin on no submission passes the check of the first-run form, and each that had passed makes one admin at the most |
| `Crud_proof!TypeCorrect` | `TypeOK` is invariant |
| `Crud_proof!Confirmed` | success is told only when every statement succeeded |
| `Crud_proof!WritesArePermitted` | every write has its permission |
| `Crud_proof!ArchivesStand` | only delete archives and only restore revives |
| `Crud_proof!WalkIsComplete` | a list paged by primary key shows every row that stayed listed |
| `RequestChain_proof!TypeCorrect` | `TypeOK` is invariant |
| `RequestChain_proof!OnlyPermittedAreHandled` | no handler sees a request that the rule of its url does not let in |
| `RequestChain_proof!IndexPagesAreFound` | a page with an index template is never answered 404 |
| `ImageUploader_proof!TypeCorrect` | `TypeOK` is invariant |
| `ImageUploader_proof!NobodyIsEarly` | no upload is told "not ready" but without the uploadthing secret |
| `ImageUploader_proof!RowsComeLast` | behind every row there is a photo at SmugMug or a whole file; only a file that uploads wrote side by side may be torn |
| `ImageUploader_proof!PairsAreWhole` | with one exchange at a time (`OneExchange`), token and secret are of one grant, except where an accepted answer itself lacked a half |
| `ImageUploader_proof!OnlyOverlapDuplicates` | at most as many rows of one MD5 as requests at a time |
| `RequestChain_proof!FollowTypeCorrect` | `TypeOK` of `FileFollow` is invariant |
| `RequestChain_proof!BytesAreInOrder` | the client gets the bytes in order |
| `Throttles_proof!ThrottleTypeCorrect` | `TypeOK` of `LoginThrottle` is invariant |
| `Throttles_proof!LocksAreExplained` | a row is locked only by `MaxAttempts` attempts in one window |
| `Throttles_proof!AdmissionsAreBounded` | fewer than `MaxAttempts` submissions get through in a window |
| `Throttles_proof!FullWindowLocks` | the attempt that fills a window locks the row |
| `Throttles_proof!LocksStand` | a lock in force ends early only when the row of `logon` is cleared |
| `Throttles_proof!LimiterTypeCorrect` | `TypeOK` of `RateLimiter` is invariant |
| `Throttles_proof!BudgetHolds` | no window holds more allowed requests of a key than its budget |
| `Throttles_proof!RetryAfterExact` | a refused key is let in at the time it was told and not before |

The argument for the connection. Two attempts cannot overlap because the boot attempt
ends before `website` is exposed and every later attempt goes through `inFlight`; but
the promise is cleared only in a later microtask, and the schedule, callers and closers
resume in between. The inductive invariant therefore says, besides the properties, which
object an attempt runs on (it is `db`), what `inFlight` says of it, in which phases a pool
exists, that a closer that has finished waiting leaves no attempt behind because
`aborted` is set before it looks, and which states of the schedule can coexist with them.
One lemma per action shows that it is preserved; the refinement follows from it step by
step. A second invariant on top (`Extra`) carries the status and the schedule: as long as
callers are idle an attempt after boot is one the schedule waits for, an announced attempt
belongs to a schedule that is reconnecting, and `ends` follows the phase of the attempt.

The argument for the pool. A worker has at most one microtask, and its stage says of which
kind (`Fits`); with that, most of the argument is about the set of tasks. One lemma per action
says what it does to the jobs that are sent to a worker, in flight or ended (`Flow`). From
`Flow` follow the counters (`Counts`: `activeCount` is the number in flight, `workerCount`
that of the workers still there) and the limits (`Failing`: failures, jobs in flight and jobs
sent together never grow past the limit plus the workers once the last allowed failure is in
sight, since a halted pool sends nothing). `Once` follows a job from the push to its one
start; it rests on the assumption `PushedOnce`, which says what a job is: one call of
`push()`. `Ending` says that a worker leaves only a closed and empty pool. For the refinement
the order of the microtasks matters in one place: the pool shuts itself when the queue is
empty and `activeCount` is 0 after this job, while `JobPool` asks that no job waits, also none on
its way to a worker. `Behind` says why that is the same when workers pause: the parent that
pushed a job settles behind it in the queue of microtasks, and a job taken by a worker whose
pause ended is started before any job settles. Without a pause it fails (section 5).

The argument for the crawl. `KnownIsScheduled` is not inductive: a link that is already
in `crawledUrls` is not pushed, so one has to know that whatever is in `crawledUrls` is
scheduled too (`Scheduled`), that what is queued has a `SitemapUrl` and has not been
fetched (`Fetched`), and that a pool that shut itself is idle (`ShutIsIdle`).
`FrontierSaved` needs that a run knows whatever the file knew (`Kept`) and whatever an
expanded page leads to (`Frontier`); `SitemapAgrees` needs that a `SitemapUrl` with
status 200 has that status in the tables (`Statuses`).

The argument for the accounts. The inductive invariant adds to `TypeOK` and
`StaleSessionsExplained` what rows and handlers must satisfy: sessions, handlers and tokens
refer to registered accounts (`Referents`), a submission of a reset link holds a token that
was mailed to its account (`Submissions`), a handler that writes a password or keeps a
session has one (`Handlers`), and a token in a row, expired or not, was mailed to its account
later than any other and is not spent (`TokensAreLatest`, from which `OnlyLatestLinkOpens`
follows). A change of the password makes
sessions stale only at a step that also enters `Revoking`; a revoke leaves `Revoking` only
when it has ended or excused what it was meant to end; and a sign-in checks the password it
verified against the one in force when it inserts, which is what `Overtaken` says. `LocksHold`
and `SetupCloses` are then one step each from the invariant.

The others. `Crud`, `RequestChain` and `FileFollow` each have one invariant that says what is
known of a request at the point where it waits: what has been permitted and found writable
(`Sound` in `Crud_proof`), whom the guard found on this pass and how far down the chain the
request can be (`Sound` in `RequestChain_proof`), which bytes lie between start and position
and that what was sent is of earlier cuts or up to the position (`FollowInv` in
`RequestChain_proof`).
`ImageUploader_proof!Inv` says what a request may rely on in each stage: an adapter once the
load it waited for has ended, stored bytes before it inserts. `BytesInv` adds that outside
`shared` at most one upload is storing a photo's file, that none is once the photo has a row,
and that the file is whole when the row is inserted: a second upload finds the row, or makes
the file a shared one. `PairInv` adds that one exchange at a time keeps a pair of one grant to
go back to, and `FewRows` counts, with the rows of a photo, the requests that have looked it
up and are on the way to their row.

The argument for the throttle. `LocksForAReason` and `AdmittedBounded` are about times that
were recorded or admitted, the code about a list from which old times were pruned. Two facts
relate them (`RowIsHistory`): every time in the row is one that was recorded, each at a place
of its own, so a count of the row is never too high; and as long as the attempts were recorded
in their order, the row is the end of what was recorded, and what comes before it has left the
window, or the row is full, so a count of the row is not too low either. The first gives
`LocksForAReason` for every interleaving; the second gives `NthAttemptLocks` and
`AdmittedBounded`. A submission that is admitted was recorded (`AdmittedAreRecorded`), so as
many in one window would have locked the row when the last of them was counted. `LockStands`
needs that no request has a time later than the clock (`Attempts`): a lock in force is then in
force for it too.

The argument for the limiter. The hits of a key are the end of all its allowed requests, and
what comes before them has left the window (`Sound`). A check that finds fewer than the budget
left therefore adds to a window that had room, whichever window one looks at. A refused key
has a full list, and what it was told is when the oldest of it leaves.

The argument for the list. When rows are ordered by their id, a row's rank is one more than the
number of rows before it. A row that is still owed has at least `offset` rows before it
(`ToCome`): the pages so far have shown all of lower rank, and inserts only push it back. A
walk ends when the count of a request is reached, and then nobody owed has that many before
him. Rows that leave the list end the claim, as `walk` says.

`RequestChain_proof` and `Throttles_proof` hold the proofs of two components each. The second
is an instance there (`Follow`, `Limiter`), and what it assumes of its constants is a
hypothesis of the theorems; `FollowedFile` and `RequestBudget` are shared with it, so
`SentInOrder`, `WithinBudget` and `RetryAfterIsExact` are the formulas that the runs check.

Only model-checked are the liveness properties (`ScheduleSettles`, `CloseCompletes`,
`RunResolves`, `Converges`, `EveryRequestEnds`, `CatchesUp`), which are beyond the prover's
reach, and `PruneIsFilter`, which would be an induction over the list. Every safety property
of a passing run has a theorem.

## 5. Disagreements found

Each is a run that is expected to fail.

* `db_reload_true`: `reloadDatabase` says true when `website.db` is attached "with a live
  connection" (`server/website.ts:832`); it also does so while an attempt is still in progress,
  because `hasLiveDatabase` tests a field that is set before the first query.
* `requests_pages`: `tests/Integration/request-handler.test.ts:11` says that `/path` is served
  from `src/path/index.hbs`, else from `src/path.hbs`; once a build has created `dist/path/`, a page
  of the second kind, or one from Markdown, is answered 404, because the directory is found
  first and stands for `index.html`.

Facts the models rest on, or that the properties had to make room for:

* Connection. For the same reason as in `db_reload_true` the schedule ends when it wakes
  during an attempt that site code began; if that attempt fails, nothing retries
  (`RetriesUntilDone` is therefore about sites that do not call `reloadDatabase`). Two
  concurrent `closeDatabase` calls may end a pool twice; the error is caught.
* Pool. A job given to `pushDelayed` while the pool is open is dropped if the pool runs dry
  first. With `delayMs` 0 the pool can close itself while a job is on its way to a worker, if
  two jobs settle in one round of microtasks; the job still runs, but what it pushes is
  dropped.
* Crawl. A page that answers 200 and cannot be read is saved as done and skipped by later runs.
* Throttle. A record with an older time that is applied after a newer one removes the newer
  from the count (`prune` drops times later than now); `NthAttemptLocks` and
  `AdmittedBounded` are stated for records in order, and the run explores the others too.
* Accounts. A sign-in that verified the old password and inserts after the revoke keeps its
  session. Two submissions of one reset link that both pass the lookup both set a password.
  Submissions of the first-run form that are past the check when the first admin is inserted
  insert theirs too, although `server/security/thalia-security.ts:501` says that after the first admin
  exists all requests get an error; `SetupStaysClosed` therefore bounds what these make, one
  admin each. A request that is past its test of `locked` when an admin locks the account goes
  through, and a reset link works on a locked account (but opens no session); `LockHolds`
  says what can still come of these.
* CRUD. Updating, deleting or restoring an id that does not exist reports success. The edit
  form posts a NULL text as the word "null". A list ordered by a column with equal values has
  no tie-breaker, so its pages may repeat and skip rows (`WalkComplete` leaves that order out).
  A row archived between two pages moves the rest up, and one that comes between the count
  and the page of a request makes the count too low; either may hide a row from the list
  (`WalkComplete` excepts both, and no other write).
  A failed `/testdata` is answered while other inserts still run. The `summary` endpoint named
  in the documentation has no case and is taken for a row's page.
* Requests. Some failures leave a response open, and `MayStayOpen` names where: the login page
  cannot be rendered or the password form not parsed; the other server of a proxy breaks off in
  mid-body, or answers an upgrade with an ordinary response; a controller throws after it has
  sent headers, or its promise rejects; a stylesheet does not compile and then cannot be read;
  a CSV page cannot be rendered; a `.gz` breaks while it is read. `EveryRequestEnds` is about
  all the others. Overlapping builds write the same files.
* Images. Overlapping uploads of one photo insert a row each. An upload that SmugMug accepted
  but whose answer was lost leaves a photo without a row, and a retry uploads it again. Of two
  uploads that write one file side by side the one that fails leaves it torn behind the row of
  the other (`shared`); without rows a torn file is taken for the photo. While an exchange is
  under way uploads are signed with a mixed pair and refused. An exchange that is accepted with
  an answer that lacks a half leaves the callback's token, or the new one, beside the old
  secret, or the callback's beside the new one (`partial`). A failed one puts the old pair back
  over a request token that has arrived meanwhile. Overlapping exchanges may leave a mixed
  pair, so `PairIsWhole` is about one at a time. The access token lives in memory only.
* Data files. A file that is replaced by one at least as long is taken for the same, and its
  beginning is skipped. A cut between `statSync` and `readSync` sends zeros and may send bytes
  twice, since what `readSync` returns is ignored (`NeverBackwards` excludes that case).

## 6. Not modelled

* Server start and stop: what `stop()` does to a request and to a database is modelled where
  it happens (`RequestChain!Leave`, the closers of `DatabaseReconnect`). The start is one
  sequence without other actors. The supervisor (`bin/develop.ts`) is a loop around one child
  process; after the wait for SIGTERM it sends SIGKILL only if `killed` is false, which `kill()` has
  just set, so that the second signal is never sent.
* Health and readiness: a snapshot over several awaits that changes nothing.
* Mail: a message is logged in one row and sent once; a failure of either is reported as text.
* Configuration loading, merging, partials and Markdown (`website.ts` in part, `util.ts`,
  `markdown.ts`), build metadata, git hash and start-up timing, the smoke-test and comparison
  scripts, the build and project scripts, table declarations, browser scripts, assets and
  vendored code: sequential, one-shot or text.
* In modelled parts: wording and logging; URLs (a page is its key, a path one of four); the
  text of the CSV and XML files (a write is one step, so a torn file is not modelled); HTTP
  headers, ranges and error texts; real times (ticks); memory growth of the rate limiter's map;
  jobs that throw synchronously; an admin's edits of other columns of a user than `locked`;
  the older entry `BasicRouteGuard.handleRequest`, which the chain does not call; back-pressure
  of streams; uploads of one photo under two file extensions (a photo has one file).
