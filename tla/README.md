# TLA+ specifications of the Tesseract API

These modules model the parts of the API whose correctness depends on order and
concurrency: login sessions on PostgreSQL, users and albums with their Redis cache,
the paginated lists, and the server itself with its middleware, rate limiter and
graceful shutdown. TLC checks them on small instances; TLAPS proves every safety
property they are checked for, of instances of any size. `PROJECT.json` maps every
definition to the lines it models.

## 1. The system

The API is one Go process (several may run side by side) in front of PostgreSQL
and Redis. Every HTTP request runs in its own goroutine; handlers call services,
services call repositories, repositories run SQL statements and Redis commands.
There are no locks in the process except `singleflight`; all coordination is left
to PostgreSQL's row locks and to Redis, which runs one command or script at a time.

| Component | State | Operations | Interacts with |
|---|---|---|---|
| Auth (`platform/auth`) | none | OAuth callback, refresh, logout, list / revoke sessions, logout-others | tokens, users, cookies |
| Refresh tokens (`domain/tokens`) | table `refresh_tokens` | create, consume, rotate in a transaction, delete one / others / all, clean up | called by auth, users, worker |
| Access tokens (`domain/tokens`) | none (PASETO) | create, parse | auth, middleware |
| Cookies (`platform/cookies`) | in the browser | set / unset access and refresh cookie | auth, users |
| Users (`domain/users`) | table `users`, Redis entity and slug mapper | upsert, update, soft delete, restore, purge, read by id / slug | tokens, auth, admin, albums |
| Administration (`domain/admin`) | none | purge, restore another user | users |
| Cleanup worker (`worker`) | ticker | delete expired and long consumed tokens | tokens |
| Albums (`domain/albums`) | table `albums`, Redis entity, slug mapper, direct token mapper | read by slug / id / direct token, three lists, create, update, toggle, direct token, delete, restore, purge | users, cache, cursor |
| Cache manager (`platform/cache`) | Redis | get, set, unlink, script, mget | users, albums |
| Cursor (`platform/cursor`) | none | encode, decode a sealed keyset cursor | albums |
| Rate limiter (`platform/ratelimit`) | Redis counters | allow | middleware |
| Middleware (`cmd/api`) | request context, remote address | real IP, CSRF headers, origin, rate limit, claims, role, ETag | everything |
| Start and shutdown (`cmd/api/main.go`) | server, pools | run, shut down | everything |

What is hard about it:

* **Rotation.** A refresh reads a row, then consumes it and inserts its successor
  in a transaction. Refreshes, logouts, revocations, deletions and the cleanup of
  the same row come in between.
* **Statements over many rows.** Under READ COMMITTED a DELETE sees its snapshot
  only, and waits for rows that an open transaction has updated.
* **Two tables, opposite lock orders.** A rotation locks a token and then needs its
  user for the foreign key, a purge locks the user and cascades to the tokens.
* **The client.** Responses get lost or overtake each other; several tabs share a
  cookie jar; the five second grace period must tell a retry from a theft.
* **Fire and forget.** The cache is filled and invalidated by goroutines that
  nobody waits for, in several commands each, from rows read at different times.
* **Shared calls.** `singleflight` gives one caller's result to others.
* **Pages.** A list is read in several requests, each of them in two queries with
  the cache in between, while albums come, go and change.
* **The order of the middleware.** The limiter charges the user the access token
  names, or else whatever `RealIP` has made of the remote address, so what runs
  before it decides whose budget is spent.
* **The end.** A signal arrives while handlers, background jobs and a cleanup run.

Correct means, for sessions: a session never forks and never comes back, nobody
ends another user's session, no token outlives its user's row, every request is
answered, honest browsers keep their session. For albums and users: whatever is
stale, nobody gets an album they may not see or a user who never had the slug; when
nothing overlaps the cache is exact; walking through a list shows every album once.
For the server: a handler runs only for who may call it, a user's budget is spent by
nobody else, and the process ends, closing nothing under a request. `PROJECT.json`
lists the hazards at the lines where they bite.

## 2. The modules

| Module | Models |
|---|---|
| `RefreshTokens` | the queries of `sqlc/tokens.sql.go` as operators on a table value |
| `SessionLifecycle` | abstract specification: a session is opened once, rotates one token for one, is closed for good |
| `Sessions` | the server side: auth, tokens, account deletion / purge / restore, worker, on PostgreSQL |
| `SessionClients` | `Sessions` composed with browsers, their cookie jars and an unreliable network |
| `Sessions_proofs`, `SessionClients_proofs` | theorems about sessions and about browsers |
| `AlbumCache` | single-album reads and all album writes over database and Redis |
| `AlbumLists` | the three paginated lists on top of `AlbumCache` |
| `UserCache` | reads and writes of users over database and Redis |
| `AlbumCache_proofs`, `AlbumLists_proofs`, `UserCache_proofs` | theorems about albums, lists and users |
| `RateLimit` | the Lua script of the rate limiter |
| `Gateway` | the middleware in front of the handlers, composed with `RateLimit` |
| `Server` | the process from start to exit, composed with `Gateway` |
| `RateLimit_proofs`, `Server_proofs` | theorems about the limiter and the server |
| `MCSessions`, `MCSessionClients`, `MCAlbumCache`, `MCAlbumLists`, `MCUserCache`, `MCServer` | symmetry sets, constant functions and initial tables for TLC |

### Sessions

`req[q]` is an HTTP request: `pc` names the statement it runs next, `hash` is the
cookie it came with, `new` the token it will store, `rows` the session id it names
or the snapshot of its DELETE, `reply` what the response does to the cookies. An
`Arrive...` action is the handler up to its first statement; claims may be those of
any user who ever had an account, since access tokens are not revoked, and the
cookie may be any token that was ever issued. Each further action is one statement
with the Go code up to the next:

* callback: `OAuthCallback` (upsert), `IssueSessionTokens` (insert);
* refresh: `RefreshSession` (select and checks), `ReplaceConsume` (begin, update,
  `RowsAffected`), `ReplaceCommit` (insert, commit), `GetAvailable` (load the user);
  both ways into reuse detection continue with `DeleteAllRefreshForUser`;
* a DELETE of many rows is two steps: its snapshot, and `DeleteFinish` once none of
  its rows is locked;
* `UserDelete` (soft delete) is followed by `DeleteAllRefreshForUser`; `PurgeUser`
  takes the user's row lock and `PurgeFinish` cascades.

A request between `ReplaceConsume` and `ReplaceCommit` (`pc = "insert"`) holds the
lock of its row; its update is invisible to others until the commit. `DbError` lets
any statement fail, with the reply the handler then gives (several errors are
dropped in the code). A connection that breaks after COMMIT was executed has the
effect of a commit followed by an error while loading the user. `DeadlockVictim` is
PostgreSQL's deadlock detector. `family` is a history variable: the login a token
descends from.

Simplifications: `token_hash` is unique and stands for the row id; the new token's
`expires_at` and the transaction's `NOW()` are taken at the same instant;
`GetAvailable` may answer from the user cache at any time, so a deleted user can
still get cookies there; access tokens do not expire; a purged address logs in
again under a new id as long as one is left.

### SessionClients

A browser sends the cookie it holds at that moment and applies the response's
`Set-Cookie` when it arrives. It may have `Tabs` requests under way; `Lose` drops a
response. `trouble` is a history variable: the browsers that lost a response, had
overlapping requests or met a failed statement.

### AlbumCache

A row has its slug, `is_active`, the users its access settings admit (`guests`:
everyone for a public album, nobody for a private one, the listed addresses for a
shared one) and its direct token. A write is its statement (atomic, `FOR UPDATE` or
a single UPDATE) together with starting its goroutine; `UpdateDirectToken` is
followed by the synchronous UNLINK, and other requests may come in between. A
goroutine is the sequence of Redis commands it still has to run (`jobs`). A read is
lookup, singleflight, query, return; others may join a call until it returns, and
get the row it read before they asked. `made` records the generated direct tokens,
which never repeat. The repository's checks on a cached album are `Hit`, the service's `Permits`.
With `Failures` a Redis command may be lost (100 ms timeout), a key may expire, a
lookup may miss and a query may fail for everyone who shares it. Writes that match
no row or break the unique index are left out: they change nothing. `Goroutines` and
`Writers` bound how many run at a time; `IsActive` bounds the form.

### AlbumLists

A client's walk through a list is one record of `lists`; each page is a request.
`PageRows` is the query with `limit + 1` rows, `NextCursor` the cursor taken from the
cut page, and a cursor stands for the date and id that are sealed in it. The other
steps are those of `hydrateAlbumsList`: `MGetItems`, then `GetAlbumsByIDs` for what
is missing, with one goroutine per album that refills the cache. The trash is
answered by its query alone. `AvailableList` shows the owner the owned list. Any
write of `AlbumCache` may come between two steps or two pages; `Dated` says what it
does to `date_at` and `deleted_at`. Album ids are numbers and `deletedAt` is the
count of writes, because the lists order by them. `Ordered` chooses the sequence ORDER
BY returns, rather than computing it with a library operator the provers cannot expand. `steady`, `clean` and `shown` are
history; `strays` collects the albums whose cached copies outlive their deletion.

The lists extend the state machine of `AlbumCache` and not only its operators: what a
list puts into the cache is read by requests for single albums.

### UserCache

A user has a row and two Redis keys. `jobs`, `Spawn`, `Background` and the
singleflight call are as in `AlbumCache`. `InvalidateUserWithMapper` is the script: it
reads the slug from the cached entity and does nothing without one. Keys expire one
by one (`ExpireEntity`, `ExpireMapper`) at any time. `Registered` holds the tables a
run may start from: users exist before the process does. `SlugFresh` stands for the
random slug of a new user and the random suffix of a restored one. `held` remembers
every row a user had, `disturbed` whether requests overlapped or a command was lost.
An invalid avatar is stored as the empty string (`Update`).

### RateLimit, Gateway and Server

`RateLimit` has the counter and expiry of each `rate_limit:<rule>:<identifier>`, and
the admissions as history. An identifier is a string, and what the limiter promises
it promises of identifiers. `Gateway` takes a request through the stages of `mount`
and `routes.go`, which a failed check ends at once:

* `Arrive` is all that needs nothing but the request: `RealIP`, headers, origin,
  access token. `r.RemoteAddr` begins as the `ip:port` of the connection (`Peers`), and
  `RealIP` replaces it by the IP address the request's True-Client-IP, X-Real-IP or
  X-Forwarded-For names, if one does (`Addresses`). The client or a proxy writes
  these headers, so the model lets a request name any address;
* `Allow` is the limiter, whose `Identifier` is the user id if there are claims and the
  remote address otherwise, together with what the group requires (`Denied`: claims or
  role), which looks only at the request again. Redis may fail, which is a 500 and not
  an admission, and its reply may be lost after the script ran, in which case the
  client library tries again and the identifier is charged twice;
* `Handle` is the handler up to its response.

`RouteTable` has one entry per group of routes. Left out are the middlewares that
decide neither where a request goes nor whose budget it spends: request id, request
log, size limit, security headers, language, ETag; CORS, which answers preflights
itself; `Timeout`, which cancels a context (a handler may take any time here); and
`Recoverer`, whose 500 ends a request like any other answer.

`Server` adds what `run()` does and what runs beside it: jobs that handlers leave
behind, the cleanup worker with its own context, the signal, `Shutdown` with its
deadline, `pool.Close`, which waits for connections in use, `redis.Close`, and
`os.Exit`, which closes neither. `lost` records a job whose command came too late.

A slot of `requests` is an accepted connection: while one is not idle `Shutdown`
waits, and a connection that was accepted may still send its request.

## 3. The runs

| Run | Instance | Shows |
|---|---|---|
| `accounts` | user and admin, 3 tokens, 2 requests (callback, refresh, revoke, others, delete, purge, restore), failing statements | the inductive invariant `IInv`, `OneTokenPerSession`, `NoOrphanTokens`, `EndedSessionStaysEnded`, `ForeignSessionsUntouched`, refinement of `SessionLifecycle` |
| `liveness` | user and admin, 2 tokens, 2 requests (callback, refresh, logout, sessions, purge), clock 0..2, cleanup, fairness | `RequestsComplete`: every request is answered, also across the lock cycle of refresh and purge |
| `browsers` | 2 browsers of a user, 2 tabs each, lossy network, failing statements, logout and logout-others, clock 0..2 | the inductive invariant `ClientInv`, `AlarmHasCause`, `CookieNeverGoesBack`, `TokensAreHeld`, `GraceRunsOnce`; racing refreshes and logouts never fork or revive a session while time passes |
| `lists` | 2 albums of one owner, 2 dates, pages of 1 or 2, 4 writes of any kind, single reads in between | the inductive invariant `LIInv`, `PagesDescend`, `NoAlbumSkipped`, `PagesAreExact`, and `CacheIsCoherent`: every write leaves each key equal to the database but for the named exceptions |
| `concurrent_cache` | 1 album, 2 viewers, 2 readers, 1 direct token writer, 1 goroutine, 3 writes, failures | the inductive invariant `IInv` and `AnswersAreAuthorised` under every interleaving |
| `users` | 2 users, 2 slugs, 1 reader, 2 goroutines, 3 writes, lost commands, expiry | the inductive invariant `IInv`, `CacheIsCoherent`, `AnswersAreGenuine`, `EventuallyCoherent` |
| `server` | 2 accounts, 1 address a header may name and 1 remote end, rules with limits 1 and 2, 2 requests at a time, clock 0..2 with windows of 1, 1 background job, signal and listener failure at any time | `OnlyEntitledAreHandled`, `UserBudgetsAreOwn`, `AtMostTwiceTheLimit`, `RefusedOnlyWhenSpent`, `GracefulExit`, `SignalEndsProcess` |

Why the bounds are enough for what they are meant to find:

* Sessions: a fork needs two refreshes of one token and a third request to end or use
  the session, and three tokens (login and two rotations); grace period, lifetime and
  retention are one tick each and the clock passes all of them in `browsers` and in
  `liveness`; `accounts` stops the clock to afford a third token beside every
  operation. With one purge and one rotation (two tokens) the lock cycle occurs.
* Albums: a stale answer needs one refill, one write and one read. Two slugs and two
  albums let a slug move from one album to another; a page of one makes a second
  page, equal dates decide by id. Read requests do not overlap in `lists` (`Serial`);
  the writes overlap the pages. `concurrent_cache` affords one album and so one owner:
  that a slug never leads to another owner's album is the theorem `Authorisation`.
* Users: the first table has a user and a newcomer, the second a deleted user whose
  slug was taken, so a slug moves by an update, a new suffix or a restore. The avatar
  stays as it is in this run: what can go stale is shown with the slug.
* Server: three windows of a rule with limit 1 give the 2 * limit + 1 admissions
  `AtMostTwiceTheLimit` is about; limit 2 gives a second INCR in a window. A lost reply
  lets one request be charged several times. A guest may be its connection or a named
  address, and so may a user's request whose claims the limiter failed to use. Windows
  longer than a tick, and more addresses and connections, are left to the proof.

Deadlock checking is on except in `server` and `lost_writes`, where the process ends.

**Fairness.** `Sessions` (`FairSpec`): strong fairness for the steps of each request,
because PostgreSQL queues waiters for a row lock and wakes them in order, so a request
that can proceed again and again does; weak fairness for the deadlock detector, which
runs after `deadlock_timeout`. Arrivals, errors, responses and the clock are not fair.
`UserCache`: weak fairness for each goroutine (it ends within its 100 ms) and for the
expiry of each key (`Set` gives every key a TTL); reads and writes need not happen,
and the number of writes is bounded. `Server`: weak fairness for `Shutdown` to return
or reach its deadline, for a cleanup to end (its context has 30 seconds), and for
`pool.Close` and `return`; nothing is assumed of clients, handlers, jobs or Redis.

### Where code and documentation disagree

Five runs check what a document or comment says and end with a counterexample.

* `tabs` - README.md:19 promises no false theft alarm. Two tabs read the same
  unconsumed row; the slower one gets `ErrTokenConsumed` from the transaction and
  deletes all sessions of the user (auth/service.go:156), with no grace period. The
  run has logins and refreshes only, and no time passes.
* `others_race` - README.md:71, "Deletes all other refresh tokens". The DELETE waits
  for a rotation of the other device and misses the token that rotation commits.
* `revoked_link` - albums/repository.go:347. After the synchronous UNLINK a
  background refill from the old row restores mapper and entity; the revoked link
  opens the album until the next refill or the TTL.
* `owner_flight` - README.md:91. The singleflight key of `GetByID` has no user: an
  owner who joins a stranger's call gets its 404.
* `lost_writes` - README.md:41, "without ... losing background cache writes".
  `Shutdown` waits for handlers and not for the goroutines they started; Redis is
  closed and the process ends with code 0 before such a job has written.

Other behaviours of the code the models reach, and that no run is spent on:

* a logout that waits for a refresh of the same cookie changes nothing, and the
  rotated token survives (auth/service.go:84);
* revoking a session by an id listed before a rotation deletes the spent row and
  reports success (auth/service.go:97);
* reuse detection misses a rotation in flight just as logout-others does
  (auth/service.go:139);
* a login between upsert and insert outlives the deletion of its user
  (users/service.go:88);
* logout-others ignores a failed DELETE (auth/handler.go:188);
* a retry within the grace period after a lost response gets 200 and no cookies, and
  a later one raises the alarm (auth/handler.go:212, auth/service.go:133);
* a refresh whose row is removed by logout-others, a revocation or the cleanup
  raises the alarm (the second cause in `AlarmHasCause`);
* a refill that runs after the invalidation of a deleted album brings it back into
  the cache (albums/repository.go:396);
* a purge removes the albums by cascade and leaves their cached copies: a direct link
  opens them until the TTL, without any concurrency, although README.md:148 says
  "Purge user with all albums" (users/repository.go:204, `strays`);
* a list puts an album back into the cache that was deleted between its two queries
  (albums/repository.go:472, `strays`);
* a page that a write overlaps may show an album that has just become private or
  inactive: only the ids are filtered (albums/repository.go:188);
* an album whose date the owner moves across the cursor during a walk is skipped or
  shown in its new place (`NoAlbumSkipped` speaks of albums that were not written);
* a user is deleted in the moment between the expiry of entity and mapper: the script
  finds no entity and leaves the mapper. If the slug then goes to another user and the
  deleted one is restored and cached, the slug leads to the wrong user until the TTL
  (invalidate_user_with_mapper.lua:5; `CacheIsCoherent` excludes requests in this
  moment, `Parted`);
* an invalid avatar gets two responses and is stored as the empty string
  (users/handler.go:111);
* a request may be charged more than once when Redis answers late, and a request that
  fails later on is charged as well (middleware.go:200);
* a guest is told apart by `r.RemoteAddr`, which `RealIP` takes from a header of the
  request (main.go:210) and which otherwise includes the port: guests behind one
  header value share a budget, and without a header each connection has its own,
  although the comment says "UserID or IP" (middleware.go:192);
* a late 401 unsets the access cookie a refresh has just set (middleware.go:119).

### Mutants

Each property of a passing run has a mutant: a definition named as "a plausible
slip" next to the one it replaces (an unchecked `RowsAffected`, a lost WHERE clause, a
forgotten mapper, a trusted shared result, a cursor taken from the wrong row, a counter
without expiry, a limiter that does not know the claims). TLC finds the property violated with it.

## 4. The proofs

`Sessions_proofs` proves, for every set of users, hashes and requests and all
positive durations (the ASSUMEs of `Sessions`):

| Theorem | Statement |
|---|---|
| `Invariance` | `Spec => []IInv` |
| `TypeCorrectness` | `Spec => []TypeOK` |
| `Rotation` | `Spec => []OneTokenPerSession` |
| `ForeignKey` | `Spec => []NoOrphanTokens` |
| `NoRevival` | `Spec => EndedSessionStaysEnded` |
| `Grace` | `Spec => GraceRunsOnce` |
| `Snapshots`, `ForeignSessions` | `Spec => []SnapshotInv`, `Spec => ForeignSessionsUntouched` |
| `Refinement` | `Spec => ImplementsLifecycle` |

`OneTokenPerSession` is not inductive: a commit adds a token to a session, and is
harmless only because it consumes the session's one live token in the same step.
That needs `LockInv` (whoever is about to commit holds the row, alone, and the row is
still there and unconsumed: every DELETE and UPDATE waits for the lock), `PendingInv`
(tokens under way are new and distinct) and `FamilyInv` (rows and their logins were
minted). `NoOrphanTokens` needs `AccountInv` and `LockInv` (the user a rotation inserts
for is the owner of the row it holds). `IInv` is the conjunction; the proof has one
lemma per action, and most actions follow from two: a request that settles without
touching the table (`SettledRequest`), and rows that are deleted while none of them is
locked (`DeleteStep`).

The action properties and the refinement rest on `StepEffect`: every step either only
takes tokens out of circulation, or opens one new session, or rotates one token. The
three are `Close`, `Open` and `Rotate` of `SessionLifecycle` under the mapping
`live[f] = Live(f)`, `used = Minted`. `ForeignSessions` needs that the rows in the
snapshot of a DELETE are still its user's when it runs (`SnapshotInv`): a token is
never issued again, and a row never changes its user.

`SessionClients_proofs` holds for any number of browsers, accounts, tabs and requests,
with and without lost answers, failing statements and a clock:

| Theorem | Statement |
|---|---|
| `BrowserInvariance`, `ClientTypeCorrectness` | `CSpec => []ClientInv`, `CSpec => []CTypeOK` |
| `Composition` | `CSpec => Spec` |
| `ClientRotation`, `ClientNoRevival`, `ClientGrace` | the theorems of `Sessions`, with browsers |
| `NoSessionLeftBehind` | `CSpec => []TokensAreHeld` |
| `AlarmCause` | `CSpec => AlarmHasCause` |
| `CookieProgress` | `CSpec => CookieNeverGoesBack` |

What a browser does depends on where each token is. `ServedInv` ties every request in
the server to the browser that sent it. `HoldersInv`: no two browsers hold the same
token and no two requests will deliver the same one. `HandedInv`: a token on its way
to its browser is nobody's cookie yet, so it cannot have been consumed, and it is the
only exchangeable one of its login. That is why a late answer cannot put a spent
cookie over a good one: two answers with live tokens of one session cannot be under
way. `TrustInv` says what a browser without trouble may rely on: its one request
carries its cookie, and the cookie is spent only if the answer on its way replaces
it. `AlarmHasCause` follows from `TrustInv`, `TokensAreHeld` is a part of the
invariant.

`AlbumCache_proofs` and `UserCache_proofs` hold for any owners, readers, writers, jobs
and number of writes:

| Theorem | Statement |
|---|---|
| `AlbumCache_proofs!Invariance`, `TypeCorrectness` | `Spec => []IInv`, `Spec => []TypeOK` |
| `Authorisation` | `Spec => []AnswersAreAuthorised` |
| `UserCache_proofs!Invariance`, `TypeCorrectness` | `Spec => []IInv`, `Spec => []TypeOK` |
| `Coherence` | `Spec => []CacheIsCoherent` |
| `Genuineness` | `Spec => []AnswersAreGenuine` |

An answer is authorised although the cache may be stale, because the row that is
delivered is checked. What could go wrong is the way to it: a slug key that leads to
an album of another owner (`MapperInv`: whatever order jobs run in, they map a slug
under the album's own user) and a shared call whose result belongs to another key
(`CallInv`: those who wait have the key of the call, and its result was checked for
everything that does not depend on the viewer). For users, `GenuineInv` says that rows
in the cache, in jobs and in calls were all rows that user had. `CacheIsCoherent` is
about the quiet moments, and so not inductive: `CoherentInv` describes the moments
between, where one job is under way and only its user is out of step, by exactly the
commands the job still has. It excludes requests that come between the expiry of an
entity and that of its mapper (`Parted`), beside overlapping ones.

`AlbumLists_proofs` holds for any finite set of albums, pages of any size and any
number of walks:

| Theorem | Statement |
|---|---|
| `ListInvariance`, `ListTypeCorrectness` | `LSpec => []LIInv`, `LSpec => []LTypeOK` |
| `WalksDescend` | `LSpec => []PagesDescend` |
| `WalksAreComplete` | `LSpec => []NoAlbumSkipped` |
| `ListAuthorisation` | `LSpec => []AnswersAreAuthorised` |
| `LightLoadCoherence` | if `Serial` and not `Failures`: `LSpec => []CacheIsCoherent` |
| `LightLoadPages` | if `Serial` and not `Failures`: `LSpec => []PagesAreExact` |

The first five are also about overlapping requests and failing commands, which the run
`lists` leaves out; the last two have its load as their hypothesis, and do not hold
without it: a goroutine then refills a key from an old row, or its UNLINK is lost. All
start from lemmas about a page: `Ordered` exists and lists its set once (`Precedes` is a
strict order that decides between any two rows), the page is a prefix of it, and
every row that is left over comes after the cursor. With them `OrderInv` keeps what was shown, the
page on its way and the next cursor in that order, and `SteadyInv` says where an
album nobody has written is: shown, on the page, or ahead of the next cursor.
`CoherentInv` is the inductive form of `CacheIsCoherent` for many jobs at a time: what
a job will write is what the database has, and a key that is wrong waits for a job
that writes or removes it, or for the token update that will start one. `ExactInv`
carries from the query of an undisturbed page to its answer that the page is the
list between two cursors and that the cache it reads is right.

`RateLimit_proofs` and `Server_proofs` hold for all rules, identifiers, limits and windows,
any number of slots, any routes of the table and any bounds:

| Theorem | Statement |
|---|---|
| `RateInvariance` | `RSpec => []RIInv` |
| `TwiceTheLimit`, `RefusalIsEarned` | `RSpec => []AtMostTwiceTheLimit`, `RSpec => []RefusedOnlyWhenSpent` |
| `RequestInvariance` | `SSpec => []GIInv` |
| `LimiterInServer` | `SSpec => RSpec` |
| `ServerTwiceTheLimit`, `ServerRefusalIsEarned` | the same of the server |
| `Entitlement`, `UserBudgets` | `SSpec => []OnlyEntitledAreHandled`, `SSpec => UserBudgetsAreOwn` |
| `Graceful`, `ServerTypes` | `SSpec => []GracefulExit`, `SSpec => []STypeOK` |

The limiter's properties speak of a history the script does not have, so the invariant
ties the two together: the last `count[k]` admissions are those of the window that
ends at `expires[k]`, the earlier ones are in windows that have ended, and admissions
a limit apart are in different windows. Twice that distance is then more than one
window, and a full counter means a limit's worth of admissions in the open one.

`GIInv` carries what each stage of the middleware has established about a request to
the stages after it; without it a request could be in the handler with claims of
unknown origin. `StepOfLimiter` shows that each step of the server is a step of the
limiter or leaves it alone, which gives `LimiterInServer` and, with it, the limiter's
properties for the server. `UserBudgets` says nothing of how guests share what the
addresses have: it rests on the stages establishing that claims come from a live
token, and on user ids being neither IP addresses nor `ip:port`
(`CallersAssumption`). `GracefulExit` needs `Orderly`: nothing is accepted once
`Shutdown` has returned. A process that fails in `Shutdown` closes nothing, so there
is nothing to prove of it.

The assumptions are the ASSUMEs of the modules: constants have their types, durations,
limits and page sizes are positive, the placeholders `None`, `NoUser`, `NoHash` and
`NoBrowser` are not one of the values they stand beside, user ids, addresses and remote ends are
different strings (`CallersAssumption`), albums are finitely many, and users start with
rows of the table (`RegisteredAssumption`). TLC evaluates all of them.

Only model-checked: liveness, because it rests on fairness (`RequestsComplete`,
`EventuallyCoherent`, `SignalEndsProcess`). Every invariant and action property that a passing
run checks is a theorem. The runs that end with a counterexample are not affected: what
they refute is not among the theorems.

## 5. Not modelled, and the plan

Never: formatting, validation, i18n, configuration, JSON, PASETO and AES-GCM
themselves, the OAuth exchange, ETags, the playground routes, the health check, and
start-up, which is sequential and exits at the first error.

Simplified: `Sessions` and `UserCache` are separate state machines, and in `Sessions`
the cached user is a free choice; an access token is live or dead and has no clock; the
lists of a softly deleted owner and a cursor that is used with another list are not
tried; Redis drops keys by TTL only and never evicts or restarts.

Next, in this order:

1. `UserCache` composed with `Sessions`, in place of the free choice.
2. Access cookies in `SessionClients`, for the late 401.
3. The database side of `AlbumCache` without `Serial`: which of its keys are coherent
   when requests overlap, stated and proved as a bound on what a refill can bring back.
4. The invalid avatar and logout-others with a failing DELETE, as properties of
   `UserCache` and `SessionClients`.
