# A TLA+ verification of go-api-skeletton

The repository is a Go REST API template: Gin handlers, PostgreSQL through GORM, Redis
for token revocation, password-reset tokens and rate limiting, JWT sessions, mail.
This directory holds TLA+ modules translated from its source, the TLC configurations
that check them on small instances, and TLAPS proofs of the main results for every
value of the constants.

## 1. Inventory

### Components, their state and operations

| component | code | state | operations |
|---|---|---|---|
| Token manager | `pkg/auth/jwt.go` | none (a secret and two lifetimes) | `GenerateTokenPair`, `ValidateToken` |
| Sessions | `internal/services/auth.go` (Login, RefreshTokens, Logout, the blacklist), `internal/middleware/auth.go` (`AuthRequired`), `internal/handlers/auth.go` | Redis keys `blacklist:<token>` with a TTL; the tokens clients hold; rows of `users` (read) | login, refresh, the gate in front of every protected route, logout |
| Accounts | `internal/services/auth.go` (Register, UpdateProfile, ChangePassword, SetUserRole, ForgotPassword, ResetPassword), `internal/repositories/user.go`, `internal/models/user.go`, `migrations/` | table `users` with a partial unique index; Redis keys `pwd_reset:<token>` | each of these; soft delete |
| User listing | `ListUsers`, `ListUsersCursor` (handlers, service, repository), `pkg/pagination`, `pkg/filtering` | none of its own: it reads `users` while others write; the client keeps the cursor | numbered pages with a total, cursor pages; filter, sort |
| Pipeline | `internal/middleware/timeout.go`, `recovery.go`, `router.go` | the response writer with `timedOut`, `wrote`; one goroutine per request | answer, time out, panic |
| Rate limiter | `internal/middleware/ratelimit.go` | a Redis counter per address, a process-wide map as a fallback | count and admit |
| Role check, routes | `router.go`, `RoleRequired`, the administrators' handlers | none | list users, change a role |
| Start and shutdown | `cmd/server/main.go`, `internal/database` | the process and where it stands; `schema_migrations` and its advisory lock | validate, connect with retries, migrate, seed, serve, shut down |
| Mail | `pkg/email` | none | send, in a goroutine nobody waits for |
| Configuration | `internal/config` | none | read and validate the environment |
| Logging, headers, CORS, request ids, responses | the other middlewares, `pkg/response`, `pkg/logger` | none | formatting |

### How they interact

A request passes RequestID, Recovery, Logger, Timeout, SecurityHeaders, CORS and
RateLimit; from Timeout on it runs in a goroutine of its own whose context has a
deadline of 30 s. Protected routes pass `AuthRequired`, which asks the service whether
the token is blacklisted (Redis) and then validates it; admin routes also pass
`RoleRequired`, which reads the role in the token. Handlers call `AuthService`, which
calls the repository (PostgreSQL), Redis and the JWT manager; there are no locks and no
transactions that span two calls. All handlers of all instances share the two stores.

### What is hard

Nearly every operation is several calls to two stores, and other requests, the clock,
outages and lost replies come between any two of them. `PROJECT.json` lists each hazard
at its line. The ones the modules here are about:

- the blacklist is read *before* the expiry is checked, its TTL is computed *before* the
  call that sets it, and its keys vanish by themselves;
- Redis errors are treated as "revoked" when reading and as "never mind" when writing;
- tokens have no id and times in whole seconds, so two tokens may be the same string;
- every update of a user saves the whole row it read some calls ago, and inserts it if
  it is gone;
- a registration checks, then inserts; a reset reads, saves, then deletes its key;
- a listing is read page by page from a table that changes, whose ids are drawn before
  they are committed, and the offset of a page is a product in an `int`;
- the role in a token is believed for as long as the token lives;
- a handler that reads a body waits for its client, which the timeout does not cut short;
- instances start at the same time on one database, a process may end in the middle of a
  migration, and a shutdown has five seconds for requests that may take thirty.

### What makes each component correct

- Sessions: a token that was revoked or expired when a request arrived is not accepted;
  a success revokes; new tokens reflect the row and are usable.
- Accounts: one live row per e-mail; refusals are justified; nobody becomes an
  administrator by accident; a reset needs a stored, unexpired token and uses it up; an
  update changes its own column.
- Listing: following cursors visits every row that stays, once, in order; numbered pages
  of a table at rest neither overlap nor leave a row out.
- Pipeline: exactly one answer per request, complete, also at the deadline; a request
  ends; a panic costs one request.
- Rate limiter: at most *limit* requests per window and address; what an outage costs.
- Role check: nobody gets past it who was not an administrator recently.
- Start and shutdown: no request before configuration, schema and stores are ready; starts
  that are repeated succeed in the end; a shutdown ends, and cuts no request that had less
  than its grace.
- Mail: a message goes out at most once, and what the sender reports is true.

## 2. Modules

| module | what it is |
|---|---|
| `Tokens` | the JWT manager: a token is the record of its claims |
| `RevocationGate` | the abstract promise of the token gate: dead tokens stay dead, and are never accepted |
| `Sessions` | login, refresh, gate and logout as steps of concurrent requests |
| `SessionsInv` | the inductive invariant of `Sessions` |
| `Sessions_proofs` | its proof, and the theorems that follow |
| `MCSessions`, `MCSessions*.cfg` | instances for TLC |
| `Directory` | the abstract promise of the account operations: who may have an account, an e-mail, a role |
| `Accounts` | the `users` table and every operation that writes it |
| `Accounts_proofs` | its inductive invariant and all of its properties, proved; the refinement of `Directory` |
| `MCAccounts`, `MCAccounts*.cfg` | instances for TLC |
| `Answers` | the abstract promise about answers: one, whole, before the connection is let go |
| `Pipeline` | the connection's goroutine, the handler's goroutine and the `timeoutWriter` between them |
| `Pipeline_proofs` | its inductive invariant proved, the safety properties, the refinement of `Answers` |
| `MCPipeline`, `MCPipeline*.cfg` | instances for TLC |
| `RateLimit` | the counters in Redis and in memory |
| `RateLimit_proofs` | its inductive invariant and both of its properties, proved |
| `MCRateLimit`, `MCRateLimit.cfg` | an instance for TLC |
| `Listing` | the two listings of users, read by a client while the table changes |
| `Listing_proofs` | the cursor listing is complete and gives no row twice; numbered pages partition a table at rest |
| `MCListing`, `MCListing.cfg` | an instance for TLC |
| `Mail` | the goroutine that sends one message, and the server it talks to |
| `Lifecycle` | instances that start, serve, stop and fail on one database; composes `Mail` |
| `Lifecycle_proofs` | its inductive invariant and the safety properties |
| `MCLifecycle`, `MCLifecycle.cfg` | an instance for TLC |
| `Api` | the administration routes, composed with `Sessions` |
| `Api_proofs` | its inductive invariant; that it implements `Sessions` |
| `MCApi`, `MCApi.cfg` | an instance for TLC |

### Tokens

`GenerateTokenPair` and `ValidateToken` as operators. The code's tokens are strings that
HS256 computes from the claims without a random part, so equal claims are equal strings;
in the model a token *is* its claims. Times are whole seconds, as in the claims.
Since `exp` is a whole second, comparing it with the whole seconds of the clock decides
exactly as comparing it with the full clock. `iat` is a function of `exp` and the type
and is left out. The four clock readings of one pair are taken to fall in one second.

### Sessions

State: the clock `now`, `row` (the columns of `users` that sessions read), `redisUp`,
`blacklist` (keys with the time they vanish, or `Forever`), `issued` (tokens clients
hold), and per request its program counter `pc`, its input `req`, its locals `loc` and
what is remembered about it for the properties, `hist`. `hist` is never read by a guard.

One action is one call to a store or one reading of the clock; between two of them
anything else may happen.

| code | actions |
|---|---|
| `Login` | `Login`, `LoginFind`, `LoginWrongPassword`, `LoginIssue` |
| `RefreshToken`, `RefreshTokens` | `Refresh`, `RefreshCheck`, `RefreshValidate`, `RefreshFind`, `RefreshUntil`, `RefreshRevoke`, `RefreshIssue` |
| `AuthRequired` | `Profile` or `Logout`, then `GateCheck`, `GateValidate` |
| `Logout` (handler and service) | `LogoutBody`, `LogoutAccess…`, `LogoutRefresh…` |
| the pair `Register` hands out | `LoginIssue`, see below |
| `isTokenBlacklisted` | `CheckBlacklist`: an error counts as blacklisted |
| `blacklistToken` | `BlacklistToken`: done; failed; or done and the reply lost. The last two are logged only |
| `time.Until` | `ReadTTL`, a step before the SET, and unlike it evaluated by the process |
| the response | `Finish` |

`SetKey` follows go-redis: a TTL that is zero or negative is not sent, and the key stays
for ever. `Tick` moves the clock and lets keys expire. `RowEdit` is a role change or an
operator's (de)activation of the account. A call may fail at any time, also while Redis
is up: the client's timeouts and the cancelled request context look the same.

Clients present tokens they were handed, one for login, any for the rest (an access token
for a refresh, a refresh token at the gate, an old or a foreign one at logout).
Forged and malformed tokens fail validation and change nothing. The body of a logout is
read behind the gate (`LogoutBody`): it may come much later, or never, and names another
token or none. The other bodies are read before the first step.

`Register` also issues a pair (`services/auth.go:114`), from the row it has just inserted.
To what holds of tokens this is a login: a row is there, with a role, and a pair is issued
from it some time later. So it has no action of its own; what it does to the table is in
`Accounts`.

### Accounts

State: `table`, the id sequence, the reset `keys` in Redis, the tokens `drawn`, the
`outbox` of mails handed to sender goroutines, and per request `pc`, `req`, `loc` (the
copy of the row the handler holds) and `hist`.

| code | actions |
|---|---|
| `Register` | `Register`, `RegisterExists`, `RegisterCreate`, `RegisterFails` |
| `UpdateProfile`, `ChangePassword`, `SetUserRole` | the arrival of that name, then `Find`, `Save` (or `FindFails`, `SaveFails`) |
| `ForgotPassword` | `ForgotPassword`, `ForgotFind`, `ForgotSet` |
| `ResetPassword` | `ResetPassword`, `ResetGet` (or `ResetGetFails`), `Find`, `Save`, `ResetDel` |
| `userRepo.Delete` | `Delete` (no route calls it; an operator's soft delete) |
| `mailer.Send` | `SendMail` |

`Save` follows GORM's `Save`: an UPDATE of every column where the id matches and the row
is not deleted; if no row matched, an INSERT that overwrites the row with that id,
`deleted_at` included. A duplicate e-mail is refused by the index, which covers only rows
that are not deleted. The two statements of a save of a deleted row are one step here: the
second one decides alone, and does the same to a live row as the first.

Hashing is left out: a password column holds the password it verifies. First and last
name are one column. `CheckPassword` is part of `Find`: both depend on the row read.
The column `active` is in `Sessions`, where a login stands for the tokens that register
issues.

### Pipeline

State, per connection: where its own goroutine (`outer`) and its handler goroutine
(`inner`) stand, the channel `done`, whether the context has `expired`, whether the client
has `sent` what is to be read, the `timeoutWriter` (`timedOut`, `wrote`, and whether
`sendTimeout` holds `mu`), and the bodies on the `wire`. gin takes contexts from a pool
and a handler writes to whatever writer its context has at that moment: `ctx` and `writer`
keep the two relations. `up` says whether the process runs.

| code | actions |
|---|---|
| `Timeout`, up to the `select` | `Accept` |
| the `select` and what follows | `SelectDone`; `SelectExpired`, then `sendTimeout`, then `Drain` (`<-done`) |
| `sendTimeout` | `SendNothing` (the handler wrote first), or `SendBegin` and `SendBody` under `mu` |
| `c.Header` in the chain, the `Content-Type` of an answer | `SetHeader` |
| `ShouldBindJSON` | `ReadBody`, once `ClientSends` has happened; it does not look at the context |
| the handler's work | `Work` |
| `c.JSON` | `WriteHeader`, `SetHeader`, `Write`, in gin's order: status, content type, body |
| `close(done)` | `CloseDone` |
| gin returns to net/http | `Return` |
| a panic in the chain | `Panic`, which ends the process: `Recovery`'s `defer` is in the other goroutine |
| a header written while `sendTimeout` makes net/http copy the header map | `HeaderRace`: the Go runtime ends the process, or `SetHeader`: it does not notice |

`Crash` empties every goroutine and loses the open connections; `Restart` starts the
process again, by whoever does it. When both branches of the `select`
are ready Go picks either, and so does the model. The 503 is only flushed when the handler
has returned, since `Timeout` waits for it; `Return` is that moment. What the handler
computes, the 404 gin writes for an unknown route after the chain is over, and the empty
204 of a CORS preflight (`AbortWithStatus`, whose `WriteHeaderNow` goes past the
`timeoutWriter`) are left out.

### RateLimit

State: the counter and the ticks it has left (`entry`), per client, in Redis and in the
memory of each process; where each request stands (`call`); and, as history, how many
increments (`counted`), and how many that let a request pass (`admitted`), are no older
than each age up to a window. All times are relative, so the model needs no bound on the
clock.

| code | actions |
|---|---|
| `luaRateLimit.Run` | `RedisReplies`, or `AttemptFails` (with or without having counted) and, at the latest after go-redis' last attempt, `GivesUp` |
| `globalMemLimiter.increment` | `Fallback` |
| the comparison with `limit` | `Decide` |
| the rest of the chain, or the 429 | `Finish` |

A key and a memory entry both count for as long as the clock is not *past* their expiry
(Redis compares strictly, as does `now.After`).

### Listing

State: per id whether it is drawn, live or deleted and its value of a column that is not
unique (`row`), the sequence, and one client: either `scan`, a traversal by cursor, or
`walk`, a request for numbered pages. `steady` and `shown` are history.

| code | actions and operators |
|---|---|
| `ListUsersCursor`, `ListCursor` | `ListUsersCursor(n)`: `LIMIT limit + 1`, cut, next cursor |
| `pagination.EncodeCursor`, `DecodeCursor` | the operators of these names |
| `parseUserListOptions`, `filtering.Parse` | `Parse`; `LimitOf`, `PageOf` for the numbers |
| `userRepo.List` | `CountUsers`, then `ListUsers`: two statements |
| `Offset((page - 1) * pageSize)` | `Offset`, in an `int` that ends at `MaxInt`, and `Skip`: gorm sends no offset unless it is positive |
| INSERT, its commit or rollback; UPDATE; soft delete; the INSERT of a `Save` | `Draw`, `Commit`, `Rollback`, `Update`, `Delete`, `Revive` |

A page is one SELECT, so it is one step. `ORDER BY` one column leaves rows with equal
values in any order: `Limit` is the set of all answers the query may give, of the two
columns that tell sorts apart, a unique one and one that is not. A cursor the client
makes up, and a listing that fails, change nothing and are left out.

### Mail and Lifecycle

`Mail` has one variable, a record per message: the process whose goroutine sends it, the
step it is at, its address, and how often a server accepted it. `SendStep` is one step of
`smtp.Send` with `smtp.SendMail` or `sendTLS`, or of `resend.Send`; `SmtpDot` and
`ResendPost` are where the server accepts, with or without the sender learning of it.

`Lifecycle` has, per instance, the step of `main` it stands at, and what the instances
share: the configuration, the two stores, `schema_migrations` with its advisory lock, and
the rows of the seeded administrator.

| code | actions |
|---|---|
| `config.Load`, `Validate` | `LoadConfig` |
| `NewPostgres` | `NewPostgres` |
| `RunMigrations` | `TakeLock` or `NoLock`; `BeginMigration`, `EndMigration`; `Migrated`, `RefuseDirty` or `MigrationFails` |
| `Seed` | `Seed`, `SeedInsert`: a count whose error is not looked at, then an INSERT |
| `NewRedis` | `NewRedis`: one ping a step, the last failure is fatal |
| `email.New` | `NewMailer` |
| `ListenAndServe` in a goroutine, then `signal.Notify` | `Notify`; the port is open from the step before it; `ListenFails` |
| the signal, `srv.Shutdown` with five seconds | `Signal`, then `Drained` or `Forced` |
| `log.Fatal` anywhere, a kill | `Fatal`, `Kill` |
| `docker compose up`, for the first time or again | `OperatorStart` |
| `restart: unless-stopped` in `docker-compose.prod.yml` | `Restart`, if the configuration's `restarts` is true; `docker-compose.dev.yml` has none for the api |
| `go mailer.Send` | `Post`, then `Deliver` |

How golang-migrate keeps its version and lock is not in this repository; `TakeLock`,
`BeginMigration` and `EndMigration` follow what `RunMigrations` relies on: one migrator at a
time, and a version that stays dirty if a migration does not end. The map marks the steps
inside `m.Up()` external.

### Api

`Api` EXTENDS `Sessions`. A request to an administration route is a request of `Sessions`
to a protected route; where `Sessions` answers it, `Api` goes on with `RoleRequired` (the
role is the one in the token's claims) and with `ListUsers` or with `SetUserRole` as
`ReadBody`, `FindUser`, `SaveUser`. The save writes the row that later logins and refreshes read, so
the routes take part in what they are guarded by. `held` remembers when each user last
was an active administrator, and `grounded`, for each request, whether its caller had been
one less than an access token's lifetime before it arrived. `Listing` and `Accounts` say
what the handlers do with the table; here a listing only passes or fails.

## 3. What is checked

Symmetry is declared over requests where they are interchangeable; never with liveness.

### Runs that pass

| run | instance | properties |
|---|---|---|
| `sessions` | 2 requests of one user: one logs in, refreshes, asks for the profile, the other refreshes, logs out; outages and edits begin in the first second; 1 role; 2 pairs; lifetimes 1 and 2; clock 0 to 2 | `IInv`, `NoLateGrant`, `KeyOutlivesToken`, `ForeverOnlyIfExpired`, `SuccessRevokes`, `OutageDenies`, `NewTokenNotListed`, `ImplementsGate` |
| `accounts` | 2 requests; 2 rows, 1 e-mail, 1 password and a wrong one, 1 name, 2 roles, 1 reset token; every operation, expiry and soft delete | `IInv`, `ImplementsDirectory`, `EmailUnique`, `AdminsWerePromoted`, `LostUpdateNeedsOverlap`, `ResetNeedsKey`, `ResetSpendsToken`, `ResetLinkIsStored` |
| `pipeline` | 2 connections, 2 contexts; any number of requests, deadlines, stalls, panics, crashes | `IInv`, `OneWholeAnswer`, `OwnAnswer`, `ImplementsAnswers`, `EveryRequestEnds` |
| `rate_limit` | 2 requests at a time of 1 address; 1 process; limit 2, window 2 ticks, 2 attempts per command; no new request after 4 counts in a window | `LimiterInv`, `WindowBudget`, `RefusedForOwn` |
| `listing` | 3 ids; a column with 2 values; limits and pages from -1 to 3, a page holds at most 2; an `int` from -4 to 3 | `ListingInv`, `CursorComplete`, `CursorOnce`, `PagesPartition` |
| `lifecycle` | 2 instances, 1 request, 1 message; 8 configurations, 4 of them with restarts; 1 migration, 2 pings, a grace period and a longest age of 1 tick; 2 faults | `LifeInv`, `ServesReady`, `DirtyNeedsAccident`, `CutWasLong`, `MailTruth`, `EventuallyServes`, `ShutdownEnds` |
| `api` | 1 user, 2 roles, 1 request; every operation, outages, row edits and the administration routes; 2 pairs; lifetimes 1 and 2; clock 0 to 2 | `ApiInv`, `AdminsOnly`, `NewTokenReflectsRow` |

Why the bounds are enough. The hazards are races of two requests about one token or one
row, and the clock passing an expiry between two steps. Lifetimes of 1 and 2 and a clock
that reaches 2 let both kinds of token expire at every step, keys vanish, and a key be
set in the very second its token expires. Two logins or a login and a refresh give tokens
of different and of equal claims. Two rows with one e-mail are what the unique index, the
soft delete and the insert of a save can collide about; two resets with one token are the
race for that token. The pipeline has no counters, so two connections that take each
other's contexts in turn are the general case. With a limit of 2 and a window of 2 ticks a
third request is refused, two windows touch one span, and a counter can be kept alive by
calls in three different ticks; clients do not share any state, so one is enough.
In `sessions` the two slots differ in what they may ask for: two refreshes of one token
meet, a refresh and a logout, and the gate with either of them (two logouts at a time, and
two logins, do not). An outage that begins in the first second may
last as long as it likes, and single calls fail at any time.

`api` has one request, since its properties are about one request against role edits, its
own included, and the clock. It has two roles, and a row that changes between them while
tokens are out, so a pair with the role of the old token is told from one with the row's;
the mutant of `NewTokenReflectsRow` is just that mistake. (With one request more the
states are too many to keep the run; its role edits come from the environment as well.)

With three ids and pages of one or two a scan has up to three pages, and a row can be
drawn, committed, changed, deleted and brought back before, on and behind the cursor. An
`int` that ends at 3 is one where page 3 of size 2 overflows: the properties except
it, and a repetition of rows can be seen there. Two instances are what a lock, a count
before an INSERT and a dirty version can go wrong between; the two faults are enough for
an outage or a lost reply of one and the death or the shutdown of the other. Of the
configurations two are those of the compose files, one the seeding set-up with restarts,
three are refused at three different places, and the others are the other providers.

The theorems below remove the bounds for every safety property of these runs; only the
three liveness properties rest on the instances.

Every run checks for deadlock.

`MaxIssued`, `MaxTime`, `MaxRows`, `Burst` and the size of `ResetTokens` bound what may still
*begin*; no request that has begun is cut short by them. `Events` names the
operations of an instance, `Ops` those a slot may ask for, and `Calm` the time from which no
outage begins and no row is edited any more.

### Fairness

`EveryRequestEnds` is checked under weak fairness of each connection's goroutine and each
handler's goroutine. The Go scheduler runs both; `mu` is only held for a few statements;
the calls a handler makes with the request's context return, at the latest with an error
when it is done. One call of a handler does not take the context: `ShouldBindJSON` reads
the body for as long as the client likes, since `http.Server` has no `ReadTimeout`. So
nothing is assumed of clients: `ReadBody` can be taken only after `ClientSends`, which is
not fair, and the property is about requests whose client has sent everything or is gone.
(What net/http reads of a body its handler left alone, before it takes the next request,
is part of the same `sent`. Answers are short and fit the socket's buffers.) Other
clients may stall for ever. Nothing is assumed about the deadline: it may pass at any
point or never. A request also ends when its process dies. What the timeout does for a
client that stalls is the run `pipeline_stall`.

`EventuallyServes` and `ShutdownEnds` are checked under weak fairness of each instance's
main goroutine, of the clock, of the stores coming back, and of the container engine's
restart. Faults are finite in number. No request is assumed to end and no step of a mail
is fair, since `pkg/email` sets no timeout anywhere: a shutdown ends all the same, by
`Forced`. The restart is a field of the configuration, since it depends on the compose
file an instance was started from: `docker-compose.prod.yml` says `restart:
unless-stopped`, `docker-compose.dev.yml` says nothing for the api. Either may run with
any `APP_ENV`, which comes from `.env`. An operator may start an instance at any time and
need not. `EventuallyServes` promises something only where the engine restarts: in
development the loser of the seed's race, or an instance whose Redis was late, stays down
until somebody starts it. It is also restricted to usable configurations, and excepts what
follows a migration that was cut short: the version is dirty then, every start refuses it,
and only an operator can clear it.

### Runs that find a disagreement

| run | what the repository says | what the code does |
|---|---|---|
| `sessions_fresh_pair` | `handlers/auth.go:100` "Get a new token pair using a valid refresh token" | A refresh in the same second as the login (or refresh) that issued the token signs the same refresh token again, right after blacklisting it: the new pair cannot be refreshed. |
| `accounts_profile` | `handlers/auth.go:170` "Update first name and/or last name" | A profile update that overlaps a role or password change writes the old value back. |
| `accounts_mail` | `handlers/auth.go:317` "Send a password reset email" | The message has an empty recipient (`pkg/email/templates.go:25`) and nobody fills it in. |
| `pipeline_panic` | `README.md:194` "Capture les panics, […] retourne 500 JSON" | `Timeout` runs the chain in a goroutine without a deferred `recover`: a panic in a handler ends the process. |
| `pipeline_stall` | `TODO.md:25` "limiter la durée des requêtes (ex : 30s) pour éviter les goroutine leaks" | At the deadline `Timeout` waits for its handler, which may be reading the body of a client that has stopped sending: neither goroutine ends. |

`README.md:199` promises 100 requests per minute and address. `WindowBudget` is what the code
keeps: windows are fixed, so twice the limit may pass around a boundary, and as much again
from the memory of each process when Redis fails in between.

Met on the way, and without a run:

- `TODO.md:53`, ticked, says "Blacklist/logout/login → fail-closed". A logout whose SET
  failed is answered with success and the token stays valid, as the code's own log line
  says; `SuccessRevokes` excepts it. Login does not ask Redis at all.
- `README.md:196` says of the timeout "retourne 503 JSON". The deadline makes the handler's
  own calls fail too; if it answers that error before `sendTimeout` has the mutex, the
  client gets that answer. `OneWholeAnswer` holds either way.
- `TODO.md:14` says the shutdown waits for the requests under way. It waits five seconds;
  `CutWasLong` is what is left of the promise.

## 4. What is proved

`Sessions_proofs` proves, for any numbers of users, roles, requests, tokens, any
lifetimes and any bounds:

| theorem | statement |
|---|---|
| `Invariance` | `Spec => []IInv` |
| `TypeCorrect` | `Spec => []TypeOK` |
| `NoLateGrantHolds` | a token dead on arrival is never accepted |
| `KeyOutlivesTokenHolds`, `ForeverOnlyIfExpiredHolds` | both ends of the TTL |
| `SuccessRevokesHolds` | success without a Redis error has revoked |
| `OutageDeniesHolds` | nothing is accepted while Redis is away |
| `NewTokenReflectsRowHolds` | new tokens carry a role of this request's time |
| `NewTokenNotListedHolds` | a new token is not revoked |
| `ImplementsGateHolds` | `Sessions` implements `RevocationGate` |

Assumptions: lifetimes and bounds are naturals, there is a user and a role, and
`NoToken` is no token.

The argument. `NoLateGrant` is not inductive: it says nothing of a request that is still
between the blacklist check and the validation. `IInv` adds that a token that was dead on
arrival stays `Dead` (`LateSound`) and that once the blacklist has answered no, it is past
its expiry, so the validation refuses it. It stays dead because keys outlive their
tokens (`KeysSound`), which holds for a new key because the TTL a handler carries is at
least what is left of the token's life (`TTLSound`), and for an overwritten one for the
same reason. `Shape` ties program counters to operations and tokens to `issued`;
`RevokeSound`, `OutageSound`, `RoleSound` carry the other properties from the step that
establishes them to the answer. The refinement maps `dead` to the issued tokens that are
`Dead`, and each request to idle, asked, granted or refused; a step of `Sessions` is a
step of the gate or a stutter, and the clock and revocations are `Kill`.

`Accounts_proofs` proves, for any finite set of requests, any e-mails, passwords, names,
roles and reset tokens and any number of rows:

| theorem | statement |
|---|---|
| `Invariance` | `Spec => []IInv` |
| `EmailUniqueHolds` | one row per e-mail among those not deleted |
| `ConflictIsRealHolds` | a conflict is answered only if the e-mail was somebody's meanwhile |
| `AdminsWerePromotedHolds` | every administrator was promoted |
| `ResetNeedsKeyHolds`, `ResetSpendsTokenHolds` | both ends of a reset token's use |
| `LostUpdateNeedsOverlapHolds` | a save touches other columns only after an overlapping write |
| `ResetLinkIsStoredHolds` | a mailed link's token is stored, for the right row |
| `ImplementsDirectoryHolds` | `Accounts` implements `Directory` |

Assumptions: requests are finitely many, "user" and "admin" are roles, the number of rows
is a natural, and `NoRow` is no row.

The argument. A handler relies on what it read some calls ago, so `IInv` says what is
still true of it: the row it copied still exists and has the same e-mail, and is the very
copy unless another write came between (`CopySound`); a copy with the role of an
administrator is of somebody who was promoted; a reset that came too late finds no key,
because tokens are drawn once and keys only go (`HistSound`); and there is an id that
nobody has for every registration under way (`IdsSound`, with the cardinality of the set
of those requests). A step of one request leaves what the others rely on in place
(`Passive`, `PassiveKeeps`): rows never vanish and keep their e-mail, and every write
marks the copies it makes stale. The e-mails stay unique because every INSERT asks the
index, and an UPDATE writes back the e-mail that is there.

`Directory` says what a reader of the table may rely on, in six actions: an id keeps its
account and its e-mail for ever, one open account has an e-mail at a time, a role of
administrator is only written for somebody who was promoted, an account is only made for a
request that asks for it and has no answer yet, and a request is turned away only for an
e-mail that was somebody's meanwhile. The refinement
keeps `table` and `promoted` and maps each registration under way to what it wants and
what it has seen (`DirSignup`). Every arrival, statement and end of a request is one of
the six or is not seen (`ArriveDir`, `ServeDir`, `LeaveDir`). `IInv` is needed where the
code writes what it read earlier: a `Save`, whatever its copy has lived through, is a
`Change` because the row still has the copy's e-mail (`CopySound`) and no other open
account does (the index, or `EmailUnique` when the row is live, where the index is not
asked by an UPDATE that keeps the e-mail); an INSERT is a `Create` because the sequence
has an id left (`IdsSound`). A write is noticed by the registrations that want its e-mail
(`WriteNotice`), which is what justifies a conflict that the index reports long after
`ExistsByEmail` said no.

`Pipeline_proofs` proves, for any numbers of connections and contexts:

| theorem | statement |
|---|---|
| `Invariance` | `Spec => []IInv` |
| `OneWholeAnswerHolds` | no response has two bodies, none is let go without one |
| `OwnAnswerHolds` | no handler writes into another request's response |
| `Refinement` | `Pipeline` implements `Answers` |

Assumptions: there is a connection and a context.

The argument. `IInv` has three parts for each connection. `Goroutines`: a request under
way has a context of its own, and its handler goroutine is over exactly when `done` is
closed, so that a handler that still runs writes to its own request (`OwnTarget`).
`Commitment`: `wrote` and `timedOut` are never both set, and one of them is once the
handler is past its status. `Response`: the response is empty exactly until the one who
committed has written. A step of one connection leaves the parts of the others alone
(`Frame`, `LocalStep`), except `Accept`, which takes a context nobody uses. The refinement
maps a connection under way to open or answered by whether its response is empty.

`Listing_proofs` proves, for any numbers of rows and keys, any page sizes and any largest
`int`:

| theorem | statement |
|---|---|
| `ScanInvHolds` | `Spec => []ScanInv` |
| `CursorCompleteHolds` | a scan that came to its end has listed every steady row |
| `CursorOnceHolds` | no row is listed twice, and ids go up from page to page |
| `ListingInvHolds` | `Spec => []ListingInv`: `ScanInv` and `WalkInv` |
| `PagesPartitionHolds` | numbered pages follow the order, are disjoint and leave no row out |

Assumptions: the number of rows and the largest `int` are naturals, keys are naturals and
there is one, the default limit is between 1 and the largest.

The argument for the cursor: `CursorComplete` speaks of the end only. `ScanInv` says at
every point that what was given lies at or before the cursor, and that a steady row was
given or lies behind it. For a page this needs two facts about `Limit` (`LimitById`,
`Sizes`): rows left out of a page sorted by id come after all of its rows, and if no more
than the limit came back nothing was left out.

The argument for the pages: `PagesPartition` compares pages that were asked for at
different times. `WalkInv` says of each page in the history that it is one the *present*
table may give for its number, which changes of the table keep by emptying the history,
and that the total belongs to the same table. The rest is about one table. A page lies
between two fronts of the order, of `(p - 1) * size` and `p * size` rows or all there are
(`PageShape`; no overflow, by `SkipFits`). If a row of a later page preceded one of an
earlier page, or were one of them under a unique column, the later page's smaller front
and that row would fit into the earlier page's larger front, and be one row too many
(`LaterPage`, `PagesInOrder`). And the row with `r` rows before it is on page
`r \div size + 1`, as a front without it has at most `r` rows and one with it has more
(`PagesCover`).

`RateLimit_proofs` proves, for any numbers of clients, processes, concurrent requests and
attempts, any limit and any window:

| theorem | statement |
|---|---|
| `LimiterInvHolds` | `Spec => []LimiterInv` |
| `WindowBudgetHolds` | at most twice the limit passes at one place in any span of a window |
| `RefusedForOwnHolds` | who is refused was counted more than the limit within a window |

Assumptions: limit, window and attempts are positive naturals, `Burst` is a natural,
`Redis` is no process. The argument: `WindowBudget` alone says nothing of how much is left
of the limit. `LimiterInv` ties each counter to the history of its client: while a window
runs, what has passed since it began is at most its counter and at most the limit, its
counter is at most what was counted since, and what passed before it, no longer ago than
a window, is at most the limit once more. An increment adds one to the counter and to the history
of every age (`CountSound`); a tick makes the window and the history older together
(`TickSound`), and when the window ends, all that passed within the last window's length
passed in it: at most the limit, which is what the next one may add to. The history counts
up to an age, not per age, so that no sum is needed.

`Lifecycle_proofs` proves, for any numbers of instances, requests, messages, migrations,
pings and faults, any grace period and any configurations:

| theorem | statement |
|---|---|
| `LifeInvHolds` | `Spec => []LifeInv` |
| `ServesReadyHolds` | who takes requests is configured, migrated and seeded |
| `DirtyNeedsAccidentHolds` | a dirty version is the lock holder's work, or an accident's |
| `CutWasLongHolds` | a forced shutdown cuts only requests that had the grace period |
| `MailTruthHolds` | at most one acceptance; "sent" means accepted |

Assumptions: instances are numbers, `Nobody` is none of them, bounds are naturals, the
grace period is no longer than ages are counted. The argument: `LifeInv` says what a start
has established at each of its steps (`PhaseInv`), and that the schema stays complete
because only the holder of the lock changes it and a complete one is not changed. A
request on a draining process is at least as old as the shutdown (`OpenInv`), because the
listener was closed first. `SenderInv` counts acceptances at each step of the dialogue.

`Api_proofs` proves, for any users, roles with `Admin` among them, requests and lifetimes:

| theorem | statement |
|---|---|
| `ApiRefinesSessions` | `ApiSpec => Spec`: all safety theorems about `Sessions` hold here |
| `ApiInvHolds` | `ApiSpec => []ApiInv` |
| `AdminsOnlyHolds` | nobody is past `RoleRequired` who was not an administrator recently |
| `ApiNoLateGrant`, `ApiImplementsGate` | `NoLateGrant` and the refinement of `RevocationGate`, carried over |

The argument: an administrator's token is issued from a row read while the user was one,
by a request that is still under way, so its expiry is at most a lifetime after `held`
(`TokenInv`, with `HeldInv` and the part of `Sessions`' invariant about roles read). While
the caller's token is alive at the gate, the caller is therefore `grounded` (`CallInv`),
and what passed the gate with the role of an administrator stays so.

Only model-checked: `EveryRequestEnds`, `EventuallyServes` and `ShutdownEnds`: liveness
needs fairness and ENABLED, which the prover does not handle.

## 5. Limits of the model

- Redis keeps its keys: a restart of a Redis without persistence loses revocations, and
  is not modelled.
- The clock of the process and the clock Redis expires keys by are one. Their drift, and
  the rounding of a TTL to a millisecond by the client, are below the model's unit.
- A database statement and a Redis command are atomic.
- Malformed input (binding errors) changes nothing and is left out, but for the two bodies
  that are read behind the gate (`LogoutBody`, `ReadBody`). How long a body takes matters
  to the pipeline, and is modelled there for every route.
- A process that starts again has forgotten its in-memory rate-limit counters;
  `RateLimit` has no restart. Its map is never cleaned, which no property is about.
- `Listing` has one client and no page that fails; what a client does with two scans at
  once is two behaviours of the model. The choice of the status code of an error is left out.
- `Lifecycle` has one configuration for all instances and no rolling update to a newer
  binary. How the port and the signal handler are set up inside the Go runtime is one step.
- In `Api` the routes write rows through `SetUserRole` only; the other writers of a row
  are `Sessions`' row edits.

### Not modelled

- Logging, security headers, CORS, request ids and the JSON envelope (`pkg/response`):
  each formats one request or response and keeps no state.
- The parsing of numbers and booleans in `internal/config`, and the values that are only
  handed on (addresses, ports, pool sizes). The values the start, the mail and the tokens
  depend on are constants of the modules, or fields of `Lifecycle`'s configurations.
- The text of mails, and the API description in `src/docs`, which is generated.
- The test helpers in `internal/testutil` and `mocks`.

## 6. Plan

All modules of the plan are written, and every safety property the runs check is proved.

| module | state | left |
|---|---|---|
| `Sessions` | checked, safety and refinement proved | - |
| `Pipeline` | checked, safety and refinement proved | - |
| `Listing` | checked, both listings proved | - |
| `Lifecycle`, `Mail` | checked, safety proved | an abstract specification of a start and a shutdown |
| `Api` | checked, safety and refinement of `Sessions` proved | - |
| `Accounts` | checked, all properties and the refinement of `Directory` proved | - |
| `RateLimit` | checked, all properties proved | an abstract quota that it implements |
