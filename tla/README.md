# Verification of react19-nestjs-api

TLA+ models of this repository's API, model-checked with TLC and proved with
TLAPS. Paths below are relative to the directory that holds `src/` (the
repository) and `tla/` (this project).

## The system

| Component | Code | State it keeps | Operations |
|---|---|---|---|
| Posts REST API | `src/src/posts/`, `src/src/contracts/` | none of its own; each request holds the row or snapshot it read across its awaits | `findAll`, `findOne`, `create`, `update`, `remove` (soft delete), `restore` |
| Cache | `src/src/cache/cache.config.ts` | Redis keys `post:<id>`, 30 s TTL, shared by all instances | `get`, `set`, `del`, expiry |
| Database | `src/prisma/schema.prisma`, `src/src/prisma/` | the tables; for posts: `updatedAt`, `deletedAt`, author key | statements of Prisma, each atomic |
| Notifications queue | `src/src/jobs/` | BullMQ's sets in Redis, the lock, attempts and stalled count of each job | `postCreated` (add), `process`, retry, takeover, trimming |
| GraphQL resolver | `src/src/topics/nestjs/graphql/` | none | `posts`, `post`, `createPost`, straight on Prisma |
| Order (DDD) | `src/src/topics/ddd/order/` | orders in a map, pending events inside each order | `addLine`, `place`, `markPaid`, `cancel`, `pullEvents`; place-order use case |
| Request pipeline | `src/src/common/`, `src/src/observability/` | metrics, throttler counters, request id | middleware, guards, interceptors, pipes, filters |
| Authentication | `src/src/auth/` | two secrets, read at two moments; tokens live with the clients | login, me, admin |
| Bootstrapping | `src/src/main.ts`, `src/src/app.module.ts`, `src/src/common/env.validation.ts`, `src/src/observability/tracing.ts` | `process.env`, the phase of the process | import, `.env`, validation, DI, connect, listen, shutdown |
| Learning demos, features | `src/src/topics/nestjs/learning/`, `src/src/topics/nestjs/features/` | none | a guard, a pipe, an interceptor, a filter and a middleware of their own; uploads, versions, health |
| SQL topics | `src/src/topics/sql/` | demo tables | claim jobs, transfer, upsert, paging, migration |
| Node topics, examples | the rest of `src/src/topics/` | none shared | demonstrations |

How they interact: a request passes the pipeline, a controller calls
`PostsService`, which awaits Prisma, the cache and the queue one call at a time.
Requests of one instance interleave at these awaits, and several instances share
PostgreSQL and Redis. The worker takes jobs from Redis in the same process or in
another. The GraphQL resolver works on the same table past `PostsService`. All of
it lives in a process that reads its configuration once and is stopped by signals.

What is hard about it:

- **Cache-aside over awaits.** `findOne` reads Redis, then the row, then writes
  Redis; writers write the row, then delete the key. Nothing makes either pair
  atomic, across requests or instances.
- **Partial failure.** Every write is two remote calls (row, then cache or
  queue). A rejection, a crash, or a cache client that hides an unreachable
  Redis in between leaves the second undone.
- **At-least-once jobs.** Retries, backoff, crashed workers and lapsed locks run
  a job more than once, and stop doing so at their limits.
- **Order of evaluation.** Interceptors see a failure before the exception
  filter sets its status; one JWT secret is read at import, the other later; one
  filter serves REST and GraphQL.
- **Lives of a process.** A refused environment must stop the boot; tokens outlive
  the process that signed them; a signal means something else in each phase, and
  two listeners wait for it.
- **Lists of a moving table.** Pages are cut from a table that changes between
  two of them, and ids appear in another order than they were handed out.
- **Partial updates in memory.** `place()` changes the order's status before
  its total can throw; saved orders lose events when publishing fails.

What makes each component correct: cached and served posts were really committed
live, stale entries are explained and healed, a write happens once and before it
is acknowledged; a job is never lost, never completed unsent, never repeated
beyond its limits; the events of an order tell its life and its total is the same
wherever it is named; a walk over the pages misses and repeats no more than the
changes made meanwhile explain; a process runs with what it was configured with or
not at all; guards admit the entitled and refuse with a reason; every request is
answered, in the shape of its route, by the process that accepted it; a signal
ends the process.

## Modules

| Module | What it is |
|---|---|
| `PostsService` | the code of `posts.service.ts`, one action per await |
| `PostsHistory` | the same with history variables, its properties, and the refinement mapping to `PostStore` |
| `PostStore` | the abstract posts API: no cache, no awaits, commits at one instant |
| `Notifications` | producer, worker and BullMQ, with its properties |
| `PostsSystem` | `PostsService` and `Notifications` composed: a resolved `queue.add` is the appearance of the job |
| `Money` | the value object and `Order.total`, on numbers that are off in proportion to their size, with Infinity and NaN |
| `Orders` | the order context: aggregate, use case, repository, publisher, controller, with its properties |
| `Listing` | `findAll` and keyset paging over a table that changes between the pages, through REST and GraphQL |
| `Bootstrap` | one process after the other: import, `.env`, validation, construction, connecting, listening, signals, draining |
| `Pipeline` | what happens to a request inside such a process, for every route; tokens |
| `MCOrders`, `MCListing`, `MCPipeline` | what TLC needs to check them: symmetry, page sizes, environments |
| `MCMoney` | builds every small cart, with every slip, and compares its total with exact arithmetic |
| `PostsProofs` | theorems about `PostsHistory` |
| `NotificationsProofs` | theorems about `Notifications` |
| `PostsSystemProofs` | theorems about `PostsSystem`, from those of `PostsProofs` and `NotificationsProofs` |
| `OrdersProofs` | theorems about `Orders` |
| `PipelineProofs` | theorems about `Pipeline`, and with it about `Bootstrap` |
| `Induction` | induction over numbers and sets, and functions defined by a first value and a step, in a form the provers can use |
| `ListingProofs` | theorems about `Listing` |
| `MoneyProofs` | theorems about `Money`, for the carts of `MCMoney` |

### PostsService

A request slot `r` executes `call[r]`: the operation, the id, the await it is in
(`at`) and the snapshot it holds (`post`). The actions are `CacheGet`,
`FindFirst`, `CacheSet` (`findOne`); `PrismaUpdate`, `Invalidate` (`update`,
`remove`, `restore`); `PrismaCreate`, `PostCreated` (`create`); `PrismaRefuse`
(PostgreSQL refuses the statement: no such row, or no such author). A row is
abstracted to a version and to whether `deletedAt` is null. Every UPDATE
statement, a soft delete and a restore included, bumps `updatedAt` and hence the
version; a cache entry is the version it is a snapshot of. Titles, bodies and
authors are abstracted away. Requests the pipes refuse touch nothing and are not
modelled.

The environment (`Faults`) may crash an instance, reject an awaited call (before
or after it took effect), or let the cache client hide a failure. A key expires
at any time after it was set; no clock is modelled.

### Notifications

`place` says which BullMQ set a job is in. `Take`, `Notify`, `Complete`, `Throw`
follow `process`; `Promote` ends a backoff; `Stalled` is BullMQ's check for
lapsed locks, `WorkerCrash` and the fault `"stall"` are why a lock lapses;
`ReportRefused` is the late report of a worker that lost its job. The handler of
the repository only waits and logs and cannot throw: `HandlerMayThrow` makes it
throw at any point, as the real work it stands for would, since the producer's
`attempts` and `backoff` are about nothing else. BullMQ's behaviour is modelled
from its use here and mapped as external.

### Orders and Money

`order[i]` is an object: status, lines, pending events. `store` holds the ids in
the repository's map; the map holds the objects themselves, so what domain code
does to an object it found is seen by every later request. `Create`, `AddLine`,
`Place`, `MarkPaid`, `Cancel` and `PullEvents` are the aggregate's methods; only
calls that get past the method's guards are steps, because a call that throws
changes nothing, except that `Placed` keeps the status `place()` assigned
before `total()` threw. No code of the repository calls `markPaid` or `cancel`
yet: the model lets domain code call every method at any time, except that the
events of a stored order are pulled by the use case alone, as `pullEvents` says.
`Execute` runs to the `await` of `save`, which has stored the object by then;
`PublishAll`, `PublishRejected` and `Return` are what follows. `pulled` and
`published` are history variables.

A body of `POST /orders` is a sequence of pairs of numbers, NaN among them for
one that is missing; a body without lines or without a customer throws like
the bodies of `ExecuteThrows` and leaves as little behind. The publisher of the
repository logs and cannot reject; `PublisherMayReject` makes it the Kafka
producer its comment announces.

`Money` counts an amount in units, `2 * Parts` of them to a cent, and a quantity in
`Parts`-ths of a piece, because `addLine` accepts half a piece as well. Numbers end
at `MaxNumber`, above which they are `Infinity`; so the multiplication by 100 inside
`Math.round` can overflow as it does on doubles. The error of a double grows with
its size: the number `Money.of` rounds, which has been multiplied by 100, is off by
a slip of up to one part in `Precision` of the exact value (`Slack`), in either
direction. Doubles are an instance: `Parts` = 2^1074 makes every double a whole
number of units, and a price that is itself rounded, a product or sum and the
multiplication by 100 miss at most three or four parts in 2^53, within a
`Precision` of 2^51. `TotalWith` is the `reduce` of `Order.total`, as a recursive
function over the lines, with slips of its own for each product and each sum;
`Total`, which `Orders` uses, is the one without slips.

`CentExact` says of totals at whose size half a cent can still be told from nothing
(for doubles, below some eleven trillion dollars) that they are whole cents, and
the exact ones but for the lines that are no whole cents themselves: two and a half
cents are rounded to three, line by line, and 1.005 dollars may become 1.00 or
1.01. Each such line adds half a cent and a slip to what may be missed; the slips
of all other products and of all sums add nothing. Beyond that size the code accepts
amounts it cannot keep to the cent, and nothing is claimed.

### Listing

A row is a state: `pending` while its INSERT is open, `live`, `hidden` by
`deletedAt`, a `gap` when the INSERT was refused after the sequence had moved on.
`FindAll` and `Seek` are the queries as functions of the table;
`InOrder` is their ORDER BY, which puts each row after those with a smaller id.
`PostsService` is modelled in its own module; here its writes, and those of
`createPost`, are the instants they commit. A walk reads one page per step, by
offset as the REST API offers or by key as `14-pagination.sql` recommends, until
one comes back short; it remembers which posts were there all along.

### Bootstrap and Pipeline

`shell` is the environment the operator starts the process with, `file` the
`.env`; both change between lives. `env` is `process.env`, and `used` what each
reader found there: `tracing.ts` and `JwtModule.register` while they are imported
(`ImportModules`), everyone else when constructed or called (`Create`), after
`LoadEnv` has merged `.env` and defaults or `RefuseEnv` has ended the life.
`DATABASE_URL` and `PORT` are read without a default of their own or with the
schema's.

`term` is what became of a SIGTERM. Before the shutdown hooks stand it kills
(`Killed`), unless `tracing.ts` has put a listener of its own in the default one's
place, which only shuts the SDK down (`Swallowed`). With the hooks Prisma is
disconnected while the server, or the boot, goes on (`Terminate`, `closing`); then
the server stops accepting and answers what it accepted (`CloseServer`,
`draining`). At the end Nest takes off its own listeners and sends the process the
signal again (`Resent`): the default action ends it, but where the listener of
`tracing.ts` is left, nothing does, because the ioredis client built in
`jobs.module.ts` is never closed. Such a process is `lingering`, without a server;
one whose boot was under way goes on to listen. SIGINT, for which `tracing.ts` has
no listener, ends a process as SIGTERM does without tracing and has no action of
its own. `Crash` is a kill that nobody can handle, or a failure, at any moment.

A slot of `req` is a request on its way: `guards`, `handler`, `failed`, `done`; `cut`
if the process ended without a crash before it was answered.
`Send` admits any request to any route, with any key and any token ever issued;
`Throttle`, `Refuse` and `Admit` are the guards, `Return` and `Throw` the handler
with the interceptors around it, `Filter` the exception filter in charge. A route
is its guards, the statuses its pipes and handler may end in, and which filter
takes its exceptions. What a handler does to the state is the other modules'
matter. Interceptors of a handler that throws run before any filter, so `Throw`
counts the status the response has by then. A token keeps the secret it was
signed with (`key`) and, for the properties alone, the one configured that day.

External here: Nest's default statuses and its order of stages, the body parser
(which refuses before any middleware of the application has run), the router's
404, Apollo (which answers a failed resolver with 200 and an errors array), the
throttler's counters.

## Checks

All bounds are constants in the `.cfg` files.

| Run | Instance | Shows |
|---|---|---|
| `posts_safety` | 1 post, 3 requests, versions up to 3, every fault | `HistoryOK` (types, and the supporting part of the inductive invariant), `ServesCommitted`, `StaleHasCause`; `ImplementsStore`: the service refines `PostStore`; `EventuallyFresh`: staleness ends |
| `queue_safety` | 2 jobs, 2 workers, 3 attempts, sets of 1, crashes and lapsed locks | `QueueOK` (types, and the supporting part of the inductive invariant), `BoundedNotifications`, `CompletedMeansSent`, `FailedMeansExhausted`, `RetentionBounded`, `EveryJobSettles` |
| `system` | 1 post, 2 requests, versions up to 2, 2 workers, 2 attempts, everything crashes | `NotifiedMeansCommitted`, `AckedMeansQueued`, `OneRunAtATime`, `AckedIsFollowedUp` |
| `money_totals` | carts of up to 3 lines, 3 prices, 2 currencies, quantities of a half, three, infinity and NaN, extreme slips | `CentExact`, `TotalThrows` |
| `orders_safety` | 2 orders, 2 requests, 2 lines, 2 currencies, quantities of none, a half and NaN, a publisher that may reject | `OrdersOK` (types, and who awaits what), `EventsTellStory`, `StoredCanBeShown`, `RepliesAgree`, `AckedMeansPublished`, `AnnouncedOrRefused` |
| `listing` | 4 ids, 2 seeded posts, pages of up to 2, limits from -1 to 3, 2 deletes and 2 restores | `LTypeOK`, `WalkAccounted`, `KeysetComplete`, `PagesCoverLive` |
| `requests` | 2 lives, every way to set the secret, 1 request at a time, 1 login | `PTypeOK`, `UpMeansConfigured`, `KeysAgree`, `AdmittedRightly`, `RefusalExplained`, `AnswersRecorded`, `BootSettles`, `EveryRequestAnswered`, `SigtermEnds` |

Why these bounds are enough to be interesting: an overtaken fill takes a reader
and a writer on one post, a third request makes a second writer or reader race
with both; version 3 allows a delete and a restore after a seeded row; versions
are bounded by refusing new writes, never by stopping one half-way. Sets of size
1 make two jobs reach the trimming. Both bounds of a run count (3 attempts plus
1 takeover) are reached. Two orders and two requests let one request read an order
another is still placing; two lines are what it takes to mix currencies, three to
make slips of earlier sums reach later ones. With `Parts` 4 a cent is 8 units:
prices are two cents, one and a half, and 1000 units, which overflow against
`MaxNumber` 9600 when multiplied by 100; half a piece of either small price, or
three, gives products of whole and of broken cents. A `Precision` of 20 makes slips of
up to 3 units, just below half a cent, in the largest totals `CentExact` speaks of,
and leaves larger ones, which the carts reach too, unclaimed. In the
composition one post is one job, which two workers can contend for and two requests
can create, read and delete while it runs. Pages hold 2 rows where the code's hold
up to 100: four rows then make two full pages and a short one, limits lie below,
within and above the clamp, and two deletes and two restores suffice to skip and
to repeat. Two lives are what it takes for a token to meet another secret; requests
of the pipeline share nothing but tokens, so one at a time shows all of them, and
the environments are those in which a secret stands in the shell, in `.env`, in
both or in neither, is refused, or is missing its database, with tracing on or off. The proofs below have
no bounds. The queue drains and then rests, so its run does not check for deadlock;
the API always accepts requests and does; carts end at their bound.

Five runs show where the code does not do what the repository says of it:

| Run | Said | Found |
|---|---|---|
| `consistent_at_rest` | `posts.service.ts:66` "keep cache consistent with the DB" | a GET misses and reads the row, a PATCH commits and deletes the key, the GET sets the old row: stale until the TTL, without any fault |
| `update_only_live` | `posts.service.ts:64` "404 if missing" | the post is soft-deleted after `findOne` and before the UPDATE, which names the id alone |
| `half_placed` | `events.ts:6` aggregates "RECORD events as they change state" | `place()` with a line in euros sets the status, then `total()` throws: placed without an event, cannot be placed again, can be paid |
| `errors_measured` | `metrics.service.ts:5` "Rate + Errors (http_requests_total by status)" | a handler throws, the interceptor counts the 200 the response still has, the filter answers 500 |
| `tokens_accepted` | `auth.controller.ts:5` `/auth/me` answers "the current user (any role)", `app.module.ts:25` "Loads .env app-wide" | with the secret in `.env` alone, `login` signs with the default that `JwtModule` read before `.env` was loaded, and `/auth/me` answers the fresh token with 401 |

Other points where the code does not do what is said of it, or hardly what was
meant, have no run of their own:

- **Metrics miss requests.** `observability.module.ts:12` says "record every
  request" and `metrics.interceptor.ts:2` "request count + duration per HTTP
  request", but an interceptor counts: what the throttler or a guard refuses (429,
  401, 403), an unknown path and a body that does not parse are counted nowhere.
  `AnswersRecorded` says exactly which answers are not counted.
- **Tracing keeps the process alive.** With `OTEL_ENABLED=1` the listener of
  `tracing.ts:27` outlives Nest's: the SIGTERM that Nest sends itself after its
  shutdown is swallowed, and the process stays, without a server
  (`lingering`), although `main.ts:14` speaks of a graceful shutdown on SIGTERM. One
  that comes before the shutdown hooks stand is swallowed as well (`Swallowed`).
  `SigtermEnds` shows that nothing else keeps a signalled process but a request
  that waits for Redis.
- **GraphQL shows what is deleted.** `schema.prisma:46` says "rows are hidden by
  setting deletedAt" and `production-database-practices.md:34` "Read live rows
  with `WHERE deleted_at IS NULL`"; `posts` and `post` (`post.resolver.ts:20`, `:25`)
  read the table without that filter. Nothing claimed here of the pages of
  `findAll` holds of them.
- `attempts: 3` counts the first run, so a failing job is retried twice, not "up
  to 3 times" (`notifications.service.ts:23`; `FailedMeansExhausted` says when a
  job fails). A job that runs twice notifies twice (`BoundedNotifications`), which
  `docs/notes/queues-bullmq.md:21` and `notifications.processor.ts:10` advise
  against.
- `quantity <= 0` (`order.aggregate.ts:60`) lets NaN and a missing quantity into
  an order, which then can never be totalled (`TotalThrows`); `Money.of` checks an
  amount to be finite before it multiplies it by 100, which overflows above about
  1.8e306 and yields a Money of `Infinity` (`InCents`), whose sums throw. Far below
  that, from some eleven trillion dollars on, a double no longer tells half a cent.
- `OTEL_ENABLED` in `.env` has no effect: `tracing.ts` is imported before `.env`
  is loaded, and the schema does not know it.
- While Redis cannot be reached, POST /posts and the other routes that use it wait
  (`maxRetriesPerRequest: null`, `jobs.module.ts:21`), and a shutdown waits for
  them (`EveryRequestAnswered` and `SigtermEnds` exempt exactly these).
- A body that does not parse is refused before `RequestIdMiddleware`: its error
  carries no `requestId`. Errors of `/learning` carry none either and are not
  logged, although `all-exceptions.filter.ts:7` says "every route is covered";
  the log line of `AllExceptionsFilter` does not name the id, although
  `request-id.middleware.ts:5` says every log line can be tied to one request.
  A GraphQL error leaves neither a log line nor a count and is answered with 200.
- A post made over GraphQL by `createPost` is never announced to the queue.

Fairness. Each pending call of a request settles (`WF` on `Step(r)`: Prisma,
Redis and BullMQ answer or reject), keys expire (Redis enforces the TTL), free
workers take waiting jobs, a running handler ends, and BullMQ's delayed and
stalled timers fire. A boot under way goes on
(`LoadEnv`, `Create`, `Connect`, `Listen` or their failures: code that runs to its
next await, and awaits that settle), a shutdown proceeds (`CloseServer`, then
`Drain` when nothing is in flight), and a request inside the process is handled
(`Proceeds(r)`), unless its handler waits for Redis: the clients repeat a command
until Redis is back, so of `RedisRoutes` nothing is assumed. Postgres is assumed to
answer or reject, and where `PostsService`, `Notifications` and `PostsSystem` let
calls settle, Redis is assumed to come back. Weak fairness suffices: a pending step stays pending until it
happens or its process dies. Nothing obliges clients to send, operators to start or
stop anything, faults to occur, tokens to expire, or a live worker to
lose its lock. `EventuallyFresh` holds because writes are bounded; for a post
written for ever nothing is claimed.

## Proofs

`PostsProofs` holds for all sets of posts and slots, every bound and every subset
of faults; its assumptions are that `NoId` is not a post and that `Faults` names
known faults.

- `HistoryHolds`, `ServesOnlyCommitted`, `StalenessExplained`: the invariants
  `HistoryOK`, `ServesCommitted` and `StaleHasCause`.
- `Refinement`: `HSpec => ImplementsStore`.

The argument. None of the invariants is inductive alone. That a fill puts only a
committed snapshot into the cache needs the pending fills to hold one
(`FillsOK`), which needs live rows to have been seen (`RowsOK`). That a fill
nobody overtook is fresh is the other half of `FillsOK`: such a fill holds its
row's current version, because any write since the read would have marked it.
That inserting a row makes no entry stale needs that nothing newer than its row
was ever seen (`SeenOK`). `CallsOK` says which operation and id go with each
await. Their conjunction is `Inductive`. The proof first types every action
(`TypeStep`), then condenses all actions into `Shape`, the four things a step
can do to rows, cache, slots and replies (`StepShape`), and derives the
invariant's step from `Shape` alone. The refinement maps an abstract commit to
`PrismaUpdate` or `PrismaCreate`, answers to answers, and everything else to a
stutter.

`NotificationsProofs` holds for any set of jobs, any finite set of workers (the
constants' named assumptions: `Attempts` and both retention limits are positive,
`MaxStalled` is a natural number), and any faults.

- `QueueHolds`, `NotificationsBounded`, `AtLeastOnce`, `GivesUpLast`, `OneRun`,
  `Retained`: the invariants `QueueOK`, `BoundedNotifications`,
  `CompletedMeansSent`, `FailedMeansExhausted`, `OneRunAtATime` and
  `RetentionBounded`.

The argument. That runs are bounded needs `CountsOK`: every run but the current
one ended in an attempt made or in a lapse, and a job still to be run has used up
neither. That notifications do not exceed runs needs `SentOK`, because a worker
that lost its job may still notify: those sent and the workers about to send
(`Unsent`, counted by cardinality, hence the finite set of workers) together do
not exceed the runs. `LocksOK` says that exactly the active jobs are locked, so
that the holder's report is about an active job; `WorkersOK` gives ownership when
no live worker loses its lock. `FinishShape` is the lemma about ending a job: the
set it enters still holds what it claims, at the price of its oldest job. Every
verdict on an active job, the worker's and the stalled check's, goes through one
step of the proof (`<1>6` of `QInductiveStep`).

`OrdersProofs` holds for any orders, requests, prices, quantities, currencies that
include USD, any bound on lines and both kinds of publisher.

- `StoryTold`, `Showable`, `OneTotal`, `AckedAfterPublish`, `OrdersTyped`: every
  invariant of `orders_safety`; `Announced`: its action property.

The argument. The invariant has three parts. `Orderly`: each order with its pulled
and published events is `Good` (typed, and telling its story), stored ones are
`Stored`. `Calling`: a request awaits a stored order that no other request awaits,
whose events nobody has pulled yet; this is what makes the use case publish the
placement and not an empty list. `Telling`: what clients were told. Lemmas say of
each method what it does to one `Good` order (`PlacedGood`, `PaidGood`,
`CancelGood`, `PullGood`); `OneOrder` and `Answers` lift that to the whole state,
for steps that change one order or one answer. The key fact is `StoryHead`: the
first event of a stored order is its placement with the total of its lines, which
nothing changes any more. The proofs use nothing of `Total` but that it is a
function of the lines.

`PostsSystemProofs` holds for any posts, requests, workers, bounds and faults of the
composition.

- `NotifiedOnlyCommitted`, `AckedOnlyQueued`: the invariants
  `NotifiedMeansCommitted` and `AckedMeansQueued`.
- `OneRunInSystem`, `QueueKeepsItsWord`: `OneRunAtATime`, and the invariants of
  `queue_safety`, in the composition.
- `PartsBehave`: a behaviour of the composition is, seen from the API's variables,
  one of `PostsService`, and seen from the queue's, one of `Notifications`.

The argument. Every step of the system is a step of one part and a stutter of the
other, or the joint step of `queue.add`, which is a step of both. The invariant
`SystemInv` adds to the types of the API what links the parts (`LinkOK`): a job
that is somewhere, or has been notified, belongs to an enqueued post; an enqueued
post has a row; an acknowledged `create` is enqueued. `JobsOK` says that an unadded
job has no worker and no notification, `CallsOK` that a request awaiting
`queue.add` has committed its row.

`PipelineProofs` holds for any values, any schema that accepts its own defaults, any
shells and files, any slots and any number of lives and logins.

- `PipelineTyped`, `RunsAsConfigured`, `OneSecret`, `GuardsHold`,
  `RefusalsExplained`, `Recorded`: every invariant of `requests`. `Recorded` says
  where an answer is counted and logged, where it is not, and its shape.

The argument. `EnvOK` follows `process.env` and its readers through the phases:
`LateReads` shows that whoever reads after `.env` was loaded gets the configured
value, with or without a default of its own, `EarlySecret` what is left to those
who read before. `Signed` says of every token that its key is the secret of its day
or the default in its place; since both outlive the process, the explanation of a
refusal is carried by the token. `Good` says what holds of a request at each stage;
a step of the process keeps it because the configuration stays as it is until every
request is gone, and new or expired tokens keep it (`GoodGrows`). Each action of a
request then has a lemma of its own.

`ListingProofs` holds for any `MaxId`, seeded posts, page size, limits (integers of
any sign) and bound on deletes and restores.

- `ListingTyped`, `WalkAccountedFor`, `KeysetMissesNothing`, `PagesAlwaysCover`:
  every invariant of `listing`.

The argument. The place of a row is the number of rows before it (`Rank`); places
follow the ids, fill `0 .. Cardinality(S) - 1`, and give what `InOrder` holds at an
index, so a page is the rows with places in an interval (`PageRead`, `SeekRead`).
For a walk by offset the invariant compares with the rows the pages read so far
would cover now, those with a place below the position reached (`First`): the posts
that stayed and are covered but were not received are as many as were deleted, at
most, and the repetitions together with what was received but is no longer covered
are as many as came or came back, at most. A
row that leaves moves one row of the rest into the covered part, a row that comes
moves one out of it; this is the one step per action. A short page ends the walk
with every row covered. For a walk by key the invariant is simpler: what was
received ascends and ends at the cursor, and every post that stayed up to the
cursor was received. That pages tile the table (`PagesTile`) is an induction over
the pages that `FlattenSeq` joins.

`MoneyProofs` holds for any prices (negative, infinite and NaN included), any
currencies that include USD, any quantities in any `Parts`, any slips within any
`Precision`, carts of any length, and any `MaxNumber`. That doubles are an instance
is the argument above, not a theorem.

- `TotalsAreExact`, `BadTotalsThrow`: both invariants of `money_totals`.

The argument. Every `Money` is a whole number of cents (`OfTyped`). A number that is
off by less than half a cent is rounded to whole cents no further from it than half
a cent and the slip, and to itself if it is whole cents (`OfRounds`); so a sum of two
amounts is exact (`AddExact`), and a product is unless it is broken itself
(`MultiplyCounts`). By induction along the lines the total after each is within the
sum of what its broken lines may miss. No exact partial sum exceeds the last
(`SumsGrow`), the slack grows with the size (`SlackFacts`), and half a cent and a slip
are less than a cent, so no sum on the way exceeds `Peak`, for which `CentExact` asks
that it can be told to half a cent and be multiplied by 100. That a line that cannot be counted makes the total throw
is another induction: once a partial sum throws, so do all later ones. The
exception is a value different from every `Money`, the numbers are different from
Infinity and NaN (`NumbersAssumption`, `ThrowsAssumption`).

`Induction` is where these inductions come from. The library states induction for
an operator `P(_)`, which the provers cannot instantiate; here the predicate is the
set of numbers it holds of (`SetInduction`, `IntervalInduction`), proved from the
least element of a set of numbers. `RecursionExists` shows that a first value and a
step define a function, which is what a recursive function definition, a `CHOOSE`,
needs before anything can be said of its values.

In `PostsSystemProofs`, `OneRunInSystem` and `QueueKeepsItsWord` instantiate
`NotificationsProofs` with the posts as jobs: the assumptions of the queue follow
from those of the system (`QueueOptions`), its inductive invariant holds of the
queue inside the system, and with it each promise of the queue, `OneRunAtATime` the
one that `system` checks.

Every invariant and every action property of a passing run is the statement of a
theorem. What stays with TLC is liveness, which is beyond this prover:
`EventuallyFresh`, `EveryJobSettles`, `AckedIsFollowedUp`, `BootSettles`,
`EveryRequestAnswered` and `SigtermEnds`.

## Plan

1. **Users and comments**, as soon as the API writes them: today only the seed
   script does.
2. **An abstract order** without awaits, which `Orders` would implement as
   `PostsService` implements `PostStore`.
3. **The throttler**: its window over several clients, once the limits are the
   repository's own and not the library's.

## Not modelled

- The Node scripts and the examples: stand-alone demonstrations of the runtime, or
  text in comments; nothing of the running API depends on them.
- The SQL scripts other than keyset paging: each runs once in one session and drops
  its tables; where they speak of two sessions they only describe them.
- Users, profiles, comments and categories (never written by the API),
  `Order.rehydrate` (nothing calls it), a crash of the order context (its orders
  live in memory and vanish with it).
- The GraphQL queries `posts` and `post`: one read each, without a filter.
- What the handlers of the learning and feature demos compute: trimmed strings, the
  current user, serialized entities, upload metadata.
- Time: TTL, backoff, lock durations, token life times and the throttler's window
  are nondeterministic. Wire formats, headers, CORS, the durations that are
  measured.
