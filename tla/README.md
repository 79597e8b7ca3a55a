# Verification of the ticketing back end

TLA+ modules for the ticketing back end. The core is the sale, where a ticket can
be sold twice, a seat be lost or a customer pay for nothing: the Redis seat
locks, the holds API, order creation, the payment webhook and the idempotency
store. Around it are the services that surround a sale (ticket redemption,
venue isolation, the event bus, migrations, seatmaps, the container's own seat
lock service) and the LML admin's back office. TLC checks small instances of
everything; TLAPS proves the safety properties and both refinements for every
instance. What stays with TLC is liveness and the runs that show where documents
and code part (section 7).

- [1. The system](#1-the-system)
- [2. Modules](#2-modules)
- [3. State and actions against the code](#3-state-and-actions-against-the-code)
- [4. Runs, bounds and what they show](#4-runs-bounds-and-what-they-show)
- [5. Where documents and code part](#5-where-documents-and-code-part)
- [6. Fairness](#6-fairness)
- [7. Proofs](#7-proofs)
- [8. Assumptions and what is not modelled](#8-assumptions-and-what-is-not-modelled)
- [9. Plan](#9-plan)

## 1. The system

Paths are relative to the repository's root.

| Component | Code | State it keeps | Operations | What is hard | What makes it correct |
|---|---|---|---|---|---|
| Seat lock store | `services/inventory/infrastructure/redis` | one Redis key per held seat: `version:owner` with a TTL; Redis's script cache | acquire all or none, extend, release, rollback; load scripts | retries and an EVAL fallback re-run a script whose first copy may still run; expiry; script flushes by starting processes | holds are exclusive, whole, timed, and moved only by their own token |
| Holds API | `apps/api/src/v1/inventory/routes.ts` | idempotency records keyed by body hash | `POST`, `PATCH`, `DELETE /v1/holds` | a stored answer outlives the hold it describes | an answer names a hold that is the caller's |
| Order creation | `apps/api/src/v1/orders/routes.ts`, `VerifySeatHolds.ts`, `RedisSeatHoldReader.ts` | `orders.orders`, `inventory.seat_state`, idempotency records, Stripe's payment intent | `POST /v1/orders` | holds are read before the transaction; row locks taken in client order; a Stripe call in the transaction; the response is recorded after the commit | a pending order owns exactly its seats; one order per request |
| Payment webhook | `apps/api/src/v1/payments/routes.ts` | `payments.webhook_events`, orders, seats, `ticketing.tickets` | succeeded, payment_failed, canceled | events repeated, reordered, handled at the same time; failing half-way | one ticket per sold seat; a charge ends in tickets |
| Idempotency store | `packages/idempotency/src/store.ts` | one record per key: in progress (120 to 180 s) or committed (6 to 24 h) | begin (SET NX, then GET), commit (SET XX) | the record expires under a slow or dead request | a request is done once |
| Idempotency middleware | `packages/idempotency/src/middleware.ts` | the same records | begin, onSend commit | registered by no route | nothing to keep: dead code |
| Ticket issue and redemption | `apps/api/src/v1/verification/routes.ts`, `packages/verification/src/keys.ts` | `ticketing.tickets.status`; a key ring in each API process | issue, redeem, rotate a key | SELECT then UPDATE under two scanners; keys that die with their process | a later scan is refused; a rotation invalidates nothing |
| Availability and SSE | `apps/api/src/v1/inventory/availability.ts`, `utils/sse.ts` | none (reads Redis); connected clients | snapshot, stream | holds alone decide; ETag counts holds | a sold seat is never offered |
| Seat lock service of the container | `services/inventory/.../RedisSeatLockService.ts`, `AcquireSeatLocks.ts`, `lua/acquire_seat_locks.lua` | a second set of lock keys | acquire, release, extend, clean up | check and write in separate commands; a script another adapter flushes | a lock is passed on only through its holder |
| Event bus | `packages/events/src/DomainEventBus.ts` | subscribed handlers, retry queue | subscribe, publish, processRetries | publish settles handler errors; overlapping sweeps | a failed event is not lost |
| Migrations | `packages/database/src/migrations/runner.ts`, `packages/migrations/src/umzug.ts` | `schema_migrations`; `.migrations.json`; the schema | up, down | two starting processes; a history in another store than the schema | what is recorded is applied |
| Venue isolation | `packages/venue-isolation` | the venue context, one field of a shared repository | context, boundary and permission checks; scoped operations | the field is read again after every await | an operation runs in its own venue |
| Seatmap store | `services/venues/.../MongoSeatmapRepository.ts` | seatmap versions, mobile cache, event snapshots | save, publish, read, render, snapshot | no operation is a transaction | a published venue stays published; the cache is of the published map |
| Venue accounts | `services/lml-admin/domain`, `CreateVenueAccount.ts` | accounts with status, configuration, billing, contacts | create, activate, suspend, reactivate, archive, update | two creations of one slug; guards differ from the transition table | a lookup that was answered leaves the table only overlapping creations; the account follows its status machine |
| Venue operations | `ProvisionVenueAdmin.ts`, `ManageVenueShows.ts`, `ValidateVenueTickets.ts` | users, venue staff, performances, validations | provision, schedule, validate | lookup, then write; a failing lookup counts as an empty one | no later conflict, no later second entry |
| Administrators | `PlatformAdministrator.ts`, `AdminPermissions.ts`, `AdminRole.ts` | role and permission sets | create, change role, grant, revoke, deactivate | entries that are true, false or missing; changes of role, returns, merges | a permission comes only from a grant or a preset |
| Rate limiter | `packages/ratelimit` | one counter per window | allow | INCR with EXPIRE NX | at most `limit` per window |
| Identity, ticketing service | `services/identity`, `services/ticketing` | users, sessions, events | request-scoped reads and writes | check then insert at registration | unique users |
| iOS and Android apps | `ios`, `android` | cached holds, tickets, tokens | poll, hold, pay, show | stale caches | never shows what the server denies |

How they interact: a buyer takes a hold (holds API, seat lock store), presents
its token to `POST /v1/orders`, which reads the holds in Redis, opens a Postgres
transaction that inserts the order, reserves the seats and creates a Stripe
payment intent, commits, records its answer in the idempotency store and returns
the client secret. The client pays Stripe directly; Stripe posts events to the
webhook until they are answered with a 2xx; the webhook confirms the order,
sells its seats and issues tickets, or fails the order and gives the seats back.
Redis, Postgres and Stripe are the only shared state; there is no other
coordination between API processes.

A paid ticket is issued as a signed token (`ticketing.tickets` and the key ring)
and redeemed at a gate. The LML admin has its own way in: venue accounts are
created and run by administrators, venue staff schedule performances and
validate tickets against repositories behind ports, and the requests of a venue
pass the isolation middleware. Seatmaps are published per venue and frozen per
event as snapshots. These parts call each other through ports or not at all, and
share no state with the sale beyond the tables a schema gives them.

`PROJECT.json` lists every component with its status, and every hazard with the
line where it bites and the properties that cover it.

## 2. Modules

| Module | What it is |
|---|---|
| `SeatLease` | what the seat lock store promises: leases under tokens, granted to whole sets, never passed on without having been free |
| `SeatLocks` | the four Lua scripts, expiry, `evalWithRetry`, script loading; refines `SeatLease` |
| `SeatLocksProofs` | the theorems about `SeatLocks` |
| `MCSeatLocks` | its small instances |
| `SeatLockClaims` | a statement of `prd.md` about held seats the scripts do not keep for every owner |
| `IdemStore` | the idempotency records and their two writes |
| `CheckoutState` | the state order creation and the webhook share; extends `SeatLease` (holds) and `IdemStore` |
| `CreateOrder` | `POST /v1/orders`, one action per await |
| `PaymentWebhook` | the webhook, one action per statement that can wait or fail |
| `Checkout` | both composed with buyers, time and Stripe; its properties |
| `HoldsApi` | `POST`, `PATCH`, `DELETE /v1/holds` over `SeatLease` and `IdemStore` |
| `HoldsApiProofs` | the theorems about `HoldsApi` |
| `MCHoldsApi` | its small instances |
| `SeatLifecycle` | what checkout promises about seats; `Checkout` refines it |
| `CheckoutProofs` | the theorems about `Checkout`, with the refinement of `SeatLifecycle` |
| `MCCheckout` | its small instances |
| `CheckoutClaims` | two statements of `prd.md` about orders and seats the code does not keep |
| `TicketGate` | issue, redeem, key rotation and restarts |
| `SeatLockService` | the container's seat locks, one step per Redis command |
| `DomainEvents` | publish, the persistence and retry middleware, overlapping sweeps |
| `Migrations` | `MigrationRunner` up and down, and the umzug script |
| `VenueScope` | the isolation middleware and `VenueScopedRepository` |
| `SeatmapStore` | `MongoSeatmapRepository`, one step per MongoDB command |
| `MCPlatform` | the six modules above in one small instance |
| `GateProofs` | the theorems about `TicketGate` |
| `ServicesProofs` | the theorems about `SeatLockService` and `VenueScope` |
| `StoresProofs` | the theorems about `Migrations`, `DomainEvents` and `SeatmapStore` |
| `PlatformProofs` | why they hold of `MCPlatform` too |
| `VenueAccounts` | `CreateVenueAccount`, the `VenueAccount` aggregate and its value objects |
| `VenueDesk` | `ProvisionVenueAdmin`, `ManageVenueShows`, `ValidateVenueTickets`, one step per await |
| `AdminAuthority` | roles, permission sets, the `PlatformAdministrator` aggregate |
| `MCBackOffice` | the three modules above in one small instance |
| `BackOfficeProofs` | the theorems about those three modules, and why they hold of `MCBackOffice` too |

`Checkout` uses the *promise* of the lock store (`SeatLease`), not its scripts:
`SeatLocks` is shown to implement `SeatLease`, by TLC on small instances
(`ImplementsLease`) and by TLAPS for all (`Refinement`). That keeps Redis
retries out of the state space of checkout.

Operators whose comment begins "A slip" or "Slips" are mutated forms of the
definition below them, a bug one could plausibly have written; nothing uses
them. `PROJECT.json` names, for each property of a passing run, the slip that
breaks it.

## 3. State and actions against the code

`PROJECT.json` maps each definition to its lines. The main correspondences:

**SeatLocks.** `hold[s]`, `ttl[s]` are the Redis key of seat `s` (`seatKey`) and
its remaining life; a script is one atomic step, because Redis runs scripts one
at a time. `pc`, `attempt` and `resp` are the program counter, loop variable and
result of one `evalWithRetry` invocation: `EvalShaReply` is the first return,
`EvalShaNoScript` and `EvalShaBusy` the two `continue`s, `EvalShaBroken` the EVAL
fallback of attempt 0 or the rethrow of the later ones, `EvalReply` and
`EvalBroken` the fallback, `OverBudget` the 150 ms budget (once it is exceeded
all remaining attempts throw, so they are one step). When a connection breaks
the client cannot tell whether the command was executed: `late[c]` counts such
copies, and `ExecuteLate` and `DropLate` resolve each. `cached` and `boot` model
`loadScripts`, which flushes the scripts of every process. `OwnerPattern` is the
relation `string.find(v, ':' .. owner .. '$')` computes between owners. The owner
is a Lua pattern there and is what a client sends as `X-Request-ID`, so nothing is
assumed of the relation: an owner with a `.` may match others' values, one with a `-`
(every UUID) may not match its own. It is a constant of `SeatLease` too, and in every
instance one owner matches another's values and one does not match his own. An owner
whose pattern matches nobody else's value is `Plain`; those the server generates
(`req_..._...`) are.

**HoldsApi.** The key of a record is the hash of method, path and body
(`BodyHash`): for `POST` the seats, for `PATCH` the seat and the token if it is
sent in the body, for `DELETE` the seat and the hold id of the path, never the
`Idempotency-Key` or the caller (`Parts`). The hold id of the path is any owner's: the
handler never compares it with the token. Every refusal after `begin` (409, 412, the
scope check of `PATCH`, 500) leaves the record in progress. The call of the lock
store is one step of the lease; when the adapter throws, its acquire may have
run, may yet run (`late`), or both. When it answers from its EVAL fallback, a copy of
the EVALSHA before it may still run as well (`MayLeave`). A lease carries no clock, so extending answers
whether the hold is the token's and changes nothing; what it does to the TTL is
in `SeatLocks`. `granted`, `ran` and `expired` are history, read by properties and, for
the tokens clients can present, by `Begin`.

**CreateOrder.** `pc[h]` walks `get` (the GET of `begin`), `verify` (one GET per
seat), `open` (BEGIN, INSERT), `reserve` (one UPDATE per seat), `intent`,
`commit`, `remember` (the idempotency commit) and `reply`. Table variables hold
committed rows. `mine[h]` is the set of seat rows the open transaction of `h` has
updated: to others they still read as they were, and an UPDATE of one of them
waits (`LockedByOther`), then re-evaluates `state = 'available'` on what was
committed. `Deadlocked` is a circle of such waits. The order's id is the name of
the handler that creates it.

**PaymentWebhook.** `Dedupe` is the INSERT ... ON CONFLICT DO NOTHING, which waits for
another open transaction with the same event id; it commits with everything
else or not at all. `SelectForSuccess`/`SelectForFailure` are the SELECTs, whose
result may be stale when `LockOrder` gets the order row; `ConfirmOrder` and
`FailOrder` are the remaining statements with the COMMIT, one step because the
order row is locked and every later statement reads rows only this order's
events write. The inner BEGIN/COMMIT/ROLLBACK act on the transaction `withTenant`
has opened. Two statements name a table without a schema, `orders` (in the failure
branch) and `stripe_events`; `PlainTables` says what those names may reach, one of them
being chosen at each statement. `"public"`: the tables of
`packages/migrations/sql/0001_core.sql`, and nothing writes that `orders`, so a failure
finds no order and commits its dedupe row (`FailureFindsNoOrder`). `"missing"`: no such
table, the statement throws and the transaction rolls back (`PlainTableMissing`).
`"orders"`: a `search_path` that starts with the schema `orders`, and a failure gives the
seats back.

**Environment** (external): `HoldSeats` (any buyer, at any time, through the
lease), `EndHold`, `ExpireRecord`, `DeclineCard`, `ChargeCard`, `CancelIntent`,
redelivery (`Deliver` of any event in `due`, in any order and to several
workers).

**TicketGate.** `Scan` is everything up to the SELECT, `ReadStatus` the SELECT,
`Redeem` the UPDATE, its COMMIT and the answer: there is no lock and no status
test between the last two. `ring` and `active` are `keyring` and `activeKid`
of each process; `RingReady` says what `ensureInitializedFromEnv` does to them
before every use, which is why a key rotated before the first use stops being
the active one. `configured` is `VERIFICATION_PRIVATE_PEM`: without it every start
of a process makes a key of its own, under the one name all of them use.

**SeatLockService.** `seatKey` holds the JSON of a lock; `RunAcquire` is the script,
`ReadLock` a GET with its checks, `DeleteLock` and `WriteExtended` the command that
follows the await, `SweepRead` and `SweepDelete` the two of the clean-up. The script
compares `redis.call`'s answer to `'OK'`, which a table never equals: seats are locked
*and* listed as failed, the per-user set stays empty (so `getUserLocks` finds
nothing, and the limit of `AcquireSeatLocks.ts` 47 bounds one request only), and an
empty list is encoded as an object whose `map` throws. `RunAcquire` therefore
locks what is free and its caller is always told of a failure: by `acquireLocks`, or, if
the user already had one of the seats and `acquireLocks` succeeds, by the `map` over
`queuedSeats` in `AcquireSeatLocks.ts` 109. `extended` and `overlapped` are history: how
often each lock was extended, and which locks two calls were extending at once. `LoseScripts` is the SCRIPT FLUSH
of the other seat locks' adapter, after which `NOSCRIPT` is never repaired.

**DomainEvents.** `Store` is `beforePublish`, which alone can make `publish` reject;
`Handle` and `Settle` the settled handlers, after which `onError` queues a *new* item
whose count is 0. `StartSweep` takes the snapshot of `processRetries`; `NextItem`,
`Store`, `Handle`, `Settle` and `RemoveItem` are one turn of its loop.

**Migrations.** `changed` is the schema, `history` the table with its `applied_at`;
`RunFile`, `Record` and `Commit` are the statements of one transaction and `GiveUp` its
ROLLBACK. A file with a COMMIT of its own (`SelfCommitting`, the template of
`createMigration`) ends the runner's transaction early. `UmzugUp` commits the SQL,
`UmzugLog` then writes the file.

**VenueScope.** `context` is `venueContext`, the field one repository keeps for all
requests; `scoped[r]` is where request `r` stands in the middleware stack and then in
`executeInVenueContext`. `overtaken` is history: the venues other requests set while `r`
waited. `OperateInService` is the other way in, `executeInVenueContext` of the service,
which hands the operation its context and leaves the field alone. The service's lookups
are placeholders in the code: every venue is active, every user has the default
permissions, nobody has an assigned venue.

**SeatmapStore.** Each `find`, `insert`, `update` and `delete` is a step. `interrupted`,
`hadPublished`, `unflushed` and `lateFill` are history that says what was published before
and which race or death came in between. The `published_at` of a version that is saved is
the caller's: none, older than others, the same, or in the `Future`; only publishing
stamps it with the current time.
`hashing` is FALSE in a build where `require('crypto')` throws and nothing is saved.

**VenueAccounts.** An account is saved whole, so each call of the aggregate is one
step: its guard is the method's, its value objects are checked as `create` checks
them. `LookupSlug` and `SaveAccount` are the two awaits of the creation; the call
remembers which accounts there were at its lookup. What comes
after the save throws (`getUncommittedEvents` is missing), so the caller of a
saved account is told of a failure.

**VenueDesk.** `deskCall[c]` is where a use case stands; each repository call is a
step. `blind` remembers that a lookup failed and was taken for an empty one,
`before` which calls had succeeded when this one began. `BreakOff` is any awaited
call that fails and ends the use case.

**AdminAuthority.** A permission set is two disjoint sets, entries that are true
and entries that are false; `Merge`, `Intersect` and the role defaults are the value
objects' operations. `updateRole` keeps the permissions of the old role.
`MayUseSuperPower` is what the emergency and administrator powers ask of an
administrator, the comparison of role objects by identity included.

## 4. Runs, bounds and what they show

| Run | Instance | Question |
|---|---|---|
| `seat_locks` | 2 seats, 2 owners (one whose pattern matches both, one whose pattern matches neither), one with 2 versions, TTL up to 2 ticks, 3 calls out of 7 requests, 1 abandoned copy per call | are holds exclusive, whole, timed, fenced; is the lease implemented |
| `seat_locks_live` | 2 calls out of 3 requests, 5 abandoned copies, restarting processes | does every call return after a bounded number of commands; are all seats free in the end |
| `checkout_crossing` | 2 orders on 2 seats in opposite orders, 1 webhook worker, 1 fault, no declines, `PlainTables` without `"missing"`, fairness | do pending orders own exactly their seats; is every request answered; does every charge end in tickets |
| `checkout_resale` | 2 orders on 1 seat, 2 workers, 1 fault, 1 decline, all three `PlainTables` | can a seat given back and sold again have two tickets; is the seat lifecycle implemented |
| `checkout_retry` | the same order three times under one key (once with the same request id, once without a token), 2 faults, the tables of `public` | is at most one of them alive; is a client told of committed orders only |
| `holds_api` | the same hold sent by two clients, an extend or a release, 2 seats, 1 fault | does one request per body act; do repeats agree; are stored answers true |
| `platform` | 3 lock calls on 2 seats, 2 requests at 2 venues, 2 scans of 1 ticket at 2 processes, 1 publisher and 2 sweeps with 2 handlers, 2 runners on 3 versions, 3 seatmap calls on 2 versions | what can overlapping, repeated and half-done calls of each service do, and what not |
| `back_office` | 2 creations of one slug and all changes of the accounts, 2 desk calls at 2 venues with 1 fault, 2 administrators | which creations clash; do statuses follow the table and prices their bounds; where can a permission come from; are later conflicts and entries refused |

Bounds and why they are enough. *Calls, Handlers, Workers*: a violation needs two
contenders and, for fencing, a third call with an outdated token. *Two seats* are
the least with which a grant can be partial or two orders can lock in opposite
orders. *Owners*: two suffice for a pattern that matches another's value and one that
does not match its own. In `holds_api`
one version does: each request takes a hold at most once. *MaxTTL* 2: one tick that leaves a hold alive and one that ends it.
*MaxLate* 1 suffices for a stale execution; the live run takes 5, one more than
the four the code can leave behind, so that the bound itself is what is checked.
*MaxFaults* counts crashes, lost replies and failed commits together; each
already puts the system in its worst place once, and `checkout_retry` takes two.
*MaxDeclines* 1: a decline followed by another attempt is what reorders events.
Calls and handlers are all there are in a behaviour, so the system stops when
they are done: the runs switch the deadlock check off, and `RequestsAnswered`
and `CallsReturn` check that nothing stops before. Calls are interchangeable in
`seat_locks`, which checks no liveness, and are declared symmetric there.

`platform` and `back_office` put modules side by side that share no state: the
variable `part` (`office`) says which of them a behaviour runs, the others keep one
initial state, and the state spaces add up. The parts of `platform` share their
model values (`a1, a2` are lock users, requests, scans, handlers, runners and map
versions; `b1, b2` and `k1` to `k3` likewise), so that one symmetry reduces all of
them; both runs check safety only. *MaxExtensions* and *MaxRetries* are 1: the limit
is reached by the first repetition and passed by a second that overlaps. *MaxToken*
3 gives each acquisition its token. *MaxKeys* 1: a rotation and a restart of each
process. *MaxItems* 3: the original item and what two sweeps of it queue.
*Versions* 1 to 3: one plain file, one that commits itself, one whose SQL does not
repeat; *MaxStamp* 5 lets two runners overlap and one start again. The dates of seatmap
versions are as many as there are calls that can set one, none, and one in the future. *Window* 1 of the
slots 0 to 3: the conflict window on both sides and a slot outside it. *Slot* 0 is now
and is refused. *Fees* include a negative one and *Discounts* a fixed one above the
bill, one below nothing and one out of date.

What they show, in order of weight:

- `OneTicketPerSeat`: the status test `AND state = 'reserved'` of both branches of
  the webhook and the order row lock keep a seat from having two tickets under
  any order and repetition of events; dropping it in the failure branch is caught.
- `ImplementsLifecycle`: orders reserve all their seats at once, and sell or give
  back all of them at once.
- `OneLiveOrderPerKey`: it is the seat row, not the idempotency record, that keeps
  a repeated request from creating a second order: the record may expire and
  two handlers may run at once.
- `AnswersAreCommitted`: a client is given only orders that are in the database
  and have a payment intent.
- `OneRequestActs`, `RepeatsAgree`: the SET NX of `begin` keeps two requests of one body
  from both calling the lock store, however they crash, until the record expires.
- `StoredHoldsWereGranted`: no conflict, failed call or lost reply is replayed as a success.
- `ChargesTicketed`: the dedupe row commits with the effect of its event, so an
  event that failed half-way is handled again. (It needs that no attempt on the
  intent was declined; otherwise see below.)
- `RequestsAnswered`: the row locks of orders in opposite orders never block for good.
- `OwnerChangesThroughFree`: an owner whose pattern matches nobody else never takes a seat
  from under another's hold, by any retry or late copy, whatever the patterns of the
  others; what other owners can do is `HeldSeatsAreRefused` of section 5.
- `GrantsAreWhole`, `EndsByItsTokenOrExpiry`, `LifeMovedByItsTokenOnly`: late and
  repeated executions of a script can do only what its own token allows.
- `NoLaterRedemption`, `NoLaterEntry`, `NoLaterConflict`: two admissions, or two
  performances within four hours, need requests that overlap (or, at the desk, a
  lookup that failed); a second request that begins after the first has succeeded
  is refused. This is the most the code gives: no lock, constraint or status test
  backs the check.
- `SignatureSurvivesRotation`: a rotation adds a key and removes none; with a
  configured key any process verifies what any process signed with it.
- `ReplacedOnlyByOldHolder`, `ExtensionsWithinLimit`: a lock gives way to another lock
  only through an extension by a user who held the seat when the call looked. (That it gives
  way then is a fault of the code, see section 5.) A lock no two of whose extensions
  overlapped is extended at most `MaxExtensions` times, although an extension may put back
  a lock that has expired or been deleted meanwhile. Two extensions that overlap both
  read the old count and both write the same next one: the lock is extended past its
  limit, and the count does not show it.
- `StrayVenueWasSetMeanwhile`: the shared context leaks between requests that overlap,
  and from none that came before.
- `FailedEventsAreRetried`: however sweeps overlap, an event whose handlers failed stays
  queued until a delivery succeeds or the event store refuses it to the limit.
- `RecordedMeansApplied`: no crash or overlap of runs records a migration that is not
  in the schema, but for one that is rolled back while another run applies it.
- `PublishedUnlessInterrupted`, `StaleMapsComeFromRaces`: a venue loses its seatmap, and the
  mobile cache holds an old one, in the named races only.
- `ClashesAreRaces`: a creation runs into the table's UNIQUE only if its lookup failed or
  another creation saved the slug after it; neither archiving nor any other change of an
  account hides its slug from the lookup.
- `StatusFollowsTheTable`: the aggregate's guards, which do not consult
  `VALID_TRANSITIONS`, allow one step more than it: a pending account can be suspended.
- `UsageIsPricedInBounds`: discounts never make a bill negative nor raise it, and limit
  and remaining capacity agree at the boundary, whatever was configured before.
- `PermissionsAreGranted`: a permission nobody has, because it was never given or was
  revoked from all, comes back by a grant of it or a preset only, not by a change of
  role, a deactivation and return, a merge or an intersection.

## 5. Where documents and code part

Each is a run with one property that states a sentence of `prd.md`, and TLC finds it
violated (`CheckoutClaims`, `HoldsApi`, `SeatLockClaims`):

| Property | prd.md | What happens |
|---|---|---|
| `UnpaidOrdersEnd` | 108 | an unpaid order keeps its seats for ever |
| `SoldSeatsAreNotOffered` | 107 | availability looks at Redis holds only |
| `HoldIsTheClients` | 380 | a second client's identical request gets the first client's 201 and token |
| `HeldSeatsAreRefused` | 121 | an owner whose Lua pattern matches another owner's value is answered OK and overwrites that hold |

Seen while modelling, and visible in the model, but without a run of their own:

- An owner with a `-` in its id is refused the seats it holds itself (`prd.md` 985),
  since its pattern does not match its value.
- With the repository's own schema a failed or canceled payment does not end its order:
  the query of `payments/routes.ts` 246 reads `public.orders`
  (`packages/migrations/sql/0001_core.sql` 27), which nothing writes, and the seats stay
  reserved (`prd.md` 108). Only where the `search_path` reaches `orders.orders` are they
  given back; there, a success after a failure confirms the failed order, without seats
  or tickets (120), and `payment_failed` delivered after
  `succeeded` makes a ticketed order failed (84).
- A hold that ends between the check and the commit does not stop the order (110, 348); the
  seat row still keeps it from being sold twice.
- A retry whose predecessor committed without recording its answer meets its own reserved
  seats and is refused with 422 (118).
- The seat rows stay locked during the Stripe call (946).

In the other parts, likewise without a run:

- *Seat lock service.* Acquisition always reports a failure (see section 3);
  `__dirname` is undefined in an ES module, so that build never loads the script.
  Overlapping extensions go past the limit (`prd.md` 386, `RedisSeatLockService.ts` 315);
  a release deletes, and an extension overwrites, whatever the key holds after the GET,
  another user's lock included (559 and 561; lines 211 and 315); the clean-up may delete
  a lock taken after it looked (`ports/SeatLockService.ts` 34; line 490).
- *Venue isolation.* "All database queries are scoped to the venue context"
  (`VenueScopedRepository.ts` 7, 74) fails for requests that overlap; `setDatabaseContext`
  sets nothing. `mapErrorToStatusCode` is reached by no check.
- *Ticket gate.* Two scans that overlap are both admitted
  (`apps/api/tests/api.verification.int.test.ts` 99 has the second refused;
  `verification/routes.ts` 86).
- *Event bus.* The retry limit (`DomainEventBus.ts` 276) is never reached by failing
  handlers, since each failure queues a new item with count 0 (267); the dead letter is for refusals of the
  event store only.
- *Seatmaps.* `require('crypto')` throws in an ES module, and then nothing is saved.
- *Administrators.* `canManageVenues` is always false; `canAccessEmergencyMode` and
  `canManageAdministrators` compare role objects by identity (`PlatformAdministrator.ts`
  178), so a super administrator whose role was not taken from `AdminRole.SUPER_ADMIN` has
  neither power (`VENUE_CMS_PLAN.md` 34); `updateRole` keeps
  the permissions of the old role; `seed-hamilton-admin.ts` inserts a role the CHECK
  of `022_venue_isolation_enhancements.sql` 26 does not allow.
- *Venue accounts.* With the default configuration (empty notification address)
  branding and limit updates fail; billing updates are dropped for the empty
  invoice address; `maxStaff` is never checked.
- *Ticket validation.* `expiresAt` is never looked at and the signature check
  always passes.

## 6. Fairness

`SeatLocks!Fairness`: weak fairness of each call's next step (the loop is bounded and
every await is ended by a reply, an error or a closed socket), of the fate of
each abandoned command, and of Redis's clock. Nobody has to start a call.
`Checkout!Fairness`: weak fairness of each order handler and each webhook worker (their
awaits settle, Postgres grants locks or aborts a deadlock) and of Stripe's
delivery of each unacknowledged event, which Stripe documents and the handler's
500s rely on. It is assumed by `checkout_crossing`,
which allows no declines (where a declined attempt ends the order and frees its seats, a
later charge on it finds none of them reserved) and in which no table is missing. Buyers owe nothing: they need not hold, pay or retry. Faults and
expiry are never obliged. No strong fairness is used.
`platform` and `back_office` assume none: their calls may stop anywhere, and nothing in
those services makes a caller come back.

## 7. Proofs

Eight modules hold theorems, each for every value of the constants that satisfies
the assumptions named in the modules. Every proof has the same shape: an
inductive invariant (`Init => IInv`, `IInv /\ [Next]_vars => IInv'`), proved with one
lemma per action, and the properties from it; action properties and refinements
take one more lemma that says what a step does to the state they are about.

| Module | Theorems | State |
|---|---|---|
| `SeatLocksProofs` | `TypeCorrect`, `HoldsTimed`, `CopiesBounded` | `TypeOK`, `HoldsAreTimed`, `AttemptsBoundCopies` |
| | `OwnerSafety`, `AllOrNone` | `OwnerChangesThroughFree` (of plain takers, whatever others match), `GrantsAreWhole` |
| | `Fencing`, `LifeFencing` | `EndsByItsTokenOrExpiry`, `LifeMovedByItsTokenOnly` |
| | `Refinement` | `Spec => ImplementsLease`, for any `OwnerPattern` |
| `CheckoutProofs` | `CheckoutTypes`, `PendingSeats`, `NoOversell`, `AnswersTrue` | `TypeOK`, `PendingOwnsItsSeats`, `OneTicketPerSeat`, `AnswersAreCommitted` |
| | `OneOrderPerKey` | `OneLiveOrderPerKey`, if `RepeatsShareASeat` |
| | `LifecycleRefinement` | `Spec => ImplementsLifecycle` |
| `HoldsApiProofs` | `HoldsApiTypes`, `OneActs`, `StoredHolds` | `TypeOK`, `OneRequestActs`, `StoredHoldsWereGranted` |
| | `RepeatsAreTold` | `RepeatsAgree`, if `IdsAreUnique` |
| | `UsesTheLease` | `Spec => LeaseSpec`: the routes touch the locks as the lease allows |
| `GateProofs` | `LaterScansRefused`, `RotationsInvalidateNothing` | `NoLaterRedemption`, `SignatureSurvivesRotation` |
| `ServicesProofs` | `ExtensionsLimited`, `NoLockIsStolen`, `NoLeftoverVenue` | `ExtensionsWithinLimit`, `ReplacedOnlyByOldHolder`, `StrayVenueWasSetMeanwhile` |
| `StoresProofs` | `HistoriesAreTrue`, `NoFailedEventIsLost` | `RecordedMeansApplied`, `FailedEventsAreRetried` |
| | `AlwaysPublished`, `StaleMapsExplained` | `PublishedUnlessInterrupted`, `StaleMapsComeFromRaces` |
| `BackOfficeProofs` | `LookupsHold`, `StatusTable`, `NoPermissionOfItself` | `ClashesAreRaces`, `StatusFollowsTheTable`, `PermissionsAreGranted` |
| | `BillsAreBounded` | `UsageIsPricedInBounds` |
| | `LaterPerformancesFit`, `LaterScansAreTold` | `NoLaterConflict`, `NoLaterEntry` |
| | `PartsKeepToThemselves`, `BackOfficeTypes`, `BackOfficePromises` | all of these and `BackOfficeTypeOK` for `BackOfficeSpec`, which `back_office` explores |
| `PlatformProofs` | `ServicesKeepToThemselves`, `PlatformTypes`, `PlatformPromises` | `PlatformTypeOK` and the properties of `GateProofs`, `ServicesProofs` and `StoresProofs` for `PlatformSpec`, which `platform` explores |

The type invariants of the small modules are theorems too (`GateTypes`, `LockTypes`,
`ScopeTypes`, `MigrationTypes`, `EventTypes`, `MapTypes`, `AdminTypes`, `AccountTypes`,
`DeskTypes`).

### The arguments

**Seat locks.** `IInv == TypeOK /\ HoldsAreTimed /\ LoopShape /\ AttemptsBoundCopies`.
`TypeOK` alone is not inductive: `attempt` stays within its range only because a
running call has an attempt left (`LoopShape`), and the copies a call leaves behind
are bounded only together with its attempt number. `HoldsAreTimed` is needed because
expiry looks at the TTL and the properties at the hold. The action properties rest
on `StepEffect`: a step leaves the keys alone, is a tick, or runs the script of an
outstanding request.

**Checkout.** No property of the tables is inductive by itself, because the handlers
read long before they write. `IInv` adds where a handler's place in the code is
evidence: at the n-th seat its transaction has updated the rows of the first n - 1
seats (`Progress`); such a row is available to everybody else and in no second
transaction (`LockedRowsAreAvailable`), which is what makes the later COMMIT a
single, sound step; an event about an intent is true (`EventsAreTrue`); the status of an
order tells the state of its intent and seats (`StatusIsBacked`): an order that is
`confirmed` without a decline has all its seats sold. The last one carries
`OneTicketPerSeat`: a second success or a late failure finds the rows in a state its
`AND state = 'reserved'` excludes. `DatabaseEffect` then reduces a step of the
system to one commit of an order, one commit of a webhook transaction, or nothing,
and each of these is a step of `SeatLifecycle` or a stutter. `OneLiveOrderPerKey` does
not follow from the idempotency record, which may expire under a running request:
two orders under one key are kept apart by a seat both ask for. Hence its hypothesis
`RepeatsShareASeat`, requests under one key ask for a common seat. A client that
puts one `Idempotency-Key` on disjoint requests can, once the record is gone, have an
order for each (`orders/routes.ts` 104 keys the record by tenant and header).

**Holds API.** `RecordLives`, `ActorOwnsRecord` and `OneIdActs`: until it expires, a
record is there from the first request on, it names the request that acts on it, and
all requests acting on one body have one id. `RepeatsAgree` needs `IdsAreUnique`, no two
requests share an `X-Request-ID`: the header is the client's, `begin` compares it to
tell its own record from another's, and TLC finds two different answers if it is
used twice. With it, nobody is left to overwrite a stored answer
(`StoredIsFinal`), and every success told is the stored one (`ToldIsStored`).

**Ticket gate.** A token's process still has the key it signed with (`Tokens`), since
`rotate` only adds to the ring. For scans, `AdmittedMeansRedeemed` and
`EarlierTicketsDiffer`: past the status test a scan holds no ticket that a scan which
had been let in before it came held.

**Lock service and venue context.** A call about to write has passed its checks on
what it read (`CallsChecked`). The count stored with a lock, and the count any call has
read in order to extend it, is the number of its extensions unless two of them overlapped
(`ExtensionsCounted`); that a new lock starts from none needs that nothing knows a token
before it is drawn (`TokensDrawn`). The venue a request finds is its own or was set since it set its own
(`ContextIsRecent`).

**Stores.** *Migrations*: a runner about to record a version or to commit has changed
the schema for it, or it is in the schema or undone by another runner
(`OpenRunsBacked`). *Event bus*: a missed event has an item in the queue that no sweep is about to remove (`QueuedForGood`); the
retry count is bounded by counting the sweeps that can still store it
(`CountsBounded`). *Seatmaps*: the type of `publishedAt` is bounded by counting: past dates leave room for one
more by each call that may still stamp one, or the date is in the future (`StampsBounded`). Counting uses the library's facts
on finite sets; what `Min` and `Max` return follows from `<` being well-founded on
the naturals (`NatMin`, `NatMax`).

**Back office.** *Accounts*: `ClashesAreRaces` is inductive with `CreationsTyped`: what a
creation has seen is stored and was stored under another slug, and a stored account never
leaves the table nor changes its slug. Prices need `SoundBilling`: whatever an account
is billed by has passed `validate` or is the default, so no fee and no discount is negative.
The sum of the discounts is a fold, and `AmountsAddUp` says that it is a natural number
for any finite set of them. Where one would use induction it takes a least
counterexample (`LeastNumber`): first of the sizes up to which partial sums exist
(`PartialSums`), which gives the fold's recursive function its meaning, then of the
sizes at which a partial sum is not a natural number. *Contacts*: `NextContactsTyped`, no id occurs
twice; since none does, the filter of `removeAdditionalContact` is `RemoveFirst`, which unlike
`SelectSeq` has a definition the provers can expand. *Desk*: `Unopposed`, a call past an
honest lookup saw nothing of what the calls that had succeeded before it wrote.
*Administrators*: an administrator gains a permission by one of five operations on sets, and
each of them but granting and the presets yields subsets of what present administrators
have: a merge the union of two, an intersection a part of one, a role or status change
the same. That a set has no permission both granted and denied is what they keep.

**Platform and back office together.** Their parts share no variables, so a behaviour of
`PlatformSpec` or `BackOfficeSpec` is one of each part's specification
(`ServicesKeepToThemselves`, `PartsKeepToThemselves`), and all theorems carry over.

### Assumptions on the constants

Nothing is assumed of `OwnerPattern` but that it is a relation between owners
(its type). `PlainTablesTyped`: what unqualified names reach is one of the three cases of
section 3. `RepeatsShareASeat` and `IdsAreUnique` are hypotheses of the single theorems named above
and are about clients, which the code does not check; the instances TLC runs satisfy
them. `AdminAssumption`: no permission is both reserved to super administrators and
shared. `AccountAssumption`: limits, fees and discounts are whole numbers, as everywhere in
that module, the defaults among them, a discount is a percentage or fixed (`DiscountType`),
and there are finitely many. `LockAssumption`, `MaxKeysAssumption`, `MigrationAssumption`,
`EventAssumption`, `MapAssumption`, `DeskAssumption`: bounds are numbers, values
that stand for "none" are no real values, and sweeps and seatmap calls are
finitely many, as requests of a process are. In `HoldsApi`, `KeysAreBodies` and
`ResponsesAreReplies` say that the keys and responses of the store include those the
handlers form.

### Only model-checked

- *Liveness*: `RequestsAnswered`, `ChargesTicketed`, `CallsReturn`, `SeatsComeBack` need
  fairness and `ENABLED`, which the prover does not treat.
- The four runs of section 5, which are counterexamples.

## 8. Assumptions and what is not modelled

- *Schema.* The repository's migrations do not fit its handlers:
  `009_create_core_domain_tables.sql` does not allow the statuses `confirmed` and
  `failed` and has no `payment_intent_id`; `seat_state.order_id` is added by
  `tools/seed/seed-hamilton.ts`; `stripe_events` is only in `packages/migrations`. The
  models take the schema the queries need, and `PlainTables` (section 3) says what the
  names without a schema reach. `ChargesTicketed` is about a database where
  `stripe_events` exists: where it is missing, every success rolls back and answers 500.
- *Tenancy.* One tenant and one performance; row level security never hides a
  row. The webhook is taken to receive its tenant (it answers 422 without).
- *Events* carry an id; without one, a succeeded event fails on `stripe_events`.
- Signature checks, request validation, rate limits, metrics and traces are left
  out: they reject a request before state is touched, or touch none.
- *Other stores.* Repositories behind the LML admin's ports are external: they save
  a record whole, keep the uniqueness their table declares, and may fail. MongoDB
  writes one document at a time; the unique index of
  `mongodb-collections.js` is taken to exist.
- *Keys and clocks.* Two rotations never share a millisecond (the key id is the
  time).
- *Linking.* `services/lml-admin` imports names `@thankful/shared` does not export; it is
  modelled as written.
- *Migrations.* The repository has no `rollback_` file and no file with a COMMIT of
  its own yet; both are modelled because the runner and its template provide them.

Not modelled, and why:

- *Identity.* The repository queries outside `withTenant`, where `current_tenant()` is
  NULL and row security refuses every insert; `mapRowToUser` assigns properties that
  only have getters and throws; `delete` uses a column the table lacks; no
  `SESSION_REPOSITORY` is registered. The routes of the API keep no state. A model would
  be of a program that does not run.
- *Idempotency middleware.* Dead code: no route registers it.
- *Rate limiter.* A counter with an expiry; nothing else depends on it, and what it
  promises is about clock windows the steps of a model do not measure.
- *Container, configuration, logging, metrics, HTTP, readiness probe*: wiring and
  pure reads, without protocol state. *Ticketing service*: one validated insert.
- *Redis and Postgres adapters*: their commands and transactions are steps of their
  users; connecting, pooling and batching are left out.
- *SSE and ETag of availability*: a stream of reads.
- *iOS and Android apps, tools, seed data, load tests*: clients and scripts.

## 9. Plan

Done: `SeatLease` and `SeatLocks`; `IdemStore`, `CreateOrder`, `PaymentWebhook` and
`Checkout` refining `SeatLifecycle`; `HoldsApi`; the six services of `platform`; the three
modules of `back_office`; their proofs, and that the parts of both keep to themselves.

Left:

1. `POST /v1/payments/intents`, which inserts a row into `payments.payment_intents` (with a
   mock provider) and an idempotency record. It makes no Stripe call, and nothing else
   reads the row: its only behaviour is that of the idempotency store.
2. The isolation of two tenants: one tenant is modelled.
