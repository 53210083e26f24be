# A verification project for rt-app

TLA+ models of the parts of rt-app whose correctness depends on the order in
which things happen, TLC runs that check them on small instances, and proofs by
TLAPS of what matters most. The reference is the TypeScript source under
`rt-app/packages/`; the Go and Python ports are held to it by the contracts of
`rt-app/spec/contracts/`. `PROJECT.json` maps every definition to its lines.

## 1. The system

rt-app is a toolkit of backend modules over one small storage interface. An
application composes the modules it enables; a handler of a module is an async
function of a Node process, many of which run side by side (several requests of
one process interleave at every `await`, and several processes share the store).
There are no locks between them. What keeps them apart is `store.transact()`: a
list of row writes, each with the row version it expects, applied atomically or
refused with a `Conflict`.

| component | state | operations | what makes it correct | model |
|---|---|---|---|---|
| stores (`nosql`, `dynamodb`, `postgres`, `json`) | rows with a version | `get`, `list`, `transact` | all writes of a transaction or none, each under its condition | `Rows`, which `JsonRows` and `PostgresRows` implement; every other module builds on it |
| `idempotency` | a claim row per scope and key | `execute` over `claim`, `complete`, `markUncertain` | the work of a key runs at most once; who is told a value is told the recorded one, for the same input | `Idempotency`, `Once` |
| `migrations` | lock row, history rows | `up`, `down`, lock acquire / renew / commit / release; seeds | one runner at a time; the history is what ran, a prefix of the plan, and immutable | `Migrations` |
| `subscriptions`, unpaid plans | account row, receipts, reservations, ledger | `change`, `cancel`, `consume`, `recordCredits`, `reserve`, `settle`, `release`, `reset`, `maintenance` | charged once per key, never into another's hold; statement = balance; holds end; a preflight is what a call is then granted | `Credits`; rates, caps, provider cost and assigned plans: `Metering` |
| `subscriptions`, paid plans | the same, operations in progress, Stripe's subscription, webhook and mail rows | `change` and `cancel` through `billingOperation`, `sync`, webhooks, mails | Stripe carries an operation out once; the account follows Stripe's last word; mails once per claim | `Billing`, `Notices`; checkout and packs not |
| `subscriptions`, catalog | settings row with the plans, history of versions, operation, last publication, price map; Stripe's products and prices | `saveSettings`, `editPlan`, `restorePlan`, `linkStripePrices`, `publishPlan` | a version is one offer; what is published last is what is sold; no edit is lost | `Catalog` |
| `auth` sessions | session row per sign-in, `tokenVersion` of the user | `create`, `rotate`, `revoke`, `revokeAll`, `actor` | a revoked or cut-off session never works again; stolen tokens are noticed, honest ones are not punished | `Sessions` |
| `auth` flows | code, MFA and recovery rows, rate counters | sign in, verify, recover | codes work once; limits count concurrent attempts | `login`, `refresh`, `actor`, `logout` in `Sessions`; codes, authenticators and resets in `Codes`; changes of address in `Users`; the counter of the limits in `ServiceKeys` |
| `auth` client | token in a browser tab | refresh, broadcast | one refresh at a time, no self-inflicted theft alarm | one tab and lost answers: `RefreshClient`; several tabs: `Tabs` |
| `auth` service keys | key rows | issue, rotate, revoke | no more uses than the limit; every version has its audit row | `ServiceKeys` |
| `users`, `users-bans` | user row, index of emails, row of the owner, audit rows | create, bootstrap, edit, delete, restore, ban, unban | an address leads to its one account; one owner; a cut-off stands | `Users`; bans in `Sessions`, without the audit rows |
| `queue` | entries with receipt, attempts, lease; dead letters | `workOnce`, `ack`, `retry`, `extend`, `deadLetter`, `retryFailure` | no message is lost; only the current receipt settles it | `Queue` |
| `cache` | entries, loads in flight | `remember`, `set`, `delete` | one load at a time; failed loads are not kept; an outdated value was being loaded when it was invalidated | `Cache` |
| `infra` | settings, plan rows, audit rows | `configure`, `plan`, `apply` | a resource is made once, as planned; the audit is true | `Plans` |
| `acl`, `content`, `tasks`, `feature-flags`, `visits`, `analytics` | one row per item | CRUD | a stale version is refused | the stores' guarantee |
| `deploy`, `deploy-*`, `deployments` | what the providers have under a name; credentials | `apply` of the roles of an environment, in order | what is reported is live with its variables; who runs again makes nothing twice; no secret in what is public | `Deployments` |
| `observer`, sinks, `health`, `microservices`, `choice`, `mail`, `aws` | none that outlives a call | calls of external services | I/O | not modelled |
| `contracts`, `jwt`, `config`, `conformance`, framework, CLI, admin, installer | none | start-up, pure functions, UI | unit tests reach it | not modelled |

The hard behaviours are the same everywhere: a call reads rows, computes, and
writes later; in between other calls write, leases run out, time moves over a
window boundary, or the process stops; a write may commit without its answer
arriving, or be executed after its sender gave up; callers repeat calls whose
answer they lost. `PROJECT.json` lists these hazards line by line with the
property that would catch each of them.

## 2. Modules

| module | models | composes |
|---|---|---|
| `Rows` | what a store promises of `transact()` | |
| `JsonRows`, `PostgresRows` | `transact()` of the file and of Postgres | each implements `Rows` |
| `Once` | what idempotent execution promises | |
| `Idempotency` | `execute()` over the NoSQL store | implements `Once` |
| `Migrations` | `MigrationRunner` and its lock | Umzug's loop, as used |
| `Credits` | one account, its reservations and its statement | |
| `Metering` | the model calls of one account by their rate, under caps that change | |
| `Billing` | paid operations, synchronization, webhooks and charges of one account | Stripe and the stores of its keys and subscriptions |
| `Catalog` | one plan, its versions and their publication | Stripe's products and prices |
| `Notices` | the mails of maintenance and of webhooks | |
| `Sessions` | refresh sessions, the requests that use them, bans | |
| `RefreshClient` | a browser tab over that server | extends `Sessions` |
| `Tabs` | the tabs of one browser that share a session | the rotation of the server |
| `Codes` | codes, authenticators, resets and sign-ins of one user | |
| `Users` | accounts, addresses, the owner | an identity provider |
| `ServiceKeys` | one key: its administration and its use | the counter of `rateLimit` |
| `Queue` | workers over one `MemoryQueue` | |
| `Cache` | processes that remember and invalidate one key | the rows of `cache-nosql` |
| `Plans` | settings and plans of `infra`, and their application | the driver of the cloud |
| `Deployments` | runs of `rta deploy apply` | the eight hosting providers |
| `QueueState`, `ServiceKeysState`, `CacheState`, `PlansState`, `NoticesState`, `UsersState`, `CodesState`, `CatalogState`, `DeploymentsState`, `TabsState` | what each of those keeps, and the promises about it | each is extended by the module of its operations |
| `RetriesProofs` | theorems about `Idempotency`, `ServiceKeys`, `Cache`, `Queue` | extends the first and the others' states, `TLAPS` |
| `RowsProofs` | about `PostgresRows`, `JsonRows`, `Codes` | likewise |
| `MigrationsProofs`, `CreditsProofs`, `MeteringProofs` | about one module each | extends it, `TLAPS` |
| `BillingProofs` | about `Billing`, `Notices`, `Catalog` | extends the first and the others' states, `TLAPS` |
| `AuthProofs` | about `Sessions`, `Users`, `Tabs` | likewise |
| `InfrastructureProofs` | about `Deployments`, `Plans` | likewise |
| `MC*` | small instances; the cfg gives the constants | extends each |

The `*State` modules exist because a run, and a module of proofs, is about several components that share no
state: it extends their states, so that their promises have one name everywhere, and takes the operations
with `INSTANCE`.

In every module an action is the code between two awaits: a step reads one row,
or writes one transaction, and what was read waits in a variable of its request
until the write. Definitions whose comment begins with "Bug:" are alternatives to
the definition after them; they are used by nothing, and each run is also made
with one of them in its place to see that its property notices.

### Rows, JsonRows, PostgresRows

A row is its version, 0 stands for no row; what is in it does not matter to a store. `call` is a `transact()`
that is under way, and `answer` what its caller was told; who is told of an error knows nothing, and in
`PostgresRows` (`Lose`) its writes may still be carried out. `JsonRows` is a lock file, a check, a
temporary file and a rename, by processes that may stop anywhere; a lock left behind is removed by somebody who
stopped all writers first, as its message asks. In `PostgresRows`, `holder` are the row locks of the server,
which is modelled as READ COMMITTED promises: a statement waits for the holder of its row and then looks again. The
refinement maps the rename, and the commit, to the atomic `Commit` of `Rows`. The expiry of rows, which the file does
while it writes, is left out.

### Idempotency

`rows` is the table of claims, `net` the conditional writes sent and not yet
decided. A write is a message because its sender may give up on it: `Committed`
and `Refused` are answers, `Unanswered` is an error after which the write is
still under way and later commits (`Late`) or not (`Lost`). `Refused` does not ask
whether the condition failed, because DynamoDB also answers a transaction that
met another one on the same row with a cancellation which the driver turns into a
`Conflict`. `request`, `pc`, `result` and `answer` are the arguments, the place,
the value and the outcome of one call of `execute()`; `worked` is a history of
whose work ran. Owners are fresh UUIDs and stand for executions; fingerprints are
members of `Input`. Claims whose `ttl` removes them are not modelled: the code
sets none.

### Migrations

A runner is a call of `up()` or `down()`. `lock` is the lease row and `version`
what the runner believes its version to be; `live` abstracts `expiresAt`: a lease
runs out when its holder is gone, or, for the runners in `Overdue`, at any time.
Umzug reads the executed migrations once and then runs and logs them one by one;
`todo` is that list. Initially earlier runs, of any build, left a prefix applied.
Seeds take no lock and are on the plan.

### Credits

A call reads its receipt (`Begin`), then the account (`Read`), and commits a
draft computed from what it read (`Commit`) if neither changed. `fresh` records
that the account has not changed since `Read`; since every write of an account
raises its version this is the version check. Conflicts (which `retry()` turns
into another attempt), other errors and crashes are all `Fail`, and whoever tries
again does so with `Begin`. `change()` and `reset()` read the account before the
receipt; both are conditions of the same transaction, so the order does not
matter. Time is read once per draft.

Two sums stand for the statement (`posted`), and one per key for the debits that
name it (`billed`): the properties are about sums. The credits of some holds
are counted one by one (`Units`), which is their sum and can be reasoned about without recursion. `Following`, `Skipped` and
`Expiry` are the recurrence of `rollover()`; its bound of 520 windows is not
reached in the instances and left out.

Left out: several products and plans sold for money and mails. Rates, caps, provider cost and
the plans that administrators assign are `Metering`.

### Metering

The same account by what its calls are for: `rates` counts the credits of each rate in each window, `cost` the
provider cost of one period, `grant` is the plan an administrator assigned, which overrides the own one until it ends.
Caps are in the settings, which nothing conditions: a call reads clock, settings and account, and commits if the account has not
changed. `moments` are the clock and the settings as they were since the account was written last; a call may commit as
of any of them, and its commit makes every other call conflict, so that any number of calls at the same time is covered
without a variable for each. `excused` are the rates whose cap moved under their usage, or that were settled beyond
what was reserved. `Price` and `Cost` are what `rateCredits()` and
`providerCost()` make of the tokens of a call, whatever the minimum and the rounding; both may be 0. A settlement names
tokens, not credits. The short window begins when it is first used
(`Anchored`, `Rolled`), the others on the grid of their period. Blocked payments and products, and the errors that
an estimate names, are left out. The account keeps the cost of one period only: when an assigned plan comes and ends,
the cost of the own period begins again at zero (`addCost`); no text says otherwise.

### Sessions

One user and his sessions. A refresh secret is 32 random bytes; the row version it was
stored with stands for it, and a request may present any secret ever issued.
`job[p]` is a request in progress: what it read, how often it tried, and, for the
properties, whether the session had ended when it began. `spent` records when a
secret was first exchanged. `Create` is `RefreshSessions.create()`; `Find`, `Blocked`,
`Valid` and `Rotate` are the four awaits of `Auth.refresh()`; `Actor` and
`ActorSession` those of `Auth.actor()`; `List`, `Get`, `Reread` and `Revoke` are
`revokeAll()` and `revoke()`; `Target` and `Update` are a read and a conditional
write of the user row. Two reads of `login()` are one. Deactivation and role
changes raise `tokenVersion` as "logoutAll" does, and an administrator's
`revokeSession` is "logout"; neither has an operation of its own. A write is tried
`Attempts` times; the code tries four, the runs two.

### RefreshClient

Extends `Sessions` with the token that a tab holds and when it tries again. The tab
makes one request at a time and never presents a secret it was not given.

### Queue

`entries` is the array of `MemoryQueue` in order, `wait` the time until an entry
is available (the lease of a delivery, or the delay of a retry), `failed` the dead
letters. A delivery is handled in a slot of its worker: `workOnce()` takes no new
messages until all its deliveries have ended (`Finish`), and `run()` stops if one
of them could not be settled. Random UUIDs (receipts, tokens of dead letters) are
represented by what they name. `published`, `succeeded` and `acked` are history.
Broker adapters, the abort signal and the HTTP routes are left out.

### Billing

`acct` is the row of the account as far as billing writes it, `ops` the rows of operations by
idempotency key, `stripe` the subscriptions Stripe has, in the order they came to be, and `version`
the order of its changes, which is also the order of its events. `as` is the version an
account was synchronized with: it is not in the code, which compares nothing of the kind,
and the properties are about it. An operation is the rows it claims, the customer, the call and the end,
each an await that may be the last one; whoever repeats it begins again with the same key.
Stripe remembers keys for a while (`Remembers`) and may carry out a call whose answer is
lost. `charges`, `sold` and `made` are history.

### Catalog

One plan of the settings row. A content stands for what `planContent()` compares; availability is not part of it.
`Edit` is the read of the settings by which a request decides and `Save` its transaction; a publication is its
operation (`ReadPrevious`, `BeginOperation`), six calls of Stripe, and the end (`ReadCurrent`, `Finish`). Products and prices are
found under a hash of their version, so who resumes a publication finds what is there; a hash is taken for its
version, and the id of an operation for the version of the row it was begun over. `late` is an
observation: what a request wrote last at Stripe for an operation that others had finished. Nothing in the code prevents
such writes, and `OneVersionIsSold` excepts them.

### Codes

One user, a code of each purpose, pending steps (`flows`), one authenticator
(`mfa`). A code is the version of its row it was issued with, a step of an authenticator a number that
may be shown once, a password the number of its reset. `accepted` records what every code and step
opened, `refused` wrong answers. Hashing, mails and the limits by address are left out, and
so are the flows of an external identity provider.

### Users, ServiceKeys, Plans, Notices

Each is a table of version-guarded rows and the requests over them, one action per await, but for reads in a row (below); a
request that meets a conflict, an error or the end of its process ends, and may be made again.
`Users` leaves out expired codes (they refuse what may be refused anyway) and disabled
identities (see the hazards). `ServiceKeys` has one key; its limit counts in the row
of a minute. In `Plans` the version of the settings stands for their values and the
identity that belongs to them. In `Notices` a user who does not want notices and the setting
that turns them off are one switch, and a reminder is a key, whoever it is for.

### Tabs

A tab is its session (`current`) and the refresh it has in progress (`inflight`); `inbox` holds
the messages of the channel and the storage events on their way to it, in order. Secrets are numbered
by the server. `Accepted` and `Rotated` are the rotation of `Sessions` without its
conflicts. Assumed of the browser and the network: Web Locks are there; a message between tabs
is faster than a request; a request takes at most half the grace (`Latency`), and less than a token is fresh; an answer is lost
only if nothing was done. Without the last one the finding of `refresh_client_retry` returns.

### Cache

`Process` are the processes with a `Cache` each, over one row of the NoSQL adapter. A load is
a promise with its own life: it reads the source, then the row, then writes; callers wait for it and clean
up one by one. `source` numbers the changes of what is loaded, each followed by an invalidation;
`fresh` is the newest change whose invalidation has returned, and `overlaps` the loads that any invalidation met: of
a value that is outdated `LoadsAreShared` does not say which one it was.

### Deployments

`remote` is what the providers have: for each role the resources of its name, with their variables
(`vars`) and those they were last deployed with (`live`). A run (`runs[p]`) takes its roles in order (`Left`, `First`); of each
it has the calls that are left (`calls`), the resource it found or made (`seen`), and what earlier roles
returned (`outputs`); `done` is what it reports: of each role it has applied, the resource. Providers differ in what a call does, and in three more ways: whether
`apply()` looks again (`Refinds`), keeps variables it is not given (`Merging`) and may have two of a
name (`Unique`). Any call may take effect without an answer (`Lost`); writes are not repeated
by `createApi()`, only reads are. A URL may not be known yet when a role returns (`Outputs`), except on Railway and Fly.io,
which make it of names. `alone` says whether the run had a rival, which nothing in the code prevents.

### Reads in a row

Where a request reads rows one after the other and writes nothing in between, some actions take the reads in one
step: two of `login()` in `Sessions`; those of `issue()`, `readPending()` and `verifyMfa()`, each, in `Codes`
(`IssueRead`, `Open`, `VerifyRead`); those before the first write of a request in `Users` and of a billing operation in `Billing`
(`Begin`). What another request writes between two such reads is then not explored.

### Instances

An `MC` module gives one or more modules their values. Where it gives several,
they share no state: `part` says which one a behaviour is about; the variables of the others stay as they
begin, or are 0. `Parts` of `MCRemote` and `MCCredits` are the ones a run is about.

## 3. Runs

All bounds are in the cfg files. Deadlock is not checked: every system here may
finish what it has to do.

| run | instance | states | what it shows |
|---|---|---|---|
| `idempotency_queue` | claims: 3 executions, 2 keys, 2 inputs, 2 values; queue: 2 workers of 2 slots, 3 messages, room for 2, 2 attempts, leases of 2; service keys: 3 requests, limit 2, 3 versions, 2 minutes; tabs: 2 tabs, 4 secrets, 7 units of time | 671,631 | the inductive invariant `IInv`; `AtMostOnce`, `ReplayFaithful`, `SuccessIsDurable`, `CompletedIsFinal`; refinement of `Once`; `MessagesAreKept`, `LeasesAreRespected`; `KeysAreGuarded`; `TabsShareTheSession` |
| `guarded_rows` | migrations: 3 runners of two builds, 2 migrations; late: 2 runners that outlive their lease; codes: 2 clients, a code of each purpose, 1 wrong answer, 2 units of time; plans: 2 plans, 2 requests, 2 settings; cache: 2 processes, 2 callers, 3 loads, 2 changes; stores: 2 callers, 2 rows, every list of one or two writes | 1,879,892 | `OneRunner`, `HistoriesAreTrue`, `IrreversibleStays`, `LateKeepsToItsLease`; `SignInsAreEarned`; `PlansAreTrue`; `LoadsAreShared`; `StoresAreAtomic` |
| `migrations_two_runners` | 4 runners that do not outlive their lease, 1 migration | violation | finding |
| `credits` | races: 2 processes; reserve, settle above it, release, a second reservation, a charge, a reset, an upgrade, maintenance; 2 units of time, weeks of 2. Lapses: 1 process; subscribe, cancel, lapse, subscribe again, charges, two reservations, one at a time, a purchase; 8 units, periods of 4, four windows. Catalog: 2 administrators, 2 contents, 3 versions, a settings row of at most 5 | 1,312,757 | `ChargedOnce`, `ReceiptsAreFinal`, `RowsAgree`, `HoldsStayCovered`; `LapsesStatementIsBalance`; `CatalogIsTrue` |
| `credits_maintenance` | as above, one hold that may be left behind, fair maintenance; metering: 2 reservations, 2 rates, calls of some tokens and of none, the short window and the period, 2 settings, an assigned plan, 3 units of time | 97,662 | `ExpiredHoldsAreReleased`; `MetersAreTrue` |
| `credits_idle_weeks` | weeks that nobody settles | violation | finding |
| `credits_late_cancel` | a cancellation after the period ended | violation | finding |
| `sessions` | 2 processes, 1 session, all eight requests, 3 units of time; users: 2 requests, 2 addresses, 2 accounts, 3 versions of each | 2,659,989 | `NothingPassesTheEnd`, `RefusalsAreFinal`, `GraceEnds`, `SessionRowsAreTrue`, `RevocationsStand`; `AccountsAreTrue` |
| `refresh_client_retry` | 1 tab, 1 process, retry as long as the grace | violation | finding |
| `billing` | billing: 2 processes, 3 requests of 2 keys, 2 plans, 2 subscriptions of Stripe, keys forgotten after a unit, 2 units of time; notices: 2 runs, a reminder and a webhook; deployments: 2 processes, 3 runs, six environments, all roles or the API | 1,762,581 | `OperationsBillOnce`, `OneSubscription`, `SeenEventsAreApplied`, `RenewalsAreCounted`, `NeverGoesBack`; `NoticesAreInOneHand`; `DeploymentsAreTrue`, `AppliedSafely` |
| `billing_paid_periods` | one change, as above | violation | finding |
| `deploy_half_database` | one process, two runs, all on Railway | violation | finding |

Why the bounds suffice:

- *idempotency_queue*, claims: three executions are a claimant, a rival and a latecomer; with two
  keys and two inputs both kinds of mismatch occur. The theorems hold for all sizes.
- *guarded_rows*, migrations: a first holder, the one that takes its lease over, and a third;
  the first migration irreversible and the second not gives every mix of targets. What is
  checked here is the lock while no version of it returns: for that somebody must read it expired, or
  lose it, a second one release it and a third one acquire it anew, which takes four runners, or three
  that outlive their leases. Without that it holds for any number (section 5), and with
  four it fails (`migrations_two_runners`).
- *guarded_rows*, codes: a code is right, wrong or used; two clients cover the thief and the owner. One
  purpose at a time is in play beside the authenticator, or codes are issued anew.
  Plans: two requests apply one plan or two. Cache: a load, the one it
  overlaps, and the one after it, in one process or two. Stores: two rows written in either order let
  two transactions meet half-way, and wait for each other.
- *credits*: limits 2, 3 and 4 make the day, the week and the period bind in turn; a hold lives
  one unit, so it expires within a window and across its end. The races have two holds at the same time, each of
  which the other call may not spend; the lapses allow one, so that the limit on holds binds. The lapses are
  about what follows what, over two periods, which one process shows, and have `Prompt`: maintenance settles
  a week before the next one passes, and a transaction does not outlive a unit of
  time. Without it the property fails (next section); the reset and the change of
  plan are left out of them for the same reason. Catalog: three versions are the one that was sold, the one that is, and the next;
  of two requests one resumes what the other one left.
- *credits_maintenance*, metering: a period of three units that ends, and in it a short window of two that begins at 0
  or, when nobody wrote anything then, at 1, off the grid, so that it still counts when the grid has moved on; prices of 0, 1 and 2; the caps of the
  own plan are lifted and those of the assigned one set, or the assigned plan comes, or the own plan was cancelled
  and ends, each alone; two reservations reach the cap together. Administrators act up to time 1, so that two of the
  three units follow what they did; keys are alike, so the first reservation is that of `k1`. Fairness is asked of the holds alone.
- *sessions*: the previous secret matters over two rotations and one clock unit beyond the grace;
  `MaxVersion` bounds the row version at which a request may still begin, so
  requests already under way reach versions beyond it. `MaxUpdates` does the same for the user row.
  Sessions interact only through the user row, so one session shows their
  interleavings with bans; the second process is the holder's other tab, the
  thief, or the administrator. Of users, two addresses and two accounts let one request take
  what another is about to take, in both roles.
- *idempotency_queue*, queue: capacity 2 of 3 messages makes both limits bind, two attempts make a
  message fail for good, leases of two units let a delivery be extended or outlived. A third request of the key
  meets the limit of two while both others are counted. Seven units of time are two
  lives of an access token and the grace after the second.
- *billing*: one request shares its key with another one that its fingerprint refuses; the second subscription is the
  one after a cancellation. An operation is refused as soon as the unit it began in is over, and Stripe forgets its key after
  one more; the proofs are for any two such times (`Refuse < KeyLife`). Of the
  events of two subscriptions one is delivered out of order (`Delivered`), and Stripe refuses one call.
  Deployments: a run that fails, one that overlaps it or follows it, and a third one that has no rival;
  each provider serves at least one role. A database on Railway is left to `deploy_half_database`.

Fairness is assumed in `credits_maintenance` only. The scheduler calls
maintenance again and again (its process never stops for good), a call ends, and
among infinitely many runs of maintenance infinitely many read an account nobody is
writing and commit: `retry()` repeats a conflict, and requests of one user do not
arrive without end. Hence strong fairness of the scheduler's begin, read and
commit; nothing is assumed of the other process.

## 4. Where the code and its words differ

- **A lost answer ends the session** (`refresh_client_retry`). The client retries a
  failed refresh after 30 s with the same token; if the server had rotated, the
  grace of the previous secret is over by then and the retry is taken for theft.
- **A released lock starts again at version 1** (`migrations_two_runners`). A runner that read an
  expired lock takes over whatever lock has the version it read by then, even a live one: two
  runners work. With `Overdue = {r1, r2, r3, r4}` the same run shows, for `RecordsUnderOwnLease`, that a
  runner which lost its lease may find its version in another runner's lock and record under it.
- **Idle weeks are expired without having been granted** (`credits_idle_weeks`), so the
  statement sums to less than the balance. The statement departs from the balance
  in two more ways, which `Call <- Upgrades` and `Call <- Courtesies` of `MCCredits` show in the
  cfg of `credits_idle_weeks` with `Prompt = TRUE`: a change of plan within a week grants the new
  allowance in full while the counters keep their usage, and a reset of the day window
  posts credits that the week does not have.
- **A period that is paid later is on no statement** (`billing_paid_periods`). `sync()` posts the
  plan when the period or the plan differs from the row; a subscription is synchronized while it is
  `incomplete`, which stores both, and the payment then changes neither.
- **A database that was created is not deployed** (`deploy_half_database`). Railway's `applyDatabase()` deploys
  only what it has just created. A run that stops in between leaves a service that every
  later run finds, does not deploy, and reports as applied; or, if it stopped before the variables
  were set, refuses. The other providers deploy what they find.
- **A late cancellation ends access at once** (`credits_late_cancel`): `cancel()` marks
  the stored row, and the mark stops the renewal all other calls would have applied.

One more disagreement is between two functions, and no text says which is right, so it is stated in a property and not
as a violation. **A call that costs nothing fits and is refused**: the minimum of a rate is 0 unless somebody sets it, so a call
of no tokens, or of a rate without prices, costs 0 credits. `preflight()` says that it fits, may offer it as a
cheaper rate, and `reserve()` takes it; `consumeUsage()` refuses it with 400, because `consume()` asks for at least one
credit, and `estimate()` says that it is not allowed. `PreflightKeepsItsWord` says so: `Consumes` is `fits` of
the calls that cost something.

## 5. What is proved

Eight modules hold the proofs. What is assumed of the constants is the `ASSUME` of their modules, and nothing
else unless a theorem names it: that bounds, times and limits are natural numbers, that null values are not
data, and what a section below says. All the theorems are for any number of processes, requests, keys and rows, where the runs
have two or three.

### Idempotency, service keys, cache, queue (`RetriesProofs`)

For every set of executions, keys, inputs and values, assuming only that the null values are not data (`NullsAreNotData`):

| theorem | statement |
|---|---|
| `Invariance` | `Spec => []IInv` |
| `WorkedAtMostOnce` | `Spec => []AtMostOnce` |
| `RepliesAreFaithful` | `Spec => []ReplayFaithful` |
| `SuccessesAreDurable` | `Spec => []SuccessIsDurable` |
| `CompletedStaysFinal` | `Spec => CompletedIsFinal` |
| `Refinement` | `Spec => ImplementsOnce` |

None of the properties is inductive: that nobody's work runs twice depends on what
writes are still on their way. `IInv` adds that whoever is past its claim owns its row
(`OwnersOwn`), that rows are claims of their owners and completed ones carry
their owner's result (`RowsAreClaims`, `CompletedByOwner`), that a write under way is
its sender's and speaks of the row as it was (`WritesAreOwn`), that a write
older than a completed row can no longer hold (`WritesAreOlder`), and that the
places of an execution follow each other (`WorkIsOnce`). `TransitionFacts` says what
`transition()` sends; there is one lemma per action. The decisive step is `CommittedKeeps`:
a claim commits only where there is no row, so nobody owned the key; any other
write commits over the version it read, which by `WritesAreOlder` is not a
completed one.

The refinement maps the owner of a row to the elected runner, its result to the
recorded value. `Committed` maps to `Elect`, `RecordAndAnswer` or a stutter, `Late` to
`Elect` or `Record`, `Decide` to `Answer`, `Work` to `Run`, and every other step to
a stutter.

The other parts of `RetriesProofs`:

| theorem | statement |
|---|---|
| `ServiceKeysAreGuarded` | `K!Spec => []KeysAreGuarded` |
| `LoadsStayShared` | `L!Spec => []LoadsAreShared` |
| `SettlementsAreOwn` | `Q!Spec => LeasesAreRespected` |
| `NothingIsLost` | `QueueSettings`: `Q!Spec => []MessagesAreKept` |

Of a service key, that the limit holds is not seen in the counter alone: whoever is about to be counted has found
room, and the conditional write finds the counter as it was read (`PassedAreCounted`). The audit is whole because who
manages the key read a row that is the key's or an older one (`RowsAreOld`), so a write that commits makes the next
version, which has no row of the audit yet.

A load in progress is the one its process knows of (`LoadsKnown`), so a process has one at a time; and what a process knows of
has a caller who still waits for it (`LoadsAwaited`), so it is forgotten when the last one has cleaned up. That an
outdated value was being loaded when it was invalidated is `LoadsFit`: who has read something older than the
last invalidation was in progress then.

A delivery of the queue settles its message only with the receipt of the current lease (`OwnSettlement`), and an entry has one
receipt. `QueueSettings` is what `workOnce()` and the constructor of `MemoryQueue` accept, less their upper limits. The
invariant, `QueueKept`, adds to the promise that no message has two entries and that what is handled had been accepted: a
settlement removes the first entry that has the message, which is all of it only because there is no second one. What
`Append`, `RemoveAt` and a step that rewrites entries do to the messages of a sequence is `Adding`, `Removing`
and `Rewriting`.

### Migrations

`MigrationsProofs` says when the lease of the migrations is one, and what the history is then, for any number of
runners and any plan:

| theorem | statement |
|---|---|
| `RunnersExclude` | `Overdue = {}`: `Spec /\ NoVersionReturns => []OneRunner` |
| `OwnLeasesOnly` | `Spec /\ NoVersionReturns => RecordsUnderOwnLease /\ ReleasesOwnLease` |
| `HistoriesStayTrue` | `Spec /\ NoVersionReturns => []HistoriesAreTrue` |
| `IrreversibleIsKept` | `Spec /\ NoVersionReturns => IrreversibleStays` |

`NoVersionReturns` is the premise that the finding of section 4 denies: no lock is released
while another runner remembers a version of it. The invariant says that whoever compares a version
owns the lock that has it (`VersionsTell`), that who is about to take the lock over has seen that version
expired (`TakeoversAreDue`), and, when nobody is late, that the lease of every holder is live
(`HoldersOwn`). Only `ReleaseKeeps` uses the premise.

The theorems about the history do not assume that nobody is late. The runner that matters is the one whose
version is that of the lock (`Current`): nobody else can write. Its invariant, `HInv`, says what it has in hand
(`Prepared`): after verifyHistory() everything applied is of its own build (`Agrees`), what down() is about to revert has a
down step (`Spared`), and its list goes on where the history ends, forward or backward (`Forward`,
`Backward`). Any other runner, late or not, loses the lock to each write (`OthersLose`), so it has nothing to
show. `LoggedKeeps` is the one step that changes the history. What `executed()` and Umzug's `pending()` list is
defined by the place of a migration among those listed (`InOrder`) rather than by a recursive filter, because
nothing can be proved here about the latter; of a history that begins the plan, `Lists` says what it is.

### Deployments and plans (`InfrastructureProofs`)

For any selections of roles and number of runs, and any providers that support the roles they serve
(`DeploymentsAssumption`: what the settings accept, by the `roles` of each provider; an empty selection is not applied):

| theorem | statement |
|---|---|
| `Invariance` | `Spec => []IInv` |
| `ApplyingIsSafe` | `Spec => []AppliedSafely`: `DuplicatesOverlapped`, and `SecretsStayBehind` |
| `ReportsAreTrue` | `Spec => []DeploymentsAreTrue` |
| `PlansComeTrue` | `P!Spec => []PlansAreTrue` |

A run without a rival is the only one in progress (`Solo`), so what it saw is still there: when it saw nothing,
there is nothing (`SoloMakesTheFirst`), and the calls that it has left make a resource only in that case
(`CallsInOrder`). What is to be given to a public role is filtered last (`GivenIsPublic`, `Filtered`), and a
provider that keeps what it is not given only keeps what was filtered before.

That what is reported is live needs a second invariant, `LiveInv`, relative to `IInv`. The order of the roles is in
`RolesFit`: nothing that was applied comes after what is left, so what an applied role expects does not change when a
later one is applied. `ReportFits` follows an application through its calls: what leads to the
earlier roles is in what the run returned (`OutputsFit`), from there in what the role is given (`GivenBears`), in its
variables once only "deploy" is left, and in what is live once nothing is (`GetsThere`). A database is made and
deployed in one call (`DatabasesLead`, `MakesDatabase`), except on Railway. What others do does not matter:
while a run without a rival is in progress there are none (`RunMoves`), and when another one begins, it has a rival.

A plan, its audit and what was made of it are a function of its state (`PlanFits`); a request that applies a plan found it
planned, so nobody else applies it (`OneApplies`), and it is still running while the request creates (`RequestFits`).

### Credits

`CreditsProofs` proves what the run `credits` checks of an account, its reservations and its receipts, for any number of
processes, any calls, plans, limits, lengths of windows and of holds, and however time passes (`Prompt` or not):

| theorem | statement |
|---|---|
| `RowsStayTrue` | `Spec => []RowsAgree` |
| `ChargesAreOnce` | `Spec => []ChargedOnce` |
| `ReceiptsStay` | `Spec => ReceiptsAreFinal` |
| `HoldsAreCovered` | `Spec => HoldsStayCovered` |

Assumed are only the kinds of the constants: limits, credits and times are natural numbers, a window has a length, and
day, week and period are there (`WindowAssumption`, `CallAssumption`). `IInv` adds to the properties what each of them
leans on: no two holds have one key (`Claims`), a receipt that charged nothing says so (`Uncharged`), and
of every call in progress, that the receipt it read does not answer it (`Asked`) and that the account as it is would not
refuse it, as long as nobody has written the account since (`Admitted`). That one write makes every other call
in progress conflict is why `Admitted` survives a commit.

The argument is about drafts. `Right` says what a draft may do to the rows: keep holds and receipts in agreement, move the
held credits of the statement as it moves the holds, charge its own key and answer it, and let the receipts of others
at most expire. One lemma per call shows its draft right (`ConsumeIsRight` ... `MaintainIsRight`), from what the parts it is made of
do: `NormalizedIsSound` (windows and periods), `Sweeping` and `Unholding` (holds that go), `ChargedIsWellFormed`. Then
`CommitKeeps` treats all calls at once. That holds stay covered rests on `ChargeCovers`: a charge within `free()` leaves
what the holds need, because it lowers what is left of the least window by exactly what it takes (`ChargeTakes`).
`consume()` and `reserve()` refuse what `free()` does not have, and `settle()` leaves it uncharged.

`StatementIsBalance` is not among them: it does not hold of every clock (section 4), and that it holds when maintenance
keeps up depends on `Skipped`, a recursion over the weeks between two times, about which nothing can be proved here.

### Metering

`MeteringProofs` proves `MetersStayTrue`: `Spec => []MetersAreTrue`, for any rates, prices, costs, caps, windows and plans, and any
sequence of settings. `MetersAreTrue` says that a preflight keeps its word (what it says
fits is exactly what `reserve()` accepts while there is room for one more hold, and what `consumeUsage()` accepts unless it costs nothing; what it offers
instead fits and keeps the margin), and that what is counted and held of a rate stays within its cap.

The first half follows from the definitions, once the types are known. For the second, the invariant asks
that what is counted and held is within the cap at *every* one of `moments` (`Within`), because a call may
commit as of any of them; time only lets holds run out and windows end. While some rate is not excused, nothing
has changed the settings or the plan (`Steady`), and an active hold has the rate of its receipt
(`HoldFits`), so that a settlement puts in place of its hold no more than what was held (`Fewer`) unless the rate is excused. Holds are
counted one by one, with the cardinality of `Units`, and not by a recursive sum.

### Billing, notices, catalog (`BillingProofs`)

| theorem | statement |
|---|---|
| `OperationsAreBilledOnce` | `Spec => []OperationsBillOnce` |
| `OneIsCharged` | `Spec => []OneSubscription` |
| `SeenEventsAreInTheAccount` | `Spec => []SeenEventsAreApplied` |
| `RenewalsAndChargesAgree` | `Spec => []RenewalsAreCounted` |
| `SynchronizationsGoForward` | `Spec => NeverGoesBack` |
| `NoticesStayInOneHand` | `N!Spec => []NoticesAreInOneHand` |
| `CatalogStaysTrue` | `O!Spec => []CatalogIsTrue` |

`BillingAssumption` is what matters here: an operation is refused before Stripe may have forgotten its key
(`Refuse < KeyLife`: 23 hours and 24). An operation is carried out once because what Stripe remembers is not older than the row of the
operation (`MemoFits`), and who is about to call is within `Refuse` of that row (`RequestFits`). What
was carried out and is not recorded yet is known by the memo (`EffectFits`): the one subscription that may be newer than
the account's is the one this operation created (`Newest`), and a subscription follows others that are over
(`Succession`), so one of them is live.

The account never goes back because a snapshot is not older than the account it is written over, nor than the event that asked for
it (`SnapshotFits`); the write finds the account as it was. What is stated is compared with what was sold as
bags: every difference between the account, a snapshot on its way and Stripe is a period that was sold once more than it was
stated (`Ahead`, `BooksFit`, `StatementFits`), which is why two snapshots of one period cannot state it twice.
`CancellationsFit` does the same for cancellations.

A notice is in one hand because two runs that hold it hold different versions of its row (`OneHolds`), and the older
one holds a lease that has run out (`RunFits`). In the catalog, every version up to the plan's is told by one row
(`HistoryFits`), what was published last is known and has its price (`LastFits`), a row that was read is the row if its
version is (`ReadFits`); `Done` says how far Stripe follows the request that works for the current operation, and
`SellingFits` what is sold when nobody does. What a request did late (`late`) is excepted throughout, as
`OneVersionIsSold` excepts it.

### Stores and codes (`RowsProofs`)

Both stores implement the atomic one, for any rows, callers and transactions:

| theorem | statement |
|---|---|
| `FileRefinement` | `Nobody \notin Caller`: `J!Spec => J!ImplementsRows` |
| `TableRefinement` | `EveryWriteLocks`: `Spec => ImplementsRows` |
| `SignInsStayEarned` | `C!Spec => []SignInsAreEarned` |

For the file, whoever is past the lock has it, so what it read is still so when it renames (`WorkersHold`). For the
table, what a statement found its transaction holds until it ends (`FoundIsHeld`); at the commit all of it is
true at once. `EveryWriteLocks` is needed: a write that only asserts that there is no row, and would delete it, holds
nothing, so two transactions which each assert the absence of what the other one creates may both commit. No
package sends such a write.

A sign-in is earned because of what a request knows of the user *as long as nobody has raised his token
version since* (`SignInFits`): the session it then creates is conditional on that version. A code opened nothing unless its row
is used or gone, and wrong answers are those its row counts (`CodeFits`); a step of an authenticator is later than the
last one that was accepted (`StepsFit`).

### Sessions, accounts, tabs (`AuthProofs`)

`AuthProofs` proves what the run `sessions` checks of refresh sessions, for any number of sessions, of
requests at the same time and of attempts, and any lifetimes (`TimesAssumption`: they are natural numbers):

| theorem | statement |
|---|---|
| `Invariant` | `Spec => []IInv` |
| `EndIsTheEnd` | `Spec => []NothingPassesTheEnd` |
| `RefusedForGood` | `Spec => []RefusalsAreFinal` |
| `GraceIsKept` | `Spec => []GraceEnds` |
| `RowsAreTrue` | `Spec => []SessionRowsAreTrue`: the types, and what a ban leaves behind |
| `RevokedForGood` | `Spec => RevocationsStand` |

`IInv` relates the rows to the user (`RowFits`: no row is younger than the user's tokens, and while a ban is in
force every row is older), the rows to what was exchanged (`ExchangesFit`: the current secret never was;
`RowFits`: the previous one was, when the row says), and every request to what it read: `ReadsFit` (a row, or a user,
that has the version it was read with is as it was read), `Lost` (how far a request gets whose session had ended before it began:
never to `rotate` or to an answer), `GraceFits` and `BanFits` (whatever of its sessions is alive is still in the
hands of a ban). What requests do to each other is said once: `World` is what any step may do to the user, the
rows and the exchanges, `EndsStay` and `OthersFit` follow from it, and each step then
answers for its own request (`StepKeeps`, `QuietKeeps`). A write that commits found the version it read, so the
row was not revoked (`ReadStill`): that is `RevocationsStand`, and why a sibling that rotates late cannot bring a
session back. That the grace is not prolonged rests on the row: a rotation with the previous secret
leaves `rotatedAt` alone, so the first exchange is still the one on record.

`AuthProofs` also proves `AccountsStayTrue`: `U!Spec => []AccountsAreTrue`, for any number of accounts, addresses and requests. An
account that is there is what the index says of its address, and the other way round (`AccountFits`, `EmailFits`); every
step that moves an address writes both rows in one transaction, conditional on what it read, and what it read is the
row or an older one (`CallFits`).

`TabsStayTogether`: `T!Spec => []TabsShareTheSession`, for any number of tabs, with one storage or one each. Assumed is what
`Tabs` assumes of time (`TabsAssumption`). The invariant, `TabsInv`, is about the last session that was announced,
`Shares(last)`: every open tab has it, or has it ahead in its inbox (`Hears`, `Waiting`), and then it was announced in this unit
of time, because messages are faster than the clock. Until somebody's refresh is answered, `last` is what the server has, and
whoever has an older session has the previous one of the server, within the grace, or one that is too fresh to be refreshed
(`StillGood`). That is why a request never carries a secret the server would take for stolen (`Asks`): it has the
current one, or the previous one for a while that, with the request, is within the grace. An
answer (`Gets`) becomes the last session when it is announced. One lemma per action; most of them change one tab only (`OneTab`).

### Model-checked only

- `LapsesStatementIsBalance`, for the reason given under Credits.
- `ExpiredHoldsAreReleased`: liveness under fairness is beyond the prover, and so is `ENABLED`.
- `LateKeepsToItsLease` and `StoresAreAtomic` are the forms in which one run states `OwnLeasesOnly` and the two
  refinements of the stores, which are proved.

`Once` and `Rows` are the abstract specifications of the refinements.

## 6. Not modelled

Of modules that are modelled: checkout sessions, packs of credits and the portal of Stripe (each is a call of
Stripe and a row, without a second actor that the code provides for); new plans and the validation of settings; several products, grants of additional credits and reports of usage; the flows of
an external identity provider, the settings of `auth` and the limits by address; the seeds of `migrations`, which take
no lock; the drain and the broker adapters of `queue`; the eviction of `MemoryCache`, which
has no awaits; the Terraform installation and the drivers of `infra`.

Reads, the paging of `list()` and the expiry of rows are left out of the stores; the
models assume of a store what `transact()` promises. Of `deployments`, the settings, the status, the sync with GitHub and what Terraform deploys are left out, and so is
what an API keeps that is applied alone: Render and DigitalOcean replace its variables, and no database of that run
gives it a `DATABASE_URL`; no text says what it should have. Sinks of the observer, mail,
framework, admin and installer keep no state whose order
matters. The Go and Python ports are translations. Components are listed one by one, with
the reason, in `PROJECT.json`.

## 7. Plan

1. `Migrations`: an abstract history that the runner implements; `SeedRunner`.
2. `Credits`: several products and packs.
3. `Tabs` over the server of `Sessions`, with answers that are lost.
4. `Queue`: that every message is settled when handlers end within their lease.
5. `Billing`: checkout and packs. `Catalog`: that a publication somebody resumes comes to an end.
