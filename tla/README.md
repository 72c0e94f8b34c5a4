# A TLA+ model of the feature flag service

The repository holds a multi-tenant feature flag service: a FastAPI application
(`thinking-feature-flag-service/app`) over PostgreSQL and Redis, its migrations, its
deployment workflow (`.github/workflows/deploy.yml`) and its infrastructure
(`thinking-terraform`).  Several instances run at once behind a load balancer.  This
directory models the parts that carry the service's logic, checks them with TLC on small
instances, and proves the main results with TLAPS for every instance.

Paths below are relative to `thinking-feature-flag-service/` unless they say otherwise.

## 1. Inventory

| Part | State | Operations | What is hard |
|---|---|---|---|
| Flag CRUD (`app/routers/flags.py`) | tables `flags`, `flag_environment_configs` | `create_flag`, `update_flag`, `archive_flag`, `list_flags` | overlapping requests: the handlers compute on copies read earlier in the transaction and write at the commit |
| Audit trail (`FlagAuditLog`, `flag_history`) | table `flag_audit_log` | one record per scope and request; listing | must agree with the stored state whatever overlaps; order of the listing |
| Compiled-set cache (`app/cache.py`) | one Redis key per (tenant, environment) | `get_flag_set`, `set_flag_set`, `invalidate` | cache-aside races, lost invalidations, expiry, eviction |
| Evaluation endpoints (`app/routers/evaluate.py`) | none of their own | `evaluate_flags`, `evaluate_bulk`, `_load_flag_set` | use a flag set that may be outdated when it is used |
| Evaluation engine (`app/evaluation.py`) | none (pure) | `bucket_for`, `_matches`, `evaluate`, `evaluate_all` | precedence, the ends of the rollout, mixed JSON types, malformed rules |
| Validation (`app/schemas.py`) | none | `FlagCreate`, `FlagUpdate`, `_value_matches_type` | explicit null against absent, bool against int |
| Tenancy (`app/security.py`, `app/routers/tenants.py`) | tables `tenants`, `api_keys` | `create_tenant`, `authenticate`, `require_tenant` | isolation across every route |
| Rate limiting (`app/middleware.py`) | one Redis counter per key and minute | `RateLimitMiddleware.dispatch` | INCR and EXPIRE are two calls; window boundaries; fail open |
| Middleware and metrics (`app/middleware.py`, `app/metrics.py`) | counters and bounded deques per instance | `record_request`, `record_evaluation`, `snapshot` | requests that raise; windows at their limit |
| Health (`app/main.py`, `app/db.py`) | connection pool | `livez`, `readyz`, `get_db` | outages of one datastore; pool exhaustion |
| Deployment (`.github/workflows/deploy.yml`) | Cloud Run traffic split, schema version | snapshot, migrate, candidate, smoke test, canary, promote, roll back | failure or cancellation of any step, two revisions on one schema |
| Infrastructure (`thinking-terraform`) | declarative | none | none: it supplies facts (single-node Redis with `allkeys-lru`, several instances) |

Interactions.  Every request runs `authenticate` first, then its handler, all in one
database session.  A CRUD handler commits, refreshes its ORM object and then calls
`cache.invalidate`; an evaluation calls `cache.get_flag_set`, on a miss queries PostgreSQL
and calls `cache.set_flag_set`, and runs the engine over the set in hand.  Redis failures
are swallowed everywhere.  Requests meet in PostgreSQL and in Redis, and those of one
instance also in its connection pool and its metrics.

What makes each part correct:

* CRUD and audit: stored values have the flag's type; a PUT changes only what it sent; of
  two creators of a key one succeeds; the audit trail replays to the stored state; the old
  values of a record were stored together while its request ran; every request ends.
* Cache: a flag set is only ever served to the tenant and the environment it was compiled
  for; a stale entry has a known cause and a bounded life; when writes stop, the cache
  agrees with the database.
* Rate limiting: an identity's grants in a minute stay within its limit over all instances;
  nobody is refused for others' requests; counters do not pile up in Redis.
* Tenancy: whatever a request names, its handler reads, caches and changes flags of its
  key's tenant only; every tenant has a key somebody was shown.
* One instance: no path leaks a connection, a request hangs only in a datastore call of its
  own, the metrics account for every request, and the readiness probe fails only for a reason.
* Deployment: traffic goes to revisions that passed a smoke test (or to the bootstrap) and
  that the schema fits; a run that cannot restore the traffic is the only reason for a split
  or an unwatched revision.
* Engine: the kill switch outranks rules, rules outrank the rollout; 0% is nobody and 100%
  everybody; changing the percentage moves only the users in between; a rule the engine does
  not understand changes nothing; an archived flag is in no answer.

The hazards, each at its line, are in `PROJECT.json`.

## 2. Modules

| Module | Models |
|---|---|
| `FlagCache` | the cache-aside protocol of evaluation requests and CRUD requests on all instances |
| `FlagRegister` | abstract: a register per scope with one published copy that is outdated for a bounded time; `FlagCache` implements it |
| `FlagCacheProofs` | the theorems of `FlagCache` |
| `FlagRegisterProofs` | the proof of that refinement |
| `FlagService` | registration of tenants, API keys and ownership checks in front of `FlagCache`, which it extends |
| `FlagServiceProofs` | its theorems |
| `FlagValues` | JSON scalars, Python's `==`, `_value_matches_type`, `_seed_value` |
| `FlagStore` | one tenant's CRUD requests and audit log as concurrent READ COMMITTED transactions |
| `FlagStoreProofs` | its theorems |
| `Evaluation` | the engine and the loader's filter, under every edit of the flags |
| `EvaluationProofs` | its theorems |
| `RateLimit` | `RateLimitMiddleware.dispatch` on all instances: INCR, EXPIRE, minutes, failures |
| `RateLimitProofs` | its theorems |
| `Metrics` | the counters, deques and percentiles of `app/metrics.py` |
| `Instance` | the requests of one instance from `CorrelationMiddleware` to the answer, the connection pool and the readiness probe; it extends `Metrics` |
| `InstanceProofs` | its theorems |
| `Deploy` | the deploy job of `.github/workflows/deploy.yml`, run after run |
| `DeployProofs` | its theorems |
| `MCFlagCache`, `MCFlagService`, `MCFlagStore`, `MCEvaluation`, `MCRateLimit`, `MCInstance`, `MCDeploy` | instances for TLC; `MCFlagStore` also has `flag_history`, which sorts |

Operators that a definition's comment calls a mutant are plausible bugs of the definition
they stand before.  No specification uses them; each shows that some property would catch
the bug.

### FlagCache

The compiled flag set of a scope, a (tenant, environment) pair, is abstracted to its
*version*, the number of committed changes it reflects.

| Variable | Code |
|---|---|
| `version[s]` | the rows `_load_flag_set`'s join returns for the scope |
| `cache[k]` | the Redis value under `_key(tenant, environment)`, with the time it has `left` |
| `reader[r]` | an evaluation request, `pc` its next datastore call |
| `writer[w]` | a CRUD request from its last read on: what it changes, `pc` its next call |
| `acked[s]` | auxiliary: the newest version whose writer has answered |

| Action | Code |
|---|---|
| `StartEvaluate`, `LookupHit`, `LookupMiss` | `evaluate_flags` up to and including `cache.get_flag_set` |
| `Load` | the join in `_load_flag_set` |
| `Store`, `StoreFails` | `cache.set_flag_set` |
| `Respond`, `ReaderLost` | the answer; or a 500 or a killed instance |
| `StartWrite`, `Commit`, `Refresh` | the tail of a CRUD handler: `db.commit()`, `db.refresh(flag)` |
| `Invalidate`, `InvalidateFails` | `cache.invalidate`, which swallows its errors |
| `Acknowledge`, `WriterLost` | the answer; or a 500 or a killed instance, the invalidation never attempted |
| `Evict`, `Tick` | Redis eviction or restart; time, which expires entries |

The fields `of`, `lag`, `late`, `missed`, `staleFor`, `floor` and `wrote`, and `acked`, are
history: no guard reads them.  They record for which scope a set was compiled, how long its
loader took from query to SET, whether a commit had overtaken it by then, whether its
invalidation was lost, and for how long it has been outdated.

`FlagRegister` says what all this amounts to for a client.  A request is answered from the
register itself or from the one published copy of its own scope; only what a request has just
read may become the copy; a copy is outdated for at most `Bound` and goes then.  The
refinement mapping `Register` takes the Redis entry of a scope for its copy, the set in a
request's hand for its answer (final once it can no longer be SET), and
`cache_ttl_seconds + MaxHeld - 1` for `Bound`: the TTL counts from the SET, so the time a
loader held its set comes on top of it.  Failures, invalidations and evictions all become
`Withdraw`, `Keep`, `Done` or nothing.  That an acknowledged write need not be visible is
part of the abstract specification, as it is of the code (run `cache_race`).

### FlagService

| Variable | Code |
|---|---|
| `tenants`, `api_keys[k]` | the committed rows of both tables |
| `register` | the `POST /tenants` in flight: before its commit, or before its answer |
| `session[p]` | the API key of the request in slot `p` |
| `held`, `lost` | history: keys shown to an operator; tenants whose answer was lost |

`authenticate` and `require_tenant` are operators; `require_tenant` also stands for
`_assert_tenant_matches`, which compares the tenant in the body.  A key is never revoked, so
lookup, check and the start of the handler are one step (`Evaluate`, `ChangeFlags`).
`HandlerStep` is a step of `FlagCache`; the one that ends the request closes its session.

### Metrics and Instance

`req[r]` follows a request through both middlewares, `authenticate`, its handler and the way
out; `checkedout` is the pool's counter.  SQLAlchemy's session takes a connection at its
first statement, the lookup of `authenticate`, and keeps it until a commit, a rollback or its
end, so an evaluation holds one while it talks to Redis, on a hit too.  `CommitFlags` gives
it back and the `db.refresh` after it has to take one again (`CheckOut`, then `Refresh`): it
may wait behind other requests and time out (`CheckOutFails`), with the change committed and
a 500 as the answer.  `HandleFlags` is a CRUD request that commits nothing, `Conflict` the
rollback before the 409 of `create_flag`.  `Raise` is an exception anywhere
in a handler: the session closes, `CorrelationMiddleware` logs and raises on, and the client
gets a 500 without `record_request`.  `readyz` catches instead.  Whether the session closes
before or after `record_request` depends on FastAPI's version (`>=0.115` is allowed), so both
orders are behaviours.  `dbUp` changes at any time; a statement can fail if the database was
down since its request began.  A call to Redis may fail at any time.  `arrived`, `raised`,
`limited`, `refused` and the fields `down` and `full` are history, except that `down` lets a statement
fail and `arrived` bounds the requests.  `Clients` is the traffic a run admits, pairs of a
caller and an endpoint.

A latency is a number of units of which `Grain` make the 0.001 ms that `_percentile` rounds
to; `round3` is Python's `round(x, 3)`, to the nearest and half to even, and a reported
percentile is a number of thousandths.  (The binary representation of a float can decide a
tie the other way; `Nearest` allows either side of one.)

### Deploy

`serving` is the set of revisions with traffic, `schema` and `needs[rev]` count migrations,
`run` is the one run the concurrency group admits, with the step outputs `prev` and `cand`.
Each step is an action.  `StepFails` is its failure; a traffic command
may have taken effect all the same.  `Cancel` is a cancellation or a lost runner: `failure()`
is false then and nothing is rolled back.  `Snapshot` reads `traffic[0]`, of a split either
revision, or nothing when `describe` fails.  An image older than the database's migration
cannot run `alembic upgrade head`.  The Cloud Run job does not end with the step that waits
for it: a step that fails or is cancelled may leave an execution in `orphans`, which commits
its migrations (`JobCommits`) or ends without (`JobEnds`) at any time from then on, in the
middle of later runs too.  Revision 0 is `Bootstrap`, the placeholder image of a first deploy
or whatever serves when the workflow is first used; nothing is assumed of its health, and a
rollback may return to it.  `passed` holds the revisions that passed the smoke test,
and whether a revision passes is chosen when it is probed.  `before`, `passed`, `late` (an
orphan has migrated the database since a run last did), `watched`, `stranded` and `outcome`
are history.

### FlagStore and FlagValues

A request is one transaction from its first statement (the `api_keys` lookup) to its commit
or its rollback.  The SELECT of the flag and the SELECT of its configs (`lazy="selectin"`)
are separate statements and see different committed states.  `_drop_unchanged` compares the
body with the copies; the ORM writes changed columns only, so `CommitUpdate` assigns those
columns to the rows as they are *then*.  Row locks are held from the UPDATE to the commit,
with no statement of the handler in between, so both are one step; the locks are taken in
the same order (flag, then config) by every handler.  `seen[r]`, the rows the request's flag
has had since the request began, is history.  An INSERT of a key another transaction
has inserted and not committed waits for it (`Claimed`).  A rejected or failed request
leaves no trace.

A scalar is a JSON type and a number that identifies it.  `ScalarEq` is Python's `==`, for
which `True == 1`.  A column holds a sequence of scalars, so that `targeting_rules`, here
the values the rules serve, is a column like the others.

### Evaluation

`flags[k]` is the flag row and its config row in one environment, of the shape
`FlagSnapshot`.  The actions are the operations of PUT, one column at a time, and DELETE.
SHA-256 is the constant `Digest`, any function to the naturals; the three substring
operators are constant relations, so the results hold whatever strings are.  `evaluate` and
`matches` follow the source branch by branch.

### RateLimit

`counter[s]` is the Redis value of an identity and a minute, `req[r]` a request between
reading the clock and its verdict, `age[w]` the time since minute `w` began.  `Start` is
`dispatch` up to the key, `Incr` the INCR with the verdict its count implies, `Expire` the
EXPIRE of the request that got 1.  `IncrFails` and `RequestLost` are the `except` branch,
which lets the request pass, and a killed instance; Redis may or may not have run a call
whose answer was lost.  `tally` and `leaked` are history.  Requests the middleware lets
through unseen (disabled, exempt path, no key) are left out.  All instances read one clock.

## 3. What is checked

| Run | Expect | Question |
|---|---|---|
| `cache` | pass | `StaleHasCause`: a stale entry was SET from a query a commit overtook, or its invalidation was lost, or is still to come. `MissedInvalidationBounded`: the comment beside the failed DEL ("cache_ttl_seconds bounds it") for entries that were current when SET. `StalenessBounded`: the bound for all entries, TTL plus the loader's delay. `Convergence`: once writes stop, no stale entry is left. `ImplementsRegister`: the refinement of `FlagRegister`. |
| `service` | pass | Two tenants and two environments. `KeyConfinement`: handlers work for the tenant of their key. `ChangesAreAuthorized`: a flag set changes only in a step of a holder of its tenant's key. `TenantsHaveKeys`: only a registration that died between its commit and its answer leaves a tenant without a key. `OwnScope` and `StaleHasCause`: cache keys do not mix scopes, and a flag-level change is invalidated in every environment. |
| `cache_race` | violation | `ReadYourWrites` with nothing failing: a loader that queried before a commit can SET after its DEL. |
| `store` | pass | Three overlapping requests. `AuditReplays`: a column holds the new value of the last record that names it. `CreatedOnce`: of the creators of a key one succeeds. `OnlySentColumnsChange`: a commit changes what its body sent and nothing else, and a PUT of which one scope is rejected changes nothing. `OldValuesWereStored`: the old values of a record were stored, together, at a moment while its request ran. |
| `store_types` | pass | `ValuesMatchType` for every kind of value and null against flags of every type; `RequestsFinish` under fairness. |
| `store_skew` | violation | `SentValuesStored`: what a PUT sent can be dropped because the copy it compares with is stale. |
| `store_history` | violation | `NewestFirst`: the history is sorted by transaction start. |
| `engine` | pass | `KillSwitch`, `RolloutExtremes`, `RolloutEditIsLocal`, `MalformedRulesAreInert` over every operator and percentage; `ArchivalIsFinal`: from its archival on, a flag is in no answer, whatever edits follow. |
| `ratelimit` | pass | `QuotaPerWindow`, `RefusedOverOwnLimit`, `OnlyLeaksOutlive` with every failure between INCR and EXPIRE. |
| `instance` | pass | `ConnectionsAccounted`: the pool counts exactly what requests in progress hold. `MetricsAccount`: a tenant's series misses only 429s, which are counted as anonymous, and requests that raised; no sample without a counted request. `PercentilesCover`: a reported percentile is a sample up to the rounding, at least p% of the samples are not above it and the rest not below it. `ReadinessHasCause`: a 503 means an outage of PostgreSQL or a pool fully in use. `OnlyOwnCallsHang`: a request stays unanswered only in a call of its own that a datastore never answers; requests that wait for a connection, before their first query or after their commit, are answered though every connection hangs. |
| `instance_errors` | violation | `ErrorsCounted`: a 500 from an exception is in no error rate. |
| `deploy` | pass | `FitToServe`: what has traffic passed its smoke test or is the bootstrap, its code is not ahead of the schema, and after a promotion level with it unless a migration job that outlived its run committed since. `SplitHasCause`, `FullTrafficVetted`: production stays split, or goes fully to a revision nobody watched, only after a run that was cancelled, had no snapshot or could not roll back. `RollbackRestores`: a rollback ends where the run began. |

Each violation is a disagreement between the code and a docstring, comment or endpoint
description that `PROJECT.json` quotes under "findings".  Others were met while modelling and
have no run of their own:

* `_matches` says that a user who falls through the rules can only be served `default_value`
  (`app/evaluation.py:96`); inside the rollout, `evaluate` serves `value`.
* Two overlapping PUTs of the same value record the same change twice, 100 to 10 and 100 to
  10, although the second found 10 stored: `_drop_unchanged` compares with the copy and not
  "what is stored" (`app/routers/flags.py:35`).  `OldValuesWereStored` is what does hold: 100
  was stored while both ran.
* DELETE is described as "An archived flag evaluates to its `default_value`"
  (`app/routers/flags.py:307`); the loader leaves archived flags out of the answer, as the
  description of `/evaluate/bulk` says.
* `update_flag` stores targeting rules without checking the values they serve against the
  flag's type, which `_value_matches_type` says is done "at every write path"
  (`app/schemas.py:301`).
* Two overlapping PUTs record the same `old_value`; for the second it is not the previous
  value (`app/routers/flags.py:276`).  `AuditReplays` is about `new_value`.
* "On a cache hit there is no database call at all" (`app/routers/evaluate.py:4`):
  `authenticate` queries the key on every request and its connection is held until the end.
* `_percentile` is called nearest-rank (`app/metrics.py:58`); when `n * pct` is a whole
  number it is the sample after the nearest rank.  `PercentilesCover` holds for it.
* A 429 is labelled with the raw path, tenant id included, because no route has been matched;
  `_route_template` expects that of 404s only (`app/middleware.py:32`).
* A cached entry that does not decode counts as a hit and as a miss (`app/cache.py:83-89`).
* The rollback says "Check the rollback target is actually healthy BEFORE rolling back to it"
  (`.github/workflows/deploy.yml:292`) and shifts the traffic first (`:299`).  The check
  decides on a warning only, so a first deploy that fails still ends with all the traffic on
  the placeholder.
* "the deploy fails if this fails" (`.github/workflows/deploy.yml:176`) holds of the step; a
  job that outlives a cancelled run can migrate the database after a later run, a revert
  included, has promoted.
* Nothing ties the schema to the code that serves when runs fail: every failed run may leave
  it one migration further ahead, although migrations are written to be compatible with the
  release before them (`.github/workflows/deploy.yml:183`).

### Bounds

* `MaxVersion = 2`, two loaders and one writer in `cache`: two commits around one load, and a
  second loader that finds or overwrites what the first one stored.  The theorems cover any
  number of each.  `cache_ttl_seconds = 2` and `MaxHeld = 1` are the least values for which
  an entry ages before it expires and a loader is delayed.
* `service` has a TTL of one and no failures but of registrations: its question is whose flag
  sets are touched.  Two tenants, keys and environments are what a mix-up needs; keys are
  symmetric.
* `instance`: two requests on a pool of one connection, so that one waits for the other, at its
  first query or at its refresh; four requests in all and a deque of three samples, which
  overflows.  Latencies of 5 and 17 tenths of a thousandth: one is a tie of the rounding, the
  other is rounded up.  Five pairs of a caller and an endpoint (`AllClients`) reach every
  handler and every refusal.  Outages are not bounded.
* `deploy`: three runs, since a candidate stranded by the first can become the snapshot of the
  second and be what the third meets; three migration heads, so that a commit can be behind,
  level with or ahead of the database.  A job orphaned by the first run can commit during
  the second or the third, or after it.
* `MaxRequests = 4` in `store`: a creation and three overlapping edits or archivals, in three
  slots, which is what an overwritten, a recorded and an overtaking change need.  The bodies
  change both scopes at once, each alone, nothing, or one scope with a value of the wrong
  type for the other.
  `MaxRules = 1` makes a two-rule body break the CHECK constraint.
* `BUCKET_SPACE = 4` in `engine` with all five percentages and a user in every bucket.
* `ratelimit`: a minute of two ticks, an expiry of two minutes like the code's 60 and 120
  seconds, a limit of one, and four minutes, so that a leaked counter is seen to outlive the
  expiry.  `MaxHeld = 1`: a request's INCR may arrive in the next minute.

`FlagStore` and `RateLimit` end in `Quiet` when all the requests of a behaviour are done, so deadlock
checking finds requests that wait for each other.

### Fairness

`FlagCache!Fairness`: time passes, and a request the event loop has accepted keeps running.
Nothing is assumed of clients, of eviction or of the success of any datastore call:
`ReaderStep` and `WriterStep` contain their failures.  `FlagStore!FairSpec` assumes the same
of its requests.  An asyncio task whose await has completed is scheduled again, and
PostgreSQL wakes a transaction that waits for a row when the other one ends.
`Instance!Spec` assumes that a coroutine whose await is over runs on and that the wait for a
pooled connection ends, with a connection or with SQLAlchemy's `pool_timeout`.  A call to a
datastore is under no fairness (`Awaiting`): `redis.from_url` (`app/cache.py:47`) and
`create_async_engine` (`app/db.py:9-18`) are given no timeout for one, so it may never end and
its request may hold a connection for ever.  No outage has to end either.
`FlagCache!Fairness` and `FlagStore!FairSpec` do assume that the calls of an accepted request
end, in an answer or an error: their subjects are what is left in the cache and whether
requests block each other, not a silent datastore.

## 4. What is proved

`FlagCacheProofs`, for all sets of tenants, environments and requests, every TTL and every
combination of failures:

* `TypeCorrect`, `ScopeIsolation`, `StaleEntriesHaveCause`, `MissedInvalidationIsBounded`,
  `StalenessIsBounded`;
* `UncachedReadsAreCurrent`: with the cache off, `ReadYourWrites` holds.  (With the cache on
  the run `cache_race` refutes it.)

They rest on one inductive invariant, `IInv`.  None of the properties is inductive alone.
`Named` says that a request with a config change names its environment, so that what it
invalidates covers what it changed.  `CacheOff` says that a disabled cache is empty and
nobody looks it up.  `Loading` relates the set a loader holds to the committed one: never
newer, outdated for no longer than it has been held, and not yet outdated if still current.
`FreshBound` is the life time of entries that were current when SET, stated for entries that
are not stale yet too.  `Answered` says that what was acknowledged was committed.  The proof
has one lemma per conjunct and one step per action in each.  The assumptions are
`CacheAssumption`: the TTL is positive, there is a tenant and an environment, the bounds are
numbers.

`FlagRegisterProofs`: `CacheImplementsRegister`, that every behaviour of the protocol is one
of the register.  `FlagRegister` has no fairness, so this is all of `ImplementsRegister`.
Each action is shown to map to a named action of the register or to a stutter, per loader and
per scope.  The invariant it needs beyond `IInv` is `Delays`: a loader holds its set for at
most `MaxHeld`, its staleness is counted while it can still be SET, and an entry remembers a delay within
`MaxHeld`; it is what turns the code's TTL into the register's `Bound`.  `NoneAssumption`
says that `None`, an absent entry, is none of the records that stand for present ones.

`FlagServiceProofs`, for any number of tenants, keys, environments and requests:
`ServiceImplementsCache`, that the service is a refinement of `FlagCache` by hiding its own
variables, from which `ServiceKeepsScopes` and `ServiceStaleEntriesHaveCause` follow; and
`ServiceTypeCorrect`, `TenantIsolation`, `RegistrationIsAtomic` and `OnlyKeyHoldersWrite`.
The inductive invariant `SInv` adds `Registering` (the registration in flight has its rows
committed exactly when it waits for its answer) and `SessionsHeld` (a request in progress runs
with a key that was shown), and uses `OwnScope` of the cache: that a handler caches for its
key's tenant needs the set in its hand to be of its own scope.

`FlagStoreProofs`, for any number of flags, environments and overlapping requests and every
set of bodies: `TypeCorrect`, `StoredValuesMatchType`, `TrailReplays`, `OneCreation`,
and the action properties `SentColumnsOnly` and `OldValuesStored`.  The inductive invariant `IInv`
relates three things.  The committed rows: they are well formed (`Table`), values and declared
type agree, and a flag exists exactly if the trail has a record of it (`History`).  The
transactions in flight: what each holds at each point of its handler (`InFlight`), that a row
it has read is never deleted, and that at most one creator of a key is past its INSERT, while
no committed row has the key (`Rows`, which is what `uq_flags_tenant_key` gives and
`CreatedOnce` needs).  The log: every record names columns of its own scope (`Trail`).  The type of a flag never changes, which is why a check made before the
commit still protects the row.  `AuditReplays` is preserved because a commit assigns exactly
the columns its records name, to the values they name, whatever the row holds by then; what
`Written` and the records of a commit do are lemmas of their own.  `OldValuesStored` adds `Copies` to the invariant: what a request has read is part of a row
that was current since the request began, and so is what it found not yet archived.  A step
adds at most two records, both of the one request that ends with it (`GainedTwice`), whose old
values are columns of its copies (`RecordedGrounded`).  `StoreAssumption` says what
the validators let through, and `RowAssumption` that `None`, an absent row, is not a row.

`InstanceProofs`, for any pool size, any finite set of request slots, and every exception
and outage: `TypeCorrect`, `NoConnectionLeaks`, `UnreadyHasCause`, `MetricsAddUp` and
`PercentilesHold`.  `NoConnectionLeaks` equates the pool's counter with a cardinality; `Pool`
adds that it is within the limit, and `Slots` says in which states of a request its session
can hold a connection, so that each step adds or removes exactly one element of the set of
holders, or leaves it; a request about to refresh holds none, for its commit gave it back.  `OutageSeen` says that a request in
progress while the database is down has noticed it, which is what `ReadinessHasCause` needs
of a statement that fails.  `Requests` is assumed finite, as the connections of a process are.
`MetricsAddUp` has an invariant of its own, `Books`.  `Labelled` says what the middleware will
label a request with at each point: a tenant's id is its caller's, a 429 is anonymous and has
no route, everything else has its endpoint's.  `Evaluated` is `SamplesAreServed` without the
429s, since those are counted elsewhere.  Every step is shown to add as much to one side of each
equation as to the other, and a lemma about the size of a set in which one element changes
carries this over to the cardinalities.  It uses `MetricsAssumption`: "anonymous" is no
tenant's id (ids are UUIDs).
`PercentilesHold` needs of the invariant only that the samples have durations; it is a fact
about `sorted()`, the index of `_percentile` and its rounding, for every list and every
`Grain`.  `SortExists` orders the places
of a list by rank, the number of places that hold less, or the same and come no later: ranks
are distinct, so by the pigeonhole principle each is taken, and their inverse sorts the list.
`SortedCovers` then finds `m` distinct places at or below the value at place `m`, and
`n - m + 1` at or above it; `PercentilePlace` bounds the index for the three percentiles the
code asks for.  Rounding is to the nearest (`RoundNearest`) and keeps the order
(`RoundMonotone`), which carries both shares over to the rounded samples (`RoundedShares`).

`EvaluationProofs`, for every digest, rule list, context and number of buckets:
`TypeCorrect`, `KillSwitchHolds`, `RolloutExtremesHold` and the action properties
`RolloutEditsAreLocal`, `MalformedRulesHold` and `ArchivalHolds`.  The lemma `BucketRange`
gives the range of a bucket, and `RolloutChange` compares two snapshots that differ in the
percentage alone.  `MalformedRulesHold` is about lists of any length.  Its premise,
`SameWellFormed`, says that two lists have the same well-formed rules in the same order by an
order isomorphism between the places of those rules; the isomorphism carries the matching
places of one list onto those of the other, hence the first onto the first
(`SameFirstMatch`), and only well-formed rules match.  `ArchivalHolds` joins two facts: the keys
of an answer are those of the flags that are not archived, by the loader's filter
(`AnsweredKeys`), and no operation clears `archived_at` (`ArchivedStays`).  That there is a first is the
well-foundedness of `<` on the naturals (`FirstIsLeast`).

`RateLimitProofs`, for every limit, expiry, number of identities, requests and minutes, and
every combination of failures: `TypeCorrect`, `QuotaHolds`, `NoNoisyNeighbour`, `LeaksOnly`.
The inductive invariant adds to the types: `Clock` (the current minute is not over) and
`Live` (a request is no older than its minute and its wait), which bound when an INCR can
still arrive; `Lifetime`, which says that a counter with an expiry outlives that and not much
more, and that one without has a creator about to set it or has leaked; `Quotas` and `Own`,
which relate the tallies to the counter's value.  `QuotaPerWindow` is not inductive because a
counter that expires hands out a fresh limit: the proof shows that no request of its minute
is left to take it.  The assumption that carries it is `WindowTicks + MaxHeld <= ExpireTicks`
in `LimitAssumption`: the code's 120 seconds leave a request 60 seconds to reach Redis.

`DeployProofs`, for any number of runs and migrations and every failure and cancellation:
`TypeCorrect`, `OnlyFitRevisionsServe`, `SplitsHaveCause`, `FullTrafficIsVetted`,
`RollbackIsRestoring`.  The properties speak of what has traffic; the inductive invariant
extends them to what a run may still give traffic to.  `Ages`: a candidate is younger than
everything that served before it.  `Tested` and `Schema`: the rollback target, and from the
smoke test on the candidate, are as fit as what serves, and the candidate needs exactly the
migrations the database has until an orphaned job adds to them (`late`); jobs only ever move
the schema forward, so nothing that serves falls ahead of it.  `Vetted`: only the candidate can be
neither watched nor stranded nor the bootstrap, and until it is watched it is never alone.  `Whole`: apart from
the candidate, production is not split unless a stranded revision is part of it.  `Target`:
the snapshot had traffic when the run started.  The assumption is `DeployAssumption`, that the
bounds are numbers and `None` is not a revision.

Model-checked only: `Convergence`, `RequestsFinish` and `OnlyOwnCallsHang`; liveness under
fairness is out of the prover's reach.  Leaves whose proof search is long name their prover
and its time limit.

## 5. What is not modelled

* `list_flags`, response shapes, string patterns and lengths, logging: no state or no
  property of interest.
* `updated_at`: set by every UPDATE, read by nobody.
* The append-only trigger: it refuses statements the application never issues.
* A Redis entry that does not decode is `LookupMiss`; the shape of entries across releases
  is left out.
* Metrics: timestamps of the samples and with them the 60-second window, flags per evaluation,
  the hit and miss counters of `app/cache.py`.  They feed nothing but `GET /metrics`.
* Startup and shutdown (`lifespan`), `livez`: no state.
* Configuration and logging: the settings are constants of the modules; log records are not
  modelled.
* Deployment: percentages, the order of `status.traffic` with tagged entries, the test job, the
  health of a revision after its smoke test (a rollback target's included), and traffic
  commands that take effect only after the run that gave them is over.
* Infrastructure: declarative, no operations.

## 6. Plan

Done: every module of section 2, and theorems for each of the seven specifications.  Every
safety property of a passing run, invariant or action property, is proved; only liveness rests
on TLC alone.
