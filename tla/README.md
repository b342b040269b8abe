# TLA+ models of soulbase

This directory holds TLA+ models of the soulbase crates, the TLC configurations
that check them, and `PROJECT.json`. `PROJECT.json` lists the components, the
runs, the mutants, the map from definitions to source lines, the findings and the
hazards. Every definition of a model is translated from the Rust source under
`src/crates/`, and `PROJECT.json` "map" names the lines.

## 1. The system and its parts

soulbase is a set of Rust crates. The parts with concurrent state, and therefore
worth model checking, are these:

| Part | Source | State | Operations | Interacts with |
|---|---|---|---|---|
| Outbox store | `sb-tx/src/memory/outbox_store.rs`, `memory/mod.rs` | a map of messages: status Pending/Leased/Done/Dead, attempts, not_before, lease_until, worker | enqueue, lease_batch, ack_done, nack_backoff, dead_letter, heartbeat, revive | Dispatcher, dead store |
| Dispatcher | `sb-tx/src/outbox.rs` (`tick`, `select_messages`), `worker.rs` | none of its own; each tick holds a leased batch | tick: lease, then per message attempt, send, ack/nack/dead-letter, push | store, transport, QoS guard, dead store |
| QoS guard | `sb-tx/src/qos.rs` | per-tenant inflight, window counters | on_dispatch_attempt, on_dispatch_result | Dispatcher |
| Backoff | `sb-tx/src/backoff.rs` | none | next_after (exponential, capped, jittered) | Dispatcher |
| Dead-letter store | `sb-tx/src/memory/dead_store.rs`, `replay.rs`, `surreal/store.rs` | letters keyed by (kind, id) in memory, by (tenant, kind, id) in SurrealDB | push, get, list, remove, replay, purge_older_than | outbox store, saga store |
| Runtime workers | `sb-tx/src/worker.rs` | dispatcher and maintenance tasks | spawn_runtime, the two loops, shutdown | dispatcher, dead-letter store |
| Idempotency store | `sb-tx/src/memory/idempo_store.rs` | records InFlight/Succeeded/Failed with TTL | check_and_put, finish, fail | callers of tx |
| Saga orchestrator | `sb-tx/src/saga.rs` | saga state, cursor, step states | start, tick (running / compensating) | saga store, participants, dead store |
| SurrealDB tx store | `sb-tx/src/surreal/store.rs` | the same rows as SurrealQL tables | the same operations as queries; `lease_batch` is a candidate query followed by one conditional UPDATE per row | — |
| Interceptor chain | `sb-interceptors/src/stages/mod.rs`, `idempotency.rs`, `resilience.rs` | idempotency cache with TTL, semaphore | run_with_handler (request stages, permit, handler with retries and timeout, response stages, put) | auth facade, handlers |
| Tool invoker | `sb-tools/src/invoker.rs` | Serial concurrency counts, idempotency cache | invoke | sandbox |
| Auth facade and quota | `sb-auth/src/facade.rs`, `quota/mod.rs`, `cache/mod.rs` | decision cache, quota usage | authorize, check_and_consume | AuthzQuotaStage |
| Tool preflight | `sb-tools/src/preflight.rs`, `mapping.rs` | none (a function of the tool manifest and the call) | preflight: consent, plan_exec_ops, build the grant, manifest and policy, build the profile, validate every capability | invoker, sandbox profile and guard |
| Sandbox manager | `sb-sandbox/src/manager.rs` | budget meter, evidence sink | execute | invoker, executors |
| Sandbox profile and guard | `sb-sandbox/src/profile.rs`, `guard.rs`, `manager.rs`, `exec/fs.rs` | none (a function of grant, manifest and policy) | build, select_capability, ensure_consent, validate, the executor's open | sandbox manager |
| Config loader and switch | `sb-config/src/loader.rs`, `source/mod.rs`, `snapshot.rs`, `switch.rs` | current and last-known-good snapshot | load_with_prev (merge sources, apply defaults, enforce schema, changed keys), swap, rollback | schema registry, sources |
| Storage repository | `sb-storage/src/mock/repo.rs`, `surreal/repo.rs` | one table of JSON documents with a tenant and a version | get, create, upsert (merge patch, expected version), delete, select (filter, sorts, limit, cursor) | every crate that persists entities |

The remaining crates have no concurrent state machine of their own. The rest
of sb-storage (graph, vector, search, migrations) is a set of database
adapters. sb-llm wraps providers. sb-gateway is HTTP wiring.
sb-errors and sb-types hold codes and value types.

### Hard behaviours

These are what the models target. Each one is listed with its source line in
`PROJECT.json` "hazards".
- **Several dispatcher workers over one store.** A lease is the only protection,
  and the dispatcher never renews it. `ack_done`, `nack_backoff` and `dead_letter`
  do not check who holds the lease.
- **Batch selection.** `select_messages` walks a HashMap in arbitrary order and
  groups by dispatch key within one batch only.
- **Errors in the middle of a tick.** Each `?` leaves the rest of the batch
  Leased. It also skips `on_dispatch_result`, so a QoS in-flight slot leaks.
- **Dead-lettering takes two steps.** The row is marked Dead, then the letter is
  pushed. A replay also takes two steps: revive, then remove.
- **Idempotency records expire.** TTL expiry reclaims an InFlight idempotency
  record while its executor is still running.
- **Saga ticks are load-modify-save with no version check.** The cursor is placed
  past the failed step before compensation.
- **Idempotency in the chain is get, then handler, then put.** Nothing marks a
  key in flight, and the stage runs before authentication.
- **The semaphore waits.** Every return path of `run_with_handler` must drop
  the permit.
- **The invoker's Serial guard only counts.** Its idempotency cache is keyed by
  the raw client key.
- **The sandbox emits begin evidence before the limits check.** An over-limit
  usage returns Err with no end evidence and no commit or rollback.
- **Config defaults go in by path_exists, then merge_value.** A scalar on the
  way makes the path "missing", and the default replaces it. The registry's
  HashMap order decides between defaults.
- **The repository's tenant and version checks differ by backend.** The memory
  backend checks the stored tenant and compares `ver`; the SurrealDB backend
  puts both in WHERE clauses, and its create checks neither.

## 2. Modules

### Outbox (`Outbox.tla`, instance `MC_Outbox.tla`)

Outbox models the in-memory outbox store, the Dispatcher tick of several
workers, SimpleBudgetGuard's `max_inflight` and `max_dispatch_per_window`, the dead-letter store and the replay
of an outbox dead letter. Each worker serves one tenant (`WorkerTenant`); the guard's counters are
per tenant, and the dead-letter store's key is the message id alone
(`WithoutLetter`), as in `InMemoryDeadStore::key`. The runs use one tenant;
`MC_Outbox_tenants.cfg` uses two. The constant
`Backend` chooses the store: "memory" (one locked call per operation) or
"surreal" (`SurrealOutboxStore`, whose `lease_batch` is not one atomic step).

**State:**
- `outbox[m]` is the row of message m.
  - Status "Absent" means m has not been enqueued yet.
  - `due` holds the milliseconds left until `not_before`. `lease` holds the
    milliseconds left until `lease_until`, or Nil.
  - `worker` is the lease holder.
- `created` is the enqueue order.
- `wk[w]` is where worker w's tick is. Its `pc` is one of:
  - idle;
  - next: before `on_dispatch_attempt`;
  - sending: awaiting `transport.send`;
  - sent: the send result is known;
  - pushing: between `dead_letter` and `dead.push`.

  - leasing (surreal only): inside `lease_batch`, between the candidate query
    and the end of its per-row leasing loop.

  `wk[w]` also holds the rest of the batch of clones that `lease_batch` returned,
  and, while leasing, the candidates still to try and the dispatch keys seen.
- `inflight` is the guard's counter. `win` is its window: its age
  (`now - window_start_ms`, capped at the window length, since only
  "age >= window_ms" is ever asked) and `window_count`. `dead` is the set of messages with a letter.
- `op` is a replay call in progress.
- `delivered` is the history of successful sends.
- `faults` counts store errors.

**Actions:** each action is one step of the code between two awaits, and each
whole store call is one step, because the store is behind a lock.

| Action | Code |
|---|---|
| `Enqueue` | `enqueue`. A duplicate id is a conflict. |
| `LeaseBatch` | Memory store: `lease_batch` with `select_messages`. Every key-distinct selection the HashMap order can produce, in every order. |
| `SelectCandidates` | Surreal store: `select_candidates`, the eligible rows up to `max(limit*4, limit)` in any order (the ORDER BY is over absolute times the model does not keep). |
| `TryLease` | Surreal store: one turn of the leasing loop. A key already seen is skipped; otherwise `try_lease` runs `LEASE_UPDATE`, whose WHERE clause re-checks eligibility, so a row another worker leased in between is not taken. The loop stops at `limit` leased rows or when the candidates run out. `Tick` waits while a worker is leasing, because the loop's `now` is read once. |
| `AttemptRejected`, `AttemptAdmitted` | `on_dispatch_attempt`: the inflight check, then the window (restarted first if it is `window_ms` old), then the count and inflight go up. A rejection changes neither counter, except for the window's restart, and ends the tick with the rest of the batch still Leased. |
| `Send` | `transport.send`: Ok or Err. |
| `AckDone`, `NackBackoff`, `MarkDead` | The three branches after the send. The store's own attempts counter goes up by one. The dispatcher decides on the clone's counter. `NackBackoff` takes every delay `next_after` can produce, with truncation. |
| `PushDead` | `dead.push`. |
| `StoreFault` | Any of those store calls returning Err. `?` ends the tick. |
| `ReplayRevive`, `ReplayRemove` | The two steps of `DeadStore::replay`. |
| `Tick` | One time unit passes; the window ages. |

**Properties** (the comment above each one in `Outbox.tla` states it):
- `AttemptsBounded`: spec invariant 7.
- `LeaseExclusive`: no message is in the pending batches of two workers.
- `TerminalStable`: Done and Dead are final except through a replay.
- `DeadLetterIsDead` and `DeadRecoverable`: a dead letter and a Dead row
  correspond.
- `InflightAccurate`: the guard counts exactly the admitted, unreported attempts.
- `KeyOrder`: spec invariant 8.
- `EventuallySettled`: every Pending message ends Done or Dead.

**Fairness:**
- **Weak fairness on each worker**, because `spawn_dispatcher_worker` loops
  calling `tick` until it is stopped.
- **Weak fairness on time.**
- **Weak fairness on the second step of a started replay.**
- **None on `Enqueue` or on starting a replay.** Those are client choices.

**The constant `LeaseOutlivesTick`** is an assumption about the environment:
time does not expire a lease held by a running tick. It is the only way the code
is correct with several workers, because nothing in the code renews the lease.
Runs with `LeaseOutlivesTick = FALSE` show what happens without it.

**Bounds:**
- 2 messages sharing one dispatch key, 2 workers, `max_attempts` 2, `lease_ms` 2,
  `batch` 2.
- Backoff base 1 ms and cap 2 ms with 30% jitter. With `max_attempts` 2 a
  message is nacked at most once, after its first attempt, and that delay is
  1 (the jittered 0.7 to 1.3 ms, clamped to the base and truncated).
- One replay. No store fault in `MC_Outbox.cfg`; `MC_Outbox_faults.cfg` allows
  one, on the SurrealDB backend without a budget guard.
- A window of 1 attempt per 2 time units on top of `max_inflight` 1 (the
  code's window is at least 1000 ms; only its length relative to the lease
  and the backoff matters).

These bounds reach every branch of the tick:
- two workers contending for the same key and for the one inflight slot;
- an attempt rejected by the full window, and the window restarting;
- retry and dead-lettering;
- replay of a dead letter and its race with re-dead-lettering.

A run with 3 messages passes the same properties but takes about 10 minutes, so
it is not one of the runs.

### Idempotency store (`TxIdempotency.tla`, abstract `IdempoKey.tla`, instance `MC_TxIdempotency.tla`)

`TxIdempotency` models one (tenant, key) of the idempotency store, with callers
that follow its contract: `check_and_put`, then, when it returns None, run the
operation and call `finish` (with the result digest) or `fail`. The constant
`Backend` selects the implementation:
- **"memory"** (`InMemoryIdempoStore`): `check_and_put` is one step under the
  write lock (`CheckAndPut`).
- **"surreal"** (`SurrealIdempoStore`): the same decision takes three queries:
  `Fetch` (SELECT, which answers from a live record), `Delete` (remove an
  expired record) and `Create` (CREATE; if a row exists, the conflict is mapped
  to TX.IDEMPOTENT_BUSY).

**State:** `rec` is the row, with status, hash, digest and age. The age is
`now - updated_at` in ms and is capped at `TtlMs + 1`. `pc`, `req` and `got` are
per caller: where its call is, its request hash, and the digest it was handed.

**Expiry** is `age > ttl` in memory and `age >= ttl` in SurrealDB, as in the
code. `Tick` advances time. The constant `ExecWithinTtl` is an environment
assumption: an operation finishes before its own record's ttl passes.

**Properties:**
- `SingleExecutor` (spec 4.6.2, property 9): at most one caller runs the
  operation.
- `ReplayMatchesRequest`: a caller answered from the store gets the digest of its
  own request hash.
- `Refinement`: the store implements `IdempoKey`, an untimed specification of
  claim, answer, complete and expire. The mapping takes the status to
  Free/Claimed/Succeeded/Failed and makes the running caller the owner. It
  treats a surreal caller between queries as one that has not yet called.

**Bounds:** 3 callers (2 for surreal), 2 hashes and `TtlMs` 1. These bounds
reach expiry, reclaim, conflict, busy, hit and last-failed.

### Saga orchestrator (`Saga.tla`, instance `MC_Saga.tla`)

`Saga` models `SagaOrchestrator::start` and `tick` of one saga over the
in-memory store.

**State:**
- `store` is the saved instance. It holds the state, the 0-based `cursor` and
  each step's state.
- `tk[t]` is ticker t's pc and its loaded copy.
- `execs`, `comps` and `okRan` are histories of the participant calls.

**Actions:** each action is one stretch of code between two awaits.

| Action | Code |
|---|---|
| `Load` | `store.load` and the dispatch on the state. Terminal and Paused sagas go straight to the save. |
| `RunStep` | `tick_running` before `execute`: Completed past the end, skipping a Succeeded step, or marking the step InFlight. |
| `Execute` | `execute` returns Ok(true), or Ok(false)/Err. On failure the step is marked Failed, the saga goes Compensating and `cursor = idx + 1`. |
| `CompStep` | One turn of the `tick_compensating` loop: Cancelled at cursor 0, pass over Compensated/Skipped, Skipped when there is no `compensate_uri`. |
| `Compensate` | `compensate` returns Ok(true) and the loop continues, or the saga goes Failed. |
| `Save` | `store.save` writes the copy back whole. |
| `Crash` | The tick stops before its save. Spec 4.6.3 says "the orchestrator may retick after crashes". |

**Fairness:** weak fairness on each ticker, as in property 10 ("given a finite
tick schedule").

**Bounds:** 3 steps, with step 1 not compensable so that the Skipped-then-Failed
branch occurs. One ticker and one crash.

**Properties:**
- `CompletedMeansAllSucceeded`.
- `CancelledUndoesSucceeded`: every compensable step whose execute succeeded,
  including a success lost to a crash, has been compensated.
- `Terminates` (property 10).
- `CompensatesOnlySucceeded`: the spec's rule for compensation. Under
  `MC_Saga_s5.cfg` (scenario S5) TLC finds the code breaks it: the failed step
  itself is compensated. This is a hazard in `PROJECT.json`; the configuration
  is kept but is not one of the runs.

`MC_Saga_two.cfg` runs two tickers without crashes, and TLC finds
`CancelledUndoesSucceeded` violated. A ticker holding a stale copy saves
Cancelled over another tick's success. No code in the repository ticks one id
from two tasks, so this is a hazard and the configuration is a repro, not a
run.

### Interceptor chain (`InterceptorChain.tla`, instance `MC_InterceptorChain.tla`)

`InterceptorChain` models `InterceptorChain::run_with_handler` for concurrent
requests. It composes the chain with the auth facade: the AuthzQuota stage
calls `AuthFacade::authorize`, which uses the decision cache and the quota
store. All requests share one subject, resource and action. So there is one
decision-cache entry and one quota counter.

**State:**
- `idem` is the `MemoryIdempotencyStore`. A stored response is the request
  whose handler produced it.
- `dcache` is the decision-cache entry: none, allow or deny.
- `used` is the quota counter.
- `permits` is the semaphore.
- `pc[r]`, `att[r]` and `resp[r]` are per request. They hold its place in
  `run_with_handler`, the handler attempts and the response a replay returned.
- `recs[k]` is a history: puts under `k` since its entry last expired.

**Actions:**

| Action | Code |
|---|---|
| `IdemStage` | `IdempotencyStage::handle`: a store hit short-circuits as a replay. |
| `Authorize` | `AuthzQuotaStage::handle`: its own failures, or `FacadeAuthorize`. |
| `FacadeAuthorize` | `authorize`: a cached decision (no quota), or a PDP verdict; an allow goes through `QuotaVerdict` (`check_and_consume`); a decision is cached when its ttl is positive. |
| `Acquire` | `acquire_owned` on the semaphore, which waits. |
| `Attempt` (`HandlerTurn`) | One turn of `execute_with_resilience`. Transient errors are retried while `attempt <= max_retries`; a timeout returns at once. |
| `Respond` | The response stages, the `max_body_size` check, the put and `write_json`. Any of the first two may return Err; `write_json` may fail after the put. |
| `RespondReplay` | The response stages and write for a replay; nothing is stored. |
| `ExpireResponse`, `ExpireDecision` | A ttl elapses; the next `get` removes the entry. |

**Fairness:** weak fairness on each request's steps, because tokio polls every
task until it returns. `Acquire` gets strong fairness, because tokio's
semaphore serves waiters in FIFO order.

**Bounds:** 3 requests, two sharing a key and one without. One permit, one
retry, a timeout, quota for two requests and cached decisions. Together these
reach replay, expiry, both quota refusals, a cached allow, waiting for the
permit, a retry and every error path. The run has 27,109 states.

**Properties:**
- `StoredIsSuccess` (spec S6): only a response that passed the response stages
  and the size check is stored.
- `PermitsAccurate`: the free permits plus the holders equal the limit.
- `HandlerAttemptsBounded`: at most `1 + max_retries` handler calls.
- `RequestsComplete`: every request returns.
- `HandlerAtMostOnce` (spec property 9): a key's recorded response is never
  overwritten within its TTL. The code breaks it. `MC_InterceptorChain_double.cfg`
  reproduces the break, so the property is not in the `chain` run.

### Tool invoker and sandbox (`ToolInvoke.tla`, instance `MC_ToolInvoke.tla`)

`ToolInvoke` models `InvokerImpl::invoke` for concurrent calls of one tool. It
composes the invoker with the `Sandbox::execute` it calls for every planned
op.

**State:**
- `cache` is the invoker's idempotency store.
- `conc` is the concurrency map, one count per tenant.
- `pc[c]` and `op[c]` are per call.
- `got[c]` is the result a cache hit returned.
- `begins`, `ends` and `open` are the sandbox's evidence events and open meter
  reservations.

**Actions:**

| Action | Code |
|---|---|
| `Preflight` | `ToolPreflight::preflight`: the call is planned or denied. |
| `Invoke` | The cache lookup, then `ConcurrencyGuard::lock` for a Serial tool. |
| `SandboxBegin` | `execute` up to begin evidence. The pre-checks may fail before the reserve. |
| `SandboxRun` (`RunOp`) | The executor with its Err path (rollback, end evidence), `ensure_usage_within_limits`, commit and end evidence, and the invoker's loop body. |
| `FinishOk` | Obligations, `validate_output` and the put. |
| `FinishFailed` | The Err return. |

Both finishing actions drop the guard (`Return`, `Release`).

`Preflight` comes first: `ToolPreflight::preflight` either plans the call or
denies it. The only refusal the model ties to state is a Keyed tool called
without a key; the others (disabled tool, hidden tool, args, consent, authz,
guard) are a nondeterministic denial.

**Bounds:** 3 calls, two of tenant `ta` sharing key `k1` and one of `tb` with
key `k2`, and 2 ops per plan. These reach a hit, a concurrent miss, every op
outcome and a schema failure. The run has 10,714 states.

**Properties:**
- `CachedIsComplete` (spec 4.4): a cached result comes from a call whose every
  op succeeded and whose output validated.
- `GuardCountAccurate`: the concurrency map counts exactly the live guards.

Three more properties are stated and refuted by TLC under configurations kept
beside the runs. They are listed as hazards:
- `SerialExclusive` (spec 4.4), under `MC_ToolInvoke_serial.cfg`: the guard
  never excludes.
- `EvidencePaired` (spec 4.3), under `MC_ToolInvoke_evidence.cfg`: an
  over-limit usage ends with no end evidence and an open reservation.
- `ReplaySameTenant`, under `MC_ToolInvoke_tenant.cfg`: the raw key is shared
  across tenants.

### Config loader and switch (`ConfigLoader.tla`, instance `MC_ConfigLoader.tla`)

`ConfigLoader` models `Loader::load_with_prev` and `SnapshotSwitch`. A JSON
value is a record: a scalar, or an object holding a function from key names. A
dotted key is the sequence of its segments. Each step of the loader is an
operator translated from its function:

| Operator | Code |
|---|---|
| `MergeMaps` | `merge_maps`: overlay keys replace, two objects merge recursively. |
| `InsertSegments`, `MergeValue` | `insert_segments`, `merge_value`: a non-object on the way becomes a fresh object. |
| `PathExists` | `path_exists`. |
| `ApplyDefault`, `ApplyDefaults` | `apply_defaults`, over the fields in any order (`Orders`), because the registry is a HashMap. |
| `AllPaths`, `Registered`, `EnforceSchema` | `collect_keys`, `split_namespace`, `enforce_schema`. |
| `LeafPaths`, `Flatten`, `ChangedKeys` | `flatten_map`, `flatten_snapshot`, `compute_changed_keys`. |
| `GetRaw` | `ConfigSnapshot::get_raw`. |

**State:** `current` and `lkg` are the switch's snapshots. `srcs` holds the two
maps the sources returned in the last load. `res` is the last outcome, and
`changed` is the last update event's keys.

**Actions:**
- `Init` is a boot whose `load_once` succeeds.
- `Reload` is `load_with_prev(Some(current))` followed by `swap` on Ok.
- `SourceError` is a source or secret resolver returning Err.
- `Rollback` is `SnapshotSwitch::rollback`.

**Bounds:** names `a` and `b`, scalars 1 and 2. Namespace `a` has two flat
fields with defaults. There are eight source trees:
- empty;
- each field set;
- both fields set;
- a field holding an empty object;
- the namespace holding a scalar;
- an unregistered namespace.

Two sources per load give 64 combinations. These cover overriding, merging,
rejection, and keys that appear or disappear. The run has 9,188 states.

**Properties:**
- `MergeMatchesReference`: the merged tree's leaves are those of a right-biased
  deep merge. The reference is stated on leaf paths, not on the recursion.
- `DefaultsKeepSources`: a field the sources set keeps their value, and a field
  with a default can be read.
- `ChangedKeysExact` (an action property): the event names exactly the keys
  whose `get_raw` value differs between the replaced and the new snapshot.

`MC_ConfigLoader_nested.cfg` registers fields `a.b` and `a.b.a`, the second
with a default. TLC violates `DefaultsKeepSources` in the first state: the
source's `a.b = 1` becomes `{a: 1}`. `path_exists` reports `a.b.a` missing
because `a.b` is a scalar, and `merge_value` overwrites it. A schema whose
dotted field has an unregistered parent cannot load at all, because
`enforce_schema` rejects the intermediate key that `apply_defaults` created.
That case has no initial state, so it is recorded only as a hazard.

### Storage repository (`Repository.tla`, instance `MC_Repository.tla`)

`Repository` models one table of the `Repository` trait and the two
implementations, selected by the constant `Backend`. A stored document is a
record of its `tenant`, its `ver` and a `title` (a number). Each call is one
action, because each implementation holds the table's lock, or runs one
statement, for the whole call. A backend operator (`MemGet`, `SurrealGet`, ...)
returns the new table entry and the outcome; the action applies them.

**State:** `table` maps each id to a document or `Absent`. `cl[c]` is what
client `c` has read (`pc` "read", the id and the version). `seen[c]` holds the
tenants of the records its last call returned, `res[c]` its outcome. `acked[i]`
counts the Ok upserts of `i` since it was created, and `caller` is the client
of the last step; both are history variables for the properties.

| Action | Code |
|---|---|
| `Get` | `get`. Memory: a record of another tenant is a schema error (`ensure_tenant`). SurrealDB: `WHERE tenant = $tenant`, so `None`. |
| `Create` | `create` of a doc of version 1 whose tenant a client chooses (`DocTenants`). Memory: conflict on an existing id, then `ensure_tenant`. SurrealDB: `CREATE ... CONTENT $data` fails only on an existing id. |
| `Upsert` | `upsert` with patch `{title, ver: read + 1}` and `expected_version` the version read, the convention of `tests/basic.rs`. Memory: not found, tenant, version, then the patch's keys are inserted. SurrealDB: one `UPDATE ... WHERE tenant AND ver`; no row is "not found". |
| `Forget` | The client drops what it read. |
| `Delete` | `delete`. Memory: another tenant's record is an error. SurrealDB: the WHERE clause leaves it. |
| `Select` | `select`: the tenant's records matching the filter, in any order the HashMap yields, sorted by `SortItems` (one stable `sort_by` per sort key, the last key first, with `json_cmp` on numbers), truncated to the limit. |

**Bounds:** tenants `t1` and `t2`; clients `c1`, `c2` of `t1` and `c3` of `t2`,
each with its own title; two ids; versions up to 2; limit 1; four sort
specifications, including both two-key ones. Three clients make a lost update
between two clients of one tenant and an access across tenants reachable. The
run has 116,358 states.

**Properties:**
- `LostUpdateFree`: a record's version is one more than the Ok upserts since
  its create, so no two clients' Ok upserts start from the same version.
- `TenantIsolation` (an action property): no step returns a record of another
  tenant to its caller, nor creates, changes or deletes one.
- `SortMatchesReference`: for every order of the stored records and every sort
  specification, `SortItems` equals TLC's `SortSeq` under a lexicographic
  comparison of the sort keys, with ties kept in input order.

`MC_Repository_surreal.cfg` runs the SurrealDB backend with clients that may
pass a doc of the other tenant. TLC finds `TenantIsolation` violated after one
`Create`: SurrealDB's create stores the doc's own tenant field unchecked.

### Sandbox admission (`SandboxPolicy.tla`, instance `MC_SandboxPolicy.tla`)

`SandboxPolicy` models how `Sandbox::execute` decides whether an op runs. It
covers every step up to the executor lookup, plus the path the FS executor
then opens. The steps are:
- `ensure_grant_active` and the revocation check;
- `DefaultProfileBuilder::build`;
- `select_capability`;
- `ensure_consent`;
- `DefaultPolicyGuard::validate`;
- the executor lookup.

These steps share no state between calls. The model therefore chooses one
request in `Init`, and a single `Execute` action computes the outcome. The
cfg sets `CHECK_DEADLOCK FALSE` because the model stops after that one call.

Paths are sequences of components (`Root`, `CurDir`, `ParentDir`,
`Normal(n)`), the values `Path::components` yields. A normalized path is a
sequence of characters, so the code's `starts_with` is `IsPrefix`.

| Operator | Code |
|---|---|
| `Step`, `Join`, `Segments`, `NormalizePath` | `normalize_path`: root clears, `.` is skipped, `..` pops, names push; joined with `/`, `/` when empty, a leading `/` added. |
| `IntersectCapabilities` | the grant's capabilities kept when in the manifest and in the policy (the manifest's when the policy has none). |
| `MinOpt`, `MergeLimits` | per-field minimum of manifest and policy, then the budget's bytes when positive (`bytes_in` and `max_depth` stand for the fields). |
| `IntersectList`, `MergeWhitelists` | list intersection, where an empty side yields the other; `paths` and `tools`. |
| `MergeRoot`, `MinTimeout` | the policy's `root_fs` mapping; the smallest timeout, 30000 when none. |
| `FindFs`, `FindFirst`, `SelectCapability` | the first capability of the op's kind whose normalized path is a string prefix of the op's. |
| `RequiresConsent`, `ConsentError` | FS writes and process exec need consent, which must be present and unexpired. |
| `PathAllowed`, `GuardAllows` | `validate`: the capability must be in the profile. Its path must start with `root_fs` and with some whitelist entry, unless the whitelist is empty. A tool must be in a non-empty tool whitelist. |
| `Opened` | `read_file`/`write_file` open the raw op path; a relative one resolves from the working directory `Cwd`. |

**Bounds:** two names `a` and `ab`, chosen so that one is a string prefix of
the other. Op paths are an optional root followed by up to two components of `..`
and the two names, which gives 26 paths. The other inputs are:
- grants with two capability lists and every expiry, revocation and consent
  combination;
- two manifests and three policies, with and without whitelists, roots and
  limits;
- FS read and write, two tools, and a tmp allocation.

These are 11,880 requests. To them `MC_SandboxPolicy` adds the requests that
`ToolPreflight::preflight` builds and admits (`Preflight.tla`, below), 13,980
requests and 27,960 states in all. Every error branch of `execute` is reached.

**Preflight composed with the sandbox (`Preflight.tla`).** Preflight builds the
sandbox request of a tool call from the tool's manifest, and the invoker then
runs `Sandbox::execute` once per planned op with it. `PreflightRequests(tm,
call)` is the set of those requests, empty when preflight denies the call:

| Operator | Code |
|---|---|
| `CapOf`, `ManifestToCapabilities` | `manifest_to_capabilities`: fs read/write/list, tmp and proc declarations become capabilities in order, the rest are dropped. |
| `BuildWhitelists` | every fs declaration's raw resource is a path, every proc declaration's a tool, whatever the action. |
| `ToSandboxManifest`, `BuildPolicyConfig`, `BuildGrant`, `Limits` | the same capabilities and whitelists in manifest and policy; no mappings; `PolicyDefaults::default()` (derived, so no default timeout); the grant's `expires_at` 0, which `ensure_grant_active` never treats as expired. |
| `PreflightConsentOk` | preflight's `ensure_consent`: when required, present, unexpired, within `max_ttl_ms` and with the manifest's scopes. |
| `OpOf`, `PlanExecOps`, `PlanFails` | `plan_exec_ops`: an op per fs read, fs write and tmp declaration, on `args.path`; a missing path is an error; proc and fs list plan nothing. |
| `PreflightRequests` | consent, a non-empty plan, a non-empty profile, and the guard admitting every manifest capability. |

The instance has four tool manifests: a path through `..`, a relative path, a
name-prefix sibling, an fs action with no capability, and an unmapped domain.
Each has every consent setting, and calls come with every consent value,
`args.path` of the 26 paths or none, and revocation. Registry, visibility,
schema and authorization checks come before these steps (`ToolInvoke`'s
`Preflight`); here they allow the call. The consent a request holds may now
also be valid but beyond `max_ttl_ms`, or lacking the scopes. The sandbox
takes both as valid, so `AdmittedGrantValid` asks only for a present,
unexpired consent.

**Properties:**
- `NormalizeMatchesReference`: `NormalizePath` equals a reference that
  resolves `.` and `..` over a stack, on every op and capability path.
- `LeastPrivilege`: an admitted op's capability is in the grant, in the
  manifest, and in the policy (or the manifest when the policy lists none). An
  admitted tool is in every non-empty tool whitelist.
- `LimitsMatchSpec` (spec 4.3): each fused limit is the least of the present
  values, and the timeout is the least or 30000.
- `AdmittedGrantValid`: no admitted op has an expired or revoked grant. Every
  admitted write or exec has a present, unexpired consent.

`MC_SandboxPolicy_confined.cfg` checks `PathConfined`: the file an admitted op
opens lies under its capability's path, under `root_fs`, and under an entry
of every non-empty whitelist. TLC finds it violated in four ways:
- a capability for `/a` admits `/ab`, because `starts_with` works on strings;
- `root_fs` `/a` accepts `/ab` for the same reason;
- disjoint manifest and policy whitelists intersect to an empty list, which
  the guard reads as unrestricted;
- a relative path is checked as if it were absolute but opened from the
  working directory.

`MC_SandboxPolicy_preflight.cfg` checks `PathConfined` on preflight's requests
alone. Preflight's guard loop does not prevent the escape: a manifest with the
relative fs resource `a` is admitted, and its op on `a` opens `/ab/a` under
the working directory `/ab`.

### Dead-letter store and maintenance worker (`DeadLetters.tla`, instance `MC_DeadLetters.tla`)

`DeadLetters` models the `DeadStore` trait in both implementations. The
variable `be` is fixed in `Init`, so one run checks both. The model also covers
the producers of letters, the operator's `replay`, and the maintenance task
that `spawn_runtime` starts.

**State:**
- `store` is the set of letters, each with a tenant, a kind, an id and
  `occurred_at`.
- `rows` and `sagas` hold the outbox rows and sagas that replay revives.
- `rp` is a replay call in progress.
- `mt` is the maintenance task: not spawned, running, stopped or panicked.
- `cfg` is the retention configuration.
- `step` is a history variable: the name of the last action.

| Action | Code |
|---|---|
| `DeadLetterOutbox`, `DeadLetterSaga` | A row marked Dead and `build_dead_letter` pushed; a saga letter pushed by a client. `MemPush` replaces the letter under (kind, id) of any tenant. `SurrealPush` upserts a record whose id includes the tenant. |
| `ReplayGet`, `ReplayApply`, `ReplayRemove` | `replay`'s three awaits: get (SurrealDB matches kind and id across tenants), revive the row or save the saga Running, then remove (SurrealDB deletes every tenant's letter). |
| `MaintTick` | One turn of `spawn_dead_letter_maintenance`: `before = now - retention_ms as i64`, then `purge_older_than`. An overflowing subtraction panics the task when `OverflowChecks` holds. |
| `Shutdown` | `TxRuntimeHandles::shutdown` stops the loop. |
| `Tick` | Time passes. |

`Init` is `spawn_runtime`: the retention is `dead_letter_retention_ms`, or the
default when unset. The task is spawned only when the retention is positive.

Integers are 4 bits wide (`W`). A u64 is a value of 0..15, and `AsSigned` is
`as i64`. This keeps the overflow boundary within TLC's reach.

**Bounds:** two tenants and one id, so that an outbox letter and a saga letter
of different tenants share the id. The clock runs to 3. The three
configurations are:
- unset, with default 2;
- 1, with default 0;
- 0, which spawns nothing.

Together they reach both spawn branches and letters older and younger than the
retention. The run has 66,720 states.

**Fairness:** the loop ticks every `dead_letter_interval_ms` until stopped, so
`MaintTick` is weakly fair. Time and a started replay are weakly fair too.

**Properties:**
- `PurgeRespectsRetention` (spec 5, "purge_older_than(now - retention_ms)"):
  a purge removes only letters of its tenant that are older than the
  configured retention.
- `EventuallyPurged`: while the task runs, every such letter is eventually
  removed.

`MC_DeadLetters_wrap.cfg` gives retentions of 15 and 8, which are 2^63 and
more in the real width. `as i64` makes them negative, so `before` lies in the
future, and TLC finds a letter purged right after it is pushed. A retention of
`u64::MAX` meant as "keep forever" therefore deletes every letter.

## 3. Runs

| Run | Expect | What it shows |
|---|---|---|
| `outbox` (`MC_Outbox.cfg`) | pass | With ticks shorter than the lease, these all hold: leases are exclusive, attempts stay ≤ max, the guard counter is exact under both kinds of rejection, terminal states are stable, dead letters match Dead rows, and every message settles once the dispatch window restarts. The run has 22,755 states. |
| `outbox_faults` | pass | Over the SurrealDB store, with one store error and no budget guard: the select-then-update lease stays exclusive (`LeaseExclusive`), Done and Dead stay final (`TerminalStable`), and lease expiry lets every message settle. The run has 197,211 states. |
| `replay_race` | violation | Replay's remove deletes a letter written after its revive. |
| `idempo_memory` | pass | With the memory store: one executor, replays match their request, and the store refines `IdempoKey`. |
| `idempo_surreal_pair` | pass | With the SurrealDB store and two callers: one executor, and replays match. |
| `saga` | pass | With one ticker and a crash: Completed means every step succeeded, Cancelled means every succeeded step was compensated, and the saga terminates. |
| `tools` | pass | With concurrent Keyed Serial calls: only complete, validated results are cached, and the concurrency map stays exact. |
| `chain` | pass | With concurrent requests: only successes are stored, permits are conserved, retries are bounded, and every request returns. |
| `repository` | pass | Over the in-memory repository with three clients of two tenants: no Ok upsert is lost, no call crosses tenants, and select's multi-key sort equals a lexicographic reference. The run has 116,358 states. |
| `sandbox` | pass | Over 13,980 execute requests (11,880 built directly and 2,100 built and admitted by preflight), these all hold: path normalization equals a reference, an admitted capability is in grant, manifest and policy, fused limits are per-field minima, and admitted ops have an active grant and consent. The run has 27,960 states. |
| `dead_letters` | pass | Over both dead-letter stores and three retention configurations: purges respect the retention and reach every expired letter of the tenant. The run has 66,720 states. |
| `config` | pass | Across reloads, source errors, rejections and rollbacks: the merge is a right-biased deep merge, a default never replaces a configured flat field, and update events are exact. |

More configurations reproduce violations that are recorded as hazards rather
than runs:
- `MC_TxIdempotency_ttl.cfg`: an operation that outlives its ttl is reclaimed.
  Its late `finish` writes its digest into the new caller's record, and a third
  caller replays the wrong result (`ReplayMatchesRequest`).
- `MC_ConfigLoader_nested.cfg`: a default replaces a configured parent field.
- `MC_Outbox_stale_attempts.cfg`: attempts exceed `max_attempts` when a tick
  outlives its lease.
- `MC_Outbox_key_order.cfg`: HashMap order breaks spec invariant 8.
- `MC_Outbox_tenants.cfg`: two tenants' messages with the same id share one
  dead-letter key. The second letter replaces the first, and the first
  tenant's Dead message can no longer be replayed (`DeadRecoverable`).
- `MC_Saga_s5.cfg`: the failed step is compensated.
- `MC_Outbox_qos_leak.cfg`: one store error after `on_dispatch_attempt` leaks
  the inflight slot, and with `max_inflight` 1 dispatch stops forever
  (`EventuallySettled`).
- `MC_Repository_surreal.cfg`: the SurrealDB create stores a doc of another
  tenant (`TenantIsolation`).
- `MC_InterceptorChain_double.cfg`: two same-key requests both miss the store
  and both run the handler. The second put overwrites the first record
  (`HandlerAtMostOnce`, spec property 9).
- `MC_SandboxPolicy_confined.cfg`: an admitted op opens a file outside its
  capability, root or whitelist (`PathConfined`).
- `MC_SandboxPolicy_preflight.cfg`: the same escape for requests that
  preflight built and admitted (`PathConfined`).
- `MC_TxIdempotency_surreal_race.cfg`: two callers see one expired record. The
  second one's DELETE removes the first one's new claim, and both run the
  operation (`SingleExecutor`).
- `MC_Saga_two.cfg`: two tickers of one saga; a stale save loses a success
  (`CancelledUndoesSucceeded`).
- `MC_DeadLetters_wrap.cfg`: a retention of 2^63 or more purges fresh letters
  (`PurgeRespectsRetention`).
- The three `MC_ToolInvoke_*.cfg` described above.

The findings in `PROJECT.json` give the code lines each violation comes from.
Every property of a passing run has a mutant in its module. Each mutant is a
variant of a mapped definition with a plausible slip: an owner test dropped, an
off-by-one limit, a missing `on_dispatch_result`, a missing conflict check, a
half reset. TLC finds each mutant's property violated.

## 4. Plan and what is not modelled yet

`Outbox`, `TxIdempotency`/`IdempoKey`, `Saga`, `InterceptorChain`,
`ToolInvoke`, `ConfigLoader`, `Repository`, `SandboxPolicy` with `Preflight`, and `DeadLetters` are done. Next, in this order:
1. **Composition of the chain with the invoker.** The spec's tool-execute route
   runs the invoker as the chain's handler, so it has two idempotency caches
   and a retry path.
2. **An abstract outbox specification** with a refinement.
3. **Saga replay with the saga's stale snapshot.** `DeadLetters` keeps only the
   saga's state.

Not modelled, and why:
- **The quota counter at its i64 bound.** `used + cost` in
  `MemoryQuotaStore::check_and_consume` could overflow only with a cost near
  2^63. The only caller passes `AuthzQuotaStage`'s `default_cost`: 1, or a
  configured value of at least 0. Reaching `i64::MAX` one unit at a time is
  out of reach, so there is no hazard here.
- **Transports** are I/O. Their only effect is Ok or Err from `send`.
- **The SurrealDB store** is modelled for idempotency and for the outbox lease
  (`Backend = "surreal"`). Its ack, nack, dead-letter, revive and saga UPSERT
  queries are single conditional statements with the memory store's effect, so
  they share its actions. Its dead-letter store is in `DeadLetters`. `list`
  only reads, and is not modelled.
- **The chain's other stages** (ContextInit, RoutePolicy, SchemaGuard,
  AuthnMap, ResponseStamp) only fill the context or fail. The models' error
  outcomes stand for their failures.
- **Preflight's registry, visibility, schema and authorization checks, and the
  tool registry** compute values sequentially and share no state between
  calls. `ToolInvoke` keeps only preflight's verdict. `Preflight` models how
  the sandbox request is built, but not network or browser declarations or
  `content_b64`.
- **Config sources, secrets and checksums.** `FileSource` and `EnvSource` are
  I/O. The model's inputs are the maps they return. The only secret resolver is
  a no-op, and `BasicValidator` accepts everything. The checksum, version and
  reload summary are metadata that no modelled step reads.
- **The repository's cursor paging** (SurrealDB `id > $cursor` with another
  ORDER BY) and the SurrealQL text built by `build_filter_clause` and
  `build_sort_clause`. Sort fields are numbers present on every record, so the
  mixed-type and missing-field cases of `json_cmp` are left out.
- **Sandbox network, browser and GPU capabilities** (`find_net_capability`,
  `validate_domain`), the profile's safety class, side effects and hashes. No
  admission check that the properties are about reads them.
- **Metrics, hooks, error tables, value types, the other storage adapters and LLM
  providers** have no state a property here depends on.
