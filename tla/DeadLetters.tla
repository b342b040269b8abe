----------------------------- MODULE DeadLetters -----------------------------
(***************************************************************************)
(* The sb-tx dead-letter store (replay.rs DeadStore) in its two            *)
(* implementations, InMemoryDeadStore (memory/dead_store.rs) and           *)
(* SurrealDeadStore (surreal/store.rs), with the letters' producers (the   *)
(* dispatcher's dead-letter branch, a saga letter pushed by a client), the *)
(* operator's replay, and the maintenance worker that spawn_runtime starts *)
(* (worker.rs) to purge a tenant's letters older than the retention.      *)
(*                                                                         *)
(* Integers that the code holds in u64 and i64 are held in W bits: a u64   *)
(* is a value of 0 .. 2^W - 1, "as i64" reinterprets it in two's          *)
(* complement, and an i64 subtraction either wraps (release build) or      *)
(* panics (debug build, OverflowChecks).                                   *)
(***************************************************************************)
EXTENDS Integers, FiniteSets

CONSTANTS
  Tenants,
  Ids,            \* message and saga ids (DeadLetterRef.id)
  SagaTenant,     \* [Ids -> Tenants], the tenant of the saga with that id
  MaintTenant,    \* the tenant spawn_runtime's maintenance worker purges
  Configs,        \* WorkerConfig.dead_letter_retention_ms (None or a u64)
                  \* with spawn_runtime's default_retention_ms
  Backends,       \* the DeadStore implementations: "memory", "surreal"
  W,              \* bit width of the model's u64 and i64
  OverflowChecks, \* TRUE: i64 overflow panics (debug); FALSE: it wraps
  MaxTime,        \* bound of now_ms
  None

ASSUME /\ W \in Nat \ {0} /\ MaxTime \in 0 .. 2^(W-1) - 1
       /\ OverflowChecks \in BOOLEAN
       /\ Backends \subseteq {"memory", "surreal"}

Kinds == {"Outbox", "Saga"}
Letters == [tenant : Tenants, kind : Kinds, id : Ids, at : 0..MaxTime]

VARIABLES
  be,      \* the DeadStore implementation of this run
  cfg,     \* the configuration spawn_runtime was given
  mt,      \* the maintenance task: "none" (not spawned), "running",
           \* "stopped" (shutdown), "panicked"
  now,     \* now_ms()
  store,   \* the stored letters (InMemoryDeadStore.entries, tx_dead_letter)
  rows,    \* outbox row status per (tenant, id)
  sagas,   \* saga state per id (InMemorySagaStore.items, tx_saga)
  rp,      \* the operator's replay call in progress
  step     \* history: the name of the last action

vars == <<be, cfg, mt, now, store, rows, sagas, rp, step>>

(* Two's complement reinterpretation of a W-bit value: "as i64".           *)
AsSigned(x) == LET m == x % 2^W IN IF m >= 2^(W-1) THEN m - 2^W ELSE m
InRange(x) == x >= -(2^(W-1)) /\ x < 2^(W-1)

(* Variant: spawn_runtime ignores dead_letter_retention_ms.              *)
RetentionOfDefaultOnly(c) == c.default

(* spawn_runtime: dead_letter_retention_ms.unwrap_or(default_retention_ms). *)
RetentionOf(c) == IF c.cfg = None THEN c.default ELSE c.cfg

Key(l) == <<l.kind, l.id>>

(* InMemoryDeadStore::push inserts under (kind, id), replacing the letter *)
(* of any tenant with that key.                                            *)
MemPush(S, l) == {x \in S : Key(x) # Key(l)} \cup {l}

(* SurrealDeadStore::push: UPSERT of the record id made of tenant, kind    *)
(* and id (dead_doc_from_letter), so letters of two tenants coexist.       *)
SurrealPush(S, l) == {x \in S : <<x.tenant, Key(x)>> # <<l.tenant, Key(l)>>} \cup {l}

Push(S, l) == IF be = "memory" THEN MemPush(S, l) ELSE SurrealPush(S, l)

(* get(reference): memory, the entry under (kind, id); SurrealDB,          *)
(* SELECT_DEAD_BY_REFERENCE, any one row with that kind and id (LIMIT 1,   *)
(* no tenant in the WHERE clause).                                         *)
Get(S, k, i) == {x \in S : Key(x) = <<k, i>>}

(* remove(reference): memory removes the entry under (kind, id);           *)
(* DELETE_DEAD_BY_REFERENCE deletes the rows of every tenant.  Both drop   *)
(* every letter with the key, since memory holds at most one.              *)
Remove(S, k, i) == {x \in S : Key(x) # <<k, i>>}

(* Variant: the purge filter also takes letters at exactly before.       *)
PurgeKeepInclusive(S, t, before) == {x \in S : ~(x.tenant = t /\ x.at <= before)}

(* purge_older_than(tenant, before): memory collects the keys of the       *)
(* tenant's letters with occurred_at < before and removes them under one   *)
(* write lock; PURGE_DEAD is the same filter as one DELETE.                *)
PurgeKeep(S, t, before) == {x \in S : ~(x.tenant = t /\ x.at < before)}

(* OutboxStore::revive(tenant, id, now): the row of that tenant and id    *)
(* becomes Pending with attempts 0 (REVIVE_UPDATE in SurrealDB).           *)
Revive(R, t, i) == [R EXCEPT ![<<t, i>>] = "Pending"]

(* SagaStore::save of the letter's saga with state Running (an UPDATE ...  *)
(* CONTENT of its record in SurrealDB).                                    *)
SaveRunning(G, i) == [G EXCEPT ![i] = "Running"]

-----------------------------------------------------------------------------
Init ==
  /\ be \in Backends
  /\ cfg \in Configs
  /\ mt = IF RetentionOf(cfg) > 0 THEN "running" ELSE "none"
  /\ now = 0
  /\ store = {}
  /\ rows = [r \in Tenants \X Ids |-> "Pending"]
  /\ sagas = [i \in Ids |-> "Running"]
  /\ rp = [pc |-> "idle", letter |-> None]
  /\ step = "init"

(* Dispatcher::tick dead-letter branch: store.dead_letter marks the row    *)
(* Dead and dead.push stores build_dead_letter (kind Outbox, now).         *)
DeadLetterOutbox(t, i) ==
  /\ rows[<<t, i>>] = "Pending"
  /\ rows' = [rows EXCEPT ![<<t, i>>] = "Dead"]
  /\ store' = Push(store, [tenant |-> t, kind |-> "Outbox", id |-> i, at |-> now])
  /\ step' = "dead_letter"
  /\ UNCHANGED <<be, cfg, mt, now, sagas, rp>>

(* A client pushes the letter of a failed saga (DeadLetterPayload::Saga).  *)
DeadLetterSaga(i) ==
  /\ sagas[i] = "Running"
  /\ sagas' = [sagas EXCEPT ![i] = "Failed"]
  /\ store' = Push(store, [tenant |-> SagaTenant[i], kind |-> "Saga", id |-> i, at |-> now])
  /\ step' = "dead_letter"
  /\ UNCHANGED <<be, cfg, mt, now, rows, rp>>

(* replay(reference), first await: get the letter; none is an Err and the  *)
(* call ends.                                                              *)
ReplayGet(k, i) ==
  /\ rp.pc = "idle"
  /\ \/ /\ Get(store, k, i) = {}
        /\ UNCHANGED rp
     \/ \E l \in Get(store, k, i) : rp' = [pc |-> "got", letter |-> l]
  /\ step' = "replay"
  /\ UNCHANGED <<be, cfg, mt, now, store, rows, sagas>>

(* replay, second await: an outbox letter revives the row of the letter's  *)
(* tenant (Pending, attempts 0); a saga letter saves its saga as Running.  *)
ReplayApply ==
  /\ rp.pc = "got"
  /\ LET l == rp.letter IN
       IF l.kind = "Outbox"
       THEN /\ rows' = Revive(rows, l.tenant, l.id)
            /\ UNCHANGED sagas
       ELSE /\ sagas' = SaveRunning(sagas, l.id)
            /\ UNCHANGED rows
  /\ rp' = [rp EXCEPT !.pc = "applied"]
  /\ step' = "replay"
  /\ UNCHANGED <<be, cfg, mt, now, store>>

(* replay, last await: self.remove(&reference).                            *)
ReplayRemove ==
  /\ rp.pc = "applied"
  /\ store' = Remove(store, rp.letter.kind, rp.letter.id)
  /\ rp' = [pc |-> "idle", letter |-> None]
  /\ step' = "replay"
  /\ UNCHANGED <<be, cfg, mt, now, rows, sagas>>

(* One turn of spawn_dead_letter_maintenance's loop: before = now -        *)
(* retention_ms as i64, then purge_older_than(tenant, before); its Err is  *)
(* logged.  An overflowing subtraction panics the task in a debug build.   *)
MaintTick ==
  /\ mt = "running"
  /\ LET r    == AsSigned(RetentionOf(cfg))
         diff == now - r
     IN  IF ~InRange(diff) /\ OverflowChecks
         THEN /\ mt' = "panicked"
              /\ UNCHANGED store
         ELSE /\ store' = PurgeKeep(store, MaintTenant, AsSigned(diff))
              /\ UNCHANGED mt
  /\ step' = "purge"
  /\ UNCHANGED <<be, cfg, now, rows, sagas, rp>>

(* TxRuntimeHandles::shutdown: the stop signal ends the loop.              *)
Shutdown ==
  /\ mt = "running"
  /\ mt' = "stopped"
  /\ step' = "shutdown"
  /\ UNCHANGED <<be, cfg, now, store, rows, sagas, rp>>

Tick ==
  /\ now < MaxTime
  /\ now' = now + 1
  /\ step' = "tick"
  /\ UNCHANGED <<be, cfg, mt, store, rows, sagas, rp>>

Next ==
  \/ \E t \in Tenants, i \in Ids : DeadLetterOutbox(t, i)
  \/ \E i \in Ids : DeadLetterSaga(i)
  \/ \E k \in Kinds, i \in Ids : ReplayGet(k, i)
  \/ ReplayApply \/ ReplayRemove
  \/ MaintTick \/ Shutdown \/ Tick

(* The maintenance loop ticks every dead_letter_interval_ms until it is    *)
(* stopped, time passes, and a replay call runs to its end.  Producers,   *)
(* replays and shutdown are choices of the clients and are not fair.      *)
Fairness == WF_vars(MaintTick) /\ WF_vars(Tick) /\ WF_vars(ReplayApply) /\ WF_vars(ReplayRemove)

Spec == Init /\ [][Next]_vars /\ Fairness

-----------------------------------------------------------------------------
(* Properties.                                                             *)

TypeOK ==
  /\ be \in Backends /\ cfg \in Configs
  /\ mt \in {"none", "running", "stopped", "panicked"}
  /\ now \in 0..MaxTime /\ store \subseteq Letters
  /\ rows \in [Tenants \X Ids -> {"Pending", "Dead"}]
  /\ sagas \in [Ids -> {"Running", "Failed"}]
  /\ rp \in [pc : {"idle", "got", "applied"}, letter : Letters \cup {None}]

(* The retention the configuration asks for (spec 5, WorkerConfig): the   *)
(* configured dead_letter_retention_ms, else the runtime's default.       *)
ConfiguredRetention == IF cfg.cfg = None THEN cfg.default ELSE cfg.cfg

(* Spec 5 (worker): the maintenance ticker purges with                     *)
(* purge_older_than(now - retention_ms), so a purge removes only letters   *)
(* of its tenant that are more than retention_ms old; this is what the     *)
(* u64 to i64 conversion and the i64 subtraction in                        *)
(* spawn_dead_letter_maintenance must preserve.                            *)
PurgeRespectsRetention ==
  [][step' = "purge" =>
       \A l \in store \ store' :
         l.tenant = MaintTenant /\ now - l.at > ConfiguredRetention]_vars

(* While the maintenance worker runs, every letter of its tenant that is   *)
(* older than the retention is eventually purged (or replayed away).       *)
EventuallyPurged ==
  \A l \in Letters :
    (l \in store /\ l.tenant = MaintTenant /\ now - l.at > ConfiguredRetention /\ ConfiguredRetention > 0)
      ~> (l \notin store \/ mt = "stopped")

=============================================================================
