------------------------------ MODULE ToolInvoke ------------------------------
(***************************************************************************)
(* sb-tools InvokerImpl::invoke (invoker.rs) composed with the sb-sandbox  *)
(* Sandbox::execute it calls once per planned op (manager.rs), for         *)
(* concurrent calls of one tool.  The invoker keeps an idempotency cache   *)
(* of InvokeResults (InMemoryIdempotencyStore, keyed by the call's raw     *)
(* idempotency key) and, for a Serial tool, a count per (tool, tenant) in  *)
(* its concurrency map (ConcurrencyGuard).  The sandbox reserves budget,   *)
(* emits begin evidence, runs the executor, and settles the reservation    *)
(* and emits end evidence.                                                 *)
(*                                                                         *)
(* A result is the call that produced it (InvokeResult::ok carries the     *)
(* call_id as evidence_ref).                                               *)
(***************************************************************************)
EXTENDS Naturals, FiniteSets

CONSTANTS
  Calls,       \* concurrent ToolCalls of the one tool
  Tenants,
  CallTenant,  \* ToolCall.tenant
  CallKey,     \* ToolCall.idempotency_key, NoKey when absent
  Keys,
  NoKey,
  Keyed,       \* manifest.idempotency = Keyed
  Serial,      \* manifest.concurrency = Serial
  NOps,        \* plan.planned_ops().len()
  SchemaCheck, \* built with the schema-json feature: validate_output may fail
  Nil

ASSUME /\ CallTenant \in [Calls -> Tenants]
       /\ CallKey \in [Calls -> Keys \cup {NoKey}]
       /\ Keyed \in BOOLEAN /\ Serial \in BOOLEAN /\ SchemaCheck \in BOOLEAN
       /\ NOps \in Nat \ {0}

VARIABLES
  cache,    \* InMemoryIdempotencyStore: key -> the call whose result it holds
  conc,     \* InvokerImpl.concurrency: tenant -> count (0 when absent)
  pc,       \* per call: where invoke is
  op,       \* per call: ops that returned ok so far
  got,      \* per call: the cached result a hit returned
  begins,   \* per call: BeginEvidence events the sandbox emitted
  ends,     \* per call: EndEvidence events the sandbox emitted
  open      \* per call: meter reservations neither committed nor rolled back

vars == <<cache, conc, pc, op, got, begins, ends, open>>

(* The key invoke looks up and stores under: only for a Keyed tool.        *)
IdemKey(c) == IF Keyed THEN CallKey[c] ELSE NoKey

(* The calls holding a ConcurrencyGuard (from the lock to the return).     *)
Holding(c) == pc[c] \in {"op", "run", "done", "failed"}

(* ConcurrencyGuard::lock: the entry for (tool, tenant) goes up by one.    *)
Lock(t) == [conc EXCEPT ![t] = @ + 1]

(* Variant: the entry removed while a second holder still counts on it.  *)
ReleaseEarly(t) == [conc EXCEPT ![t] = IF @ <= 2 THEN 0 ELSE @ - 1]

(* ConcurrencyGuard::drop: an entry at 1 or less is removed, otherwise it  *)
(* goes down by one.                                                       *)
Release(t) == [conc EXCEPT ![t] = IF @ <= 1 THEN 0 ELSE @ - 1]

(* invoke returns: a Serial call drops its guard.                          *)
Return(c) == conc' = IF Serial THEN Release(CallTenant[c]) ELSE conc

-----------------------------------------------------------------------------
Init ==
  /\ cache = [k \in Keys |-> Nil]
  /\ conc = [t \in Tenants |-> 0]
  /\ pc = [c \in Calls |-> "idle"]
  /\ op = [c \in Calls |-> 0]
  /\ got = [c \in Calls |-> Nil]
  /\ begins = [c \in Calls |-> 0]
  /\ ends = [c \in Calls |-> 0]
  /\ open = [c \in Calls |-> 0]

(* ToolPreflight::preflight, which the invoke request's plan comes from:  *)
(* a disabled or unknown tool, a Keyed tool called without a key, an LLM   *)
(* call of a hidden tool, bad args, missing consent, an authz deny, an     *)
(* empty plan or a profile the guard rejects all end the call here.        *)
Preflight(c) ==
  /\ pc[c] = "idle"
  /\ \/ /\ ~(Keyed /\ CallKey[c] = NoKey)
        /\ pc' = [pc EXCEPT ![c] = "planned"]
     \/ pc' = [pc EXCEPT ![c] = "denied"]
  /\ UNCHANGED <<cache, conc, op, got, begins, ends, open>>

(* invoke up to the first sandbox call: a cached result for the key is     *)
(* returned at once; otherwise a Serial tool's guard is locked (it only    *)
(* counts, it never waits) and the begin event is emitted.                 *)
Invoke(c) ==
  /\ pc[c] = "planned"
  /\ IF IdemKey(c) # NoKey /\ cache[IdemKey(c)] # Nil
     THEN /\ pc' = [pc EXCEPT ![c] = "hit"]
          /\ got' = [got EXCEPT ![c] = cache[IdemKey(c)]]
          /\ UNCHANGED conc
     ELSE /\ pc' = [pc EXCEPT ![c] = "op"]
          /\ conc' = IF Serial THEN Lock(CallTenant[c]) ELSE conc
          /\ UNCHANGED got
  /\ UNCHANGED <<cache, op, begins, ends, open>>

(* Sandbox::execute up to BeginEvidence: grant expiry, revocation, profile, *)
(* capability, consent and guard checks may fail with Err before anything  *)
(* is reserved (the invoker then stops with status Error); otherwise       *)
(* meter.reserve and the begin event.                                      *)
SandboxBegin(c) ==
  /\ pc[c] = "op"
  /\ \/ /\ pc' = [pc EXCEPT ![c] = "run"]
        /\ begins' = [begins EXCEPT ![c] = @ + 1]
        /\ open' = [open EXCEPT ![c] = @ + 1]
     \/ /\ pc' = [pc EXCEPT ![c] = "failed"]
        /\ UNCHANGED <<begins, open>>
  /\ UNCHANGED <<cache, conc, op, got, ends>>

(* executor.execute and the rest of Sandbox::execute, then the invoker's   *)
(* loop body, for a plan whose loop runs lastOp ops.  Outcomes: executor   *)
(* Err (rollback, end event, a failure result); usage over the profile     *)
(* limits (Err from ensure_usage_within_limits: no commit, no rollback, no *)
(* end event); ExecResult with ok = false (commit, end event); ok (commit, *)
(* end event, next op or the end of the loop).                             *)
RunOp(c, lastOp) ==
  /\ pc[c] = "run"
  /\ \E r \in {"exec_err", "over_limit", "not_ok", "ok"} :
       /\ open' = IF r = "over_limit" THEN open ELSE [open EXCEPT ![c] = @ - 1]
       /\ ends' = IF r = "over_limit" THEN ends ELSE [ends EXCEPT ![c] = @ + 1]
       /\ op' = IF r = "ok" THEN [op EXCEPT ![c] = @ + 1] ELSE op
       /\ pc' = [pc EXCEPT ![c] = CASE r # "ok"          -> "failed"
                                    [] op[c] + 1 = lastOp -> "done"
                                    [] OTHER              -> "op"]
  /\ UNCHANGED <<cache, conc, got, begins>>

(* Variant: the op loop runs one op past the plan.                         *)
SandboxRunExtraOp(c) == RunOp(c, NOps + 1)

SandboxRun(c) == RunOp(c, NOps)

(* After the loop with status Ok: obligations (they never fail) and        *)
(* validate_output; on success the result is put under the key before the  *)
(* guard drops.                                                            *)
FinishOk(c) ==
  /\ pc[c] = "done"
  /\ \E valid \in IF SchemaCheck THEN BOOLEAN ELSE {TRUE} :
       IF valid
       THEN /\ pc' = [pc EXCEPT ![c] = "ok"]
            /\ cache' = IF IdemKey(c) # NoKey THEN [cache EXCEPT ![IdemKey(c)] = c] ELSE cache
       ELSE /\ pc' = [pc EXCEPT ![c] = "err"]
            /\ UNCHANGED cache
  /\ Return(c)
  /\ UNCHANGED <<op, got, begins, ends, open>>

(* Variant: the failure result stored under the key as well.              *)
FinishFailedCached(c) ==
  /\ pc[c] = "failed"
  /\ pc' = [pc EXCEPT ![c] = "err"]
  /\ cache' = IF IdemKey(c) # NoKey THEN [cache EXCEPT ![IdemKey(c)] = c] ELSE cache
  /\ Return(c)
  /\ UNCHANGED <<op, got, begins, ends, open>>

(* After a failed op: the end event and Err; nothing is cached.            *)
FinishFailed(c) ==
  /\ pc[c] = "failed"
  /\ pc' = [pc EXCEPT ![c] = "err"]
  /\ Return(c)
  /\ UNCHANGED <<cache, op, got, begins, ends, open>>

Next ==
  \E c \in Calls :
    \/ Preflight(c) \/ Invoke(c) \/ SandboxBegin(c) \/ SandboxRun(c) \/ FinishOk(c) \/ FinishFailed(c)

Spec == Init /\ [][Next]_vars

-----------------------------------------------------------------------------
(* Properties.                                                             *)

TypeOK ==
  /\ cache \in [Keys -> Calls \cup {Nil}]
  /\ conc \in [Tenants -> 0..Cardinality(Calls)]
  /\ pc \in [Calls -> {"idle", "planned", "denied", "hit", "op", "run", "done", "failed", "ok", "err"}]
  /\ op \in [Calls -> 0..NOps] /\ got \in [Calls -> Calls \cup {Nil}]
  /\ begins \in [Calls -> 0..NOps] /\ ends \in [Calls -> 0..NOps]
  /\ open \in [Calls -> 0..1]

(* Spec 4.4: an idempotent result is persisted only on Ok, so a result in  *)
(* the cache comes from a call with that key whose every planned op ran    *)
(* ok and whose output validated (failures never poison the cache).        *)
CachedIsComplete ==
  \A k \in Keys : cache[k] # Nil =>
     /\ IdemKey(cache[k]) = k
     /\ op[cache[k]] = NOps /\ pc[cache[k]] = "ok"

(* The concurrency map counts exactly the Serial calls of each tenant      *)
(* between ConcurrencyGuard::lock and its drop, however the calls end.     *)
GuardCountAccurate ==
  Serial => \A t \in Tenants :
    conc[t] = Cardinality({c \in Calls : CallTenant[c] = t /\ Holding(c)})

(* Spec 4.4: a Serial tool's calls hold a per-(tool_id, tenant)            *)
(* mutual-exclusion guard while they run their ops.                        *)
SerialExclusive ==
  Serial => \A c, d \in Calls :
    c # d /\ CallTenant[c] = CallTenant[d] => ~(Holding(c) /\ Holding(d))

(* Spec 4.3: every execution that emitted BeginEvidence emits EndEvidence  *)
(* and commits or rolls back its reservation before invoke returns.        *)
EvidencePaired ==
  \A c \in Calls : pc[c] \in {"ok", "err"} => begins[c] = ends[c] /\ open[c] = 0

(* A cached result is handed only to a call of the tenant it was computed  *)
(* for.                                                                    *)
ReplaySameTenant ==
  \A c \in Calls : pc[c] = "hit" => CallTenant[got[c]] = CallTenant[c]

=============================================================================
