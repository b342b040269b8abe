------------------------------- MODULE Outbox -------------------------------
(***************************************************************************)
(* The transactional outbox of sb-tx: the in-memory OutboxStore            *)
(* (memory/outbox_store.rs, memory/mod.rs) or the SurrealDB one            *)
(* (surreal/store.rs), the Dispatcher tick                                 *)
(* (outbox.rs) run by several dispatcher workers, each for one tenant, the *)
(* SimpleBudgetGuard in-flight counter and dispatch window (qos.rs), the  *)
(* dead-letter store                                                       *)
(* (memory/dead_store.rs) and the replay of an outbox dead letter.         *)
(*                                                                         *)
(* Time is kept relative: a message's not_before and lease_until are held  *)
(* as the milliseconds that remain until they pass, and Tick lets one      *)
(* unit of time elapse.  "due = 0" is "not_before <= now" and              *)
(* "lease = 0" is "lease_until <= now".                                    *)
(***************************************************************************)
EXTENDS Naturals, Sequences, FiniteSets, SequencesExt

CONSTANTS
  Msgs,              \* outbox messages, each a (tenant, id) row of the store
  Tenants,
  TenantOf,          \* [Msgs -> Tenants], OutboxMessage.tenant
  MsgId,             \* OutboxMessage.id: messages of two tenants may share one
  Workers,           \* dispatcher worker ids (Dispatcher.worker_id)
  WorkerTenant,      \* [Workers -> Tenants], the tenant a worker's ticks serve
  NoKey,             \* dispatch_key = None
  DispatchKey,       \* [Msgs -> keys \cup {NoKey}], NewOutboxMessage.dispatch_key
  ScheduleDelays,    \* offsets of NewOutboxMessage.not_before from now
  MaxAttempts,       \* Dispatcher.max_attempts
  LeaseMs,           \* Dispatcher.lease_ms
  Batch,             \* Dispatcher.batch
  GroupByKey,        \* config.group_by_dispatch_key /\ Dispatcher.group_by_dispatch_key
  BaseMs, Factor, JitterPct, CapMs,   \* RetryPolicy used as BackoffPolicy
  MaxInflight,       \* BudgetConfig.max_inflight, or NoLimit (None)
  WindowLimit,       \* BudgetConfig.max_dispatch_per_window, or NoLimit (None)
  WindowMs,          \* max(window_seconds, 1) * 1000, in the model's time units
  NoLimit,
  MaxReplays,        \* bound on operator replays of dead letters
  MaxStoreFaults,    \* how many store calls of ticks may return Err
  LeaseOutlivesTick, \* environment: a tick finishes before its leases expire
  Backend,           \* "memory" or "surreal": the OutboxStore the dispatcher uses
  Nil

ASSUME /\ MaxAttempts \in Nat \ {0}
       /\ LeaseMs \in Nat \ {0}
       /\ Batch \in Nat
       /\ BaseMs \in Nat \ {0} /\ Factor \in Nat \ {0} /\ CapMs >= BaseMs
       /\ JitterPct \in 0..100
       /\ ScheduleDelays \subseteq Nat
       /\ GroupByKey \in BOOLEAN /\ MaxStoreFaults \in Nat
       /\ LeaseOutlivesTick \in BOOLEAN
       /\ Backend \in {"memory", "surreal"}
       /\ Backend = "surreal" => LeaseOutlivesTick
       /\ WindowMs \in Nat \ {0}

VARIABLES
  outbox,     \* InMemoryOutboxStore.messages; "Absent" = no entry yet
  created,    \* ids in enqueue (created_at) order
  wk,         \* per worker: where its tick is, the leased batch it holds and,
              \* in a surreal lease_batch, the candidates left and keys seen
  inflight,   \* per tenant, SimpleBudgetGuard TenantBudget.inflight
  win,        \* per tenant, TenantBudget's window: age (now - window_start_ms,
              \* capped at WindowMs) and window_count
  dead,       \* InMemoryDeadStore.entries (kind Outbox): the messages whose
              \* letter is stored; the map's key is (kind, id), no tenant
  op,         \* the operator's DeadStore.replay call in progress
  replays,    \* number of replays started (bounded by MaxReplays)
  delivered,  \* history: ids whose OutboxTransport.send returned Ok
  faults      \* store calls that failed so far (bounded by MaxStoreFaults)

vars == <<outbox, created, wk, inflight, win, dead, op, replays, delivered, faults>>

Statuses == {"Absent", "Pending", "Leased", "Done", "Dead"}
Terminal == {"Done", "Dead"}
Busy     == {"leasing", "next", "sending", "sent", "pushing"}

(* build_budget_guard chose SimpleBudgetGuard: a limit of either kind.    *)
Tracked == MaxInflight # NoLimit \/ WindowLimit # NoLimit

Max2(a, b) == IF a >= b THEN a ELSE b
Min2(a, b) == IF a <= b THEN a ELSE b

-----------------------------------------------------------------------------
(* RetryPolicy::next_after: the delay before the next attempt, for every   *)
(* value the jitter can take; the f64 delay is truncated by "as i64".      *)
Capped(a) == Min2(BaseMs * Factor ^ (a - 1), CapMs)
NextDelays(a) ==
  LET lo == Max2(BaseMs * 100, Capped(a) * (100 - JitterPct))
      hi == Min2(CapMs * 100, Capped(a) * (100 + JitterPct))
  IN  (lo \div 100) .. (hi \div 100)

(* build_outbox_message: a new message is Pending, attempts 0, no lease.   *)
NewMessage(d) ==
  [status |-> "Pending", attempts |-> 0, due |-> d, lease |-> Nil, worker |-> Nil]

(* Variants of the row filter, each a plausible slip in select_messages:  *)
(* the owner test dropped, the terminal test dropped, any lease taken as  *)
(* live whatever its expiry.                                              *)
EligibleAnyOwner(m, w) ==
  /\ TenantOf[m] = WorkerTenant[w]
  /\ outbox[m].status \in {"Pending", "Leased"}
  /\ outbox[m].due = 0
EligibleWithTerminal(m, w) ==
  /\ TenantOf[m] = WorkerTenant[w]
  /\ outbox[m].status # "Absent"
  /\ ~(outbox[m].lease # Nil /\ outbox[m].lease > 0 /\ outbox[m].worker # w)
  /\ outbox[m].due = 0
EligibleUnleasedOnly(m, w) ==
  /\ TenantOf[m] = WorkerTenant[w]
  /\ outbox[m].status \in {"Pending", "Leased"}
  /\ outbox[m].lease = Nil
  /\ outbox[m].due = 0

(* The row filter of select_messages for worker w.                          *)
Eligible(m, w) ==
  /\ TenantOf[m] = WorkerTenant[w]
  /\ outbox[m].status \in {"Pending", "Leased"}
  /\ ~(outbox[m].lease # Nil /\ outbox[m].lease > 0 /\ outbox[m].worker # w)
  /\ outbox[m].due = 0

(* With grouping, a message is skipped when its key was already seen.      *)
KeySeen(m, S) ==
  /\ GroupByKey
  /\ DispatchKey[m] # NoKey
  /\ \E s \in S : DispatchKey[s] = DispatchKey[m]

(* select_messages walks the HashMap in an unspecified order, pushes a     *)
(* message and only then stops at "selected.len() >= batch": the sets it   *)
(* can return are the key-distinct sets of eligible messages that are full *)
(* or leave out only messages whose key they already hold.                 *)
Selections(w) ==
  LET E   == {m \in Msgs : Eligible(m, w)}
      Cap == Max2(Batch, 1)
  IN  {S \in SUBSET E :
         /\ Cardinality(S) <= Cap
         /\ \A m \in S : ~KeySeen(m, S \ {m})
         /\ \/ Cardinality(S) = Cap
            \/ \A e \in E \ S : KeySeen(e, S)}

Current(w) == wk[w].batch[1]

(* A worker between ticks.                                                *)
Idle == [pc |-> "idle", batch |-> <<>>, ok |-> FALSE, cands |-> <<>>, seen |-> {}]

(* Done with the head message: next one, or the tick is over.              *)
Pop(w) ==
  wk' = [wk EXCEPT ![w].pc    = IF Len(wk[w].batch) = 1 THEN "idle" ELSE "next",
                   ![w].batch = Tail(wk[w].batch),
                   ![w].ok    = FALSE]

(* Variant: the tick state is left half reset on an error.                *)
AbortTickKeepBatch(w) == wk' = [wk EXCEPT ![w].pc = "idle"]

(* A "?" in the tick: the error ends the tick, the rest of the batch is    *)
(* dropped and stays Leased in the store.                                  *)
AbortTick(w) == wk' = [wk EXCEPT ![w] = Idle]

(* SimpleBudgetGuard::on_dispatch_result.                                  *)
DispatchResult(w) ==
  LET t == WorkerTenant[w]
  IN  inflight' = IF Tracked /\ inflight[t] > 0 THEN [inflight EXCEPT ![t] = @ - 1]
                  ELSE inflight

-----------------------------------------------------------------------------
Init ==
  /\ outbox = [m \in Msgs |-> [status |-> "Absent", attempts |-> 0, due |-> 0,
                               lease |-> Nil, worker |-> Nil]]
  /\ created = <<>>
  /\ wk = [w \in Workers |-> Idle]
  /\ inflight = [t \in Tenants |-> 0]
  /\ win = [t \in Tenants |-> [age |-> WindowMs, count |-> 0]]
  /\ dead = {}
  /\ op = [pc |-> "idle", msg |-> Nil]
  /\ replays = 0
  /\ delivered = <<>>
  /\ faults = 0

(* Variant: enqueue inserts without the contains_key conflict check.     *)
EnqueueUpsert(m) ==
  /\ \E d \in ScheduleDelays : outbox' = [outbox EXCEPT ![m] = NewMessage(d)]
  /\ created' = Append(created, m)
  /\ UNCHANGED <<wk, inflight, win, dead, op, replays, delivered, faults>>

(* OutboxStore::enqueue (InMemoryTxStore and InMemoryOutboxStore): a       *)
(* duplicate (tenant, id) is a conflict; on_enqueue of the guard is Ok.    *)
Enqueue(m) ==
  /\ outbox[m].status = "Absent"
  /\ \E d \in ScheduleDelays : outbox' = [outbox EXCEPT ![m] = NewMessage(d)]
  /\ created' = Append(created, m)
  /\ UNCHANGED <<wk, inflight, win, dead, op, replays, delivered, faults>>

(* Dispatcher::tick, first await: lease_batch marks the selection Leased   *)
(* by w until now + lease_ms and returns clones (with their attempts).     *)
LeaseBatch(w) ==
  /\ Backend = "memory"
  /\ wk[w].pc = "idle"
  /\ \E S \in Selections(w) : \E order \in SetToSeqs(S) :
       /\ outbox' = [m \in Msgs |->
                       IF m \in S
                       THEN [outbox[m] EXCEPT !.status = "Leased", !.worker = w,
                                              !.lease = LeaseMs]
                       ELSE outbox[m]]
       /\ wk' = [wk EXCEPT ![w] =
                   [pc    |-> IF S = {} THEN "idle" ELSE "next",
                    batch |-> [i \in 1..Len(order) |->
                                 [id |-> order[i], attempts |-> outbox[order[i]].attempts]],
                    ok    |-> FALSE, cands |-> <<>>, seen |-> {}]]
  /\ UNCHANGED <<created, inflight, win, dead, op, replays, delivered, faults>>

(* SurrealOutboxStore::lease_batch, first query: select_candidates with    *)
(* LIMIT max(batch * 4, batch).  Its filter is Eligible; its ORDER BY      *)
(* not_before, created_at is abstracted (time is kept relative), so the    *)
(* candidates may come in any order.                                       *)
SelectCandidates(w) ==
  /\ Backend = "surreal"
  /\ wk[w].pc = "idle"
  /\ \E order \in SetToSeqs({m \in Msgs : Eligible(m, w)}) :
       LET c == SubSeq(order, 1, Min2(Len(order), Max2(Batch * 4, Batch)))
       IN  wk' = [wk EXCEPT ![w] = [Idle EXCEPT !.pc = IF c = <<>> THEN "idle" ELSE "leasing",
                                                !.cands = c]]
  /\ UNCHANGED <<outbox, created, inflight, win, dead, op, replays, delivered, faults>>

(* One turn of lease_batch's loop over the candidates: with grouping, a    *)
(* key already seen is skipped (continue); otherwise the key is marked     *)
(* seen and try_lease runs LEASE_UPDATE, which leases the row only if,     *)
(* when recheck holds, its WHERE clause (the filter again) still does;     *)
(* the loop stops once batch rows are leased or the candidates run out.   *)
TryLeaseWith(w, recheck) ==
  /\ wk[w].pc = "leasing"
  /\ LET m    == Head(wk[w].cands)
         k    == DispatchKey[m]
         skip == GroupByKey /\ k # NoKey /\ k \in wk[w].seen
         won  == ~skip /\ (recheck => Eligible(m, w))
         b    == IF won THEN Append(wk[w].batch, [id |-> m, attempts |-> outbox[m].attempts])
                 ELSE wk[w].batch
         stop == Tail(wk[w].cands) = <<>> \/ (~skip /\ Len(b) >= Batch)
     IN  /\ outbox' = IF won
                      THEN [outbox EXCEPT ![m] = [@ EXCEPT !.status = "Leased", !.worker = w,
                                                            !.lease = LeaseMs]]
                      ELSE outbox
         /\ wk' = [wk EXCEPT ![w] =
                     IF stop
                     THEN [Idle EXCEPT !.pc = IF b = <<>> THEN "idle" ELSE "next", !.batch = b]
                     ELSE [@ EXCEPT !.batch = b, !.cands = Tail(wk[w].cands),
                                    !.seen = IF GroupByKey /\ k # NoKey THEN @ \cup {k} ELSE @]]
  /\ UNCHANGED <<created, inflight, win, dead, op, replays, delivered, faults>>

(* Variant: LEASE_UPDATE without its WHERE clause.                         *)
TryLeaseBlind(w) == TryLeaseWith(w, FALSE)

TryLease(w) == TryLeaseWith(w, TRUE)

(* on_dispatch_attempt, max_inflight check: no change when it fails.      *)
InflightFull(t) == MaxInflight # NoLimit /\ inflight[t] >= MaxInflight

(* The window check starts a new window (start = now, count 0) once the   *)
(* current one is window_ms old, before it compares the count.           *)
Windowed == WindowLimit # NoLimit
(* Variant: the window is never restarted.                                *)
WindowNowNoReset(t) == win[t]

WindowNow(t) == IF Windowed /\ win[t].age >= WindowMs THEN [age |-> 0, count |-> 0] ELSE win[t]
WindowFull(t) == Windowed /\ WindowNow(t).count >= WindowLimit

(* Variant: inflight is raised before the window check rejects.          *)
AttemptRejectedCounted(w) ==
  /\ wk[w].pc = "next"
  /\ LET t == WorkerTenant[w]
     IN  /\ InflightFull(t) \/ WindowFull(t)
         /\ win' = IF InflightFull(t) THEN win ELSE [win EXCEPT ![t] = WindowNow(t)]
         /\ inflight' = IF InflightFull(t) THEN inflight ELSE [inflight EXCEPT ![t] = @ + 1]
  /\ AbortTick(w)
  /\ UNCHANGED <<outbox, created, dead, op, replays, delivered, faults>>

(* qos.on_dispatch_attempt(...)?: over max_inflight, or over the window's *)
(* limit after any reset, the tick returns Err.                           *)
AttemptRejected(w) ==
  /\ wk[w].pc = "next"
  /\ LET t == WorkerTenant[w]
     IN  /\ InflightFull(t) \/ WindowFull(t)
         /\ win' = IF InflightFull(t) THEN win ELSE [win EXCEPT ![t] = WindowNow(t)]
  /\ AbortTick(w)
  /\ UNCHANGED <<outbox, created, inflight, dead, op, replays, delivered, faults>>

(* Admitted: the window counts the attempt and inflight goes up.          *)
AttemptAdmitted(w) ==
  /\ wk[w].pc = "next"
  /\ LET t == WorkerTenant[w]
     IN  /\ ~InflightFull(t) /\ ~WindowFull(t)
         /\ win' = IF Windowed THEN [win EXCEPT ![t] = [WindowNow(t) EXCEPT !.count = @ + 1]]
                   ELSE win
         /\ inflight' = IF Tracked THEN [inflight EXCEPT ![t] = @ + 1] ELSE inflight
  /\ wk' = [wk EXCEPT ![w].pc = "sending"]
  /\ UNCHANGED <<outbox, created, dead, op, replays, delivered, faults>>

(* transport.send(&message).await: Ok or Err.                              *)
Send(w) ==
  /\ wk[w].pc = "sending"
  /\ \E ok \in BOOLEAN :
       /\ wk' = [wk EXCEPT ![w].pc = "sent", ![w].ok = ok]
       /\ delivered' = IF ok THEN Append(delivered, Current(w).id) ELSE delivered
  /\ UNCHANGED <<outbox, created, inflight, win, dead, op, replays, faults>>

(* store.ack_done: Done, lease and worker cleared, whoever holds the row.  *)
AckDone(w) ==
  /\ wk[w].pc = "sent" /\ wk[w].ok
  /\ outbox' = [outbox EXCEPT ![Current(w).id] =
                  [@ EXCEPT !.status = "Done", !.worker = Nil, !.lease = Nil]]
  /\ DispatchResult(w)
  /\ Pop(w)
  /\ UNCHANGED <<win, created, dead, op, replays, delivered, faults>>

(* Variant: the retry branch taken while attempts <= max_attempts.       *)
NackBackoffAtLimit(w) ==
  /\ wk[w].pc = "sent" /\ ~wk[w].ok
  /\ Current(w).attempts + 1 <= MaxAttempts
  /\ \E d \in NextDelays(Current(w).attempts + 1) :
       outbox' = [outbox EXCEPT ![Current(w).id] =
                    [@ EXCEPT !.status = "Pending", !.due = d, !.worker = Nil,
                              !.lease = Nil, !.attempts = @ + 1]]
  /\ DispatchResult(w)
  /\ Pop(w)
  /\ UNCHANGED <<win, created, dead, op, replays, delivered, faults>>

(* store.nack_backoff(next_after(now, attempts)): attempts is the clone's  *)
(* count plus one; the store adds one to the row's own count.              *)
NackBackoff(w) ==
  /\ wk[w].pc = "sent" /\ ~wk[w].ok
  /\ Current(w).attempts + 1 < MaxAttempts
  /\ \E d \in NextDelays(Current(w).attempts + 1) :
       outbox' = [outbox EXCEPT ![Current(w).id] =
                    [@ EXCEPT !.status = "Pending", !.due = d, !.worker = Nil,
                              !.lease = Nil, !.attempts = @ + 1]]
  /\ DispatchResult(w)
  /\ Pop(w)
  /\ UNCHANGED <<win, created, dead, op, replays, delivered, faults>>

(* store.dead_letter: Dead, attempts + 1; the letter is pushed next.       *)
MarkDead(w) ==
  /\ wk[w].pc = "sent" /\ ~wk[w].ok
  /\ Current(w).attempts + 1 >= MaxAttempts
  /\ outbox' = [outbox EXCEPT ![Current(w).id] =
                  [@ EXCEPT !.status = "Dead", !.worker = Nil, !.lease = Nil,
                            !.attempts = @ + 1]]
  /\ wk' = [wk EXCEPT ![w].pc = "pushing"]
  /\ UNCHANGED <<created, inflight, win, dead, op, replays, delivered, faults>>

(* InMemoryDeadStore::key is (kind, id): inserting or removing the letter *)
(* of m drops the letter of any message with m's id, whatever its tenant. *)
WithoutLetter(S, m) == {d \in S : MsgId[d] # MsgId[m]}

(* Variant: the dead-letter branch does not report on_dispatch_result.   *)
PushDeadNoResult(w) ==
  /\ wk[w].pc = "pushing"
  /\ dead' = WithoutLetter(dead, Current(w).id) \cup {Current(w).id}
  /\ Pop(w)
  /\ UNCHANGED <<outbox, created, inflight, win, op, replays, delivered, faults>>

(* dead.push(letter): the entry for (Outbox, id) is inserted or replaced.  *)
PushDead(w) ==
  /\ wk[w].pc = "pushing"
  /\ dead' = WithoutLetter(dead, Current(w).id) \cup {Current(w).id}
  /\ DispatchResult(w)
  /\ Pop(w)
  /\ UNCHANGED <<win, outbox, created, op, replays, delivered, faults>>

(* A store call after send returns Err (a storage error of a durable       *)
(* store): "?" ends the tick before on_dispatch_result.                    *)
StoreFault(w) ==
  /\ faults < MaxStoreFaults
  /\ wk[w].pc \in {"leasing", "sent", "pushing"}
  /\ AbortTick(w)
  /\ faults' = faults + 1
  /\ UNCHANGED <<outbox, created, inflight, win, dead, op, replays, delivered>>

(* DeadStore::replay, first part: read the letter and revive the message   *)
(* (Pending, attempts 0, not_before = now, error, worker, lease cleared).  *)
ReplayRevive(m) ==
  /\ op.pc = "idle"
  /\ m \in dead
  /\ replays < MaxReplays
  /\ outbox' = [outbox EXCEPT ![m] = [@ EXCEPT !.status = "Pending", !.worker = Nil,
                                               !.lease = Nil, !.due = 0, !.attempts = 0]]
  /\ op' = [pc |-> "revived", msg |-> m]
  /\ replays' = replays + 1
  /\ UNCHANGED <<created, wk, inflight, win, dead, delivered, faults>>

(* DeadStore::replay, second part: self.remove(&reference).                *)
ReplayRemove ==
  /\ op.pc = "revived"
  /\ dead' = WithoutLetter(dead, op.msg)
  /\ op' = [pc |-> "idle", msg |-> Nil]
  /\ UNCHANGED <<outbox, created, wk, inflight, win, replays, delivered, faults>>

(* One millisecond passes.  Under LeaseOutlivesTick it never expires a     *)
(* lease of a message still in a running tick's batch, and a surreal       *)
(* lease_batch, whose queries all use the tick's now_ms, runs within it.   *)
Tick ==
  /\ LeaseOutlivesTick =>
       \A w \in Workers : /\ wk[w].pc # "leasing"
                          /\ \A i \in 1..Len(wk[w].batch) :
                               outbox[wk[w].batch[i].id].lease \notin {0, 1}
  /\ outbox' = [m \in Msgs |->
                  [outbox[m] EXCEPT !.due = Max2(@ - 1, 0),
                                    !.lease = IF @ = Nil THEN Nil ELSE Max2(@ - 1, 0)]]
  /\ win' = [t \in Tenants |-> [win[t] EXCEPT !.age = Min2(@ + 1, WindowMs)]]
  /\ UNCHANGED <<created, wk, inflight, dead, op, replays, delivered, faults>>

Worker(w) ==
  \/ LeaseBatch(w) \/ SelectCandidates(w) \/ TryLease(w) \/ AttemptRejected(w) \/ AttemptAdmitted(w) \/ Send(w)
  \/ AckDone(w) \/ NackBackoff(w) \/ MarkDead(w) \/ PushDead(w) \/ StoreFault(w)

Next ==
  \/ \E m \in Msgs : Enqueue(m) \/ ReplayRevive(m)
  \/ \E w \in Workers : Worker(w)
  \/ ReplayRemove
  \/ Tick

(* Every dispatcher worker keeps ticking (spawn_dispatcher_worker loops    *)
(* until stopped), time passes, and a started replay call completes.       *)
(* Enqueue and starting a replay are client choices and are not fair.      *)
Fairness ==
  /\ \A w \in Workers : WF_vars(Worker(w))
  /\ WF_vars(Tick)
  /\ WF_vars(ReplayRemove)

Spec == Init /\ [][Next]_vars /\ Fairness

-----------------------------------------------------------------------------
(* Properties.                                                             *)

TypeOK ==
  /\ outbox \in [Msgs -> [status : Statuses, attempts : Nat, due : Nat,
                          lease : Nat \cup {Nil}, worker : Workers \cup {Nil}]]
  /\ created \in Seq(Msgs)
  /\ \A w \in Workers :
       /\ wk[w].pc \in {"idle"} \cup Busy
       /\ wk[w].batch \in Seq([id : Msgs, attempts : Nat])
       /\ wk[w].cands \in Seq(Msgs)
       /\ wk[w].seen \subseteq {DispatchKey[m] : m \in Msgs}
       /\ (wk[w].pc = "idle") = (wk[w].batch = <<>>)
  /\ inflight \in [Tenants -> Nat]
  /\ win \in [Tenants -> [age : 0..WindowMs, count : Nat]]
  /\ dead \subseteq Msgs
  /\ op \in [pc : {"idle", "revived"}, msg : Msgs \cup {Nil}]
  /\ delivered \in Seq(Msgs)

(* Spec 8, invariant 7: a message that reached Done or Dead was attempted  *)
(* at most max_attempts times.  The Dispatcher decides on the attempts of  *)
(* the clone lease_batch returned; the store adds one to the row.          *)
AttemptsBounded ==
  \A m \in Msgs : outbox[m].status \in Terminal => outbox[m].attempts <= MaxAttempts

(* A lease is exclusive: no message is in the unprocessed batches of two   *)
(* dispatcher workers at once (what lease_until/worker in select_messages  *)
(* are for).                                                               *)
LeaseExclusive ==
  \A v, w \in Workers : v # w =>
    \A i \in 1..Len(wk[v].batch), j \in 1..Len(wk[w].batch) :
      wk[v].batch[i].id # wk[w].batch[j].id

(* Spec 3 (OutboxMessage): "terminal => no further transitions".  A Done   *)
(* message stays Done, a Dead one changes only through a replay (revive).  *)
TerminalStable ==
  [][\A m \in Msgs :
       /\ outbox[m].status = "Done" => outbox'[m].status = "Done"
       /\ outbox[m].status = "Dead" /\ outbox'[m].status # "Dead" =>
            op'.pc = "revived" /\ op'.msg = m]_vars

(* Spec 8, invariant 7: a dead letter of an outbox message refers to a     *)
(* row in status Dead, except while a replay has revived it and not yet    *)
(* removed the letter.                                                     *)
DeadLetterIsDead ==
  \A m \in dead : outbox[m].status = "Dead" \/ (op.pc = "revived" /\ op.msg = m)

(* A Dead message can be replayed: it has a dead letter or the worker that *)
(* dead-lettered it is about to push one (outbox.rs, dead_store.push).     *)
DeadRecoverable ==
  \A m \in Msgs : outbox[m].status = "Dead" =>
    \/ m \in dead
    \/ \E w \in Workers : wk[w].pc = "pushing" /\ Current(w).id = m

(* SimpleBudgetGuard: the in-flight counter equals the number of dispatch  *)
(* attempts admitted and not yet reported by on_dispatch_result.           *)
InflightAccurate ==
  Tracked =>
    \A t \in Tenants :
      inflight[t] = Cardinality({w \in Workers : WorkerTenant[w] = t /\
                                                 wk[w].pc \in {"sending", "sent", "pushing"}})

(* Spec 8, invariant 8: with group_by_dispatch_key, two messages sharing a *)
(* key are delivered in enqueue order.                                     *)
Position(m) == CHOOSE i \in 1..Len(created) : created[i] = m
KeyOrder ==
  GroupByKey =>
    \A i, j \in 1..Len(delivered) :
      /\ i < j
      /\ delivered[i] # delivered[j]
      /\ DispatchKey[delivered[i]] # NoKey
      /\ DispatchKey[delivered[i]] = DispatchKey[delivered[j]]
      => Position(delivered[i]) < Position(delivered[j])

(* The dispatcher drains the outbox: every enqueued message is eventually  *)
(* Done or Dead (at-least-once dispatch with poison isolation).            *)
EventuallySettled ==
  \A m \in Msgs : outbox[m].status = "Pending" ~> outbox[m].status \in Terminal

=============================================================================
