--------------------------- MODULE InterceptorChain ---------------------------
(***************************************************************************)
(* sb-interceptors InterceptorChain::run_with_handler (stages/mod.rs) for  *)
(* concurrent requests, with the request stages of spec 4.5 in order:      *)
(* IdempotencyStage (stages/idempotency.rs, over MemoryIdempotencyStore)   *)
(* and then AuthzQuotaStage (stages/authz_quota.rs), which calls           *)
(* AuthFacade::authorize (sb-auth facade.rs) with its MemoryDecisionCache  *)
(* and MemoryQuotaStore.  Then the optional concurrency semaphore, the     *)
(* handler under execute_with_resilience (resilience.rs), the response     *)
(* stages, and the idempotency put.  All requests share one subject,       *)
(* resource and action, so one DecisionKey and one QuotaKey.               *)
(*                                                                         *)
(* A stored response is the request whose handler produced it.            *)
(***************************************************************************)
EXTENDS Naturals, FiniteSets

CONSTANTS
  Requests,
  ReqKey,       \* the namespaced idempotency key, NoKey when the stage is off
  Keys,
  NoKey,
  Nil,
  Limited,      \* with_concurrency_limit was called
  Permits,      \* its permit count
  MaxRetries,   \* ResiliencePolicy.max_retries
  HasTimeout,   \* ResiliencePolicy.timeout is Some
  QuotaLimit,   \* the QuotaKey's limit
  Cost,         \* AuthzQuotaStage.default_cost
  CacheTtl      \* the PDP's decisions have cache_ttl_ms > 0

ASSUME /\ ReqKey \in [Requests -> Keys \cup {NoKey}]
       /\ Limited \in BOOLEAN /\ Permits \in Nat \ {0}
       /\ MaxRetries \in Nat /\ HasTimeout \in BOOLEAN /\ CacheTtl \in BOOLEAN
       /\ QuotaLimit \in Nat /\ Cost \in Nat

VARIABLES
  idem,     \* MemoryIdempotencyStore: key -> stored response (its request)
  dcache,   \* MemoryDecisionCache entry: "none", "allow" or "deny"
  used,     \* MemoryQuotaStore used for the QuotaKey
  permits,  \* semaphore permits available
  pc,       \* per request: where run_with_handler is
  att,      \* per request: handler attempts started
  resp,     \* per request: the stored response a replay returned
  recs      \* history: puts per key since its entry last expired (2 = more)

vars == <<idem, dcache, used, permits, pc, att, resp, recs>>

(* The requests holding a semaphore permit (_permit_guard in scope).       *)
HoldsPermit(r) == Limited /\ pc[r] \in {"handler", "respond"}

(* The permit guard drops when run_with_handler returns.                   *)
Drop(r) == permits' = IF HoldsPermit(r) THEN permits + 1 ELSE permits

(* store.put of the request's response under its key.                     *)
Put(r) ==
  /\ idem' = [idem EXCEPT ![ReqKey[r]] = r]
  /\ recs' = [recs EXCEPT ![ReqKey[r]] = IF @ < 2 THEN @ + 1 ELSE 2]

Final == {"done", "unsent", "replayed", "error", "failed"}

-----------------------------------------------------------------------------
Init ==
  /\ idem = [k \in Keys |-> Nil]
  /\ dcache = "none"
  /\ used = 0
  /\ permits = Permits
  /\ pc = [r \in Requests |-> "idle"]
  /\ att = [r \in Requests |-> 0]
  /\ resp = [r \in Requests |-> Nil]
  /\ recs = [k \in Keys |-> 0]

(* IdempotencyStage: with a key, store.get; a hit fills the response and   *)
(* short-circuits the remaining request stages.                            *)
IdemStage(r) ==
  /\ pc[r] = "idle"
  /\ IF ReqKey[r] # NoKey /\ idem[ReqKey[r]] # Nil
     THEN /\ pc' = [pc EXCEPT ![r] = "replay"]
          /\ resp' = [resp EXCEPT ![r] = idem[ReqKey[r]]]
     ELSE /\ pc' = [pc EXCEPT ![r] = "auth"]
          /\ UNCHANGED resp
  /\ UNCHANGED <<idem, dcache, used, permits, att, recs>>

(* MemoryQuotaStore::check_and_consume's verdict for the QuotaKey.        *)
QuotaVerdict ==
  IF used >= QuotaLimit THEN "BudgetExceeded"
  ELSE IF used + Cost > QuotaLimit THEN "RateLimited"
  ELSE "Allowed"

(* AuthFacade::authorize after authenticate: a cached decision is used as  *)
(* is (no quota); otherwise the PDP decides, an allow goes through         *)
(* check_and_consume, and a decision that got this far is cached when its  *)
(* ttl is positive.  The stage turns a deny into AUTH.FORBIDDEN.           *)
FacadeAuthorize(r) ==
  \/ /\ dcache # "none"
     /\ pc' = [pc EXCEPT ![r] = IF dcache = "allow" THEN "permit" ELSE "error"]
     /\ UNCHANGED <<dcache, used>>
  \/ /\ dcache = "none"
     /\ \E allow \in BOOLEAN :
          IF ~allow
          THEN /\ pc' = [pc EXCEPT ![r] = "error"]
               /\ dcache' = IF CacheTtl THEN "deny" ELSE dcache
               /\ UNCHANGED used
          ELSE IF QuotaVerdict # "Allowed"
          THEN /\ pc' = [pc EXCEPT ![r] = "error"]
               /\ UNCHANGED <<dcache, used>>
          ELSE /\ used' = used + Cost
               /\ dcache' = IF CacheTtl THEN "allow" ELSE dcache
               /\ pc' = [pc EXCEPT ![r] = "permit"]

(* AuthzQuotaStage::handle: a missing auth input or route, a tenant header *)
(* that does not match the subject, a bad consent token, a failing         *)
(* authenticate, PDP or consent check all end in the ErrorResponder with   *)
(* nothing changed; otherwise the facade's verdict.                        *)
Authorize(r) ==
  /\ pc[r] = "auth"
  /\ \/ /\ pc' = [pc EXCEPT ![r] = "error"]
        /\ UNCHANGED <<dcache, used>>
     \/ FacadeAuthorize(r)
  /\ UNCHANGED <<idem, permits, att, resp, recs>>

(* Variant: the permit acquired and dropped at once (let _ = ...).        *)
AcquireDropped(r) ==
  /\ pc[r] = "permit"
  /\ pc' = [pc EXCEPT ![r] = "handler"]
  /\ UNCHANGED <<idem, dcache, used, permits, att, resp, recs>>

(* acquire_owned on the concurrency semaphore waits for a permit.          *)
Acquire(r) ==
  /\ pc[r] = "permit"
  /\ Limited => permits > 0
  /\ permits' = IF Limited THEN permits - 1 ELSE permits
  /\ pc' = [pc EXCEPT ![r] = "handler"]
  /\ UNCHANGED <<idem, dcache, used, att, resp, recs>>

(* What one handler call ends with: a body, a Transient error, another    *)
(* error, or the timeout elapsing first.                                  *)
Outcomes == {"body", "transient", "permanent"} \cup (IF HasTimeout THEN {"timeout"} ELSE {})

(* One loop turn of execute_with_resilience: attempt += 1, the handler is  *)
(* called; a body ends the loop; a Transient error is retried while        *)
(* attempt <= retryBound (after the backoff sleep); a timeout drops the    *)
(* future and returns at once; any other error is returned.  An error goes *)
(* to the ErrorResponder and run_with_handler returns, dropping the permit *)
(* guard unless leak.                                                      *)
HandlerTurn(r, retryBound, leak) ==
  /\ pc[r] = "handler"
  /\ att' = [att EXCEPT ![r] = @ + 1]
  /\ \E res \in Outcomes :
       CASE res = "body"
              -> pc' = [pc EXCEPT ![r] = "respond"] /\ UNCHANGED permits
         [] res = "transient" /\ att[r] + 1 <= retryBound
              -> UNCHANGED <<pc, permits>>
         [] OTHER
              -> /\ pc' = [pc EXCEPT ![r] = "error"]
                 /\ IF leak THEN UNCHANGED permits ELSE Drop(r)
  /\ UNCHANGED <<idem, dcache, used, resp, recs>>

(* Variant: retried while attempt <= max_retries + 1.                      *)
AttemptExtraRetry(r) == HandlerTurn(r, MaxRetries + 1, FALSE)

(* Variant: the error path returns without dropping the permit guard.     *)
AttemptLeak(r) == HandlerTurn(r, MaxRetries, TRUE)

Attempt(r) == HandlerTurn(r, MaxRetries, FALSE)

(* Variant: the put made before the response stages and the              *)
(* max_body_size check.                                                    *)
RespondPutFirst(r) ==
  /\ pc[r] = "respond"
  /\ IF ReqKey[r] # NoKey THEN Put(r) ELSE UNCHANGED <<idem, recs>>
  /\ \E out \in {"done", "failed", "unsent"} : pc' = [pc EXCEPT ![r] = out]
  /\ Drop(r)
  /\ UNCHANGED <<dcache, used, att, resp>>

(* After the handler: the response stages (an Err, e.g. an obligation's    *)
(* missing target, returns Err), then, with a key and not a replay, the    *)
(* max_body_size check (oversize returns Err) and put; then write_json,    *)
(* whose Err comes after the put ("unsent").  The permit drops on return.  *)
Respond(r) ==
  /\ pc[r] = "respond"
  /\ \E out \in {"done", "failed", "unsent"} :
       /\ pc' = [pc EXCEPT ![r] = out]
       /\ IF out # "failed" /\ ReqKey[r] # NoKey THEN Put(r) ELSE UNCHANGED <<idem, recs>>
  /\ Drop(r)
  /\ UNCHANGED <<dcache, used, att, resp>>

(* Variant: the replay path hands back a semaphore permit.               *)
RespondReplayRelease(r) ==
  /\ pc[r] = "replay"
  /\ \E ok \in BOOLEAN : pc' = [pc EXCEPT ![r] = IF ok THEN "replayed" ELSE "failed"]
  /\ permits' = IF Limited THEN permits + 1 ELSE permits
  /\ UNCHANGED <<idem, dcache, used, att, resp, recs>>

(* A short-circuited replay skips the permit and the handler; the response *)
(* stages still run and may fail, and so may write_json; nothing is        *)
(* stored.                                                                 *)
RespondReplay(r) ==
  /\ pc[r] = "replay"
  /\ \E ok \in BOOLEAN : pc' = [pc EXCEPT ![r] = IF ok THEN "replayed" ELSE "failed"]
  /\ UNCHANGED <<idem, dcache, used, permits, att, resp, recs>>

(* The ttl of a stored response passes: the next get removes it.           *)
ExpireResponse(k) ==
  /\ idem[k] # Nil
  /\ idem' = [idem EXCEPT ![k] = Nil]
  /\ recs' = [recs EXCEPT ![k] = 0]
  /\ UNCHANGED <<dcache, used, permits, pc, att, resp>>

(* A cached decision's cache_ttl_ms passes: the next get removes it.       *)
ExpireDecision ==
  /\ dcache # "none"
  /\ dcache' = "none"
  /\ UNCHANGED <<idem, used, permits, pc, att, resp, recs>>

Request(r) ==
  \/ IdemStage(r) \/ Authorize(r) \/ Acquire(r) \/ Attempt(r)
  \/ Respond(r) \/ RespondReplay(r)

Next ==
  \/ \E r \in Requests : Request(r)
  \/ \E k \in Keys : ExpireResponse(k)
  \/ ExpireDecision

(* Every request task is polled until it returns; tokio's semaphore hands  *)
(* permits out in FIFO order, so a waiting acquire is strongly fair.       *)
Fairness ==
  \A r \in Requests :
    /\ WF_vars(IdemStage(r) \/ Authorize(r) \/ Attempt(r) \/ Respond(r) \/ RespondReplay(r))
    /\ SF_vars(Acquire(r))

Spec == Init /\ [][Next]_vars /\ Fairness

-----------------------------------------------------------------------------
(* Properties.                                                             *)

TypeOK ==
  /\ idem \in [Keys -> Requests \cup {Nil}]
  /\ dcache \in {"none", "allow", "deny"}
  /\ used \in 0..QuotaLimit
  /\ permits \in 0..Permits
  /\ pc \in [Requests -> {"idle", "auth", "permit", "handler", "respond", "replay"} \cup Final]
  /\ att \in [Requests -> Nat]
  /\ resp \in [Requests -> Requests \cup {Nil}]
  /\ recs \in [Keys -> 0..2]

(* Spec S6 and 4.5: a response is stored under a key only by a request    *)
(* with that key whose handler returned a body that passed the response    *)
(* stages and the size check; errors are never stored, so never replayed.  *)
StoredIsSuccess ==
  \A k \in Keys : idem[k] # Nil =>
     /\ ReqKey[idem[k]] = k
     /\ pc[idem[k]] \in {"done", "unsent"}
     /\ att[idem[k]] > 0

(* The semaphore's free permits and the requests holding a permit guard    *)
(* always add up to the configured limit, on every return path of          *)
(* run_with_handler.                                                       *)
PermitsAccurate ==
  Limited => permits + Cardinality({r \in Requests : HoldsPermit(r)}) = Permits

(* execute_with_resilience calls the handler at most 1 + max_retries times *)
(* per request.                                                            *)
HandlerAttemptsBounded ==
  \A r \in Requests : att[r] <= MaxRetries + 1

(* Every request returns: a waiting acquire gets a permit because every    *)
(* holder drops its guard, and the timeout ends a hanging handler.         *)
RequestsComplete ==
  \A r \in Requests : <>(pc[r] \in Final)

(* Spec property 9: within its TTL a key replays the originally recorded  *)
(* response and the handler executes at most once, so no request puts a   *)
(* second response under a key whose recorded one has not expired.        *)
HandlerAtMostOnce ==
  \A k \in Keys : recs[k] <= 1

=============================================================================
