---------------------------- MODULE TxIdempotency ----------------------------
(***************************************************************************)
(* The sb-tx IdempotencyStore for one (tenant, key), as implemented by     *)
(* InMemoryIdempoStore (memory/idempo_store.rs: check_and_put is one step  *)
(* under the write lock) and by SurrealIdempoStore (surreal/store.rs: the  *)
(* same decision made from three queries, fetch, delete and create).       *)
(* Callers follow the store's contract: check_and_put, and when it returns *)
(* None run the operation and call finish or fail.                         *)
(*                                                                         *)
(* Time is relative: rec.age is now - updated_at in ms, kept at most       *)
(* TtlMs + 1, since only its comparison with ttl_ms matters.               *)
(***************************************************************************)
EXTENDS Naturals

CONSTANTS
  Callers,       \* concurrent callers of check_and_put for the one key
  Hashes,        \* request hashes
  TtlMs,         \* ttl_ms passed by every caller
  Backend,       \* "memory" or "surreal"
  ExecWithinTtl, \* environment: an operation finishes before its record's ttl passes
  Nil

ASSUME /\ TtlMs \in Nat \ {0}
       /\ Backend \in {"memory", "surreal"}
       /\ ExecWithinTtl \in BOOLEAN

VARIABLES
  rec,    \* the stored IdempoRecord, status "None" when there is no row
  pc,     \* per caller: where its call is
  req,    \* per caller: the hash of its request
  got     \* per caller: the result_digest check_and_put returned

vars == <<rec, pc, req, got>>

NoRecord == [status |-> "None", hash |-> Nil, digest |-> Nil, age |-> 0]

(* build_record: InFlight, no digest, created_at = updated_at = now.       *)
NewRecord(h) == [status |-> "InFlight", hash |-> h, digest |-> Nil, age |-> 0]

(* The reclaim test: "now - updated_at > ttl_ms" in memory, ">=" in the    *)
(* SurrealDB store.                                                        *)
Expired(r) ==
  /\ r.status # "None"
  /\ IF Backend = "memory" THEN r.age > TtlMs ELSE r.age >= TtlMs

(* Variant: the hash comparison left out of the answer.                  *)
OutcomeNoHashCheck(r, h) ==
  CASE r.status = "InFlight"     -> "busy"
    [] r.status = "Succeeded"    -> "hit"
    [] r.status = "Failed"       -> "lastfailed"

(* The answer to a caller with hash h that finds the live record r.        *)
Outcome(r, h) ==
  CASE r.hash # h                -> "conflict"
    [] r.status = "InFlight"     -> "busy"
    [] r.status = "Succeeded"    -> "hit"
    [] r.status = "Failed"       -> "lastfailed"

Answered(c, r, h) ==
  /\ pc' = [pc EXCEPT ![c] = Outcome(r, h)]
  /\ got' = IF Outcome(r, h) = "hit" THEN [got EXCEPT ![c] = r.digest] ELSE got

Claimed(c, h) ==
  /\ rec' = NewRecord(h)
  /\ pc' = [pc EXCEPT ![c] = "running"]
  /\ UNCHANGED got

-----------------------------------------------------------------------------
Init ==
  /\ rec = NoRecord
  /\ pc = [c \in Callers |-> "idle"]
  /\ req = [c \in Callers |-> Nil]
  /\ got = [c \in Callers |-> Nil]

(* Variant: an InFlight record is not reported busy but claimed again.   *)
CheckAndPutNoBusy(c, h) ==
  /\ Backend = "memory" /\ pc[c] = "idle"
  /\ req' = [req EXCEPT ![c] = h]
  /\ LET live == IF Expired(rec) \/ rec.status = "InFlight" THEN NoRecord ELSE rec
     IN  IF live.status # "None"
         THEN Answered(c, live, h) /\ UNCHANGED rec
         ELSE Claimed(c, h)

(* InMemoryIdempoStore::check_and_put: under the write lock, remove an     *)
(* expired record, answer from a live one, or insert an InFlight record.   *)
CheckAndPut(c, h) ==
  /\ Backend = "memory" /\ pc[c] = "idle"
  /\ req' = [req EXCEPT ![c] = h]
  /\ LET live == IF Expired(rec) THEN NoRecord ELSE rec
     IN  IF live.status # "None"
         THEN Answered(c, live, h) /\ UNCHANGED rec
         ELSE Claimed(c, h)

(* SurrealIdempoStore::check_and_put, first query: SELECT the record, and  *)
(* answer at once from a live one.                                         *)
Fetch(c, h) ==
  /\ Backend = "surreal" /\ pc[c] = "idle"
  /\ req' = [req EXCEPT ![c] = h]
  /\ IF rec.status # "None" /\ ~Expired(rec)
     THEN Answered(c, rec, h)
     ELSE /\ pc' = [pc EXCEPT ![c] = IF rec.status = "None" THEN "create" ELSE "delete"]
          /\ UNCHANGED got
  /\ UNCHANGED rec

(* Second query, when the fetched record had expired: DELETE the key,      *)
(* whatever record it holds now.                                           *)
Delete(c) ==
  /\ pc[c] = "delete"
  /\ rec' = NoRecord
  /\ pc' = [pc EXCEPT ![c] = "create"]
  /\ UNCHANGED <<req, got>>

(* Variant: the record written with UPSERT_RECORD instead of CREATE.     *)
CreateUpsert(c) ==
  /\ pc[c] = "create"
  /\ Claimed(c, req[c])
  /\ UNCHANGED req

(* Last query: CREATE the InFlight record; if one exists the create        *)
(* conflict is mapped to TX.IDEMPOTENT_BUSY (map_idempo_create_error).     *)
Create(c) ==
  /\ pc[c] = "create"
  /\ IF rec.status = "None"
     THEN Claimed(c, req[c])
     ELSE /\ pc' = [pc EXCEPT ![c] = "busy"] /\ UNCHANGED <<rec, got>>
  /\ UNCHANGED req

(* Variants: finish that does not store result_digest; fail that stores  *)
(* its error text in result_digest.                                        *)
FinishNoDigest(c) ==
  /\ pc[c] = "running"
  /\ rec' = IF rec.status = "None" THEN rec ELSE [rec EXCEPT !.status = "Succeeded", !.age = 0]
  /\ pc' = [pc EXCEPT ![c] = "done"]
  /\ UNCHANGED <<req, got>>
FailIntoDigest(c) ==
  /\ pc[c] = "running"
  /\ rec' = IF rec.status = "None" THEN rec
            ELSE [rec EXCEPT !.status = "Failed", !.digest = "error", !.age = 0]
  /\ pc' = [pc EXCEPT ![c] = "done"]
  /\ UNCHANGED <<req, got>>

(* finish / fail: set the status of whatever record the key holds (no      *)
(* check of hash or status) and updated_at = now; no row, no change.       *)
Finish(c) ==
  /\ pc[c] = "running"
  /\ rec' = IF rec.status = "None" THEN rec
            ELSE [rec EXCEPT !.status = "Succeeded", !.digest = req[c], !.age = 0]
  /\ pc' = [pc EXCEPT ![c] = "done"]
  /\ UNCHANGED <<req, got>>

Fail(c) ==
  /\ pc[c] = "running"
  /\ rec' = IF rec.status = "None" THEN rec
            ELSE [rec EXCEPT !.status = "Failed", !.age = 0]
  /\ pc' = [pc EXCEPT ![c] = "done"]
  /\ UNCHANGED <<req, got>>

(* One millisecond passes.  Under ExecWithinTtl it does not bring a        *)
(* running operation's record to its ttl.                                  *)
Tick ==
  /\ rec.status # "None" /\ rec.age <= TtlMs
  /\ ExecWithinTtl => (\A c \in Callers : pc[c] = "running" => rec.age + 1 < TtlMs)
  /\ rec' = [rec EXCEPT !.age = @ + 1]
  /\ UNCHANGED <<pc, req, got>>

Next ==
  \/ \E c \in Callers :
       \/ \E h \in Hashes : CheckAndPut(c, h) \/ Fetch(c, h)
       \/ Delete(c) \/ Create(c) \/ Finish(c) \/ Fail(c)
  \/ Tick

Spec == Init /\ [][Next]_vars

-----------------------------------------------------------------------------
(* Properties.                                                             *)

TypeOK ==
  /\ rec \in [status : {"None", "InFlight", "Succeeded", "Failed"},
              hash : Hashes \cup {Nil}, digest : Hashes \cup {Nil}, age : 0..TtlMs + 1]
  /\ pc \in [Callers -> {"idle", "delete", "create", "running", "done",
                         "hit", "busy", "conflict", "lastfailed"}]
  /\ req \in [Callers -> Hashes \cup {Nil}]
  /\ got \in [Callers -> Hashes \cup {Nil}]

(* Spec 4.6.2 / property 9: check_and_put hands the operation to one        *)
(* caller at a time; a second caller is told TX.IDEMPOTENT_BUSY while the  *)
(* first has not called finish or fail.                                    *)
SingleExecutor ==
  \A c, d \in Callers : pc[c] = "running" /\ pc[d] = "running" => c = d

(* Spec 4.6.2: a caller that check_and_put answers with a stored           *)
(* result_digest gets the result of the operation for its own request      *)
(* hash (a mismatching hash is STORAGE.CONFLICT).                          *)
ReplayMatchesRequest ==
  \A c \in Callers : pc[c] = "hit" => got[c] = req[c]

(* The store implements IdempoKey: the record's status, hash and digest,   *)
(* the caller running the operation, and each caller's answer.             *)
Running == {c \in Callers : pc[c] = "running"}
Abs == INSTANCE IdempoKey WITH
  state  <- CASE rec.status = "None"      -> "Free"
              [] rec.status = "InFlight"  -> "Claimed"
              [] rec.status = "Succeeded" -> "Succeeded"
              [] rec.status = "Failed"    -> "Failed",
  hash   <- rec.hash,
  digest <- rec.digest,
  owner  <- IF Running = {} THEN Nil ELSE CHOOSE c \in Running : TRUE,
  cpc    <- [c \in Callers |-> IF pc[c] \in {"delete", "create"} THEN "idle" ELSE pc[c]],
  creq   <- [c \in Callers |-> IF pc[c] \in {"idle", "delete", "create"} THEN Nil ELSE req[c]],
  got    <- got
Refinement == Abs!ASpec

=============================================================================
