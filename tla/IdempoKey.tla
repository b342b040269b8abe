------------------------------ MODULE IdempoKey ------------------------------
(***************************************************************************)
(* What the sb-tx IdempotencyStore promises for one (tenant, key), without  *)
(* time: a caller either claims the key and later finishes or fails it, or *)
(* is answered from the record it finds: STORAGE.CONFLICT on another hash, *)
(* TX.IDEMPOTENT_BUSY while claimed, the stored digest once succeeded,     *)
(* TX.IDEMPOTENT_LAST_FAILED once failed.  A finished or failed record may *)
(* be reclaimed (its ttl has passed).  The digest a succeeded record holds *)
(* is the result of running the operation for the record's own hash.      *)
(***************************************************************************)
CONSTANTS Callers, Hashes, Nil

VARIABLES
  state,   \* "Free", "Claimed", "Succeeded" or "Failed"
  hash,    \* the request hash the record was claimed with
  digest,  \* result_digest of a succeeded record
  owner,   \* the caller executing the claimed operation
  cpc,     \* per caller: "idle", "running" or how its call was answered
  creq,    \* per caller: the hash of its request
  got      \* per caller: the digest a replay returned

avars == <<state, hash, digest, owner, cpc, creq, got>>

Answers == {"hit", "busy", "conflict", "lastfailed"}

AInit ==
  /\ state = "Free" /\ hash = Nil /\ digest = Nil /\ owner = Nil
  /\ cpc = [c \in Callers |-> "idle"]
  /\ creq = [c \in Callers |-> Nil]
  /\ got = [c \in Callers |-> Nil]

Claim(c, h) ==
  /\ cpc[c] = "idle" /\ state # "Claimed"
  /\ state' = "Claimed" /\ hash' = h /\ digest' = Nil /\ owner' = c
  /\ cpc' = [cpc EXCEPT ![c] = "running"]
  /\ creq' = [creq EXCEPT ![c] = h]
  /\ UNCHANGED got

Answer(c, h) ==
  /\ cpc[c] = "idle" /\ state # "Free"
  /\ cpc' = [cpc EXCEPT ![c] = CASE hash # h           -> "conflict"
                                 [] state = "Claimed"   -> "busy"
                                 [] state = "Succeeded" -> "hit"
                                 [] state = "Failed"    -> "lastfailed"]
  /\ got' = IF hash = h /\ state = "Succeeded" THEN [got EXCEPT ![c] = digest] ELSE got
  /\ creq' = [creq EXCEPT ![c] = h]
  /\ UNCHANGED <<state, hash, digest, owner>>

Complete(c, ok) ==
  /\ cpc[c] = "running" /\ owner = c
  /\ state' = IF ok THEN "Succeeded" ELSE "Failed"
  /\ digest' = IF ok THEN creq[c] ELSE digest
  /\ owner' = Nil
  /\ cpc' = [cpc EXCEPT ![c] = "done"]
  /\ UNCHANGED <<hash, creq, got>>

(* A finished or failed record whose ttl has passed is removed.            *)
Expire ==
  /\ state \in {"Succeeded", "Failed"}
  /\ state' = "Free" /\ hash' = Nil /\ digest' = Nil
  /\ UNCHANGED <<owner, cpc, creq, got>>

ANext ==
  \/ Expire
  \/ \E c \in Callers :
       \/ \E h \in Hashes : Claim(c, h) \/ Answer(c, h)
       \/ \E ok \in BOOLEAN : Complete(c, ok)

ASpec == AInit /\ [][ANext]_avars

=============================================================================
