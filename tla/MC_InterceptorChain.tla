------------------------- MODULE MC_InterceptorChain -------------------------
(* Three requests: two carry the same idempotency key, one has none.       *)
EXTENDS InterceptorChain, TLC

CONSTANTS r1, r2, r3, k1

MCReqKey == (r1 :> k1) @@ (r2 :> k1) @@ (r3 :> NoKey)

(* Two requests with one key and no third.                                *)
MCReqKeyPair == (r1 :> k1) @@ (r2 :> k1)

=============================================================================
