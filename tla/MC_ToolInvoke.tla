----------------------------- MODULE MC_ToolInvoke -----------------------------
(* ToolInvoke for TLC: three calls, two of one tenant sharing a key.        *)
EXTENDS ToolInvoke, TLC

CONSTANTS c1, c2, c3, ta, tb, k1, k2

MCCallTenant == (c1 :> ta) @@ (c2 :> ta) @@ (c3 :> tb)
MCCallKey    == (c1 :> k1) @@ (c2 :> k1) @@ (c3 :> k2)
(* A tenant of its own reusing another tenant's idempotency key.            *)
MCCallKeyShared == (c1 :> k1) @@ (c2 :> k2) @@ (c3 :> k1)

=============================================================================
