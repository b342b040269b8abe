------------------------------ MODULE MC_Outbox ------------------------------
(* Model-checking instance of Outbox: message ids, workers and the one    *)
(* dispatch key are model values; m1 and m2 share key k1, m3 has none.     *)
(* In the one-tenant instances every message has its own id; in the       *)
(* two-tenant one m1 (tenant t1) and m2 (tenant t2) have the same id.      *)
EXTENDS Outbox

CONSTANTS m1, m2, m3, k1, w1, w2, t1, t2

MCDispatchKey == [m \in Msgs |-> IF m = m3 THEN NoKey ELSE k1]

MCOneTenant == [m \in Msgs |-> t1]
MCOwnIds == [m \in Msgs |-> m]
MCWorkersOneTenant == [w \in Workers |-> t1]

MCTenantPerMsg == [m \in Msgs |-> IF m = m1 THEN t1 ELSE t2]
MCSharedIds == [m \in Msgs |-> m1]
MCTenantPerWorker == [w \in Workers |-> IF w = w1 THEN t1 ELSE t2]

=============================================================================
