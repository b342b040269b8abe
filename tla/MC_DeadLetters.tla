---------------------------- MODULE MC_DeadLetters ----------------------------
(* DeadLetters instantiated for TLC: two tenants, one id, 4-bit integers.   *)
EXTENDS DeadLetters

CONSTANTS t1, t2, i1

MCSagaTenant == [i \in {i1} |-> t2]

(* dead_letter_retention_ms unset with a default, set, and set to 0.        *)
MCConfigs ==
  {[cfg |-> None, default |-> 2], [cfg |-> 1, default |-> 0], [cfg |-> 0, default |-> 2]}

(* Retentions of 2^(W-1) and more: "as i64" turns them negative.            *)
MCWrapConfigs == {[cfg |-> 15, default |-> 0], [cfg |-> 8, default |-> 0]}
=============================================================================
