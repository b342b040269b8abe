----------------------------- MODULE MC_Repository -----------------------------
(* Model-checking instance of Repository: two tenants, three clients (two  *)
(* of tenant t1 racing on the same records, one of t2), two record ids.    *)
EXTENDS Repository

CONSTANTS t1, t2, c1, c2, c3, r1, r2

MCTenantOf == (c1 :> t1) @@ (c2 :> t1) @@ (c3 :> t2)
MCTitleOf == (c1 :> 1) @@ (c2 :> 2) @@ (c3 :> 3)

(* No sort, one field, and two fields in both directions.                 *)
MCSortSpecs ==
  { <<>>,
    <<[field |-> "title", asc |-> TRUE]>>,
    <<[field |-> "title", asc |-> TRUE], [field |-> "ver", asc |-> FALSE]>>,
    <<[field |-> "ver", asc |-> FALSE], [field |-> "title", asc |-> TRUE]>> }

=============================================================================
