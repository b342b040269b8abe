------------------------------ MODULE Repository ------------------------------
(***************************************************************************)
(* sb-storage's Repository<T> over one table: InMemoryRepository           *)
(* (mock/repo.rs) or SurrealRepository (surreal/repo.rs), used by clients  *)
(* of several tenants.  Every repository call is one atomic step: the      *)
(* in-memory one holds the tables' RwLock for the whole call, the Surreal  *)
(* one is a single statement.  A client updates a record the way the       *)
(* crate's tests do: get it, then upsert {title, ver: ver + 1} with the    *)
(* version it read as expected_version.                                    *)
(*                                                                         *)
(* A record is [tenant, ver, title]; titles are numbers so that select can *)
(* sort on them (json_cmp compares numbers as f64).                        *)
(***************************************************************************)
EXTENDS Naturals, Sequences, SequencesExt, TLC

CONSTANTS
  Tenants,
  Clients,
  TenantOf,     \* [Clients -> Tenants], the tenant a client passes
  TitleOf,      \* [Clients -> Nat], the title a client writes
  Ids,          \* record ids of the table
  ForeignDocs,  \* a client may pass create a doc whose tenant is not its own
  MaxVer,       \* bound on record versions
  Backend,      \* "memory" or "surreal"
  SortSpecs,    \* the sorts a select may pass: sequences of [field, asc]
  Limits,       \* the limits a select may pass
  Absent

ASSUME Backend \in {"memory", "surreal"} /\ ForeignDocs \in BOOLEAN /\ MaxVer \in Nat

VARIABLES
  table,   \* the table: id -> stored record, or Absent
  cl,      \* per client: the record it read and will upsert (pc "read"), or idle
  seen,    \* per client: the tenants of the records its last get or select returned
  res,     \* per client: the outcome of its last call
  acked,   \* history: upserts that returned Ok since the record was created
  caller   \* history: the client whose call was the last step

vars == <<table, cl, seen, res, acked, caller>>

Outcomes == {"ok", "none", "conflict", "schema", "not_found", "err"}

Idle == [pc |-> "idle", id |-> Absent, ver |-> 0]

(* Variant: the tenant of a stored value is not checked.                  *)
EnsureTenantAny(v, t) == TRUE

(* ensure_tenant: the stored value's "tenant" is the caller's.           *)
EnsureTenant(v, t) == v.tenant = t

(* The doc a client passes to create: version 1, its title, a tenant.    *)
DocTenants(c) == IF ForeignDocs THEN Tenants ELSE {TenantOf[c]}

-----------------------------------------------------------------------------
(* Each call is given as the triple of the new table entry, the client's *)
(* outcome and the tenants of what it read.                               *)

(* InMemoryRepository::get: none, a tenant mismatch, or the record.       *)
MemGet(c, i) ==
  CASE table[i] = Absent                      -> [r |-> "none", s |-> {}]
    [] ~EnsureTenant(table[i], TenantOf[c])   -> [r |-> "schema", s |-> {}]
    [] OTHER                                  -> [r |-> "ok", s |-> {table[i].tenant}]

(* SurrealRepository::get: SELECT ... WHERE tenant = $tenant LIMIT 1.     *)
SurrealGet(c, i) ==
  IF table[i] # Absent /\ table[i].tenant = TenantOf[c]
  THEN [r |-> "ok", s |-> {table[i].tenant}] ELSE [r |-> "none", s |-> {}]

(* InMemoryRepository::create: an existing id is a conflict whatever its  *)
(* tenant; then the doc's tenant must be the caller's.                    *)
MemCreate(c, i, d) ==
  CASE table[i] # Absent                 -> [r |-> "conflict", e |-> table[i]]
    [] ~EnsureTenant(d, TenantOf[c])     -> [r |-> "schema", e |-> table[i]]
    [] OTHER                             -> [r |-> "ok", e |-> d]

(* SurrealRepository::create: CREATE type::thing($table, $id) CONTENT     *)
(* $data; the statement fails on an existing record and stores the doc   *)
(* as it is, its own tenant field included.                               *)
SurrealCreate(c, i, d) ==
  IF table[i] # Absent THEN [r |-> "err", e |-> table[i]] ELSE [r |-> "ok", e |-> d]

(* Variant: the version is not compared.                                  *)
MemUpsertUnversioned(c, i, ev, p) ==
  CASE table[i] = Absent                      -> [r |-> "not_found", e |-> table[i]]
    [] ~EnsureTenant(table[i], TenantOf[c])   -> [r |-> "schema", e |-> table[i]]
    [] OTHER -> [r |-> "ok", e |-> [table[i] EXCEPT !.title = p.title, !.ver = p.ver]]

(* InMemoryRepository::upsert with expected_version ev and patch p: not   *)
(* found, tenant mismatch, version mismatch, else the patch's keys are    *)
(* inserted into the stored object.                                        *)
MemUpsert(c, i, ev, p) ==
  CASE table[i] = Absent                      -> [r |-> "not_found", e |-> table[i]]
    [] ~EnsureTenant(table[i], TenantOf[c])   -> [r |-> "schema", e |-> table[i]]
    [] table[i].ver # ev                      -> [r |-> "conflict", e |-> table[i]]
    [] OTHER -> [r |-> "ok", e |-> [table[i] EXCEPT !.title = p.title, !.ver = p.ver]]

(* SurrealRepository::upsert: UPDATE ... MERGE $patch WHERE tenant =       *)
(* $tenant AND ver = $expected_ver; no row back is "record not found".     *)
SurrealUpsert(c, i, ev, p) ==
  IF table[i] # Absent /\ table[i].tenant = TenantOf[c] /\ table[i].ver = ev
  THEN [r |-> "ok", e |-> [table[i] EXCEPT !.title = p.title, !.ver = p.ver]]
  ELSE [r |-> "not_found", e |-> table[i]]

(* InMemoryRepository::delete: a record of another tenant is an error;    *)
(* an absent one is Ok.                                                    *)
MemDelete(c, i) ==
  IF table[i] # Absent /\ ~EnsureTenant(table[i], TenantOf[c])
  THEN [r |-> "schema", e |-> table[i]] ELSE [r |-> "ok", e |-> Absent]

(* SurrealRepository::delete: DELETE ... WHERE tenant = $tenant, Ok.       *)
SurrealDelete(c, i) ==
  [r |-> "ok", e |-> IF table[i] # Absent /\ table[i].tenant = TenantOf[c]
                     THEN Absent ELSE table[i]]

-----------------------------------------------------------------------------
(* select's ordering.  json_cmp on two numbers; the sort is stable.       *)
(* Before(y, x, st): y may stay before x under the sort st (ord is not    *)
(* Greater, reversed for a descending sort).                               *)
Before(y, x, st) == IF st.asc THEN y[st.field] <= x[st.field] ELSE y[st.field] >= x[st.field]

(* A stable insertion: x goes after every element that may stay before it. *)
InsertStable(t, x, st) ==
  LET k == Len(SelectSeq(t, LAMBDA y : Before(y, x, st)))
  IN  SubSeq(t, 1, k) \o <<x>> \o SubSeq(t, k + 1, Len(t))

RECURSIVE SortBy(_, _, _)
SortBy(s, st, acc) ==
  IF s = <<>> THEN acc ELSE SortBy(Tail(s), st, InsertStable(acc, Head(s), st))

(* items.sort_by on one sort field.                                       *)
StableSort(items, st) == SortBy(items, st, <<>>)

(* Variant: the sorts applied first to last.                              *)
SortItemsForward(items, sorts) == FoldLeft(StableSort, items, sorts)

(* InMemoryRepository::select: "for sort in sorts.iter().rev()", one      *)
(* stable sort per field, the last sort first.                             *)
SortItems(items, sorts) == FoldLeft(StableSort, items, Reverse(sorts))

(* The records a select of client c returns with filter fl (Absent, or a   *)
(* title the "title" key must equal), in the order the table yields them. *)
Matching(c, fl) ==
  {i \in Ids : /\ table[i] # Absent
               /\ EnsureTenant(table[i], TenantOf[c])
               /\ fl = Absent \/ table[i].title = fl}

Rows(o) == [k \in 1..Len(o) |-> table[o[k]]]

(* The first limit items (items.truncate(limit)).                         *)
Truncate(s, limit) == SubSeq(s, 1, IF Len(s) > limit THEN limit ELSE Len(s))

TenantsOf(s) == {s[k].tenant : k \in DOMAIN s}

-----------------------------------------------------------------------------
Init ==
  /\ table = [i \in Ids |-> Absent]
  /\ cl = [c \in Clients |-> Idle]
  /\ seen = [c \in Clients |-> {}]
  /\ res = [c \in Clients |-> "ok"]
  /\ acked = [i \in Ids |-> 0]
  /\ caller \in Clients

(* Repository::get of record i; an Ok read is kept for a later upsert.    *)
Get(c, i) ==
  /\ caller' = c
  /\ cl[c].pc = "idle"
  /\ LET g == IF Backend = "memory" THEN MemGet(c, i) ELSE SurrealGet(c, i)
     IN  /\ res' = [res EXCEPT ![c] = g.r]
         /\ seen' = [seen EXCEPT ![c] = g.s]
         /\ cl' = IF g.r = "ok" THEN [cl EXCEPT ![c] = [pc |-> "read", id |-> i, ver |-> table[i].ver]]
                  ELSE cl
  /\ UNCHANGED <<table, acked>>

(* Repository::create of a doc with id i, tenant dt, version 1.           *)
Create(c, i, dt) ==
  /\ caller' = c
  /\ cl[c].pc = "idle"
  /\ LET d == [tenant |-> dt, ver |-> 1, title |-> TitleOf[c]]
         o == IF Backend = "memory" THEN MemCreate(c, i, d) ELSE SurrealCreate(c, i, d)
     IN  /\ table' = [table EXCEPT ![i] = o.e]
         /\ res' = [res EXCEPT ![c] = o.r]
         /\ acked' = IF o.r = "ok" THEN [acked EXCEPT ![i] = 0] ELSE acked
  /\ UNCHANGED <<cl, seen>>

(* Repository::upsert of the record read: patch {title, ver: read + 1},    *)
(* expected_version the version read.                                      *)
Upsert(c) ==
  /\ caller' = c
  /\ cl[c].pc = "read"
  /\ cl[c].ver < MaxVer
  /\ LET i == cl[c].id
         p == [title |-> TitleOf[c], ver |-> cl[c].ver + 1]
         o == IF Backend = "memory" THEN MemUpsert(c, i, cl[c].ver, p)
              ELSE SurrealUpsert(c, i, cl[c].ver, p)
     IN  /\ table' = [table EXCEPT ![i] = o.e]
         /\ res' = [res EXCEPT ![c] = o.r]
         /\ acked' = IF o.r = "ok" THEN [acked EXCEPT ![i] = @ + 1] ELSE acked
  /\ cl' = [cl EXCEPT ![c] = Idle]
  /\ UNCHANGED seen

(* The client drops the record it read without writing.                   *)
Forget(c) ==
  /\ caller' = c
  /\ cl[c].pc = "read"
  /\ cl' = [cl EXCEPT ![c] = Idle]
  /\ UNCHANGED <<table, seen, res, acked>>

(* Repository::delete of record i.                                        *)
Delete(c, i) ==
  /\ caller' = c
  /\ cl[c].pc = "idle"
  /\ LET o == IF Backend = "memory" THEN MemDelete(c, i) ELSE SurrealDelete(c, i)
     IN  /\ table' = [table EXCEPT ![i] = o.e]
         /\ res' = [res EXCEPT ![c] = o.r]
  /\ UNCHANGED <<cl, seen, acked>>

(* Repository::select with filter fl, sorts st and limit lim; the          *)
(* Surreal one (WHERE tenant AND filter, ORDER BY, LIMIT) returns the same *)
(* rows, sorted by the database.                                           *)
Select(c, fl, st, lim) ==
  /\ caller' = c
  /\ cl[c].pc = "idle"
  /\ \E o \in SetToSeqs(Matching(c, fl)) :
       LET page == Truncate(SortItems(Rows(o), st), lim)
       IN  seen' = [seen EXCEPT ![c] = TenantsOf(page)]
  /\ res' = [res EXCEPT ![c] = "ok"]
  /\ UNCHANGED <<table, cl, acked>>

Next ==
  \/ \E c \in Clients, i \in Ids :
       \/ Get(c, i)
       \/ \E dt \in DocTenants(c) : Create(c, i, dt)
       \/ Delete(c, i)
  \/ \E c \in Clients : Upsert(c) \/ Forget(c)
  \/ \E c \in Clients : \E fl \in {Absent, TitleOf[c]}, st \in SortSpecs, lim \in Limits :
       Select(c, fl, st, lim)

Spec == Init /\ [][Next]_vars

-----------------------------------------------------------------------------
(* Properties.                                                             *)

TypeOK ==
  /\ table \in [Ids -> [tenant : Tenants, ver : 1..MaxVer, title : Nat] \cup {Absent}]
  /\ \A c \in Clients : cl[c].pc \in {"idle", "read"}
  /\ seen \in [Clients -> SUBSET Tenants]
  /\ res \in [Clients -> Outcomes]
  /\ acked \in [Ids -> Nat]

(* Optimistic concurrency: with every writer bumping ver and passing the   *)
(* version it read, no acknowledged upsert is lost.  A record's version is *)
(* one more than the number of upserts that returned Ok since it was       *)
(* created, whatever the interleaving of reads and writes (upsert's        *)
(* expected_version check inside the lock or the UPDATE's WHERE clause).  *)
LostUpdateFree ==
  \A i \in Ids : table[i] # Absent => table[i].ver = 1 + acked[i]

(* Tenant isolation (spec 5): a get or select returns only records of the *)
(* caller's tenant, a record is changed or deleted only by a call of its  *)
(* own tenant, and a call creates only records of its caller's tenant.    *)
TenantIsolation ==
  [][/\ \A c \in Clients : seen'[c] \subseteq {TenantOf[c]}
     /\ \A i \in Ids : table'[i] # table[i] =>
          /\ table[i] # Absent => table[i].tenant = TenantOf[caller']
          /\ table'[i] # Absent => table'[i].tenant = TenantOf[caller']]_vars

(* The reference order of a multi-key sort: the first sort field whose    *)
(* values differ decides, ties keep the input order (position k).         *)
RECURSIVE LexLess(_, _, _)
LexLess(a, b, sorts) ==
  IF sorts = <<>> THEN a[2] < b[2]
  ELSE LET st == Head(sorts)  x == a[1][st.field]  y == b[1][st.field]
       IN  IF x = y THEN LexLess(a, b, Tail(sorts))
           ELSE IF st.asc THEN x < y ELSE x > y

RefSort(items, sorts) ==
  LET tagged == [k \in 1..Len(items) |-> <<items[k], k>>]
      sorted == SortSeq(tagged, LAMBDA a, b : LexLess(a, b, sorts))
  IN  [k \in 1..Len(items) |-> sorted[k][1]]

(* select with several sorts orders its rows like one lexicographic sort  *)
(* on those fields, ties in the order the table yielded them: the chain of *)
(* stable sort_by calls, last field first, is the multi-key sort, for the  *)
(* rows the table holds in any order and every sort a select may pass.    *)
SortMatchesReference ==
  \A o \in SetToSeqs({i \in Ids : table[i] # Absent}), st \in SortSpecs :
     SortItems(Rows(o), st) = RefSort(Rows(o), st)
====
