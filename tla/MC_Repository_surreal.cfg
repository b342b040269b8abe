\* SurrealDB repository: two tenants, three clients, two ids; a client may
\* create a doc of the other tenant; TenantIsolation is violated (repro).
CONSTANTS
  t1 = t1  t2 = t2  c1 = c1  c2 = c2  c3 = c3  r1 = r1  r2 = r2
  Tenants = {t1, t2}
  Clients = {c1, c2, c3}
  TenantOf <- MCTenantOf
  TitleOf <- MCTitleOf
  Ids = {r1, r2}
  ForeignDocs = TRUE
  MaxVer = 2
  Backend = "surreal"
  SortSpecs <- MCSortSpecs
  Limits = {1}
  Absent = Absent
SPECIFICATION Spec

PROPERTY TenantIsolation
