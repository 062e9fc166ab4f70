\* Two requests in flight, three ids of which v0 is taken, limits that the
\* requests reach together.
CONSTANTS
  r1 = r1  r2 = r2  v0 = v0  v1 = v1  v2 = v2  n0 = n0  n1 = n1  n2 = n2
  t1 = t1  t2 = t2  i1 = i1
  Reqs = {r1, r2}
  Ids = {v0, v1, v2}
  Names = {n0, n1, n2}
  Tenants = {t1, t2}
  TenantOf <- MCTenantOf
  Specs = {i1}
  MaxSandboxes = 2
  MaxGlobal = 3
  MaxRunning = 3
  Kept = v0
  KeptName = n0
  None = None
SPECIFICATION Spec
INVARIANTS OneSandboxPerAgent AdmissionSlack WorkspaceKept
PROPERTIES AnswerMatches ImageRemovedUnused
SYMMETRY Symmetry
