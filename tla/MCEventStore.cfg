SPECIFICATION Spec
CONSTANTS
  t1 = t1 t2 = t2
  ja = ja jb = jb
  a1 = a1 b1 = b1 a2 = a2
  acme = acme globex = globex
  Threads = {t1, t2}
  Tenants = {acme, globex}
  Jobs = {ja, jb}
  Events = {a1, b1, a2}
  Attack = {a1, a2}
  JobOf <- MCJobOf
  TenantOf <- MCTenantOf
  Statuses = {"New", "Contained"}
  New = "New"
  Absent = "absent"
  Targets <- MCTargets
  Reviewed = {}
  Nobody = Nobody
  DbOutcomes = {TRUE, FALSE}
  Restarts = TRUE
SYMMETRY ThreadSymmetry
INVARIANTS TypeOK InFlight BatchIsWhole AttackHasIncident NoInventedRows LockIsForUpdate
PROPERTIES TriageIsNeverUndone TenantIsolation LedgerSpec
