SPECIFICATION FairSpec
CONSTANTS
  t1 = t1 t2 = t2
  ja = ja jb = jb
  a1 = a1 b1 = b1 a2 = a2
  acme = acme globex = globex
  Threads = {t1, t2}
  Tenants = {acme, globex}
  Jobs = {ja}
  Events = {a1, b1}
  Attack = {a1}
  JobOf <- MCJobOf
  TenantOf <- MCTenantOf
  Statuses = {"New", "Contained"}
  New = "New"
  Absent = "absent"
  Targets <- MCTargets
  Reviewed <- MCReviewed
  Nobody = Nobody
  DbOutcomes = {TRUE}
  Restarts = FALSE
PROPERTIES AcceptedIsDurable EveryRequestAnswered
