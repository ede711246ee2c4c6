SPECIFICATION Spec
CONSTANTS
  t1 = t1 t2 = t2
  s1 = s1 s2 = s2
  acme = acme globex = globex
  Threads = {t1}
  Tenants = {acme, globex}
  Agents = {s1, s2}
  Callers <- MCOwnIds
  BatchSizes = {1, 2}
  MaxReceived = 4
  DbOutcomes = {TRUE}
  Restarts = FALSE
  Absent = Absent
INVARIANTS CountIsExact
